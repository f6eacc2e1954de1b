------------------------ MODULE MCKernelEvaluation ------------------------
(* Small instances of the evaluation of kernels in a subprocess for TLC.   *)
EXTENDS KernelEvaluation

Bare == [kind |-> "evaluation", backend |-> "cuda",
         cases |-> [i \in 1..NumTrials |-> "none"],
         run_correctness |-> "unset", run_triton_detection |-> "unset",
         enable_triton_detection |-> "unset", run_performance |-> "unset",
         measure_performance |-> "unset", enable_profiling |-> "unset"]

\* The workflow resolves every flag of a kernel's subtask.
Resolved ==
  {[Bare EXCEPT !.kind = "kernel_evaluation", !.backend = b,
                !.run_correctness = c,
                !.run_triton_detection = d, !.enable_triton_detection = d,
                !.run_performance = p, !.measure_performance = p,
                !.enable_profiling = f] :
     b \in {"triton", "cuda"}, c, d, p, f \in {"yes", "no"}}

\* An evaluation submitted without a workflow leaves flags unset.
Whole ==
  {[Bare EXCEPT !.backend = b, !.enable_triton_detection = d,
                !.measure_performance = p] :
     b \in {"triton", "cuda"}, d, p \in {"unset", "no"}}

\* A kernel_simple request may expect an output in each of its cases, or not.
Simple ==
  {[Bare EXCEPT !.kind = "kernel_simple", !.cases = e,
                !.run_correctness = c, !.run_performance = p] :
     e \in [1..NumTrials -> CaseKinds], c, p \in {"unset", "no"}}

MCTasks == Resolved \cup Whole \cup Simple
             \cup {[Bare EXCEPT !.kind = "reference_timing"]}

Right == [i \in 1..NumTrials |-> "right"]
Good  == [compile |-> "yes", create |-> "yes", trial |-> Right,
          triton |-> "always"]

\* Every way a kernel can fail before its trials, and every course of them.
MCKernels ==
  {[Good EXCEPT !.compile = c] : c \in {"invalid", "no"}}
    \cup {[Good EXCEPT !.create = c] : c \in {"runtime", "other", "fault"}}
    \cup {[Good EXCEPT !.trial = o, !.triton = l] :
            o \in [1..NumTrials -> Outcomes],
            l \in {"always", "never", "nograd"}}

\* The default settings on a correct CUDA kernel.
DefaultCuda == {t \in Resolved : /\ t.backend = "cuda"
                                 /\ t.run_triton_detection = "no"
                                 /\ t.run_correctness = "yes"
                                 /\ t.run_performance = "yes"
                                 /\ t.enable_profiling = "yes"}
=============================================================================
