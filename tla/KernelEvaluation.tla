-------------------------- MODULE KernelEvaluation --------------------------
(***************************************************************************)
(* What a subprocess of a worker does with the evaluations it is sent: the *)
(* loop of _persistent_worker_loop, the kernelbench toolkit, the stages of *)
(* eval_kernel_against_ref (load, compile, create, correctness trials,     *)
(* Triton detection, timing, profiling, coverage) and the timing of a      *)
(* reference; and the kernel_simple toolkit, which judges a kernel by the  *)
(* outputs its request expects.                                            *)
(*                                                                         *)
(* One process serves several evaluations (max_tasks_per_worker), so what  *)
(* one leaves behind meets the next.  `context' is the CUDA context: once  *)
(* a kernel has faulted on the GPU, every later synchronisation of the     *)
(* process raises, until the process is gone.  The code sees a fault only  *)
(* as an exception, and several stages catch exceptions.                   *)
(*                                                                         *)
(* A kernel is what it does: whether it compiles, whether its module can   *)
(* be built, how each correctness trial goes, and whether its forward pass *)
(* launches Triton kernels, always, never, or only without gradients.      *)
(***************************************************************************)
EXTENDS Integers, FiniteSets, Sequences

CONSTANTS Tasks,      \* the evaluations that may be sent, records of TaskType
          Kernels,    \* the kernels that may be sent, records of KernelType
          NumTrials,  \* num_correct_trials
          Retries,    \* profiling_retry_count
          MaxTasks,   \* max_tasks_per_worker
          Times,      \* the runtimes a reference may be measured at
          NoTask, NoKernel

Flags    == {"unset", "yes", "no"}
Outcomes == {"right", "wrong", "raise", "fault"}

\* A case of a kernel_simple request: no output expected, a tensor expected
\* without tolerances, or an output that can be compared.
CaseKinds == {"none", "bare", "told"}

TaskType ==
  [kind : {"kernel_evaluation", "evaluation", "reference_timing",
           "kernel_simple"},
   cases : [1..NumTrials -> CaseKinds],
   backend : {"triton", "cuda"},
   run_correctness : Flags, run_triton_detection : Flags,
   enable_triton_detection : Flags, run_performance : Flags,
   measure_performance : Flags, enable_profiling : Flags]

KernelType ==
  [compile : {"invalid", "no", "yes"},
   create  : {"yes", "runtime", "other", "fault"},
   trial   : [1..NumTrials -> Outcomes],
   triton  : {"always", "never", "nograd"}]

ASSUME ConstantsAssumption ==
  /\ Tasks \subseteq TaskType /\ NoTask \notin Tasks
  /\ NumTrials \in Nat
  /\ Kernels \subseteq KernelType /\ NoKernel \notin Kernels
  /\ Retries \in Nat
  /\ MaxTasks \in Nat \ {0}
  /\ Times \subseteq Nat \ {0}

VARIABLES pc,        \* the stage the process is in
          task,      \* the evaluation it serves
          kernel,    \* the kernel of that evaluation
          exec,      \* the KernelExecResult of that kernel
          session,   \* the backend session is "none" or "open"
          context,   \* the CUDA context is "clean" or "faulted"
          trial,     \* correctness trials run
          passed,    \* correctness trials passed
          matches,   \* metadata["triton_profiler_matches"]
          attempts,  \* profiling retries made
          metrics,   \* the profiling metrics kept
          times,     \* runtimes of the reference rounds, -1 for a failed one
          answer,    \* the result of the evaluation
          served,    \* evaluations served by this process
          begun      \* history: the context this evaluation began in

vars == <<pc, task, kernel, exec, session, context, trial, passed, matches,
          attempts, metrics, times, answer, served, begun>>

-----------------------------------------------------------------------------
(* Requests: the flags that are left unset have defaults.                  *)

FirstSet(v, w) == IF v = "unset" THEN w ELSE v

RunCorrectness(t) == t.run_correctness # "no"

RunDetection(t) ==
  LET v == FirstSet(t.run_triton_detection, t.enable_triton_detection)
  IN  v = "yes" \/ (v = "unset" /\ t.backend = "triton")

RunPerformance(t) ==
  FirstSet(t.run_performance, t.measure_performance) # "no"

RunProfiling(t) == t.enable_profiling # "no"

TrialsWanted(t) == IF RunCorrectness(t) THEN NumTrials ELSE 0

\* The cases of a kernel_simple request that have an output to compare.
Expected(t) ==
  {i \in 1..NumTrials : RunCorrectness(t) /\ t.cases[i] # "none"}

\* A timing task measures the reference three times, an evaluation once.
Rounds(t) == IF t.kind = "reference_timing" THEN 3 ELSE 1

\* Element n, from 0, of the runtimes once they are sorted.
Sorted(s, n) ==
  CHOOSE x \in {s[i] : i \in DOMAIN s} :
    /\ Cardinality({i \in DOMAIN s : s[i] < x}) <= n
    /\ Cardinality({i \in DOMAIN s : s[i] <= x}) > n

\* Mutant: the slowest round instead of the middle one.
MedianTimeLast(s) == Sorted(s, Len(s) - 1)

MedianTime(s) == Sorted(s, Len(s) \div 2)

-----------------------------------------------------------------------------
(* Results.                                                                *)

NoExec   == [compiled |-> FALSE, correct |-> FALSE, decoy |-> FALSE,
             timed |-> FALSE]
Judged(c) == [NoExec EXCEPT !.compiled = TRUE, !.correct = c]

\* The toolkit's result of an exception: no stage has a verdict any more.
Failed(names) == [status |-> "failed", namesCuda |-> names, exec |-> NoExec,
                  reference |-> 0]

Verdict(x, ref, names) ==
  [status |-> IF x.compiled THEN "completed" ELSE "failed",
   namesCuda |-> names, exec |-> x, reference |-> ref]

Timing(ref) == [status |-> "completed", namesCuda |-> FALSE,
                exec |-> NoExec, reference |-> ref]

-----------------------------------------------------------------------------
(* How a stage ends.                                                       *)

Goto(stage) == pc' = stage

\* An exception leaves the pipeline: its session is not closed.
Escape(names) ==
  /\ Goto("respond")
  /\ answer' = Failed(names)
  /\ UNCHANGED <<exec, session>>

\* Mutant: the early return of a decoy does not clean up.
FinishDecoyOpen(x, names) ==
  /\ session' = IF x.decoy THEN session ELSE "none"
  /\ exec' = x
  /\ IF task.kind = "kernel_evaluation"
       THEN Goto("respond") /\ answer' = Verdict(x, 0, names)
       ELSE Goto("reference") /\ UNCHANGED answer

\* The pipeline returns x, its session closed.  The backend's cleanup
\* swallows what the GPU raises.  Whether the message names CUDA is asked only
\* of a kernel that did not compile: any other result is completed.
Finish(x, names) ==
  /\ session' = "none"
  /\ exec' = x
  /\ IF task.kind = "kernel_evaluation"
       THEN Goto("respond") /\ answer' = Verdict(x, 0, names)
       ELSE Goto("reference") /\ UNCHANGED answer

-----------------------------------------------------------------------------
Init ==
  /\ pc = "idle"
  /\ task = NoTask /\ kernel = NoKernel
  /\ exec = NoExec /\ session = "none"
  /\ context = "clean" /\ begun = "clean"
  /\ trial = 0 /\ passed = 0 /\ matches = "unset"
  /\ attempts = 0 /\ metrics = "none" /\ times = <<>>
  /\ answer = Failed(FALSE) /\ served = 0

\* Take an evaluation from the queue.  Code that does not define its entry
\* point is refused before anything runs.
Receive(t, k) ==
  /\ pc = "idle"
  /\ task' = t /\ kernel' = k
  /\ begun' = context
  /\ Goto(CASE k.compile = "invalid" -> "respond"
            [] t.kind = "reference_timing" -> "reference"
            [] t.kind = "kernel_simple" -> "cases"
            [] OTHER -> "load")
  /\ UNCHANGED <<exec, session, context, trial, passed, matches, attempts,
                 metrics, times, answer, served>>

\* Load the original model.  Nothing catches what this raises; moving its
\* inputs to a faulted device may raise, and need not if it has none.
LoadOriginal ==
  /\ pc = "load"
  /\ \/ Goto("compile") /\ UNCHANGED <<exec, session, answer>>
     \/ \E names \in BOOLEAN :
          (context = "faulted" => names) /\ Escape(names)
  /\ UNCHANGED <<task, kernel, context, trial, passed, matches, attempts,
                 metrics, times, served, begun>>

\* The kernel does not compile, or its module does not load.  There is no
\* session to close, and what the bare cleanup raises on a faulted device
\* nothing catches.  A compiler's message may name CUDA.
CompileFails ==
  /\ pc = "compile" /\ kernel.compile = "no"
  /\ IF context = "faulted"
       THEN Escape(TRUE)
       ELSE \E names \in BOOLEAN : Finish(NoExec, names)
  /\ UNCHANGED <<task, kernel, context, trial, passed, matches, attempts,
                 metrics, times, served, begun>>

\* A lock file of another compilation is in the way, or the error has those
\* letters in it, as `block' has: the pipeline returns None, which the toolkit
\* then reads metadata from.
CompileLocked ==
  /\ pc = "compile"
  /\ Escape(context = "faulted")
  /\ UNCHANGED <<task, kernel, context, trial, passed, matches, attempts,
                 metrics, times, served, begun>>

\* Mutant: no synchronisation after the load.
CompileNoSync ==
  /\ pc = "compile" /\ kernel.compile = "yes"
  /\ Goto("create") /\ session' = "open"
  /\ UNCHANGED <<task, kernel, exec, context, trial, passed, matches, attempts,
                 metrics, times, answer, served, begun>>

\* Compile, load, open the session and synchronise.  If the device has
\* faulted that raises, and is recorded as a failure to compile.
Compile ==
  /\ pc = "compile" /\ kernel.compile = "yes"
  /\ IF context = "faulted"
       THEN Finish(NoExec, TRUE)
       ELSE Goto("create") /\ session' = "open" /\ UNCHANGED <<exec, answer>>
  /\ UNCHANGED <<task, kernel, context, trial, passed, matches, attempts,
                 metrics, times, served, begun>>

\* Build the kernel's module.  Only a RuntimeError is caught here, and a
\* fault of the GPU is one.
CreateModel ==
  /\ pc = "create"
  /\ CASE kernel.create = "yes" ->
            Goto("trials") /\ UNCHANGED <<exec, session, answer, context>>
       [] kernel.create = "runtime" ->
            Finish(Judged(FALSE), FALSE) /\ UNCHANGED context
       [] kernel.create = "fault" ->
            Finish(Judged(FALSE), FALSE) /\ context' = "faulted"
       [] kernel.create = "other" ->
            \E names \in BOOLEAN : Escape(names) /\ UNCHANGED context
  /\ UNCHANGED <<task, kernel, trial, passed, matches, attempts, metrics,
                 times, served, begun>>

\* One correctness trial.  A wrong output lets the trials go on; a wrong
\* shape, an exception or a fault ends them.
Trial ==
  /\ pc = "trials" /\ trial < TrialsWanted(task)
  /\ LET o == kernel.trial[trial + 1]
     IN  /\ trial' = trial + 1
         /\ passed' = IF o = "right" THEN passed + 1 ELSE passed
         /\ context' = IF o = "fault" THEN "faulted" ELSE context
         /\ IF o \in {"raise", "fault"}
              THEN Goto("detect") /\ exec' = Judged(FALSE)
              ELSE UNCHANGED <<pc, exec>>
  /\ UNCHANGED <<task, kernel, session, matches, attempts, metrics, times,
                 answer, served, begun>>

\* Mutant: one trial that passed is enough.
JudgeAny ==
  /\ pc = "trials" /\ trial = TrialsWanted(task)
  /\ Goto("detect")
  /\ exec' = Judged(passed > 0 \/ trial = 0)
  /\ UNCHANGED <<task, kernel, session, context, trial, passed, matches,
                 attempts, metrics, times, answer, served, begun>>

\* The trials are over: all must have passed.
Judge ==
  /\ pc = "trials" /\ trial = TrialsWanted(task)
  /\ Goto("detect")
  /\ exec' = Judged(passed = TrialsWanted(task))
  /\ UNCHANGED <<task, kernel, session, context, trial, passed, matches,
                 attempts, metrics, times, answer, served, begun>>

-----------------------------------------------------------------------------
SkipDetection ==
  /\ pc = "detect"
  /\ ~ RunDetection(task) \/ ~ exec.correct
  /\ Goto("time")
  /\ UNCHANGED <<task, kernel, exec, session, context, trial, passed, matches,
                 attempts, metrics, times, answer, served, begun>>

\* Mutant: launches seen in one of the modes are enough.
DetectEither ==
  /\ pc = "detect" /\ RunDetection(task) /\ exec.correct
  /\ matches' = IF kernel.triton = "never" THEN "none" ELSE "some"
  /\ IF kernel.triton = "never" /\ task.backend = "triton"
       THEN Finish([exec EXCEPT !.decoy = TRUE], FALSE)
       ELSE Goto("time") /\ UNCHANGED <<exec, session, answer>>
  /\ UNCHANGED <<task, kernel, context, trial, passed, attempts, metrics,
                 times, served, begun>>

\* Triton is used if launches were seen both without and with gradients.  A
\* kernel submitted as Triton that does not use it is a decoy, and done with.
Detect ==
  /\ pc = "detect" /\ RunDetection(task) /\ exec.correct
  /\ matches' = IF kernel.triton = "never" THEN "none" ELSE "some"
  /\ IF kernel.triton # "always" /\ task.backend = "triton"
       THEN Finish([exec EXCEPT !.decoy = TRUE], FALSE)
       ELSE Goto("time") /\ UNCHANGED <<exec, session, answer>>
  /\ UNCHANGED <<task, kernel, context, trial, passed, attempts, metrics,
                 times, served, begun>>

\* What the detection raises is swallowed, a fault of the GPU too.
DetectRaises ==
  /\ pc = "detect" /\ RunDetection(task) /\ exec.correct
  /\ context' \in {context, "faulted"}
  /\ Goto("time")
  /\ UNCHANGED <<task, kernel, exec, session, trial, passed, matches,
                 attempts, metrics, times, answer, served, begun>>

\* Nothing to time, or a device that raises: the kernel has no runtime.
SkipTiming ==
  /\ pc = "time"
  /\ ~ RunPerformance(task) \/ ~ exec.correct \/ context = "faulted"
  /\ Finish(exec, FALSE)
  /\ UNCHANGED <<task, kernel, context, trial, passed, matches, attempts,
                 metrics, times, served, begun>>

\* Warm up and time the kernel.
Time ==
  /\ pc = "time"
  /\ RunPerformance(task) /\ exec.correct /\ context = "clean"
  /\ IF RunProfiling(task)
       THEN Goto("profile") /\ UNCHANGED <<exec, session, answer>>
       ELSE Finish([exec EXCEPT !.timed = TRUE], FALSE)
  /\ UNCHANGED <<task, kernel, context, trial, passed, matches, attempts,
                 metrics, times, served, begun>>

\* What the timing raises is swallowed, a fault of the GPU too.
TimeRaises ==
  /\ pc = "time"
  /\ RunPerformance(task) /\ exec.correct /\ context = "clean"
  /\ context' \in {context, "faulted"}
  /\ Finish(exec, FALSE)
  /\ UNCHANGED <<task, kernel, trial, passed, matches, attempts, metrics,
                 times, served, begun>>

\* One profile of the kernel: no metrics at all, an error in their place, no
\* kernel among them, or kernels, some of them the custom ones or none.  A
\* fault of the GPU here is an error in place of the metrics.
Profiles == {"absent", "error", "empty", "foreign", "custom"}
Seen(m)  == m \in {"foreign", "custom"}

\* Mutant: one retry too many.
ProfileAgain(m) ==
  /\ pc = "profile"
  /\ m = "custom" => kernel.triton # "never" /\ matches = "some"
  /\ context = "faulted" => m = "error"
  /\ context' \in IF m = "error" THEN {context, "faulted"} ELSE {context}
  /\ IF ~ Seen(m) /\ attempts <= Retries
       THEN attempts' = attempts + 1 /\ UNCHANGED <<pc, metrics>>
       ELSE metrics' = m /\ Goto("cover") /\ UNCHANGED attempts
  /\ UNCHANGED <<task, kernel, exec, session, trial, passed, matches, times,
                 answer, served, begun>>

Profile(m) ==
  /\ pc = "profile"
  /\ m = "custom" => kernel.triton # "never" /\ matches = "some"
  /\ context = "faulted" => m = "error"
  /\ context' \in IF m = "error" THEN {context, "faulted"} ELSE {context}
  /\ IF ~ Seen(m) /\ attempts < Retries
       THEN attempts' = attempts + 1 /\ UNCHANGED <<pc, metrics>>
       ELSE metrics' = m /\ Goto("cover") /\ UNCHANGED attempts
  /\ UNCHANGED <<task, kernel, exec, session, trial, passed, matches, times,
                 answer, served, begun>>

\* Mutant: a profile without kernels marks a decoy.
CoverEmpty ==
  /\ pc = "cover"
  /\ Finish(IF metrics = "absent" THEN [exec EXCEPT !.timed = TRUE]
            ELSE IF matches = "unset" THEN exec
            ELSE [exec EXCEPT !.timed = TRUE, !.decoy = metrics # "custom"],
            FALSE)
  /\ UNCHANGED <<task, kernel, context, trial, passed, matches, attempts,
                 metrics, times, served, begun>>

\* Compare the profile with the launches that detection saw.  Detection has
\* not recorded any if it was off or raised: reading them then raises, and the
\* runtime that was measured is not recorded.
Cover ==
  /\ pc = "cover"
  /\ Finish(IF metrics = "absent" THEN [exec EXCEPT !.timed = TRUE]
            ELSE IF matches = "unset" THEN exec
            ELSE [exec EXCEPT !.timed = TRUE, !.decoy = metrics = "foreign"],
            FALSE)
  /\ UNCHANGED <<task, kernel, context, trial, passed, matches, attempts,
                 metrics, times, served, begun>>

-----------------------------------------------------------------------------
\* One round of timing the reference.  A failure to load it, to compile it or
\* to time it leaves a runtime of -1; on a faulted device, a failure that
\* comes later than the load also makes the cleanup raise.
Round ==
  /\ pc = "reference" /\ Len(times) < Rounds(task)
  /\ \/ \E t \in IF context = "clean" THEN Times \cup {-1} ELSE {-1} :
          times' = Append(times, t) /\ UNCHANGED <<pc, exec, session, answer>>
     \/ context = "faulted" /\ Escape(TRUE) /\ UNCHANGED times
  /\ UNCHANGED <<task, kernel, context, trial, passed, matches, attempts,
                 metrics, served, begun>>

\* The rounds are over.  A timing is completed whatever the rounds measured,
\* and the result of an evaluation carries no message.
Timed ==
  /\ pc = "reference" /\ Len(times) = Rounds(task)
  /\ Goto("respond")
  /\ answer' = IF task.kind = "reference_timing"
                 THEN Timing(MedianTime(times))
                 ELSE Verdict(exec, times[1], FALSE)
  /\ UNCHANGED <<task, kernel, exec, session, context, trial, passed, matches,
                 attempts, metrics, times, served, begun>>

(* The kernel_simple toolkit.                                              *)

\* The result of an exception after the kernel compiled: the kernel is not
\* correct, and the evaluation failed.
SimpleFails(names) ==
  /\ Goto("respond")
  /\ session' = "none"
  /\ exec' = Judged(FALSE)
  /\ answer' = [Verdict(Judged(FALSE), 0, names) EXCEPT !.status = "failed"]

SimpleEnds(x) ==
  /\ Goto("respond")
  /\ session' = "none"
  /\ exec' = x
  /\ answer' = Verdict(x, 0, FALSE)

\* Seed the generators, and take the cases from the request or from its code,
\* which may raise or name no case.  None of this needs the GPU.
LoadCases ==
  /\ pc = "cases"
  /\ \/ kernel.compile = "yes" /\ Goto("build") /\ session' = "open"
        /\ UNCHANGED <<exec, answer>>
     \/ \E names \in BOOLEAN : Escape(names)
  /\ UNCHANGED <<task, kernel, context, trial, passed, matches, attempts,
                 metrics, times, served, begun>>

\* Load the kernel and build its module, without a synchronisation: a fault of
\* the GPU, an earlier one too, may be noticed here or not.
BuildSimple ==
  /\ pc = "build"
  /\ context' = IF kernel.create = "fault" THEN "faulted" ELSE context
  /\ \/ /\ kernel.create \in {"yes", "fault"}
        /\ Goto("case") /\ UNCHANGED <<exec, session, answer>>
     \/ /\ kernel.create # "yes" \/ context = "faulted"
        /\ \E names \in BOOLEAN :
             (context' = "faulted" => names) /\ SimpleFails(names)
  /\ UNCHANGED <<task, kernel, trial, passed, matches, attempts, metrics,
                 times, served, begun>>

\* Comparing two tensors swallows what it raises, be it a fault of the GPU or
\* that the case names no tolerances, and takes it for a mismatch.
Matches(outcome, case) == outcome = "right" /\ case = "told"

\* One case.  A mismatch lets the cases go on; any other exception ends the
\* evaluation.  Moving a tensor to a faulted device raises; plain values are
\* not moved, and a case of theirs completes there as anywhere.
Case ==
  /\ pc = "case" /\ trial < NumTrials
  /\ trial' = trial + 1
  /\ LET o == kernel.trial[trial + 1]
     IN  \/ /\ trial + 1 \notin Expected(task)
            /\ UNCHANGED <<pc, exec, session, answer, context, passed>>
         \/ /\ trial + 1 \in Expected(task)
            /\ context = "clean" \/ task.cases[trial + 1] = "told"
            /\ o # "raise"
            /\ passed' = IF Matches(o, task.cases[trial + 1])
                           THEN passed + 1 ELSE passed
            /\ context' = IF o = "fault" THEN "faulted" ELSE context
            /\ UNCHANGED <<pc, exec, session, answer>>
         \/ /\ trial + 1 \in Expected(task)
            /\ context = "faulted" \/ o \in {"raise", "fault"}
            /\ context' = IF o = "fault" THEN "faulted" ELSE context
            /\ \E names \in BOOLEAN :
                 (context' = "faulted" => names) /\ SimpleFails(names)
            /\ UNCHANGED passed
  /\ UNCHANGED <<task, kernel, matches, attempts, metrics, times, served,
                 begun>>

\* The cases are over: without an output to compare there is no verdict.
JudgeCases ==
  /\ pc = "case" /\ trial = NumTrials
  /\ LET x == Judged(/\ Expected(task) # {}
                     /\ passed = Cardinality(Expected(task)))
     IN  IF RunPerformance(task)
           THEN Goto("clock") /\ exec' = x /\ UNCHANGED <<session, answer>>
           ELSE SimpleEnds(x)
  /\ UNCHANGED <<task, kernel, context, trial, passed, matches, attempts,
                 metrics, times, served, begun>>

\* Time the kernel on the inputs of the first case, whatever the verdict.  An
\* exception takes the verdict back; one of the profiler is swallowed.
TimeSimple ==
  /\ pc = "clock"
  /\ context' \in {context, "faulted"}
  /\ \/ /\ context = "clean"
        /\ context' = "faulted" => RunProfiling(task)
        /\ SimpleEnds([exec EXCEPT !.timed = TRUE])
     \/ \E names \in BOOLEAN :
          (context' = "faulted" => names) /\ SimpleFails(names)
  /\ UNCHANGED <<task, kernel, trial, passed, matches, attempts, metrics,
                 times, served, begun>>

-----------------------------------------------------------------------------
\* Return the result, and with it everything local to the evaluation.  The
\* process exits after a failed one whose message names CUDA; otherwise it is
\* kept until it has served MaxTasks.
Respond ==
  /\ pc = "respond"
  /\ served' = served + 1
  /\ Goto(IF \/ answer.status = "failed" /\ answer.namesCuda
             \/ served + 1 = MaxTasks
            THEN "exited" ELSE "idle")
  /\ task' = NoTask /\ kernel' = NoKernel
  /\ exec' = NoExec /\ session' = "none" /\ begun' = "clean"
  /\ trial' = 0 /\ passed' = 0 /\ matches' = "unset"
  /\ attempts' = 0 /\ metrics' = "none" /\ times' = <<>>
  /\ answer' = Failed(FALSE)
  /\ UNCHANGED context

\* The pool starts another process in its place.
Respawn ==
  /\ pc = "exited"
  /\ Goto("idle")
  /\ context' = "clean" /\ served' = 0
  /\ UNCHANGED <<task, kernel, exec, session, trial, passed, matches,
                 attempts, metrics, times, answer, begun>>

Next ==
  \/ \E t \in Tasks, k \in Kernels : Receive(t, k)
  \/ LoadOriginal \/ CompileFails \/ CompileLocked \/ Compile \/ CreateModel
  \/ Trial \/ Judge \/ SkipDetection \/ Detect \/ DetectRaises
  \/ SkipTiming \/ Time \/ TimeRaises
  \/ \E m \in Profiles : Profile(m)
  \/ LoadCases \/ BuildSimple \/ Case \/ JudgeCases \/ TimeSimple
  \/ Cover \/ Round \/ Timed \/ Respond \/ Respawn

Spec == Init /\ [][Next]_vars

-----------------------------------------------------------------------------
(* Properties.                                                             *)

\* Every variable has its type.
TypeOK ==
  /\ pc \in {"idle", "load", "compile", "create", "trials", "detect", "time",
             "profile", "cover", "reference", "cases", "build", "case", "clock",
             "respond", "exited"}
  /\ task \in Tasks \cup {NoTask} /\ kernel \in Kernels \cup {NoKernel}
  /\ exec \in [compiled : BOOLEAN, correct : BOOLEAN, decoy : BOOLEAN,
               timed : BOOLEAN]
  /\ session \in {"none", "open"}
  /\ context \in {"clean", "faulted"} /\ begun \in {"clean", "faulted"}
  /\ trial \in 0..NumTrials /\ passed \in 0..trial
  /\ matches \in {"unset", "none", "some"}
  /\ attempts \in 0..Retries
  /\ metrics \in Profiles \cup {"none"}
  /\ times \in Seq(Times \cup {-1}) /\ Len(times) <= 3
  /\ answer \in [status : {"completed", "failed"}, namesCuda : BOOLEAN,
                 exec : [compiled : BOOLEAN, correct : BOOLEAN,
                         decoy : BOOLEAN, timed : BOOLEAN],
                 reference : Times \cup {-1, 0}]
  /\ served \in 0..MaxTasks

Answering == pc = "respond"

\* A kernel answered correct gave the right output in every trial, or for
\* every case that expects one, unless the request turned the trials off
\* (run_and_check_correctness and the kernel_simple toolkit go on after a
\* mismatch, and the later stages keep the verdict).
CorrectIsRight ==
  Answering /\ answer.exec.correct /\ RunCorrectness(task) =>
    IF task.kind = "kernel_simple"
      THEN /\ Expected(task) # {}
           /\ \A i \in Expected(task) : kernel.trial[i] = "right"
      ELSE \A i \in 1..NumTrials : kernel.trial[i] = "right"

\* An evaluation that began on a faulted device is never answered with a time,
\* nor with a verdict other than the one its own kernel earned: whatever an
\* earlier kernel did, its fault is not held against a later one as a wrong
\* output (eval_kernel_against_ref synchronises before it builds the kernel;
\* the kernel_simple toolkit does not, and completes a request whose cases
\* never reach the GPU).
NoVerdictFromFault ==
  Answering /\ begun = "faulted" =>
    \/ answer.status = "failed"
    \/ task.kind = "reference_timing" /\ answer.reference = -1
    \/ /\ task.kind = "kernel_simple" /\ ~ answer.exec.timed
       /\ \A i \in Expected(task) : task.cases[i] = "told"
       /\ answer.exec.correct <=>
            /\ Expected(task) # {}
            /\ \A i \in Expected(task) : kernel.trial[i] = "right"

\* When an evaluation is answered its session has been closed, on every path
\* of both toolkits but one: a module whose constructor raises something other
\* than a RuntimeError in eval_kernel_against_ref.
SessionsAreClosed ==
  Answering /\ session = "open" =>
    kernel.create = "other" /\ task.kind # "kernel_simple"

\* A kernel submitted as Triton that detection saw, and that does not launch
\* Triton both with and without gradients, is answered without a runtime, so
\* that it never has a speedup (_run_triton_detection_step ends the
\* evaluation before the timing).
DecoyHasNoTime ==
  /\ Answering /\ task.backend = "triton"
  /\ matches # "unset" /\ kernel.triton # "always"
  => ~ answer.exec.timed

\* A kernel that always launches Triton is marked a decoy only by a profile
\* that saw kernels, none of which was known: never by a profiler that saw
\* nothing, failed, or was retried (_run_performance_step).
TritonIsNoDecoy ==
  Answering /\ answer.exec.decoy /\ kernel.triton = "always" =>
    metrics = "foreign"

\* The time of a reference is one that was measured, and most rounds were no
\* faster, and most no slower: one failed round or one outlier does not decide
\* it (evaluate_reference_timing's median of three).
MedianIsMeasured ==
  Answering /\ task.kind = "reference_timing" /\ answer.reference > 0 =>
    LET Most(S) == 2 * Cardinality(S) > Len(times)
    IN  /\ Most({i \in DOMAIN times : times[i] > 0})
        /\ Most({i \in DOMAIN times : times[i] >= answer.reference})
        /\ Most({i \in DOMAIN times : times[i] <= answer.reference})

\* A correct kernel that is not a decoy, and whose timing was measured, is
\* answered with its runtime (docs/ARCHITECTURE.md:149: the performance step
\* times it and gives kernel_runtime).  The code loses the runtime when the
\* profile is compared with launches that no detection recorded.
CorrectIsTimed ==
  /\ Answering /\ metrics # "none"
  /\ answer.exec.correct /\ ~ answer.exec.decoy
  => answer.exec.timed
=============================================================================
