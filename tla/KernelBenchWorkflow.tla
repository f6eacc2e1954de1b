------------------------ MODULE KernelBenchWorkflow ------------------------
(***************************************************************************)
(* An evaluation: _execute_workflow of server/api/server.py and the        *)
(* KernelBench controller, workflow/kernelbench.py, over a broker that     *)
(* keeps TaskContract and the reference cache of each server process; and  *)
(* the kernel_simple controller, workflow/kernel_simple.py.                *)
(*                                                                         *)
(*   Requests  POST /evaluate calls, each in one server process            *)
(*   Servers   uvicorn worker processes; each has a reference cache        *)
(*   Tasks     evaluations; task t has the subtasks t_kernel and t_ref,    *)
(*             or, of kernel_simple, is itself the task the broker runs      *)
(*                                                                         *)
(* A request awaits the broker to read an answer, to submit a subtask and  *)
(* to store its result; the code between two awaits is a step.             *)
(***************************************************************************)
EXTENDS Naturals, FiniteSets

CONSTANTS Requests, Servers, Tasks,
          NoProblem,    \* the problem of a time that is not there
          NoUuid,       \* a payload without uuid
          TaskOf,       \* the task id of a request
          ServerOf,     \* the server process that handles a request
          Forced,       \* the requests with force_refresh
          Payload,      \* what the requests for a task carry
          MaxTime,      \* bound on the times a reference run may measure
          MaxRestarts,  \* bound on restarts of server processes
          MaxReruns     \* bound on subtasks that run again after an answer

\* "sound": the code and the resources pass _validate_inputs or
\* validate_request.  "simple": the workflow is kernel_simple, which knows no
\* reference and no cache.
ASSUME WorkflowAssumption ==
  /\ TaskOf \in [Requests -> Tasks]
  /\ ServerOf \in [Requests -> Servers]
  /\ Forced \subseteq Requests
  /\ \A t \in Tasks :
        /\ DOMAIN Payload[t] = {"uuid", "ref", "is_valid", "use_cache", "sound",
                                "simple"}
        /\ {Payload[t].is_valid, Payload[t].use_cache, Payload[t].sound,
            Payload[t].simple} \subseteq BOOLEAN
        /\ Payload[t].simple => ~ Payload[t].use_cache
        /\ NoProblem # <<Payload[t].uuid, Payload[t].ref, Payload[t].is_valid>>
  /\ MaxTime \in Nat \ {0} /\ MaxRestarts \in Nat /\ MaxReruns \in Nat

VARIABLES
  known,    \* subtasks the broker has accepted
  kernel,   \* what a poll for t_kernel, or a simple t, returns
  ref,      \* what a poll for t_ref returns
  base,     \* the stored result of task t; a simple t has one record for both
  cache,    \* the reference cache of each server process
  req,      \* each request
  given,    \* history: the kernel answers each task ever had
  restarts, reruns   \* how much of each bound is used

answers == <<known, kernel, ref, given>>
bounds == <<restarts, reruns>>
vars == <<known, kernel, ref, base, cache, req, given, restarts, reruns>>

\* A measured reference time; "of" is what it measured.  0 stands for the 0.0
\* and the -1.0 of a reference that could not be timed.
Problem(t) == <<Payload[t].uuid, Payload[t].ref, Payload[t].is_valid>>
Problems == {Problem(t) : t \in Tasks}
Times == [of : Problems, ms : 0..MaxTime]
NoTime == [of |-> NoProblem, ms |-> 0]

\* The answer of a kernel subtask: an error of the broker, a kernel that did not
\* compile (a simple one: that failed) or is wrong, a correct one without or
\* with a runtime.
KernelAnswers == {"none", "error", "uncompiled", "wrong", "untimed", "timed"}
Correct == {"untimed", "timed"}

\* The answer of a reference subtask; "ok" is its status "completed".
RefAnswers == [kind : {"none", "error"}, ok : {FALSE}, time : {NoTime}]
                 \cup [kind : {"result"}, ok : BOOLEAN, time : Times]
NoRef == [kind |-> "none", ok |-> FALSE, time |-> NoTime]

\* The result of an evaluation; "speedup" says whether it is above 0.
NoResult == [status |-> "none", correct |-> FALSE, time |-> NoTime,
             speedup |-> FALSE]
FailedResult == [NoResult EXCEPT !.status = "failed"]
Results == [status : {"completed", "failed"}, correct : BOOLEAN,
            time : Times \cup {NoTime}, speedup : BOOLEAN]

\* "plan": whether the pairing made a reference task.
Waiting == [pc |-> "new", plan |-> "none", kernel |-> "none", out |-> NoResult]

Init == /\ known = {}
        /\ kernel = [t \in Tasks |-> "none"]
        /\ ref = [t \in Tasks |-> NoRef]
        /\ base = [t \in Tasks |-> NoResult]
        /\ cache = [s \in Servers |-> [k \in Problems |-> NoTime]]
        /\ req = [r \in Requests |-> Waiting]
        /\ given = [t \in Tasks |-> {}]
        /\ restarts = 0 /\ reruns = 0

-----------------------------------------------------------------------------
(* The broker, as its contract allows *)

Subtasks == {"kernel", "ref"} \X Tasks
Poll == [s \in Subtasks |->
           LET a == IF s[1] = "kernel" THEN kernel[s[2]] ELSE ref[s[2]].kind
           IN IF a \in {"none", "error"} THEN a ELSE "result"]
Broker == INSTANCE TaskContract
            WITH Tasks <- Subtasks, known <- known, answer <- Poll

\* The scheduler's submit: an id that exists is returned as it is, and what a
\* server has stored under a simple task's id makes it exist.
Submitted(s) == /\ UNCHANGED <<kernel, ref, given>>
                /\ IF s \in known \/ Poll[s] # "none"
                     THEN UNCHANGED known ELSE Broker!Accept(s)

Rerun(s) == /\ reruns + (IF Poll[s] = "none" THEN 0 ELSE 1) <= MaxReruns
            /\ reruns' = reruns + (IF Poll[s] = "none" THEN 0 ELSE 1)

\* _kernel_only_result, and the result of a simple task: no reference, no
\* speedup.
KernelOnly(k) ==
  [NoResult EXCEPT !.status = IF k = "uncompiled" THEN "failed" ELSE "completed",
                   !.correct = k \in Correct]

\* A worker, a shutdown or a cancellation answers t_kernel, or a simple t: the
\* worker's result is then already that of the evaluation.
AnswerKernel(t) ==
  LET s == <<"kernel", t>>
  IN /\ s \in known
     /\ Rerun(s)
     /\ \E a \in KernelAnswers \ {"none"} :
           /\ kernel' = [kernel EXCEPT ![t] = a]
           /\ given' = [given EXCEPT ![t] = @ \cup {a}]
           /\ base' = IF Payload[t].simple /\ a # "error"
                        THEN [base EXCEPT ![t] = KernelOnly(a)] ELSE base
     /\ UNCHANGED <<known, ref>>
     /\ Broker!GiveError(s) \/ Broker!GiveResult(s)
     /\ UNCHANGED <<cache, req, restarts>>

\* The same for t_ref; a run that completed may still have measured nothing.
AnswerRef(t) ==
  LET s == <<"ref", t>>
  IN /\ s \in known
     /\ Rerun(s)
     /\ \E a \in RefAnswers :
           /\ a.kind = "result" => /\ a.time.of = Problem(t)
                                   /\ ~ a.ok => a.time.ms = 0
           /\ ref' = [ref EXCEPT ![t] = a]
     /\ UNCHANGED <<known, kernel, given>>
     /\ Broker!GiveError(s) \/ Broker!GiveResult(s)
     /\ UNCHANGED <<base, cache, req, restarts>>

-----------------------------------------------------------------------------
(* The reference cache *)

\* Mutant: the key is the uuid and the validation state.
CacheKeyNoHash(t) == CHOOSE k \in Problems : /\ k[1] = Payload[t].uuid
                                             /\ k[3] = Payload[t].is_valid

\* _key: uuid, hash of the reference code, is_valid.
CacheKey(t) == Problem(t)

\* get: nothing without a uuid.
CacheGet(s, t) == IF Payload[t].uuid = NoUuid THEN NoTime
                  ELSE cache[s][CacheKey(t)]

\* Mutant: every evaluation with a uuid writes the cache.
CachePutAlways(s, t, time) ==
  IF Payload[t].uuid = NoUuid THEN cache
  ELSE [cache EXCEPT ![s][CacheKey(t)] = time]

\* put, called only if the evaluation uses the cache.
CachePut(s, t, time) ==
  IF ~ Payload[t].use_cache \/ Payload[t].uuid = NoUuid THEN cache
  ELSE [cache EXCEPT ![s][CacheKey(t)] = time]

-----------------------------------------------------------------------------
(* Results *)

\* _validate_inputs.
Valid(t) == Payload[t].sound /\ (Payload[t].use_cache => Payload[t].uuid # NoUuid)

\* _combine_results of a correct kernel with a reference result.
Combined(k, ok, time) ==
  [status |-> IF ok THEN "completed" ELSE "failed", correct |-> TRUE,
   time |-> time, speedup |-> k = "timed" /\ time.ms > 0]

-----------------------------------------------------------------------------
(* A request *)

To(r, pc) == req' = [req EXCEPT ![r].pc = pc]
Storing(r, out) == req' = [req EXCEPT ![r].pc = "store", ![r].out = out]

\* The task has a result and the request does not force a new one.
BeginAnswered(r) ==
  /\ req[r].pc = "new"
  /\ r \notin Forced
  /\ base[TaskOf[r]] # NoResult
  /\ req' = [req EXCEPT ![r].pc = "done", ![r].out = base[TaskOf[r]]]
  /\ UNCHANGED <<answers, base, cache, bounds>>

\* The broker has failed a simple task and no server has stored a result yet.
FailedOnly(t) ==
  Payload[t].simple /\ kernel[t] = "error" /\ base[t] = NoResult

\* The broker's error has no status, which _result_status takes for completed.
BeginFailed(r) ==
  /\ req[r].pc = "new"
  /\ r \notin Forced
  /\ FailedOnly(TaskOf[r])
  /\ req' = [req EXCEPT ![r].pc = "done",
                        ![r].out = [FailedResult EXCEPT !.status = "completed"]]
  /\ UNCHANGED <<answers, base, cache, bounds>>

NoAnswerYet(r) ==
  r \in Forced \/ (base[TaskOf[r]] = NoResult /\ ~ FailedOnly(TaskOf[r]))

BeginInvalid(r) ==
  /\ req[r].pc = "new"
  /\ NoAnswerYet(r)
  /\ ~ Valid(TaskOf[r])
  /\ Storing(r, FailedResult)
  /\ UNCHANGED <<answers, base, cache, bounds>>

\* _create_paired_tasks makes a reference task unless the cache has its time.
Plan(s, t) ==
  IF Payload[t].use_cache /\ CacheGet(s, t) # NoTime THEN "cached" ELSE "time"

BeginPair(r) ==
  /\ req[r].pc = "new"
  /\ NoAnswerYet(r)
  /\ Valid(TaskOf[r]) /\ ~ Payload[TaskOf[r]].simple
  /\ req' = [req EXCEPT ![r].pc = "submit_kernel",
                        ![r].plan = Plan(ServerOf[r], TaskOf[r])]
  /\ UNCHANGED <<answers, base, cache, bounds>>

\* A simple task is submitted as it is.
BeginSimple(r) ==
  /\ req[r].pc = "new"
  /\ NoAnswerYet(r)
  /\ Valid(TaskOf[r]) /\ Payload[TaskOf[r]].simple
  /\ To(r, "submit_kernel")
  /\ UNCHANGED <<answers, base, cache, bounds>>

\* Mutant: the reference is submitted behind the kernel, without waiting.
SubmitKernelBoth(r) ==
  /\ req[r].pc = "submit_kernel"
  /\ Submitted(<<"kernel", TaskOf[r]>>)
  /\ To(r, "submit_ref")
  /\ UNCHANGED <<base, cache, bounds>>

SubmitKernel(r) ==
  /\ req[r].pc = "submit_kernel"
  /\ Submitted(<<"kernel", TaskOf[r]>>)
  /\ To(r, "await_kernel")
  /\ UNCHANGED <<base, cache, bounds>>

\* Mutant: only a result ends the wait.
KernelThereNoError(r) == kernel[TaskOf[r]] \notin {"none", "error"}

\* The wait ends with any answer.
KernelThere(r) == kernel[TaskOf[r]] # "none"

\* An error of the broker, or a kernel that is not compiled and correct.
KernelRejected(r) ==
  /\ req[r].pc = "await_kernel"
  /\ KernelThere(r)
  /\ LET k == kernel[TaskOf[r]]
     IN \/ k = "error" /\ Storing(r, FailedResult)
        \/ k \in {"uncompiled", "wrong"} /\ Storing(r, KernelOnly(k))
  /\ UNCHANGED <<answers, base, cache, bounds>>

\* A correct kernel without a reference task reads the cache again, and makes
\* the reference task if the time is gone.
KernelAccepted(r) ==
  /\ req[r].pc = "await_kernel"
  /\ kernel[TaskOf[r]] \in Correct /\ ~ Payload[TaskOf[r]].simple
  /\ LET k == kernel[TaskOf[r]]
         time == CacheGet(ServerOf[r], TaskOf[r])
     IN IF req[r].plan = "cached" /\ time # NoTime
        THEN Storing(r, Combined(k, TRUE, time))
        ELSE req' = [req EXCEPT ![r].pc = "submit_ref", ![r].kernel = k]
  /\ UNCHANGED <<answers, base, cache, bounds>>

\* The result of a correct simple kernel is returned as it is.
SimpleAccepted(r) ==
  /\ req[r].pc = "await_kernel"
  /\ kernel[TaskOf[r]] \in Correct /\ Payload[TaskOf[r]].simple
  /\ Storing(r, KernelOnly(kernel[TaskOf[r]]))
  /\ UNCHANGED <<answers, base, cache, bounds>>

SubmitRef(r) ==
  /\ req[r].pc = "submit_ref"
  /\ Submitted(<<"ref", TaskOf[r]>>)
  /\ To(r, "await_ref")
  /\ UNCHANGED <<base, cache, bounds>>

RefError(r) ==
  /\ req[r].pc = "await_ref"
  /\ ref[TaskOf[r]].kind = "error"
  /\ Storing(r, KernelOnly(req[r].kernel))
  /\ UNCHANGED <<answers, base, cache, bounds>>

\* Whatever the reference run reports is put into the cache and combined.
RefResult(r) ==
  LET t == TaskOf[r]
  IN /\ req[r].pc = "await_ref"
     /\ ref[t].kind = "result"
     /\ cache' = CachePut(ServerOf[r], t, ref[t].time)
     /\ Storing(r, Combined(req[r].kernel, ref[t].ok, ref[t].time))
     /\ UNCHANGED <<answers, base, bounds>>

\* What a poll for a simple task returns once out is stored.
AsAnswer(out) == CASE out.status = "failed" -> "uncompiled"
                   [] out.correct -> "untimed"
                   [] OTHER -> "wrong"

\* complete_task of the task's own id, then the response.  For a simple task
\* that replaces the worker's result, or joins the broker's error.
Store(r) ==
  LET t == TaskOf[r]
  IN /\ req[r].pc = "store"
     /\ base' = [base EXCEPT ![t] = req[r].out]
     /\ kernel' = IF Payload[t].simple
                    THEN [kernel EXCEPT ![t] = AsAnswer(req[r].out)] ELSE kernel
     /\ To(r, "done")
     /\ UNCHANGED <<known, ref, given, cache, bounds>>

RequestStep(r) ==
  \/ BeginPair(r) \/ BeginSimple(r)
  \/ BeginAnswered(r) \/ BeginFailed(r) \/ BeginInvalid(r)
  \/ SubmitKernel(r)
  \/ KernelRejected(r) \/ KernelAccepted(r) \/ SimpleAccepted(r)
  \/ SubmitRef(r) \/ RefError(r) \/ RefResult(r) \/ Store(r)

\* A server process restarts: its cache is empty, its requests are gone.
RestartServer(s) ==
  /\ restarts < MaxRestarts
  /\ restarts' = restarts + 1
  /\ cache' = [cache EXCEPT ![s] = [k \in Problems |-> NoTime]]
  /\ req' = [r \in Requests |->
               IF ServerOf[r] = s /\ req[r].pc \notin {"new", "done"}
               THEN [Waiting EXCEPT !.pc = "gone"] ELSE req[r]]
  /\ UNCHANGED <<answers, base, reruns>>

Next == \/ \E r \in Requests : RequestStep(r)
        \/ \E t \in Tasks : AnswerKernel(t) \/ AnswerRef(t)
        \/ \E s \in Servers : RestartServer(s)

Spec == Init /\ [][Next]_vars

-----------------------------------------------------------------------------
(* Types *)

InFlight == {"submit_kernel", "await_kernel", "submit_ref", "await_ref", "store"}

RequestOK(q) ==
  /\ q.pc \in InFlight \cup {"new", "done", "gone"}
  /\ q.plan \in {"none", "cached", "time"}
  /\ q.kernel \in Correct \cup {"none"}
  /\ q.out \in Results \cup {NoResult}
  /\ q.pc \in {"submit_ref", "await_ref"} => q.kernel # "none"
  /\ q.pc \in {"store", "done"} => q.out \in Results

\* The types, and what a program counter says of the other fields: a reference
\* is only timed for a kernel found correct, and a stored time is a real one.
TypeOK ==
  /\ known \subseteq Subtasks
  /\ kernel \in [Tasks -> KernelAnswers]
  /\ ref \in [Tasks -> RefAnswers]
  /\ \A t \in Tasks : base[t] \in Results \cup {NoResult}
  /\ cache \in [Servers -> [Problems -> Times \cup {NoTime}]]
  /\ DOMAIN req = Requests /\ \A r \in Requests : RequestOK(req[r])
  /\ given \in [Tasks -> SUBSET KernelAnswers]
  /\ restarts \in 0..MaxRestarts /\ reruns \in 0..MaxReruns

-----------------------------------------------------------------------------
(* Safety *)

\* A stored result earned what it claims.  If it says correct, a run of its own
\* kernel task found it correct; if it has a speedup, a run found it correct and
\* timed it, and its denominator measured the same reference code for the same
\* problem and validation state - in whichever evaluation that was.
SpeedupIsEarned ==
  \A t \in Tasks :
     /\ base[t].correct => given[t] \cap Correct # {}
     /\ base[t].speedup => "timed" \in given[t] /\ base[t].time.of = Problem(t)

\* The requests of a server that paired before the cache knew their problem and
\* may still write it.
Early(s, k) == {r \in Requests : /\ ServerOf[r] = s
                                 /\ Problem(TaskOf[r]) = k
                                 /\ Payload[TaskOf[r]].use_cache
                                 /\ req[r].plan = "time"
                                 /\ req[r].pc \in InFlight \ {"store"}}

\* "Subsequent requests reuse the denominator": once a server's cache knows a
\* problem and the evaluations that paired before that are through, the time is
\* fixed and no evaluation that uses the cache times the reference again, until
\* the server restarts.
DenominatorSettles ==
  [][\A s \in Servers, k \in Problems :
        cache[s][k] # NoTime /\ Early(s, k) = {} =>
          \/ cache'[s][k] = cache[s][k] /\ Early(s, k)' = {}
          \/ restarts' # restarts]_vars

\* docs/ARCHITECTURE.md:202, "all samples/turns of the same problem share one
\* reference_runtime": two speedups of one problem have one denominator.
Divided == {t \in Tasks : base[t].speedup /\ Payload[t].use_cache}
OneDenominator ==
  \A t, u \in Divided : Problem(t) = Problem(u) => base[t].time = base[u].time

-----------------------------------------------------------------------------
(* Liveness *)

\* Handlers run to their end and the broker answers what it accepted (its
\* liveness without faults).  Every behaviour comes to an end, so that fairness
\* of the whole is the same as fairness of each request and each answer.
Progress == \/ \E r \in Requests : RequestStep(r)
            \/ \E t \in Tasks : \/ kernel[t] = "none" /\ AnswerKernel(t)
                                \/ ref[t].kind = "none" /\ AnswerRef(t)
FairSpec == Spec /\ WF_vars(Progress)

\* Every request gets a response, unless its server restarts, whatever the
\* subtasks answer: errors, failures, results of earlier runs.
RequestIsAnswered ==
  \A r \in Requests : req[r].pc # "new" ~> req[r].pc \in {"done", "gone"}
=============================================================================
