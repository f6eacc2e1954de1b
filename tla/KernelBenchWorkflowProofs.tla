--------------------- MODULE KernelBenchWorkflowProofs ---------------------
(***************************************************************************)
(* Theorems about the evaluation workflow, for every value of its          *)
(* constants.                                                              *)
(***************************************************************************)
EXTENDS KernelBenchWorkflow, TLAPS

Stages == InFlight \cup {"new", "done", "gone"}
States == [pc : Stages, plan : {"none", "cached", "time"},
           kernel : Correct \cup {"none"}, out : Results \cup {NoResult}]

\* What an answer k, and a result o, of task t claim of ks, the answers t had.
Runs(ks, k) == /\ k \in Correct => ks \cap Correct # {}
               /\ k = "timed" => "timed" \in ks
Earned(t, ks, o) == /\ o.correct => ks \cap Correct # {}
                    /\ o.speedup => "timed" \in ks /\ o.time.of = Problem(t)

\* A request in state q, whose server's cache says x of its problem: what it
\* carries at which stage, and that a pairing which found the time in the cache
\* has not lost it.
Paired(r, q, x) ==
  /\ q.pc = "new" => q.plan = "none"
  /\ q.pc \in {"submit_kernel", "await_kernel"} =>
        Payload[TaskOf[r]].simple \/ q.plan # "none"
  /\ q.pc \in {"submit_ref", "await_ref"} => q.plan = "time" /\ q.kernel # "none"
  /\ q.plan = "cached" /\ q.pc \in InFlight => x # NoTime
Fit(r, q, ks, x) ==
  /\ q \in States
  /\ q.pc \in {"store", "done"} => q.out \in Results
  /\ Paired(r, q, x)
  /\ Runs(ks, q.kernel)
  /\ q.pc = "store" => Earned(TaskOf[r], ks, q.out)

Had(r) == given[TaskOf[r]]
Read(r) == CacheGet(ServerOf[r], TaskOf[r])

KernelOK == /\ known \subseteq Subtasks
            /\ kernel \in [Tasks -> KernelAnswers]
            /\ \A t \in Tasks : Runs(given[t], kernel[t])
RefOK == /\ ref \in [Tasks -> RefAnswers]
         /\ \A t \in Tasks : ref[t].kind = "result" => ref[t].time.of = Problem(t)
BaseOK == /\ DOMAIN base = Tasks
          /\ \A t \in Tasks : base[t] \in Results \cup {NoResult} /\ Earned(t, given[t], base[t])
CacheOK == /\ cache \in [Servers -> [Problems -> Times \cup {NoTime}]]
           /\ \A s \in Servers, k \in Problems :
                 cache[s][k] # NoTime => cache[s][k].of = k
ReqOK == DOMAIN req = Requests /\ \A r \in Requests : Fit(r, req[r], Had(r), Read(r))
GivenOK == given \in [Tasks -> SUBSET KernelAnswers]
BoundOK == restarts \in 0..MaxRestarts /\ reruns \in 0..MaxReruns

IInv == /\ KernelOK /\ RefOK /\ BaseOK /\ CacheOK /\ ReqOK /\ GivenOK /\ BoundOK

-----------------------------------------------------------------------------
(* Constants and results. *)

LEMMA NoProblemOutside == NoProblem \notin Problems
BY WorkflowAssumption DEF Problems, Problem

LEMMA TimesAreReal == \A x \in Times : x # NoTime /\ x.of \in Problems
BY NoProblemOutside DEF Times, NoTime

LEMMA ProblemType == \A t \in Tasks : Problem(t) \in Problems
BY DEF Problems

LEMMA RequestTypes ==
  ASSUME NEW r \in Requests
  PROVE  TaskOf[r] \in Tasks /\ ServerOf[r] \in Servers
BY WorkflowAssumption

LEMMA KernelOnlyResult ==
  ASSUME NEW k
  PROVE  /\ KernelOnly(k) \in Results
         /\ KernelOnly(k).correct <=> k \in Correct
         /\ ~ KernelOnly(k).speedup
         /\ KernelOnly(k).status = IF k = "uncompiled" THEN "failed" ELSE "completed"
<1>1. CASE k \in Correct
  <2>1. (k \in Correct) = TRUE
    BY <1>1
  <2>2. KernelOnly(k) =
          [NoResult EXCEPT !.status = IF k = "uncompiled" THEN "failed" ELSE "completed",
                           !.correct = TRUE]
    BY <2>1, Zenon DEF KernelOnly
  <2>3. KernelOnly(k) = [status |-> IF k = "uncompiled" THEN "failed" ELSE "completed",
                         correct |-> TRUE, time |-> NoTime, speedup |-> FALSE]
    BY <2>2 DEF NoResult
  <2>. QED
    BY <1>1, <2>3 DEF Results
<1>2. CASE k \notin Correct
  <2>1. (k \in Correct) = FALSE
    BY <1>2
  <2>2. KernelOnly(k) =
          [NoResult EXCEPT !.status = IF k = "uncompiled" THEN "failed" ELSE "completed",
                           !.correct = FALSE]
    BY <2>1, Zenon DEF KernelOnly
  <2>3. KernelOnly(k) = [status |-> IF k = "uncompiled" THEN "failed" ELSE "completed",
                         correct |-> FALSE, time |-> NoTime, speedup |-> FALSE]
    BY <2>2 DEF NoResult
  <2>. QED
    BY <1>2, <2>3 DEF Results
<1>. QED
  BY <1>1, <1>2

LEMMA FailedResults ==
  /\ FailedResult \in Results /\ ~ FailedResult.correct /\ ~ FailedResult.speedup
  /\ [FailedResult EXCEPT !.status = "completed"] \in Results
BY DEF FailedResult, NoResult, Results

LEMMA CombinedResult ==
  ASSUME NEW k, NEW ok \in BOOLEAN, NEW x \in Times
  PROVE  /\ Combined(k, ok, x) \in Results
         /\ Combined(k, ok, x).correct = TRUE
         /\ Combined(k, ok, x).time = x
         /\ Combined(k, ok, x).speedup => k = "timed"
<1>1. (k = "timed" /\ x.ms > 0) \in BOOLEAN
  OBVIOUS
<1>. QED
  BY <1>1 DEF Combined, Results

\* What the cache hands out is the time of the problem asked for.
LEMMA CacheTime ==
  ASSUME CacheOK, NEW s \in Servers, NEW t \in Tasks, CacheGet(s, t) # NoTime
  PROVE  CacheGet(s, t) \in Times /\ CacheGet(s, t).of = Problem(t)
BY ProblemType DEF CacheOK, CacheGet, CacheKey

-----------------------------------------------------------------------------
LEMMA IInvInit == Init => IInv
<1> SUFFICES ASSUME Init
             PROVE  IInv
  OBVIOUS
<1>1. KernelOK /\ RefOK /\ GivenOK /\ BoundOK
  BY WorkflowAssumption
     DEF Init, KernelOK, RefOK, GivenOK, BoundOK, Runs, KernelAnswers, Correct,
         RefAnswers, NoRef
<1>2. BaseOK
  BY DEF Init, BaseOK, Earned, NoResult
<1>3. CacheOK
  BY DEF Init, CacheOK
<1>4. ReqOK
  <2>1. SUFFICES ASSUME NEW r \in Requests
                 PROVE  Fit(r, Waiting, Had(r), Read(r))
    BY DEF Init, ReqOK
  <2>. QED
    BY DEF Fit, Paired, Runs, Correct, States, Stages, InFlight, Waiting
<1>. QED
  BY <1>1, <1>2, <1>3, <1>4 DEF IInv

\* The type invariant of the model.
LEMMA IInvTypes == IInv => TypeOK
<1> SUFFICES ASSUME IInv
             PROVE  TypeOK
  OBVIOUS
<1>1. ASSUME NEW r \in Requests
      PROVE  RequestOK(req[r])
  <2>1. Fit(r, req[r], Had(r), Read(r))
    BY DEF IInv, ReqOK
  <2>. QED
    BY <2>1 DEF Fit, Paired, States, Stages, RequestOK
<1>. QED
  BY <1>1
     DEF IInv, TypeOK, KernelOK, RefOK, BaseOK, CacheOK, ReqOK, GivenOK, BoundOK

-----------------------------------------------------------------------------
(* Steps of a request. *)

\* What becomes of the requests when r moves.
Moves(r, p) == [req EXCEPT ![r].pc = p]
Sends(r, p, o) == [req EXCEPT ![r].pc = p, ![r].out = o]
Becomes(r, x) == [req EXCEPT ![r] = x]

\* What makes a request fit lasts: answers are not forgotten, and a cache forgets
\* nothing but by a restart.
LEMMA FitLasts ==
  ASSUME NEW r, NEW q, NEW ks, NEW ls, NEW x, NEW y, Fit(r, q, ks, x),
         ks \subseteq ls, x # NoTime => y # NoTime
  PROVE  Fit(r, q, ls, y)
BY DEF Fit, Paired, Runs, Earned

LEMMA ReqStep ==
  ASSUME ReqOK, NEW r \in Requests, NEW x, Fit(r, x, Had(r), Read(r)),
         req' = Becomes(r, x),
         \A q \in Requests : /\ Had(q) \subseteq Had(q)'
                             /\ Read(q) # NoTime => Read(q)' # NoTime
  PROVE  ReqOK'
<1>1. DOMAIN req' = Requests
  BY DEF ReqOK, Becomes
<1>2. ASSUME NEW q \in Requests
      PROVE  Fit(q, req'[q], Had(q)', Read(q)')
  <2>1. Fit(q, req'[q], Had(q), Read(q))
    BY DEF ReqOK, Becomes
  <2>. QED
    BY <2>1, FitLasts
<1>. QED
  BY <1>1, <1>2 DEF ReqOK

\* A step that only moves one request.
LEMMA QuietInv ==
  ASSUME IInv, NEW r \in Requests, NEW x, Fit(r, x, Had(r), Read(r)),
         req' = Becomes(r, x),
         UNCHANGED <<known, kernel, ref, given, base, cache, restarts, reruns>>
  PROVE  IInv'
<1>1. ReqOK'
  BY ReqStep DEF IInv, Had, Read, CacheGet
<1>. QED
  BY <1>1 DEF IInv, KernelOK, RefOK, BaseOK, CacheOK, GivenOK, BoundOK

\* The state of a request after it was sent on with a result.
Sent(q, p, o) == [pc |-> p, plan |-> q.plan, kernel |-> q.kernel, out |-> o]

LEMMA SentOn ==
  ASSUME ReqOK, NEW r \in Requests, NEW p, NEW o
  PROVE  /\ Sends(r, p, o) = Becomes(r, Sent(req[r], p, o))
         /\ Moves(r, p) = Becomes(r, Sent(req[r], p, req[r].out))
<1> DEFINE q == req[r]
<1>1. q \in States /\ DOMAIN req = Requests
  BY DEF ReqOK, Fit
<1>2. [q EXCEPT !.pc = p] = Sent(q, p, q.out)
  BY <1>1 DEF States, Sent
<1>3. [q EXCEPT !.pc = p, !.out = o] = Sent(q, p, o)
  <2>1. [q EXCEPT !.pc = p, !.out = o] = [Sent(q, p, q.out) EXCEPT !.out = o]
    BY <1>2
  <2>. QED
    BY <2>1 DEF Sent
<1>4. Sends(r, p, o) = [req EXCEPT ![r] = [q EXCEPT !.pc = p, !.out = o]]
  BY <1>1 DEF Sends
<1>5. Moves(r, p) = [req EXCEPT ![r] = [q EXCEPT !.pc = p]]
  BY DEF Moves
<1>. QED
  BY <1>2, <1>3, <1>4, <1>5 DEF Becomes

\* A request that has its result.
LEMMA ResultFits ==
  ASSUME ReqOK, NEW r \in Requests, NEW o \in Results, NEW p \in {"store", "done"},
         p = "store" => Earned(TaskOf[r], Had(r), o),
         req[r].pc \in InFlight \cup {"new"}
  PROVE  Fit(r, Sent(req[r], p, o), Had(r), Read(r))
<1>1. Fit(r, req[r], Had(r), Read(r))
  BY DEF ReqOK
<1>. QED
  BY <1>1 DEF Fit, Paired, States, Stages, InFlight, Sent

LEMMA BeginInv ==
  ASSUME IInv, NEW r \in Requests,
         \/ BeginPair(r) \/ BeginSimple(r)
         \/ BeginAnswered(r) \/ BeginFailed(r) \/ BeginInvalid(r)
  PROVE  IInv'
<1> DEFINE t == TaskOf[r]
<1>1. ReqOK /\ t \in Tasks /\ ServerOf[r] \in Servers
  BY RequestTypes DEF IInv
<1>2. /\ req[r].pc = "new" /\ req[r].plan = "none"
      /\ Fit(r, req[r], Had(r), Read(r)) /\ DOMAIN req = Requests
  BY <1>1 DEF ReqOK, Fit, Paired, BeginPair, BeginSimple, BeginAnswered, BeginFailed,
              BeginInvalid
<1>3. UNCHANGED <<known, kernel, ref, given, base, cache, restarts, reruns>>
  BY DEF BeginPair, BeginSimple, BeginAnswered, BeginFailed, BeginInvalid, answers,
         bounds
<1>4. ASSUME NEW o \in Results, NEW p \in {"store", "done"},
             p = "store" => Earned(t, Had(r), o),
             req' = Sends(r, p, o)
      PROVE  IInv'
  <2>1. Fit(r, Sent(req[r], p, o), Had(r), Read(r))
    BY <1>1, <1>2, <1>4, ResultFits
  <2>2. req' = Becomes(r, Sent(req[r], p, o))
    BY <1>1, <1>4, SentOn
  <2>. QED
    BY <1>3, <2>1, <2>2, QuietInv
<1>5. CASE BeginPair(r)
  <2> DEFINE x == [pc |-> "submit_kernel", plan |-> Plan(ServerOf[r], t),
                   kernel |-> req[r].kernel, out |-> req[r].out]
  <2>1. req' = [req EXCEPT ![r].pc = "submit_kernel", ![r].plan = Plan(ServerOf[r], t)]
    BY <1>5 DEF BeginPair
  <2>2. req' = Becomes(r, x)
    <3>1. [req[r] EXCEPT !.pc = "submit_kernel"] = Sent(req[r], "submit_kernel", req[r].out)
      BY <1>2 DEF Fit, States, Sent
    <3>2. [req[r] EXCEPT !.pc = "submit_kernel", !.plan = Plan(ServerOf[r], t)] = x
      <4>1. [req[r] EXCEPT !.pc = "submit_kernel", !.plan = Plan(ServerOf[r], t)]
              = [Sent(req[r], "submit_kernel", req[r].out) EXCEPT
                   !.plan = Plan(ServerOf[r], t)]
        BY <3>1
      <4>. QED
        BY <4>1 DEF Sent
    <3>. QED
      BY <1>2, <2>1, <3>2 DEF Becomes
  <2>3. Plan(ServerOf[r], t) = "time" \/ (Plan(ServerOf[r], t) = "cached" /\ Read(r) # NoTime)
    BY DEF Plan, Read
  <2>4. Fit(r, x, Had(r), Read(r))
    BY <1>2, <2>3 DEF Fit, Paired, States, Stages, InFlight
  <2> HIDE DEF x
  <2>. QED
    BY <1>3, <2>2, <2>4, QuietInv
<1>6. CASE BeginSimple(r)
  <2>1. req' = Moves(r, "submit_kernel") /\ Payload[t].simple
    BY <1>6 DEF BeginSimple, To, Moves
  <2>2. req' = Becomes(r, Sent(req[r], "submit_kernel", req[r].out))
    BY <1>1, <2>1, SentOn
  <2>3. Fit(r, Sent(req[r], "submit_kernel", req[r].out), Had(r), Read(r))
    BY <1>2, <2>1 DEF Fit, Paired, States, Stages, InFlight, Sent
  <2>. QED
    BY <1>3, <2>2, <2>3, QuietInv
<1>7. CASE BeginAnswered(r)
  <2>1. base[t] \in Results
    BY <1>1, <1>7 DEF BeginAnswered, IInv, BaseOK
  <2>. QED
    BY <1>4, <1>7, <2>1 DEF BeginAnswered, Sends
<1>8. CASE BeginFailed(r)
  BY <1>4, <1>8, FailedResults DEF BeginFailed, Sends
<1>9. CASE BeginInvalid(r)
  BY <1>4, <1>9, FailedResults DEF BeginInvalid, Storing, Earned, Sends
<1>. QED
  BY <1>5, <1>6, <1>7, <1>8, <1>9

LEMMA AwaitInv ==
  ASSUME IInv, NEW r \in Requests,
         \/ KernelRejected(r) \/ KernelAccepted(r) \/ SimpleAccepted(r)
         \/ RefError(r)
  PROVE  IInv'
<1> DEFINE t == TaskOf[r]
           k == kernel[t]
<1>1. ReqOK /\ t \in Tasks /\ ServerOf[r] \in Servers
  BY RequestTypes DEF IInv
<1>2. /\ req[r].pc \in {"await_kernel", "await_ref"}
      /\ Fit(r, req[r], Had(r), Read(r)) /\ DOMAIN req = Requests
  BY <1>1 DEF ReqOK, KernelRejected, KernelAccepted, SimpleAccepted, RefError
<1>3. UNCHANGED <<known, kernel, ref, given, base, cache, restarts, reruns>>
  BY DEF KernelRejected, KernelAccepted, SimpleAccepted, RefError, answers, bounds
<1>4. Runs(Had(r), k) /\ Runs(Had(r), req[r].kernel)
  BY <1>1, <1>2 DEF IInv, KernelOK, Fit, Had
<1>5. ASSUME NEW o \in Results, Earned(t, Had(r), o), Storing(r, o)
      PROVE  IInv'
  <2>1. Fit(r, Sent(req[r], "store", o), Had(r), Read(r))
    BY <1>1, <1>2, <1>5, ResultFits DEF InFlight
  <2>2. req' = Becomes(r, Sent(req[r], "store", o))
    <3>1. req' = Sends(r, "store", o)
      BY <1>5 DEF Storing, Sends
    <3>. QED
      BY <1>1, <3>1, SentOn
  <2>. QED
    BY <1>3, <2>1, <2>2, QuietInv
<1>6. ASSUME NEW a, Runs(Had(r), a)
      PROVE  KernelOnly(a) \in Results /\ Earned(t, Had(r), KernelOnly(a))
  BY <1>6, KernelOnlyResult DEF Runs, Earned
<1>7. CASE KernelRejected(r)
  BY <1>4, <1>5, <1>6, <1>7, FailedResults DEF KernelRejected, Earned
<1>8. CASE SimpleAccepted(r)
  BY <1>4, <1>5, <1>6, <1>8 DEF SimpleAccepted
<1>9. CASE RefError(r)
  BY <1>4, <1>5, <1>6, <1>9 DEF RefError
<1>10. CASE KernelAccepted(r)
  <2>1. k \in Correct /\ req[r].pc = "await_kernel" /\ req[r].plan # "none"
    BY <1>2, <1>10 DEF KernelAccepted, Fit, Paired
  <2>2. CASE req[r].plan = "cached"
    <3>1. Read(r) # NoTime
      BY <1>2, <2>1, <2>2 DEF Fit, Paired, InFlight
    <3>2. Read(r) \in Times /\ Read(r).of = Problem(t)
      BY <1>1, <3>1, CacheTime DEF Read, IInv
    <3>3. Storing(r, Combined(k, TRUE, Read(r)))
      BY <1>10, <2>2, <3>1 DEF KernelAccepted, Read
    <3>4. /\ Combined(k, TRUE, Read(r)) \in Results
          /\ Earned(t, Had(r), Combined(k, TRUE, Read(r)))
      BY <1>4, <2>1, <3>2, CombinedResult DEF Earned, Runs
    <3>. QED
      BY <1>5, <3>3, <3>4
  <2>3. CASE req[r].plan # "cached"
    <3> DEFINE x == [pc |-> "submit_ref", plan |-> req[r].plan, kernel |-> k,
                     out |-> req[r].out]
    <3>1. req' = [req EXCEPT ![r].pc = "submit_ref", ![r].kernel = k]
      BY <1>10, <2>3 DEF KernelAccepted
    <3>2. [req[r] EXCEPT !.pc = "submit_ref"] = Sent(req[r], "submit_ref", req[r].out)
      BY <1>2 DEF Fit, States, Sent
    <3>3. [req[r] EXCEPT !.pc = "submit_ref", !.kernel = k] = x
      <4>1. [req[r] EXCEPT !.pc = "submit_ref", !.kernel = k]
              = [Sent(req[r], "submit_ref", req[r].out) EXCEPT !.kernel = k]
        BY <3>2
      <4>. QED
        BY <4>1 DEF Sent
    <3>4. req' = Becomes(r, x)
      BY <1>2, <3>1, <3>3 DEF Becomes
    <3>5. req[r].plan = "time"
      BY <1>2, <2>1, <2>3 DEF Fit, States
    <3>6. Fit(r, x, Had(r), Read(r))
      BY <1>2, <1>4, <2>1, <3>5 DEF Fit, Paired, States, Stages, InFlight, Correct
    <3> HIDE DEF x
    <3>. QED
      BY <1>3, <3>4, <3>6, QuietInv
  <2>. QED
    BY <2>2, <2>3
<1>. QED
  BY <1>7, <1>8, <1>9, <1>10

\* A request that goes on as it is to its next wait.
LEMMA MovesFit ==
  ASSUME ReqOK, NEW r \in Requests, NEW p,
         <<req[r].pc, p>> \in {<<"submit_kernel", "await_kernel">>,
                              <<"submit_ref", "await_ref">>}
  PROVE  Fit(r, Sent(req[r], p, req[r].out), Had(r), Read(r))
<1>1. Fit(r, req[r], Had(r), Read(r))
  BY DEF ReqOK
<1>. QED
  BY <1>1 DEF Fit, Paired, States, Stages, InFlight, Sent

LEMMA SubmitInv ==
  ASSUME IInv, NEW r \in Requests, SubmitKernel(r) \/ SubmitRef(r)
  PROVE  IInv'
<1> DEFINE t == TaskOf[r]
<1>1. ReqOK /\ t \in Tasks
  BY RequestTypes DEF IInv
<1>2. /\ UNCHANGED <<kernel, ref, given, base, cache, restarts, reruns>>
      /\ known' = known \/ \E s \in Subtasks : known' = known \cup {s}
  BY <1>1 DEF SubmitKernel, SubmitRef, Submitted, Broker!Accept, Subtasks, bounds
<1>3. PICK p : /\ req' = Moves(r, p)
               /\ <<req[r].pc, p>> \in {<<"submit_kernel", "await_kernel">>,
                                        <<"submit_ref", "await_ref">>}
  BY DEF SubmitKernel, SubmitRef, To, Moves
<1>4. req' = Becomes(r, Sent(req[r], p, req[r].out))
  BY <1>1, <1>3, SentOn
<1>5. Fit(r, Sent(req[r], p, req[r].out), Had(r), Read(r))
  BY <1>1, <1>3, MovesFit
<1>6. ReqOK'
  BY <1>1, <1>2, <1>4, <1>5, ReqStep DEF Had, Read, CacheGet
<1>7. KernelOK'
  BY <1>2 DEF IInv, KernelOK
<1>. QED
  BY <1>2, <1>6, <1>7 DEF IInv, RefOK, BaseOK, CacheOK, GivenOK, BoundOK

LEMMA RefResultInv ==
  ASSUME IInv, NEW r \in Requests, RefResult(r)
  PROVE  IInv'
<1> DEFINE t == TaskOf[r]
           s == ServerOf[r]
           x == ref[t].time
           o == Combined(req[r].kernel, ref[t].ok, x)
<1>1. ReqOK /\ CacheOK /\ t \in Tasks /\ s \in Servers
  BY RequestTypes DEF IInv
<1>2. x \in Times /\ x.of = Problem(t) /\ ref[t].ok \in BOOLEAN
  BY <1>1 DEF RefResult, IInv, RefOK, RefAnswers
<1>3. UNCHANGED <<known, kernel, ref, given, base, restarts, reruns>>
  BY DEF RefResult, answers, bounds
<1>4. Fit(r, req[r], Had(r), Read(r)) /\ req[r].pc = "await_ref"
  BY <1>1 DEF ReqOK, RefResult
<1>5. o \in Results /\ Earned(t, Had(r), o)
  <2>1. req[r].kernel \in Correct /\ Runs(Had(r), req[r].kernel)
    BY <1>4 DEF Fit, Paired, States
  <2>. QED
    BY <1>2, <2>1, CombinedResult DEF Earned, Runs
<1>6. req' = Becomes(r, Sent(req[r], "store", o))
  <2>1. req' = Sends(r, "store", o)
    BY DEF RefResult, Storing, Sends
  <2>. QED
    BY <1>1, <2>1, SentOn
<1>7. Fit(r, Sent(req[r], "store", o), Had(r), Read(r))
  BY <1>1, <1>4, <1>5, ResultFits DEF InFlight
<1>8. cache' = cache \/ cache' = [cache EXCEPT ![s][Problem(t)] = x]
  BY DEF RefResult, CachePut, CacheKey
<1>9. x # NoTime /\ Problem(t) \in Problems
  BY <1>1, <1>2, TimesAreReal, ProblemType
<1>10. CacheOK'
  <2>1. CASE cache' = cache
    BY <1>1, <2>1 DEF CacheOK
  <2>2. CASE cache' = [cache EXCEPT ![s][Problem(t)] = x]
    <3>1. cache' \in [Servers -> [Problems -> Times \cup {NoTime}]]
      BY <1>1, <1>2, <1>9, <2>2 DEF CacheOK
    <3>2. \A v \in Servers, k \in Problems :
            cache'[v][k] = IF v = s /\ k = Problem(t) THEN x ELSE cache[v][k]
      BY <1>1, <1>9, <2>2 DEF CacheOK
    <3>. QED
      BY <1>1, <1>2, <3>1, <3>2 DEF CacheOK
  <2>. QED
    BY <1>8, <2>1, <2>2
<1>11. \A q \in Requests : Read(q) # NoTime => Read(q)' # NoTime
  <2>1. \A v \in Servers, k \in Problems :
          cache[v][k] # NoTime => cache'[v][k] # NoTime
    BY <1>1, <1>8, <1>9 DEF CacheOK
  <2>. QED
    BY <2>1, RequestTypes, ProblemType DEF Read, CacheGet, CacheKey
<1>12. ReqOK'
  BY <1>1, <1>3, <1>6, <1>7, <1>11, ReqStep DEF Had
<1>. QED
  BY <1>3, <1>10, <1>12 DEF IInv, KernelOK, RefOK, BaseOK, GivenOK, BoundOK

LEMMA StoreInv ==
  ASSUME IInv, NEW r \in Requests, Store(r)
  PROVE  IInv'
<1> DEFINE t == TaskOf[r]
           o == req[r].out
<1>1. ReqOK /\ BaseOK /\ KernelOK /\ t \in Tasks
  BY RequestTypes DEF IInv
<1>2. Fit(r, req[r], Had(r), Read(r)) /\ req[r].pc = "store"
  BY <1>1 DEF ReqOK, Store
<1>3. o \in Results /\ Earned(t, given[t], o)
  BY <1>2 DEF Fit, Had
<1>4. UNCHANGED <<known, ref, given, cache, restarts, reruns>>
  BY DEF Store, bounds
<1>5. BaseOK'
  BY <1>1, <1>3, <1>4 DEF Store, BaseOK
<1>6. AsAnswer(o) \in KernelAnswers /\ Runs(given[t], AsAnswer(o))
  BY <1>3 DEF AsAnswer, KernelAnswers, Runs, Earned, Correct
<1>7. kernel' = kernel \/ kernel' = [kernel EXCEPT ![t] = AsAnswer(o)]
  BY DEF Store
<1>8. KernelOK'
  BY <1>1, <1>4, <1>6, <1>7 DEF KernelOK
<1>9. req' = Becomes(r, Sent(req[r], "done", o))
  <2>1. req' = Moves(r, "done")
    BY DEF Store, To, Moves
  <2>. QED
    BY <1>1, <2>1, SentOn
<1>10. Fit(r, Sent(req[r], "done", o), Had(r), Read(r))
  BY <1>1, <1>2, <1>3, ResultFits DEF InFlight
<1>11. ReqOK'
  BY <1>1, <1>4, <1>9, <1>10, ReqStep DEF Had, Read, CacheGet
<1>. QED
  BY <1>4, <1>5, <1>8, <1>11 DEF IInv, RefOK, CacheOK, GivenOK, BoundOK

-----------------------------------------------------------------------------
(* Steps of the broker and of a server. *)

\* The bound on what runs again.
LEMMA RerunBound ==
  ASSUME BoundOK, NEW u, Rerun(u), UNCHANGED restarts
  PROVE  BoundOK'
BY WorkflowAssumption DEF BoundOK, Rerun

LEMMA AnswerKernelInv ==
  ASSUME IInv, NEW t \in Tasks, AnswerKernel(t)
  PROVE  IInv'
<1>1. PICK a \in KernelAnswers \ {"none"} :
        /\ kernel' = [kernel EXCEPT ![t] = a]
        /\ given' = [given EXCEPT ![t] = @ \cup {a}]
        /\ base' = base \/ base' = [base EXCEPT ![t] = KernelOnly(a)]
  BY DEF AnswerKernel
<1>2. UNCHANGED <<known, ref, cache, req, restarts>> /\ Rerun(<<"kernel", t>>)
  BY DEF AnswerKernel
<1>3. GivenOK' /\ a \in given'[t] /\ \A u \in Tasks : given[u] \subseteq given'[u]
  BY <1>1 DEF IInv, GivenOK
<1>4. KernelOK'
  BY <1>1, <1>2, <1>3 DEF IInv, KernelOK, Runs
<1>5. BaseOK'
  <2>1. \A u \in Tasks : Earned(u, given'[u], base[u])
    BY <1>3 DEF IInv, BaseOK, Earned
  <2>2. KernelOnly(a) \in Results /\ Earned(t, given'[t], KernelOnly(a))
    BY <1>3, KernelOnlyResult DEF Earned
  <2>. QED
    BY <1>1, <2>1, <2>2 DEF IInv, BaseOK
<1>6. ReqOK'
  <2>1. ASSUME NEW r \in Requests
        PROVE  Fit(r, req'[r], Had(r)', Read(r)')
    <3>1. Fit(r, req[r], Had(r), Read(r)) /\ Had(r) \subseteq Had(r)'
      BY <1>3, RequestTypes DEF IInv, ReqOK, Had
    <3>2. Read(r)' = Read(r) /\ req'[r] = req[r]
      BY <1>2 DEF Read, CacheGet
    <3>. QED
      BY <3>1, <3>2, FitLasts
  <2>. QED
    BY <1>2, <2>1 DEF IInv, ReqOK
<1>7. BoundOK'
  BY <1>2, RerunBound DEF IInv
<1>. QED
  BY <1>2, <1>3, <1>4, <1>5, <1>6, <1>7 DEF IInv, RefOK, CacheOK

LEMMA AnswerRefInv ==
  ASSUME IInv, NEW t \in Tasks, AnswerRef(t)
  PROVE  IInv'
<1>1. PICK a \in RefAnswers : /\ ref' = [ref EXCEPT ![t] = a]
                              /\ a.kind = "result" => a.time.of = Problem(t)
  BY DEF AnswerRef
<1>2. UNCHANGED <<known, kernel, given, base, cache, req, restarts>> /\ Rerun(<<"ref", t>>)
  BY DEF AnswerRef
<1>3. RefOK'
  BY <1>1 DEF IInv, RefOK
<1>4. BoundOK'
  BY <1>2, RerunBound DEF IInv
<1>5. ReqOK'
  BY <1>2 DEF IInv, ReqOK, Had, Read, CacheGet
<1>. QED
  BY <1>2, <1>3, <1>4, <1>5 DEF IInv, KernelOK, BaseOK, CacheOK, GivenOK

LEMMA RestartInv ==
  ASSUME IInv, NEW s \in Servers, RestartServer(s)
  PROVE  IInv'
<1>1. UNCHANGED <<known, kernel, ref, given, base, reruns>> /\ BoundOK'
  BY WorkflowAssumption DEF RestartServer, answers, IInv, BoundOK
<1>2. CacheOK' /\ \A v \in Servers \ {s} : cache'[v] = cache[v]
  BY DEF RestartServer, IInv, CacheOK
<1>3. ASSUME NEW r \in Requests
      PROVE  Fit(r, req'[r], Had(r)', Read(r)')
  <2>1. Fit(r, req[r], Had(r), Read(r)) /\ Had(r)' = Had(r) /\ ServerOf[r] \in Servers
    BY <1>1, RequestTypes DEF IInv, ReqOK, Had
  <2>2. CASE ServerOf[r] # s
    <3>1. req'[r] = req[r]
      BY <2>2 DEF RestartServer
    <3>2. Read(r)' = Read(r)
      BY <1>2, <2>1, <2>2 DEF Read, CacheGet
    <3>. QED
      BY <2>1, <3>1, <3>2
  <2>3. CASE ServerOf[r] = s /\ req[r].pc \in {"new", "done"}
    <3>1. req'[r] = req[r]
      BY <2>3 DEF RestartServer
    <3>. QED
      BY <2>1, <2>3, <3>1 DEF Fit, Paired, InFlight
  <2>4. CASE ServerOf[r] = s /\ req[r].pc \notin {"new", "done"}
    <3>1. req'[r] = [pc |-> "gone", plan |-> "none", kernel |-> "none", out |-> NoResult]
      BY <2>4 DEF RestartServer, Waiting
    <3>. QED
      BY <3>1 DEF Fit, Paired, Runs, Correct, States, Stages, InFlight
  <2>. QED
    BY <2>2, <2>3, <2>4
<1>4. ReqOK'
  BY <1>3 DEF ReqOK, RestartServer
<1>. QED
  BY <1>1, <1>2, <1>4 DEF IInv, KernelOK, RefOK, BaseOK, GivenOK

LEMMA IInvStep == IInv /\ [Next]_vars => IInv'
<1> SUFFICES ASSUME IInv, [Next]_vars
             PROVE  IInv'
  OBVIOUS
<1>1. ASSUME NEW r \in Requests, RequestStep(r)
      PROVE  IInv'
  BY <1>1, BeginInv, AwaitInv, SubmitInv, RefResultInv, StoreInv DEF RequestStep
<1>2. ASSUME NEW t \in Tasks, AnswerKernel(t) \/ AnswerRef(t)
      PROVE  IInv'
  BY <1>2, AnswerKernelInv, AnswerRefInv
<1>3. ASSUME NEW s \in Servers, RestartServer(s)
      PROVE  IInv'
  BY <1>3, RestartInv
<1>4. CASE UNCHANGED vars
  <2>1. ReqOK'
    BY <1>4 DEF vars, IInv, ReqOK, Had, Read, CacheGet
  <2>. QED
    BY <1>4, <2>1 DEF vars, IInv, KernelOK, RefOK, BaseOK, CacheOK, GivenOK, BoundOK
<1>. QED
  BY <1>1, <1>2, <1>3, <1>4 DEF Next

LEMMA IInvHolds == Spec => []IInv
BY IInvInit, IInvStep, PTL DEF Spec

-----------------------------------------------------------------------------
(* The theorems. *)

\* Requests, answers, records and caches are well typed in every reachable state,
\* and a program counter means what the handler relies on: a reference is only
\* timed for a kernel that was found correct.
THEOREM TypeCorrect == Spec => []TypeOK
BY IInvHolds, IInvTypes, PTL

\* A stored "correct" and a stored speedup were earned by runs of the task's own
\* kernel, with a denominator measured on the same problem, however requests,
\* server processes with their caches, repeated runs and restarts interleave.
THEOREM SpeedupCorrect == Spec => []SpeedupIsEarned
<1>1. IInv => SpeedupIsEarned
  BY DEF IInv, BaseOK, Earned, SpeedupIsEarned
<1>. QED
  BY <1>1, IInvHolds, PTL

\* What a step does to the denominator of a problem that a server's cache knows.
Settled(s, k) == cache[s][k] # NoTime /\ Early(s, k) = {}
StaysSettled(s, k) == \/ cache'[s][k] = cache[s][k] /\ Early(s, k)' = {}
                      \/ restarts' # restarts

\* A request in state q of an evaluation that paired before the cache knew.
IsEarly(r, s, k, q) ==
  /\ ServerOf[r] = s /\ Problem(TaskOf[r]) = k /\ Payload[TaskOf[r]].use_cache
  /\ q.plan = "time" /\ q.pc \in InFlight \ {"store"}

LEMMA EarlyIs ==
  ASSUME NEW s, NEW k
  PROVE  /\ Early(s, k) = {} <=> \A r \in Requests : ~ IsEarly(r, s, k, req[r])
         /\ Early(s, k)' = {} <=> \A r \in Requests : ~ IsEarly(r, s, k, req'[r])
BY DEF Early, IsEarly

\* Nobody becomes early where the cache knows the time, and only who is early
\* writes.
LEMMA RequestSettles ==
  ASSUME IInv, NEW r \in Requests, RequestStep(r),
         NEW s \in Servers, NEW k \in Problems, Settled(s, k)
  PROVE  StaysSettled(s, k)
<1> DEFINE t == TaskOf[r]
<1>1. ReqOK /\ CacheOK /\ t \in Tasks /\ ServerOf[r] \in Servers
  BY RequestTypes DEF IInv
<1>2. Fit(r, req[r], Had(r), Read(r)) /\ DOMAIN req = Requests
  BY <1>1 DEF ReqOK
<1>3. \A q \in Requests : ~ IsEarly(q, s, k, req[q])
  BY EarlyIs DEF Settled
<1>4. /\ \A q \in Requests \ {r} : req'[q] = req[q]
      /\ DOMAIN req' = Requests
  BY <1>2
     DEF RequestStep, BeginPair, BeginSimple, BeginAnswered, BeginFailed,
         BeginInvalid, SubmitKernel, KernelRejected, KernelAccepted,
         SimpleAccepted, SubmitRef, RefError, RefResult, Store, To, Storing
<1>5. cache'[s][k] = cache[s][k]
  <2>1. CASE RefResult(r)
    <3>1. req[r].plan = "time" /\ req[r].pc = "await_ref"
      BY <1>2, <2>1 DEF Fit, Paired, RefResult
    <3>2. ~ (ServerOf[r] = s /\ Problem(t) = k /\ Payload[t].use_cache)
      BY <1>3, <3>1 DEF IsEarly, InFlight
    <3>3. cache' = cache \/ (/\ Payload[t].use_cache
                            /\ cache' = [cache EXCEPT ![ServerOf[r]][Problem(t)] = ref[t].time])
      BY <2>1 DEF RefResult, CachePut, CacheKey
    <3>. QED
      BY <1>1, <3>2, <3>3 DEF CacheOK
  <2>2. CASE ~ RefResult(r)
    <3>1. UNCHANGED cache
      BY <2>2
         DEF RequestStep, BeginPair, BeginSimple, BeginAnswered, BeginFailed,
             BeginInvalid, SubmitKernel, KernelRejected, KernelAccepted,
             SimpleAccepted, SubmitRef, RefError, Store
    <3>. QED
      BY <3>1
  <2>. QED
    BY <2>1, <2>2
<1>6. ~ IsEarly(r, s, k, req'[r])
  <2>1. SUFFICES ASSUME ServerOf[r] = s, Problem(t) = k, Payload[t].use_cache,
                        req'[r].plan = "time", req'[r].pc \in InFlight \ {"store"}
                 PROVE  FALSE
    BY DEF IsEarly
  <2>2. ~ (req[r].plan = "time" /\ req[r].pc \in InFlight \ {"store"})
    BY <1>3, <2>1 DEF IsEarly
  <2>3. ASSUME NEW p, NEW o, req' = Sends(r, p, o) \/ req' = Moves(r, p),
               req[r].pc \in InFlight \ {"store"} \/ p \in {"store", "done"}
        PROVE  FALSE
    <3>1. req'[r].pc = p /\ req'[r].plan = req[r].plan
      BY <1>1, <2>3, SentOn, <1>2 DEF Becomes, Sent
    <3>. QED
      BY <2>1, <2>2, <2>3, <3>1 DEF InFlight
  <2>4. CASE BeginPair(r)
    <3>1. req'[r].plan = Plan(s, t)
      BY <1>2, <2>1, <2>4 DEF BeginPair, Fit, States
    <3>2. Payload[t].uuid # NoUuid
      BY <2>1, <2>4 DEF BeginPair, Valid
    <3>3. CacheGet(s, t) # NoTime
      BY <2>1, <3>2 DEF CacheGet, CacheKey, Settled
    <3>. QED
      BY <2>1, <3>1, <3>3 DEF Plan
  <2>5. CASE BeginSimple(r)
    BY <1>1, <2>1, <2>5, WorkflowAssumption DEF BeginSimple
  <2>6. CASE KernelAccepted(r)
    <3>1. req[r].pc = "await_kernel" /\ req[r].plan \in {"cached", "time"}
      BY <1>2, <2>6 DEF KernelAccepted, Fit, Paired, States
    <3>2. req[r].plan = "cached"
      BY <2>2, <3>1 DEF InFlight
    <3>3. Read(r) # NoTime
      BY <1>2, <3>1, <3>2 DEF Fit, Paired, InFlight
    <3>4. req' = Sends(r, "store", Combined(kernel[t], TRUE, Read(r)))
      BY <2>6, <3>2, <3>3 DEF KernelAccepted, Read, Storing, Sends
    <3>. QED
      BY <2>3, <3>4
  <2>7. CASE SubmitKernel(r) \/ SubmitRef(r)
    BY <2>3, <2>7 DEF SubmitKernel, SubmitRef, To, Moves, InFlight
  <2>8. CASE BeginAnswered(r) \/ BeginFailed(r) \/ BeginInvalid(r) \/ Store(r)
    BY <2>3, <2>8 DEF BeginAnswered, BeginFailed, BeginInvalid, Store, To, Storing,
                      Moves, Sends
  <2>9. CASE KernelRejected(r) \/ SimpleAccepted(r) \/ RefError(r) \/ RefResult(r)
    BY <2>3, <2>9 DEF KernelRejected, SimpleAccepted, RefError, RefResult, Storing, Sends
  <2>. QED
    BY <2>4, <2>5, <2>6, <2>7, <2>8, <2>9 DEF RequestStep
<1>7. \A q \in Requests : ~ IsEarly(q, s, k, req'[q])
  BY <1>3, <1>4, <1>6
<1>. QED
  BY <1>5, <1>7, EarlyIs DEF StaysSettled

\* Once a server's cache knows the time of a problem and the evaluations that
\* paired before are through, no evaluation ever writes it again or times the
\* reference again, until the server restarts.
THEOREM DenominatorCorrect == Spec => DenominatorSettles
<1>1. ASSUME IInv, [Next]_vars, NEW s \in Servers, NEW k \in Problems, Settled(s, k)
      PROVE  StaysSettled(s, k)
  <2>1. ASSUME NEW t \in Tasks, AnswerKernel(t) \/ AnswerRef(t)
        PROVE  StaysSettled(s, k)
    BY <1>1, <2>1 DEF AnswerKernel, AnswerRef, Settled, StaysSettled, Early
  <2>2. ASSUME NEW v \in Servers, RestartServer(v)
        PROVE  StaysSettled(s, k)
    BY <1>1, <2>2 DEF RestartServer, StaysSettled, IInv, BoundOK
  <2>3. CASE UNCHANGED vars
    BY <1>1, <2>3 DEF vars, Settled, StaysSettled, Early
  <2>. QED
    BY <1>1, <2>1, <2>2, <2>3, RequestSettles DEF Next
<1>2. IInv /\ [Next]_vars =>
        [\A s \in Servers, k \in Problems :
           cache[s][k] # NoTime /\ Early(s, k) = {} =>
             \/ cache'[s][k] = cache[s][k] /\ Early(s, k)' = {}
             \/ restarts' # restarts]_vars
  BY <1>1 DEF Settled, StaysSettled
<1>. QED
  BY <1>2, IInvHolds, PTL DEF Spec, DenominatorSettles
=============================================================================
