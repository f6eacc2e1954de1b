----------------------- MODULE KernelEvaluationProofs -----------------------
(***************************************************************************)
(* Proofs about KernelEvaluation, for any tasks, kernels and bounds: its   *)
(* types, and every invariant its runs check.                              *)
(*                                                                         *)
(* The stages of an evaluation are a path, so what holds of an evaluation  *)
(* depends on how far it has got; Staged says what every stage may assume. *)
(* Each property then has an invariant of its own, inductive on top of     *)
(* TypeOK and Staged.                                                      *)
(***************************************************************************)
EXTENDS KernelEvaluation, FiniteSetTheorems, TLAPS

-----------------------------------------------------------------------------
(* The median of three rounds. *)

\* Of three integers, one has at most one below it and two at most as large.
LEMMA MiddleExists ==
  ASSUME NEW s \in Seq(Int), Len(s) = 3
  PROVE  \E x \in {s[i] : i \in DOMAIN s} :
           /\ Cardinality({i \in DOMAIN s : s[i] < x}) <= 1
           /\ Cardinality({i \in DOMAIN s : s[i] <= x}) > 1
<1>1. DOMAIN s = {1, 2, 3} /\ \A i \in DOMAIN s : s[i] \in Int
  <2>1. DOMAIN s = 1..3
    OBVIOUS
  <2>2. 1..3 = {1, 2, 3}
    OBVIOUS
  <2>3. \A i \in 1..Len(s) : s[i] \in Int
    OBVIOUS
  <2>. QED
    BY <2>1, <2>2, <2>3
<1>2. \E i, j, k \in DOMAIN s :
        /\ i # j /\ DOMAIN s = {i, j, k}
        /\ s[i] <= s[j] /\ s[j] <= s[k]
  <2>1. CASE s[1] <= s[2] /\ s[2] <= s[3]
    BY <1>1, <2>1
  <2>2. CASE s[1] <= s[3] /\ s[3] <= s[2]
    BY <1>1, <2>2
  <2>3. CASE s[2] <= s[1] /\ s[1] <= s[3]
    BY <1>1, <2>3
  <2>4. CASE s[2] <= s[3] /\ s[3] <= s[1]
    BY <1>1, <2>4
  <2>5. CASE s[3] <= s[1] /\ s[1] <= s[2]
    BY <1>1, <2>5
  <2>6. CASE s[3] <= s[2] /\ s[2] <= s[1]
    BY <1>1, <2>6
  <2>. QED
    BY <1>1, <2>1, <2>2, <2>3, <2>4, <2>5, <2>6
<1>3. PICK i, j, k \in DOMAIN s : /\ i # j /\ DOMAIN s = {i, j, k}
                                  /\ s[i] <= s[j] /\ s[j] <= s[k]
  BY <1>2
<1> DEFINE below == {l \in DOMAIN s : s[l] < s[j]}
           upto  == {l \in DOMAIN s : s[l] <= s[j]}
<1>4. Cardinality(below) <= 1
  <2>1. \A l \in below : l = i
    <3>1. ~ s[j] < s[j] /\ ~ s[k] < s[j]
      BY <1>1, <1>3
    <3>. QED
      BY <1>3, <3>1
  <2>2. IsFiniteSet({i}) /\ Cardinality({i}) = 1
    BY FS_Singleton
  <2>. HIDE DEF below
  <2>. QED
    BY <2>1, <2>2, FS_Subset, below \subseteq {i}
<1>5. Cardinality(upto) > 1
  <2>1. {i, j} \subseteq upto
    BY <1>1, <1>3
  <2>2. IsFiniteSet({i}) /\ Cardinality({i}) = 1
    BY FS_Singleton
  <2>3. {i, j} = {i} \cup {j} /\ j \notin {i}
    BY <1>3
  <2>4. Cardinality({i, j}) = 2
    BY <2>2, <2>3, FS_AddElement, 1 + 1 = 2
  <2>5. IsFiniteSet(upto)
    <3>1. IsFiniteSet(1..3)
      BY FS_Interval
    <3>2. upto \subseteq 1..3
      BY <1>1
    <3>. HIDE DEF upto
    <3>. QED
      BY <3>1, <3>2, FS_Subset
  <2>. HIDE DEF upto
  <2>6. Cardinality({i, j}) <= Cardinality(upto)
    BY <2>1, <2>5, FS_Subset
  <2>. QED
    BY <2>4, <2>5, <2>6, FS_CardinalityType
<1>. QED
  BY <1>3, <1>4, <1>5

\* The median of three is one of them, and has at most one below it and two at
\* most as large (what _median_time returns for a reference timed three times).
LEMMA MedianOfThree ==
  ASSUME NEW s \in Seq(Int), Len(s) = 3
  PROVE  /\ \E i \in DOMAIN s : MedianTime(s) = s[i]
         /\ Cardinality({i \in DOMAIN s : s[i] < MedianTime(s)}) <= 1
         /\ Cardinality({i \in DOMAIN s : s[i] <= MedianTime(s)}) > 1
<1>1. Len(s) \div 2 = 1
  OBVIOUS
<1>2. MedianTime(s) = CHOOSE x \in {s[i] : i \in DOMAIN s} :
           /\ Cardinality({i \in DOMAIN s : s[i] < x}) <= 1
           /\ Cardinality({i \in DOMAIN s : s[i] <= x}) > 1
  BY <1>1 DEF MedianTime, Sorted
<1>3. PICK y \in {s[i] : i \in DOMAIN s} :
           /\ Cardinality({i \in DOMAIN s : s[i] < y}) <= 1
           /\ Cardinality({i \in DOMAIN s : s[i] <= y}) > 1
  BY MiddleExists
<1>4. /\ MedianTime(s) \in {s[i] : i \in DOMAIN s}
      /\ Cardinality({i \in DOMAIN s : s[i] < MedianTime(s)}) <= 1
      /\ Cardinality({i \in DOMAIN s : s[i] <= MedianTime(s)}) > 1
  BY <1>2, <1>3
<1>. QED
  BY <1>4

-----------------------------------------------------------------------------
(* What every stage may assume. *)

Execs == [compiled : BOOLEAN, correct : BOOLEAN, decoy : BOOLEAN,
          timed : BOOLEAN]
Resting == {"idle", "exited"}
Pipeline == {"load", "compile", "create", "trials", "detect", "time",
             "profile", "cover"}
Simple   == {"cases", "build", "case", "clock"}

\* An evaluation in progress has its request and its kernel; between
\* evaluations nothing of an evaluation is left.
Serving == pc \notin Resting => task \in Tasks /\ kernel \in Kernels
Blank ==
  pc \in Resting =>
    /\ task = NoTask /\ kernel = NoKernel /\ begun = "clean"
    /\ exec = NoExec /\ session = "none" /\ answer = Failed(FALSE)
    /\ trial = 0 /\ passed = 0 /\ matches = "unset" /\ attempts = 0
    /\ metrics = "none" /\ times = <<>>
Capped == pc # "exited" => served < MaxTasks
\* The kind of the request decides the stages.
Routed ==
  /\ pc \in Pipeline => task.kind \in {"kernel_evaluation", "evaluation"}
  /\ pc \in Simple => task.kind = "kernel_simple"
  /\ pc = "reference" => task.kind \in {"evaluation", "reference_timing"}
\* A fault stays until the process is replaced.
Lasting == begun = "faulted" => context = "faulted"
\* What the stages ahead will fill in is still empty.
Unjudged ==
  /\ pc \in {"load", "compile", "create", "trials", "cases", "build", "case"}
       => exec = NoExec
  /\ pc \in {"load", "compile", "create", "cases", "build"}
       => trial = 0 /\ passed = 0
  /\ pc \notin {"reference", "respond"} => times = <<>>
Silent == pc # "respond" => answer = Failed(FALSE)
Answered == pc = "respond" => answer.exec \in {NoExec, exec}

Staged == /\ Serving /\ Blank /\ Capped /\ Routed
          /\ Lasting /\ Unjudged /\ Silent /\ Answered

\* The fields of a kernel's verdict.
LEMMA ExecFields ==
  /\ NoExec \in Execs /\ ~ NoExec.compiled /\ ~ NoExec.correct
  /\ ~ NoExec.decoy /\ ~ NoExec.timed
  /\ \A c \in BOOLEAN : /\ Judged(c) \in Execs /\ Judged(c).correct = c
                        /\ Judged(c).compiled /\ ~ Judged(c).decoy
                        /\ ~ Judged(c).timed
BY DEF Execs, NoExec, Judged

\* A kernel's module is built, or fails in one of three ways.
LEMMA CreateCases ==
  ASSUME Serving, CreateModel
  PROVE  /\ pc = "create"
         /\ \/ /\ kernel.create = "yes" /\ pc' = "trials"
               /\ UNCHANGED <<exec, session, answer, context>>
            \/ /\ kernel.create = "runtime"
               /\ Finish(Judged(FALSE), FALSE) /\ UNCHANGED context
            \/ /\ kernel.create = "fault"
               /\ Finish(Judged(FALSE), FALSE) /\ context' = "faulted"
            \/ /\ kernel.create = "other"
               /\ \E names \in BOOLEAN : Escape(names) /\ UNCHANGED context
         /\ UNCHANGED <<task, kernel, trial, passed, matches, attempts,
                        metrics, times, served, begun>>
<1>1. kernel \in KernelType
  BY ConstantsAssumption DEF Serving, Resting, CreateModel
<1>2. kernel.create \in {"yes", "runtime", "other", "fault"}
  BY <1>1 DEF KernelType
<1>. QED
  BY <1>2 DEF CreateModel, Goto

\* Where an evaluation goes first.
LEMMA ReceiveCases ==
  ASSUME NEW t \in Tasks, NEW k \in Kernels, Receive(t, k)
  PROVE  /\ pc = "idle" /\ task' = t /\ kernel' = k /\ begun' = context
         /\ \/ pc' = "respond"
            \/ pc' = "reference" /\ t.kind = "reference_timing"
            \/ pc' = "cases" /\ t.kind = "kernel_simple"
            \/ pc' = "load" /\ t.kind \in {"kernel_evaluation", "evaluation"}
         /\ UNCHANGED <<exec, session, context, trial, passed, matches,
                        attempts, metrics, times, answer, served>>
<1>1. t \in TaskType
  BY ConstantsAssumption
<1>2. t.kind \in {"kernel_evaluation", "evaluation", "reference_timing",
                  "kernel_simple"}
  BY <1>1 DEF TaskType
<1>. QED
  BY <1>2 DEF Receive, Goto

\* An evaluation keeps its request and its kernel to the end.
LEMMA ServingStep ==
  ASSUME TypeOK, Staged, [Next]_vars
  PROVE  Serving'
<1> USE DEF Staged, Serving, Resting, Goto, Escape, Finish, SimpleFails,
            SimpleEnds
<1>1. CASE \E t \in Tasks, k \in Kernels : Receive(t, k)
  BY <1>1, ReceiveCases
<1>2. CASE CreateModel
  BY <1>2, CreateCases
<1>3. CASE LoadOriginal \/ CompileFails \/ CompileLocked \/ Compile
  BY <1>3 DEF LoadOriginal, CompileFails, CompileLocked, Compile
<1>4. CASE Trial \/ Judge
  BY <1>4 DEF Trial, Judge
<1>5. CASE SkipDetection \/ Detect \/ DetectRaises
  BY <1>5 DEF SkipDetection, Detect, DetectRaises
<1>6. CASE SkipTiming \/ Time \/ TimeRaises \/ Cover
  BY <1>6 DEF SkipTiming, Time, TimeRaises, Cover
<1>7. CASE LoadCases \/ BuildSimple \/ Case \/ JudgeCases \/ TimeSimple
  BY <1>7 DEF LoadCases, BuildSimple, Case, JudgeCases, TimeSimple
<1>8. CASE Round \/ Timed
  BY <1>8 DEF Round, Timed
<1>9. CASE Respond \/ Respawn
  BY <1>9 DEF Respond, Respawn
<1>10. CASE \E m \in Profiles : Profile(m)
  BY <1>10 DEF Profile
<1>11. CASE UNCHANGED vars
  BY <1>11 DEF vars
<1>. QED
  BY <1>1, <1>2, <1>3, <1>4, <1>5, <1>6, <1>7, <1>8, <1>9, <1>10, <1>11
     DEF Next

\* The answer of an evaluation takes everything of it away.
LEMMA BlankStep ==
  ASSUME TypeOK, Staged, [Next]_vars
  PROVE  Blank'
<1> USE DEF Staged, Blank, Serving, Resting, Goto, Escape, Finish, SimpleFails,
            SimpleEnds
<1>1. CASE \E t \in Tasks, k \in Kernels : Receive(t, k)
  BY <1>1, ReceiveCases
<1>2. CASE CreateModel
  BY <1>2, CreateCases
<1>3. CASE LoadOriginal \/ CompileFails \/ CompileLocked \/ Compile
  BY <1>3 DEF LoadOriginal, CompileFails, CompileLocked, Compile
<1>4. CASE Trial \/ Judge
  BY <1>4 DEF Trial, Judge
<1>5. CASE SkipDetection \/ Detect \/ DetectRaises
  BY <1>5 DEF SkipDetection, Detect, DetectRaises
<1>6. CASE SkipTiming \/ Time \/ TimeRaises \/ Cover
  BY <1>6 DEF SkipTiming, Time, TimeRaises, Cover
<1>7. CASE LoadCases \/ BuildSimple \/ Case \/ JudgeCases \/ TimeSimple
  BY <1>7 DEF LoadCases, BuildSimple, Case, JudgeCases, TimeSimple
<1>8. CASE Round \/ Timed
  BY <1>8 DEF Round, Timed
<1>9. CASE Respond \/ Respawn
  BY <1>9 DEF Respond, Respawn
<1>10. CASE \E m \in Profiles : Profile(m)
  BY <1>10 DEF Profile
<1>11. CASE UNCHANGED vars
  BY <1>11 DEF vars
<1>. QED
  BY <1>1, <1>2, <1>3, <1>4, <1>5, <1>6, <1>7, <1>8, <1>9, <1>10, <1>11
     DEF Next

\* The process exits when it has served what it may.
LEMMA CappedStep ==
  ASSUME TypeOK, Staged, [Next]_vars
  PROVE  Capped'
<1> USE ConstantsAssumption
     DEF Staged, Capped, TypeOK, Goto, Escape, Finish, SimpleFails, SimpleEnds
<1>1. CASE \E t \in Tasks, k \in Kernels : Receive(t, k)
  BY <1>1, ReceiveCases
<1>2. CASE CreateModel
  BY <1>2, CreateCases
<1>3. CASE LoadOriginal \/ CompileFails \/ CompileLocked \/ Compile
  BY <1>3 DEF LoadOriginal, CompileFails, CompileLocked, Compile
<1>4. CASE Trial \/ Judge
  BY <1>4 DEF Trial, Judge
<1>5. CASE SkipDetection \/ Detect \/ DetectRaises
  BY <1>5 DEF SkipDetection, Detect, DetectRaises
<1>6. CASE SkipTiming \/ Time \/ TimeRaises \/ Cover
  BY <1>6 DEF SkipTiming, Time, TimeRaises, Cover
<1>7. CASE LoadCases \/ BuildSimple \/ Case \/ JudgeCases \/ TimeSimple
  BY <1>7 DEF LoadCases, BuildSimple, Case, JudgeCases, TimeSimple
<1>8. CASE Round \/ Timed
  BY <1>8 DEF Round, Timed
<1>9. CASE Respawn
  BY <1>9 DEF Respawn
<1>10. CASE Respond
  BY <1>10 DEF Respond
<1>11. CASE \E m \in Profiles : Profile(m)
  BY <1>11 DEF Profile
<1>12. CASE UNCHANGED vars
  BY <1>12 DEF vars
<1>. QED
  BY <1>1, <1>2, <1>3, <1>4, <1>5, <1>6, <1>7, <1>8, <1>9, <1>10, <1>11,
     <1>12 DEF Next

\* No stage leads to one of another kind of request.
LEMMA RoutedStep ==
  ASSUME TypeOK, Staged, [Next]_vars
  PROVE  Routed'
<1> USE DEF Staged, Routed, Pipeline, Simple, Serving, Resting, Goto, Escape,
            Finish, SimpleFails, SimpleEnds
<1>1. CASE \E t \in Tasks, k \in Kernels : Receive(t, k)
  BY <1>1, ReceiveCases
<1>2. CASE CreateModel
  BY <1>2, CreateCases
<1>3. CASE LoadOriginal \/ CompileFails \/ CompileLocked \/ Compile
  BY <1>3 DEF LoadOriginal, CompileFails, CompileLocked, Compile
<1>4. CASE Trial \/ Judge
  BY <1>4 DEF Trial, Judge
<1>5. CASE SkipDetection \/ Detect \/ DetectRaises
  BY <1>5 DEF SkipDetection, Detect, DetectRaises
<1>6. CASE SkipTiming \/ Time \/ TimeRaises \/ Cover
  BY <1>6 DEF SkipTiming, Time, TimeRaises, Cover
<1>7. CASE LoadCases \/ BuildSimple \/ Case \/ JudgeCases \/ TimeSimple
  BY <1>7 DEF LoadCases, BuildSimple, Case, JudgeCases, TimeSimple
<1>8. CASE Round \/ Timed
  BY <1>8 DEF Round, Timed
<1>9. CASE Respond \/ Respawn
  BY <1>9 DEF Respond, Respawn
<1>10. CASE \E m \in Profiles : Profile(m)
  BY <1>10 DEF Profile
<1>11. CASE UNCHANGED vars
  BY <1>11 DEF vars
<1>. QED
  BY <1>1, <1>2, <1>3, <1>4, <1>5, <1>6, <1>7, <1>8, <1>9, <1>10, <1>11
     DEF Next

\* Only a new process has a clean context again.
LEMMA LastingStep ==
  ASSUME TypeOK, Staged, [Next]_vars
  PROVE  Lasting'
<1> USE DEF Staged, Lasting, Blank, Resting, Goto, Escape, Finish, SimpleFails,
            SimpleEnds
<1>1. CASE \E t \in Tasks, k \in Kernels : Receive(t, k)
  BY <1>1, ReceiveCases
<1>2. CASE CreateModel
  BY <1>2, CreateCases
<1>3. CASE LoadOriginal \/ CompileFails \/ CompileLocked \/ Compile
  BY <1>3 DEF LoadOriginal, CompileFails, CompileLocked, Compile
<1>4. CASE Trial \/ Judge
  BY <1>4 DEF Trial, Judge
<1>5. CASE SkipDetection \/ Detect \/ DetectRaises
  BY <1>5 DEF SkipDetection, Detect, DetectRaises
<1>6. CASE SkipTiming \/ Time \/ TimeRaises \/ Cover
  BY <1>6 DEF SkipTiming, Time, TimeRaises, Cover
<1>7. CASE LoadCases \/ BuildSimple \/ Case \/ JudgeCases \/ TimeSimple
  BY <1>7 DEF LoadCases, BuildSimple, Case, JudgeCases, TimeSimple
<1>8. CASE Round \/ Timed
  BY <1>8 DEF Round, Timed
<1>9. CASE Respond \/ Respawn
  BY <1>9 DEF Respond, Respawn
<1>10. CASE \E m \in Profiles : Profile(m)
  BY <1>10 DEF Profile
<1>11. CASE UNCHANGED vars
  BY <1>11 DEF vars
<1>. QED
  BY <1>1, <1>2, <1>3, <1>4, <1>5, <1>6, <1>7, <1>8, <1>9, <1>10, <1>11
     DEF Next

\* Nothing is judged ahead of its stage.
LEMMA UnjudgedStep ==
  ASSUME TypeOK, Staged, [Next]_vars
  PROVE  Unjudged'
<1> USE DEF Staged, Unjudged, Blank, Resting, Goto, Escape, Finish,
            SimpleFails, SimpleEnds
<1>1. CASE \E t \in Tasks, k \in Kernels : Receive(t, k)
  BY <1>1, ReceiveCases
<1>2. CASE CreateModel
  BY <1>2, CreateCases
<1>3. CASE LoadOriginal \/ CompileFails \/ CompileLocked \/ Compile
  BY <1>3 DEF LoadOriginal, CompileFails, CompileLocked, Compile
<1>4. CASE Trial \/ Judge
  BY <1>4 DEF Trial, Judge
<1>5. CASE SkipDetection \/ Detect \/ DetectRaises
  BY <1>5 DEF SkipDetection, Detect, DetectRaises
<1>6. CASE SkipTiming \/ Time \/ TimeRaises \/ Cover
  BY <1>6 DEF SkipTiming, Time, TimeRaises, Cover
<1>7. CASE LoadCases \/ BuildSimple \/ Case \/ JudgeCases \/ TimeSimple
  BY <1>7 DEF LoadCases, BuildSimple, Case, JudgeCases, TimeSimple
<1>8. CASE Round \/ Timed
  BY <1>8 DEF Round, Timed
<1>9. CASE Respond \/ Respawn
  BY <1>9 DEF Respond, Respawn
<1>10. CASE \E m \in Profiles : Profile(m)
  BY <1>10 DEF Profile
<1>11. CASE UNCHANGED vars
  BY <1>11 DEF vars
<1>. QED
  BY <1>1, <1>2, <1>3, <1>4, <1>5, <1>6, <1>7, <1>8, <1>9, <1>10, <1>11
     DEF Next

\* Only the last stage has an answer.
LEMMA SilentStep ==
  ASSUME TypeOK, Staged, [Next]_vars
  PROVE  Silent'
<1> USE DEF Staged, Silent, Goto, Escape, Finish, SimpleFails, SimpleEnds
<1>1. CASE \E t \in Tasks, k \in Kernels : Receive(t, k)
  BY <1>1, ReceiveCases
<1>2. CASE CreateModel
  BY <1>2, CreateCases
<1>3. CASE LoadOriginal \/ CompileFails \/ CompileLocked \/ Compile
  BY <1>3 DEF LoadOriginal, CompileFails, CompileLocked, Compile
<1>4. CASE Trial \/ Judge
  BY <1>4 DEF Trial, Judge
<1>5. CASE SkipDetection \/ Detect \/ DetectRaises
  BY <1>5 DEF SkipDetection, Detect, DetectRaises
<1>6. CASE SkipTiming \/ Time \/ TimeRaises \/ Cover
  BY <1>6 DEF SkipTiming, Time, TimeRaises, Cover
<1>7. CASE LoadCases \/ BuildSimple \/ Case \/ JudgeCases \/ TimeSimple
  BY <1>7 DEF LoadCases, BuildSimple, Case, JudgeCases, TimeSimple
<1>8. CASE Round \/ Timed
  BY <1>8 DEF Round, Timed
<1>9. CASE Respond \/ Respawn
  BY <1>9 DEF Respond, Respawn
<1>10. CASE \E m \in Profiles : Profile(m)
  BY <1>10 DEF Profile
<1>11. CASE UNCHANGED vars
  BY <1>11 DEF vars
<1>. QED
  BY <1>1, <1>2, <1>3, <1>4, <1>5, <1>6, <1>7, <1>8, <1>9, <1>10, <1>11
     DEF Next

\* The verdict answered is the one the stages reached, or none.
LEMMA AnsweredStep ==
  ASSUME TypeOK, Staged, [Next]_vars
  PROVE  Answered'
<1> USE DEF Staged, Answered, Unjudged, Silent, Failed, Verdict, Timing, Goto,
            Escape, Finish, SimpleFails, SimpleEnds
<1>1. CASE \E t \in Tasks, k \in Kernels : Receive(t, k)
  BY <1>1, ReceiveCases
<1>2. CASE CreateModel
  <2>1. CASE pc' = "trials"
    BY <2>1
  <2>2. CASE Finish(Judged(FALSE), FALSE)
    <3> DEFINE y == Judged(FALSE)
    <3>1. Finish(y, FALSE)
      BY <2>2
    <3> HIDE DEF y
    <3>. QED
      BY <3>1
  <2>3. CASE \E names \in BOOLEAN : Escape(names)
    BY <1>2, <2>3, CreateCases
  <2>. QED
    BY <1>2, <2>1, <2>2, <2>3, CreateCases
<1>3. CASE LoadOriginal \/ CompileFails \/ CompileLocked \/ Compile
  BY <1>3 DEF LoadOriginal, CompileFails, CompileLocked, Compile
<1>4. CASE Trial \/ Judge
  BY <1>4 DEF Trial, Judge
<1>5. CASE SkipDetection \/ DetectRaises
  BY <1>5 DEF SkipDetection, DetectRaises
<1>6. CASE Detect
  <2> DEFINE y == [exec EXCEPT !.decoy = TRUE]
  <2>1. pc' = "time" \/ Finish(y, FALSE)
    BY <1>6 DEF Detect
  <2> HIDE DEF y
  <2>. QED
    BY <2>1
<1>7. CASE SkipTiming
  BY <1>7 DEF SkipTiming
<1>8. CASE Time
  <2> DEFINE y == [exec EXCEPT !.timed = TRUE]
  <2>1. pc' = "profile" \/ Finish(y, FALSE)
    BY <1>8 DEF Time
  <2> HIDE DEF y
  <2>. QED
    BY <2>1
<1>9. CASE TimeRaises
  BY <1>9 DEF TimeRaises
<1>10. CASE Cover
  BY <1>10 DEF Cover
<1>11. CASE LoadCases
  BY <1>11 DEF LoadCases
<1>12. CASE BuildSimple
  BY <1>12 DEF BuildSimple
<1>13. CASE Case
  BY <1>13 DEF Case
<1>14. CASE JudgeCases
  <2> DEFINE y == Judged(/\ Expected(task) # {}
                         /\ passed = Cardinality(Expected(task)))
  <2>1. pc' = "clock" \/ SimpleEnds(y)
    BY <1>14 DEF JudgeCases
  <2> HIDE DEF y
  <2>. QED
    BY <2>1
<1>15. CASE TimeSimple
  <2> DEFINE y == [exec EXCEPT !.timed = TRUE]
  <2>1. SimpleEnds(y) \/ \E names \in BOOLEAN : SimpleFails(names)
    BY <1>15 DEF TimeSimple
  <2> HIDE DEF y
  <2>2. CASE SimpleEnds(y)
    BY <2>2
  <2>3. CASE \E names \in BOOLEAN : SimpleFails(names)
    BY <2>3
  <2>. QED
    BY <2>1, <2>2, <2>3
<1>16. CASE Round \/ Timed
  BY <1>16 DEF Round, Timed
<1>17. CASE Respond \/ Respawn
  BY <1>17 DEF Respond, Respawn
<1>18. CASE \E m \in Profiles : Profile(m)
  BY <1>18 DEF Profile
<1>19. CASE UNCHANGED vars
  BY <1>19 DEF vars
<1>. QED
  BY <1>1, <1>2, <1>3, <1>4, <1>5, <1>6, <1>7, <1>8, <1>9, <1>10, <1>11,
     <1>12, <1>13, <1>14, <1>15, <1>16, <1>17, <1>18, <1>19 DEF Next

-----------------------------------------------------------------------------
(* The types. *)

Results == [status : {"completed", "failed"}, namesCuda : BOOLEAN,
            exec : Execs, reference : Times \cup {-1, 0}]

PcType == pc \in {"idle", "load", "compile", "create", "trials", "detect",
                  "time", "profile", "cover", "reference", "cases", "build",
                  "case", "clock", "respond", "exited"}
RequestType ==
  task \in Tasks \cup {NoTask} /\ kernel \in Kernels \cup {NoKernel}
ExecType == exec \in Execs
DeviceType == /\ session \in {"none", "open"}
              /\ context \in {"clean", "faulted"}
              /\ begun \in {"clean", "faulted"}
CountType == /\ matches \in {"unset", "none", "some"}
             /\ attempts \in 0..Retries
             /\ metrics \in Profiles \cup {"none"}
             /\ served \in 0..MaxTasks
TrialType == trial \in 0..NumTrials /\ passed \in 0..trial
TimesType == times \in Seq(Times \cup {-1}) /\ Len(times) <= 3
AnswerType == answer \in Results

\* TypeOK, taken apart.
LEMMA TypeParts ==
  TypeOK <=> /\ PcType /\ RequestType /\ ExecType /\ DeviceType /\ CountType
             /\ TrialType /\ TimesType /\ AnswerType
BY
 DEF TypeOK, PcType, RequestType, ExecType, DeviceType, CountType, TrialType,
     TimesType, AnswerType, Execs, Results

\* The median of three rounds is one of them.
LEMMA MedianIsRound ==
  ASSUME NEW s \in Seq(Times \cup {-1}), Len(s) = 3
  PROVE  MedianTime(s) \in Times \cup {-1}
<1>1. Times \cup {-1} \subseteq Int
  BY ConstantsAssumption
<1>2. s \in Seq(Int)
  BY <1>1
<1>3. PICK i \in DOMAIN s : MedianTime(s) = s[i]
  BY <1>2, MedianOfThree
<1>. QED
  BY <1>3

\* Every way to end a stage leaves an answer of its type.
LEMMA VerdictType ==
  ASSUME NEW x \in Execs, NEW ref \in Times \cup {-1, 0}, NEW names \in BOOLEAN
  PROVE  Verdict(x, ref, names) \in Results
BY DEF Verdict, Results

LEMMA EscapeType ==
  ASSUME NEW names \in BOOLEAN, Escape(names)
  PROVE  AnswerType'
BY ExecFields DEF Escape, Failed, Results, AnswerType

LEMMA FinishType ==
  ASSUME AnswerType, NEW x \in Execs, NEW names \in BOOLEAN, Finish(x, names)
  PROVE  AnswerType'
BY VerdictType DEF Finish, AnswerType

LEMMA SimpleEndsType ==
  ASSUME NEW x \in Execs, SimpleEnds(x)
  PROVE  AnswerType'
BY DEF SimpleEnds, Verdict, Results, AnswerType

LEMMA SimpleFailsType ==
  ASSUME NEW names \in BOOLEAN, SimpleFails(names)
  PROVE  AnswerType'
BY ExecFields DEF SimpleFails, Verdict, Results, AnswerType

\* The stage is one of those there are.
LEMMA PcTypeStep ==
  ASSUME TypeOK, Staged, [Next]_vars
  PROVE  PcType'
<1> USE DEF Staged, PcType, TypeOK, Goto, Escape, Finish, SimpleFails,
            SimpleEnds
<1>1. CASE \E t \in Tasks, k \in Kernels : Receive(t, k)
  BY <1>1, ReceiveCases
<1>2. CASE CreateModel
  BY <1>2, CreateCases
<1>3. CASE LoadOriginal \/ CompileFails \/ CompileLocked \/ Compile
  BY <1>3 DEF LoadOriginal, CompileFails, CompileLocked, Compile
<1>4. CASE Trial \/ Judge
  BY <1>4 DEF Trial, Judge
<1>5. CASE SkipDetection \/ Detect \/ DetectRaises
  BY <1>5 DEF SkipDetection, Detect, DetectRaises
<1>6. CASE SkipTiming \/ Time \/ TimeRaises \/ Cover
  BY <1>6 DEF SkipTiming, Time, TimeRaises, Cover
<1>7. CASE LoadCases \/ BuildSimple \/ Case \/ JudgeCases \/ TimeSimple
  BY <1>7 DEF LoadCases, BuildSimple, Case, JudgeCases, TimeSimple
<1>8. CASE Round \/ Timed
  BY <1>8 DEF Round, Timed
<1>9. CASE Respond \/ Respawn
  BY <1>9 DEF Respond, Respawn
<1>10. CASE \E m \in Profiles : Profile(m)
  BY <1>10 DEF Profile
<1>11. CASE UNCHANGED vars
  BY <1>11 DEF vars
<1>. QED
  BY <1>1, <1>2, <1>3, <1>4, <1>5, <1>6, <1>7, <1>8, <1>9, <1>10, <1>11
     DEF Next

\* The request and the kernel are among those sent.
LEMMA RequestTypeStep ==
  ASSUME TypeOK, Staged, [Next]_vars
  PROVE  RequestType'
<1> USE DEF Staged, TypeOK, RequestType, Goto, Escape, Finish, SimpleFails,
            SimpleEnds
<1>1. CASE \E t \in Tasks, k \in Kernels : Receive(t, k)
  BY <1>1, ReceiveCases
<1>2. CASE CreateModel
  BY <1>2, CreateCases
<1>3. CASE LoadOriginal \/ CompileFails \/ CompileLocked \/ Compile
  BY <1>3 DEF LoadOriginal, CompileFails, CompileLocked, Compile
<1>4. CASE Trial \/ Judge
  BY <1>4 DEF Trial, Judge
<1>5. CASE SkipDetection \/ Detect \/ DetectRaises
  BY <1>5 DEF SkipDetection, Detect, DetectRaises
<1>6. CASE SkipTiming \/ Time \/ TimeRaises \/ Cover
  BY <1>6 DEF SkipTiming, Time, TimeRaises, Cover
<1>7. CASE LoadCases \/ BuildSimple \/ Case \/ JudgeCases \/ TimeSimple
  BY <1>7 DEF LoadCases, BuildSimple, Case, JudgeCases, TimeSimple
<1>8. CASE Round \/ Timed
  BY <1>8 DEF Round, Timed
<1>9. CASE Respond \/ Respawn
  BY <1>9 DEF Respond, Respawn
<1>10. CASE \E m \in Profiles : Profile(m)
  BY <1>10 DEF Profile
<1>11. CASE UNCHANGED vars
  BY <1>11 DEF vars
<1>. QED
  BY <1>1, <1>2, <1>3, <1>4, <1>5, <1>6, <1>7, <1>8, <1>9, <1>10, <1>11
     DEF Next

\* The verdict has its fields.
LEMMA ExecTypeStep ==
  ASSUME TypeOK, Staged, [Next]_vars
  PROVE  ExecType'
<1> USE TypeParts, ExecFields
     DEF Staged, ExecType, Goto, Escape, Finish, SimpleFails, SimpleEnds
<1>1. CASE \E t \in Tasks, k \in Kernels : Receive(t, k)
  BY <1>1, ReceiveCases
<1>2. CASE CreateModel
  BY <1>2, CreateCases
<1>3. CASE LoadOriginal \/ CompileFails \/ CompileLocked \/ Compile
  BY <1>3 DEF LoadOriginal, CompileFails, CompileLocked, Compile
<1>4. CASE Trial \/ Judge
  BY <1>4 DEF Trial, Judge
<1>5. CASE SkipDetection \/ DetectRaises
  BY <1>5 DEF SkipDetection, DetectRaises
<1>6. CASE Detect
  <2> DEFINE y == [exec EXCEPT !.decoy = TRUE]
  <2>1. y \in Execs
    BY TypeParts DEF Execs
  <2>2. exec' = exec \/ exec' = y
    BY <1>6 DEF Detect
  <2> HIDE DEF y
  <2>. QED
    BY <2>1, <2>2
<1>7. CASE SkipTiming \/ TimeRaises
  BY <1>7 DEF SkipTiming, TimeRaises
<1>8. CASE Time
  <2> DEFINE y == [exec EXCEPT !.timed = TRUE]
  <2>1. y \in Execs
    BY TypeParts DEF Execs
  <2>2. exec' = exec \/ exec' = y
    BY <1>8 DEF Time
  <2> HIDE DEF y
  <2>. QED
    BY <2>1, <2>2
<1>9. CASE Cover
  <2> DEFINE y == [exec EXCEPT !.timed = TRUE]
           z == [exec EXCEPT !.timed = TRUE, !.decoy = metrics = "foreign"]
  <2>1. y \in Execs /\ z \in Execs
    BY TypeParts DEF Execs
  <2>2. exec' = exec \/ exec' = y \/ exec' = z
    BY <1>9 DEF Cover
  <2> HIDE DEF y, z
  <2>. QED
    BY <2>1, <2>2
<1>10. CASE LoadCases \/ BuildSimple \/ Case
  BY <1>10 DEF LoadCases, BuildSimple, Case
<1>11. CASE JudgeCases
  <2> DEFINE c == /\ Expected(task) # {}
                  /\ passed = Cardinality(Expected(task))
  <2>1. Judged(c) \in Execs
    BY ExecFields
  <2>2. exec' = Judged(c)
    BY <1>11 DEF JudgeCases
  <2> HIDE DEF c
  <2>. QED
    BY <2>1, <2>2
<1>12. CASE TimeSimple
  <2> DEFINE y == [exec EXCEPT !.timed = TRUE]
  <2>1. y \in Execs /\ Judged(FALSE) \in Execs
    BY TypeParts, ExecFields DEF Execs
  <2>2. exec' = y \/ exec' = Judged(FALSE)
    BY <1>12 DEF TimeSimple
  <2> HIDE DEF y
  <2>. QED
    BY <2>1, <2>2
<1>13. CASE Round \/ Timed
  BY <1>13 DEF Round, Timed
<1>14. CASE Respond \/ Respawn
  BY <1>14 DEF Respond, Respawn
<1>15. CASE \E m \in Profiles : Profile(m)
  BY <1>15 DEF Profile
<1>16. CASE UNCHANGED vars
  BY <1>16 DEF vars
<1>. QED
  BY <1>1, <1>2, <1>3, <1>4, <1>5, <1>6, <1>7, <1>8, <1>9, <1>10, <1>11,
     <1>12, <1>13, <1>14, <1>15, <1>16 DEF Next

\* The session and the device are in one of two states.
LEMMA DeviceTypeStep ==
  ASSUME TypeOK, Staged, [Next]_vars
  PROVE  DeviceType'
<1> USE DEF Staged, DeviceType, TypeOK, Goto, Escape, Finish, SimpleFails,
            SimpleEnds
<1>1. CASE \E t \in Tasks, k \in Kernels : Receive(t, k)
  BY <1>1, ReceiveCases
<1>2. CASE CreateModel
  BY <1>2, CreateCases
<1>3. CASE LoadOriginal \/ CompileFails \/ CompileLocked \/ Compile
  BY <1>3 DEF LoadOriginal, CompileFails, CompileLocked, Compile
<1>4. CASE Trial \/ Judge
  BY <1>4 DEF Trial, Judge
<1>5. CASE SkipDetection \/ Detect \/ DetectRaises
  BY <1>5 DEF SkipDetection, Detect, DetectRaises
<1>6. CASE SkipTiming \/ Time \/ TimeRaises \/ Cover
  BY <1>6 DEF SkipTiming, Time, TimeRaises, Cover
<1>7. CASE LoadCases \/ BuildSimple \/ Case \/ JudgeCases \/ TimeSimple
  BY <1>7 DEF LoadCases, BuildSimple, Case, JudgeCases, TimeSimple
<1>8. CASE Round \/ Timed
  BY <1>8 DEF Round, Timed
<1>9. CASE Respond \/ Respawn
  BY <1>9 DEF Respond, Respawn
<1>10. CASE \E m \in Profiles : Profile(m)
  BY <1>10 DEF Profile
<1>11. CASE UNCHANGED vars
  BY <1>11 DEF vars
<1>. QED
  BY <1>1, <1>2, <1>3, <1>4, <1>5, <1>6, <1>7, <1>8, <1>9, <1>10, <1>11
     DEF Next

\* The counters stay within their bounds.
LEMMA CountTypeStep ==
  ASSUME TypeOK, Staged, [Next]_vars
  PROVE  CountType'
<1> USE TypeParts, ConstantsAssumption
     DEF Staged, Capped, CountType, Profiles, Goto, Escape, Finish,
         SimpleFails, SimpleEnds
<1>1. CASE \E t \in Tasks, k \in Kernels : Receive(t, k)
  BY <1>1, ReceiveCases
<1>2. CASE CreateModel
  BY <1>2, CreateCases
<1>3. CASE LoadOriginal \/ CompileFails \/ CompileLocked \/ Compile
  BY <1>3 DEF LoadOriginal, CompileFails, CompileLocked, Compile
<1>4. CASE Trial \/ Judge
  BY <1>4 DEF Trial, Judge
<1>5. CASE SkipDetection \/ Detect \/ DetectRaises
  BY <1>5 DEF SkipDetection, Detect, DetectRaises
<1>6. CASE SkipTiming \/ Time \/ TimeRaises \/ Cover
  BY <1>6 DEF SkipTiming, Time, TimeRaises, Cover
<1>7. CASE LoadCases \/ BuildSimple \/ Case \/ JudgeCases \/ TimeSimple
  BY <1>7 DEF LoadCases, BuildSimple, Case, JudgeCases, TimeSimple
<1>8. CASE Round \/ Timed
  BY <1>8 DEF Round, Timed
<1>9. CASE Respawn
  BY <1>9 DEF Respawn
<1>10. CASE Respond
  BY <1>10 DEF Respond
<1>11. CASE \E m \in Profiles : Profile(m)
  BY <1>11 DEF Profile
<1>12. CASE UNCHANGED vars
  BY <1>12 DEF vars
<1>. QED
  BY <1>1, <1>2, <1>3, <1>4, <1>5, <1>6, <1>7, <1>8, <1>9, <1>10, <1>11,
     <1>12 DEF Next

\* No more trials are passed than run, nor run than asked for.
LEMMA TrialTypeStep ==
  ASSUME TypeOK, Staged, [Next]_vars
  PROVE  TrialType'
<1> USE TypeParts, ConstantsAssumption
     DEF Staged, TrialType, TrialsWanted, Goto, Escape, Finish, SimpleFails,
         SimpleEnds
<1>1. CASE \E t \in Tasks, k \in Kernels : Receive(t, k)
  BY <1>1, ReceiveCases
<1>2. CASE CreateModel
  BY <1>2, CreateCases
<1>3. CASE LoadOriginal \/ CompileFails \/ CompileLocked \/ Compile
  BY <1>3 DEF LoadOriginal, CompileFails, CompileLocked, Compile
<1>4. CASE Judge
  BY <1>4 DEF Judge
<1>5. CASE Trial
  BY <1>5 DEF Trial
<1>6. CASE SkipDetection \/ Detect \/ DetectRaises
  BY <1>6 DEF SkipDetection, Detect, DetectRaises
<1>7. CASE SkipTiming \/ Time \/ TimeRaises \/ Cover
  BY <1>7 DEF SkipTiming, Time, TimeRaises, Cover
<1>8. CASE LoadCases \/ BuildSimple \/ JudgeCases \/ TimeSimple
  BY <1>8 DEF LoadCases, BuildSimple, JudgeCases, TimeSimple
<1>9. CASE Case
  <2>1. /\ trial < NumTrials /\ trial' = trial + 1
        /\ passed' = passed \/ passed' = passed + 1
    BY <1>9 DEF Case
  <2>. QED
    BY <2>1
<1>10. CASE Round \/ Timed
  BY <1>10 DEF Round, Timed
<1>11. CASE Respawn
  BY <1>11 DEF Respawn
<1>12. CASE Respond
  BY <1>12 DEF Respond
<1>13. CASE \E m \in Profiles : Profile(m)
  BY <1>13 DEF Profile
<1>14. CASE UNCHANGED vars
  BY <1>14 DEF vars
<1>. QED
  BY <1>1, <1>2, <1>3, <1>4, <1>5, <1>6, <1>7, <1>8, <1>9, <1>10, <1>11,
     <1>12, <1>13, <1>14 DEF Next

\* At most three rounds are timed.
LEMMA TimesTypeStep ==
  ASSUME TypeOK, Staged, [Next]_vars
  PROVE  TimesType'
<1> USE TypeParts, ConstantsAssumption
     DEF Staged, TimesType, Rounds, Goto, Escape, Finish, SimpleFails,
         SimpleEnds
<1>1. CASE \E t \in Tasks, k \in Kernels : Receive(t, k)
  BY <1>1, ReceiveCases
<1>2. CASE CreateModel
  BY <1>2, CreateCases
<1>3. CASE LoadOriginal \/ CompileFails \/ CompileLocked \/ Compile
  BY <1>3 DEF LoadOriginal, CompileFails, CompileLocked, Compile
<1>4. CASE Trial \/ Judge
  BY <1>4 DEF Trial, Judge
<1>5. CASE SkipDetection \/ Detect \/ DetectRaises
  BY <1>5 DEF SkipDetection, Detect, DetectRaises
<1>6. CASE SkipTiming \/ Time \/ TimeRaises \/ Cover
  BY <1>6 DEF SkipTiming, Time, TimeRaises, Cover
<1>7. CASE LoadCases \/ BuildSimple \/ Case \/ JudgeCases \/ TimeSimple
  BY <1>7 DEF LoadCases, BuildSimple, Case, JudgeCases, TimeSimple
<1>8. CASE Round
  <2>1. Len(times) < 3
    BY <1>8 DEF Round
  <2>2. CASE UNCHANGED times
    BY <2>2
  <2>3. CASE ~ UNCHANGED times
    <3>1. PICK t \in Times \cup {-1} : times' = Append(times, t)
      BY <1>8, <2>3 DEF Round
    <3>2. times' \in Seq(Times \cup {-1}) /\ Len(times') = Len(times) + 1
      BY <3>1
    <3>. QED
      BY <2>1, <3>2
  <2>. QED
    BY <2>2, <2>3
<1>9. CASE Timed
  BY <1>9 DEF Timed
<1>10. CASE Respawn
  BY <1>10 DEF Respawn
<1>11. CASE Respond
  BY <1>11 DEF Respond
<1>12. CASE \E m \in Profiles : Profile(m)
  BY <1>12 DEF Profile
<1>13. CASE UNCHANGED vars
  BY <1>13 DEF vars
<1>. QED
  BY <1>1, <1>2, <1>3, <1>4, <1>5, <1>6, <1>7, <1>8, <1>9, <1>10, <1>11,
     <1>12, <1>13 DEF Next

\* The answer has its fields.
LEMMA AnswerTypeStep ==
  ASSUME TypeOK, Staged, [Next]_vars
  PROVE  AnswerType'
<1> USE TypeParts DEF Staged, Goto
<1>1. CASE \E t \in Tasks, k \in Kernels : Receive(t, k)
  BY <1>1, ReceiveCases DEF AnswerType
<1>2. CASE CreateModel
  <2>1. CASE UNCHANGED answer
    BY <2>1 DEF AnswerType
  <2>2. CASE Finish(Judged(FALSE), FALSE)
    BY <2>2, ExecFields, FinishType
  <2>3. CASE \E names \in BOOLEAN : Escape(names)
    BY <2>3, EscapeType
  <2>. QED
    BY <1>2, <2>1, <2>2, <2>3, CreateCases
<1>3. CASE LoadOriginal
  <2>1. UNCHANGED answer \/ \E names \in BOOLEAN : Escape(names)
    BY <1>3 DEF LoadOriginal
  <2>2. CASE \E names \in BOOLEAN : Escape(names)
    BY <2>2, EscapeType
  <2>. QED
    BY <2>1, <2>2 DEF AnswerType
<1>4. CASE CompileFails
  <2>1. \/ Escape(TRUE)
        \/ \E names \in BOOLEAN : Finish(NoExec, names)
    BY <1>4 DEF CompileFails
  <2>2. CASE Escape(TRUE)
    BY <2>2, EscapeType
  <2>3. CASE \E names \in BOOLEAN : Finish(NoExec, names)
    BY <2>3, ExecFields, FinishType
  <2>. QED
    BY <2>1, <2>2, <2>3
<1>5. CASE CompileLocked
  <2>1. \E names \in BOOLEAN : Escape(names)
    BY <1>5 DEF CompileLocked
  <2>. QED
    BY <2>1, EscapeType
<1>6. CASE Compile
  <2>1. Finish(NoExec, TRUE) \/ UNCHANGED answer
    BY <1>6 DEF Compile
  <2>2. CASE Finish(NoExec, TRUE)
    BY <2>2, ExecFields, FinishType
  <2>. QED
    BY <2>1, <2>2 DEF AnswerType
<1>7. CASE Trial \/ Judge
  BY <1>7 DEF AnswerType, Trial, Judge
<1>8. CASE SkipDetection \/ DetectRaises
  BY <1>8 DEF AnswerType, SkipDetection, DetectRaises
<1>9. CASE Detect
  <2> DEFINE y == [exec EXCEPT !.decoy = TRUE]
  <2>1. y \in Execs
    BY TypeParts, ExecFields DEF ExecType, Execs
  <2>2. Finish(y, FALSE) \/ UNCHANGED answer
    BY <1>9 DEF Detect
  <2> HIDE DEF y
  <2>3. CASE Finish(y, FALSE)
    BY <2>1, <2>3, FinishType
  <2>. QED
    BY <2>2, <2>3 DEF AnswerType
<1>10. CASE SkipTiming
  <2>1. exec \in Execs
    BY TypeParts, ExecFields DEF ExecType, Execs
  <2>2. Finish(exec, FALSE) \/ UNCHANGED answer
    BY <1>10 DEF SkipTiming
  <2>3. CASE Finish(exec, FALSE)
    BY <2>1, <2>3, FinishType
  <2>. QED
    BY <2>2, <2>3 DEF AnswerType
<1>11. CASE Time
  <2> DEFINE y == [exec EXCEPT !.timed = TRUE]
  <2>1. y \in Execs
    BY TypeParts, ExecFields DEF ExecType, Execs
  <2>2. Finish(y, FALSE) \/ UNCHANGED answer
    BY <1>11 DEF Time
  <2> HIDE DEF y
  <2>3. CASE Finish(y, FALSE)
    BY <2>1, <2>3, FinishType
  <2>. QED
    BY <2>2, <2>3 DEF AnswerType
<1>12. CASE TimeRaises
  <2>1. exec \in Execs
    BY TypeParts, ExecFields DEF ExecType, Execs
  <2>2. Finish(exec, FALSE) \/ UNCHANGED answer
    BY <1>12 DEF TimeRaises
  <2>3. CASE Finish(exec, FALSE)
    BY <2>1, <2>3, FinishType
  <2>. QED
    BY <2>2, <2>3 DEF AnswerType
<1>13. CASE Cover
  <2> DEFINE y == IF metrics = "absent" THEN [exec EXCEPT !.timed = TRUE]
                 ELSE IF matches = "unset" THEN exec
                 ELSE [exec EXCEPT !.timed = TRUE,
                                   !.decoy = metrics = "foreign"]
  <2>1. y \in Execs
    BY TypeParts, ExecFields DEF ExecType, Execs
  <2>2. Finish(y, FALSE) \/ UNCHANGED answer
    BY <1>13 DEF Cover
  <2> HIDE DEF y
  <2>3. CASE Finish(y, FALSE)
    BY <2>1, <2>3, FinishType
  <2>. QED
    BY <2>2, <2>3 DEF AnswerType
<1>14. CASE LoadCases
  <2>1. UNCHANGED answer \/ \E names \in BOOLEAN : Escape(names)
    BY <1>14 DEF LoadCases
  <2>2. CASE \E names \in BOOLEAN : Escape(names)
    BY <2>2, EscapeType
  <2>. QED
    BY <2>1, <2>2 DEF AnswerType
<1>15. CASE BuildSimple
  <2>1. UNCHANGED answer \/ \E names \in BOOLEAN : SimpleFails(names)
    BY <1>15 DEF BuildSimple
  <2>2. CASE \E names \in BOOLEAN : SimpleFails(names)
    BY <2>2, SimpleFailsType
  <2>. QED
    BY <2>1, <2>2 DEF AnswerType
<1>16. CASE Case
  <2>1. UNCHANGED answer \/ \E names \in BOOLEAN : SimpleFails(names)
    BY <1>16 DEF Case
  <2>2. CASE \E names \in BOOLEAN : SimpleFails(names)
    BY <2>2, SimpleFailsType
  <2>. QED
    BY <2>1, <2>2 DEF AnswerType
<1>17. CASE JudgeCases
  <2> DEFINE x == Judged(/\ Expected(task) # {}
                         /\ passed = Cardinality(Expected(task)))
  <2>1. x \in Execs
    BY ExecFields
  <2>2. UNCHANGED answer \/ SimpleEnds(x)
    BY <1>17 DEF JudgeCases
  <2> HIDE DEF x
  <2>3. CASE SimpleEnds(x)
    BY <2>1, <2>3, SimpleEndsType
  <2>. QED
    BY <2>2, <2>3 DEF AnswerType
<1>18. CASE TimeSimple
  <2> DEFINE x == [exec EXCEPT !.timed = TRUE]
  <2>1. x \in Execs
    BY TypeParts DEF ExecType, Execs
  <2>2. SimpleEnds(x) \/ \E names \in BOOLEAN : SimpleFails(names)
    BY <1>18 DEF TimeSimple
  <2> HIDE DEF x
  <2>3. CASE SimpleEnds(x)
    BY <2>1, <2>3, SimpleEndsType
  <2>4. CASE \E names \in BOOLEAN : SimpleFails(names)
    BY <2>4, SimpleFailsType
  <2>. QED
    BY <2>2, <2>3, <2>4
<1>19. CASE Round
  <2>1. UNCHANGED answer \/ Escape(TRUE)
    BY <1>19 DEF Round
  <2>2. CASE Escape(TRUE)
    BY <2>2, EscapeType
  <2>. QED
    BY <2>1, <2>2 DEF AnswerType
<1>20. CASE Timed
  <2>1. times \in Seq(Times \cup {-1}) /\ Len(times) = Rounds(task)
    BY <1>20, TypeParts DEF Timed, TimesType
  <2>2. CASE task.kind = "reference_timing"
    <3>1. MedianTime(times) \in Times \cup {-1}
      BY <2>1, <2>2, MedianIsRound DEF Rounds
    <3>2. answer' = Timing(MedianTime(times))
      BY <1>20, <2>2 DEF Timed
    <3>. QED
      BY <3>1, <3>2, ExecFields DEF Timing, AnswerType, Results
  <2>3. CASE task.kind # "reference_timing"
    <3>1. times[1] \in Times \cup {-1}
      BY <2>1, <2>3 DEF Rounds
    <3>2. answer' = Verdict(exec, times[1], FALSE)
      BY <1>20, <2>3 DEF Timed
    <3>. QED
      BY <3>1, <3>2, TypeParts, VerdictType DEF AnswerType, ExecType
  <2>. QED
    BY <2>2, <2>3
<1>21. CASE Respond \/ Respawn
  <2>1. Failed(FALSE) \in Results
    BY ExecFields DEF Failed, Results
  <2>2. answer' = answer \/ answer' = Failed(FALSE)
    BY <1>21 DEF Respond, Respawn
  <2>. QED
    BY <2>1, <2>2 DEF AnswerType
<1>22. CASE \E m \in Profiles : Profile(m)
  BY <1>22 DEF AnswerType, Profile
<1>23. CASE UNCHANGED vars
  BY <1>23 DEF AnswerType, vars
<1>. QED
  BY <1>1, <1>2, <1>3, <1>4, <1>5, <1>6, <1>7, <1>8, <1>9, <1>10, <1>11,
     <1>12, <1>13, <1>14, <1>15, <1>16, <1>17, <1>18, <1>19, <1>20, <1>21,
     <1>22, <1>23 DEF Next

-----------------------------------------------------------------------------
(* The invariants behind the properties. *)

Judgeable == {"detect", "time", "profile", "cover", "reference", "clock",
              "respond"}

\* A kernel that passed the trials or the cases there were.
Right ==
  RunCorrectness(task) =>
    IF task.kind = "kernel_simple"
      THEN /\ Expected(task) # {}
           /\ \A i \in Expected(task) : kernel.trial[i] = "right"
      ELSE \A i \in 1..NumTrials : kernel.trial[i] = "right"

\* When every trial so far has passed, every output so far was right.
TrialsRight ==
  pc = "trials" /\ passed = trial =>
    \A i \in 1..trial : kernel.trial[i] = "right"

\* No more cases pass than have an output to compare, and if all of them pass
\* every output compared so far was right.
Compared == {i \in Expected(task) : i <= trial}
CasesRight ==
  pc = "case" =>
    /\ passed <= Cardinality(Compared)
    /\ passed = Cardinality(Compared) =>
         \A i \in Compared : kernel.trial[i] = "right"

VerdictRight == pc \in Judgeable /\ exec.correct => Right

\* An evaluation that began on a faulted device gets no further than where the
\* fault is noticed, or where nothing would notice it: the cases compared there
\* are of plain values, and none that was right is missed.
Stopped ==
  begun = "faulted" =>
    pc \notin {"create", "trials", "detect", "time", "profile", "cover"}
Untimeable ==
  begun = "faulted" /\ pc = "reference" =>
    exec = NoExec /\ \A i \in 1..Len(times) : times[i] = -1
ComparedPlain ==
  begun = "faulted" /\ pc = "case" =>
    /\ \A i \in Compared : task.cases[i] = "told"
    /\ (\A i \in Compared : kernel.trial[i] = "right") =>
         passed = Cardinality(Compared)

\* A session is open from the load on, and left open by an exception of the
\* constructor only.
Opened ==
  session = "open" =>
    \/ pc \in {"create", "trials", "detect", "time", "profile", "cover",
               "build", "case", "clock"}
    \/ /\ pc = "respond"
       /\ kernel.create = "other" /\ task.kind # "kernel_simple"

\* Detection has seen nothing before its stage, and nothing is a decoy or has
\* a time before the last stages.
Unseen ==
  pc \in {"load", "compile", "create", "trials", "detect"} \cup Simple =>
    matches = "unset"
Untimed ==
  pc \in {"detect", "time", "profile", "cover", "clock"} =>
    ~ exec.decoy /\ ~ exec.timed

\* What was submitted as Triton and goes on after detection, or has a time,
\* launches Triton always.
Launching ==
  task.backend = "triton" /\ matches # "unset" /\ kernel.triton # "always" =>
    /\ pc \notin {"time", "profile", "cover"}
    /\ pc \in {"reference", "respond"} => ~ exec.timed

\* Only a profile marks a kernel that does.
Marked == exec.decoy /\ kernel.triton = "always" => metrics = "foreign"

\* A time that was answered is the median of three rounds.
Measured ==
  pc = "respond" /\ task.kind = "reference_timing" /\ answer.reference # 0 =>
    Len(times) = 3 /\ answer.reference = MedianTime(times)

\* A case more is compared, or is not.
LEMMA ComparedNext ==
  ASSUME TypeOK, trial < NumTrials, trial' = trial + 1, UNCHANGED task
  PROVE  /\ trial + 1 \notin Compared
         /\ trial + 1 \notin Expected(task) =>
              /\ Compared' = Compared
              /\ Cardinality(Compared') = Cardinality(Compared)
         /\ trial + 1 \in Expected(task) =>
              /\ Compared' = Compared \cup {trial + 1}
              /\ Cardinality(Compared') = Cardinality(Compared) + 1
         /\ Cardinality(Compared) \in Nat
<1>1. trial \in Nat /\ NumTrials \in Nat
  BY TypeParts, ConstantsAssumption DEF TrialType
<1>2. Expected(task) \subseteq 1..NumTrials
  BY DEF Expected
<1>3. IsFiniteSet(Compared)
  <2>1. IsFiniteSet(1..NumTrials)
    BY <1>1, FS_Interval
  <2>2. Compared \subseteq 1..NumTrials
    BY <1>2 DEF Compared
  <2>. QED
    BY <2>1, <2>2, FS_Subset
<1>4. trial + 1 \notin Compared
  BY <1>1 DEF Compared
<1>5. \A i \in Expected(task) :
        i <= trial + 1 <=> (i <= trial \/ i = trial + 1)
  BY <1>1, <1>2
<1>6. Compared' = {i \in Expected(task) : i <= trial + 1}
  BY DEF Compared, Expected
<1>7. CASE trial + 1 \in Expected(task)
  <2>1. Compared' = Compared \cup {trial + 1}
    BY <1>5, <1>6, <1>7 DEF Compared
  <2>. QED
    BY <1>3, <1>4, <1>7, <2>1, FS_AddElement, FS_CardinalityType
<1>8. CASE trial + 1 \notin Expected(task)
  <2>1. Compared' = Compared
    BY <1>5, <1>6, <1>8 DEF Compared
  <2>. QED
    BY <1>3, <1>4, <1>8, <2>1, FS_CardinalityType
<1>. QED
  BY <1>7, <1>8

\* Before the first case nothing is compared, after the last one everything.
LEMMA ComparedEnds ==
  ASSUME NEW n, n = trial
  PROVE  /\ n = 0 => Compared = {} /\ Cardinality(Compared) = 0
         /\ n = NumTrials => Compared = Expected(task)
<1>1. Expected(task) \subseteq 1..NumTrials
  BY DEF Expected
<1>2. n = 0 => Compared = {}
  BY <1>1, ConstantsAssumption DEF Compared
<1>3. n = NumTrials => Compared = Expected(task)
  BY <1>1, ConstantsAssumption DEF Compared
<1>. QED
  BY <1>2, <1>3, FS_EmptySet

\* One trial more.
LEMMA TrialsRightStep ==
  ASSUME TypeOK, Staged, TrialsRight, [Next]_vars
  PROVE  TrialsRight'
<1> USE TypeParts
     DEF Staged, TrialsRight, Unjudged, Goto, Escape, Finish, SimpleFails,
         SimpleEnds
<1>1. CASE \E t \in Tasks, k \in Kernels : Receive(t, k)
  BY <1>1, ReceiveCases
<1>2. CASE CreateModel
  BY <1>2, CreateCases
<1>3. CASE LoadOriginal \/ CompileFails \/ CompileLocked \/ Compile
  BY <1>3 DEF LoadOriginal, CompileFails, CompileLocked, Compile
<1>4. CASE Judge
  BY <1>4 DEF Judge
<1>5. CASE Trial
  <2>1. SUFFICES ASSUME pc' = "trials", passed' = trial',
                        NEW i \in 1..trial'
                 PROVE  kernel.trial[i] = "right"
    BY <1>5 DEF Trial
  <2>2. /\ pc = "trials" /\ trial' = trial + 1
        /\ passed' = IF kernel.trial[trial + 1] = "right" THEN passed + 1
                                                         ELSE passed
    BY <1>5 DEF Trial
  <2>3. kernel.trial[trial + 1] = "right" /\ passed = trial
    BY <2>1, <2>2 DEF TrialType
  <2>4. i \in 1..trial \/ i = trial + 1
    BY <2>2, ConstantsAssumption DEF TrialType
  <2>. QED
    BY <2>2, <2>3, <2>4
<1>6. CASE SkipDetection \/ Detect \/ DetectRaises
  BY <1>6 DEF SkipDetection, Detect, DetectRaises
<1>7. CASE SkipTiming \/ Time \/ TimeRaises \/ Cover
  BY <1>7 DEF SkipTiming, Time, TimeRaises, Cover
<1>8. CASE LoadCases \/ BuildSimple \/ Case \/ JudgeCases \/ TimeSimple
  BY <1>8 DEF LoadCases, BuildSimple, Case, JudgeCases, TimeSimple
<1>9. CASE Round \/ Timed
  BY <1>9 DEF Round, Timed
<1>10. CASE Respond \/ Respawn
  BY <1>10 DEF Respond, Respawn
<1>11. CASE \E m \in Profiles : Profile(m)
  BY <1>11 DEF Profile
<1>12. CASE UNCHANGED vars
  BY <1>12 DEF vars
<1>. QED
  BY <1>1, <1>2, <1>3, <1>4, <1>5, <1>6, <1>7, <1>8, <1>9, <1>10, <1>11,
     <1>12 DEF Next

\* One case more.
LEMMA CasesRightStep ==
  ASSUME TypeOK, Staged, CasesRight, [Next]_vars
  PROVE  CasesRight'
<1> USE TypeParts
     DEF Staged, CasesRight, Unjudged, Goto, Escape, Finish, SimpleFails,
         SimpleEnds
<1>1. CASE \E t \in Tasks, k \in Kernels : Receive(t, k)
  BY <1>1, ReceiveCases
<1>2. CASE CreateModel
  BY <1>2, CreateCases
<1>3. CASE LoadOriginal \/ CompileFails \/ CompileLocked \/ Compile
  BY <1>3 DEF LoadOriginal, CompileFails, CompileLocked, Compile
<1>4. CASE Trial \/ Judge
  BY <1>4 DEF Trial, Judge
<1>5. CASE SkipDetection \/ Detect \/ DetectRaises
  BY <1>5 DEF SkipDetection, Detect, DetectRaises
<1>6. CASE SkipTiming \/ Time \/ TimeRaises \/ Cover
  BY <1>6 DEF SkipTiming, Time, TimeRaises, Cover
<1>7. CASE LoadCases \/ JudgeCases \/ TimeSimple
  BY <1>7 DEF LoadCases, JudgeCases, TimeSimple
<1>8. CASE BuildSimple
  <2>1. pc' = "case" => trial' = 0 /\ passed' = 0 /\ UNCHANGED task
    BY <1>8 DEF BuildSimple
  <2>2. pc' = "case" => (Compared = {})' /\ (Cardinality(Compared) = 0)'
    <3>1. trial = 0 => Compared = {} /\ Cardinality(Compared) = 0
      BY ComparedEnds
    <3>2. pc' = "case" => trial = 0 /\ Compared' = Compared
      BY <1>8 DEF BuildSimple, Compared, Expected
    <3>. QED
      BY <3>1, <3>2
  <2>. QED
    BY <2>1, <2>2
<1>9. CASE Case
  <2>1. SUFFICES ASSUME pc' = "case"
                 PROVE  CasesRight'
    OBVIOUS
  <2>2. /\ pc = "case" /\ trial < NumTrials /\ trial' = trial + 1
        /\ UNCHANGED <<task, kernel>>
    BY <1>9 DEF Case
  <2>3. \/ trial + 1 \notin Expected(task) /\ passed' = passed
        \/ /\ trial + 1 \in Expected(task)
           /\ \/ passed' = passed
              \/ passed' = passed + 1 /\ kernel.trial[trial + 1] = "right"
    BY <1>9, <2>1 DEF Case, Matches
  <2>4. passed \in Nat
    BY ConstantsAssumption DEF TrialType
  <2>. HIDE DEF TrialType, Goto, Escape, Finish, SimpleFails, SimpleEnds
  <2>5. CASE trial + 1 \notin Expected(task)
    BY <2>2, <2>3, <2>5, ComparedNext
  <2>6. CASE trial + 1 \in Expected(task)
    <3>1. /\ Compared' = Compared \cup {trial + 1}
          /\ Cardinality(Compared') = Cardinality(Compared) + 1
          /\ Cardinality(Compared) \in Nat
      BY <2>2, <2>6, ComparedNext
    <3>. QED
      BY <2>2, <2>3, <2>4, <2>6, <3>1
  <2>. QED
    BY <2>5, <2>6
<1>10. CASE Round \/ Timed
  BY <1>10 DEF Round, Timed
<1>11. CASE Respond \/ Respawn
  BY <1>11 DEF Respond, Respawn
<1>12. CASE \E m \in Profiles : Profile(m)
  BY <1>12 DEF Profile
<1>13. CASE UNCHANGED vars
  BY <1>13 DEF vars, Compared, Expected
<1>. QED
  BY <1>1, <1>2, <1>3, <1>4, <1>5, <1>6, <1>7, <1>8, <1>9, <1>10, <1>11,
     <1>12, <1>13 DEF Next

\* Correct is said only of a kernel that was right.
LEMMA VerdictRightStep ==
  ASSUME TypeOK, Staged, VerdictRight, TrialsRight, CasesRight, [Next]_vars
  PROVE  VerdictRight'
<1> USE TypeParts, ExecFields
     DEF Staged, VerdictRight, Right, Judgeable, Blank, Resting, Unjudged,
         Goto, Escape, Finish, SimpleFails, SimpleEnds
<1>1. CASE \E t \in Tasks, k \in Kernels : Receive(t, k)
  BY <1>1, ReceiveCases
<1>2. CASE CreateModel
  BY <1>2, CreateCases
<1>3. CASE LoadOriginal \/ CompileFails \/ CompileLocked \/ Compile
  BY <1>3 DEF LoadOriginal, CompileFails, CompileLocked, Compile
<1>4. CASE Trial
  BY <1>4 DEF Trial
<1>5. CASE Judge
  <2>1. /\ pc = "trials" /\ trial = TrialsWanted(task)
        /\ exec' = Judged(passed = TrialsWanted(task))
        /\ UNCHANGED <<task, kernel>>
    BY <1>5 DEF Judge
  <2>2. exec'.correct => passed = trial
    BY <2>1
  <2>3. RunCorrectness(task) => trial = NumTrials
    BY <2>1 DEF TrialsWanted
  <2>4. task.kind # "kernel_simple"
    BY <2>1 DEF Routed, Pipeline
  <2>5. exec'.correct => Right
    BY <2>1, <2>2, <2>3, <2>4 DEF TrialsRight
  <2>. QED
    BY <2>1, <2>5
<1>6. CASE SkipDetection \/ DetectRaises
  BY <1>6 DEF SkipDetection, DetectRaises
<1>7. CASE Detect
  BY <1>7 DEF Detect
<1>8. CASE SkipTiming
  BY <1>8 DEF SkipTiming
<1>9. CASE Time
  BY <1>9 DEF Time
<1>10. CASE TimeRaises
  BY <1>10 DEF TimeRaises
<1>11. CASE Cover
  BY <1>11 DEF Cover
<1>12. CASE LoadCases
  BY <1>12 DEF LoadCases
<1>13. CASE BuildSimple
  BY <1>13 DEF BuildSimple
<1>14. CASE Case
  BY <1>14 DEF Case
<1>15. CASE JudgeCases
  <2> DEFINE c == /\ Expected(task) # {}
                  /\ passed = Cardinality(Expected(task))
  <2>1. /\ pc = "case" /\ trial = NumTrials /\ exec' = Judged(c)
        /\ UNCHANGED <<task, kernel>>
    BY <1>15 DEF JudgeCases
  <2>2. exec'.correct => c
    BY <2>1
  <2>3. Compared = Expected(task)
    BY <2>1, ComparedEnds
  <2>4. exec'.correct => /\ Expected(task) # {}
                         /\ \A i \in Expected(task) : kernel.trial[i] = "right"
    BY <2>1, <2>2, <2>3 DEF CasesRight
  <2>5. task.kind = "kernel_simple"
    BY <2>1 DEF Routed, Simple
  <2>6. exec'.correct => Right
    BY <2>4, <2>5
  <2> HIDE DEF c
  <2>. QED
    BY <2>1, <2>6
<1>16. CASE TimeSimple
  <2> DEFINE y == [exec EXCEPT !.timed = TRUE]
  <2>1. /\ pc = "clock" /\ UNCHANGED <<task, kernel>>
        /\ exec' = y \/ exec' = Judged(FALSE)
    BY <1>16 DEF TimeSimple
  <2>2. y.correct = exec.correct
    BY DEF ExecType, Execs
  <2> HIDE DEF y
  <2>3. exec'.correct => exec.correct
    BY <2>1, <2>2
  <2>. QED
    BY <2>1, <2>3
<1>17. CASE Round \/ Timed
  BY <1>17 DEF Round, Timed
<1>18. CASE Respawn
  BY <1>18 DEF Respawn
<1>19. CASE Respond
  BY <1>19 DEF Respond
<1>20. CASE \E m \in Profiles : Profile(m)
  BY <1>20 DEF Profile
<1>21. CASE UNCHANGED vars
  BY <1>21 DEF vars
<1>. QED
  BY <1>1, <1>2, <1>3, <1>4, <1>5, <1>6, <1>7, <1>8, <1>9, <1>10, <1>11,
     <1>12, <1>13, <1>14, <1>15, <1>16, <1>17, <1>18, <1>19, <1>20, <1>21 DEF
     Next

\* The kernel of such an evaluation is not built.
LEMMA StoppedStep ==
  ASSUME TypeOK, Staged, Stopped, [Next]_vars
  PROVE  Stopped'
<1> USE TypeParts
     DEF Staged, Stopped, Lasting, Blank, Resting, Goto, Escape, Finish,
         SimpleFails, SimpleEnds
<1>1. CASE \E t \in Tasks, k \in Kernels : Receive(t, k)
  BY <1>1, ReceiveCases
<1>2. CASE CreateModel
  BY <1>2, CreateCases
<1>3. CASE LoadOriginal \/ CompileFails \/ CompileLocked \/ Compile
  BY <1>3 DEF LoadOriginal, CompileFails, CompileLocked, Compile
<1>4. CASE Trial \/ Judge
  BY <1>4 DEF Trial, Judge
<1>5. CASE SkipDetection \/ Detect \/ DetectRaises
  BY <1>5 DEF SkipDetection, Detect, DetectRaises
<1>6. CASE SkipTiming \/ Time \/ TimeRaises \/ Cover
  BY <1>6 DEF SkipTiming, Time, TimeRaises, Cover
<1>7. CASE LoadCases \/ BuildSimple \/ Case \/ JudgeCases \/ TimeSimple
  BY <1>7 DEF LoadCases, BuildSimple, Case, JudgeCases, TimeSimple
<1>8. CASE Round \/ Timed
  BY <1>8 DEF Round, Timed
<1>9. CASE Respond \/ Respawn
  BY <1>9 DEF Respond, Respawn
<1>10. CASE \E m \in Profiles : Profile(m)
  BY <1>10 DEF Profile
<1>11. CASE UNCHANGED vars
  BY <1>11 DEF vars
<1>. QED
  BY <1>1, <1>2, <1>3, <1>4, <1>5, <1>6, <1>7, <1>8, <1>9, <1>10, <1>11
     DEF Next

\* Nor is its reference timed.
LEMMA UntimeableStep ==
  ASSUME TypeOK, Staged, Untimeable, Stopped, [Next]_vars
  PROVE  Untimeable'
<1> USE TypeParts
     DEF Staged, Stopped, Untimeable, Lasting, Blank, Resting, Unjudged, Goto,
         Escape, Finish, SimpleFails, SimpleEnds
<1>1. CASE \E t \in Tasks, k \in Kernels : Receive(t, k)
  <2>1. PICK t \in Tasks, k \in Kernels : Receive(t, k)
    BY <1>1
  <2>2. pc = "idle" /\ UNCHANGED <<exec, times>>
    BY <2>1, ReceiveCases
  <2>. QED
    BY <2>2
<1>2. CASE CreateModel
  BY <1>2, CreateCases
<1>3. CASE LoadOriginal \/ CompileLocked
  BY <1>3 DEF LoadOriginal, CompileLocked
<1>4. CASE CompileFails
  BY <1>4 DEF CompileFails
<1>5. CASE Compile
  BY <1>5 DEF Compile
<1>6. CASE Trial \/ Judge
  BY <1>6 DEF Trial, Judge
<1>7. CASE SkipDetection \/ Detect \/ DetectRaises
  BY <1>7 DEF SkipDetection, Detect, DetectRaises
<1>8. CASE SkipTiming \/ Time \/ TimeRaises \/ Cover
  BY <1>8 DEF SkipTiming, Time, TimeRaises, Cover
<1>9. CASE LoadCases \/ BuildSimple \/ Case \/ JudgeCases \/ TimeSimple
  BY <1>9 DEF LoadCases, BuildSimple, Case, JudgeCases, TimeSimple
<1>10. CASE Round
  BY <1>10 DEF Round
<1>11. CASE Timed
  BY <1>11 DEF Timed
<1>12. CASE Respond \/ Respawn
  BY <1>12 DEF Respond, Respawn
<1>13. CASE \E m \in Profiles : Profile(m)
  BY <1>13 DEF Profile
<1>14. CASE UNCHANGED vars
  BY <1>14 DEF vars
<1>. QED
  BY <1>1, <1>2, <1>3, <1>4, <1>5, <1>6, <1>7, <1>8, <1>9, <1>10, <1>11,
     <1>12, <1>13, <1>14 DEF Next

\* What is compared there is plain, and judged by itself.
LEMMA ComparedPlainStep ==
  ASSUME TypeOK, Staged, ComparedPlain, [Next]_vars
  PROVE  ComparedPlain'
<1> USE TypeParts
     DEF Staged, ComparedPlain, Lasting, Blank, Resting, Unjudged, Goto, Escape,
         Finish, SimpleFails, SimpleEnds
<1>1. CASE \E t \in Tasks, k \in Kernels : Receive(t, k)
  BY <1>1, ReceiveCases
<1>2. CASE CreateModel
  BY <1>2, CreateCases
<1>3. CASE LoadOriginal \/ CompileFails \/ CompileLocked \/ Compile
  BY <1>3 DEF LoadOriginal, CompileFails, CompileLocked, Compile
<1>4. CASE Trial \/ Judge
  BY <1>4 DEF Trial, Judge
<1>5. CASE SkipDetection \/ Detect \/ DetectRaises
  BY <1>5 DEF SkipDetection, Detect, DetectRaises
<1>6. CASE SkipTiming \/ Time \/ TimeRaises \/ Cover
  BY <1>6 DEF SkipTiming, Time, TimeRaises, Cover
<1>7. CASE LoadCases \/ TimeSimple
  BY <1>7 DEF LoadCases, TimeSimple
<1>8. CASE BuildSimple
  <2>1. pc' = "case" => trial' = 0 /\ passed' = 0 /\ UNCHANGED task
    BY <1>8 DEF BuildSimple
  <2>2. pc' = "case" => (Compared = {})' /\ (Cardinality(Compared) = 0)'
    <3>1. trial = 0 => Compared = {} /\ Cardinality(Compared) = 0
      BY ComparedEnds
    <3>2. pc' = "case" => trial = 0 /\ Compared' = Compared
      BY <1>8 DEF BuildSimple, Compared, Expected
    <3>. QED
      BY <3>1, <3>2
  <2>. QED
    BY <2>1, <2>2
<1>9. CASE Case
  <2>1. SUFFICES ASSUME pc' = "case", begun' = "faulted"
                 PROVE  ComparedPlain'
    OBVIOUS
  <2>2. /\ pc = "case" /\ begun = "faulted" /\ context = "faulted"
        /\ trial < NumTrials /\ trial' = trial + 1
        /\ UNCHANGED <<task, kernel>>
    BY <1>9, <2>1 DEF Case
  <2>3. \/ trial + 1 \notin Expected(task) /\ passed' = passed
        \/ /\ trial + 1 \in Expected(task)
           /\ task.cases[trial + 1] = "told"
           /\ kernel.trial[trial + 1] = "right" => passed' = passed + 1
    BY <1>9, <2>1, <2>2 DEF Case, Matches
  <2>. HIDE DEF TrialType, Goto, Escape, Finish, SimpleFails, SimpleEnds
  <2>4. CASE trial + 1 \notin Expected(task)
    BY <2>2, <2>3, <2>4, ComparedNext
  <2>5. CASE trial + 1 \in Expected(task)
    <3>1. /\ Compared' = Compared \cup {trial + 1}
          /\ Cardinality(Compared') = Cardinality(Compared) + 1
      BY <2>2, <2>5, ComparedNext
    <3>. QED
      BY <2>2, <2>3, <2>5, <3>1
  <2>. QED
    BY <2>4, <2>5
<1>10. CASE JudgeCases
  BY <1>10 DEF JudgeCases
<1>11. CASE Round \/ Timed
  BY <1>11 DEF Round, Timed
<1>12. CASE Respond \/ Respawn
  BY <1>12 DEF Respond, Respawn
<1>13. CASE \E m \in Profiles : Profile(m)
  BY <1>13 DEF Profile
<1>14. CASE UNCHANGED vars
  BY <1>14 DEF vars, Compared, Expected
<1>. QED
  BY <1>1, <1>2, <1>3, <1>4, <1>5, <1>6, <1>7, <1>8, <1>9, <1>10, <1>11,
     <1>12, <1>13, <1>14 DEF Next

\* Nor is it answered with a verdict.
LEMMA NoVerdictFromFaultStep ==
  ASSUME TypeOK, Staged, NoVerdictFromFault, Stopped, Untimeable, CasesRight,
         ComparedPlain, [Next]_vars
  PROVE  NoVerdictFromFault'
<1> USE TypeParts, ExecFields
     DEF Staged, NoVerdictFromFault, Answering, Failed, Verdict, Timing,
         Lasting, Silent, Routed, Simple, Pipeline, Stopped, Goto, Escape,
         Finish, SimpleFails, SimpleEnds
<1>1. CASE \E t \in Tasks, k \in Kernels : Receive(t, k)
  BY <1>1, ReceiveCases
<1>2. CASE CreateModel
  BY <1>2, CreateCases
<1>3. CASE LoadOriginal \/ CompileLocked
  BY <1>3 DEF LoadOriginal, CompileLocked
<1>4. CASE CompileFails
  BY <1>4 DEF CompileFails
<1>5. CASE Compile
  BY <1>5 DEF Compile
<1>6. CASE Trial \/ Judge
  BY <1>6 DEF Trial, Judge
<1>7. CASE SkipDetection \/ Detect \/ DetectRaises
  BY <1>7 DEF SkipDetection, Detect, DetectRaises
<1>8. CASE SkipTiming \/ Time \/ TimeRaises \/ Cover
  BY <1>8 DEF SkipTiming, Time, TimeRaises, Cover
<1>9. CASE LoadCases
  BY <1>9 DEF LoadCases
<1>10. CASE BuildSimple
  BY <1>10 DEF BuildSimple
<1>11. CASE Case
  BY <1>11 DEF Case
<1>12. CASE JudgeCases
  <2>1. SUFFICES ASSUME begun' = "faulted"
                 PROVE  pc' = "respond" => NoVerdictFromFault'
    OBVIOUS
  <2>2. pc = "case" /\ trial = NumTrials /\ begun = "faulted"
    BY <1>12, <2>1 DEF JudgeCases
  <2>3. /\ \A i \in Expected(task) : task.cases[i] = "told"
        /\ passed = Cardinality(Expected(task)) <=>
             \A i \in Expected(task) : kernel.trial[i] = "right"
    BY <2>2, ComparedEnds DEF ComparedPlain, CasesRight
  <2> DEFINE x == Judged(/\ Expected(task) # {}
                         /\ passed = Cardinality(Expected(task)))
  <2>4. /\ ~ x.timed
        /\ x.correct <=> /\ Expected(task) # {}
                         /\ passed = Cardinality(Expected(task))
    BY ExecFields
  <2>5. (pc' = "clock" \/ SimpleEnds(x)) /\ UNCHANGED <<task, kernel>>
    BY <1>12 DEF JudgeCases
  <2>6. task.kind = "kernel_simple" /\ UNCHANGED Expected(task)
    BY <2>2, <2>5 DEF Expected
  <2> HIDE DEF x
  <2>. QED
    BY <2>3, <2>4, <2>5, <2>6
<1>13. CASE TimeSimple
  BY <1>13 DEF TimeSimple
<1>14. CASE Round
  BY <1>14 DEF Round
<1>15. CASE Timed
  <2>1. SUFFICES ASSUME begun' = "faulted"
                 PROVE  \/ answer'.status = "failed"
                        \/ /\ task.kind = "reference_timing"
                           /\ answer'.reference = -1
    BY <1>15 DEF Timed
  <2>2. pc = "reference" /\ begun = "faulted" /\ Len(times) = Rounds(task)
    BY <1>15, <2>1 DEF Timed
  <2>3. exec = NoExec /\ \A i \in 1..Len(times) : times[i] = -1
    BY <2>2 DEF Untimeable
  <2>4. CASE task.kind = "reference_timing"
    <3>1. Len(times) = 3
      BY <2>2, <2>4 DEF Rounds
    <3>2. times \in Seq(Int)
      <4>1. Times \cup {-1} \subseteq Int
        BY ConstantsAssumption
      <4>2. times \in Seq(Times \cup {-1})
        BY DEF TimesType
      <4>. QED
        BY <4>1, <4>2
    <3>3. PICK i \in DOMAIN times : MedianTime(times) = times[i]
      BY <3>1, <3>2, MedianOfThree
    <3>4. MedianTime(times) = -1
      BY <2>3, <3>2, <3>3
    <3>. QED
      BY <1>15, <2>4, <3>4 DEF Timed
  <2>5. CASE task.kind # "reference_timing"
    <3>1. answer' = Verdict(NoExec, times[1], FALSE)
      BY <1>15, <2>3, <2>5 DEF Timed
    <3>. QED
      BY <3>1
  <2>. QED
    BY <2>4, <2>5
<1>16. CASE Respond \/ Respawn
  BY <1>16 DEF Respond, Respawn
<1>17. CASE \E m \in Profiles : Profile(m)
  BY <1>17 DEF Profile
<1>18. CASE UNCHANGED vars
  BY <1>18 DEF vars
<1>. QED
  BY <1>1, <1>2, <1>3, <1>4, <1>5, <1>6, <1>7, <1>8, <1>9, <1>10, <1>11,
     <1>12, <1>13, <1>14, <1>15, <1>16, <1>17, <1>18 DEF Next

\* Every end but one closes the session.
LEMMA OpenedStep ==
  ASSUME TypeOK, Staged, Opened, [Next]_vars
  PROVE  Opened'
<1> USE TypeParts
     DEF Staged, Opened, Blank, Resting, Routed, Pipeline, Simple, Goto,
         Escape, Finish, SimpleFails, SimpleEnds
<1>1. CASE \E t \in Tasks, k \in Kernels : Receive(t, k)
  BY <1>1, ReceiveCases
<1>2. CASE CreateModel
  BY <1>2, CreateCases
<1>3. CASE LoadOriginal \/ CompileFails \/ CompileLocked \/ Compile
  BY <1>3 DEF LoadOriginal, CompileFails, CompileLocked, Compile
<1>4. CASE Trial \/ Judge
  BY <1>4 DEF Trial, Judge
<1>5. CASE SkipDetection \/ Detect \/ DetectRaises
  BY <1>5 DEF SkipDetection, Detect, DetectRaises
<1>6. CASE SkipTiming \/ Time \/ TimeRaises \/ Cover
  BY <1>6 DEF SkipTiming, Time, TimeRaises, Cover
<1>7. CASE LoadCases \/ BuildSimple \/ Case \/ JudgeCases \/ TimeSimple
  BY <1>7 DEF LoadCases, BuildSimple, Case, JudgeCases, TimeSimple
<1>8. CASE Round \/ Timed
  BY <1>8 DEF Round, Timed
<1>9. CASE Respond \/ Respawn
  BY <1>9 DEF Respond, Respawn
<1>10. CASE \E m \in Profiles : Profile(m)
  BY <1>10 DEF Profile
<1>11. CASE UNCHANGED vars
  BY <1>11 DEF vars
<1>. QED
  BY <1>1, <1>2, <1>3, <1>4, <1>5, <1>6, <1>7, <1>8, <1>9, <1>10, <1>11
     DEF Next

\* Only detection sees launches.
LEMMA UnseenStep ==
  ASSUME TypeOK, Staged, Unseen, [Next]_vars
  PROVE  Unseen'
<1> USE TypeParts
     DEF Staged, Unseen, Blank, Resting, Simple, Goto, Escape, Finish,
         SimpleFails, SimpleEnds
<1>1. CASE \E t \in Tasks, k \in Kernels : Receive(t, k)
  BY <1>1, ReceiveCases
<1>2. CASE CreateModel
  BY <1>2, CreateCases
<1>3. CASE LoadOriginal \/ CompileFails \/ CompileLocked \/ Compile
  BY <1>3 DEF LoadOriginal, CompileFails, CompileLocked, Compile
<1>4. CASE Trial \/ Judge
  BY <1>4 DEF Trial, Judge
<1>5. CASE SkipDetection \/ Detect \/ DetectRaises
  BY <1>5 DEF SkipDetection, Detect, DetectRaises
<1>6. CASE SkipTiming \/ Time \/ TimeRaises \/ Cover
  BY <1>6 DEF SkipTiming, Time, TimeRaises, Cover
<1>7. CASE LoadCases \/ BuildSimple \/ Case \/ JudgeCases \/ TimeSimple
  BY <1>7 DEF LoadCases, BuildSimple, Case, JudgeCases, TimeSimple
<1>8. CASE Round \/ Timed
  BY <1>8 DEF Round, Timed
<1>9. CASE Respond \/ Respawn
  BY <1>9 DEF Respond, Respawn
<1>10. CASE \E m \in Profiles : Profile(m)
  BY <1>10 DEF Profile
<1>11. CASE UNCHANGED vars
  BY <1>11 DEF vars
<1>. QED
  BY <1>1, <1>2, <1>3, <1>4, <1>5, <1>6, <1>7, <1>8, <1>9, <1>10, <1>11
     DEF Next

\* Only the last stages mark and time.
LEMMA UntimedStep ==
  ASSUME TypeOK, Staged, Untimed, [Next]_vars
  PROVE  Untimed'
<1> USE TypeParts, ExecFields
     DEF Staged, Untimed, Unjudged, Simple, Goto, Escape, Finish, SimpleFails,
         SimpleEnds
<1>1. CASE \E t \in Tasks, k \in Kernels : Receive(t, k)
  BY <1>1, ReceiveCases
<1>2. CASE CreateModel
  BY <1>2, CreateCases
<1>3. CASE LoadOriginal \/ CompileFails \/ CompileLocked \/ Compile
  BY <1>3 DEF LoadOriginal, CompileFails, CompileLocked, Compile
<1>4. CASE Trial \/ Judge
  BY <1>4 DEF Trial, Judge
<1>5. CASE SkipDetection \/ Detect \/ DetectRaises
  BY <1>5 DEF SkipDetection, Detect, DetectRaises
<1>6. CASE SkipTiming \/ Time \/ TimeRaises \/ Cover
  BY <1>6 DEF SkipTiming, Time, TimeRaises, Cover
<1>7. CASE LoadCases \/ BuildSimple \/ Case \/ TimeSimple
  BY <1>7 DEF LoadCases, BuildSimple, Case, TimeSimple
<1>8. CASE JudgeCases
  BY <1>8 DEF JudgeCases
<1>9. CASE Round \/ Timed
  BY <1>9 DEF Round, Timed
<1>10. CASE Respond \/ Respawn
  BY <1>10 DEF Respond, Respawn
<1>11. CASE \E m \in Profiles : Profile(m)
  BY <1>11 DEF Profile
<1>12. CASE UNCHANGED vars
  BY <1>12 DEF vars
<1>. QED
  BY <1>1, <1>2, <1>3, <1>4, <1>5, <1>6, <1>7, <1>8, <1>9, <1>10, <1>11,
     <1>12 DEF Next

\* Detection ends what does not always launch Triton.
LEMMA LaunchingStep ==
  ASSUME TypeOK, Staged, Launching, Unseen, Untimed, [Next]_vars
  PROVE  Launching'
<1> USE TypeParts, ExecFields
     DEF Staged, Launching, Blank, Resting, Unjudged, Routed, Pipeline, Simple,
         Unseen, Untimed, Goto, Escape, Finish, SimpleFails, SimpleEnds
<1>1. CASE \E t \in Tasks, k \in Kernels : Receive(t, k)
  BY <1>1, ReceiveCases
<1>2. CASE CreateModel
  BY <1>2, CreateCases
<1>3. CASE LoadOriginal \/ CompileFails \/ CompileLocked \/ Compile
  BY <1>3 DEF LoadOriginal, CompileFails, CompileLocked, Compile
<1>4. CASE Trial \/ Judge
  BY <1>4 DEF Trial, Judge
<1>5. CASE SkipDetection \/ DetectRaises
  BY <1>5 DEF SkipDetection, DetectRaises
<1>6. CASE Detect
  <2>1. CASE task.backend = "triton" /\ kernel.triton # "always"
    <3> DEFINE y == [exec EXCEPT !.decoy = TRUE]
    <3>1. ~ y.timed
      BY <1>6 DEF Detect, ExecType, Execs
    <3>2. Finish(y, FALSE)
      BY <1>6, <2>1 DEF Detect
    <3> HIDE DEF y
    <3>. QED
      BY <3>1, <3>2
  <2>2. CASE ~ (task.backend = "triton" /\ kernel.triton # "always")
    BY <1>6, <2>2 DEF Detect
  <2>. QED
    BY <2>1, <2>2
<1>7. CASE SkipTiming \/ TimeRaises
  BY <1>7 DEF SkipTiming, TimeRaises
<1>8. CASE Time
  BY <1>8 DEF Time
<1>9. CASE Cover
  BY <1>9 DEF Cover
<1>10. CASE LoadCases \/ BuildSimple \/ Case
  BY <1>10 DEF LoadCases, BuildSimple, Case
<1>11. CASE JudgeCases
  BY <1>11 DEF JudgeCases
<1>12. CASE TimeSimple
  BY <1>12 DEF TimeSimple
<1>13. CASE Round \/ Timed
  BY <1>13 DEF Round, Timed
<1>14. CASE Respond \/ Respawn
  BY <1>14 DEF Respond, Respawn
<1>15. CASE \E m \in Profiles : Profile(m)
  BY <1>15 DEF Profile
<1>16. CASE UNCHANGED vars
  BY <1>16 DEF vars
<1>. QED
  BY <1>1, <1>2, <1>3, <1>4, <1>5, <1>6, <1>7, <1>8, <1>9, <1>10, <1>11,
     <1>12, <1>13, <1>14, <1>15, <1>16 DEF Next

\* Only a profile of other kernels marks one that does.
LEMMA MarkedStep ==
  ASSUME TypeOK, Staged, Marked, Untimed, [Next]_vars
  PROVE  Marked'
<1> USE TypeParts, ExecFields
     DEF Staged, Marked, Blank, Resting, Unjudged, Untimed, Goto, Escape,
         Finish, SimpleFails, SimpleEnds
<1>1. CASE \E t \in Tasks, k \in Kernels : Receive(t, k)
  BY <1>1, ReceiveCases
<1>2. CASE CreateModel
  BY <1>2, CreateCases
<1>3. CASE LoadOriginal \/ CompileFails \/ CompileLocked \/ Compile
  BY <1>3 DEF LoadOriginal, CompileFails, CompileLocked, Compile
<1>4. CASE Trial \/ Judge
  BY <1>4 DEF Trial, Judge
<1>5. CASE SkipDetection \/ DetectRaises
  BY <1>5 DEF SkipDetection, DetectRaises
<1>6. CASE Detect
  BY <1>6 DEF Detect
<1>7. CASE SkipTiming \/ TimeRaises
  BY <1>7 DEF SkipTiming, TimeRaises
<1>8. CASE Time
  <2> DEFINE y == [exec EXCEPT !.timed = TRUE]
  <2>1. exec' \in {exec, y} /\ UNCHANGED kernel
    BY <1>8 DEF Time
  <2>2. ~ exec.decoy /\ ~ y.decoy
    BY <1>8 DEF Time, ExecType, Execs
  <2> HIDE DEF y
  <2>. QED
    BY <2>1, <2>2
<1>9. CASE Cover
  <2> DEFINE y == [exec EXCEPT !.timed = TRUE]
           z == [exec EXCEPT !.timed = TRUE, !.decoy = metrics = "foreign"]
  <2>1. exec' \in {exec, y, z} /\ UNCHANGED <<kernel, metrics>>
    BY <1>9 DEF Cover
  <2>2. ~ exec.decoy /\ ~ y.decoy /\ (z.decoy => metrics = "foreign")
    BY <1>9 DEF Cover, ExecType, Execs
  <2> HIDE DEF y, z
  <2>. QED
    BY <2>1, <2>2
<1>10. CASE LoadCases \/ BuildSimple \/ Case
  BY <1>10 DEF LoadCases, BuildSimple, Case
<1>11. CASE JudgeCases
  BY <1>11 DEF JudgeCases
<1>12. CASE TimeSimple
  <2> DEFINE y == [exec EXCEPT !.timed = TRUE]
  <2>1. exec' \in {y, Judged(FALSE)} /\ UNCHANGED kernel
    BY <1>12 DEF TimeSimple
  <2>2. ~ exec.decoy /\ ~ y.decoy
    BY <1>12 DEF TimeSimple, ExecType, Execs
  <2> HIDE DEF y
  <2>. QED
    BY <2>1, <2>2
<1>13. CASE Round \/ Timed
  BY <1>13 DEF Round, Timed
<1>14. CASE Respond \/ Respawn
  BY <1>14 DEF Respond, Respawn
<1>15. CASE \E m \in Profiles : Profile(m)
  BY <1>15 DEF Profile
<1>16. CASE UNCHANGED vars
  BY <1>16 DEF vars
<1>. QED
  BY <1>1, <1>2, <1>3, <1>4, <1>5, <1>6, <1>7, <1>8, <1>9, <1>10, <1>11,
     <1>12, <1>13, <1>14, <1>15, <1>16 DEF Next

\* Only the rounds give a time.
LEMMA MeasuredStep ==
  ASSUME TypeOK, Staged, Measured, [Next]_vars
  PROVE  Measured'
<1> USE TypeParts
     DEF Staged, Measured, Silent, Failed, Verdict, Timing, Rounds, Routed,
         Simple, Pipeline, Goto, Escape, Finish, SimpleFails, SimpleEnds
<1>1. CASE \E t \in Tasks, k \in Kernels : Receive(t, k)
  BY <1>1, ReceiveCases
<1>2. CASE CreateModel
  BY <1>2, CreateCases
<1>3. CASE LoadOriginal \/ CompileFails \/ CompileLocked \/ Compile
  BY <1>3 DEF LoadOriginal, CompileFails, CompileLocked, Compile
<1>4. CASE Trial \/ Judge
  BY <1>4 DEF Trial, Judge
<1>5. CASE SkipDetection \/ DetectRaises
  BY <1>5 DEF SkipDetection, DetectRaises
<1>6. CASE Detect
  BY <1>6 DEF Detect
<1>7. CASE SkipTiming \/ TimeRaises \/ Cover
  BY <1>7 DEF SkipTiming, TimeRaises, Cover
<1>8. CASE Time
  BY <1>8 DEF Time
<1>9. CASE LoadCases
  BY <1>9 DEF LoadCases
<1>10. CASE BuildSimple
  BY <1>10 DEF BuildSimple
<1>11. CASE Case
  BY <1>11 DEF Case
<1>12. CASE JudgeCases
  BY <1>12 DEF JudgeCases
<1>13. CASE TimeSimple
  BY <1>13 DEF TimeSimple
<1>14. CASE Round
  BY <1>14 DEF Round
<1>15. CASE Timed
  BY <1>15 DEF Timed
<1>16. CASE Respond \/ Respawn
  BY <1>16 DEF Respond, Respawn
<1>17. CASE \E m \in Profiles : Profile(m)
  BY <1>17 DEF Profile
<1>18. CASE UNCHANGED vars
  BY <1>18 DEF vars
<1>. QED
  BY <1>1, <1>2, <1>3, <1>4, <1>5, <1>6, <1>7, <1>8, <1>9, <1>10, <1>11,
     <1>12, <1>13, <1>14, <1>15, <1>16, <1>17, <1>18 DEF Next

-----------------------------------------------------------------------------
(* The invariant and what it implies. *)

TrialsOK == TrialsRight /\ CasesRight /\ VerdictRight
FaultsOK == Stopped /\ Untimeable /\ ComparedPlain /\ NoVerdictFromFault
DecoysOK == Unseen /\ Untimed /\ Launching /\ Marked
IInv == /\ TypeOK /\ Staged /\ TrialsOK /\ FaultsOK
        /\ Opened /\ DecoysOK /\ Measured

\* A process that has just started satisfies all of it.
LEMMA InitIInv ==
  ASSUME Init
  PROVE  IInv
<1>1. Failed(FALSE) \in Results
  BY ExecFields DEF Failed, Results
<1>2. PcType /\ RequestType /\ ExecType /\ DeviceType /\ AnswerType
  BY <1>1, ExecFields
   DEF Init, PcType, RequestType, ExecType, DeviceType, AnswerType
<1>8. CountType /\ TrialType /\ TimesType
  BY ConstantsAssumption DEF Init, CountType, TrialType, TimesType
<1>3. Staged
  BY ConstantsAssumption
   DEF Init, Staged, Serving, Blank, Capped, Routed, Lasting, Unjudged, Silent,
       Answered, Resting, Pipeline, Simple
<1>4. TrialsOK
  BY DEF Init, TrialsOK, TrialsRight, CasesRight, VerdictRight, Judgeable
<1>5. FaultsOK
  BY
   DEF Init, FaultsOK, Stopped, Untimeable, ComparedPlain, NoVerdictFromFault,
       Answering
<1>6. Opened /\ Measured
  BY DEF Init, Opened, Measured
<1>7. DecoysOK
  BY ExecFields DEF Init, DecoysOK, Unseen, Untimed, Launching, Marked, Simple
<1>. QED
  BY <1>2, <1>3, <1>4, <1>5, <1>6, <1>7, <1>8, TypeParts DEF IInv

\* Every step preserves it, part by part.
LEMMA StepIInv ==
  ASSUME IInv, [Next]_vars
  PROVE  IInv'
<1> USE DEF IInv
<1>1. Serving' /\ Blank' /\ Capped' /\ Routed'
  BY ServingStep, BlankStep, CappedStep, RoutedStep
<1>2. Lasting' /\ Unjudged' /\ Silent' /\ Answered'
  BY LastingStep, UnjudgedStep, SilentStep, AnsweredStep
<1>3. PcType' /\ RequestType' /\ ExecType' /\ DeviceType'
  BY PcTypeStep, RequestTypeStep, ExecTypeStep, DeviceTypeStep
<1>4. CountType' /\ TrialType' /\ TimesType' /\ AnswerType'
  BY CountTypeStep, TrialTypeStep, TimesTypeStep, AnswerTypeStep
<1>5. TypeOK'
  BY <1>3, <1>4
   DEF TypeOK, PcType, RequestType, ExecType, DeviceType, CountType, TrialType,
       TimesType, AnswerType, Execs, Results
<1>6. TrialsRight' /\ CasesRight' /\ VerdictRight'
  BY TrialsRightStep, CasesRightStep, VerdictRightStep DEF TrialsOK
<1>7. Stopped' /\ Untimeable' /\ ComparedPlain' /\ NoVerdictFromFault'
  BY StoppedStep, UntimeableStep, ComparedPlainStep, NoVerdictFromFaultStep
   DEF FaultsOK, TrialsOK
<1>8. Unseen' /\ Untimed' /\ Launching' /\ Marked'
  BY UnseenStep, UntimedStep, LaunchingStep, MarkedStep DEF DecoysOK
<1>9. Opened' /\ Measured'
  BY OpenedStep, MeasuredStep
<1>. QED
  BY <1>1, <1>2, <1>5, <1>6, <1>7, <1>8, <1>9
   DEF Staged, TrialsOK, FaultsOK, DecoysOK

\* Three rounds are numbered from 1 to 3.
LEMMA ThreeRounds ==
  ASSUME NEW s \in Seq(Int), Len(s) = 3
  PROVE  DOMAIN s = 1..3 /\ \A i \in 1..3 : s[i] \in Int
<1>1. DOMAIN s = 1..Len(s)
  OBVIOUS
<1>2. \A i \in 1..Len(s) : s[i] \in Int
  OBVIOUS
<1>. QED
  BY <1>1, <1>2

\* Most of three rounds are at least the median, and at most.
LEMMA MedianMost ==
  ASSUME NEW s \in Seq(Int), Len(s) = 3, MedianTime(s) > 0
  PROVE  /\ 2 * Cardinality({i \in DOMAIN s : s[i] > 0}) > 3
         /\ 2 * Cardinality({i \in DOMAIN s : s[i] >= MedianTime(s)}) > 3
         /\ 2 * Cardinality({i \in DOMAIN s : s[i] <= MedianTime(s)}) > 3
<1>all. IsFiniteSet(1..3) /\ Cardinality(1..3) = 3
  <2>1. 1 \in Int /\ 3 \in Int /\ ~ 1 > 3 /\ 3 - 1 + 1 = 3
    OBVIOUS
  <2>. QED
    BY <2>1, FS_Interval
<1> DEFINE m == MedianTime(s)
           all   == DOMAIN s
           below == {i \in DOMAIN s : s[i] < m}
           upto  == {i \in DOMAIN s : s[i] <= m}
           from  == {i \in DOMAIN s : s[i] >= m}
           some  == {i \in DOMAIN s : s[i] > 0}
<1>1. /\ \E i \in DOMAIN s : m = s[i]
      /\ Cardinality(below) <= 1 /\ Cardinality(upto) > 1
  BY MedianOfThree
<1>2. all = 1..3 /\ \A i \in all : s[i] \in Int
  BY ThreeRounds
<1>3. m \in Int
  BY <1>1, <1>2
<1> HIDE DEF m
<1>4. below \subseteq all /\ from = all \ below
  BY <1>2, <1>3
<1>5. from \subseteq some /\ some \subseteq all
  BY <1>2, <1>3 DEF m
<1>6. upto \subseteq all
  OBVIOUS
<1> HIDE DEF all, below, upto, from, some
<1>7. IsFiniteSet(all) /\ Cardinality(all) = 3
  BY <1>2, <1>all
<1>8. IsFiniteSet(below) /\ IsFiniteSet(upto) /\ IsFiniteSet(some)
  BY <1>4, <1>5, <1>6, <1>7, FS_Subset
<1>9. /\ Cardinality(below) \in Nat /\ Cardinality(upto) \in Nat
      /\ Cardinality(some) \in Nat
  BY <1>8, FS_CardinalityType
<1>10. Cardinality(from) = 3 - Cardinality(below)
  <2>1. all \cap below = below
    BY <1>4
  <2>2. Cardinality(all \ below)
          = Cardinality(all) - Cardinality(all \cap below)
    BY <1>7, FS_Difference
  <2>. QED
    BY <1>4, <1>7, <2>1, <2>2
<1>11. Cardinality(from) <= Cardinality(some)
  BY <1>5, <1>8, FS_Subset
<1>12. /\ 2 * Cardinality(some) > 3 /\ 2 * Cardinality(from) > 3
       /\ 2 * Cardinality(upto) > 3
  BY <1>1, <1>9, <1>10, <1>11
<1>. QED
  BY <1>12 DEF m, upto, from, some

LEMMA IInvImplies ==
  ASSUME IInv
  PROVE  /\ CorrectIsRight /\ SessionsAreClosed /\ DecoyHasNoTime
         /\ TritonIsNoDecoy /\ MedianIsMeasured
<1> USE DEF IInv, Staged, Answering
<1>1. pc = "respond" => /\ (answer.exec.correct => exec.correct)
                        /\ (answer.exec.decoy => exec.decoy)
                        /\ (answer.exec.timed => exec.timed)
  BY ExecFields DEF Answered
<1>2. CorrectIsRight
  BY <1>1 DEF CorrectIsRight, TrialsOK, VerdictRight, Right, Judgeable
<1>3. SessionsAreClosed
  BY DEF SessionsAreClosed, Opened
<1>4. DecoyHasNoTime
  BY <1>1 DEF DecoyHasNoTime, DecoysOK, Launching
<1>5. TritonIsNoDecoy
  BY <1>1 DEF TritonIsNoDecoy, DecoysOK, Marked
<1>6. MedianIsMeasured
  <2>1. SUFFICES ASSUME pc = "respond", task.kind = "reference_timing",
                        answer.reference > 0
                 PROVE  MedianIsMeasured
    BY DEF MedianIsMeasured
  <2>2. Len(times) = 3 /\ answer.reference = MedianTime(times)
    BY <2>1 DEF Measured
  <2>3. times \in Seq(Int)
    <3>1. Times \cup {-1} \subseteq Int
      BY ConstantsAssumption
    <3>2. times \in Seq(Times \cup {-1})
      BY TypeParts DEF TimesType
    <3>. QED
      BY <3>1, <3>2
  <2>. QED
    BY <2>1, <2>2, <2>3, MedianMost DEF MedianIsMeasured
<1>. QED
  BY <1>2, <1>3, <1>4, <1>5, <1>6

\* The invariant holds in every reachable state.
LEMMA Invariance == Spec => []IInv
<1>1. Init => IInv
  BY InitIInv
<1>2. IInv /\ [Next]_vars => IInv'
  BY StepIInv
<1>. QED
  BY <1>1, <1>2, PTL DEF Spec

\* In every reachable state the variables have their types: trials and passes
\* stay in step with what was asked, at most three rounds are timed.
THEOREM TypeCorrect == Spec => []TypeOK
<1>1. IInv => TypeOK
  BY DEF IInv
<1>. QED
  BY <1>1, Invariance, PTL

\* Whatever the kernel, the number of trials and the cases: answered correct, it
\* gave the right output wherever one was compared
\* (run_and_check_correctness, the kernel_simple toolkit).
THEOREM CorrectRight == Spec => []CorrectIsRight
<1>1. IInv => CorrectIsRight
  BY IInvImplies
<1>. QED
  BY <1>1, Invariance, PTL

\* Whatever was evaluated before, a kernel whose evaluation begins on a faulted
\* device gets no time from it, nor a verdict but its own, on cases that never
\* reach the device (eval_kernel_against_ref, the kernel_simple toolkit).
THEOREM FaultCorrect == Spec => []NoVerdictFromFault
<1>1. IInv => NoVerdictFromFault
  BY DEF IInv, FaultsOK
<1>. QED
  BY <1>1, Invariance, PTL

\* Every path through both toolkits but one closes the session it opened.
THEOREM SessionsCorrect == Spec => []SessionsAreClosed
<1>1. IInv => SessionsAreClosed
  BY IInvImplies
<1>. QED
  BY <1>1, Invariance, PTL

\* A kernel that does not always launch Triton, and that detection saw, has no
\* runtime when it was submitted as Triton (_run_triton_detection_step).
THEOREM DecoyCorrect == Spec => []DecoyHasNoTime
<1>1. IInv => DecoyHasNoTime
  BY IInvImplies
<1>. QED
  BY <1>1, Invariance, PTL

\* A kernel that always launches Triton is marked a decoy by a profile of other
\* kernels only, however often the profiler is asked (_run_performance_step).
THEOREM TritonCorrect == Spec => []TritonIsNoDecoy
<1>1. IInv => TritonIsNoDecoy
  BY IInvImplies
<1>. QED
  BY <1>1, Invariance, PTL

\* The time of a reference is the median of three measured rounds, for any
\* runtimes there may be (evaluate_reference_timing).
THEOREM MedianCorrect == Spec => []MedianIsMeasured
<1>1. IInv => MedianIsMeasured
  BY IInvImplies
<1>. QED
  BY <1>1, Invariance, PTL
=============================================================================
