------------------------- MODULE TaskManagerProofs -------------------------
(* Theorems about the task broker, for every value of its constants. *)
EXTENDS TaskManager, SequenceTheorems, TLAPS

(* Facts about the sequences the broker keeps. *)

LEMMA HeadTailType ==
  ASSUME NEW S, NEW s \in Seq(S), s # <<>>
  PROVE  Head(s) \in S /\ Tail(s) \in Seq(S)
BY HeadTailProperties

LEMMA LastFrontType ==
  ASSUME NEW S, NEW s \in Seq(S), s # <<>>
  PROVE  Last(s) \in S /\ Front(s) \in Seq(S)
<1>1. Len(s) \in 1..Len(s)
  BY EmptySeq, LenProperties
<1>2. Last(s) \in S
  BY <1>1, ElementOfSeq DEF Last
<1>3. Front(s) \in Seq(S)
  BY <1>1, SubSeqProperties DEF Front
<1>. QED
  BY <1>2, <1>3

LEMMA SeqTypes ==
  ASSUME NEW S, NEW s \in Seq(S), NEW x \in S
  PROVE  Append(s, x) \in Seq(S) /\ <<x>> \o s \in Seq(S)
BY AppendProperties, ConcatProperties

-----------------------------------------------------------------------------

(* TypeOK is inductive. *)

LEMMA TypeInit == Init => TypeOK
BY BrokerAssumption
   DEF Init, TypeOK, StatusOK, PinOK, ValueOK, ErrorOK, QueueOK, SubmitOK, WorkerOK,
       StopperOK, CancelOK, SweepOK, BudgetOK, WorkerState, StopState, CancelState,
       SweepState, Idle, NotStopping, Resting, Outcomes

LEMMA TypeRequest ==
  ASSUME TypeOK, NEW r \in Requests, RequestStep(r) \/ SubmitFault(r)
  PROVE  TypeOK'
<1> USE BrokerAssumption
    DEF TypeOK, StatusOK, PinOK, ValueOK, ErrorOK, SubmitOK, WorkerOK, StopperOK,
        CancelOK, SweepOK, BudgetOK, store, budget
<1>1. TaskOf[r] \in Tasks
  OBVIOUS
<1>2. CASE SubmitCheck(r)
  BY <1>2 DEF SubmitCheck, QueueOK
<1>3. CASE SubmitCreate(r)
  BY <1>1, <1>3 DEF SubmitCreate, QueueOK
<1>4. CASE SubmitPush(r)
  <2>1. QueueOK'
    BY <1>1, <1>4, SeqTypes DEF SubmitPush, QueueOK, Queues
  <2>. QED
    BY <2>1, <1>4 DEF SubmitPush
<1>5. CASE SubmitFault(r)
  BY <1>1, <1>5 DEF SubmitFault, Fault, QueueOK
<1>. QED
  BY <1>2, <1>3, <1>4, <1>5 DEF RequestStep

\* The processing loop.  What the worker scans is one of the lists.
LEMMA ScannedQueue ==
  ASSUME NEW w \in Workers, worker[w].at \in 1..4
  PROVE  Scanned(w) \in Queues
BY DEF Scanned, ScanOrder, Queues, Priorities

LEMMA IdleType ==
  /\ Idle \in WorkerState /\ Down \in WorkerState
  /\ Idle.pc = "scan" /\ Down.pc = "down"
<1>1. 1 \in 1..4
  OBVIOUS
<1>2. Idle \in WorkerState /\ Idle.pc = "scan"
  BY <1>1 DEF Idle, WorkerState
<1>3. Down \in WorkerState /\ Down.pc = "down"
  BY <1>2 DEF Down, WorkerState
<1>. QED
  BY <1>2, <1>3

LEMMA NextIterationType ==
  ASSUME NEW w \in Workers
  PROVE  NextIteration(w) \in WorkerState /\ NextIteration(w).pc \in {"scan", "down"}
BY IdleType DEF NextIteration

\* One loop changes to a record that is fit for it.
LoopRecord(x) == /\ x \in WorkerState
                 /\ x.pc \notin {"scan", "down"} => x.task # NoTask
                 /\ x.pc \in {"value", "status"} => x.out # "none"

LEMMA LoadingType ==
  ASSUME NEW t \in Tasks
  PROVE  LoopRecord([Idle EXCEPT !.pc = "load", !.task = t])
<1>1. t # NoTask
  BY BrokerAssumption
<1>2. [Idle EXCEPT !.pc = "load", !.task = t] \in WorkerState
  BY IdleType DEF WorkerState
<1>3. /\ [Idle EXCEPT !.pc = "load", !.task = t].pc = "load"
      /\ [Idle EXCEPT !.pc = "load", !.task = t].task = t
  BY DEF Idle
<1>. QED
  BY <1>1, <1>2, <1>3 DEF LoopRecord

LEMMA WorkerUpdate ==
  ASSUME WorkerOK, NEW w \in Workers, NEW x, LoopRecord(x),
         worker' = [worker EXCEPT ![w] = x]
  PROVE  WorkerOK'
BY DEF WorkerOK, LoopRecord

LEMMA TypeLoop ==
  ASSUME TypeOK, NEW w \in Workers,
         LoopStep(w) \/ WorkerCrash(w) \/ LoopError(w) \/ CompleteError(w)
  PROVE  TypeOK'
<1> USE BrokerAssumption
    DEF TypeOK, StatusOK, PinOK, ValueOK, ErrorOK, SubmitOK, StopperOK,
        CancelOK, SweepOK, BudgetOK, store, budget
<1> DEFINE old == worker[w]
<1>1. LoopRecord(old)
  BY DEF WorkerOK, LoopRecord
<1>2. /\ old \in WorkerState /\ old.task \in Tasks \cup {NoTask}
      /\ old.at \in 1..4 /\ old.out \in Outcomes \cup {"none"}
  BY <1>1 DEF LoopRecord, WorkerState
<1>3. LoopRecord(NextIteration(w))
  BY NextIterationType DEF LoopRecord
<1>4. CASE Take(w)
  <2> DEFINE q == Scanned(w)
             new == [Idle EXCEPT !.pc = "load", !.task = Head(queue[q])]
  <2>1. q \in Queues
    BY <1>2, ScannedQueue
  <2>2. Head(queue[q]) \in Tasks /\ Tail(queue[q]) \in Seq(Tasks)
    BY <1>4, <2>1, HeadTailType DEF Take, QueueOK
  <2>3. QueueOK'
    BY <1>4, <2>1, <2>2 DEF Take, QueueOK
  <2>4. LoopRecord(new)
    BY <2>2, LoadingType
  <2>5. WorkerOK'
    BY <1>4, <2>4, WorkerUpdate DEF Take
  <2>. QED
    BY <1>4, <2>3, <2>5 DEF Take
<1>5. CASE Miss(w)
  <2>1. old.at < 4 => LoopRecord([old EXCEPT !.at = @ + 1])
    <3>1. old.at < 4 => old.at + 1 \in 1..4
      BY <1>2
    <3>. QED
      BY <1>1, <1>5, <3>1 DEF Miss, LoopRecord, WorkerState
  <2>2. WorkerOK'
    BY <1>3, <1>5, <2>1, WorkerUpdate DEF Miss
  <2>. QED
    BY <1>5, <2>2 DEF Miss, QueueOK
<1>6. CASE Load(w)
  <2>1. LoopRecord([old EXCEPT !.pc = "start"])
    BY <1>1, <1>2, <1>6 DEF Load, LoopRecord, WorkerState
  <2>2. WorkerOK'
    BY <1>3, <1>6, <2>1, WorkerUpdate DEF Load
  <2>. QED
    BY <1>6, <2>2 DEF Load, QueueOK
<1>7. CASE Start(w)
  <2>1. LoopRecord([old EXCEPT !.pc = "run"])
    BY <1>1, <1>2, <1>7 DEF Start, LoopRecord, WorkerState
  <2>2. WorkerOK'
    BY <1>7, <2>1, WorkerUpdate DEF Start
  <2>. QED
    BY <1>7, <2>2 DEF Start, QueueOK
<1>8. CASE Run(w)
  <2>1. ASSUME NEW o \in Outcomes, NEW g \in BOOLEAN
        PROVE  LoopRecord([old EXCEPT !.pc = "value", !.out = o, !.guarded = g])
    BY <1>1, <1>2, <1>8 DEF Run, LoopRecord, WorkerState, Outcomes
  <2>2. WorkerOK'
    BY <1>8, <2>1, WorkerUpdate DEF Run
  <2>. QED
    BY <1>8, <2>2 DEF Run, QueueOK
<1>9. CASE CompleteValue(w)
  <2>1. LoopRecord([old EXCEPT !.pc = "status"])
    BY <1>1, <1>2, <1>9 DEF CompleteValue, LoopRecord, WorkerState
  <2>2. WorkerOK'
    BY <1>9, <2>1, WorkerUpdate DEF CompleteValue
  <2>3. old.out \in Outcomes /\ old.task \in Tasks
    BY <1>1, <1>2, <1>9 DEF CompleteValue, LoopRecord
  <2>. QED
    BY <1>9, <2>2, <2>3 DEF CompleteValue, QueueOK
<1>10. CASE CompleteStatus(w)
  <2>1. WorkerOK'
    BY <1>3, <1>10, WorkerUpdate DEF CompleteStatus
  <2>. QED
    BY <1>10, <2>1 DEF CompleteStatus, QueueOK
<1>11. CASE WorkerCrash(w)
  <2>1. LoopRecord(Down)
    BY IdleType DEF LoopRecord
  <2>2. WorkerOK'
    BY <1>11, <2>1, WorkerUpdate DEF WorkerCrash
  <2>3. StopperOK'
    BY <1>11 DEF WorkerCrash, NotStopping, StopState
  <2>. QED
    BY <1>2, <1>11, <2>2, <2>3 DEF WorkerCrash, Fault, QueueOK
<1>12. CASE LoopError(w)
  <2>1. WorkerOK'
    BY <1>3, <1>12, WorkerUpdate DEF LoopError
  <2>. QED
    BY <1>2, <1>12, <2>1 DEF LoopError, Fault, QueueOK
<1>13. CASE CompleteError(w)
  <2>1. LoopRecord([old EXCEPT !.pc = "value", !.out = "failed", !.guarded = FALSE])
    BY <1>1, <1>2, <1>13 DEF CompleteError, LoopRecord, WorkerState, Outcomes
  <2>2. WorkerOK'
    BY <1>13, <2>1, WorkerUpdate DEF CompleteError
  <2>. QED
    BY <1>13, <2>2 DEF CompleteError, Fault, QueueOK
<1>. QED
  BY <1>4, <1>5, <1>6, <1>7, <1>8, <1>9, <1>10, <1>11, <1>12, <1>13 DEF LoopStep

LEMMA TypeStop ==
  ASSUME TypeOK, NEW w \in Workers,
         StopStep(w) \/ StopFault(w) \/ Restart(w) \/ Expire(w)
  PROVE  TypeOK'
<1> USE BrokerAssumption
    DEF TypeOK, StatusOK, PinOK, ValueOK, ErrorOK, QueueOK, SubmitOK, WorkerOK,
        StopperOK, CancelOK, SweepOK, BudgetOK, store, budget, StopState
<1>1. CASE Stop(w)
  BY <1>1 DEF Stop, CurrentTask, WorkerState
<1>2. CASE StopError(w)
  BY <1>2 DEF StopError
<1>3. CASE StopStatus(w)
  BY <1>3 DEF StopStatus
<1>4. CASE StopFault(w)
  BY <1>4 DEF StopFault, Fault
<1>5. CASE Restart(w)
  BY <1>5 DEF Restart, Idle, NotStopping, WorkerState
<1>6. CASE Expire(w)
  BY <1>6 DEF Expire
<1>. QED
  BY <1>1, <1>2, <1>3, <1>4, <1>5, <1>6 DEF StopStep

LEMMA TypeCancel ==
  ASSUME TypeOK, NEW c \in Cancels, CancelStep(c) \/ CancelFault(c)
  PROVE  TypeOK'
<1> USE BrokerAssumption
    DEF TypeOK, StatusOK, PinOK, ValueOK, ErrorOK, QueueOK, SubmitOK, WorkerOK,
        StopperOK, CancelOK, SweepOK, BudgetOK, store, budget, CancelState
<1>1. CASE CancelCheck(c)
  BY <1>1 DEF CancelCheck
<1>2. CASE CancelError(c)
  BY <1>2 DEF CancelError
<1>3. CASE CancelStatus(c)
  BY <1>3 DEF CancelStatus
<1>4. CASE CancelFault(c)
  BY <1>4 DEF CancelFault, Fault
<1>. QED
  BY <1>1, <1>2, <1>3, <1>4 DEF CancelStep

\* A pass changes to a record that is fit for it.
SweepRecord(x) == /\ x \in SweepState
                  /\ x.pc # "rest" => x.of # Nobody
                  /\ x.pc = "load" => x.hand # NoTask
                  /\ x.pc = "push" => x.requeue # <<>>

LEMMA SweepUpdate ==
  ASSUME SweepOK, NEW m \in Monitors, NEW x, SweepRecord(x),
         sweep' = [sweep EXCEPT ![m] = x]
  PROVE  SweepOK'
BY DEF SweepOK, SweepRecord

LEMMA RestingType ==
  /\ SweepRecord(Resting)
  /\ \A w \in Workers : SweepRecord([Resting EXCEPT !.pc = "pop", !.of = w])
<1>1. /\ 0 \in 0..ScanLimit
      /\ <<>> \in Seq(Tasks)
      /\ Nobody \notin Workers
  BY BrokerAssumption
<1>2. Resting \in SweepState /\ Resting.pc = "rest"
  BY <1>1 DEF Resting, SweepState
<1>3. ASSUME NEW w \in Workers
      PROVE  SweepRecord([Resting EXCEPT !.pc = "pop", !.of = w])
  BY <1>1, <1>2, <1>3 DEF Resting, SweepState, SweepRecord
<1>. QED
  BY <1>2, <1>3 DEF SweepRecord

LEMMA TypeSweep ==
  ASSUME TypeOK, NEW m \in Monitors,
         SweepStep(m) \/ SweepFault(m) \/ RequeueError(m)
  PROVE  TypeOK'
<1> USE BrokerAssumption
    DEF TypeOK, StatusOK, PinOK, ValueOK, ErrorOK, SubmitOK, WorkerOK,
        StopperOK, CancelOK, BudgetOK, store, budget
<1> DEFINE old == sweep[m]
           q == old.of
<1>1. SweepRecord(old)
  BY DEF SweepOK, SweepRecord
<1>2. /\ old.of \in Workers \cup {Nobody} /\ old.hand \in Tasks \cup {NoTask}
      /\ old.keep \in Seq(Tasks) /\ old.requeue \in Seq(Tasks)
      /\ old.seen \in 0..ScanLimit
  BY <1>1 DEF SweepRecord, SweepState
<1>3. CASE SweepBegin(m)
  <2>1. SweepOK'
    BY <1>3, RestingType, SweepUpdate DEF SweepBegin
  <2>. QED
    BY <1>3, <2>1 DEF SweepBegin, QueueOK
<1>4. CASE SweepPop(m)
  <2>1. q \in Queues
    BY <1>1, <1>2, <1>4 DEF SweepPop, Queues, SweepRecord
  <2>2. CASE old.seen < ScanLimit /\ queue[q] # <<>>
    <3> DEFINE x == [old EXCEPT !.pc = "load", !.seen = @ + 1,
                                !.hand = Head(queue[q])]
    <3>1. Head(queue[q]) \in Tasks /\ Tail(queue[q]) \in Seq(Tasks)
      BY <2>1, <2>2, HeadTailType DEF QueueOK
    <3>2. QueueOK'
      BY <1>4, <2>1, <2>2, <3>1 DEF SweepPop, QueueOK
    <3>3. old.seen + 1 \in 0..ScanLimit
      BY <1>2, <2>2
    <3>4. SweepRecord(x)
      BY <1>1, <1>4, <3>1, <3>3 DEF SweepPop, SweepRecord, SweepState
    <3>5. SweepOK'
      BY <1>4, <2>2, <3>4, SweepUpdate DEF SweepPop
    <3>. QED
      BY <1>4, <3>2, <3>5 DEF SweepPop
  <2>3. CASE ~ (old.seen < ScanLimit /\ queue[q] # <<>>)
    <3>1. SweepRecord([old EXCEPT !.pc = "keep"])
      BY <1>1, <1>4 DEF SweepPop, SweepRecord, SweepState
    <3>2. SweepOK'
      BY <1>4, <2>3, <3>1, SweepUpdate DEF SweepPop
    <3>. QED
      BY <1>4, <2>3, <3>2 DEF SweepPop, QueueOK
  <2>. QED
    BY <2>2, <2>3
<1>5. CASE SweepLoad(m)
  <2> DEFINE t == old.hand
             back == [old EXCEPT !.pc = "pop", !.hand = NoTask]
             keeping == [back EXCEPT !.keep = Append(@, t)]
             requeuing == [back EXCEPT !.requeue = Append(@, t)]
  <2>1. t \in Tasks
    BY <1>1, <1>2, <1>5 DEF SweepLoad, SweepRecord
  <2>2. Append(old.keep, t) \in Seq(Tasks) /\ Append(old.requeue, t) \in Seq(Tasks)
    BY <1>2, <2>1, SeqTypes
  <2>3. SweepRecord(back) /\ SweepRecord(keeping) /\ SweepRecord(requeuing)
    BY <1>1, <1>5, <2>2 DEF SweepLoad, SweepRecord, SweepState
  <2>4. \/ sweep' = [sweep EXCEPT ![m] = back]
        \/ sweep' = [sweep EXCEPT ![m] = keeping]
        \/ sweep' = [sweep EXCEPT ![m] = requeuing]
    BY <1>5 DEF SweepLoad
  <2>5. SweepOK'
    BY <2>3, <2>4, SweepUpdate
  <2>. QED
    BY <1>5, <2>5 DEF SweepLoad, QueueOK
<1>6. CASE SweepKeep(m)
  <2>1. q \in Queues
    BY <1>1, <1>2, <1>6 DEF SweepKeep, Queues, SweepRecord
  <2>2. CASE old.keep # <<>>
    <3>1. Last(old.keep) \in Tasks /\ Front(old.keep) \in Seq(Tasks)
      BY <1>2, <2>2, LastFrontType
    <3>2. <<Last(old.keep)>> \o queue[q] \in Seq(Tasks)
      BY <2>1, <3>1, SeqTypes DEF QueueOK
    <3>3. QueueOK'
      BY <1>6, <2>1, <2>2, <3>2 DEF SweepKeep, QueueOK
    <3>4. SweepRecord([old EXCEPT !.keep = Front(@)])
      BY <1>1, <1>6, <3>1 DEF SweepKeep, SweepRecord, SweepState
    <3>5. SweepOK'
      BY <1>6, <2>2, <3>4, SweepUpdate DEF SweepKeep
    <3>. QED
      BY <1>6, <3>3, <3>5 DEF SweepKeep
  <2>3. CASE old.keep = <<>>
    <3>1. SweepRecord([old EXCEPT !.pc = "unpin"])
      BY <1>1, <1>6 DEF SweepKeep, SweepRecord, SweepState
    <3>2. SweepOK'
      BY <1>6, <2>3, <3>1, SweepUpdate DEF SweepKeep
    <3>. QED
      BY <1>6, <2>3, <3>2 DEF SweepKeep, QueueOK
  <2>. QED
    BY <2>2, <2>3
<1>7. CASE SweepUnpin(m)
  <2>1. CASE old.requeue # <<>>
    <3>1. Head(old.requeue) \in Tasks
      BY <1>2, <2>1, HeadTailType
    <3>2. SweepRecord([old EXCEPT !.pc = "push"])
      BY <1>1, <1>7, <2>1 DEF SweepUnpin, SweepRecord, SweepState
    <3>3. SweepOK'
      BY <1>7, <2>1, <3>2, SweepUpdate DEF SweepUnpin
    <3>. QED
      BY <1>7, <2>1, <3>1, <3>3 DEF SweepUnpin, QueueOK
  <2>2. CASE old.requeue = <<>>
    <3>1. SweepOK'
      BY <1>7, <2>2, RestingType, SweepUpdate DEF SweepUnpin
    <3>. QED
      BY <1>7, <2>2, <3>1 DEF SweepUnpin, QueueOK
  <2>. QED
    BY <2>1, <2>2
<1>8. CASE SweepPush(m)
  <2> DEFINE t == Head(old.requeue)
  <2>1. t \in Tasks /\ Tail(old.requeue) \in Seq(Tasks)
    BY <1>1, <1>2, <1>8, HeadTailType DEF SweepPush, SweepRecord
  <2>2. PrioOf[t] \in Queues
    BY <2>1 DEF Queues
  <2>3. Append(queue[PrioOf[t]], t) \in Seq(Tasks)
    BY <2>1, <2>2, SeqTypes DEF QueueOK
  <2>4. QueueOK'
    BY <1>8, <2>2, <2>3 DEF SweepPush, QueueOK
  <2>5. SweepRecord([old EXCEPT !.pc = "unpin", !.requeue = Tail(@)])
    BY <1>1, <1>8, <2>1 DEF SweepPush, SweepRecord, SweepState
  <2>6. SweepOK'
    BY <1>8, <2>5, SweepUpdate DEF SweepPush
  <2>. QED
    BY <1>8, <2>4, <2>6 DEF SweepPush
<1>9. CASE SweepFault(m)
  <2>1. {old.hand} \cup ToSet(old.keep) \cup ToSet(old.requeue)
          \subseteq Tasks \cup {NoTask}
    BY <1>2, ElementOfSeq DEF ToSet
  <2>2. SweepOK'
    BY <1>9, RestingType, SweepUpdate DEF SweepFault
  <2>3. BudgetOK'
    BY <1>9, <2>1 DEF SweepFault, Fault
  <2>. QED
    BY <1>9, <2>2, <2>3 DEF SweepFault, QueueOK
<1>10. CASE RequeueError(m)
  <2>1. Head(old.requeue) \in Tasks /\ Tail(old.requeue) \in Seq(Tasks)
    BY <1>1, <1>2, <1>10, HeadTailType DEF RequeueError, SweepRecord
  <2>2. SweepRecord([old EXCEPT !.pc = "unpin", !.requeue = Tail(@)])
    BY <1>1, <1>10, <2>1 DEF RequeueError, SweepRecord, SweepState
  <2>3. SweepOK'
    BY <1>10, <2>2, SweepUpdate DEF RequeueError
  <2>4. BudgetOK'
    BY <1>10, <2>1 DEF RequeueError, Fault
  <2>. QED
    BY <1>10, <2>3, <2>4 DEF RequeueError, QueueOK
<1>. QED
  BY <1>3, <1>4, <1>5, <1>6, <1>7, <1>8, <1>9, <1>10 DEF SweepStep

LEMMA TypeStep == TypeOK /\ [Next]_vars => TypeOK'
<1> SUFFICES ASSUME TypeOK, [Next]_vars
             PROVE  TypeOK'
  OBVIOUS
<1>1. CASE UNCHANGED vars
  BY <1>1 DEF vars, TypeOK, StatusOK, PinOK, ValueOK, ErrorOK, QueueOK, SubmitOK,
              WorkerOK, StopperOK, CancelOK, SweepOK, BudgetOK
<1>2. CASE Next
  BY <1>2, TypeRequest, TypeLoop, TypeStop, TypeCancel, TypeSweep
     DEF Next, WorkerFault
<1>. QED
  BY <1>1, <1>2

\* The broker's variables keep their types, a coroutine's program counter and what
\* it holds agree: the loops of task_manager.py and gpu_worker.py never act on an
\* empty hand.
THEOREM TypeCorrect == Spec => []TypeOK
BY TypeInit, TypeStep, PTL DEF Spec

-----------------------------------------------------------------------------

(* A final status has an answer, and the broker implements its contract.      *)
(* FinalHasAnswer is not inductive: the final status is written one command   *)
(* after the answer, so what a coroutine holds between the two is part of it. *)

LoopAnswers ==
  \A w \in Workers :
     /\ worker[w].pc \in {"start", "run", "value", "status"} =>
           status[worker[w].task] # "absent"
     /\ worker[w].pc = "status" => value[worker[w].task] # "none"
StopAnswers ==
  \A w \in Workers :
     /\ stopper[w].pc \in {"error", "status"} => status[stopper[w].task] # "absent"
     /\ stopper[w].pc = "status" => error[stopper[w].task] # "none"
CancelAnswers ==
  \A c \in Cancels :
     /\ cancel[c].pc \in {"error", "status"} => status[cancel[c].task] # "absent"
     /\ cancel[c].pc = "status" => error[cancel[c].task] # "none"

AnswerInv == FinalHasAnswer /\ LoopAnswers /\ StopAnswers /\ CancelAnswers

\* No step takes back a hash, a result or an error.
Grows == \A t \in Tasks : /\ status[t] # "absent" => status'[t] # "absent"
                          /\ value[t] # "none" => value'[t] # "none"
                          /\ error[t] # "none" => error'[t] # "none"

LEMMA AnsweredDef ==
  ASSUME NEW t
  PROVE  Answered(t) <=> value[t] # "none" \/ error[t] # "none"
BY DEF Answered, Answer

LEMMA AnsweredNext ==
  ASSUME NEW t
  PROVE  Answered(t)' <=> value'[t] # "none" \/ error'[t] # "none"
BY DEF Answered, Answer

LEMMA LoopKept ==
  ASSUME TypeOK, LoopAnswers, Grows, UNCHANGED worker
  PROVE  LoopAnswers'
BY BrokerAssumption DEF TypeOK, WorkerOK, WorkerState, LoopAnswers, Grows

LEMMA StopKept ==
  ASSUME TypeOK, StopAnswers, Grows, UNCHANGED stopper
  PROVE  StopAnswers'
BY BrokerAssumption DEF TypeOK, StopperOK, StopState, StopAnswers, Grows

LEMMA CancelKept ==
  ASSUME TypeOK, CancelAnswers, Grows, UNCHANGED cancel
  PROVE  CancelAnswers'
BY BrokerAssumption DEF TypeOK, CancelOK, CancelState, CancelAnswers, Grows

LEMMA FinalKept ==
  ASSUME FinalHasAnswer, Grows, UNCHANGED status
  PROVE  FinalHasAnswer'
BY AnsweredDef, AnsweredNext DEF FinalHasAnswer, Grows

LEMMA StoreKept ==
  ASSUME UNCHANGED store
  PROVE  Grows /\ UNCHANGED status
BY DEF store, Grows

LEMMA AnswerInit == Init => AnswerInv
BY DEF Init, AnswerInv, FinalHasAnswer, LoopAnswers, StopAnswers, CancelAnswers,
       Idle, NotStopping

LEMMA AnswerRequest ==
  ASSUME TypeOK, AnswerInv, NEW r \in Requests, RequestStep(r) \/ SubmitFault(r)
  PROVE  AnswerInv'
<1>1. UNCHANGED <<worker, stopper, cancel>>
  BY DEF RequestStep, SubmitCheck, SubmitCreate, SubmitPush, SubmitFault
<1>2. Grows /\ FinalHasAnswer'
  <2>1. CASE SubmitCreate(r)
    <3>1. TaskOf[r] \in Tasks
      BY BrokerAssumption
    <3>2. Grows
      BY <2>1, <3>1 DEF SubmitCreate, Grows, TypeOK, StatusOK
    <3>3. FinalHasAnswer'
      BY <2>1, <3>1, <3>2, AnsweredDef, AnsweredNext
         DEF SubmitCreate, Grows, TypeOK, StatusOK, AnswerInv, FinalHasAnswer
    <3>. QED
      BY <3>2, <3>3
  <2>2. CASE ~ SubmitCreate(r)
    <3>1. UNCHANGED store
      BY <2>2 DEF RequestStep, SubmitCheck, SubmitPush, SubmitFault
    <3>. QED
      BY <3>1, StoreKept, FinalKept DEF AnswerInv
  <2>. QED
    BY <2>1, <2>2
<1>. QED
  BY <1>1, <1>2, LoopKept, StopKept, CancelKept DEF AnswerInv

\* The loop changes to a record of which LoopAnswers holds.
LEMMA LoopUpdate ==
  ASSUME TypeOK, LoopAnswers, Grows, NEW w \in Workers, NEW x,
         worker' = [worker EXCEPT ![w] = x],
         x.pc \in {"start", "run", "value", "status"} => status'[x.task] # "absent",
         x.pc = "status" => value'[x.task] # "none"
  PROVE  LoopAnswers'
<1>1. ASSUME NEW v \in Workers, v # w
      PROVE  /\ worker'[v] = worker[v]
             /\ worker[v].pc \notin {"scan", "down"} => worker[v].task \in Tasks
  BY <1>1 DEF TypeOK, WorkerOK, WorkerState
<1>2. worker'[w] = x
  BY DEF TypeOK, WorkerOK
<1>. QED
  BY <1>1, <1>2 DEF LoopAnswers, Grows

LEMMA AnswerLoop ==
  ASSUME TypeOK, AnswerInv, NEW w \in Workers,
         LoopStep(w) \/ LoopError(w) \/ CompleteError(w)
  PROVE  AnswerInv'
<1> DEFINE old == worker[w]
<1>1. UNCHANGED <<stopper, cancel>>
  BY DEF LoopStep, Take, Miss, Load, Start, Run, CompleteValue, CompleteStatus,
         LoopError, CompleteError
<1>2. /\ old \in WorkerState
      /\ old.pc \notin {"scan", "down"} => old.task \in Tasks
      /\ old.pc \in {"value", "status"} => old.out # "none"
  BY DEF TypeOK, WorkerOK, WorkerState
<1>3. NextIteration(w).pc \in {"scan", "down"}
  BY NextIterationType
<1>4. CASE Start(w)
  <2>1. old.task \in Tasks
    BY <1>2, <1>4 DEF Start
  <2>2. Grows
    BY <1>4, <2>1 DEF Start, Grows, TypeOK, StatusOK
  <2>3. FinalHasAnswer'
    BY <1>4, <2>1, <2>2, AnsweredDef, AnsweredNext
       DEF Start, Grows, TypeOK, StatusOK, AnswerInv, FinalHasAnswer
  <2>4. LoopAnswers'
    <3>1. status'[old.task] = "processing"
      BY <1>4, <2>1 DEF Start, TypeOK, StatusOK
    <3>2. worker' = [worker EXCEPT ![w] = [old EXCEPT !.pc = "run"]]
      BY <1>4 DEF Start
    <3>. QED
      BY <1>2, <2>2, <3>1, <3>2, LoopUpdate DEF WorkerState, AnswerInv
  <2>. QED
    BY <1>1, <2>2, <2>3, <2>4, StopKept, CancelKept DEF AnswerInv
<1>5. CASE CompleteValue(w)
  <2>1. old.task \in Tasks /\ old.out # "none" /\ status[old.task] # "absent"
    BY <1>2, <1>5 DEF CompleteValue, AnswerInv, LoopAnswers
  <2>2. Grows /\ value'[old.task] # "none"
    BY <1>5, <2>1 DEF CompleteValue, Grows, TypeOK, ValueOK
  <2>3. LoopAnswers'
    <3>1. worker' = [worker EXCEPT ![w] = [old EXCEPT !.pc = "status"]]
      BY <1>5 DEF CompleteValue
    <3>2. UNCHANGED status
      BY <1>5 DEF CompleteValue
    <3>. QED
      BY <1>2, <2>1, <2>2, <3>1, <3>2, LoopUpdate DEF WorkerState, AnswerInv
  <2>4. FinalHasAnswer'
    BY <1>5, <2>2, FinalKept DEF CompleteValue, AnswerInv
  <2>. QED
    BY <1>1, <2>2, <2>3, <2>4, StopKept, CancelKept DEF AnswerInv
<1>6. CASE CompleteStatus(w)
  <2>1. old.task \in Tasks /\ value[old.task] # "none"
    BY <1>2, <1>6 DEF CompleteStatus, AnswerInv, LoopAnswers
  <2>2. Grows
    BY <1>6, <2>1 DEF CompleteStatus, Grows, TypeOK, StatusOK
  <2>3. LoopAnswers'
    BY <1>3, <1>6, <2>2, LoopUpdate DEF CompleteStatus, AnswerInv
  <2>4. FinalHasAnswer'
    BY <1>6, <2>1, <2>2, AnsweredDef, AnsweredNext
       DEF CompleteStatus, Grows, TypeOK, StatusOK, AnswerInv, FinalHasAnswer
  <2>. QED
    BY <1>1, <2>2, <2>3, <2>4, StopKept, CancelKept DEF AnswerInv
<1>7. CASE Take(w) \/ Miss(w) \/ Load(w) \/ Run(w) \/ LoopError(w) \/ CompleteError(w)
  <2>1. UNCHANGED store
    BY <1>7 DEF Take, Miss, Load, Run, LoopError, CompleteError
  <2>2. Grows /\ UNCHANGED status /\ UNCHANGED value
    BY <2>1, StoreKept DEF store
  <2>3. LoopAnswers'
    <3>1. CASE Take(w)
      <4>1. [Idle EXCEPT !.pc = "load", !.task = Head(queue[Scanned(w)])].pc = "load"
        BY DEF Idle
      <4>. QED
        BY <2>2, <3>1, <4>1, LoopUpdate DEF Take, AnswerInv
    <3>2. CASE Miss(w)
      <4>1. [old EXCEPT !.at = @ + 1].pc = "scan"
        BY <1>2, <3>2 DEF Miss, WorkerState
      <4>. QED
        BY <1>3, <2>2, <3>2, <4>1, LoopUpdate DEF Miss, AnswerInv
    <3>3. CASE Load(w)
      <4>1. /\ [old EXCEPT !.pc = "start"].pc = "start"
            /\ [old EXCEPT !.pc = "start"].task = old.task
        BY <1>2 DEF WorkerState
      <4>. QED
        BY <1>3, <2>2, <3>3, <4>1, LoopUpdate DEF Load, AnswerInv
    <3>4. CASE Run(w)
      <4>1. PICK o \in Outcomes, g \in BOOLEAN :
               worker' = [worker EXCEPT ![w] = [old EXCEPT
                             !.pc = "value", !.out = o, !.guarded = g]]
        BY <3>4 DEF Run
      <4>2. status[old.task] # "absent"
        BY <3>4 DEF Run, AnswerInv, LoopAnswers
      <4>. QED
        BY <1>2, <2>2, <4>1, <4>2, LoopUpdate DEF WorkerState, AnswerInv
    <3>5. CASE LoopError(w)
      BY <1>3, <2>2, <3>5, LoopUpdate DEF LoopError, AnswerInv
    <3>6. CASE CompleteError(w)
      <4>1. status[old.task] # "absent"
        BY <3>6 DEF CompleteError, AnswerInv, LoopAnswers
      <4>2. worker' = [worker EXCEPT ![w] = [old EXCEPT
                             !.pc = "value", !.out = "failed", !.guarded = FALSE]]
        BY <3>6 DEF CompleteError
      <4>. QED
        BY <1>2, <2>2, <4>1, <4>2, LoopUpdate DEF WorkerState, AnswerInv
    <3>. QED
      BY <1>7, <3>1, <3>2, <3>3, <3>4, <3>5, <3>6
  <2>. QED
    BY <1>1, <2>2, <2>3, StopKept, CancelKept, FinalKept DEF AnswerInv
<1>. QED
  BY <1>4, <1>5, <1>6, <1>7 DEF LoopStep

LEMMA AnswerLife ==
  ASSUME TypeOK, AnswerInv, NEW w \in Workers,
         WorkerCrash(w) \/ Restart(w) \/ Expire(w)
  PROVE  AnswerInv'
<1>1. /\ UNCHANGED store
      /\ UNCHANGED cancel
  BY DEF WorkerCrash, Restart, Expire
<1>2. Grows /\ UNCHANGED status /\ UNCHANGED value
  BY <1>1, StoreKept DEF store
<1>3. CASE Expire(w)
  BY <1>1, <1>2, <1>3, LoopKept, StopKept, CancelKept, FinalKept DEF Expire, AnswerInv
<1>4. CASE WorkerCrash(w) \/ Restart(w)
  <2>1. \E x : x.pc \in {"scan", "down"} /\ worker' = [worker EXCEPT ![w] = x]
    BY <1>4, IdleType DEF WorkerCrash, Restart
  <2>2. LoopAnswers'
    BY <1>2, <2>1, LoopUpdate DEF AnswerInv
  <2>3. stopper' = [stopper EXCEPT ![w] = NotStopping]
    BY <1>4 DEF WorkerCrash, Restart
  <2>4. StopAnswers'
    BY <1>2, <2>3, StopKept
       DEF TypeOK, StopperOK, StopState, NotStopping, StopAnswers, Grows, AnswerInv, store
  <2>. QED
    BY <1>1, <1>2, <2>2, <2>4, CancelKept, FinalKept DEF AnswerInv
<1>. QED
  BY <1>3, <1>4

LEMMA AnswerStop ==
  ASSUME TypeOK, AnswerInv, NEW w \in Workers, StopStep(w) \/ StopFault(w)
  PROVE  AnswerInv'
<1> DEFINE old == stopper[w]
<1> USE BrokerAssumption
<1>1. UNCHANGED <<worker, cancel>>
  BY DEF StopStep, Stop, StopError, StopStatus, StopFault
<1>2. old.pc \in {"error", "status"} => old.task \in Tasks /\ status[old.task] # "absent"
  BY DEF TypeOK, StopperOK, StopState, AnswerInv, StopAnswers
<1>3. CASE Stop(w)
  <2>1. Grows /\ UNCHANGED status
    BY <1>3, StoreKept DEF Stop
  <2>2. CurrentTask(w) # NoTask => status[CurrentTask(w)] # "absent"
    BY DEF CurrentTask, AnswerInv, LoopAnswers
  <2>3. StopAnswers'
    BY <1>3, <2>1, <2>2
       DEF Stop, TypeOK, StopperOK, StopState, StopAnswers, AnswerInv, store
  <2>. QED
    BY <1>1, <2>1, <2>3, LoopKept, CancelKept, FinalKept DEF AnswerInv
<1>4. CASE StopError(w)
  <2>1. old.task \in Tasks
    BY <1>2, <1>4 DEF StopError
  <2>2. Grows /\ error'[old.task] # "none" /\ UNCHANGED status
    BY <1>4, <2>1 DEF StopError, Grows, TypeOK, ErrorOK
  <2>3. StopAnswers'
    BY <1>2, <1>4, <2>2
       DEF StopError, TypeOK, StopperOK, StopState, StopAnswers, AnswerInv, Grows
  <2>. QED
    BY <1>1, <2>2, <2>3, LoopKept, CancelKept, FinalKept DEF AnswerInv
<1>5. CASE StopStatus(w)
  <2>1. old.task \in Tasks /\ error[old.task] # "none"
    BY <1>2, <1>5 DEF StopStatus, AnswerInv, StopAnswers
  <2>2. Grows
    BY <1>5, <2>1 DEF StopStatus, Grows, TypeOK, StatusOK
  <2>3. StopAnswers'
    BY <1>5, <2>2
       DEF StopStatus, TypeOK, StopperOK, StopState, StopAnswers, AnswerInv, Grows
  <2>4. FinalHasAnswer'
    BY <1>5, <2>1, <2>2, AnsweredDef, AnsweredNext
       DEF StopStatus, Grows, TypeOK, StatusOK, AnswerInv, FinalHasAnswer
  <2>. QED
    BY <1>1, <2>2, <2>3, <2>4, LoopKept, CancelKept DEF AnswerInv
<1>6. CASE StopFault(w)
  <2>1. Grows /\ UNCHANGED status
    BY <1>6, StoreKept DEF StopFault
  <2>2. StopAnswers'
    BY <1>6, <2>1
       DEF StopFault, TypeOK, StopperOK, StopState, StopAnswers, AnswerInv, Grows
  <2>. QED
    BY <1>1, <2>1, <2>2, LoopKept, CancelKept, FinalKept DEF AnswerInv
<1>. QED
  BY <1>3, <1>4, <1>5, <1>6 DEF StopStep

LEMMA AnswerCancel ==
  ASSUME TypeOK, AnswerInv, NEW c \in Cancels, CancelStep(c) \/ CancelFault(c)
  PROVE  AnswerInv'
<1> DEFINE old == cancel[c]
<1> USE BrokerAssumption
<1>1. UNCHANGED <<worker, stopper>>
  BY DEF CancelStep, CancelCheck, CancelError, CancelStatus, CancelFault
<1>2. old.pc \in {"error", "status"} => old.task \in Tasks /\ status[old.task] # "absent"
  BY DEF TypeOK, CancelOK, CancelState, AnswerInv, CancelAnswers
<1>3. CASE CancelCheck(c)
  <2>1. Grows /\ UNCHANGED status /\ UNCHANGED error
    BY <1>3, StoreKept DEF CancelCheck, store
  <2>2. CancelAnswers'
    BY <1>3, <2>1
       DEF CancelCheck, TypeOK, CancelOK, CancelState, CancelAnswers, AnswerInv, Grows
  <2>. QED
    BY <1>1, <2>1, <2>2, LoopKept, StopKept, FinalKept DEF AnswerInv
<1>4. CASE CancelError(c)
  <2>1. old.task \in Tasks
    BY <1>2, <1>4 DEF CancelError
  <2>2. Grows /\ error'[old.task] # "none" /\ UNCHANGED status
    BY <1>4, <2>1 DEF CancelError, Grows, TypeOK, ErrorOK
  <2>3. CancelAnswers'
    BY <1>2, <1>4, <2>2
       DEF CancelError, TypeOK, CancelOK, CancelState, CancelAnswers, AnswerInv, Grows
  <2>. QED
    BY <1>1, <2>2, <2>3, LoopKept, StopKept, FinalKept DEF AnswerInv
<1>5. CASE CancelStatus(c)
  <2>1. old.task \in Tasks /\ error[old.task] # "none"
    BY <1>2, <1>5 DEF CancelStatus, AnswerInv, CancelAnswers
  <2>2. Grows
    BY <1>5, <2>1 DEF CancelStatus, Grows, TypeOK, StatusOK
  <2>3. CancelAnswers'
    BY <1>5, <2>2
       DEF CancelStatus, TypeOK, CancelOK, CancelState, CancelAnswers, AnswerInv, Grows
  <2>4. FinalHasAnswer'
    BY <1>5, <2>1, <2>2, AnsweredDef, AnsweredNext
       DEF CancelStatus, Grows, TypeOK, StatusOK, AnswerInv, FinalHasAnswer
  <2>. QED
    BY <1>1, <2>2, <2>3, <2>4, LoopKept, StopKept DEF AnswerInv
<1>6. CASE CancelFault(c)
  <2>1. Grows /\ UNCHANGED status
    BY <1>6, StoreKept DEF CancelFault
  <2>2. CancelAnswers'
    BY <1>6, <2>1
       DEF CancelFault, TypeOK, CancelOK, CancelState, CancelAnswers, AnswerInv, Grows
  <2>. QED
    BY <1>1, <2>1, <2>2, LoopKept, StopKept, FinalKept DEF AnswerInv
<1>. QED
  BY <1>3, <1>4, <1>5, <1>6 DEF CancelStep

LEMMA AnswerSweep ==
  ASSUME TypeOK, AnswerInv, NEW m \in Monitors,
         SweepStep(m) \/ SweepFault(m) \/ RequeueError(m)
  PROVE  AnswerInv'
<1>1. UNCHANGED <<status, value, error, worker, stopper, cancel>>
  BY DEF SweepStep, SweepBegin, SweepPop, SweepLoad, SweepKeep, SweepUnpin, SweepPush,
         SweepFault, RequeueError, store
<1>2. Grows
  BY <1>1 DEF Grows
<1>. QED
  BY <1>1, <1>2, LoopKept, StopKept, CancelKept, FinalKept DEF AnswerInv

LEMMA AnswerStep == TypeOK /\ AnswerInv /\ [Next]_vars => AnswerInv'
<1> SUFFICES ASSUME TypeOK, AnswerInv, [Next]_vars
             PROVE  AnswerInv'
  OBVIOUS
<1>1. CASE UNCHANGED vars
  <2>1. UNCHANGED <<status, value, error, worker, stopper, cancel>>
    BY <1>1 DEF vars
  <2>2. Grows
    BY <2>1 DEF Grows
  <2>. QED
    BY <2>1, <2>2, LoopKept, StopKept, CancelKept, FinalKept DEF AnswerInv
<1>2. CASE Next
  BY <1>2, AnswerRequest, AnswerLoop, AnswerLife, AnswerStop, AnswerCancel, AnswerSweep
     DEF Next, WorkerFault
<1>. QED
  BY <1>1, <1>2

\* Whoever reads a final status in a task hash finds an answer in the result hash,
\* whatever loops, stopping workers, cancellations, monitors and faults do
\* (complete_task and fail_task write the answer first).
THEOREM FinalAnswered == Spec => []FinalHasAnswer
<1>1. AnswerInv => FinalHasAnswer
  BY DEF AnswerInv
<1>. QED
  BY <1>1, TypeCorrect, AnswerInit, AnswerStep, PTL DEF Spec

-----------------------------------------------------------------------------

(* The broker implements TaskContract: a step maps to an acceptance, an error *)
(* for an unanswered task, a result, or a stutter.                            *)

answers == [t \in Tasks |-> Answer(t)]

LEMMA ContractStutter ==
  ASSUME UNCHANGED <<value, error>>, Known' = Known
  PROVE  UNCHANGED Contract!cvars
BY DEF Contract!cvars, Answer

LEMMA KnownKept ==
  ASSUME TypeOK, NEW t \in Known, NEW x, x # "absent",
         status' = [status EXCEPT ![t] = x]
  PROVE  Known' = Known
BY DEF Known, TypeOK, StatusOK

LEMMA ErrorGiven ==
  ASSUME TypeOK, NEW t \in Known, NEW e \in {"shutdown", "cancelled"},
         error' = [error EXCEPT ![t] = e], UNCHANGED <<status, value>>
  PROVE  [Contract!CNext]_(Contract!cvars)
<1>1. Known' = Known /\ t \in Tasks
  BY DEF Known
<1>2. CASE Answer(t) = "none"
  <2>1. answers' = [answers EXCEPT ![t] = "error"]
    BY <1>1, <1>2 DEF answers, Answer, TypeOK, ErrorOK
  <2>2. Contract!GiveError(t)
    BY <1>1, <1>2, <2>1 DEF Contract!GiveError, answers
  <2>. QED
    BY <1>1, <2>2 DEF Contract!CNext
<1>3. CASE Answer(t) # "none"
  <2>1. answers' = answers
    BY <1>1, <1>3 DEF answers, Answer, TypeOK, ErrorOK
  <2>. QED
    BY <1>1, <2>1 DEF Contract!cvars, answers
<1>. QED
  BY <1>2, <1>3

LEMMA ContractInit == Init => Contract!CInit
BY DEF Init, Contract!CInit, Known, Answer

LEMMA ContractStep ==
  TypeOK /\ AnswerInv /\ [Next]_vars => [Contract!CNext]_(Contract!cvars)
<1> SUFFICES ASSUME TypeOK, AnswerInv, [Next]_vars
             PROVE  [Contract!CNext]_(Contract!cvars)
  OBVIOUS
<1>1. CASE UNCHANGED vars
  BY <1>1, ContractStutter DEF vars, Known
<1>2. ASSUME NEW r \in Requests, RequestStep(r) \/ SubmitFault(r)
      PROVE  [Contract!CNext]_(Contract!cvars)
  <2>1. CASE SubmitCreate(r)
    <3> DEFINE t == TaskOf[r]
    <3>1. t \in Tasks
      BY BrokerAssumption
    <3>2. Known' = Known \cup {t} /\ UNCHANGED <<value, error>>
      BY <2>1, <3>1 DEF SubmitCreate, Known, TypeOK, StatusOK
    <3>3. CASE t \in Known
      BY <3>2, <3>3, ContractStutter
    <3>4. CASE t \notin Known
      <4>1. Contract!Accept(t)
        BY <3>2, <3>4 DEF Contract!Accept, Answer
      <4>. QED
        BY <3>1, <4>1 DEF Contract!CNext
    <3>. QED
      BY <3>3, <3>4
  <2>2. CASE ~ SubmitCreate(r)
    <3>1. UNCHANGED store
      BY <1>2, <2>2 DEF RequestStep, SubmitCheck, SubmitPush, SubmitFault
    <3>. QED
      BY <3>1, ContractStutter DEF store, Known
  <2>. QED
    BY <2>1, <2>2
<1>3. ASSUME NEW w \in Workers, LoopStep(w) \/ LoopError(w) \/ CompleteError(w)
      PROVE  [Contract!CNext]_(Contract!cvars)
  <2> DEFINE t == worker[w].task
  <2>1. worker[w].pc \in {"start", "run", "value", "status"} => t \in Known
    <3>1. worker[w].pc \in {"start", "run", "value", "status"} => t \in Tasks
      BY DEF TypeOK, WorkerOK, WorkerState
    <3>. QED
      BY <3>1, <1>3 DEF AnswerInv, LoopAnswers, Known
  <2>2. CASE Start(w) \/ CompleteStatus(w)
    <3>1. PICK x \in {"processing", "completed"} : status' = [status EXCEPT ![t] = x]
      BY <2>2 DEF Start, CompleteStatus
    <3>2. t \in Known
      BY <2>1, <2>2 DEF Start, CompleteStatus
    <3>3. Known' = Known
      BY <3>1, <3>2, KnownKept
    <3>. QED
      BY <2>2, <3>3, ContractStutter DEF Start, CompleteStatus
  <2>3. CASE CompleteValue(w)
    <3>1. /\ t \in Known /\ t \in Tasks
          /\ Known' = Known
          /\ worker[w].out # "none"
      BY <2>1, <2>3 DEF CompleteValue, Known, TypeOK, WorkerOK
    <3>2. answers' = [answers EXCEPT ![t] = "result"]
      BY <2>3, <3>1 DEF CompleteValue, answers, Answer, TypeOK, ValueOK
    <3>3. Contract!GiveResult(t)
      BY <3>1, <3>2 DEF Contract!GiveResult, answers
    <3>. QED
      BY <3>1, <3>3 DEF Contract!CNext
  <2>4. CASE Take(w) \/ Miss(w) \/ Load(w) \/ Run(w) \/ LoopError(w) \/ CompleteError(w)
    BY <2>4, ContractStutter
       DEF Take, Miss, Load, Run, LoopError, CompleteError, store, Known
  <2>. QED
    BY <1>3, <2>2, <2>3, <2>4 DEF LoopStep
<1>4. ASSUME NEW w \in Workers, WorkerCrash(w) \/ Restart(w) \/ Expire(w)
      PROVE  [Contract!CNext]_(Contract!cvars)
  BY <1>4, ContractStutter DEF WorkerCrash, Restart, Expire, store, Known
<1>5. ASSUME NEW w \in Workers, StopStep(w) \/ StopFault(w)
      PROVE  [Contract!CNext]_(Contract!cvars)
  <2> DEFINE t == stopper[w].task
  <2>1. stopper[w].pc \in {"error", "status"} => t \in Known
    BY BrokerAssumption DEF TypeOK, StopperOK, StopState, AnswerInv, StopAnswers, Known
  <2>2. CASE StopError(w)
    BY <2>1, <2>2, ErrorGiven DEF StopError
  <2>3. CASE StopStatus(w)
    <3>1. Known' = Known
      BY <2>1, <2>3, KnownKept DEF StopStatus
    <3>. QED
      BY <2>3, <3>1, ContractStutter DEF StopStatus
  <2>4. CASE Stop(w) \/ StopFault(w)
    BY <2>4, ContractStutter DEF Stop, StopFault, store, Known
  <2>. QED
    BY <1>5, <2>2, <2>3, <2>4 DEF StopStep
<1>6. ASSUME NEW c \in Cancels, CancelStep(c) \/ CancelFault(c)
      PROVE  [Contract!CNext]_(Contract!cvars)
  <2> DEFINE t == cancel[c].task
  <2>1. cancel[c].pc \in {"error", "status"} => t \in Known
    BY BrokerAssumption DEF TypeOK, CancelOK, CancelState, AnswerInv, CancelAnswers, Known
  <2>2. CASE CancelError(c)
    BY <2>1, <2>2, ErrorGiven DEF CancelError
  <2>3. CASE CancelStatus(c)
    <3>1. Known' = Known
      BY <2>1, <2>3, KnownKept DEF CancelStatus
    <3>. QED
      BY <2>3, <3>1, ContractStutter DEF CancelStatus
  <2>4. CASE CancelCheck(c) \/ CancelFault(c)
    BY <2>4, ContractStutter DEF CancelCheck, CancelFault, store, Known
  <2>. QED
    BY <1>6, <2>2, <2>3, <2>4 DEF CancelStep
<1>7. ASSUME NEW m \in Monitors, SweepStep(m) \/ SweepFault(m) \/ RequeueError(m)
      PROVE  [Contract!CNext]_(Contract!cvars)
  <2>1. UNCHANGED <<status, value, error>>
    BY <1>7 DEF SweepStep, SweepBegin, SweepPop, SweepLoad, SweepKeep, SweepUnpin,
                SweepPush, SweepFault, RequeueError, store
  <2>. QED
    BY <2>1, ContractStutter DEF Known
<1>. QED
  BY <1>1, <1>2, <1>3, <1>4, <1>5, <1>6, <1>7 DEF Next, WorkerFault

\* To a poller (Scheduler.wait, GET /results) the broker does what TaskContract
\* promises: an accepted task may be answered, an answer is not withdrawn, and an
\* error never replaces a result (get_task_result reads the result field first).
THEOREM ContractCorrect == Spec => ContractKept
<1>1. Init /\ [][Next]_vars => [](TypeOK /\ AnswerInv)
  BY TypeInit, TypeStep, AnswerInit, AnswerStep, PTL
<1>. QED
  BY <1>1, ContractInit, ContractStep, PTL DEF Spec, ContractKept, Contract!CSpec
=============================================================================
