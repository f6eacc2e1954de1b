----------------------- MODULE TaskManagerHeldProofs -----------------------
(***************************************************************************)
(* Where the ids of the broker are, for every value of its constants: an   *)
(* id in a list or in a hand has a task hash, and an accepted task is      *)
(* answered, held by somebody, or lost to a fault.                         *)
(***************************************************************************)
EXTENDS TaskManagerProofs

(* Held, place by place: lists, passes, requests and loops. *)

Carries(x, t) == x.hand = t \/ t \in ToSet(x.keep) \/ t \in ToSet(x.requeue)

InLists(t) == \E q \in Queues : t \in ToSet(queue[q])
InPasses(t) == \E m \in Monitors : Carries(sweep[m], t)
InRequests(t) == \E r \in Requests : submit[r] = "push" /\ TaskOf[r] = t
InLoops(t) == \E w \in Workers : worker[w].task = t
Has(t) == InLists(t) \/ InPasses(t) \/ InRequests(t) \/ InLoops(t)

LEMMA HeldHas ==
  ASSUME NEW t \in Tasks
  PROVE  t \in Held <=> Has(t)
<1>1. t # NoTask
  BY BrokerAssumption
<1>2. t \in Queued <=> InLists(t)
  BY DEF Queued, InLists
<1>3. t \in Swept <=> InPasses(t)
  BY DEF Swept, InPasses, Carries
<1>4. t \in Pushing <=> InRequests(t)
  BY DEF Pushing, InRequests
<1>5. t \in Running <=> InLoops(t)
  BY DEF Running, InLoops
<1>. QED
  BY <1>1, <1>2, <1>3, <1>4, <1>5 DEF Held, Has

LEMMA MembersType ==
  ASSUME NEW s \in Seq(Tasks)
  PROVE  ToSet(s) \subseteq Tasks
BY ElementOfSeq DEF ToSet

\* Whatever is held is a task.
LEMMA HeldTasks == TypeOK => Held \subseteq Tasks
<1> SUFFICES ASSUME TypeOK
             PROVE  Held \subseteq Tasks
  OBVIOUS
<1>1. Queued \subseteq Tasks
  BY MembersType DEF TypeOK, QueueOK, Queued
<1>2. Swept \subseteq Tasks \cup {NoTask}
  <2>1. ASSUME NEW m \in Monitors
        PROVE  {sweep[m].hand} \cup ToSet(sweep[m].keep) \cup ToSet(sweep[m].requeue)
                 \subseteq Tasks \cup {NoTask}
    <3>1. /\ sweep[m].hand \in Tasks \cup {NoTask}
          /\ sweep[m].keep \in Seq(Tasks) /\ sweep[m].requeue \in Seq(Tasks)
      BY DEF TypeOK, SweepOK, SweepState
    <3>. QED
      BY <3>1, MembersType
  <2>. QED
    BY <2>1 DEF Swept
<1>3. Pushing \subseteq Tasks
  BY BrokerAssumption DEF Pushing
<1>4. Running \subseteq Tasks \cup {NoTask}
  BY DEF TypeOK, WorkerOK, WorkerState, Running
<1>. QED
  BY <1>1, <1>2, <1>3, <1>4 DEF Held

-----------------------------------------------------------------------------
(* The members of a sequence. *)

LEMMA MembersAppend ==
  ASSUME NEW s \in Seq(Tasks), NEW x \in Tasks
  PROVE  ToSet(Append(s, x)) = ToSet(s) \cup {x}
<1>1. /\ DOMAIN Append(s, x) = DOMAIN s \cup {Len(s) + 1}
      /\ \A i \in DOMAIN s : Append(s, x)[i] = s[i]
      /\ Append(s, x)[Len(s) + 1] = x
  <2>1. /\ Append(s, x) \in Seq(Tasks) /\ Len(Append(s, x)) = Len(s) + 1
        /\ \A i \in 1..Len(s) : Append(s, x)[i] = s[i]
        /\ Append(s, x)[Len(s) + 1] = x
    BY AppendProperties
  <2>2. /\ DOMAIN s = 1..Len(s) /\ Len(s) \in Nat
        /\ DOMAIN Append(s, x) = 1..(Len(s) + 1)
    BY <2>1, LenProperties
  <2>3. 1..(Len(s) + 1) = 1..Len(s) \cup {Len(s) + 1}
    BY <2>2
  <2>. QED
    BY <2>1, <2>2, <2>3
<1>. QED
  BY <1>1 DEF ToSet

LEMMA MembersPrepend ==
  ASSUME NEW s \in Seq(Tasks), NEW x \in Tasks
  PROVE  ToSet(<<x>> \o s) = ToSet(s) \cup {x}
<1> DEFINE y == <<x>> \o s
<1>1. /\ Len(s) \in Nat /\ DOMAIN s = 1..Len(s)
      /\ DOMAIN y = 1..(Len(s) + 1)
      /\ \A i \in 1..(Len(s) + 1) : y[i] = IF i <= 1 THEN x ELSE s[i - 1]
  <2>1. <<x>> \in Seq(Tasks) /\ Len(<<x>>) = 1 /\ <<x>>[1] = x
    OBVIOUS
  <2>2. Len(s) \in Nat /\ DOMAIN s = 1..Len(s)
    BY LenProperties
  <2>3. /\ y \in Seq(Tasks) /\ Len(y) = 1 + Len(s)
        /\ \A i \in 1..(1 + Len(s)) :
              y[i] = IF i <= 1 THEN <<x>>[i] ELSE s[i - 1]
    BY <2>1, ConcatProperties
  <2>4. DOMAIN y = 1..(Len(s) + 1)
    BY <2>2, <2>3, LenProperties
  <2>5. \A i \in 1..(Len(s) + 1) : i <= 1 => i = 1
    BY <2>2
  <2>. QED
    BY <2>1, <2>2, <2>3, <2>4, <2>5
<1> HIDE DEF y
<1>2. y[1] = x /\ 1 \in DOMAIN y
  BY <1>1
<1>3. \A i \in DOMAIN y : y[i] = x \/ (i - 1 \in DOMAIN s /\ y[i] = s[i - 1])
  BY <1>1
<1>4. \A i \in DOMAIN s : i + 1 \in DOMAIN y /\ y[i + 1] = s[i]
  BY <1>1
<1>5. ToSet(y) = ToSet(s) \cup {x}
  BY <1>2, <1>3, <1>4 DEF ToSet
<1>. QED
  BY <1>5 DEF y

LEMMA MembersHead ==
  ASSUME NEW s \in Seq(Tasks), s # <<>>
  PROVE  ToSet(s) = ToSet(Tail(s)) \cup {Head(s)}
<1>1. /\ Len(s) \in Nat \ {0} /\ DOMAIN s = 1..Len(s) /\ Head(s) = s[1]
      /\ DOMAIN Tail(s) = 1..(Len(s) - 1)
      /\ \A i \in 1..(Len(s) - 1) : Tail(s)[i] = s[i + 1]
  BY HeadTailProperties, EmptySeq, LenProperties
<1>2. \A i \in DOMAIN s :
         i = 1 \/ (i - 1 \in DOMAIN Tail(s) /\ Tail(s)[i - 1] = s[i])
  <2>1. \A i \in 1..Len(s) :
           i = 1 \/ (i - 1 \in 1..(Len(s) - 1) /\ (i - 1) + 1 = i)
    BY <1>1
  <2>. QED
    BY <1>1, <2>1
<1>3. \A i \in DOMAIN Tail(s) : i + 1 \in DOMAIN s /\ Tail(s)[i] = s[i + 1]
  BY <1>1
<1>4. 1 \in DOMAIN s
  BY <1>1
<1>5. \A i \in DOMAIN s : s[i] = Head(s) \/ s[i] \in ToSet(Tail(s))
  <2>1. SUFFICES ASSUME NEW i \in DOMAIN s, i # 1
                 PROVE  s[i] \in ToSet(Tail(s))
    BY <1>1
  <2>2. i - 1 \in DOMAIN Tail(s) /\ Tail(s)[i - 1] = s[i]
    BY <1>2, <2>1
  <2>. QED
    BY <2>2 DEF ToSet
<1>6. ToSet(Tail(s)) \subseteq ToSet(s)
  BY <1>3 DEF ToSet
<1>7. Head(s) \in ToSet(s)
  BY <1>1, <1>4 DEF ToSet
<1>8. ToSet(s) \subseteq ToSet(Tail(s)) \cup {Head(s)}
  BY <1>5 DEF ToSet
<1>. QED
  BY <1>6, <1>7, <1>8

LEMMA MembersLast ==
  ASSUME NEW s \in Seq(Tasks), s # <<>>
  PROVE  ToSet(s) = ToSet(Front(s)) \cup {Last(s)}
<1>1. Len(s) \in Nat \ {0} /\ DOMAIN s = 1..Len(s) /\ Last(s) = s[Len(s)]
  BY EmptySeq, LenProperties DEF Last
<1>2. /\ DOMAIN Front(s) = 1..(Len(s) - 1)
      /\ \A i \in 1..(Len(s) - 1) : Front(s)[i] = s[i]
  <2> DEFINE n == Len(s) - 1
  <2>1. 1 \in 1..(Len(s) + 1) /\ n \in (1 - 1)..Len(s)
    BY <1>1
  <2>2. Front(s) = SubSeq(s, 1, n)
    BY DEF Front
  <2> HIDE DEF n
  <2>3. /\ SubSeq(s, 1, n) \in Seq(Tasks) /\ Len(SubSeq(s, 1, n)) = n - 1 + 1
        /\ \A i \in 1..(n - 1 + 1) : SubSeq(s, 1, n)[i] = s[1 + i - 1]
    BY <2>1, SubSeqProperties
  <2>4. DOMAIN SubSeq(s, 1, n) = 1..Len(SubSeq(s, 1, n))
    BY <2>3, LenProperties
  <2>5. n \in Nat
    BY <1>1 DEF n
  <2>6. n - 1 + 1 = n /\ \A i \in 1..n : 1 + i - 1 = i
    BY <2>5
  <2>7. DOMAIN Front(s) = 1..n /\ \A i \in 1..n : Front(s)[i] = s[i]
    BY <2>2, <2>3, <2>4, <2>6
  <2>. QED
    BY <2>7 DEF n
<1>3. 1..Len(s) = 1..(Len(s) - 1) \cup {Len(s)}
  BY <1>1
<1>. QED
  BY <1>1, <1>2, <1>3 DEF ToSet

LEMMA MembersEmpty == ToSet(<<>>) = {}
BY DEF ToSet

-----------------------------------------------------------------------------
(* One place changes. *)

LEMMA ListGains ==
  ASSUME QueueOK, NEW q \in Queues, NEW x \in Tasks, NEW s,
         queue' = [queue EXCEPT ![q] = s],
         ToSet(s) = ToSet(queue[q]) \cup {x}, NEW t
  PROVE  InLists(t)' <=> InLists(t) \/ t = x
BY DEF QueueOK, InLists

LEMMA ListLoses ==
  ASSUME QueueOK, NEW q \in Queues, NEW x \in Tasks, NEW s,
         queue' = [queue EXCEPT ![q] = s],
         ToSet(queue[q]) = ToSet(s) \cup {x}, NEW t
  PROVE  /\ InLists(t)' => InLists(t)
         /\ InLists(t) => InLists(t)' \/ t = x
         /\ InLists(x)
BY DEF QueueOK, InLists

LEMMA PassChanges ==
  ASSUME SweepOK, NEW m \in Monitors, NEW y,
         sweep' = [sweep EXCEPT ![m] = y], NEW t
  PROVE  /\ InPasses(t)' => InPasses(t) \/ Carries(y, t)
         /\ InPasses(t) => InPasses(t)' \/ Carries(sweep[m], t)
         /\ Carries(y, t) => InPasses(t)'
         /\ Carries(sweep[m], t) => InPasses(t)
<1>1. sweep'[m] = y /\ \A n \in Monitors : n # m => sweep'[n] = sweep[n]
  BY DEF SweepOK
<1>. QED
  BY <1>1 DEF InPasses

LEMMA LoopChanges ==
  ASSUME WorkerOK, NEW w \in Workers, NEW y,
         worker' = [worker EXCEPT ![w] = y], NEW t
  PROVE  /\ InLoops(t)' => InLoops(t) \/ y.task = t
         /\ InLoops(t) => InLoops(t)' \/ worker[w].task = t
         /\ y.task = t => InLoops(t)'
         /\ worker[w].task = t => InLoops(t)
<1>1. worker'[w] = y /\ \A v \in Workers : v # w => worker'[v] = worker[v]
  BY DEF WorkerOK
<1>. QED
  BY <1>1 DEF InLoops

LEMMA RequestChanges ==
  ASSUME SubmitOK, NEW r \in Requests, NEW y,
         submit' = [submit EXCEPT ![r] = y], NEW t
  PROVE  /\ InRequests(t)' => InRequests(t) \/ (y = "push" /\ t = TaskOf[r])
         /\ InRequests(t) =>
              InRequests(t)' \/ (submit[r] = "push" /\ t = TaskOf[r])
         /\ y = "push" /\ t = TaskOf[r] => InRequests(t)'
<1>1. submit'[r] = y /\ \A o \in Requests : o # r => submit'[o] = submit[o]
  BY DEF SubmitOK
<1>. QED
  BY <1>1 DEF InRequests

LEMMA ListsStay == ASSUME UNCHANGED queue, NEW t
                   PROVE  InLists(t)' <=> InLists(t)
BY DEF InLists

LEMMA PassesStay == ASSUME UNCHANGED sweep, NEW t
                    PROVE  InPasses(t)' <=> InPasses(t)
BY DEF InPasses

LEMMA RequestsStay == ASSUME UNCHANGED submit, NEW t
                      PROVE  InRequests(t)' <=> InRequests(t)
BY DEF InRequests

LEMMA LoopsStay == ASSUME UNCHANGED worker, NEW t
                   PROVE  InLoops(t)' <=> InLoops(t)
BY DEF InLoops

-----------------------------------------------------------------------------
(* A hand is empty when its coroutine is between two tasks, and a pass ends *)
(* with its lists empty.                                                    *)

LoopHands == \A w \in Workers :
                worker[w].pc \in {"scan", "down"} => worker[w].task = NoTask
Tidy(x) == /\ x.pc # "load" => x.hand = NoTask
           /\ x.pc \in {"unpin", "push", "rest"} => x.keep = <<>>
           /\ x.pc = "rest" => x.requeue = <<>>
PassHands == \A m \in Monitors : Tidy(sweep[m])

\* What a step does to the whereabouts of the ids.
Accounted ==
  \A t \in Tasks :
     /\ Has(t)' => Has(t) \/ status'[t] # "absent"
     /\ Has(t) => \/ Has(t)' \/ t \in dropped'
                  \/ status[t] = "absent" \/ value'[t] # "none"
     /\ status[t] = "absent" /\ status'[t] # "absent" => Has(t)'
Recorded == dropped \subseteq dropped'

StepOK == Accounted /\ Recorded /\ LoopHands' /\ PassHands'
HeldInv == HeldIsKnown /\ NoTaskLost /\ LoopHands /\ PassHands

\* A step that moves nothing.
LEMMA NothingMoves ==
  ASSUME HeldInv, UNCHANGED <<queue, sweep, submit, worker, dropped>>,
         \A t \in Tasks : status[t] = "absent" => status'[t] = "absent"
  PROVE  StepOK
<1>1. \A t \in Tasks : Has(t)' <=> Has(t)
  BY ListsStay, PassesStay, RequestsStay, LoopsStay DEF Has
<1>. QED
  BY <1>1 DEF StepOK, Accounted, Recorded, HeldInv, LoopHands, PassHands

\* No step takes a hash or an answer back.
LEMMA StoreGrows ==
  ASSUME TypeOK, [Next]_vars
  PROVE  Grows
<1> USE DEF Grows, TypeOK, StatusOK, ValueOK, ErrorOK
<1>1. CASE UNCHANGED store
  BY <1>1 DEF store
<1>2. ASSUME NEW r \in Requests, SubmitCreate(r)
      PROVE  Grows
  BY <1>2 DEF SubmitCreate
<1>3. ASSUME NEW w \in Workers,
             Start(w) \/ CompleteStatus(w) \/ StopStatus(w) \/ StopError(w)
      PROVE  Grows
  BY <1>3 DEF Start, CompleteStatus, StopStatus, StopError
<1>4. ASSUME NEW w \in Workers, CompleteValue(w)
      PROVE  Grows
  BY <1>4 DEF CompleteValue, WorkerOK
<1>5. ASSUME NEW c \in Cancels, CancelError(c) \/ CancelStatus(c)
      PROVE  Grows
  BY <1>5 DEF CancelError, CancelStatus
<1>6. ASSUME NEW m \in Monitors, SweepStep(m) \/ SweepFault(m) \/ RequeueError(m)
      PROVE  Grows
  <2>1. UNCHANGED <<status, value, error>>
    BY <1>6 DEF SweepStep, SweepBegin, SweepPop, SweepLoad, SweepKeep, SweepUnpin,
                SweepPush, SweepFault, RequeueError, store
  <2>. QED
    BY <2>1
<1>7. ASSUME NEW r \in Requests, SubmitCheck(r) \/ SubmitPush(r) \/ SubmitFault(r)
      PROVE  UNCHANGED store
  BY <1>7 DEF SubmitCheck, SubmitPush, SubmitFault
<1>8. ASSUME NEW w \in Workers,
             \/ Take(w) \/ Miss(w) \/ Load(w) \/ Run(w) \/ Stop(w) \/ Restart(w)
             \/ Expire(w) \/ WorkerFault(w)
      PROVE  UNCHANGED store
  BY <1>8 DEF Take, Miss, Load, Run, Stop, Restart, Expire, WorkerFault, WorkerCrash,
              LoopError, CompleteError, StopFault
<1>9. ASSUME NEW c \in Cancels, CancelCheck(c) \/ CancelFault(c)
      PROVE  UNCHANGED store
  BY <1>9 DEF CancelCheck, CancelFault
<1>10. CASE UNCHANGED vars
  BY <1>1, <1>10 DEF vars, store
<1>11. CASE Next
  BY <1>1, <1>2, <1>3, <1>4, <1>5, <1>6, <1>7, <1>8, <1>9, <1>11
     DEF Next, RequestStep, LoopStep, StopStep, CancelStep
<1>. QED
  BY <1>10, <1>11

-----------------------------------------------------------------------------
(* The requests. *)

LEMMA HeldRequest ==
  ASSUME TypeOK, HeldInv, NEW r \in Requests, RequestStep(r) \/ SubmitFault(r)
  PROVE  StepOK
<1> DEFINE x == TaskOf[r]
<1>1. /\ SubmitOK /\ QueueOK /\ StatusOK /\ LoopHands /\ PassHands
      /\ x \in Tasks
  BY BrokerAssumption DEF TypeOK, HeldInv
<1>2. UNCHANGED <<sweep, worker>>
  BY DEF RequestStep, SubmitCheck, SubmitCreate, SubmitPush, SubmitFault
<1>3. LoopHands' /\ PassHands'
  BY <1>1, <1>2 DEF LoopHands, PassHands
<1>4. ASSUME NEW t PROVE  /\ InPasses(t)' <=> InPasses(t)
                          /\ InLoops(t)' <=> InLoops(t)
  BY <1>2, PassesStay, LoopsStay
<1>5. CASE SubmitCheck(r)
  <2>1. PICK y \in {"create", "existing"} : submit' = [submit EXCEPT ![r] = y]
    BY <1>5 DEF SubmitCheck
  <2>2. submit[r] = "new" /\ UNCHANGED <<status, queue, dropped>>
    BY <1>5 DEF SubmitCheck, store, budget
  <2>3. ASSUME NEW t PROVE  InRequests(t)' <=> InRequests(t)
    BY <1>1, <2>1, <2>2, RequestChanges
  <2>4. ASSUME NEW t PROVE  InLists(t)' <=> InLists(t)
    BY <2>2, ListsStay
  <2>. QED
    BY <1>3, <1>4, <2>2, <2>3, <2>4 DEF StepOK, Accounted, Recorded, Has
<1>6. CASE SubmitCreate(r)
  <2>1. /\ submit' = [submit EXCEPT ![r] = "push"] /\ submit[r] = "create"
        /\ status' = [status EXCEPT ![x] = "pending"]
        /\ UNCHANGED <<queue, dropped>>
    BY <1>6 DEF SubmitCreate, budget
  <2>2. ASSUME NEW t PROVE  /\ InRequests(t)' => InRequests(t) \/ t = x
                            /\ InRequests(t) => InRequests(t)'
                            /\ t = x => InRequests(t)'
    BY <1>1, <2>1, RequestChanges
  <2>3. ASSUME NEW t PROVE  InLists(t)' <=> InLists(t)
    BY <2>1, ListsStay
  <2>4. ASSUME NEW t \in Tasks
        PROVE  status'[t] = IF t = x THEN "pending" ELSE status[t]
    BY <1>1, <2>1 DEF StatusOK
  <2>. QED
    BY <1>3, <1>4, <2>1, <2>2, <2>3, <2>4 DEF StepOK, Accounted, Recorded, Has
<1>7. CASE SubmitPush(r)
  <2>1. PICK q \in Queues : queue' = [queue EXCEPT ![q] = Append(queue[q], x)]
    <3>1. PrioOf[x] \in Queues /\ PinOf[x] \in Workers \cup {Nobody}
      BY <1>1, BrokerAssumption DEF Queues
    <3>2. PinOf[x] # Nobody => PinOf[x] \in Queues
      BY <3>1 DEF Queues
    <3>. QED
      BY <1>7, <3>1, <3>2 DEF SubmitPush
  <2>2. /\ submit' = [submit EXCEPT ![r] = "done"]
        /\ UNCHANGED <<status, dropped>>
    BY <1>7 DEF SubmitPush, store, budget
  <2>3. ToSet(Append(queue[q], x)) = ToSet(queue[q]) \cup {x}
    BY <1>1, <2>1, MembersAppend DEF QueueOK
  <2>4. ASSUME NEW t PROVE  InLists(t)' <=> InLists(t) \/ t = x
    BY <1>1, <2>1, <2>3, ListGains
  <2>5. ASSUME NEW t PROVE  /\ InRequests(t)' => InRequests(t)
                            /\ InRequests(t) => InRequests(t)' \/ t = x
    <3>1. PICK y : y # "push" /\ submit' = [submit EXCEPT ![r] = y]
      BY <2>2
    <3>. QED
      BY <1>1, <3>1, RequestChanges
  <2>6. InRequests(x)
    BY <1>7 DEF SubmitPush, InRequests
  <2>. QED
    BY <1>3, <1>4, <2>2, <2>4, <2>5, <2>6 DEF StepOK, Accounted, Recorded, Has
<1>8. CASE SubmitFault(r)
  <2>1. /\ submit' = [submit EXCEPT ![r] = "dead"]
        /\ submit[r] = "push" => x \in dropped'
        /\ dropped \subseteq dropped'
        /\ UNCHANGED <<status, queue>>
    BY <1>1, <1>8, BrokerAssumption DEF SubmitFault, Fault, store
  <2>2. ASSUME NEW t
        PROVE  /\ InRequests(t)' => InRequests(t)
               /\ InRequests(t) => InRequests(t)' \/ (submit[r] = "push" /\ t = x)
    <3>1. PICK y : y # "push" /\ submit' = [submit EXCEPT ![r] = y]
      BY <2>1
    <3>. QED
      BY <1>1, <3>1, RequestChanges
  <2>3. ASSUME NEW t PROVE  InLists(t)' <=> InLists(t)
    BY <2>1, ListsStay
  <2>. QED
    BY <1>3, <1>4, <2>1, <2>2, <2>3 DEF StepOK, Accounted, Recorded, Has
<1>. QED
  BY <1>5, <1>6, <1>7, <1>8 DEF RequestStep

-----------------------------------------------------------------------------
(* The loops of the workers. *)

\* A loop keeps what it holds, or gives it up for a reason.
LEMMA LoopMoves ==
  ASSUME TypeOK, HeldInv, NEW w \in Workers, NEW y,
         worker' = [worker EXCEPT ![w] = y],
         UNCHANGED <<queue, sweep, submit>>, Recorded,
         y.pc \in {"scan", "down"} => y.task = NoTask,
         y.task \in {NoTask, worker[w].task},
         \/ y.task = worker[w].task
         \/ worker[w].task \in dropped' \cup {NoTask}
         \/ status[worker[w].task] = "absent"
         \/ value'[worker[w].task] # "none",
         \A t \in Tasks :
            status[t] = "absent" /\ status'[t] # "absent" => t = y.task
  PROVE  StepOK
<1>1. WorkerOK /\ LoopHands /\ PassHands
  BY DEF TypeOK, HeldInv
<1>2. ASSUME NEW t \in Tasks PROVE  t # NoTask
  BY BrokerAssumption
<1>3. ASSUME NEW t
      PROVE  /\ InLists(t)' <=> InLists(t)
             /\ InPasses(t)' <=> InPasses(t)
             /\ InRequests(t)' <=> InRequests(t)
  BY ListsStay, PassesStay, RequestsStay
<1>4. ASSUME NEW t
      PROVE  /\ InLoops(t)' => InLoops(t) \/ y.task = t
             /\ InLoops(t) => InLoops(t)' \/ worker[w].task = t
             /\ y.task = t => InLoops(t)'
             /\ worker[w].task = t => InLoops(t)
  BY <1>1, LoopChanges
<1>5. Accounted
  BY <1>2, <1>3, <1>4 DEF Accounted, Has
<1>6. LoopHands'
  BY <1>1 DEF LoopHands, WorkerOK
<1>7. PassHands'
  BY <1>1 DEF PassHands
<1>. QED
  BY <1>5, <1>6, <1>7 DEF StepOK

LEMMA NextHand ==
  ASSUME NEW w
  PROVE  NextIteration(w).task = NoTask
BY DEF NextIteration, Idle, Down

LEMMA HeldLoop ==
  ASSUME TypeOK, AnswerInv, HeldInv, NEW w \in Workers,
         LoopStep(w) \/ WorkerCrash(w) \/ LoopError(w) \/ CompleteError(w)
  PROVE  StepOK
<1> DEFINE old == worker[w]
<1>1. /\ WorkerOK /\ QueueOK /\ StatusOK /\ ValueOK /\ LoopHands /\ PassHands
      /\ old \in WorkerState /\ old.task \in Tasks \cup {NoTask}
      /\ old.pc \notin {"scan", "down"} => old.task \in Tasks
      /\ old.pc \in {"scan", "down"} => old.task = NoTask
  BY DEF TypeOK, HeldInv, WorkerOK, WorkerState, LoopHands
<1>2. NextIteration(w).task = NoTask
  BY NextHand
<1>3. CASE Take(w)
  <2> DEFINE q == Scanned(w)
             x == Head(queue[q])
             y == [Idle EXCEPT !.pc = "load", !.task = x]
  <2>1. q \in Queues
    BY <1>1, ScannedQueue DEF WorkerState
  <2>2. /\ queue' = [queue EXCEPT ![q] = Tail(queue[q])]
        /\ worker' = [worker EXCEPT ![w] = y]
        /\ old.pc = "scan" /\ queue[q] # <<>>
        /\ UNCHANGED <<status, sweep, submit, dropped>>
    BY <1>3 DEF Take, store, budget
  <2>3. /\ queue[q] \in Seq(Tasks) /\ x \in Tasks
        /\ ToSet(queue[q]) = ToSet(Tail(queue[q])) \cup {x}
    BY <1>1, <2>1, <2>2, HeadTailType, MembersHead DEF QueueOK
  <2>4. y.task = x /\ y.pc = "load"
    BY DEF Idle
  <2> HIDE DEF q, x, y
  <2>5. ASSUME NEW t PROVE  /\ InLists(t)' => InLists(t)
                            /\ InLists(t) => InLists(t)' \/ t = x
                            /\ InLists(x)
    BY <1>1, <2>1, <2>2, <2>3, ListLoses
  <2>6. ASSUME NEW t PROVE  /\ InLoops(t)' => InLoops(t) \/ t = x
                            /\ InLoops(t) => InLoops(t)' \/ t = NoTask
                            /\ t = x => InLoops(t)'
    BY <1>1, <2>2, <2>4, LoopChanges
  <2>7. ASSUME NEW t PROVE  /\ InPasses(t)' <=> InPasses(t)
                            /\ InRequests(t)' <=> InRequests(t)
    BY <2>2, PassesStay, RequestsStay
  <2>8. Accounted
    BY <2>2, <2>5, <2>6, <2>7, BrokerAssumption DEF Accounted, Has
  <2>9. LoopHands' /\ PassHands'
    BY <1>1, <2>2, <2>4 DEF LoopHands, PassHands, WorkerOK
  <2>. QED
    BY <2>2, <2>8, <2>9 DEF StepOK, Recorded
<1>4. CASE Miss(w)
  <2>1. PICK y : worker' = [worker EXCEPT ![w] = y] /\ y.task = NoTask
    <3>1. old.task = NoTask /\ [old EXCEPT !.at = @ + 1].task = old.task
      BY <1>1, <1>4 DEF Miss, WorkerState
    <3>2. \/ worker' = [worker EXCEPT ![w] = [old EXCEPT !.at = @ + 1]]
          \/ worker' = [worker EXCEPT ![w] = NextIteration(w)]
      BY <1>4 DEF Miss
    <3>. QED
      BY <1>2, <3>1, <3>2
  <2>. QED
    BY <1>1, <1>4, <2>1, LoopMoves DEF Miss, store, budget, Recorded
<1>5. CASE Load(w)
  <2>1. UNCHANGED <<queue, sweep, submit, dropped, status>> /\ old.pc = "load"
    BY <1>5 DEF Load, store, budget
  <2>2. CASE status[old.task] = "absent"
    <3>1. worker' = [worker EXCEPT ![w] = NextIteration(w)]
      BY <1>5, <2>2 DEF Load
    <3>. QED
      BY <1>2, <2>1, <2>2, <3>1, LoopMoves DEF Recorded
  <2>3. CASE status[old.task] # "absent"
    <3> DEFINE y == [old EXCEPT !.pc = "start"]
    <3>1. worker' = [worker EXCEPT ![w] = y]
      BY <1>5, <2>3 DEF Load
    <3>2. y.pc = "start" /\ y.task = old.task
      BY <1>1 DEF WorkerState
    <3> HIDE DEF y
    <3>. QED
      BY <2>1, <3>1, <3>2, LoopMoves DEF Recorded
  <2>. QED
    BY <2>2, <2>3
<1>6. CASE Start(w)
  <2> DEFINE y == [old EXCEPT !.pc = "run"]
  <2>1. /\ worker' = [worker EXCEPT ![w] = y] /\ old.pc = "start"
        /\ status' = [status EXCEPT ![old.task] = "processing"]
        /\ UNCHANGED <<queue, sweep, submit, dropped>>
    BY <1>1, <1>6 DEF Start, budget, WorkerOK
  <2>2. y.pc = "run" /\ y.task = old.task
    BY <1>1 DEF WorkerState
  <2>3. \A t \in Tasks : t # old.task => status'[t] = status[t]
    BY <1>1, <2>1 DEF StatusOK
  <2> HIDE DEF y
  <2>. QED
    BY <2>1, <2>2, <2>3, LoopMoves DEF Recorded
<1>7. CASE Run(w)
  <2>1. PICK o \in Outcomes, g \in BOOLEAN :
          worker' = [worker EXCEPT ![w] =
                       [old EXCEPT !.pc = "value", !.out = o, !.guarded = g]]
    BY <1>7 DEF Run
  <2> DEFINE y == [old EXCEPT !.pc = "value", !.out = o, !.guarded = g]
  <2>2. y.pc = "value" /\ y.task = old.task
    BY <1>1 DEF WorkerState
  <2>3. UNCHANGED <<queue, sweep, submit, dropped, status>>
    BY <1>7 DEF Run, store, budget
  <2>4. worker' = [worker EXCEPT ![w] = y]
    BY <2>1
  <2> HIDE DEF y
  <2>. QED
    BY <2>2, <2>3, <2>4, LoopMoves DEF Recorded
<1>8. CASE CompleteValue(w)
  <2> DEFINE y == [old EXCEPT !.pc = "status"]
  <2>1. /\ worker' = [worker EXCEPT ![w] = y]
        /\ UNCHANGED <<queue, sweep, submit, dropped, status>>
    BY <1>1, <1>8 DEF CompleteValue, budget, WorkerOK
  <2>2. y.pc = "status" /\ y.task = old.task
    BY <1>1 DEF WorkerState
  <2> HIDE DEF y
  <2>. QED
    BY <2>1, <2>2, LoopMoves DEF Recorded
<1>9. CASE CompleteStatus(w)
  <2>1. /\ worker' = [worker EXCEPT ![w] = NextIteration(w)]
        /\ old.pc = "status"
        /\ status' = [status EXCEPT ![old.task] = "completed"]
        /\ UNCHANGED <<queue, sweep, submit, dropped, value>>
    BY <1>9 DEF CompleteStatus, budget
  <2>2. status[old.task] # "absent" /\ value'[old.task] # "none"
    BY <2>1 DEF AnswerInv, LoopAnswers
  <2>3. \A t \in Tasks : status[t] = "absent" => status'[t] = "absent"
    BY <1>1, <2>1, <2>2 DEF StatusOK
  <2>. QED
    BY <1>2, <2>1, <2>2, <2>3, LoopMoves DEF Recorded
<1>10. CASE WorkerCrash(w)
  <2>1. Down.task = NoTask
    BY DEF Down, Idle
  <2>2. /\ worker' = [worker EXCEPT ![w] = Down]
        /\ dropped' = dropped \cup ({old.task} \ {NoTask})
        /\ UNCHANGED <<queue, sweep, submit, status>>
    BY <1>10 DEF WorkerCrash, Fault, store
  <2>3. old.task \in dropped' \cup {NoTask} /\ Recorded
    BY <2>2 DEF Recorded
  <2>. QED
    BY <2>1, <2>2, <2>3, LoopMoves
<1>11. CASE LoopError(w)
  <2>1. /\ worker' = [worker EXCEPT ![w] = NextIteration(w)]
        /\ dropped' = dropped \cup ({old.task} \ {NoTask})
        /\ UNCHANGED <<queue, sweep, submit, status>>
    BY <1>11 DEF LoopError, Fault, store
  <2>2. old.task \in dropped' \cup {NoTask} /\ Recorded
    BY <2>1 DEF Recorded
  <2>. QED
    BY <1>2, <2>1, <2>2, LoopMoves
<1>12. CASE CompleteError(w)
  <2> DEFINE y == [old EXCEPT !.pc = "value", !.out = "failed", !.guarded = FALSE]
  <2>1. /\ worker' = [worker EXCEPT ![w] = y]
        /\ dropped \subseteq dropped'
        /\ UNCHANGED <<queue, sweep, submit, status>>
    BY <1>12 DEF CompleteError, Fault, store
  <2>2. y.pc = "value" /\ y.task = old.task
    BY <1>1 DEF WorkerState
  <2> HIDE DEF y
  <2>. QED
    BY <2>1, <2>2, LoopMoves DEF Recorded
<1>. QED
  BY <1>3, <1>4, <1>5, <1>6, <1>7, <1>8, <1>9, <1>10, <1>11, <1>12 DEF LoopStep

LEMMA HeldRestart ==
  ASSUME TypeOK, HeldInv, NEW w \in Workers, Restart(w)
  PROVE  StepOK
<1>1. Idle.task = NoTask
  BY DEF Idle
<1>2. worker[w].task = NoTask
  BY DEF Restart, HeldInv, LoopHands
<1>3. /\ worker' = [worker EXCEPT ![w] = Idle]
      /\ UNCHANGED <<queue, sweep, submit, status, dropped>>
  BY DEF Restart, store, budget
<1>. QED
  BY <1>1, <1>2, <1>3, LoopMoves DEF Recorded

\* Shutdowns and cancellations move nothing.
LEMMA HeldStop ==
  ASSUME TypeOK, AnswerInv, HeldInv, NEW w \in Workers,
         StopStep(w) \/ StopFault(w) \/ Expire(w)
  PROVE  StepOK
<1>1. /\ UNCHANGED <<queue, sweep, submit, worker, dropped>>
      /\ UNCHANGED status \/ StopStatus(w)
  BY DEF StopStep, Stop, StopError, StopStatus, StopFault, Expire, Fault, store, budget
<1>2. \A t \in Tasks : status[t] = "absent" => status'[t] = "absent"
  BY <1>1 DEF StopStatus, AnswerInv, StopAnswers, TypeOK, StatusOK
<1>. QED
  BY <1>1, <1>2, NothingMoves

LEMMA HeldCancel ==
  ASSUME TypeOK, AnswerInv, HeldInv, NEW c \in Cancels, CancelStep(c) \/ CancelFault(c)
  PROVE  StepOK
<1>1. /\ UNCHANGED <<queue, sweep, submit, worker, dropped>>
      /\ UNCHANGED status \/ CancelStatus(c)
  BY DEF CancelStep, CancelCheck, CancelError, CancelStatus, CancelFault, Fault, store,
         budget
<1>2. \A t \in Tasks : status[t] = "absent" => status'[t] = "absent"
  BY <1>1 DEF CancelStatus, AnswerInv, CancelAnswers, TypeOK, StatusOK
<1>. QED
  BY <1>1, <1>2, NothingMoves

-----------------------------------------------------------------------------
(* The passes of the monitors. *)

\* A pass gives up what it carries for a reason only.
LEMMA PassMoves ==
  ASSUME TypeOK, HeldInv, NEW m \in Monitors, NEW y,
         sweep' = [sweep EXCEPT ![m] = y],
         UNCHANGED <<status, queue, submit, worker>>, Recorded, Tidy(y),
         \A t \in Tasks :
            /\ Carries(y, t) => Carries(sweep[m], t)
            /\ Carries(sweep[m], t) =>
                 Carries(y, t) \/ t \in dropped' \/ status[t] = "absent"
  PROVE  StepOK
<1>1. SweepOK /\ LoopHands /\ PassHands
  BY DEF TypeOK, HeldInv
<1>2. ASSUME NEW t
      PROVE  /\ InLists(t)' <=> InLists(t)
             /\ InLoops(t)' <=> InLoops(t)
             /\ InRequests(t)' <=> InRequests(t)
  BY ListsStay, LoopsStay, RequestsStay
<1>3. ASSUME NEW t
      PROVE  /\ InPasses(t)' => InPasses(t) \/ Carries(y, t)
             /\ InPasses(t) => InPasses(t)' \/ Carries(sweep[m], t)
             /\ Carries(y, t) => InPasses(t)'
             /\ Carries(sweep[m], t) => InPasses(t)
  BY <1>1, PassChanges
<1>4. Accounted
  BY <1>2, <1>3 DEF Accounted, Has
<1>5. LoopHands' /\ PassHands'
  BY <1>1 DEF LoopHands, PassHands, SweepOK
<1>. QED
  BY <1>4, <1>5 DEF StepOK

\* A pass takes an id from a list.
LEMMA PassPops ==
  ASSUME TypeOK, HeldInv, NEW m \in Monitors, NEW y, NEW q \in Queues,
         NEW x \in Tasks, NEW s,
         sweep' = [sweep EXCEPT ![m] = y], queue' = [queue EXCEPT ![q] = s],
         ToSet(queue[q]) = ToSet(s) \cup {x},
         UNCHANGED <<status, submit, worker, dropped>>, Tidy(y),
         \A t \in Tasks : Carries(y, t) <=> Carries(sweep[m], t) \/ t = x
  PROVE  StepOK
<1>1. SweepOK /\ QueueOK /\ LoopHands /\ PassHands
  BY DEF TypeOK, HeldInv
<1>2. ASSUME NEW t
      PROVE  /\ InLoops(t)' <=> InLoops(t)
             /\ InRequests(t)' <=> InRequests(t)
  BY LoopsStay, RequestsStay
<1>3. ASSUME NEW t
      PROVE  /\ InPasses(t)' => InPasses(t) \/ Carries(y, t)
             /\ InPasses(t) => InPasses(t)' \/ Carries(sweep[m], t)
             /\ Carries(y, t) => InPasses(t)'
             /\ Carries(sweep[m], t) => InPasses(t)
  BY <1>1, PassChanges
<1>4. ASSUME NEW t
      PROVE  /\ InLists(t)' => InLists(t)
             /\ InLists(t) => InLists(t)' \/ t = x
             /\ InLists(x)
  BY <1>1, ListLoses
<1>5. Accounted
  BY <1>2, <1>3, <1>4 DEF Accounted, Has
<1>6. LoopHands' /\ PassHands'
  BY <1>1 DEF LoopHands, PassHands, SweepOK
<1>. QED
  BY <1>5, <1>6 DEF StepOK, Recorded

\* A pass puts an id back into a list.
LEMMA PassPushes ==
  ASSUME TypeOK, HeldInv, NEW m \in Monitors, NEW y, NEW q \in Queues,
         NEW x \in Tasks, NEW s,
         sweep' = [sweep EXCEPT ![m] = y], queue' = [queue EXCEPT ![q] = s],
         ToSet(s) = ToSet(queue[q]) \cup {x},
         UNCHANGED <<status, submit, worker, dropped>>, Tidy(y),
         \A t \in Tasks : Carries(sweep[m], t) <=> Carries(y, t) \/ t = x
  PROVE  StepOK
<1>1. SweepOK /\ QueueOK /\ LoopHands /\ PassHands
  BY DEF TypeOK, HeldInv
<1>2. ASSUME NEW t
      PROVE  /\ InLoops(t)' <=> InLoops(t)
             /\ InRequests(t)' <=> InRequests(t)
  BY LoopsStay, RequestsStay
<1>3. ASSUME NEW t
      PROVE  /\ InPasses(t)' => InPasses(t) \/ Carries(y, t)
             /\ InPasses(t) => InPasses(t)' \/ Carries(sweep[m], t)
             /\ Carries(y, t) => InPasses(t)'
             /\ Carries(sweep[m], t) => InPasses(t)
  BY <1>1, PassChanges
<1>4. ASSUME NEW t
      PROVE  InLists(t)' <=> InLists(t) \/ t = x
  BY <1>1, ListGains
<1>5. Accounted
  BY <1>2, <1>3, <1>4 DEF Accounted, Has
<1>6. LoopHands' /\ PassHands'
  BY <1>1 DEF LoopHands, PassHands, SweepOK
<1>. QED
  BY <1>5, <1>6 DEF StepOK, Recorded

\* A pass at rest carries nothing.
LEMMA RestingCarries ==
  /\ Tidy(Resting)
  /\ \A w, t : t \in Tasks => /\ ~ Carries(Resting, t)
                              /\ ~ Carries([Resting EXCEPT !.pc = "pop", !.of = w], t)
  /\ \A w : Tidy([Resting EXCEPT !.pc = "pop", !.of = w])
<1>1. ASSUME NEW x, x.hand = NoTask, x.keep = <<>>, x.requeue = <<>>
      PROVE  Tidy(x) /\ \A t \in Tasks : ~ Carries(x, t)
  BY <1>1, MembersEmpty, BrokerAssumption DEF Tidy, Carries
<1>2. Resting.hand = NoTask /\ Resting.keep = <<>> /\ Resting.requeue = <<>>
  BY DEF Resting
<1>3. ASSUME NEW w
      PROVE  LET x == [Resting EXCEPT !.pc = "pop", !.of = w]
             IN  x.hand = NoTask /\ x.keep = <<>> /\ x.requeue = <<>>
  BY DEF Resting
<1>. QED
  BY <1>1, <1>2, <1>3

LEMMA HeldPass ==
  ASSUME TypeOK, HeldInv, NEW m \in Monitors,
         SweepStep(m) \/ SweepFault(m) \/ RequeueError(m)
  PROVE  StepOK
<1> DEFINE old == sweep[m]
<1>1. /\ old \in SweepState /\ SweepOK /\ QueueOK /\ Tidy(old)
      /\ old.keep \in Seq(Tasks) /\ old.requeue \in Seq(Tasks)
      /\ old.hand \in Tasks \cup {NoTask}
      /\ old.pc # "rest" => old.of \in Workers /\ old.of \in Queues
      /\ old.pc = "load" => old.hand \in Tasks
      /\ old.pc = "push" => old.requeue # <<>>
  BY DEF TypeOK, SweepOK, SweepState, HeldInv, PassHands, Queues
<1>2. \A t \in Tasks : t # NoTask
  BY BrokerAssumption
<1>3. CASE SweepBegin(m)
  <2>1. PICK w \in listed :
          sweep' = [sweep EXCEPT ![m] = [Resting EXCEPT !.pc = "pop", !.of = w]]
    BY <1>3 DEF SweepBegin
  <2> DEFINE y == [Resting EXCEPT !.pc = "pop", !.of = w]
  <2>2. Tidy(y) /\ \A t \in Tasks : ~ Carries(y, t)
    BY RestingCarries
  <2>3. \A t \in Tasks : ~ Carries(old, t)
    BY <1>1, <1>2, <1>3, MembersEmpty DEF SweepBegin, Tidy, Carries
  <2>4. UNCHANGED <<status, queue, submit, worker, dropped>>
    BY <1>3 DEF SweepBegin, store
  <2>5. sweep' = [sweep EXCEPT ![m] = y]
    BY <2>1
  <2> HIDE DEF y
  <2>. QED
    BY <2>2, <2>3, <2>4, <2>5, PassMoves DEF Recorded
<1>4. CASE SweepPop(m)
  <2> DEFINE q == old.of
  <2>1. /\ old.pc = "pop" /\ q \in Queues /\ queue[q] \in Seq(Tasks)
        /\ old.hand = NoTask
        /\ UNCHANGED <<status, submit, worker, dropped>>
    BY <1>1, <1>4 DEF SweepPop, QueueOK, Tidy, store, budget
  <2>2. CASE old.seen < ScanLimit /\ queue[q] # <<>>
    <3> DEFINE x == Head(queue[q])
               y == [old EXCEPT !.pc = "load", !.seen = @ + 1, !.hand = x]
    <3>1. /\ queue' = [queue EXCEPT ![q] = Tail(queue[q])]
          /\ sweep' = [sweep EXCEPT ![m] = y]
      BY <1>4, <2>2 DEF SweepPop
    <3>2. x \in Tasks /\ ToSet(queue[q]) = ToSet(Tail(queue[q])) \cup {x}
      BY <2>1, <2>2, HeadTailType, MembersHead
    <3>3. /\ y.pc = "load" /\ y.hand = x
          /\ y.keep = old.keep /\ y.requeue = old.requeue
      BY <1>1 DEF SweepState
    <3> HIDE DEF x, y, q
    <3>4. Tidy(y)
      BY <3>3 DEF Tidy
    <3>5. \A t \in Tasks : Carries(y, t) <=> Carries(old, t) \/ t = x
      BY <1>2, <2>1, <3>3 DEF Carries
    <3>. QED
      BY <2>1, <3>1, <3>2, <3>4, <3>5, PassPops
  <2>3. CASE ~ (old.seen < ScanLimit /\ queue[q] # <<>>)
    <3> DEFINE y == [old EXCEPT !.pc = "keep"]
    <3>1. sweep' = [sweep EXCEPT ![m] = y] /\ UNCHANGED queue
      BY <1>4, <2>3 DEF SweepPop
    <3>2. /\ y.pc = "keep" /\ y.hand = old.hand
          /\ y.keep = old.keep /\ y.requeue = old.requeue
      BY <1>1 DEF SweepState
    <3> HIDE DEF y
    <3>3. Tidy(y) /\ \A t \in Tasks : Carries(y, t) <=> Carries(old, t)
      BY <2>1, <3>2 DEF Tidy, Carries
    <3>. QED
      BY <2>1, <3>1, <3>3, PassMoves DEF Recorded
  <2>. QED
    BY <2>2, <2>3
<1>5. CASE SweepLoad(m)
  <2> DEFINE t == old.hand
             back == [old EXCEPT !.pc = "pop", !.hand = NoTask]
             keeping == [back EXCEPT !.keep = Append(@, t)]
             requeuing == [back EXCEPT !.requeue = Append(@, t)]
  <2>1. /\ old.pc = "load" /\ t \in Tasks
        /\ UNCHANGED <<status, queue, submit, worker, dropped>>
    BY <1>1, <1>5 DEF SweepLoad, store, budget
  <2>2. \/ sweep' = [sweep EXCEPT ![m] = back] /\ status[t] = "absent"
        \/ sweep' = [sweep EXCEPT ![m] = keeping]
        \/ sweep' = [sweep EXCEPT ![m] = requeuing]
    BY <1>5 DEF SweepLoad
  <2>3. /\ back.pc = "pop" /\ back.hand = NoTask
        /\ back.keep = old.keep /\ back.requeue = old.requeue
        /\ keeping.pc = "pop" /\ keeping.hand = NoTask
        /\ keeping.keep = Append(old.keep, t) /\ keeping.requeue = old.requeue
        /\ requeuing.pc = "pop" /\ requeuing.hand = NoTask
        /\ requeuing.keep = old.keep /\ requeuing.requeue = Append(old.requeue, t)
    BY <1>1 DEF SweepState
  <2>4. /\ ToSet(Append(old.keep, t)) = ToSet(old.keep) \cup {t}
        /\ ToSet(Append(old.requeue, t)) = ToSet(old.requeue) \cup {t}
    BY <1>1, <2>1, MembersAppend
  <2>5. Tidy(back) /\ Tidy(keeping) /\ Tidy(requeuing)
    BY <2>3 DEF Tidy
  <2>6. \A u \in Tasks :
          /\ Carries(back, u) => Carries(old, u)
          /\ Carries(old, u) => Carries(back, u) \/ u = t
          /\ Carries(keeping, u) <=> Carries(old, u)
          /\ Carries(requeuing, u) <=> Carries(old, u)
    BY <1>2, <2>3, <2>4 DEF Carries
  <2> HIDE DEF back, keeping, requeuing
  <2>7. CASE sweep' = [sweep EXCEPT ![m] = back] /\ status[t] = "absent"
    BY <2>1, <2>5, <2>6, <2>7, PassMoves DEF Recorded
  <2>8. CASE sweep' = [sweep EXCEPT ![m] = keeping]
    BY <2>1, <2>5, <2>6, <2>8, PassMoves DEF Recorded
  <2>9. CASE sweep' = [sweep EXCEPT ![m] = requeuing]
    BY <2>1, <2>5, <2>6, <2>9, PassMoves DEF Recorded
  <2>. QED
    BY <2>2, <2>7, <2>8, <2>9
<1>6. CASE SweepKeep(m)
  <2> DEFINE q == old.of
  <2>1. /\ old.pc = "keep" /\ q \in Queues /\ queue[q] \in Seq(Tasks)
        /\ old.hand = NoTask
        /\ UNCHANGED <<status, submit, worker, dropped>>
    BY <1>1, <1>6 DEF SweepKeep, QueueOK, Tidy, store, budget
  <2>2. CASE old.keep # <<>>
    <3> DEFINE x == Last(old.keep)
               y == [old EXCEPT !.keep = Front(@)]
    <3>1. /\ queue' = [queue EXCEPT ![q] = <<x>> \o queue[q]]
          /\ sweep' = [sweep EXCEPT ![m] = y]
      BY <1>6, <2>2 DEF SweepKeep
    <3>2. x \in Tasks /\ ToSet(old.keep) = ToSet(Front(old.keep)) \cup {x}
      BY <1>1, <2>2, LastFrontType, MembersLast
    <3>3. ToSet(<<x>> \o queue[q]) = ToSet(queue[q]) \cup {x}
      BY <2>1, <3>2, MembersPrepend
    <3>4. /\ y.pc = "keep" /\ y.hand = NoTask
          /\ y.keep = Front(old.keep) /\ y.requeue = old.requeue
      BY <1>1, <2>1 DEF SweepState
    <3> HIDE DEF x, y, q
    <3>5. Tidy(y)
      BY <3>4 DEF Tidy
    <3>6. \A t \in Tasks : Carries(old, t) <=> Carries(y, t) \/ t = x
      BY <1>2, <2>1, <3>2, <3>4 DEF Carries
    <3>. QED
      BY <2>1, <3>1, <3>2, <3>3, <3>5, <3>6, PassPushes
  <2>3. CASE old.keep = <<>>
    <3> DEFINE y == [old EXCEPT !.pc = "unpin"]
    <3>1. sweep' = [sweep EXCEPT ![m] = y] /\ UNCHANGED queue
      BY <1>6, <2>3 DEF SweepKeep
    <3>2. /\ y.pc = "unpin" /\ y.hand = old.hand
          /\ y.keep = old.keep /\ y.requeue = old.requeue
      BY <1>1 DEF SweepState
    <3> HIDE DEF y
    <3>3. Tidy(y) /\ \A t \in Tasks : Carries(y, t) <=> Carries(old, t)
      BY <2>1, <2>3, <3>2 DEF Tidy, Carries
    <3>. QED
      BY <2>1, <3>1, <3>3, PassMoves DEF Recorded
  <2>. QED
    BY <2>2, <2>3
<1>7. CASE SweepUnpin(m)
  <2>1. /\ old.pc = "unpin"
        /\ UNCHANGED <<status, queue, submit, worker, dropped>>
    BY <1>7 DEF SweepUnpin, budget
  <2>2. CASE old.requeue # <<>>
    <3> DEFINE y == [old EXCEPT !.pc = "push"]
    <3>1. sweep' = [sweep EXCEPT ![m] = y]
      BY <1>7, <2>2 DEF SweepUnpin, SweepOK
    <3>2. /\ y.pc = "push" /\ y.hand = old.hand
          /\ y.keep = old.keep /\ y.requeue = old.requeue
      BY <1>1 DEF SweepState
    <3> HIDE DEF y
    <3>3. Tidy(y) /\ \A t \in Tasks : Carries(y, t) <=> Carries(old, t)
      BY <1>1, <2>1, <3>2 DEF Tidy, Carries
    <3>. QED
      BY <2>1, <3>1, <3>3, PassMoves DEF Recorded
  <2>3. CASE old.requeue = <<>>
    <3>1. sweep' = [sweep EXCEPT ![m] = Resting]
      BY <1>7, <2>3 DEF SweepUnpin
    <3>2. \A t \in Tasks : ~ Carries(old, t)
      BY <1>1, <1>2, <2>1, <2>3, MembersEmpty DEF Tidy, Carries
    <3>. QED
      BY <2>1, <3>1, <3>2, RestingCarries, PassMoves DEF Recorded
  <2>. QED
    BY <2>2, <2>3
<1>8. CASE SweepPush(m)
  <2> DEFINE x == Head(old.requeue)
             y == [old EXCEPT !.pc = "unpin", !.requeue = Tail(@)]
  <2>1. /\ old.pc = "push" /\ old.requeue # <<>>
        /\ sweep' = [sweep EXCEPT ![m] = y]
        /\ queue' = [queue EXCEPT ![PrioOf[x]] = Append(queue[PrioOf[x]], x)]
        /\ UNCHANGED <<status, submit, worker, dropped>>
    BY <1>1, <1>8 DEF SweepPush, store, budget
  <2>2. x \in Tasks /\ ToSet(old.requeue) = ToSet(Tail(old.requeue)) \cup {x}
    BY <1>1, <2>1, HeadTailType, MembersHead
  <2>3. PrioOf[x] \in Queues
    BY <2>2, BrokerAssumption DEF Queues
  <2>4. /\ y.pc = "unpin" /\ y.hand = old.hand
        /\ y.keep = old.keep /\ y.requeue = Tail(old.requeue)
    BY <1>1 DEF SweepState
  <2> HIDE DEF x, y
  <2>5. ToSet(Append(queue[PrioOf[x]], x)) = ToSet(queue[PrioOf[x]]) \cup {x}
    BY <1>1, <2>2, <2>3, MembersAppend DEF QueueOK
  <2>6. Tidy(y) /\ \A t \in Tasks : Carries(old, t) <=> Carries(y, t) \/ t = x
    BY <1>1, <2>1, <2>2, <2>4 DEF Tidy, Carries
  <2>. QED
    BY <2>1, <2>2, <2>3, <2>5, <2>6, PassPushes
<1>9. CASE SweepFault(m)
  <2>1. /\ sweep' = [sweep EXCEPT ![m] = Resting]
        /\ dropped' = dropped \cup (({old.hand} \cup ToSet(old.keep)
                                       \cup ToSet(old.requeue)) \ {NoTask})
        /\ UNCHANGED <<status, queue, submit, worker>>
    BY <1>9 DEF SweepFault, Fault, store
  <2>2. Recorded /\ \A t \in Tasks : Carries(old, t) => t \in dropped'
    BY <1>2, <2>1 DEF Recorded, Carries
  <2>. QED
    BY <2>1, <2>2, RestingCarries, PassMoves
<1>10. CASE RequeueError(m)
  <2> DEFINE x == Head(old.requeue)
             y == [old EXCEPT !.pc = "unpin", !.requeue = Tail(@)]
  <2>1. /\ old.pc \in {"unpin", "push"} /\ old.requeue # <<>>
        /\ sweep' = [sweep EXCEPT ![m] = y]
        /\ dropped' = dropped \cup ({x} \ {NoTask})
        /\ UNCHANGED <<status, queue, submit, worker>>
    BY <1>1, <1>10 DEF RequeueError, Fault, store
  <2>2. x \in Tasks /\ ToSet(old.requeue) = ToSet(Tail(old.requeue)) \cup {x}
    BY <1>1, <2>1, HeadTailType, MembersHead
  <2>3. /\ y.pc = "unpin" /\ y.hand = old.hand
        /\ y.keep = old.keep /\ y.requeue = Tail(old.requeue)
    BY <1>1 DEF SweepState
  <2> HIDE DEF x, y
  <2>4. x \in dropped' /\ Recorded
    BY <1>2, <2>1, <2>2 DEF Recorded
  <2>5. Tidy(y) /\ \A t \in Tasks : Carries(old, t) <=> Carries(y, t) \/ t = x
    BY <1>1, <2>1, <2>2, <2>3 DEF Tidy, Carries
  <2>. QED
    BY <2>1, <2>4, <2>5, PassMoves
<1>. QED
  BY <1>3, <1>4, <1>5, <1>6, <1>7, <1>8, <1>9, <1>10 DEF SweepStep

-----------------------------------------------------------------------------
LEMMA HeldInit == Init => HeldInv
<1> SUFFICES ASSUME Init PROVE HeldInv
  OBVIOUS
<1>1. LoopHands
  BY DEF Init, LoopHands, Idle
<1>2. PassHands
  BY DEF Init, PassHands, Tidy, Resting
<1>3. Known = {}
  BY DEF Init, Known
<1>4. NoTaskLost
  BY <1>3 DEF NoTaskLost
<1>5. \A t \in Tasks : ~ Has(t)
  <2>1. SUFFICES ASSUME NEW t \in Tasks PROVE ~ Has(t)
    OBVIOUS
  <2>2. ~ InLists(t)
    BY MembersEmpty DEF Init, InLists
  <2>3. ~ InPasses(t)
    BY RestingCarries DEF Init, InPasses
  <2>4. ~ InRequests(t)
    BY DEF Init, InRequests
  <2>5. ~ InLoops(t)
    BY <1>1, BrokerAssumption DEF Init, InLoops, LoopHands, Idle
  <2>. QED
    BY <2>2, <2>3, <2>4, <2>5 DEF Has
<1>6. HeldIsKnown
  BY <1>5, HeldHas, HeldTasks, TypeInit DEF HeldIsKnown
<1>. QED
  BY <1>1, <1>2, <1>4, <1>6 DEF HeldInv

LEMMA StepAccounted == TypeOK /\ AnswerInv /\ HeldInv /\ [Next]_vars => StepOK
<1> SUFFICES ASSUME TypeOK, AnswerInv, HeldInv, [Next]_vars
             PROVE  StepOK
  OBVIOUS
<1>1. CASE UNCHANGED vars
  BY <1>1, NothingMoves DEF vars
<1>2. CASE Next
  BY <1>2, HeldRequest, HeldLoop, HeldRestart, HeldStop, HeldCancel, HeldPass
     DEF Next, WorkerFault
<1>. QED
  BY <1>1, <1>2

LEMMA HeldHasNext ==
  ASSUME NEW t \in Tasks
  PROVE  t \in Held' <=> Has(t)'
<1>1. t # NoTask
  BY BrokerAssumption
<1>2. t \in Queued' <=> InLists(t)'
  BY DEF Queued, InLists
<1>3. t \in Swept' <=> InPasses(t)'
  BY DEF Swept, InPasses, Carries
<1>4. t \in Pushing' <=> InRequests(t)'
  BY DEF Pushing, InRequests
<1>5. t \in Running' <=> InLoops(t)'
  BY DEF Running, InLoops
<1>. QED
  BY <1>1, <1>2, <1>3, <1>4, <1>5 DEF Held, Has

\* The same after a step.
LEMMA HeldTasksNext == TypeOK' => Held' \subseteq Tasks
<1> SUFFICES ASSUME TypeOK'
             PROVE  Held' \subseteq Tasks
  OBVIOUS
<1>1. Queued' \subseteq Tasks
  BY MembersType DEF TypeOK, QueueOK, Queued
<1>2. Swept' \subseteq Tasks \cup {NoTask}
  <2>1. ASSUME NEW m \in Monitors
        PROVE  {sweep'[m].hand} \cup ToSet(sweep'[m].keep) \cup ToSet(sweep'[m].requeue)
                 \subseteq Tasks \cup {NoTask}
    <3>1. /\ sweep'[m].hand \in Tasks \cup {NoTask}
          /\ sweep'[m].keep \in Seq(Tasks) /\ sweep'[m].requeue \in Seq(Tasks)
      BY DEF TypeOK, SweepOK, SweepState
    <3>. QED
      BY <3>1, MembersType
  <2>. QED
    BY <2>1 DEF Swept
<1>3. Pushing' \subseteq Tasks
  BY BrokerAssumption DEF Pushing
<1>4. Running' \subseteq Tasks \cup {NoTask}
  BY DEF TypeOK, WorkerOK, WorkerState, Running
<1>. QED
  BY <1>1, <1>2, <1>3, <1>4 DEF Held

LEMMA HeldStep == TypeOK /\ AnswerInv /\ HeldInv /\ [Next]_vars => HeldInv'
<1> SUFFICES ASSUME TypeOK, AnswerInv, HeldInv, [Next]_vars
             PROVE  HeldInv'
  OBVIOUS
<1>1. StepOK
  BY StepAccounted
<1>2. Grows
  BY StoreGrows
<1>3. TypeOK'
  BY TypeStep
<1>4. Held' \subseteq Tasks
  BY <1>3, HeldTasksNext
<1>5. HeldIsKnown'
  <2>1. SUFFICES ASSUME NEW t \in Tasks, t \in Held'
                 PROVE  status'[t] # "absent"
    BY <1>4 DEF HeldIsKnown, Known
  <2>2. Has(t)'
    BY <2>1, HeldHasNext
  <2>3. CASE Has(t)
    <3>1. status[t] # "absent"
      BY <2>3, HeldHas DEF HeldInv, HeldIsKnown, Known
    <3>. QED
      BY <1>2, <3>1 DEF Grows
  <2>. QED
    BY <1>1, <2>2, <2>3 DEF StepOK, Accounted
<1>6. NoTaskLost'
  <2>1. SUFFICES ASSUME NEW t \in Tasks, status'[t] # "absent"
                 PROVE  Answered(t)' \/ t \in Held' \/ t \in dropped'
    BY DEF NoTaskLost, Known
  <2>2. CASE status[t] = "absent"
    BY <1>1, <2>1, <2>2, HeldHasNext DEF StepOK, Accounted
  <2>3. CASE status[t] # "absent"
    <3>1. Answered(t) \/ t \in Held \/ t \in dropped
      BY <2>3 DEF HeldInv, NoTaskLost, Known
    <3>2. CASE Answered(t)
      BY <1>2, <3>2, AnsweredDef, AnsweredNext DEF Grows
    <3>3. CASE t \in Held
      BY <1>1, <2>3, <3>3, HeldHas, HeldHasNext, AnsweredNext DEF StepOK, Accounted
    <3>4. CASE t \in dropped
      BY <1>1, <3>4 DEF StepOK, Recorded
    <3>. QED
      BY <3>1, <3>2, <3>3, <3>4
  <2>. QED
    BY <2>2, <2>3
<1>. QED
  BY <1>1, <1>5, <1>6 DEF HeldInv, StepOK

LEMMA BrokerHeld == Spec => []HeldInv
<1>1. Init /\ [][Next]_vars => [](TypeOK /\ AnswerInv /\ HeldInv)
  BY TypeInit, TypeStep, AnswerInit, AnswerStep, HeldInit, HeldStep, PTL
<1>. QED
  BY <1>1, PTL DEF Spec

\* An id in a list or in a hand has a task hash (submit_task writes the hash before
\* it pushes), so get_next_task and the monitor, which forget an id without one,
\* lose no task by it.
THEOREM HeldKnown == Spec => []HeldIsKnown
<1>1. HeldInv => HeldIsKnown
  BY DEF HeldInv
<1>. QED
  BY <1>1, BrokerHeld, PTL

\* However submissions, loops, shutdowns, cancellations and monitor passes
\* interleave, an accepted task has an answer, is held by somebody who brings it
\* on, or was in a hand that met a fault.
THEOREM NothingLost == Spec => []NoTaskLost
<1>1. HeldInv => NoTaskLost
  BY DEF HeldInv
<1>. QED
  BY <1>1, BrokerHeld, PTL
=============================================================================
