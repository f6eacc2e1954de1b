------------------------ MODULE TaskManagerPinProofs ------------------------
(***************************************************************************)
(* Where ids are, for every value of the broker's constants.               *)
(*                                                                         *)
(* The id of a task that was submitted once is in one place at most, once, *)
(* and its assignment fits that place.  No id has more copies than it was  *)
(* pushed times.  And tasks keep their order while a pass takes a worker's *)
(* list apart.                                                             *)
(***************************************************************************)
EXTENDS TaskManagerHeldProofs, FiniteSetTheorems, FunctionTheorems

(* An id that occurs once in a sequence. *)

OnceIn(s, t) == \A i, j \in DOMAIN s : s[i] = t /\ s[j] = t => i = j

LEMMA OnceAbsent ==
  ASSUME NEW s, NEW t, t \notin ToSet(s)
  PROVE  OnceIn(s, t)
BY DEF OnceIn, ToSet

LEMMA OnceAppend ==
  ASSUME NEW s \in Seq(Tasks), NEW x \in Tasks, NEW t, OnceIn(s, t),
         x = t => t \notin ToSet(s)
  PROVE  OnceIn(Append(s, x), t)
<1> DEFINE y == Append(s, x)
           n == Len(s)
<1>1. /\ y \in Seq(Tasks) /\ Len(y) = n + 1
      /\ \A i \in 1..n : y[i] = s[i]
      /\ y[n + 1] = x
  BY AppendProperties
<1>2. /\ DOMAIN s = 1..n /\ n \in Nat /\ DOMAIN y = 1..(n + 1)
  BY <1>1, LenProperties
<1> HIDE DEF y, n
<1>3. \A i \in DOMAIN y : i = n + 1 \/ (i \in DOMAIN s /\ y[i] = s[i])
  BY <1>1, <1>2
<1>4. \A i \in DOMAIN s : s[i] \in ToSet(s)
  BY DEF ToSet
<1>5. OnceIn(y, t)
  BY <1>1, <1>3, <1>4 DEF OnceIn
<1>. QED
  BY <1>5 DEF y

LEMMA OncePrepend ==
  ASSUME NEW s \in Seq(Tasks), NEW x \in Tasks, NEW t, OnceIn(s, t),
         x = t => t \notin ToSet(s)
  PROVE  OnceIn(<<x>> \o s, t)
<1> DEFINE y == <<x>> \o s
<1>1. /\ Len(s) \in Nat /\ DOMAIN s = 1..Len(s)
      /\ DOMAIN y = 1..(Len(s) + 1)
      /\ \A i \in 1..(Len(s) + 1) : y[i] = IF i <= 1 THEN x ELSE s[i - 1]
  <2>1. <<x>> \in Seq(Tasks) /\ Len(<<x>>) = 1 /\ <<x>>[1] = x
    OBVIOUS
  <2>2. Len(s) \in Nat /\ DOMAIN s = 1..Len(s)
    BY LenProperties
  <2>3. /\ y \in Seq(Tasks) /\ Len(y) = 1 + Len(s)
        /\ \A i \in 1..(1 + Len(s)) :
              y[i] = IF i <= 1 THEN <<x>>[i] ELSE s[i - 1]
    BY <2>1, ConcatProperties
  <2>4. DOMAIN y = 1..(Len(s) + 1)
    BY <2>2, <2>3, LenProperties
  <2>5. \A i \in 1..(Len(s) + 1) : i <= 1 => i = 1
    BY <2>2
  <2>. QED
    BY <2>1, <2>2, <2>3, <2>4, <2>5
<1> HIDE DEF y
<1>2. \A i \in DOMAIN y :
         (i = 1 /\ y[i] = x) \/ (i - 1 \in DOMAIN s /\ y[i] = s[i - 1])
  BY <1>1
<1>3. \A i, j \in DOMAIN y : i - 1 = j - 1 => i = j
  BY <1>1
<1>4. \A i \in DOMAIN s : s[i] \in ToSet(s)
  BY DEF ToSet
<1>5. OnceIn(y, t)
  BY <1>2, <1>3, <1>4 DEF OnceIn
<1>. QED
  BY <1>5 DEF y

LEMMA OnceTail ==
  ASSUME NEW s \in Seq(Tasks), s # <<>>, NEW t, OnceIn(s, t)
  PROVE  OnceIn(Tail(s), t) /\ (Head(s) = t => t \notin ToSet(Tail(s)))
<1>1. /\ Len(s) \in Nat \ {0} /\ DOMAIN s = 1..Len(s) /\ Head(s) = s[1]
      /\ DOMAIN Tail(s) = 1..(Len(s) - 1)
      /\ \A i \in 1..(Len(s) - 1) : Tail(s)[i] = s[i + 1]
  BY HeadTailProperties, EmptySeq, LenProperties
<1>2. \A i \in DOMAIN Tail(s) : i + 1 \in DOMAIN s /\ Tail(s)[i] = s[i + 1] /\ i + 1 # 1
  BY <1>1
<1>3. \A i, j \in DOMAIN Tail(s) : i + 1 = j + 1 => i = j
  BY <1>1
<1>4. 1 \in DOMAIN s
  BY <1>1
<1>5. OnceIn(Tail(s), t)
  BY <1>2, <1>3 DEF OnceIn
<1>6. Head(s) = t => t \notin ToSet(Tail(s))
  BY <1>1, <1>2, <1>4 DEF OnceIn, ToSet
<1>. QED
  BY <1>5, <1>6

LEMMA OnceFront ==
  ASSUME NEW s \in Seq(Tasks), s # <<>>, NEW t, OnceIn(s, t)
  PROVE  OnceIn(Front(s), t) /\ (Last(s) = t => t \notin ToSet(Front(s)))
<1> DEFINE n == Len(s) - 1
<1>1. Len(s) \in Nat \ {0} /\ DOMAIN s = 1..Len(s) /\ Last(s) = s[Len(s)]
  BY EmptySeq, LenProperties DEF Last
<1>2. 1 \in 1..(Len(s) + 1) /\ n \in (1 - 1)..Len(s)
  BY <1>1
<1>3. Front(s) = SubSeq(s, 1, n)
  BY DEF Front
<1>4. n \in Nat /\ n + 1 = Len(s)
  BY <1>1
<1> HIDE DEF n
<1>5. /\ SubSeq(s, 1, n) \in Seq(Tasks) /\ Len(SubSeq(s, 1, n)) = n - 1 + 1
      /\ \A i \in 1..(n - 1 + 1) : SubSeq(s, 1, n)[i] = s[1 + i - 1]
  BY <1>2, SubSeqProperties
<1>6. DOMAIN SubSeq(s, 1, n) = 1..Len(SubSeq(s, 1, n))
  BY <1>5, LenProperties
<1>7. n - 1 + 1 = n /\ \A i \in 1..n : 1 + i - 1 = i
  BY <1>4
<1>8. DOMAIN Front(s) = 1..n /\ \A i \in 1..n : Front(s)[i] = s[i]
  BY <1>3, <1>5, <1>6, <1>7
<1>9. \A i \in DOMAIN Front(s) : i \in DOMAIN s /\ i # n + 1 /\ Front(s)[i] = s[i]
  BY <1>1, <1>4, <1>8
<1>10. n + 1 \in DOMAIN s /\ Last(s) = s[n + 1]
  BY <1>1, <1>4
<1>11. OnceIn(Front(s), t)
  BY <1>9 DEF OnceIn
<1>12. Last(s) = t => t \notin ToSet(Front(s))
  BY <1>9, <1>10 DEF OnceIn, ToSet
<1>. QED
  BY <1>11, <1>12

-----------------------------------------------------------------------------
(* The invariant, for one task. *)

\* No two requests for t have begun.
Single(t) == \A r, o \in {x \in Requests : TaskOf[x] = t /\ submit[x] # "new"} : r = o
Sent(t) == \E r \in Requests : TaskOf[r] = t /\ submit[r] = "done"

\* The places: lists, passes and loops.
At(q, t) == t \in ToSet(queue[q])
In(m, t) == Carries(sweep[m], t)
On(w, t) == worker[w].task = t
Placed(t) == \/ \E q \in Queues : At(q, t)
             \/ \E m \in Monitors : In(m, t)
             \/ \E w \in Workers : On(w, t)

\* t is in one place at most, ...
Alone(t) ==
  /\ \A p, q \in Queues : At(p, t) /\ At(q, t) => p = q
  /\ \A m, n \in Monitors : In(m, t) /\ In(n, t) => m = n
  /\ \A v, w \in Workers : On(v, t) /\ On(w, t) => v = w
  /\ \A q \in Queues, m \in Monitors : ~ (At(q, t) /\ In(m, t))
  /\ \A q \in Queues, w \in Workers : ~ (At(q, t) /\ On(w, t))
  /\ \A m \in Monitors, w \in Workers : ~ (In(m, t) /\ On(w, t))

\* ... there once, ...
OncePass(x, t) == /\ OnceIn(x.keep, t) /\ OnceIn(x.requeue, t)
                  /\ x.hand = t => t \notin ToSet(x.keep) \cup ToSet(x.requeue)
                  /\ t \in ToSet(x.keep) => t \notin ToSet(x.requeue)
Once(t) == /\ \A q \in Queues : OnceIn(queue[q], t)
           /\ \A m \in Monitors : OncePass(sweep[m], t)

\* ... and its assignment p fits: a pass has what it popped from the list of its
\* worker, until it has cleared the assignment and is about to push the id.
FitsPass(x, t, p) == /\ x.hand = t \/ t \in ToSet(x.keep) => p = x.of
                     /\ x.pc = "push" /\ Head(x.requeue) = t => p = Nobody
Pinned(t) ==
  /\ \A w \in Workers : At(w, t) => pin[t] = w
  /\ \A p \in Priorities : At(p, t) => pin[t] = Nobody
  /\ \A w \in Workers : On(w, t) => pin[t] \in {w, Nobody}
  /\ \A m \in Monitors : FitsPass(sweep[m], t, pin[t])

\* It is nowhere before its push, which reads what the hash was given.
Sending(t) == /\ Placed(t) => Sent(t)
              /\ \A r \in Requests :
                    TaskOf[r] = t /\ submit[r] = "push" => pin[t] = PinOf[t]

Sole(t) == Alone(t) /\ Once(t) /\ Pinned(t) /\ Sending(t)
SoleInv == \A t \in Tasks : Single(t) => Sole(t)

-----------------------------------------------------------------------------
(* Steps that bring t nowhere: its places shrink, its assignment stays. *)

ListsShrink(t) ==
  \A q \in Queues : (At(q, t)' => At(q, t)) /\ OnceIn(queue'[q], t)
PassesShrink(t) ==
  \A m \in Monitors : /\ In(m, t)' => In(m, t)
                      /\ OncePass(sweep'[m], t) /\ FitsPass(sweep'[m], t, pin'[t])
LoopsShrink(t) == \A w \in Workers : On(w, t)' => On(w, t)
SendsStay(t) == \A r \in Requests : TaskOf[r] = t =>
                   /\ submit[r] = "done" => submit'[r] = "done"
                   /\ submit'[r] = "push" => submit[r] = "push"

LEMMA Shrinks ==
  ASSUME NEW t, Sole(t), ListsShrink(t), PassesShrink(t), LoopsShrink(t),
         SendsStay(t), pin'[t] = pin[t]
  PROVE  Sole(t)'
<1>1. Alone(t)'
  BY DEF Sole, Alone, ListsShrink, PassesShrink, LoopsShrink
<1>2. Once(t)'
  BY DEF Once, ListsShrink, PassesShrink
<1>3. Pinned(t)'
  BY DEF Sole, Pinned, ListsShrink, PassesShrink, LoopsShrink, Queues
<1>4. Placed(t)' => Placed(t)
  BY DEF Placed, ListsShrink, PassesShrink, LoopsShrink
<1>5. Sent(t) => Sent(t)'
  BY DEF Sent, SendsStay
<1>6. Sending(t)'
  BY <1>4, <1>5 DEF Sole, Sending, SendsStay
<1>. QED
  BY <1>1, <1>2, <1>3, <1>6 DEF Sole

LEMMA ListsSame == ASSUME NEW t, Sole(t), UNCHANGED queue
                   PROVE  ListsShrink(t)
BY DEF Sole, Once, ListsShrink, At

LEMMA PassesSame == ASSUME NEW t, Sole(t), UNCHANGED sweep, pin'[t] = pin[t]
                    PROVE  PassesShrink(t)
BY DEF Sole, Once, Pinned, PassesShrink, In

LEMMA LoopsSame == ASSUME NEW t, UNCHANGED worker
                   PROVE  LoopsShrink(t)
BY DEF LoopsShrink, On

LEMMA SendsSame == ASSUME NEW t, UNCHANGED submit
                   PROVE  SendsStay(t)
BY DEF SendsStay

LEMMA ListSet ==
  ASSUME NEW t, Sole(t), QueueOK, NEW q \in Queues, NEW s,
         queue' = [queue EXCEPT ![q] = s],
         t \in ToSet(s) => At(q, t), OnceIn(s, t)
  PROVE  ListsShrink(t)
<1>1. queue'[q] = s /\ \A p \in Queues : p # q => queue'[p] = queue[p]
  BY DEF QueueOK
<1>. QED
  BY <1>1 DEF Sole, Once, ListsShrink, At

LEMMA PassSet ==
  ASSUME NEW t, Sole(t), SweepOK, NEW m \in Monitors, NEW y,
         sweep' = [sweep EXCEPT ![m] = y], pin'[t] = pin[t],
         Carries(y, t) => In(m, t), OncePass(y, t), FitsPass(y, t, pin[t])
  PROVE  PassesShrink(t)
<1>1. sweep'[m] = y /\ \A n \in Monitors : n # m => sweep'[n] = sweep[n]
  BY DEF SweepOK
<1>. QED
  BY <1>1 DEF Sole, Once, Pinned, PassesShrink, In

LEMMA LoopSet ==
  ASSUME NEW t, WorkerOK, NEW w \in Workers, NEW y,
         worker' = [worker EXCEPT ![w] = y], y.task = t => On(w, t)
  PROVE  LoopsShrink(t)
<1>1. worker'[w] = y /\ \A v \in Workers : v # w => worker'[v] = worker[v]
  BY DEF WorkerOK
<1>. QED
  BY <1>1 DEF LoopsShrink, On

-----------------------------------------------------------------------------
(* Steps that bring t somewhere, where it is then alone. *)

\* A pass that does not carry t says nothing about it.
LEMMA AbsentPass ==
  ASSUME NEW x, SweepRecord(x), NEW t, ~ Carries(x, t), NEW p
  PROVE  OncePass(x, t) /\ FitsPass(x, t, p)
<1>1. x.pc = "push" => Head(x.requeue) \in ToSet(x.requeue)
  BY MembersHead DEF SweepRecord, SweepState
<1>. QED
  BY <1>1, OnceAbsent DEF OncePass, FitsPass, Carries

\* Once the id was pushed, no request of it has a push before it.
LEMMA SentIsSent ==
  ASSUME NEW t, Single(t)', Sent(t)'
  PROVE  Sending(t)'
BY DEF Single, Sent, Sending

LEMMA LandsInList ==
  ASSUME NEW t, SweepOK', Single(t)', Sent(t)', NEW q \in Queues,
         \A p \in Queues : (At(p, t)' => p = q) /\ OnceIn(queue'[p], t),
         \A m \in Monitors : ~ In(m, t)', \A w \in Workers : ~ On(w, t)',
         q \in Workers => pin'[t] = q, q \in Priorities => pin'[t] = Nobody
  PROVE  Sole(t)'
<1>1. \A m \in Monitors : OncePass(sweep'[m], t) /\ FitsPass(sweep'[m], t, pin'[t])
  <2>1. \A m \in Monitors : SweepRecord(sweep'[m]) /\ ~ Carries(sweep'[m], t)
    BY DEF SweepOK, SweepRecord, In
  <2>. QED
    BY <2>1, AbsentPass
<1>2. Alone(t)'
  BY DEF Alone
<1>3. Once(t)' /\ Pinned(t)'
  BY <1>1 DEF Once, Pinned, Queues
<1>. QED
  BY <1>2, <1>3, SentIsSent DEF Sole

LEMMA LandsInLoop ==
  ASSUME NEW t, SweepOK', Single(t)', Sent(t)', NEW v \in Workers,
         \A p \in Queues : ~ At(p, t)', \A m \in Monitors : ~ In(m, t)',
         \A w \in Workers : On(w, t)' => w = v, pin'[t] \in {v, Nobody}
  PROVE  Sole(t)'
<1>1. \A m \in Monitors : OncePass(sweep'[m], t) /\ FitsPass(sweep'[m], t, pin'[t])
  <2>1. \A m \in Monitors : SweepRecord(sweep'[m]) /\ ~ Carries(sweep'[m], t)
    BY DEF SweepOK, SweepRecord, In
  <2>. QED
    BY <2>1, AbsentPass
<1>2. Alone(t)'
  BY DEF Alone
<1>3. \A p \in Queues : OnceIn(queue'[p], t)
  BY OnceAbsent DEF At
<1>4. Once(t)' /\ Pinned(t)'
  BY <1>1, <1>3 DEF Once, Pinned, Queues
<1>. QED
  BY <1>2, <1>4, SentIsSent DEF Sole

LEMMA LandsInPass ==
  ASSUME NEW t, SweepOK', Single(t)', Sent(t)', NEW n \in Monitors,
         \A p \in Queues : ~ At(p, t)', \A m \in Monitors : In(m, t)' => m = n,
         \A w \in Workers : ~ On(w, t)',
         OncePass(sweep'[n], t), FitsPass(sweep'[n], t, pin'[t])
  PROVE  Sole(t)'
<1>1. \A m \in Monitors : OncePass(sweep'[m], t) /\ FitsPass(sweep'[m], t, pin'[t])
  <2>1. \A m \in Monitors : SweepRecord(sweep'[m]) /\ (m # n => ~ Carries(sweep'[m], t))
    BY DEF SweepOK, SweepRecord, In
  <2>. QED
    BY <2>1, AbsentPass
<1>2. Alone(t)'
  BY DEF Alone
<1>3. \A p \in Queues : OnceIn(queue'[p], t)
  BY OnceAbsent DEF At
<1>4. Once(t)' /\ Pinned(t)'
  BY <1>1, <1>3 DEF Once, Pinned, Queues
<1>. QED
  BY <1>2, <1>4, SentIsSent DEF Sole

-----------------------------------------------------------------------------
(* Each step keeps what it should of a task that was submitted once. *)

\* No request begins twice.
LEMMA SinglePast ==
  ASSUME TypeOK, [Next]_vars, NEW t, Single(t)'
  PROVE  Single(t)
<1>1. SubmitOK
  BY DEF TypeOK
<1>2. ASSUME NEW r \in Requests, RequestStep(r) \/ SubmitFault(r)
      PROVE  \A o \in Requests : submit[o] # "new" => submit'[o] # "new"
  <2>1. PICK y \in {"create", "existing", "push", "done", "dead"} :
           submit' = [submit EXCEPT ![r] = y]
    BY <1>2 DEF RequestStep, SubmitCheck, SubmitCreate, SubmitPush, SubmitFault
  <2>. QED
    BY <1>1, <2>1 DEF SubmitOK
<1>3. CASE UNCHANGED submit
  BY <1>3 DEF Single
<1>4. ASSUME NEW w \in Workers, \/ LoopStep(w) \/ StopStep(w) \/ Restart(w)
                                \/ Expire(w) \/ WorkerFault(w)
      PROVE  UNCHANGED submit
  BY <1>4 DEF LoopStep, StopStep, WorkerFault, Take, Miss, Load, Start, Run,
              CompleteValue, CompleteStatus, Stop, StopError, StopStatus, Restart,
              Expire, WorkerCrash, LoopError, CompleteError, StopFault
<1>5. ASSUME NEW c \in Cancels, CancelStep(c) \/ CancelFault(c)
      PROVE  UNCHANGED submit
  BY <1>5 DEF CancelStep, CancelCheck, CancelError, CancelStatus, CancelFault
<1>6. ASSUME NEW m \in Monitors, SweepStep(m) \/ SweepFault(m) \/ RequeueError(m)
      PROVE  UNCHANGED submit
  BY <1>6 DEF SweepStep, SweepBegin, SweepPop, SweepLoad, SweepKeep, SweepUnpin,
              SweepPush, SweepFault, RequeueError
<1>7. CASE UNCHANGED vars
  BY <1>3, <1>7 DEF vars
<1>8. ASSUME \A o \in Requests : submit[o] # "new" => submit'[o] # "new"
      PROVE  Single(t)
  BY <1>8 DEF Single
<1>. QED
  BY <1>2, <1>3, <1>4, <1>5, <1>6, <1>7, <1>8 DEF Next

\* Before its push is done, a task that is sent once is nowhere.
LEMMA Unsent ==
  ASSUME NEW t, Single(t), Sole(t), NEW r \in Requests, TaskOf[r] = t,
         submit[r] \in {"create", "push"}
  PROVE  ~ Placed(t)
<1>1. ~ Sent(t)
  BY DEF Single, Sent
<1>. QED
  BY <1>1 DEF Sole, Sending

LEMMA SoleRequest ==
  ASSUME TypeOK, TypeOK', NEW t \in Tasks, Single(t), Sole(t), Single(t)',
         NEW r \in Requests, RequestStep(r) \/ SubmitFault(r)
  PROVE  Sole(t)'
<1>1. /\ SubmitOK /\ QueueOK /\ PinOK /\ SweepOK /\ SweepOK' /\ PinOK'
      /\ TaskOf[r] \in Tasks
  BY BrokerAssumption DEF TypeOK
<1>2. ASSUME NEW y, submit' = [submit EXCEPT ![r] = y],
             TaskOf[r] = t => submit[r] # "done" /\ y # "push"
      PROVE  SendsStay(t)
  BY <1>1, <1>2 DEF SubmitOK, SendsStay
<1>3. UNCHANGED <<sweep, worker>>
  BY DEF RequestStep, SubmitCheck, SubmitCreate, SubmitPush, SubmitFault
<1>4. LoopsShrink(t) /\ (pin'[t] = pin[t] => PassesShrink(t))
  BY <1>3, LoopsSame, PassesSame
<1>5. CASE SubmitCheck(r) \/ SubmitFault(r)
  <2>1. UNCHANGED <<queue, pin>>
    BY <1>5 DEF SubmitCheck, SubmitFault, store
  <2>2. SendsStay(t)
    BY <1>2, <1>5 DEF SubmitCheck, SubmitFault
  <2>. QED
    BY <1>4, <2>1, <2>2, ListsSame, Shrinks
<1>6. CASE SubmitCreate(r)
  <2>1. /\ submit[r] = "create" /\ submit' = [submit EXCEPT ![r] = "push"]
        /\ pin' = [pin EXCEPT ![TaskOf[r]] = PinOf[TaskOf[r]]] /\ UNCHANGED queue
    BY <1>6 DEF SubmitCreate
  <2>2. CASE TaskOf[r] # t
    <3>1. pin'[t] = pin[t] /\ SendsStay(t)
      BY <1>1, <1>2, <2>1, <2>2 DEF PinOK
    <3>. QED
      BY <1>4, <2>1, <3>1, ListsSame, Shrinks
  <2>3. CASE TaskOf[r] = t
    <3>1. /\ \A q \in Queues : ~ At(q, t)
          /\ \A m \in Monitors : ~ In(m, t)
          /\ \A w \in Workers : ~ On(w, t)
      BY <2>1, <2>3, Unsent DEF Placed
    <3>2. /\ \A q \in Queues : ~ At(q, t)'
          /\ \A m \in Monitors : ~ In(m, t)'
          /\ \A w \in Workers : ~ On(w, t)'
      BY <1>3, <2>1, <3>1 DEF At, In, On
    <3>3. \A m \in Monitors :
             OncePass(sweep'[m], t) /\ FitsPass(sweep'[m], t, pin'[t])
      <4>1. \A m \in Monitors : SweepRecord(sweep'[m]) /\ ~ Carries(sweep'[m], t)
        BY <1>1, <3>2 DEF SweepOK, SweepRecord, In
      <4>. QED
        BY <4>1, AbsentPass
    <3>4. \A q \in Queues : OnceIn(queue'[q], t)
      BY <3>2, OnceAbsent DEF At
    <3>5. pin'[t] = PinOf[t]
      BY <1>1, <2>1, <2>3 DEF PinOK
    <3>6. Alone(t)' /\ Once(t)' /\ Pinned(t)'
      BY <3>2, <3>3, <3>4 DEF Alone, Once, Pinned, Queues
    <3>7. Sending(t)'
      BY <3>2, <3>5 DEF Sending, Placed
    <3>. QED
      BY <3>6, <3>7 DEF Sole
  <2>. QED
    BY <2>2, <2>3
<1>7. CASE SubmitPush(r)
  <2> DEFINE x == TaskOf[r]
             q == IF PinOf[x] = Nobody THEN PrioOf[x] ELSE PinOf[x]
             s == Append(queue[q], x)
  <2>1. /\ submit[r] = "push" /\ submit' = [submit EXCEPT ![r] = "done"]
        /\ queue' = [queue EXCEPT ![q] = s] /\ UNCHANGED pin
    BY <1>7 DEF SubmitPush, store
  <2>2. /\ q \in Queues
        /\ q \in Workers => PinOf[x] = q
        /\ q \in Priorities => PinOf[x] = Nobody
    BY <1>1, BrokerAssumption DEF Queues
  <2>3. queue[q] \in Seq(Tasks)
    BY <1>1, <2>2 DEF QueueOK
  <2>4. ToSet(s) = ToSet(queue[q]) \cup {x}
    BY <1>1, <2>3, MembersAppend
  <2>5. x = t => ~ At(q, t)
    BY <2>1, <2>2, Unsent DEF Placed
  <2>6. OnceIn(s, t)
    <3>1. OnceIn(queue[q], t)
      BY <2>2 DEF Sole, Once
    <3>. QED
      BY <1>1, <2>3, <2>5, <3>1, OnceAppend DEF At
  <2>7. /\ queue'[q] = s /\ \A p \in Queues : p # q => queue'[p] = queue[p]
    BY <1>1, <2>1, <2>2 DEF QueueOK
  <2> HIDE DEF q, s
  <2>8. CASE x # t
    <3>1. ListsShrink(t)
      BY <1>1, <2>1, <2>2, <2>4, <2>6, <2>8, ListSet DEF At
    <3>2. SendsStay(t)
      BY <1>2, <2>1, <2>8
    <3>. QED
      BY <1>4, <2>1, <3>1, <3>2, Shrinks
  <2>9. CASE x = t
    <3>1. /\ \A p \in Queues : ~ At(p, t)
          /\ \A m \in Monitors : ~ In(m, t)
          /\ \A w \in Workers : ~ On(w, t)
      BY <2>1, <2>9, Unsent DEF Placed
    <3>2. \A p \in Queues : (At(p, t)' => p = q) /\ OnceIn(queue'[p], t)
      BY <2>6, <2>7, <3>1, OnceAbsent DEF At
    <3>3. /\ \A m \in Monitors : ~ In(m, t)'
          /\ \A w \in Workers : ~ On(w, t)'
      BY <1>3, <3>1 DEF In, On
    <3>4. Sent(t)'
      BY <1>1, <2>1, <2>9 DEF Sent, SubmitOK
    <3>5. pin'[t] = PinOf[t]
      BY <2>1, <2>9 DEF Sole, Sending
    <3>. QED
      BY <1>1, <2>2, <2>9, <3>2, <3>3, <3>4, <3>5, LandsInList
  <2>. QED
    BY <2>8, <2>9
<1>. QED
  BY <1>5, <1>6, <1>7 DEF RequestStep

\* A worker pops from its own list or a shared one.
LEMMA ScannedOwn ==
  ASSUME NEW w \in Workers, worker[w].at \in 1..4
  PROVE  Scanned(w) \in {w} \cup Priorities
BY DEF Scanned, ScanOrder, Priorities

LEMMA SoleLoop ==
  ASSUME TypeOK, TypeOK', NEW t \in Tasks, Single(t), Sole(t), Single(t)',
         NEW w \in Workers, \/ LoopStep(w) \/ StopStep(w) \/ Restart(w)
                            \/ Expire(w) \/ WorkerFault(w)
  PROVE  Sole(t)'
<1>1. /\ WorkerOK /\ QueueOK /\ SweepOK /\ SweepOK' /\ worker[w] \in WorkerState
      /\ t # NoTask
  BY BrokerAssumption DEF TypeOK, WorkerOK
<1>2. UNCHANGED <<pin, sweep, submit>>
  BY DEF LoopStep, StopStep, WorkerFault, Take, Miss, Load, Start, Run, CompleteValue,
         CompleteStatus, Stop, StopError, StopStatus, Restart, Expire, WorkerCrash,
         LoopError, CompleteError, StopFault, store
<1>3. PassesShrink(t) /\ SendsStay(t)
  BY <1>2, PassesSame, SendsSame
<1>4. CASE Take(w)
  <2> DEFINE q == Scanned(w)
             x == Head(queue[q])
             y == [Idle EXCEPT !.pc = "load", !.task = x]
  <2>1. q \in Queues /\ q \in {w} \cup Priorities
    BY <1>1, ScannedQueue, ScannedOwn DEF WorkerState
  <2>2. /\ queue' = [queue EXCEPT ![q] = Tail(queue[q])] /\ queue[q] # <<>>
        /\ worker' = [worker EXCEPT ![w] = y]
    BY <1>4 DEF Take
  <2>3. y.task = x
    BY DEF Idle
  <2>4. /\ queue[q] \in Seq(Tasks)
        /\ ToSet(queue[q]) = ToSet(Tail(queue[q])) \cup {x}
    BY <1>1, <2>1, <2>2, MembersHead DEF QueueOK
  <2>5. OnceIn(Tail(queue[q]), t) /\ (x = t => t \notin ToSet(Tail(queue[q])))
    <3>1. OnceIn(queue[q], t)
      BY <2>1 DEF Sole, Once
    <3>. QED
      BY <2>2, <2>4, <3>1, OnceTail
  <2> HIDE DEF q, x, y
  <2>6. ListsShrink(t)
    BY <1>1, <2>1, <2>2, <2>4, <2>5, ListSet DEF At
  <2>7. CASE x # t
    <3>1. LoopsShrink(t)
      BY <1>1, <2>2, <2>3, <2>7, LoopSet
    <3>. QED
      BY <1>2, <1>3, <2>6, <3>1, Shrinks
  <2>8. CASE x = t
    <3>1. At(q, t)
      BY <2>4, <2>8 DEF At
    <3>2. \A p \in Queues : ~ At(p, t)'
      <4>1. \A p \in Queues : At(p, t)' => p = q
        BY <2>1, <2>6, <3>1 DEF ListsShrink, Sole, Alone
      <4>2. \A p \in Queues : p = q => ~ At(p, t)'
        BY <1>1, <2>1, <2>2, <2>5, <2>8 DEF At, QueueOK
      <4>. QED
        BY <4>1, <4>2
    <3>3. \A m \in Monitors : ~ In(m, t)'
      BY <1>2, <2>1, <3>1 DEF Sole, Alone, In
    <3>4. \A v \in Workers : On(v, t)' => v = w
      <4>1. \A v \in Workers : ~ On(v, t)
        BY <2>1, <3>1 DEF Sole, Alone
      <4>. QED
        BY <1>1, <2>2, <4>1 DEF On, WorkerOK
    <3>5. pin[t] \in {w, Nobody}
      BY <2>1, <3>1 DEF Sole, Pinned, Queues
    <3>6. Sent(t)'
      BY <1>2, <2>1, <3>1 DEF Sole, Sending, Placed, Sent
    <3>. QED
      BY <1>1, <1>2, <3>2, <3>3, <3>4, <3>5, <3>6, LandsInLoop
  <2>. QED
    BY <2>7, <2>8
<1>5. CASE ~ Take(w)
  <2>1. NextIteration(w).task = NoTask /\ Idle.task = NoTask /\ Down.task = NoTask
    BY NextHand DEF Idle, Down
  <2>2. UNCHANGED queue
    BY <1>5 DEF LoopStep, StopStep, WorkerFault, Miss, Load, Start, Run, CompleteValue,
         CompleteStatus, Stop, StopError, StopStatus, Restart, Expire, WorkerCrash,
         LoopError, CompleteError, StopFault
  <2>3. ASSUME NEW y, worker' = [worker EXCEPT ![w] = y],
               y.task \in {NoTask, worker[w].task}
        PROVE  LoopsShrink(t)
    BY <1>1, <2>3, LoopSet DEF On
  <2>4. CASE \/ Miss(w) \/ Load(w) \/ CompleteStatus(w) \/ Restart(w) \/ WorkerCrash(w)
             \/ LoopError(w)
    <3>1. [worker[w] EXCEPT !.at = @ + 1].task = worker[w].task
      BY <1>1 DEF WorkerState
    <3>2. [worker[w] EXCEPT !.pc = "start"].task = worker[w].task
      BY <1>1 DEF WorkerState
    <3>3. LoopsShrink(t)
      BY <2>1, <2>3, <2>4, <3>1, <3>2
         DEF Miss, Load, CompleteStatus, Restart, WorkerCrash, LoopError
    <3>. QED
      BY <1>2, <1>3, <2>2, <3>3, ListsSame, Shrinks
  <2>5. CASE Start(w) \/ CompleteValue(w) \/ Run(w) \/ CompleteError(w)
    <3>1. \A p : [worker[w] EXCEPT !.pc = p].task = worker[w].task
      BY <1>1 DEF WorkerState
    <3>2. \A o, g : [worker[w] EXCEPT !.pc = "value", !.out = o, !.guarded = g].task
                      = worker[w].task
      BY <1>1 DEF WorkerState
    <3>3. LoopsShrink(t)
      <4>1. CASE Start(w) \/ CompleteValue(w)
        BY <2>3, <3>1, <4>1 DEF Start, CompleteValue
      <4>2. CASE Run(w) \/ CompleteError(w)
        BY <2>3, <3>1, <3>2, <4>2 DEF Run, CompleteError
      <4>. QED
        BY <2>5, <4>1, <4>2
    <3>. QED
      BY <1>2, <1>3, <2>2, <3>3, ListsSame, Shrinks
  <2>6. CASE StopStep(w) \/ Expire(w) \/ StopFault(w)
    <3>1. UNCHANGED worker
      BY <2>6 DEF StopStep, Stop, StopError, StopStatus, Expire, StopFault
    <3>. QED
      BY <1>2, <1>3, <2>2, <3>1, ListsSame, LoopsSame, Shrinks
  <2>. QED
    BY <1>5, <2>4, <2>5, <2>6 DEF LoopStep, WorkerFault
<1>. QED
  BY <1>4, <1>5

LEMMA SoleCancel ==
  ASSUME NEW t \in Tasks, Sole(t), NEW c \in Cancels, CancelStep(c) \/ CancelFault(c)
  PROVE  Sole(t)'
<1>1. UNCHANGED <<pin, queue, sweep, worker, submit>>
  BY DEF CancelStep, CancelCheck, CancelError, CancelStatus, CancelFault, store
<1>. QED
  BY <1>1, ListsSame, PassesSame, LoopsSame, SendsSame, Shrinks

\* A pass that goes on with what it carried, or less, and clears nothing.
LEMMA PassShrinks ==
  ASSUME NEW t, Sole(t), SweepOK, NEW m \in Monitors, NEW y,
         sweep' = [sweep EXCEPT ![m] = y], UNCHANGED <<pin, worker, submit>>,
         Carries(y, t) => In(m, t), OncePass(y, t), FitsPass(y, t, pin[t]),
         ListsShrink(t)
  PROVE  Sole(t)'
<1>1. PassesShrink(t)
  BY PassSet
<1>. QED
  BY <1>1, LoopsSame, SendsSame, Shrinks

\* Where the id goes when its pass gives it up.
LEMMA PassGives ==
  ASSUME NEW t, Single(t)', Sole(t), QueueOK, SweepOK, SweepOK', NEW m \in Monitors,
         NEW y, sweep' = [sweep EXCEPT ![m] = y], UNCHANGED <<pin, worker, submit>>,
         In(m, t), ~ Carries(y, t), NEW q \in Queues, NEW s,
         queue' = [queue EXCEPT ![q] = s], OnceIn(s, t),
         q \in Workers => pin[t] = q, q \in Priorities => pin[t] = Nobody
  PROVE  Sole(t)'
<1>1. /\ \A p \in Queues : ~ At(p, t)
      /\ \A n \in Monitors : n # m => ~ In(n, t)
      /\ \A w \in Workers : ~ On(w, t)
      /\ Sent(t)
  BY DEF Sole, Alone, Sending, Placed
<1>2. queue'[q] = s /\ \A p \in Queues : p # q => queue'[p] = queue[p]
  BY DEF QueueOK
<1>3. sweep'[m] = y /\ \A n \in Monitors : n # m => sweep'[n] = sweep[n]
  BY DEF SweepOK
<1>4. \A p \in Queues : (At(p, t)' => p = q) /\ OnceIn(queue'[p], t)
  BY <1>1, <1>2, OnceAbsent DEF At
<1>5. /\ \A n \in Monitors : ~ In(n, t)'
      /\ \A w \in Workers : ~ On(w, t)'
      /\ Sent(t)'
  BY <1>1, <1>3 DEF In, On, Sent
<1>. QED
  BY <1>4, <1>5, LandsInList

LEMMA SolePass ==
  ASSUME TypeOK, TypeOK', NEW t \in Tasks, Single(t), Sole(t), Single(t)',
         NEW m \in Monitors, SweepStep(m) \/ SweepFault(m) \/ RequeueError(m)
  PROVE  Sole(t)'
<1> DEFINE old == sweep[m]
<1>1. /\ SweepOK /\ SweepOK' /\ QueueOK /\ PinOK
      /\ old \in SweepState /\ SweepRecord(old)
      /\ old.keep \in Seq(Tasks) /\ old.requeue \in Seq(Tasks)
      /\ old.pc # "rest" => old.of \in Workers /\ old.of \in Queues
      /\ old.pc = "load" => old.hand \in Tasks
      /\ old.pc = "push" => old.requeue # <<>>
  BY DEF TypeOK, SweepOK, SweepState, SweepRecord, Queues
<1>2. OncePass(old, t) /\ FitsPass(old, t, pin[t])
  BY DEF Sole, Once, Pinned
<1>3. UNCHANGED <<worker, submit>>
  BY DEF SweepStep, SweepBegin, SweepPop, SweepLoad, SweepKeep, SweepUnpin, SweepPush,
         SweepFault, RequeueError
<1>4. UNCHANGED queue => ListsShrink(t)
  BY ListsSame
<1>5. t # NoTask
  BY BrokerAssumption
<1>6. ASSUME NEW y, y = Resting \/ \E w \in Workers : y = [Resting EXCEPT !.pc = "pop", !.of = w]
      PROVE  ~ Carries(y, t) /\ OncePass(y, t) /\ FitsPass(y, t, pin[t])
  <2>1. SweepRecord(Resting) /\ ~ Carries(Resting, t)
    BY RestingType, RestingCarries
  <2>2. ASSUME NEW w \in Workers
        PROVE  /\ SweepRecord([Resting EXCEPT !.pc = "pop", !.of = w])
               /\ ~ Carries([Resting EXCEPT !.pc = "pop", !.of = w], t)
    BY RestingType, RestingCarries
  <2>3. SweepRecord(y) /\ ~ Carries(y, t)
    BY <1>6, <2>1, <2>2
  <2>. QED
    BY <2>3, AbsentPass
<1>7. CASE SweepBegin(m)
  <2>1. PICK w \in Workers :
          sweep' = [sweep EXCEPT ![m] = [Resting EXCEPT !.pc = "pop", !.of = w]]
    BY <1>7 DEF SweepBegin, TypeOK
  <2>2. UNCHANGED <<pin, queue>>
    BY <1>7 DEF SweepBegin, store
  <2> DEFINE y == [Resting EXCEPT !.pc = "pop", !.of = w]
  <2>3. ~ Carries(y, t) /\ OncePass(y, t) /\ FitsPass(y, t, pin[t])
    BY <1>6
  <2>4. sweep' = [sweep EXCEPT ![m] = y]
    BY <2>1
  <2> HIDE DEF y
  <2>. QED
    BY <1>1, <1>3, <1>4, <2>2, <2>3, <2>4, PassShrinks
<1>8. CASE SweepFault(m)
  <2>1. sweep' = [sweep EXCEPT ![m] = Resting] /\ UNCHANGED <<pin, queue>>
    BY <1>8 DEF SweepFault, store
  <2>. QED
    BY <1>1, <1>3, <1>4, <1>6, <2>1, PassShrinks
<1>9. CASE SweepPop(m)
  <2> DEFINE q == old.of
  <2>1. /\ old.pc = "pop" /\ q \in Workers /\ q \in Queues /\ queue[q] \in Seq(Tasks)
        /\ UNCHANGED pin
    BY <1>1, <1>9 DEF SweepPop, QueueOK, store
  <2>2. CASE old.seen < ScanLimit /\ queue[q] # <<>>
    <3> DEFINE x == Head(queue[q])
               y == [old EXCEPT !.pc = "load", !.seen = @ + 1, !.hand = x]
               s == Tail(queue[q])
    <3>1. /\ queue' = [queue EXCEPT ![q] = s]
          /\ sweep' = [sweep EXCEPT ![m] = y]
      BY <1>9, <2>2 DEF SweepPop
    <3>2. ToSet(queue[q]) = ToSet(s) \cup {x}
      BY <2>1, <2>2, MembersHead
    <3>3. /\ y.pc = "load" /\ y.hand = x /\ y.of = q
          /\ y.keep = old.keep /\ y.requeue = old.requeue
      BY <1>1 DEF SweepState
    <3>4. OnceIn(s, t) /\ (x = t => t \notin ToSet(s))
      <4>1. OnceIn(queue[q], t)
        BY <2>1 DEF Sole, Once
      <4>. QED
        BY <2>1, <2>2, <4>1, OnceTail
    <3> HIDE DEF x, y, s, q
    <3>5. ListsShrink(t)
      BY <1>1, <2>1, <3>1, <3>2, <3>4, ListSet DEF At
    <3>6. CASE x # t
      <4>1. /\ Carries(y, t) => In(m, t)
            /\ OncePass(y, t) /\ FitsPass(y, t, pin[t])
        BY <1>2, <3>3, <3>6 DEF Carries, In, OncePass, FitsPass, q
      <4>. QED
        BY <1>1, <1>3, <2>1, <3>1, <3>5, <4>1, PassShrinks
    <3>7. CASE x = t
      <4>1. At(q, t)
        BY <3>2, <3>7 DEF At
      <4>2. /\ \A p \in Queues : At(p, t) => p = q
            /\ \A n \in Monitors : ~ In(n, t)
            /\ \A w \in Workers : ~ On(w, t)
            /\ Sent(t) /\ pin[t] = q
        BY <2>1, <4>1 DEF Sole, Alone, Sending, Placed, Pinned
      <4>3. \A p \in Queues : ~ At(p, t)'
        <5>1. \A p \in Queues : At(p, t)' => p = q
          BY <3>5, <4>2 DEF ListsShrink
        <5>2. \A p \in Queues : p = q => ~ At(p, t)'
          BY <1>1, <2>1, <3>1, <3>4, <3>7 DEF At, QueueOK
        <5>. QED
          BY <5>1, <5>2
      <4>4. sweep'[m] = y /\ \A n \in Monitors : n # m => sweep'[n] = sweep[n]
        BY <1>1, <3>1 DEF SweepOK
      <4>5. OncePass(y, t) /\ FitsPass(y, t, pin[t])
        BY <1>2, <3>3, <4>2 DEF In, Carries, OncePass, FitsPass
      <4>6. /\ \A n \in Monitors : In(n, t)' => n = m
            /\ \A w \in Workers : ~ On(w, t)'
            /\ Sent(t)'
        BY <1>3, <4>2, <4>4 DEF In, On, Sent
      <4>. QED
        BY <1>1, <2>1, <4>3, <4>4, <4>5, <4>6, LandsInPass
    <3>. QED
      BY <3>6, <3>7
  <2>3. CASE ~ (old.seen < ScanLimit /\ queue[q] # <<>>)
    <3> DEFINE y == [old EXCEPT !.pc = "keep"]
    <3>1. sweep' = [sweep EXCEPT ![m] = y] /\ UNCHANGED queue
      BY <1>9, <2>3 DEF SweepPop
    <3>2. /\ y.pc = "keep" /\ y.hand = old.hand /\ y.of = old.of
          /\ y.keep = old.keep /\ y.requeue = old.requeue
      BY <1>1 DEF SweepState
    <3> HIDE DEF y
    <3>3. /\ Carries(y, t) => In(m, t)
          /\ OncePass(y, t) /\ FitsPass(y, t, pin[t])
      BY <1>2, <3>2 DEF Carries, In, OncePass, FitsPass
    <3>. QED
      BY <1>1, <1>3, <1>4, <2>1, <3>1, <3>3, PassShrinks
  <2>. QED
    BY <2>2, <2>3
<1>10. CASE SweepLoad(m)
  <2> DEFINE x == old.hand
             back == [old EXCEPT !.pc = "pop", !.hand = NoTask]
             keeping == [back EXCEPT !.keep = Append(@, x)]
             requeuing == [back EXCEPT !.requeue = Append(@, x)]
  <2>1. old.pc = "load" /\ x \in Tasks /\ UNCHANGED <<pin, queue>>
    BY <1>1, <1>10 DEF SweepLoad, store
  <2>2. \/ sweep' = [sweep EXCEPT ![m] = back]
        \/ sweep' = [sweep EXCEPT ![m] = keeping] /\ pin[x] = old.of
        \/ sweep' = [sweep EXCEPT ![m] = requeuing]
    BY <1>10 DEF SweepLoad
  <2>3. /\ back.pc = "pop" /\ back.hand = NoTask /\ back.of = old.of
        /\ back.keep = old.keep /\ back.requeue = old.requeue
        /\ keeping.pc = "pop" /\ keeping.hand = NoTask /\ keeping.of = old.of
        /\ keeping.keep = Append(old.keep, x) /\ keeping.requeue = old.requeue
        /\ requeuing.pc = "pop" /\ requeuing.hand = NoTask /\ requeuing.of = old.of
        /\ requeuing.keep = old.keep /\ requeuing.requeue = Append(old.requeue, x)
    BY <1>1 DEF SweepState
  <2>4. /\ ToSet(Append(old.keep, x)) = ToSet(old.keep) \cup {x}
        /\ ToSet(Append(old.requeue, x)) = ToSet(old.requeue) \cup {x}
    BY <1>1, <2>1, MembersAppend
  <2>5. OnceIn(Append(old.keep, x), t) /\ OnceIn(Append(old.requeue, x), t)
    BY <1>1, <1>2, <2>1, OnceAppend DEF OncePass
  <2> HIDE DEF x, back, keeping, requeuing
  <2>6. CASE sweep' = [sweep EXCEPT ![m] = back]
    <3>1. /\ Carries(back, t) => In(m, t)
          /\ OncePass(back, t) /\ FitsPass(back, t, pin[t])
      BY <1>2, <1>5, <2>3 DEF Carries, In, OncePass, FitsPass
    <3>. QED
      BY <1>1, <1>3, <1>4, <2>1, <2>6, <3>1, PassShrinks
  <2>7. CASE sweep' = [sweep EXCEPT ![m] = keeping] /\ pin[x] = old.of
    <3>1. /\ Carries(keeping, t) => In(m, t)
          /\ OncePass(keeping, t) /\ FitsPass(keeping, t, pin[t])
      BY <1>2, <1>5, <2>3, <2>4, <2>5, <2>7 DEF Carries, In, OncePass, FitsPass, x
    <3>. QED
      BY <1>1, <1>3, <1>4, <2>1, <2>7, <3>1, PassShrinks
  <2>8. CASE sweep' = [sweep EXCEPT ![m] = requeuing]
    <3>1. /\ Carries(requeuing, t) => In(m, t)
          /\ OncePass(requeuing, t) /\ FitsPass(requeuing, t, pin[t])
      BY <1>2, <1>5, <2>3, <2>4, <2>5 DEF Carries, In, OncePass, FitsPass, x
    <3>. QED
      BY <1>1, <1>3, <1>4, <2>1, <2>8, <3>1, PassShrinks
  <2>. QED
    BY <2>2, <2>6, <2>7, <2>8
<1>11. CASE SweepKeep(m)
  <2> DEFINE q == old.of
  <2>1. /\ old.pc = "keep" /\ q \in Workers /\ q \in Queues /\ queue[q] \in Seq(Tasks)
        /\ q \notin Priorities /\ UNCHANGED pin
    BY <1>1, <1>11, BrokerAssumption DEF SweepKeep, QueueOK, store
  <2>2. CASE old.keep # <<>>
    <3> DEFINE x == Last(old.keep)
               y == [old EXCEPT !.keep = Front(@)]
               s == <<x>> \o queue[q]
    <3>1. /\ queue' = [queue EXCEPT ![q] = s]
          /\ sweep' = [sweep EXCEPT ![m] = y]
      BY <1>11, <2>2 DEF SweepKeep
    <3>2. x \in Tasks /\ ToSet(old.keep) = ToSet(Front(old.keep)) \cup {x}
      BY <1>1, <2>2, LastFrontType, MembersLast
    <3>3. ToSet(s) = ToSet(queue[q]) \cup {x}
      BY <2>1, <3>2, MembersPrepend
    <3>4. /\ y.pc = "keep" /\ y.hand = old.hand /\ y.of = old.of
          /\ y.keep = Front(old.keep) /\ y.requeue = old.requeue
      BY <1>1, <2>1 DEF SweepState
    <3>5. OnceIn(Front(old.keep), t) /\ (x = t => t \notin ToSet(Front(old.keep)))
      BY <1>1, <1>2, <2>2, OnceFront DEF OncePass
    <3>6. x = t => In(m, t) /\ ~ At(q, t)
      BY <2>1, <3>2 DEF In, Carries, Sole, Alone
    <3>7. OnceIn(s, t)
      <4>1. OnceIn(queue[q], t)
        BY <2>1 DEF Sole, Once
      <4>. QED
        BY <2>1, <3>2, <3>6, <4>1, OncePrepend DEF At
    <3> HIDE DEF x, y, s
    <3>8. CASE x # t
      <4>1. ListsShrink(t)
        BY <1>1, <2>1, <3>1, <3>3, <3>7, <3>8, ListSet DEF At
      <4>2. /\ Carries(y, t) => In(m, t)
            /\ OncePass(y, t) /\ FitsPass(y, t, pin[t])
        BY <1>2, <2>1, <3>2, <3>4, <3>5 DEF Carries, In, OncePass, FitsPass
      <4>. QED
        BY <1>1, <1>3, <2>1, <3>1, <4>1, <4>2, PassShrinks
    <3>9. CASE x = t
      <4>1. ~ Carries(y, t) /\ pin[t] = q
        BY <1>2, <3>2, <3>4, <3>5, <3>9 DEF Carries, OncePass, FitsPass
      <4>. QED
        BY <1>1, <1>3, <2>1, <3>1, <3>6, <3>7, <3>9, <4>1, PassGives
    <3>. QED
      BY <3>8, <3>9
  <2>3. CASE old.keep = <<>>
    <3> DEFINE y == [old EXCEPT !.pc = "unpin"]
    <3>1. sweep' = [sweep EXCEPT ![m] = y] /\ UNCHANGED queue
      BY <1>11, <2>3 DEF SweepKeep
    <3>2. /\ y.pc = "unpin" /\ y.hand = old.hand /\ y.of = old.of
          /\ y.keep = old.keep /\ y.requeue = old.requeue
      BY <1>1 DEF SweepState
    <3> HIDE DEF y
    <3>3. /\ Carries(y, t) => In(m, t)
          /\ OncePass(y, t) /\ FitsPass(y, t, pin[t])
      BY <1>2, <3>2 DEF Carries, In, OncePass, FitsPass
    <3>. QED
      BY <1>1, <1>3, <1>4, <2>1, <3>1, <3>3, PassShrinks
  <2>. QED
    BY <2>2, <2>3
<1>12. CASE SweepUnpin(m)
  <2>1. old.pc = "unpin" /\ UNCHANGED queue
    BY <1>12 DEF SweepUnpin
  <2>2. CASE old.requeue # <<>>
    <3> DEFINE x == Head(old.requeue)
               y == [old EXCEPT !.pc = "push"]
    <3>1. /\ sweep' = [sweep EXCEPT ![m] = y]
          /\ pin' = [pin EXCEPT ![x] = Nobody]
      BY <1>12, <2>2 DEF SweepUnpin
    <3>2. /\ y.pc = "push" /\ y.hand = old.hand /\ y.of = old.of
          /\ y.keep = old.keep /\ y.requeue = old.requeue
      BY <1>1 DEF SweepState
    <3>3. x \in Tasks /\ x \in ToSet(old.requeue)
      BY <1>1, <2>2, HeadTailType, MembersHead
    <3>4. sweep'[m] = y /\ \A n \in Monitors : n # m => sweep'[n] = sweep[n]
      BY <1>1, <3>1 DEF SweepOK
    <3>5. y.requeue = old.requeue /\ Head(y.requeue) = x
      BY <3>2
    <3> HIDE DEF x, y
    <3>6. OncePass(y, t) /\ (Carries(y, t) <=> In(m, t))
      BY <1>2, <3>2 DEF Carries, In, OncePass
    <3>7. CASE x # t
      <4>1. pin'[t] = pin[t]
        BY <1>1, <3>1, <3>7 DEF PinOK
      <4>2. FitsPass(y, t, pin[t])
        BY <1>2, <3>2, <3>5, <3>7 DEF FitsPass
      <4>3. PassesShrink(t)
        BY <1>1, <3>1, <3>6, <4>1, <4>2, PassSet
      <4>. QED
        BY <1>3, <1>4, <2>1, <4>1, <4>3, LoopsSame, SendsSame, Shrinks
    <3>8. CASE x = t
      <4>1. In(m, t) /\ t \in ToSet(old.requeue)
        BY <3>3, <3>8 DEF In, Carries
      <4>2. /\ \A p \in Queues : ~ At(p, t)
            /\ \A n \in Monitors : In(n, t) => n = m
            /\ \A w \in Workers : ~ On(w, t)
            /\ Sent(t)
        BY <4>1 DEF Sole, Alone, Sending, Placed
      <4>3. pin'[t] = Nobody
        BY <1>1, <3>1, <3>8 DEF PinOK
      <4>4. FitsPass(y, t, pin'[t])
        BY <1>2, <3>2, <4>1, <4>3 DEF FitsPass, OncePass
      <4>5. /\ \A p \in Queues : ~ At(p, t)'
            /\ \A n \in Monitors : In(n, t)' => n = m
            /\ \A w \in Workers : ~ On(w, t)'
            /\ Sent(t)'
        BY <1>3, <2>1, <3>4, <4>2 DEF At, In, On, Sent
      <4>. QED
        BY <1>1, <3>4, <3>6, <4>4, <4>5, LandsInPass
    <3>. QED
      BY <3>7, <3>8
  <2>3. CASE old.requeue = <<>>
    <3>1. sweep' = [sweep EXCEPT ![m] = Resting] /\ UNCHANGED pin
      BY <1>12, <2>3 DEF SweepUnpin
    <3>. QED
      BY <1>1, <1>3, <1>4, <1>6, <2>1, <3>1, PassShrinks
  <2>. QED
    BY <2>2, <2>3
<1>13. CASE SweepPush(m)
  <2> DEFINE x == Head(old.requeue)
             y == [old EXCEPT !.pc = "unpin", !.requeue = Tail(@)]
             q == PrioOf[x]
             s == Append(queue[q], x)
  <2>1. /\ old.pc = "push" /\ old.requeue # <<>>
        /\ sweep' = [sweep EXCEPT ![m] = y]
        /\ queue' = [queue EXCEPT ![q] = s]
        /\ UNCHANGED pin
    BY <1>1, <1>13 DEF SweepPush, store
  <2>2. x \in Tasks /\ ToSet(old.requeue) = ToSet(Tail(old.requeue)) \cup {x}
    BY <1>1, <2>1, HeadTailType, MembersHead
  <2>3. /\ q \in Queues /\ q \in Priorities /\ q \notin Workers
        /\ queue[q] \in Seq(Tasks)
    BY <1>1, <2>2, BrokerAssumption DEF Queues, QueueOK
  <2>4. /\ y.pc = "unpin" /\ y.hand = old.hand /\ y.of = old.of
        /\ y.keep = old.keep /\ y.requeue = Tail(old.requeue)
    BY <1>1 DEF SweepState
  <2>5. OnceIn(Tail(old.requeue), t) /\ (x = t => t \notin ToSet(Tail(old.requeue)))
    BY <1>1, <1>2, <2>1, OnceTail DEF OncePass
  <2>6. x = t => In(m, t) /\ ~ At(q, t) /\ pin[t] = Nobody
    BY <1>2, <2>1, <2>2, <2>3 DEF In, Carries, Sole, Alone, FitsPass
  <2>7. ToSet(s) = ToSet(queue[q]) \cup {x}
    BY <2>2, <2>3, MembersAppend
  <2>8. OnceIn(s, t)
    <3>1. OnceIn(queue[q], t)
      BY <2>3 DEF Sole, Once
    <3>. QED
      BY <2>2, <2>3, <2>6, <3>1, OnceAppend DEF At
  <2> HIDE DEF x, y, q, s
  <2>9. CASE x # t
    <3>1. ListsShrink(t)
      BY <1>1, <2>1, <2>3, <2>7, <2>8, <2>9, ListSet DEF At
    <3>2. /\ Carries(y, t) => In(m, t)
          /\ OncePass(y, t) /\ FitsPass(y, t, pin[t])
      BY <1>2, <2>2, <2>4, <2>5 DEF Carries, In, OncePass, FitsPass
    <3>. QED
      BY <1>1, <1>3, <2>1, <3>1, <3>2, PassShrinks
  <2>10. CASE x = t
    <3>1. ~ Carries(y, t)
      BY <1>2, <2>2, <2>4, <2>5, <2>10 DEF Carries, OncePass
    <3>. QED
      BY <1>1, <1>3, <2>1, <2>3, <2>6, <2>8, <2>10, <3>1, PassGives
  <2>. QED
    BY <2>9, <2>10
<1>14. CASE RequeueError(m)
  <2> DEFINE y == [old EXCEPT !.pc = "unpin", !.requeue = Tail(@)]
  <2>1. /\ old.requeue # <<>>
        /\ sweep' = [sweep EXCEPT ![m] = y]
        /\ UNCHANGED <<pin, queue>>
    BY <1>1, <1>14 DEF RequeueError, store
  <2>2. ToSet(Tail(old.requeue)) \subseteq ToSet(old.requeue)
    BY <1>1, <2>1, MembersHead
  <2>3. /\ y.pc = "unpin" /\ y.hand = old.hand /\ y.of = old.of
        /\ y.keep = old.keep /\ y.requeue = Tail(old.requeue)
    BY <1>1 DEF SweepState
  <2>4. OnceIn(Tail(old.requeue), t)
    BY <1>1, <1>2, <2>1, OnceTail DEF OncePass
  <2> HIDE DEF y
  <2>5. /\ Carries(y, t) => In(m, t)
        /\ OncePass(y, t) /\ FitsPass(y, t, pin[t])
    BY <1>2, <2>2, <2>3, <2>4 DEF Carries, In, OncePass, FitsPass
  <2>. QED
    BY <1>1, <1>3, <1>4, <2>1, <2>5, PassShrinks
<1>. QED
  BY <1>7, <1>8, <1>9, <1>10, <1>11, <1>12, <1>13, <1>14 DEF SweepStep

LEMMA SoleInit == Init => SoleInv
<1> SUFFICES ASSUME Init, NEW t \in Tasks
             PROVE  Sole(t)
  BY DEF SoleInv
<1>1. t # NoTask /\ Idle.task = NoTask
  BY BrokerAssumption DEF Idle
<1>2. /\ \A q \in Queues : ~ At(q, t)
      /\ \A m \in Monitors : ~ In(m, t)
      /\ \A w \in Workers : ~ On(w, t)
  BY <1>1, MembersEmpty, RestingCarries DEF Init, At, In, On
<1>3. \A m \in Monitors : OncePass(sweep[m], t) /\ FitsPass(sweep[m], t, pin[t])
  BY <1>2, RestingType, AbsentPass DEF Init, In
<1>4. Once(t)
  BY <1>2, <1>3, OnceAbsent DEF Once, At
<1>5. Pinned(t)
  BY <1>2, <1>3 DEF Pinned, Queues
<1>6. Sending(t)
  BY <1>2 DEF Sending, Placed, Init
<1>. QED
  BY <1>2, <1>4, <1>5, <1>6 DEF Sole, Alone

LEMMA SoleStep == TypeOK /\ TypeOK' /\ SoleInv /\ [Next]_vars => SoleInv'
<1> SUFFICES ASSUME TypeOK, TypeOK', SoleInv, [Next]_vars, NEW t \in Tasks, Single(t)'
             PROVE  Sole(t)'
  BY DEF SoleInv
<1>1. Single(t) /\ Sole(t)
  BY SinglePast DEF SoleInv
<1>2. CASE UNCHANGED vars
  BY <1>1, <1>2, ListsSame, PassesSame, LoopsSame, SendsSame, Shrinks DEF vars
<1>. QED
  BY <1>1, <1>2, SoleRequest, SoleLoop, SoleCancel, SolePass DEF Next

-----------------------------------------------------------------------------
\* If a task has at most one request that has begun, no two of them are of it.
LEMMA UnrepeatedSingle ==
  ASSUME IsFiniteSet(Requests), NEW t \in Unrepeated
  PROVE  Single(t)
<1> DEFINE S == {r \in Requests : TaskOf[r] = t /\ submit[r] # "new"}
<1>1. Cardinality(S) <= 1
  BY DEF Unrepeated
<1>2. SUFFICES ASSUME NEW r \in S, NEW o \in S
               PROVE  r = o
  BY DEF Single
<1>3. IsFiniteSet(S) /\ IsFiniteSet({r, o}) /\ Cardinality({r, o}) <= Cardinality(S)
  <2>1. IsFiniteSet(S)
    BY FS_Subset
  <2>2. {r, o} \in SUBSET S
    OBVIOUS
  <2> HIDE DEF S
  <2>. QED
    BY <2>1, <2>2, FS_Subset
<1> HIDE DEF S
<1>4. Cardinality(S) \in Nat /\ Cardinality({r, o}) \in Nat
  BY <1>3, FS_CardinalityType
<1>5. Cardinality({r, o}) # 0
  BY <1>3, FS_EmptySet
<1>6. Cardinality({r, o}) = 1
  BY <1>1, <1>3, <1>4, <1>5
<1>7. PICK x : {r, o} = {x}
  BY <1>3, <1>6, FS_Singleton
<1>. QED
  BY <1>7

\* A task that was submitted once is, in a worker's list, assigned to that worker
\* and in a shared list to nobody, so that a pinned task only runs where it was
\* pinned or after a monitor has given up its pin, however many monitors take lists
\* apart beside the workers and whatever faults end them.
THEOREM AssignmentCorrect == IsFiniteSet(Requests) => (Spec => []AssignmentAgrees)
<1> SUFFICES ASSUME IsFiniteSet(Requests)
             PROVE  Spec => []AssignmentAgrees
  OBVIOUS
<1>1. Init /\ [][Next]_vars => [](TypeOK /\ SoleInv)
  BY TypeInit, TypeStep, SoleInit, SoleStep, PTL
<1>2. SoleInv => AssignmentAgrees
  <2> SUFFICES ASSUME SoleInv, NEW t \in Unrepeated
               PROVE  /\ \A w \in Workers : t \in ToSet(queue[w]) => pin[t] = w
                      /\ \A p \in Priorities : t \in ToSet(queue[p]) => pin[t] = Nobody
                      /\ \A w \in Workers : worker[w].task = t => pin[t] \in {w, Nobody}
    BY DEF AssignmentAgrees
  <2>1. t \in Tasks /\ Single(t)
    BY UnrepeatedSingle DEF Unrepeated
  <2>2. Pinned(t)
    BY <2>1 DEF SoleInv, Sole
  <2>. QED
    BY <2>2 DEF Pinned, At, On
<1>. QED
  BY <1>1, <1>2, PTL DEF Spec
-----------------------------------------------------------------------------
(* Copies.  The contents of all places as one function, and the spots of an id. *)

Contents == [p \in Places |-> Content(p)]
Spots(C, t) == UNION {{p} \X {i \in DOMAIN C[p] : C[p][i] = t} : p \in Places}

LEMMA CopiesAreSpots ==
  ASSUME NEW t
  PROVE  Copies(t) = Spots(Contents, t) /\ Copies(t)' = Spots(Contents', t)
BY DEF Copies, Spots, Contents

LEMMA SpotFields ==
  ASSUME NEW C, NEW t
  PROVE  /\ \A s \in Spots(C, t) : /\ s = <<s[1], s[2]>> /\ s[1] \in Places
                                   /\ s[2] \in DOMAIN C[s[1]] /\ C[s[1]][s[2]] = t
         /\ \A p \in Places : \A i \in DOMAIN C[p] :
               C[p][i] = t => <<p, i>> \in Spots(C, t)
BY DEF Spots

\* Every id of D has a place in C it comes from, each another one: i of p was
\* i + d[p] of p; but j of b was k of a, if a is a place.
Carried(C, D, d, a, k, b, j) ==
  /\ \A p \in Places : d[p] \in Int /\ DOMAIN D[p] \subseteq Nat
  /\ \A p \in Places : \A i \in DOMAIN D[p] :
        IF p = b /\ i = j
        THEN a \in Places /\ k \in DOMAIN C[a] /\ C[a][k] = D[p][i]
        ELSE /\ i + d[p] \in DOMAIN C[p] /\ C[p][i + d[p]] = D[p][i]
             /\ p = a => i + d[p] # k

\* Then no id has more spots in D.
LEMMA SpotsCarried ==
  ASSUME NEW C, NEW D, NEW t, NEW d, NEW a, NEW k, NEW b, NEW j,
         Carried(C, D, d, a, k, b, j)
  PROVE  ExistsInjection(Spots(D, t), Spots(C, t))
<1> USE DEF Carried
<1> DEFINE f == [s \in Spots(D, t) |-> IF s = <<b, j>> THEN <<a, k>>
                                       ELSE <<s[1], s[2] + d[s[1]]>>]
<1>1. ASSUME NEW s \in Spots(D, t)
      PROVE  /\ f[s] \in Spots(C, t) /\ s = <<s[1], s[2]>> /\ s[2] \in Nat
             /\ s[1] \in Places /\ d[s[1]] \in Int
             /\ s # <<b, j>> => /\ f[s] = <<s[1], s[2] + d[s[1]]>>
                                /\ f[s] # <<a, k>>
             /\ s = <<b, j>> => f[s] = <<a, k>>
  <2>1. /\ s = <<s[1], s[2]>> /\ s[1] \in Places /\ s[2] \in DOMAIN D[s[1]]
        /\ D[s[1]][s[2]] = t /\ d[s[1]] \in Int /\ s[2] \in Nat
    BY SpotFields
  <2>2. CASE s = <<b, j>>
    <3>1. f[s] = <<a, k>> /\ s[1] = b /\ s[2] = j
      BY <2>2
    <3>2. a \in Places /\ k \in DOMAIN C[a] /\ C[a][k] = t
      BY <2>1, <3>1
    <3>. QED
      BY <2>1, <2>2, <3>1, <3>2, SpotFields
  <2>3. CASE s # <<b, j>>
    <3>1. f[s] = <<s[1], s[2] + d[s[1]]>> /\ ~ (s[1] = b /\ s[2] = j)
      BY <2>1, <2>3
    <3>2. /\ s[2] + d[s[1]] \in DOMAIN C[s[1]] /\ C[s[1]][s[2] + d[s[1]]] = t
          /\ s[1] = a => s[2] + d[s[1]] # k
      BY <2>1, <3>1
    <3>. QED
      BY <2>1, <2>3, <3>1, <3>2, SpotFields
  <2>. QED
    BY <2>2, <2>3
<1>2. f \in [Spots(D, t) -> Spots(C, t)]
  BY <1>1
<1>3. ASSUME NEW r \in Spots(D, t), NEW s \in Spots(D, t), f[r] = f[s]
      PROVE  r = s
  <2>1. CASE r = <<b, j>> \/ s = <<b, j>>
    BY <1>1, <1>3, <2>1
  <2>2. CASE r # <<b, j>> /\ s # <<b, j>>
    <3> HIDE DEF f
    <3>1. <<r[1], r[2] + d[r[1]]>> = <<s[1], s[2] + d[s[1]]>>
      BY <1>1, <1>3, <2>2
    <3>2. r[1] = s[1] /\ r[2] + d[r[1]] = s[2] + d[r[1]]
      BY <3>1
    <3>3. r[2] = s[2]
      BY <1>1, <3>2
    <3>. QED
      BY <1>1, <3>2, <3>3
  <2>. QED
    BY <2>1, <2>2
<1>4. f \in Injection(Spots(D, t), Spots(C, t))
  <2>1. DOMAIN f = Spots(D, t)
    OBVIOUS
  <2>. QED
    BY <1>2, <1>3, <2>1 DEF Injection, IsInjective
<1>. QED
  BY <1>4, Fun_ExistsInj

\* r is what is left of s, r is s without one x, r is s with one more x: i of r was
\* i + e of s.
Part(s, r) == \E e \in Int : \A i \in DOMAIN r : i + e \in DOMAIN s /\ s[i + e] = r[i]
Loses(s, r, x) == \E k \in DOMAIN s, e \in Int :
                    /\ s[k] = x
                    /\ \A i \in DOMAIN r : /\ i + e \in DOMAIN s /\ s[i + e] = r[i]
                                           /\ i + e # k
Gains(s, r, x) == \E j \in Nat, e \in Int : \A i \in DOMAIN r :
                    IF i = j THEN r[i] = x
                             ELSE i + e \in DOMAIN s /\ s[i + e] = r[i]

LEMMA PartSame ==
  ASSUME NEW s \in Seq(Tasks)
  PROVE  Part(s, s)
<1>1. 0 \in Int /\ \A i \in DOMAIN s : i + 0 = i
  BY LenProperties
<1>. QED
  BY <1>1 DEF Part

LEMMA PartEmpty ==
  ASSUME NEW s
  PROVE  Part(s, <<>>)
<1>1. DOMAIN <<>> = {} /\ 0 \in Int
  OBVIOUS
<1>. QED
  BY <1>1 DEF Part

LEMMA LosesHead ==
  ASSUME NEW s \in Seq(Tasks), s # <<>>
  PROVE  Loses(s, Tail(s), Head(s)) /\ Part(s, Tail(s))
<1>1. /\ Len(s) \in Nat \ {0} /\ DOMAIN s = 1..Len(s) /\ Head(s) = s[1]
      /\ DOMAIN Tail(s) = 1..(Len(s) - 1)
      /\ \A i \in 1..(Len(s) - 1) : Tail(s)[i] = s[i + 1]
  BY HeadTailProperties, EmptySeq, LenProperties
<1>2. /\ 1 \in DOMAIN s /\ 1 \in Int /\ s[1] = Head(s)
      /\ \A i \in DOMAIN Tail(s) : /\ i + 1 \in DOMAIN s /\ s[i + 1] = Tail(s)[i]
                                   /\ i + 1 # 1
  BY <1>1
<1>. QED
  BY <1>2 DEF Loses, Part

LEMMA LosesLast ==
  ASSUME NEW s \in Seq(Tasks), s # <<>>
  PROVE  Loses(s, Front(s), Last(s))
<1> DEFINE n == Len(s) - 1
<1>1. Len(s) \in Nat \ {0} /\ DOMAIN s = 1..Len(s) /\ Last(s) = s[Len(s)]
  BY EmptySeq, LenProperties DEF Last
<1>2. 1 \in 1..(Len(s) + 1) /\ n \in (1 - 1)..Len(s)
  BY <1>1
<1>3. Front(s) = SubSeq(s, 1, n)
  BY DEF Front
<1>4. n \in Nat /\ n + 1 = Len(s)
  BY <1>1
<1> HIDE DEF n
<1>5. /\ SubSeq(s, 1, n) \in Seq(Tasks) /\ Len(SubSeq(s, 1, n)) = n - 1 + 1
      /\ \A i \in 1..(n - 1 + 1) : SubSeq(s, 1, n)[i] = s[1 + i - 1]
  BY <1>2, SubSeqProperties
<1>6. DOMAIN SubSeq(s, 1, n) = 1..Len(SubSeq(s, 1, n))
  BY <1>5, LenProperties
<1>7. n - 1 + 1 = n /\ \A i \in 1..n : 1 + i - 1 = i
  BY <1>4
<1>8. DOMAIN Front(s) = 1..n /\ \A i \in 1..n : Front(s)[i] = s[i]
  BY <1>3, <1>5, <1>6, <1>7
<1>9. /\ n + 1 \in DOMAIN s /\ 0 \in Int /\ s[n + 1] = Last(s)
      /\ \A i \in DOMAIN Front(s) : /\ i + 0 \in DOMAIN s /\ s[i + 0] = Front(s)[i]
                                    /\ i + 0 # n + 1
  BY <1>1, <1>4, <1>8
<1>. QED
  BY <1>9 DEF Loses

LEMMA LosesHand ==
  ASSUME NEW x \in Tasks
  PROVE  Loses(InHand(x), InHand(NoTask), x)
<1>1. InHand(x) = <<x>> /\ InHand(NoTask) = <<>>
  BY BrokerAssumption DEF InHand
<1>2. DOMAIN <<x>> = {1} /\ <<x>>[1] = x /\ DOMAIN <<>> = {} /\ 0 \in Int
  OBVIOUS
<1>. QED
  BY <1>1, <1>2 DEF Loses

LEMMA GainsLast ==
  ASSUME NEW s \in Seq(Tasks), NEW x \in Tasks
  PROVE  Gains(s, Append(s, x), x)
<1> DEFINE y == Append(s, x)
           n == Len(s)
<1>1. /\ y \in Seq(Tasks) /\ Len(y) = n + 1
      /\ \A i \in 1..n : y[i] = s[i]
      /\ y[n + 1] = x
  BY AppendProperties
<1>2. DOMAIN s = 1..n /\ n \in Nat /\ DOMAIN y = 1..(n + 1)
  BY <1>1, LenProperties
<1> HIDE DEF y, n
<1>3. /\ n + 1 \in Nat /\ 0 \in Int
      /\ \A i \in DOMAIN y : IF i = n + 1 THEN y[i] = x
                                          ELSE i + 0 \in DOMAIN s /\ s[i + 0] = y[i]
  BY <1>1, <1>2
<1>4. Gains(s, y, x)
  BY <1>3 DEF Gains
<1>. QED
  BY <1>4 DEF y

LEMMA GainsFirst ==
  ASSUME NEW s \in Seq(Tasks), NEW x \in Tasks
  PROVE  Gains(s, <<x>> \o s, x)
<1> DEFINE y == <<x>> \o s
<1>1. <<x>> \in Seq(Tasks) /\ Len(<<x>>) = 1 /\ <<x>>[1] = x
  OBVIOUS
<1>2. Len(s) \in Nat /\ DOMAIN s = 1..Len(s)
  BY LenProperties
<1>3. /\ y \in Seq(Tasks) /\ Len(y) = 1 + Len(s)
      /\ \A i \in 1..(1 + Len(s)) :
            y[i] = IF i <= 1 THEN <<x>>[i] ELSE s[i - 1]
  BY <1>1, ConcatProperties
<1>4. DOMAIN y = 1..(1 + Len(s))
  BY <1>2, <1>3, LenProperties
<1> HIDE DEF y
<1>5. \A i \in 1..(1 + Len(s)) : (i = 1 <=> i <= 1) /\ i + (-1) = i - 1
                                 /\ (i # 1 => i - 1 \in 1..Len(s))
  BY <1>2
<1>6. /\ 1 \in Nat /\ -1 \in Int
      /\ \A i \in DOMAIN y : IF i = 1 THEN y[i] = x
                                      ELSE i + (-1) \in DOMAIN s /\ s[i + (-1)] = y[i]
  BY <1>1, <1>2, <1>3, <1>4, <1>5
<1>7. Gains(s, y, x)
  BY <1>6 DEF Gains
<1>. QED
  BY <1>7 DEF y

LEMMA GainsHand ==
  ASSUME NEW s, NEW x \in Tasks
  PROVE  Gains(s, InHand(x), x)
<1>1. InHand(x) = <<x>>
  BY BrokerAssumption DEF InHand
<1>2. DOMAIN <<x>> = {1} /\ <<x>>[1] = x /\ 0 \in Int /\ 1 \in Nat
  OBVIOUS
<1>. QED
  BY <1>1, <1>2 DEF Gains

LEMMA PartHand ==
  ASSUME NEW s, NEW x, NEW y, y \in {x, NoTask}, x \in Tasks \cup {NoTask}
  PROVE  Part(InHand(x), InHand(y)) /\ InHand(x) \in Seq(Tasks)
<1>1. InHand(x) \in Seq(Tasks) /\ InHand(NoTask) = <<>>
  BY DEF InHand
<1>. QED
  BY <1>1, PartSame, PartEmpty

\* One id moves from a to b, or none moves; what else the other places lose is gone.
LEMMA SpotsMoved ==
  ASSUME NEW C, NEW D, NEW t, NEW a \in Places, NEW b \in Places, a # b, NEW x,
         \A p \in Places : DOMAIN D[p] \subseteq Nat,
         Loses(C[a], D[a], x), Gains(C[b], D[b], x),
         \A p \in Places \ {a, b} : Part(C[p], D[p])
  PROVE  ExistsInjection(Spots(D, t), Spots(C, t))
<1>1. PICK k \in DOMAIN C[a], e \in Int :
         /\ C[a][k] = x
         /\ \A i \in DOMAIN D[a] : i + e \in DOMAIN C[a] /\ C[a][i + e] = D[a][i] /\ i + e # k
  BY DEF Loses
<1>2. PICK j \in Nat, f \in Int : \A i \in DOMAIN D[b] :
         IF i = j THEN D[b][i] = x ELSE i + f \in DOMAIN C[b] /\ C[b][i + f] = D[b][i]
  BY DEF Gains
<1> DEFINE By(p, g) == \A i \in DOMAIN D[p] : i + g \in DOMAIN C[p] /\ C[p][i + g] = D[p][i]
           d == [p \in Places |-> IF p = a THEN e ELSE IF p = b THEN f
                                  ELSE CHOOSE g \in Int : By(p, g)]
<1>3. \A p \in Places \ {a, b} : \E g \in Int : By(p, g)
  BY DEF Part
<1>4. \A p \in Places \ {a, b} : d[p] \in Int /\ By(p, d[p])
  <2> SUFFICES ASSUME NEW p \in Places \ {a, b}
               PROVE  d[p] \in Int /\ By(p, d[p])
    OBVIOUS
  <2>1. d[p] = CHOOSE g \in Int : By(p, g)
    OBVIOUS
  <2>2. \E g \in Int : By(p, g)
    BY <1>3
  <2> HIDE DEF d, By
  <2>. QED
    BY <2>1, <2>2
<1>5. d[a] = e /\ d[b] = f
  OBVIOUS
<1> HIDE DEF d
<1>6. \A p \in Places : d[p] \in Int /\ DOMAIN D[p] \subseteq Nat
  BY <1>4, <1>5
<1>7. \A p \in Places : \A i \in DOMAIN D[p] :
         IF p = b /\ i = j
         THEN a \in Places /\ k \in DOMAIN C[a] /\ C[a][k] = D[p][i]
         ELSE /\ i + d[p] \in DOMAIN C[p] /\ C[p][i + d[p]] = D[p][i]
              /\ p = a => i + d[p] # k
  <2> SUFFICES ASSUME NEW p \in Places, NEW i \in DOMAIN D[p]
               PROVE  IF p = b /\ i = j
                      THEN a \in Places /\ k \in DOMAIN C[a] /\ C[a][k] = D[p][i]
                      ELSE /\ i + d[p] \in DOMAIN C[p] /\ C[p][i + d[p]] = D[p][i]
                           /\ p = a => i + d[p] # k
    OBVIOUS
  <2>1. CASE p = a
    BY <1>1, <1>5, <2>1
  <2>2. CASE p = b
    BY <1>1, <1>2, <1>5, <2>2
  <2>3. CASE p \notin {a, b}
    BY <1>4, <2>3
  <2>. QED
    BY <2>1, <2>2, <2>3
<1>8. Carried(C, D, d, a, k, b, j)
  BY <1>6, <1>7 DEF Carried
<1>. QED
  BY <1>8, SpotsCarried

LEMMA SpotsDropped ==
  ASSUME NEW C, NEW D, NEW t,
         \A p \in Places : DOMAIN D[p] \subseteq Nat,
         \A p \in Places : Part(C[p], D[p])
  PROVE  ExistsInjection(Spots(D, t), Spots(C, t))
<1> DEFINE By(p, g) == \A i \in DOMAIN D[p] : i + g \in DOMAIN C[p] /\ C[p][i + g] = D[p][i]
           d == [p \in Places |-> CHOOSE g \in Int : By(p, g)]
           none == CHOOSE z : z \notin Places
<1>1. \A p \in Places : \E g \in Int : By(p, g)
  BY DEF Part
<1>2. \A p \in Places : d[p] \in Int /\ By(p, d[p])
  <2> SUFFICES ASSUME NEW p \in Places
               PROVE  d[p] \in Int /\ By(p, d[p])
    OBVIOUS
  <2>1. d[p] = CHOOSE g \in Int : By(p, g)
    OBVIOUS
  <2>2. \E g \in Int : By(p, g)
    BY <1>1
  <2> HIDE DEF d, By
  <2>. QED
    BY <2>1, <2>2
<1>3. none \notin Places
  BY NoSetContainsEverything
<1> HIDE DEF d, none
<1>4. \A p \in Places : d[p] \in Int /\ DOMAIN D[p] \subseteq Nat
  BY <1>2
<1>5. \A p \in Places : \A i \in DOMAIN D[p] :
         IF p = none /\ i = 0
         THEN none \in Places /\ 0 \in DOMAIN C[none] /\ C[none][0] = D[p][i]
         ELSE /\ i + d[p] \in DOMAIN C[p] /\ C[p][i + d[p]] = D[p][i]
              /\ p = none => i + d[p] # 0
  BY <1>2, <1>3
<1>6. Carried(C, D, d, none, 0, none, 0)
  BY <1>4, <1>5 DEF Carried
<1>. QED
  BY <1>6, SpotsCarried

-----------------------------------------------------------------------------
(* What a step does to the copies of each id. *)

LEMMA PlacesAre ==
  /\ \A q \in Queues : <<"list", q>> \in Places
  /\ \A m \in Monitors : /\ <<"keep", m>> \in Places
                         /\ <<"requeue", m>> \in Places
                         /\ <<"hand", m>> \in Places
  /\ \A w \in Workers : <<"loop", w>> \in Places
  /\ \A p \in Places : \/ \E q \in Queues : p = <<"list", q>>
                       \/ \E m \in Monitors : p \in {<<"keep", m>>, <<"requeue", m>>,
                                                     <<"hand", m>>}
                       \/ \E w \in Workers : p = <<"loop", w>>
BY DEF Places

LEMMA ContentsAre ==
  /\ \A q \in Queues : Contents[<<"list", q>>] = queue[q]
  /\ \A m \in Monitors : /\ Contents[<<"keep", m>>] = sweep[m].keep
                         /\ Contents[<<"requeue", m>>] = sweep[m].requeue
                         /\ Contents[<<"hand", m>>] = InHand(sweep[m].hand)
  /\ \A w \in Workers : Contents[<<"loop", w>>] = InHand(worker[w].task)
BY PlacesAre DEF Contents, Content

LEMMA ContentsNext ==
  /\ \A q \in Queues : Contents'[<<"list", q>>] = queue'[q]
  /\ \A m \in Monitors : /\ Contents'[<<"keep", m>>] = sweep'[m].keep
                         /\ Contents'[<<"requeue", m>>] = sweep'[m].requeue
                         /\ Contents'[<<"hand", m>>] = InHand(sweep'[m].hand)
  /\ \A w \in Workers : Contents'[<<"loop", w>>] = InHand(worker'[w].task)
BY PlacesAre DEF Contents, Content

ListOK(c) == c \in Seq(Tasks) /\ DOMAIN c \subseteq Nat

LEMMA HandList ==
  ASSUME NEW x \in Tasks \cup {NoTask}
  PROVE  InHand(x) \in Seq(Tasks)
BY DEF InHand

LEMMA ContentsType ==
  ASSUME TypeOK
  PROVE  \A p \in Places : ListOK(Contents[p])
<1>1. \A c \in Seq(Tasks) : ListOK(c)
  BY LenProperties DEF ListOK
<1>2. \A q \in Queues : queue[q] \in Seq(Tasks)
  BY DEF TypeOK, QueueOK
<1>3. \A m \in Monitors : /\ sweep[m].keep \in Seq(Tasks) /\ sweep[m].requeue \in Seq(Tasks)
                          /\ sweep[m].hand \in Tasks \cup {NoTask}
  BY DEF TypeOK, SweepOK, SweepState
<1>4. \A w \in Workers : worker[w].task \in Tasks \cup {NoTask}
  BY DEF TypeOK, WorkerOK, WorkerState
<1>5. SUFFICES ASSUME NEW p \in Places PROVE Contents[p] \in Seq(Tasks)
  BY <1>1
<1>6. CASE \E q \in Queues : p = <<"list", q>>
  BY <1>2, <1>6, ContentsAre
<1>7. CASE \E m \in Monitors : p = <<"keep", m>>
  BY <1>3, <1>7, ContentsAre
<1>8. CASE \E m \in Monitors : p = <<"requeue", m>>
  BY <1>3, <1>8, ContentsAre
<1>9. CASE \E m \in Monitors : p = <<"hand", m>>
  BY <1>3, <1>9, ContentsAre, HandList
<1>10. CASE \E w \in Workers : p = <<"loop", w>>
  BY <1>4, <1>10, ContentsAre, HandList
<1>. QED
  BY <1>6, <1>7, <1>8, <1>9, <1>10, PlacesAre

LEMMA ContentsTypeNext ==
  ASSUME TypeOK'
  PROVE  \A p \in Places : ListOK(Contents'[p])
<1>1. \A c \in Seq(Tasks) : ListOK(c)
  BY LenProperties DEF ListOK
<1>2. \A q \in Queues : queue'[q] \in Seq(Tasks)
  BY DEF TypeOK, QueueOK
<1>3. \A m \in Monitors : /\ sweep'[m].keep \in Seq(Tasks) /\ sweep'[m].requeue \in Seq(Tasks)
                          /\ sweep'[m].hand \in Tasks \cup {NoTask}
  BY DEF TypeOK, SweepOK, SweepState
<1>4. \A w \in Workers : worker'[w].task \in Tasks \cup {NoTask}
  BY DEF TypeOK, WorkerOK, WorkerState
<1>5. SUFFICES ASSUME NEW p \in Places PROVE Contents'[p] \in Seq(Tasks)
  BY <1>1
<1>6. CASE \E q \in Queues : p = <<"list", q>>
  BY <1>2, <1>6, ContentsNext
<1>7. CASE \E m \in Monitors : p = <<"keep", m>>
  BY <1>3, <1>7, ContentsNext
<1>8. CASE \E m \in Monitors : p = <<"requeue", m>>
  BY <1>3, <1>8, ContentsNext
<1>9. CASE \E m \in Monitors : p = <<"hand", m>>
  BY <1>3, <1>9, ContentsNext, HandList
<1>10. CASE \E w \in Workers : p = <<"loop", w>>
  BY <1>4, <1>10, ContentsNext, HandList
<1>. QED
  BY <1>6, <1>7, <1>8, <1>9, <1>10, PlacesAre

\* No id has more copies than before.
NoneCopied == \A t \in Tasks : ExistsInjection(Copies(t)', Copies(t))

\* One id moves from a to b.
LEMMA Moves ==
  ASSUME TypeOK, TypeOK', NEW a \in Places, NEW b \in Places, a # b, NEW x,
         Loses(Contents[a], Contents'[a], x), Gains(Contents[b], Contents'[b], x),
         \A p \in Places \ {a, b} : Part(Contents[p], Contents'[p])
  PROVE  NoneCopied
<1> DEFINE C == Contents
           D == Contents'
<1>1. \A p \in Places : DOMAIN D[p] \subseteq Nat
  BY ContentsTypeNext DEF ListOK
<1>2. /\ Loses(C[a], D[a], x) /\ Gains(C[b], D[b], x)
      /\ \A p \in Places \ {a, b} : Part(C[p], D[p])
  OBVIOUS
<1> HIDE DEF C, D
<1>3. \A t : ExistsInjection(Spots(D, t), Spots(C, t))
  BY <1>1, <1>2, SpotsMoved
<1>. QED
  BY <1>3, CopiesAreSpots DEF C, D, NoneCopied

\* What each pass and each loop holds does not grow.
PassPart(x, y) == /\ Part(x.keep, y.keep) /\ Part(x.requeue, y.requeue)
                  /\ Part(InHand(x.hand), InHand(y.hand))

LEMMA Drops ==
  ASSUME TypeOK, TypeOK', UNCHANGED queue,
         \A m \in Monitors : PassPart(sweep[m], sweep'[m]),
         \A w \in Workers : Part(InHand(worker[w].task), InHand(worker'[w].task))
  PROVE  NoneCopied
<1> DEFINE C == Contents
           D == Contents'
<1>1. \A m \in Monitors : PassPart(sweep[m], sweep'[m])
  OBVIOUS
<1>2. \A p \in Places : DOMAIN D[p] \subseteq Nat
  BY ContentsTypeNext DEF ListOK
<1>3. \A p \in Places : Part(C[p], D[p])
  <2> SUFFICES ASSUME NEW p \in Places PROVE Part(C[p], D[p])
    OBVIOUS
  <2>1. CASE \E q \in Queues : p = <<"list", q>>
    <3>1. C[p] \in Seq(Tasks)
      BY ContentsType DEF ListOK
    <3>2. D[p] = C[p]
      BY <2>1, ContentsAre, ContentsNext
    <3>. QED
      BY <3>1, <3>2, PartSame
  <2>2. CASE \E m \in Monitors : p \in {<<"keep", m>>, <<"requeue", m>>, <<"hand", m>>}
    <3>1. PICK m \in Monitors : p \in {<<"keep", m>>, <<"requeue", m>>, <<"hand", m>>}
      BY <2>2
    <3>2. CASE p = <<"keep", m>>
      BY <1>1, <3>2, ContentsAre, ContentsNext DEF PassPart
    <3>3. CASE p = <<"requeue", m>>
      BY <1>1, <3>3, ContentsAre, ContentsNext DEF PassPart
    <3>4. CASE p = <<"hand", m>>
      BY <1>1, <3>4, ContentsAre, ContentsNext DEF PassPart
    <3>. QED
      BY <3>1, <3>2, <3>3, <3>4
  <2>3. CASE \E w \in Workers : p = <<"loop", w>>
    BY <2>3, ContentsAre, ContentsNext
  <2>. QED
    BY <2>1, <2>2, <2>3, PlacesAre
<1> HIDE DEF C, D
<1>4. \A t : ExistsInjection(Spots(D, t), Spots(C, t))
  BY <1>2, <1>3, SpotsDropped
<1>. QED
  BY <1>4, CopiesAreSpots DEF C, D, NoneCopied

\* What stays, and what a loop may do with its hand.
LEMMA PassesPart ==
  ASSUME SweepOK, NEW m \in Monitors
  PROVE  PassPart(sweep[m], sweep[m])
<1>1. /\ sweep[m].keep \in Seq(Tasks) /\ sweep[m].requeue \in Seq(Tasks)
      /\ sweep[m].hand \in Tasks \cup {NoTask}
  BY DEF SweepOK, SweepState
<1>. QED
  BY <1>1, PartSame, PartHand DEF PassPart

LEMMA LoopsPart ==
  ASSUME WorkerOK, NEW w \in Workers, NEW y, y \in {worker[w].task, NoTask}
  PROVE  Part(InHand(worker[w].task), InHand(y))
BY PartHand DEF WorkerOK, WorkerState

LEMMA NothingCopied ==
  ASSUME TypeOK, TypeOK', UNCHANGED <<queue, sweep, worker>>
  PROVE  NoneCopied
<1>1. SweepOK /\ WorkerOK
  BY DEF TypeOK
<1>2. \A m \in Monitors : PassPart(sweep[m], sweep'[m])
  BY <1>1, PassesPart
<1>3. \A w \in Workers : Part(InHand(worker[w].task), InHand(worker'[w].task))
  BY <1>1, LoopsPart
<1>. QED
  BY <1>2, <1>3, Drops

LEMMA LoopDrops ==
  ASSUME TypeOK, TypeOK', UNCHANGED <<queue, sweep>>, NEW w \in Workers, NEW y,
         worker' = [worker EXCEPT ![w] = y], y.task \in {worker[w].task, NoTask}
  PROVE  NoneCopied
<1>1. SweepOK /\ WorkerOK
  BY DEF TypeOK
<1>2. \A m \in Monitors : PassPart(sweep[m], sweep'[m])
  BY <1>1, PassesPart
<1>3. worker'[w] = y /\ \A v \in Workers : v # w => worker'[v] = worker[v]
  BY <1>1 DEF WorkerOK
<1>4. \A v \in Workers : worker'[v].task \in {worker[v].task, NoTask}
  BY <1>3
<1>5. \A v \in Workers : Part(InHand(worker[v].task), InHand(worker'[v].task))
  BY <1>1, <1>4, LoopsPart
<1>. QED
  BY <1>2, <1>5, Drops

LEMMA PassDrops ==
  ASSUME TypeOK, TypeOK', UNCHANGED <<queue, worker>>, NEW m \in Monitors, NEW y,
         sweep' = [sweep EXCEPT ![m] = y], PassPart(sweep[m], y)
  PROVE  NoneCopied
<1>1. SweepOK /\ WorkerOK
  BY DEF TypeOK
<1>2. sweep'[m] = y /\ \A n \in Monitors : n # m => sweep'[n] = sweep[n]
  BY <1>1 DEF SweepOK
<1>3. \A n \in Monitors : PassPart(sweep[n], sweep'[n])
  BY <1>1, <1>2, PassesPart
<1>4. \A w \in Workers : Part(InHand(worker[w].task), InHand(worker'[w].task))
  BY <1>1, LoopsPart
<1>. QED
  BY <1>3, <1>4, Drops

\* A place whose contents stay.
LEMMA StaysPart ==
  ASSUME TypeOK, NEW p \in Places, Contents'[p] = Contents[p]
  PROVE  Part(Contents[p], Contents'[p])
BY ContentsType, PartSame DEF ListOK

\* A pass exchanges an id with a list, or moves it within what it holds.
Elsewhere(q, m) ==
  \A p \in Places \ {<<"list", q>>, <<"keep", m>>, <<"requeue", m>>, <<"hand", m>>} :
     Part(Contents[p], Contents'[p])

LEMMA PassElsewhere ==
  ASSUME TypeOK, NEW q \in Queues, NEW m \in Monitors, UNCHANGED worker,
         \A l \in Queues : l # q => queue'[l] = queue[l],
         \A n \in Monitors : n # m => sweep'[n] = sweep[n]
  PROVE  Elsewhere(q, m)
<1>1. ASSUME NEW p \in Places \ {<<"list", q>>, <<"keep", m>>, <<"requeue", m>>, <<"hand", m>>}
      PROVE  Contents'[p] = Contents[p]
  <2>1. CASE \E l \in Queues : p = <<"list", l>>
    BY <2>1, ContentsAre, ContentsNext
  <2>2. CASE \E n \in Monitors : p \in {<<"keep", n>>, <<"requeue", n>>, <<"hand", n>>}
    <3>1. PICK n \in Monitors : p \in {<<"keep", n>>, <<"requeue", n>>, <<"hand", n>>}
      BY <2>2
    <3>2. sweep'[n] = sweep[n]
      <4>1. n # m
        BY <3>1
      <4>. QED
        BY <4>1
    <3>3. CASE p = <<"keep", n>>
      <4>1. Contents[p] = sweep[n].keep
        BY <3>3, ContentsAre
      <4>2. Contents'[p] = sweep'[n].keep
        BY <3>3, ContentsNext
      <4>. QED
        BY <3>2, <4>1, <4>2
    <3>4. CASE p = <<"requeue", n>>
      <4>1. Contents[p] = sweep[n].requeue
        BY <3>4, ContentsAre
      <4>2. Contents'[p] = sweep'[n].requeue
        BY <3>4, ContentsNext
      <4>. QED
        BY <3>2, <4>1, <4>2
    <3>5. CASE p = <<"hand", n>>
      <4>1. Contents[p] = InHand(sweep[n].hand)
        BY <3>5, ContentsAre
      <4>2. Contents'[p] = InHand(sweep'[n].hand)
        BY <3>5, ContentsNext
      <4>. QED
        BY <3>2, <4>1, <4>2
    <3>. QED
      BY <3>1, <3>3, <3>4, <3>5
  <2>3. CASE \E w \in Workers : p = <<"loop", w>>
    BY <2>3, ContentsAre, ContentsNext
  <2>. QED
    BY <2>1, <2>2, <2>3, PlacesAre
<1>. QED
  BY <1>1, StaysPart DEF Elsewhere

LEMMA CopiesLoop ==
  ASSUME TypeOK, TypeOK', NEW w \in Workers,
         \/ LoopStep(w) \/ StopStep(w) \/ Restart(w) \/ Expire(w) \/ WorkerFault(w)
  PROVE  NoneCopied
<1>1. WorkerOK /\ QueueOK /\ worker[w] \in WorkerState
  BY DEF TypeOK, WorkerOK
<1>2. UNCHANGED sweep
  BY DEF LoopStep, StopStep, WorkerFault, Take, Miss, Load, Start, Run, CompleteValue,
         CompleteStatus, Stop, StopError, StopStatus, Restart, Expire, WorkerCrash,
         LoopError, CompleteError, StopFault
<1>3. CASE Take(w)
  <2> DEFINE s == Scanned(w)
  <2>1. s \in Queues
    BY <1>1, ScannedQueue DEF WorkerState
  <2>2. PICK q \in Queues : q = s
    BY <2>1
  <2>3. /\ queue' = [queue EXCEPT ![q] = Tail(queue[q])] /\ queue[q] # <<>>
        /\ worker' = [worker EXCEPT ![w] = [Idle EXCEPT !.pc = "load", !.task = Head(queue[q])]]
    BY <1>3, <2>2 DEF Take
  <2>4. queue[q] \in Seq(Tasks) /\ Head(queue[q]) \in Tasks
    BY <1>1, <2>3, HeadTailType DEF QueueOK
  <2>5. PICK x \in Tasks : x = Head(queue[q])
    BY <2>4
  <2>6. [Idle EXCEPT !.pc = "load", !.task = x].task = x
    BY DEF Idle
  <2>7. /\ queue'[q] = Tail(queue[q]) /\ \A l \in Queues : l # q => queue'[l] = queue[l]
        /\ worker'[w].task = x /\ \A v \in Workers : v # w => worker'[v] = worker[v]
    BY <1>1, <2>3, <2>5, <2>6 DEF QueueOK, WorkerOK
  <2> DEFINE a == <<"list", q>>
             b == <<"loop", w>>
  <2>8. a \in Places /\ b \in Places /\ a # b
    BY PlacesAre
  <2>9. Loses(Contents[a], Contents'[a], x)
    BY <2>3, <2>4, <2>5, <2>7, LosesHead, ContentsAre, ContentsNext
  <2>10. Gains(Contents[b], Contents'[b], x)
    BY <2>7, GainsHand, ContentsNext
  <2>11. ASSUME NEW p \in Places \ {a, b}
         PROVE  Contents'[p] = Contents[p]
    <3>1. CASE \E l \in Queues : p = <<"list", l>>
      BY <2>7, <3>1, ContentsAre, ContentsNext
    <3>2. CASE \E n \in Monitors : p \in {<<"keep", n>>, <<"requeue", n>>, <<"hand", n>>}
      <4>1. PICK n \in Monitors : p \in {<<"keep", n>>, <<"requeue", n>>, <<"hand", n>>}
        BY <3>2
      <4>2. CASE p = <<"keep", n>>
        BY <1>2, <4>2, ContentsAre, ContentsNext
      <4>3. CASE p = <<"requeue", n>>
        BY <1>2, <4>3, ContentsAre, ContentsNext
      <4>4. CASE p = <<"hand", n>>
        BY <1>2, <4>4, ContentsAre, ContentsNext
      <4>. QED
        BY <4>1, <4>2, <4>3, <4>4
    <3>3. CASE \E v \in Workers : p = <<"loop", v>>
      BY <2>7, <3>3, ContentsAre, ContentsNext
    <3>. QED
      BY <3>1, <3>2, <3>3, PlacesAre
  <2>12. \A p \in Places \ {a, b} : Part(Contents[p], Contents'[p])
    BY <2>11, StaysPart
  <2> HIDE DEF a, b
  <2>. QED
    BY <2>8, <2>9, <2>10, <2>12, Moves
<1>4. CASE ~ Take(w)
  <2>1. NextIteration(w).task = NoTask /\ Idle.task = NoTask /\ Down.task = NoTask
    BY NextHand DEF Idle, Down
  <2>2. UNCHANGED queue
    BY <1>4 DEF LoopStep, StopStep, WorkerFault, Miss, Load, Start, Run, CompleteValue,
         CompleteStatus, Stop, StopError, StopStatus, Restart, Expire, WorkerCrash,
         LoopError, CompleteError, StopFault
  <2>3. ASSUME NEW y, worker' = [worker EXCEPT ![w] = y],
               y.task \in {worker[w].task, NoTask}
        PROVE  NoneCopied
    BY <1>2, <2>2, <2>3, LoopDrops
  <2>4. CASE \/ Miss(w) \/ Load(w) \/ CompleteStatus(w) \/ Restart(w) \/ WorkerCrash(w)
             \/ LoopError(w)
    <3>1. [worker[w] EXCEPT !.at = @ + 1].task = worker[w].task
      BY <1>1 DEF WorkerState
    <3>2. [worker[w] EXCEPT !.pc = "start"].task = worker[w].task
      BY <1>1 DEF WorkerState
    <3>. QED
      BY <2>1, <2>3, <2>4, <3>1, <3>2
         DEF Miss, Load, CompleteStatus, Restart, WorkerCrash, LoopError
  <2>5. CASE Start(w) \/ CompleteValue(w) \/ Run(w) \/ CompleteError(w)
    <3>1. \A p : [worker[w] EXCEPT !.pc = p].task = worker[w].task
      BY <1>1 DEF WorkerState
    <3>2. \A o, g : [worker[w] EXCEPT !.pc = "value", !.out = o, !.guarded = g].task
                      = worker[w].task
      BY <1>1 DEF WorkerState
    <3>3. CASE Start(w) \/ CompleteValue(w)
      BY <2>3, <3>1, <3>3 DEF Start, CompleteValue
    <3>4. CASE Run(w)
      <4>1. PICK o, g : worker' = [worker EXCEPT ![w] = [worker[w] EXCEPT
                                     !.pc = "value", !.out = o, !.guarded = g]]
        BY <3>4 DEF Run
      <4>. QED
        BY <2>3, <3>2, <4>1
    <3>5. CASE CompleteError(w)
      BY <2>3, <3>2, <3>5 DEF CompleteError
    <3>. QED
      BY <2>5, <3>3, <3>4, <3>5
  <2>6. CASE StopStep(w) \/ Expire(w) \/ StopFault(w)
    <3>1. UNCHANGED worker
      BY <2>6 DEF StopStep, Stop, StopError, StopStatus, Expire, StopFault
    <3>. QED
      BY <1>2, <2>2, <3>1, NothingCopied
  <2>. QED
    BY <1>4, <2>4, <2>5, <2>6 DEF LoopStep, WorkerFault
<1>. QED
  BY <1>3, <1>4

LEMMA CopiesPass ==
  ASSUME TypeOK, TypeOK', NEW m \in Monitors, SweepStep(m) \/ SweepFault(m) \/ RequeueError(m)
  PROVE  NoneCopied
<1> DEFINE old == sweep[m]
           keep == <<"keep", m>>
           requeue == <<"requeue", m>>
           hand == <<"hand", m>>
<1>1. /\ SweepOK /\ QueueOK /\ old \in SweepState
      /\ old.keep \in Seq(Tasks) /\ old.requeue \in Seq(Tasks)
      /\ old.hand \in Tasks \cup {NoTask}
      /\ old.pc # "rest" => old.of \in Workers /\ old.of \in Queues
      /\ old.pc = "load" => old.hand \in Tasks
      /\ old.pc = "push" => old.requeue # <<>>
  BY DEF TypeOK, SweepOK, SweepState, Queues
<1>2. UNCHANGED worker
  BY DEF SweepStep, SweepBegin, SweepPop, SweepLoad, SweepKeep, SweepUnpin, SweepPush,
         SweepFault, RequeueError
<1>3. ASSUME NEW y, sweep' = [sweep EXCEPT ![m] = y], UNCHANGED queue, PassPart(old, y)
      PROVE  NoneCopied
  BY <1>2, <1>3, PassDrops
<1>4. PassPart(old, old) /\ \A s : Part(s, <<>>)
  BY <1>1, PassesPart, PartEmpty
<1>5. ASSUME NEW y, y.keep = <<>>, y.requeue = <<>>, y.hand = NoTask
      PROVE  PassPart(old, y)
  <2>1. InHand(y.hand) = <<>>
    BY <1>5 DEF InHand
  <2>. QED
    BY <1>4, <1>5, <2>1 DEF PassPart
<1>6. ASSUME NEW y, y.keep = old.keep, y.requeue = old.requeue, y.hand = old.hand
      PROVE  PassPart(old, y)
  BY <1>4, <1>6 DEF PassPart
<1>7. /\ keep \in Places /\ requeue \in Places /\ hand \in Places
      /\ \A q \in Queues : <<"list", q>> \in Places
      /\ keep # requeue /\ keep # hand /\ requeue # hand
      /\ \A q \in Queues : <<"list", q>> \notin {keep, requeue, hand}
  BY PlacesAre
<1>8. /\ Contents[keep] = old.keep /\ Contents[requeue] = old.requeue
      /\ Contents[hand] = InHand(old.hand)
      /\ \A q \in Queues : Contents[<<"list", q>>] = queue[q]
  BY ContentsAre
<1>9. ASSUME NEW p \in Places, Contents'[p] = Contents[p]
       PROVE  Part(Contents[p], Contents'[p])
  BY <1>9, StaysPart
<1>10. CASE SweepBegin(m)
  <2>1. PICK w \in Workers :
          sweep' = [sweep EXCEPT ![m] = [Resting EXCEPT !.pc = "pop", !.of = w]]
    BY <1>10 DEF SweepBegin, TypeOK
  <2> DEFINE y == [Resting EXCEPT !.pc = "pop", !.of = w]
  <2>2. y.keep = <<>> /\ y.requeue = <<>> /\ y.hand = NoTask
    BY DEF Resting
  <2>3. UNCHANGED queue
    BY <1>10 DEF SweepBegin
  <2>. QED
    BY <1>3, <1>5, <2>1, <2>2, <2>3
<1>11. CASE SweepFault(m)
  <2>1. sweep' = [sweep EXCEPT ![m] = Resting] /\ UNCHANGED queue
    BY <1>11 DEF SweepFault
  <2>2. Resting.keep = <<>> /\ Resting.requeue = <<>> /\ Resting.hand = NoTask
    BY DEF Resting
  <2>. QED
    BY <1>3, <1>5, <2>1, <2>2
<1>12. CASE SweepPop(m)
  <2>1. old.pc = "pop" /\ old.of \in Queues
    BY <1>1, <1>12 DEF SweepPop
  <2>2. PICK q \in Queues : q = old.of
    BY <2>1
  <2>3. CASE old.seen < ScanLimit /\ queue[q] # <<>>
    <3>1. queue[q] \in Seq(Tasks) /\ Head(queue[q]) \in Tasks
      BY <1>1, <2>3, HeadTailType DEF QueueOK
    <3>2. PICK x \in Tasks : x = Head(queue[q])
      BY <3>1
    <3> DEFINE y == [old EXCEPT !.pc = "load", !.seen = @ + 1, !.hand = x]
               s == Tail(queue[q])
               a == <<"list", q>>
    <3>3. queue' = [queue EXCEPT ![q] = s] /\ sweep' = [sweep EXCEPT ![m] = y]
      BY <1>12, <2>2, <2>3, <3>2 DEF SweepPop
    <3>4. y.keep = old.keep /\ y.requeue = old.requeue /\ y.hand = x
      BY <1>1 DEF SweepState
    <3>5. Loses(queue[q], s, x)
      BY <2>3, <3>1, <3>2, LosesHead
    <3>6. a \in Places /\ a \notin {keep, requeue, hand} /\ Contents[a] = queue[q]
      BY <1>7, <1>8
    <3> HIDE DEF y, s
    <3>7. /\ queue'[q] = s /\ \A l \in Queues : l # q => queue'[l] = queue[l]
          /\ sweep'[m] = y /\ \A n \in Monitors : n # m => sweep'[n] = sweep[n]
      BY <1>1, <3>3 DEF QueueOK, SweepOK
    <3>8. /\ Elsewhere(q, m)
          /\ Contents'[a] = s /\ Contents'[keep] = old.keep
          /\ Contents'[requeue] = old.requeue /\ Contents'[hand] = InHand(x)
      BY <1>2, <3>4, <3>7, PassElsewhere, ContentsNext
    <3>9. \A p \in Places \ {a, keep, requeue, hand} : Part(Contents[p], Contents'[p])
      BY <3>8 DEF Elsewhere
    <3> HIDE DEF a, keep, requeue, hand
    <3>10. Loses(Contents[a], Contents'[a], x) /\ Gains(Contents[hand], Contents'[hand], x)
      BY <3>5, <3>6, <3>8, GainsHand
    <3>11. \A p \in Places \ {a, hand} : Part(Contents[p], Contents'[p])
      BY <1>7, <1>8, <1>9, <3>8, <3>9
    <3>. QED
      BY <1>7, <3>6, <3>10, <3>11, Moves
  <2>4. CASE ~ (old.seen < ScanLimit /\ queue[q] # <<>>)
    <3> DEFINE y == [old EXCEPT !.pc = "keep"]
    <3>1. sweep' = [sweep EXCEPT ![m] = y] /\ UNCHANGED queue
      BY <1>12, <2>2, <2>4 DEF SweepPop
    <3>2. y.keep = old.keep /\ y.requeue = old.requeue /\ y.hand = old.hand
      BY <1>1 DEF SweepState
    <3>. QED
      BY <1>3, <1>6, <3>1, <3>2
  <2>. QED
    BY <2>3, <2>4
<1>13. CASE SweepLoad(m)
  <2>1. old.pc = "load" /\ old.hand \in Tasks /\ old.of \in Queues /\ UNCHANGED queue
    BY <1>1, <1>13 DEF SweepLoad
  <2>2. PICK q \in Queues : q = old.of
    BY <2>1
  <2>3. PICK x \in Tasks : x = old.hand
    BY <2>1
  <2> DEFINE back == [old EXCEPT !.pc = "pop", !.hand = NoTask]
             keeping == [back EXCEPT !.keep = Append(@, x)]
             requeuing == [back EXCEPT !.requeue = Append(@, x)]
             s == queue[q]
             a == <<"list", q>>
  <2>4. \/ sweep' = [sweep EXCEPT ![m] = back]
        \/ sweep' = [sweep EXCEPT ![m] = keeping]
        \/ sweep' = [sweep EXCEPT ![m] = requeuing]
    BY <1>13, <2>3 DEF SweepLoad
  <2>5. /\ back.hand = NoTask /\ back.keep = old.keep /\ back.requeue = old.requeue
        /\ keeping.hand = NoTask /\ keeping.keep = Append(old.keep, x)
        /\ keeping.requeue = old.requeue
        /\ requeuing.hand = NoTask /\ requeuing.requeue = Append(old.requeue, x)
        /\ requeuing.keep = old.keep
    BY <1>1 DEF SweepState
  <2>6. queue' = [queue EXCEPT ![q] = s]
    BY <1>1, <2>1 DEF QueueOK
  <2>7. a \in Places /\ a \notin {keep, requeue, hand} /\ Contents[a] = s
    BY <1>7, <1>8
  <2>8. /\ Loses(InHand(x), InHand(NoTask), x)
        /\ Gains(old.keep, Append(old.keep, x), x)
        /\ Gains(old.requeue, Append(old.requeue, x), x)
    BY <1>1, LosesHand, GainsLast
  <2> HIDE DEF back, keeping, requeuing, s
  <2>9. CASE sweep' = [sweep EXCEPT ![m] = back]
    <3>1. PassPart(old, back)
      BY <1>1, <1>4, <2>5, PartHand DEF PassPart
    <3>. QED
      BY <1>3, <2>1, <2>9, <3>1
  <2>10. CASE sweep' = [sweep EXCEPT ![m] = keeping]
    <3>1. /\ queue'[q] = s /\ \A l \in Queues : l # q => queue'[l] = queue[l]
          /\ sweep'[m] = keeping /\ \A n \in Monitors : n # m => sweep'[n] = sweep[n]
      BY <1>1, <2>6, <2>10 DEF QueueOK, SweepOK
    <3>2. /\ Elsewhere(q, m)
          /\ Contents'[a] = s /\ Contents'[keep] = Append(old.keep, x)
          /\ Contents'[requeue] = old.requeue /\ Contents'[hand] = InHand(NoTask)
      BY <1>2, <2>5, <3>1, PassElsewhere, ContentsNext
    <3>3. \A p \in Places \ {a, keep, requeue, hand} : Part(Contents[p], Contents'[p])
      BY <3>2 DEF Elsewhere
    <3> HIDE DEF a, keep, requeue, hand
    <3>4. Loses(Contents[hand], Contents'[hand], x) /\ Gains(Contents[keep], Contents'[keep], x)
      BY <1>8, <2>3, <2>8, <3>2
    <3>5. \A p \in Places \ {hand, keep} : Part(Contents[p], Contents'[p])
      BY <1>7, <1>8, <1>9, <2>7, <3>2, <3>3
    <3>. QED
      BY <1>7, <3>4, <3>5, Moves
  <2>11. CASE sweep' = [sweep EXCEPT ![m] = requeuing]
    <3>1. /\ queue'[q] = s /\ \A l \in Queues : l # q => queue'[l] = queue[l]
          /\ sweep'[m] = requeuing /\ \A n \in Monitors : n # m => sweep'[n] = sweep[n]
      BY <1>1, <2>6, <2>11 DEF QueueOK, SweepOK
    <3>2. /\ Elsewhere(q, m)
          /\ Contents'[a] = s /\ Contents'[keep] = old.keep
          /\ Contents'[requeue] = Append(old.requeue, x)
          /\ Contents'[hand] = InHand(NoTask)
      BY <1>2, <2>5, <3>1, PassElsewhere, ContentsNext
    <3>3. \A p \in Places \ {a, keep, requeue, hand} : Part(Contents[p], Contents'[p])
      BY <3>2 DEF Elsewhere
    <3> HIDE DEF a, keep, requeue, hand
    <3>4. /\ Loses(Contents[hand], Contents'[hand], x)
          /\ Gains(Contents[requeue], Contents'[requeue], x)
      BY <1>8, <2>3, <2>8, <3>2
    <3>5. \A p \in Places \ {hand, requeue} : Part(Contents[p], Contents'[p])
      BY <1>7, <1>8, <1>9, <2>7, <3>2, <3>3
    <3>. QED
      BY <1>7, <3>4, <3>5, Moves
  <2>. QED
    BY <2>4, <2>9, <2>10, <2>11
<1>14. CASE SweepKeep(m)
  <2>1. old.pc = "keep" /\ old.of \in Queues
    BY <1>1, <1>14 DEF SweepKeep
  <2>2. PICK q \in Queues : q = old.of
    BY <2>1
  <2>3. CASE old.keep # <<>>
    <3>1. PICK x \in Tasks : x = Last(old.keep)
      BY <1>1, <2>3, LastFrontType
    <3> DEFINE y == [old EXCEPT !.keep = Front(@)]
               s == <<x>> \o queue[q]
               a == <<"list", q>>
    <3>2. queue' = [queue EXCEPT ![q] = s] /\ sweep' = [sweep EXCEPT ![m] = y]
      BY <1>14, <2>2, <2>3, <3>1 DEF SweepKeep
    <3>3. y.keep = Front(old.keep) /\ y.requeue = old.requeue /\ y.hand = old.hand
      BY <1>1 DEF SweepState
    <3>4. queue[q] \in Seq(Tasks)
      BY <1>1 DEF QueueOK
    <3>5. Loses(old.keep, Front(old.keep), x) /\ Gains(queue[q], s, x)
      BY <1>1, <2>3, <3>1, <3>4, LosesLast, GainsFirst
    <3>6. a \in Places /\ a \notin {keep, requeue, hand} /\ Contents[a] = queue[q]
      BY <1>7, <1>8
    <3> HIDE DEF y, s
    <3>7. /\ queue'[q] = s /\ \A l \in Queues : l # q => queue'[l] = queue[l]
          /\ sweep'[m] = y /\ \A n \in Monitors : n # m => sweep'[n] = sweep[n]
      BY <1>1, <3>2 DEF QueueOK, SweepOK
    <3>8. /\ Elsewhere(q, m)
          /\ Contents'[a] = s /\ Contents'[keep] = Front(old.keep)
          /\ Contents'[requeue] = old.requeue /\ Contents'[hand] = InHand(old.hand)
      BY <1>2, <3>3, <3>7, PassElsewhere, ContentsNext
    <3>9. \A p \in Places \ {a, keep, requeue, hand} : Part(Contents[p], Contents'[p])
      BY <3>8 DEF Elsewhere
    <3> HIDE DEF a, keep, requeue, hand
    <3>10. Loses(Contents[keep], Contents'[keep], x) /\ Gains(Contents[a], Contents'[a], x)
      BY <1>8, <3>5, <3>6, <3>8
    <3>11. \A p \in Places \ {keep, a} : Part(Contents[p], Contents'[p])
      BY <1>7, <1>8, <1>9, <3>8, <3>9
    <3>. QED
      BY <1>7, <3>6, <3>10, <3>11, Moves
  <2>4. CASE old.keep = <<>>
    <3> DEFINE y == [old EXCEPT !.pc = "unpin"]
    <3>1. sweep' = [sweep EXCEPT ![m] = y] /\ UNCHANGED queue
      BY <1>14, <2>4 DEF SweepKeep
    <3>2. y.keep = old.keep /\ y.requeue = old.requeue /\ y.hand = old.hand
      BY <1>1 DEF SweepState
    <3>. QED
      BY <1>3, <1>6, <3>1, <3>2
  <2>. QED
    BY <2>3, <2>4
<1>15. CASE SweepUnpin(m)
  <2>1. UNCHANGED queue
    BY <1>15 DEF SweepUnpin
  <2>2. CASE old.requeue # <<>>
    <3> DEFINE y == [old EXCEPT !.pc = "push"]
    <3>1. sweep' = [sweep EXCEPT ![m] = y]
      BY <1>15, <2>2 DEF SweepUnpin
    <3>2. y.keep = old.keep /\ y.requeue = old.requeue /\ y.hand = old.hand
      BY <1>1 DEF SweepState
    <3>. QED
      BY <1>3, <1>6, <2>1, <3>1, <3>2
  <2>3. CASE old.requeue = <<>>
    <3>1. sweep' = [sweep EXCEPT ![m] = Resting]
      BY <1>15, <2>3 DEF SweepUnpin
    <3>2. Resting.keep = <<>> /\ Resting.requeue = <<>> /\ Resting.hand = NoTask
      BY DEF Resting
    <3>. QED
      BY <1>3, <1>5, <2>1, <3>1, <3>2
  <2>. QED
    BY <2>2, <2>3
<1>16. CASE SweepPush(m)
  <2>1. old.pc = "push" /\ old.requeue # <<>>
    BY <1>1, <1>16 DEF SweepPush
  <2>2. PICK x \in Tasks : x = Head(old.requeue)
    BY <1>1, <2>1, HeadTailType
  <2>3. PICK q \in Queues : q = PrioOf[x]
    BY BrokerAssumption DEF Queues
  <2> DEFINE y == [old EXCEPT !.pc = "unpin", !.requeue = Tail(@)]
             s == Append(queue[q], x)
             a == <<"list", q>>
  <2>4. queue' = [queue EXCEPT ![q] = s] /\ sweep' = [sweep EXCEPT ![m] = y]
    BY <1>16, <2>2, <2>3 DEF SweepPush
  <2>5. y.keep = old.keep /\ y.requeue = Tail(old.requeue) /\ y.hand = old.hand
    BY <1>1 DEF SweepState
  <2>6. queue[q] \in Seq(Tasks)
    BY <1>1 DEF QueueOK
  <2>7. Loses(old.requeue, Tail(old.requeue), x) /\ Gains(queue[q], s, x)
    BY <1>1, <2>1, <2>2, <2>6, LosesHead, GainsLast
  <2>8. a \in Places /\ a \notin {keep, requeue, hand} /\ Contents[a] = queue[q]
    BY <1>7, <1>8
  <2> HIDE DEF y, s
  <2>9. /\ queue'[q] = s /\ \A l \in Queues : l # q => queue'[l] = queue[l]
        /\ sweep'[m] = y /\ \A n \in Monitors : n # m => sweep'[n] = sweep[n]
    BY <1>1, <2>4 DEF QueueOK, SweepOK
  <2>10. /\ Elsewhere(q, m)
         /\ Contents'[a] = s /\ Contents'[keep] = old.keep
         /\ Contents'[requeue] = Tail(old.requeue) /\ Contents'[hand] = InHand(old.hand)
    BY <1>2, <2>5, <2>9, PassElsewhere, ContentsNext
  <2>11. \A p \in Places \ {a, keep, requeue, hand} : Part(Contents[p], Contents'[p])
    BY <2>10 DEF Elsewhere
  <2> HIDE DEF a, keep, requeue, hand
  <2>12. /\ Loses(Contents[requeue], Contents'[requeue], x)
         /\ Gains(Contents[a], Contents'[a], x)
    BY <1>8, <2>7, <2>8, <2>10
  <2>13. \A p \in Places \ {requeue, a} : Part(Contents[p], Contents'[p])
    BY <1>7, <1>8, <1>9, <2>10, <2>11
  <2>. QED
    BY <1>7, <2>8, <2>12, <2>13, Moves
<1>17. CASE RequeueError(m)
  <2> DEFINE y == [old EXCEPT !.pc = "unpin", !.requeue = Tail(@)]
  <2>1. old.requeue # <<>> /\ sweep' = [sweep EXCEPT ![m] = y] /\ UNCHANGED queue
    BY <1>1, <1>17 DEF RequeueError
  <2>2. y.keep = old.keep /\ y.requeue = Tail(old.requeue) /\ y.hand = old.hand
    BY <1>1 DEF SweepState
  <2>3. Part(old.requeue, Tail(old.requeue))
    BY <1>1, <2>1, LosesHead
  <2> HIDE DEF y
  <2>4. PassPart(old, y)
    BY <1>4, <2>2, <2>3 DEF PassPart
  <2>. QED
    BY <1>3, <2>1, <2>4
<1>. QED
  BY <1>10, <1>11, <1>12, <1>13, <1>14, <1>15, <1>16, <1>17 DEF SweepStep

\* A submission's push is the one step that adds a copy, and it is a push more.
LEMMA InjectionWider ==
  ASSUME NEW S, NEW T, NEW R, NEW U, ExistsInjection(S, T), R \subseteq S, T \subseteq U
  PROVE  ExistsInjection(R, U)
<1>1. PICK f : f \in Injection(S, T)
  BY DEF ExistsInjection
<1>2. f \in [S -> T] /\ \A x, y \in S : f[x] = f[y] => x = y
  BY <1>1, Fun_InjectionProperties
<1> DEFINE g == [x \in R |-> f[x]]
<1>3. g \in [R -> U] /\ \A x, y \in R : g[x] = g[y] => x = y
  BY <1>2
<1>4. g \in Injection(R, U)
  BY <1>3 DEF Injection, IsInjective
<1>. QED
  BY <1>4 DEF ExistsInjection

LEMMA InjectionPlus ==
  ASSUME NEW S, NEW T, NEW R, NEW U, ExistsInjection(S, T), T \subseteq U,
         \E s : R \subseteq S \cup {s}, \E u \in U : u \notin T
  PROVE  ExistsInjection(R, U)
<1>1. PICK s : R \subseteq S \cup {s}
  OBVIOUS
<1>2. PICK u \in U : u \notin T
  OBVIOUS
<1>3. PICK f : f \in Injection(S, T)
  BY DEF ExistsInjection
<1>4. f \in [S -> T] /\ \A x, y \in S : f[x] = f[y] => x = y
  BY <1>3, Fun_InjectionProperties
<1> DEFINE g == [x \in R |-> IF x \in S THEN f[x] ELSE u]
<1>5. g \in [R -> U] /\ \A x, y \in R : g[x] = g[y] => x = y
  BY <1>4, <1>1, <1>2
<1>6. g \in Injection(R, U)
  BY <1>5 DEF Injection, IsInjective
<1>. QED
  BY <1>6 DEF ExistsInjection

LEMMA SpotsPushed ==
  ASSUME NEW C, NEW D, NEW a \in Places, NEW x \in Tasks, C[a] \in Seq(Tasks),
         D[a] = Append(C[a], x), \A p \in Places \ {a} : D[p] = C[p], NEW t
  PROVE  /\ Spots(D, t) \subseteq Spots(C, t) \cup {<<a, Len(C[a]) + 1>>}
         /\ t # x => Spots(D, t) \subseteq Spots(C, t)
<1> DEFINE n == Len(C[a]) + 1
<1>1. \A i \in DOMAIN D[a] : \/ i \in DOMAIN C[a] /\ D[a][i] = C[a][i]
                             \/ i = n /\ D[a][i] = x
  <2>1. /\ Append(C[a], x) \in Seq(Tasks) /\ Len(Append(C[a], x)) = Len(C[a]) + 1
        /\ \A i \in 1..Len(C[a]) : Append(C[a], x)[i] = C[a][i]
        /\ Append(C[a], x)[Len(C[a]) + 1] = x
    BY AppendProperties
  <2>2. DOMAIN C[a] = 1..Len(C[a]) /\ Len(C[a]) \in Nat /\ DOMAIN D[a] = 1..n
    BY <2>1, LenProperties
  <2>. QED
    BY <2>1, <2>2
<1> HIDE DEF n
<1>2. ASSUME NEW s \in Spots(D, t)
      PROVE  s \in Spots(C, t) \/ (s = <<a, n>> /\ t = x)
  <2>1. /\ s = <<s[1], s[2]>> /\ s[1] \in Places
        /\ s[2] \in DOMAIN D[s[1]] /\ D[s[1]][s[2]] = t
    BY SpotFields
  <2>2. CASE s[1] = a
    <3>1. \/ s[2] \in DOMAIN C[a] /\ C[a][s[2]] = t
          \/ s[2] = n /\ t = x
      BY <1>1, <2>1, <2>2
    <3>. QED
      BY <2>1, <2>2, <3>1, SpotFields
  <2>3. CASE s[1] # a
    BY <2>1, <2>3, SpotFields
  <2>. QED
    BY <2>2, <2>3
<1>. QED
  BY <1>2 DEF n

CopyInv == \A t \in Tasks : ExistsInjection(Copies(t), Pushed(t))

\* A step that copies nothing and takes no push back.
LEMMA CopyKept ==
  ASSUME CopyInv, NoneCopied,
         \A r \in Requests : submit[r] = "done" => submit'[r] = "done"
  PROVE  CopyInv'
<1> SUFFICES ASSUME NEW t \in Tasks
             PROVE  ExistsInjection(Copies(t)', Pushed(t)')
  BY DEF CopyInv
<1> DEFINE A == Copies(t)
           B == Copies(t)'
           P == Pushed(t)
           Q == Pushed(t)'
<1>1. ExistsInjection(B, A) /\ ExistsInjection(A, P) /\ P \subseteq Q
  BY DEF NoneCopied, CopyInv, Pushed
<1> HIDE DEF A, B, P, Q
<1>2. ExistsInjection(B, P)
  BY <1>1, Fun_ExistsInjTransitive
<1>3. ExistsInjection(B, Q)
  BY <1>1, <1>2, InjectionWider
<1>. QED
  BY <1>3 DEF B, Q

LEMMA CopyPush ==
  ASSUME TypeOK, CopyInv, NEW r \in Requests, SubmitPush(r)
  PROVE  CopyInv'
<1>1. PICK x \in Tasks : x = TaskOf[r]
  BY BrokerAssumption
<1>2. PICK q \in Queues : q = IF PinOf[x] = Nobody THEN PrioOf[x] ELSE PinOf[x]
  BY BrokerAssumption DEF Queues
<1>3. /\ submit[r] = "push" /\ submit' = [submit EXCEPT ![r] = "done"]
      /\ queue' = [queue EXCEPT ![q] = Append(queue[q], x)]
      /\ UNCHANGED <<sweep, worker>>
  BY <1>1, <1>2 DEF SubmitPush
<1>4. queue'[q] = Append(queue[q], x) /\ \A l \in Queues : l # q => queue'[l] = queue[l]
  BY <1>3 DEF TypeOK, QueueOK
<1> DEFINE a == <<"list", q>>
           C == Contents
           D == Contents'
<1>5. a \in Places /\ C[a] \in Seq(Tasks) /\ D[a] = Append(C[a], x)
  BY <1>4, PlacesAre, ContentsType, ContentsAre, ContentsNext DEF ListOK
<1>6. \A p \in Places \ {a} : D[p] = C[p]
  <2> SUFFICES ASSUME NEW p \in Places \ {a}
               PROVE  D[p] = C[p]
    OBVIOUS
  <2>1. CASE \E l \in Queues : p = <<"list", l>>
    BY <1>4, <2>1, ContentsAre, ContentsNext
  <2>2. CASE \E n \in Monitors : p \in {<<"keep", n>>, <<"requeue", n>>, <<"hand", n>>}
    <3>1. PICK n \in Monitors : p \in {<<"keep", n>>, <<"requeue", n>>, <<"hand", n>>}
      BY <2>2
    <3>2. CASE p = <<"keep", n>>
      BY <1>3, <3>2, ContentsAre, ContentsNext
    <3>3. CASE p = <<"requeue", n>>
      BY <1>3, <3>3, ContentsAre, ContentsNext
    <3>4. CASE p = <<"hand", n>>
      BY <1>3, <3>4, ContentsAre, ContentsNext
    <3>. QED
      BY <3>1, <3>2, <3>3, <3>4
  <2>3. CASE \E v \in Workers : p = <<"loop", v>>
    BY <1>3, <2>3, ContentsAre, ContentsNext
  <2>. QED
    BY <2>1, <2>2, <2>3, PlacesAre
<1>7. SUFFICES ASSUME NEW t \in Tasks
               PROVE  ExistsInjection(Copies(t)', Pushed(t)')
  BY DEF CopyInv
<1> DEFINE P == Pushed(t)
           Q == Pushed(t)'
<1>8. ExistsInjection(Spots(C, t), P) /\ Copies(t)' = Spots(D, t)
  BY CopiesAreSpots DEF CopyInv
<1>9. \A o \in Requests : o # r => submit'[o] = submit[o]
  BY <1>3 DEF TypeOK, SubmitOK
<1>10. submit'[r] = "done"
  BY <1>3 DEF TypeOK, SubmitOK
<1>11. P \subseteq Q /\ (t = x => r \in Q /\ r \notin P)
  BY <1>1, <1>3, <1>9, <1>10 DEF Pushed
<1> HIDE DEF C, D, P, Q, a
<1>12. /\ Spots(D, t) \subseteq Spots(C, t) \cup {<<a, Len(C[a]) + 1>>}
       /\ t # x => Spots(D, t) \subseteq Spots(C, t)
  BY <1>5, <1>6, SpotsPushed
<1>13. CASE t = x
  <2>1. ExistsInjection(Spots(D, t), Q)
    <3>1. \E s : Spots(D, t) \subseteq Spots(C, t) \cup {s}
      BY <1>12
    <3>2. P \subseteq Q /\ \E u \in Q : u \notin P
      BY <1>11, <1>13
    <3>. QED
      BY <1>8, <3>1, <3>2, InjectionPlus
  <2>. QED
    BY <1>8, <2>1 DEF Q
<1>14. CASE t # x
  <2>1. ExistsInjection(Spots(D, t), Q)
    BY <1>8, <1>11, <1>12, <1>14, InjectionWider
  <2>. QED
    BY <1>8, <2>1 DEF Q
<1>. QED
  BY <1>13, <1>14

LEMMA CopyStep == TypeOK /\ TypeOK' /\ CopyInv /\ [Next]_vars => CopyInv'
<1> SUFFICES ASSUME TypeOK, TypeOK', CopyInv, [Next]_vars
             PROVE  CopyInv'
  OBVIOUS
<1>1. CASE \E r \in Requests : RequestStep(r) \/ SubmitFault(r)
  <2>1. PICK r \in Requests : RequestStep(r) \/ SubmitFault(r)
    BY <1>1
  <2>2. CASE SubmitPush(r)
    BY <2>2, CopyPush
  <2>3. CASE SubmitCheck(r) \/ SubmitCreate(r) \/ SubmitFault(r)
    <3>1. UNCHANGED <<queue, sweep, worker>>
      BY <2>3 DEF SubmitCheck, SubmitCreate, SubmitFault
    <3>2. \A o \in Requests : submit[o] = "done" => submit'[o] = "done"
      BY <2>3 DEF SubmitCheck, SubmitCreate, SubmitFault, TypeOK, SubmitOK
    <3>. QED
      BY <3>1, <3>2, NothingCopied, CopyKept
  <2>. QED
    BY <2>1, <2>2, <2>3 DEF RequestStep
<1>2. CASE \E w \in Workers : \/ LoopStep(w) \/ StopStep(w) \/ Restart(w)
                              \/ Expire(w) \/ WorkerFault(w)
  <2>1. UNCHANGED submit
    BY <1>2 DEF LoopStep, StopStep, WorkerFault, Take, Miss, Load, Start, Run,
         CompleteValue, CompleteStatus, Stop, StopError, StopStatus, Restart, Expire,
         WorkerCrash, LoopError, CompleteError, StopFault
  <2>. QED
    BY <1>2, <2>1, CopiesLoop, CopyKept
<1>3. CASE \E c \in Cancels : CancelStep(c) \/ CancelFault(c)
  <2>1. UNCHANGED <<queue, sweep, worker, submit>>
    BY <1>3 DEF CancelStep, CancelCheck, CancelError, CancelStatus, CancelFault
  <2>. QED
    BY <2>1, NothingCopied, CopyKept
<1>4. CASE \E m \in Monitors : SweepStep(m) \/ SweepFault(m) \/ RequeueError(m)
  <2>1. UNCHANGED submit
    BY <1>4 DEF SweepStep, SweepBegin, SweepPop, SweepLoad, SweepKeep, SweepUnpin,
         SweepPush, SweepFault, RequeueError
  <2>. QED
    BY <1>4, <2>1, CopiesPass, CopyKept
<1>5. CASE UNCHANGED vars
  <2>1. UNCHANGED <<queue, sweep, worker, submit>>
    BY <1>5 DEF vars
  <2>. QED
    BY <2>1, NothingCopied, CopyKept
<1>. QED
  BY <1>1, <1>2, <1>3, <1>4, <1>5 DEF Next

LEMMA CopyInit == Init => CopyInv
<1> SUFFICES ASSUME Init, NEW t \in Tasks
             PROVE  ExistsInjection(Copies(t), Pushed(t))
  BY DEF CopyInv
<1>1. InHand(NoTask) = <<>> /\ DOMAIN <<>> = {} /\ Idle.task = NoTask
  BY DEF InHand, Idle
<1>2. Resting.keep = <<>> /\ Resting.requeue = <<>> /\ Resting.hand = NoTask
  BY DEF Resting
<1>3. ASSUME NEW p \in Places
      PROVE  Contents[p] = <<>>
  <2>1. CASE \E q \in Queues : p = <<"list", q>>
    BY <2>1, ContentsAre DEF Init
  <2>2. CASE \E m \in Monitors : p = <<"keep", m>>
    BY <1>2, <2>2, ContentsAre DEF Init
  <2>3. CASE \E m \in Monitors : p = <<"requeue", m>>
    BY <1>2, <2>3, ContentsAre DEF Init
  <2>4. CASE \E m \in Monitors : p = <<"hand", m>>
    BY <1>1, <1>2, <2>4, ContentsAre DEF Init
  <2>5. CASE \E w \in Workers : p = <<"loop", w>>
    BY <1>1, <2>5, ContentsAre DEF Init
  <2>. QED
    BY <2>1, <2>2, <2>3, <2>4, <2>5, PlacesAre
<1>4. Copies(t) = {}
  BY <1>1, <1>3, CopiesAreSpots DEF Spots
<1> DEFINE P == Pushed(t)
<1>5. ExistsInjection({}, {})
  BY Fun_ExistsInjReflexive
<1> HIDE DEF P
<1>6. ExistsInjection({}, P)
  BY <1>5, InjectionWider
<1>. QED
  BY <1>4, <1>6 DEF P

\* Nothing multiplies an id: however many monitors pop, keep and requeue ids beside
\* the workers' loops, and whatever faults and restarts do to them, an id is never in
\* more places of lists and hands than requests have pushed it.  The copies map into
\* the pushes, each to another one.
THEOREM CopiesCorrect == IsFiniteSet(Requests) => (Spec => []NoCopyMade)
<1> SUFFICES ASSUME IsFiniteSet(Requests)
             PROVE  Spec => []NoCopyMade
  OBVIOUS
<1>1. Init /\ [][Next]_vars => [](TypeOK /\ CopyInv)
  BY TypeInit, TypeStep, CopyInit, CopyStep, PTL
<1>2. CopyInv => NoCopyMade
  <2> SUFFICES ASSUME CopyInv, NEW t \in Tasks
               PROVE  Cardinality(Copies(t)) <= Cardinality(Pushed(t))
    BY DEF NoCopyMade
  <2>1. IsFiniteSet(Pushed(t))
    BY FS_Subset DEF Pushed
  <2>2. PICK f : f \in Injection(Copies(t), Pushed(t))
    BY DEF CopyInv, ExistsInjection
  <2>. QED
    BY <2>1, <2>2, FS_Injection
<1>. QED
  BY <1>1, <1>2, PTL DEF Spec

-----------------------------------------------------------------------------
(* Order.  Which ids come before which in a sequence that is put together. *)

LEMMA BeforeConcat ==
  ASSUME NEW a \in Seq(Tasks), NEW b \in Seq(Tasks), NEW x, NEW y
  PROVE  Before(a \o b, x, y) <=> \/ Before(a, x, y) \/ Before(b, x, y)
                                  \/ x \in ToSet(a) /\ y \in ToSet(b)
<1> DEFINE c == a \o b
           m == Len(a)
           n == Len(b)
<1>1. /\ m \in Nat /\ n \in Nat /\ DOMAIN a = 1..m /\ DOMAIN b = 1..n
      /\ DOMAIN c = 1..(m + n)
      /\ \A i \in 1..(m + n) : c[i] = IF i <= m THEN a[i] ELSE b[i - m]
  BY ConcatProperties, LenProperties
<1> HIDE DEF c, m, n
<1>2. /\ \A i \in DOMAIN a : i \in DOMAIN c /\ c[i] = a[i] /\ i \in Nat
      /\ \A i \in DOMAIN b : i + m \in DOMAIN c /\ c[i + m] = b[i] /\ i \in Nat
      /\ \A i \in DOMAIN a, j \in DOMAIN b : i < j + m
      /\ \A i, j \in DOMAIN b : i < j => i + m < j + m
  BY <1>1
<1>3. /\ \A i \in DOMAIN c : \/ i \in DOMAIN a /\ c[i] = a[i] /\ i <= m
                             \/ i - m \in DOMAIN b /\ c[i] = b[i - m] /\ i > m
      /\ \A i, j \in DOMAIN c : i < j => i - m < j - m
      /\ \A i, j \in DOMAIN c : i < j => ~ (i > m /\ j <= m)
  BY <1>1
<1>4. Before(c, x, y) => \/ Before(a, x, y) \/ Before(b, x, y)
                         \/ x \in ToSet(a) /\ y \in ToSet(b)
  <2> SUFFICES ASSUME NEW i \in DOMAIN c, NEW j \in DOMAIN c, i < j, c[i] = x, c[j] = y
               PROVE  \/ Before(a, x, y) \/ Before(b, x, y)
                      \/ x \in ToSet(a) /\ y \in ToSet(b)
    BY DEF Before
  <2>1. CASE i \in DOMAIN a /\ c[i] = a[i] /\ j \in DOMAIN a /\ c[j] = a[j]
    BY <2>1 DEF Before
  <2>2. CASE i \in DOMAIN a /\ c[i] = a[i] /\ j - m \in DOMAIN b /\ c[j] = b[j - m]
    BY <2>2 DEF ToSet
  <2>3. CASE /\ i - m \in DOMAIN b /\ c[i] = b[i - m]
             /\ j - m \in DOMAIN b /\ c[j] = b[j - m]
    <3>1. i - m < j - m
      BY <1>3
    <3>. QED
      BY <2>3, <3>1 DEF Before
  <2>. QED
    BY <1>3, <2>1, <2>2, <2>3
<1>5. Before(a, x, y) => Before(c, x, y)
  BY <1>2 DEF Before
<1>6. Before(b, x, y) => Before(c, x, y)
  <2> SUFFICES ASSUME NEW i \in DOMAIN b, NEW j \in DOMAIN b, i < j, b[i] = x, b[j] = y
               PROVE  Before(c, x, y)
    BY DEF Before
  <2>1. /\ i + m \in DOMAIN c /\ j + m \in DOMAIN c /\ i + m < j + m
        /\ c[i + m] = x /\ c[j + m] = y
    BY <1>2
  <2>. QED
    BY <2>1 DEF Before
<1>7. x \in ToSet(a) /\ y \in ToSet(b) => Before(c, x, y)
  <2> SUFFICES ASSUME NEW i \in DOMAIN a, NEW j \in DOMAIN b, a[i] = x, b[j] = y
               PROVE  Before(c, x, y)
    BY DEF ToSet
  <2>1. i \in DOMAIN c /\ j + m \in DOMAIN c /\ i < j + m /\ c[i] = x /\ c[j + m] = y
    BY <1>2
  <2>. QED
    BY <2>1 DEF Before
<1>. QED
  BY <1>4, <1>5, <1>6, <1>7 DEF c

LEMMA MembersConcat ==
  ASSUME NEW a \in Seq(Tasks), NEW b \in Seq(Tasks)
  PROVE  ToSet(a \o b) = ToSet(a) \cup ToSet(b)
<1> DEFINE c == a \o b
           m == Len(a)
           n == Len(b)
<1>1. /\ m \in Nat /\ n \in Nat /\ DOMAIN a = 1..m /\ DOMAIN b = 1..n
      /\ DOMAIN c = 1..(m + n)
      /\ \A i \in 1..(m + n) : c[i] = IF i <= m THEN a[i] ELSE b[i - m]
  BY ConcatProperties, LenProperties
<1> HIDE DEF c, m, n
<1>2. /\ \A i \in DOMAIN a : i \in DOMAIN c /\ c[i] = a[i]
      /\ \A i \in DOMAIN b : i + m \in DOMAIN c /\ c[i + m] = b[i]
      /\ \A i \in DOMAIN c : \/ i \in DOMAIN a /\ c[i] = a[i]
                             \/ i - m \in DOMAIN b /\ c[i] = b[i - m]
  BY <1>1
<1>3. ToSet(c) = ToSet(a) \cup ToSet(b)
  BY <1>2 DEF ToSet
<1>. QED
  BY <1>3 DEF c

LEMMA OneInSeq ==
  ASSUME NEW x \in Tasks
  PROVE  <<x>> \in Seq(Tasks) /\ ToSet(<<x>>) = {x} /\ \A y, z : ~ Before(<<x>>, y, z)
<1>1. <<x>> \in Seq(Tasks) /\ DOMAIN <<x>> = {1} /\ <<x>>[1] = x
  OBVIOUS
<1>2. \A i, j \in DOMAIN <<x>> : ~ (i < j)
  BY <1>1
<1>. QED
  BY <1>1, <1>2 DEF ToSet, Before

LEMMA BeforeAppend ==
  ASSUME NEW s \in Seq(Tasks), NEW x \in Tasks, NEW y, NEW z
  PROVE  Before(Append(s, x), y, z) <=> Before(s, y, z) \/ (y \in ToSet(s) /\ z = x)
<1> DEFINE o == <<x>>
<1>1. Append(s, x) = s \o o
  BY AppendIsConcat
<1>2. o \in Seq(Tasks) /\ ToSet(o) = {x} /\ ~ Before(o, y, z)
  BY OneInSeq
<1> HIDE DEF o
<1>3. Before(s \o o, y, z) <=> \/ Before(s, y, z) \/ Before(o, y, z)
                               \/ y \in ToSet(s) /\ z \in ToSet(o)
  BY <1>2, BeforeConcat
<1>. QED
  BY <1>1, <1>2, <1>3

LEMMA BeforePrepend ==
  ASSUME NEW s \in Seq(Tasks), NEW x \in Tasks, NEW y, NEW z
  PROVE  Before(<<x>> \o s, y, z) <=> Before(s, y, z) \/ (y = x /\ z \in ToSet(s))
<1> DEFINE o == <<x>>
<1>1. o \in Seq(Tasks) /\ ToSet(o) = {x} /\ ~ Before(o, y, z)
  BY OneInSeq
<1> HIDE DEF o
<1>2. Before(o \o s, y, z) <=> \/ Before(o, y, z) \/ Before(s, y, z)
                               \/ y \in ToSet(o) /\ z \in ToSet(s)
  BY <1>1, BeforeConcat
<1>3. Before(o \o s, y, z) <=> Before(s, y, z) \/ (y = x /\ z \in ToSet(s))
  BY <1>1, <1>2
<1>. QED
  BY <1>3 DEF o

LEMMA BeforeTail ==
  ASSUME NEW s \in Seq(Tasks), s # <<>>, NEW y, NEW z
  PROVE  Before(s, y, z) <=> Before(Tail(s), y, z) \/ (y = Head(s) /\ z \in ToSet(Tail(s)))
<1>1. Len(s) \in Nat /\ 1 \in 1..Len(s) /\ Len(s) \in 1..Len(s)
  BY EmptySeq
<1>2. SubSeq(s, 1, Len(s)) = <<s[1]>> \o SubSeq(s, 1 + 1, Len(s))
  BY <1>1, SubSeqRecursiveFirst
<1>3. s = <<Head(s)>> \o Tail(s)
  BY <1>2, SubSeqFull, TailIsSubSeq, HeadTailProperties
<1>4. Head(s) \in Tasks /\ Tail(s) \in Seq(Tasks)
  BY HeadTailType
<1>. QED
  <2> DEFINE h == Head(s)
             r == Tail(s)
  <2>1. Before(<<h>> \o r, y, z) <=> Before(r, y, z) \/ (y = h /\ z \in ToSet(r))
    BY <1>4, BeforePrepend
  <2>. QED
    BY <1>3, <2>1

LEMMA BeforeFront ==
  ASSUME NEW s \in Seq(Tasks), s # <<>>, NEW y, NEW z
  PROVE  Before(s, y, z) <=> Before(Front(s), y, z) \/ (y \in ToSet(Front(s)) /\ z = Last(s))
<1>1. Len(s) \in Nat /\ 1 \in 1..Len(s) /\ Len(s) \in 1..Len(s)
  BY EmptySeq
<1>2. SubSeq(s, 1, Len(s)) = SubSeq(s, 1, Len(s) - 1) \o <<s[Len(s)]>>
  BY <1>1, SubSeqRecursiveSecond
<1>3. Last(s) \in Tasks /\ Front(s) \in Seq(Tasks)
  BY LastFrontType
<1>4. s = Append(Front(s), Last(s))
  BY <1>2, <1>3, SubSeqFull, AppendIsConcat DEF Front, Last
<1> DEFINE l == Last(s)
           r == Front(s)
<1>5. Before(Append(r, l), y, z) <=> Before(r, y, z) \/ (y \in ToSet(r) /\ z = l)
  BY <1>3, BeforeAppend
<1>. QED
  BY <1>4, <1>5

\* Line(w), of the pass it depends on, and the order in it.
LineOf(p, q) == p.keep \o InHand(p.hand) \o q
Ordered(p, q, x, y) == \/ Before(p.keep, x, y) \/ Before(q, x, y)
                       \/ x \in ToSet(p.keep) /\ (y = p.hand \/ y \in ToSet(q))
                       \/ x = p.hand /\ y \in ToSet(q)
PassType(p) == /\ p.keep \in Seq(Tasks) /\ p.hand \in Tasks \cup {NoTask}

LEMMA HandMembers ==
  ASSUME NEW t \in Tasks \cup {NoTask}
  PROVE  /\ InHand(t) \in Seq(Tasks)
         /\ \A x \in Tasks : x \in ToSet(InHand(t)) <=> x = t
         /\ \A x, y : ~ Before(InHand(t), x, y)
<1>1. CASE t = NoTask
  <2>1. InHand(t) = <<>> /\ NoTask \notin Tasks
    BY <1>1, BrokerAssumption DEF InHand
  <2>2. \A x, y : ~ Before(<<>>, x, y)
    BY DEF Before
  <2>. QED
    BY <1>1, <2>1, <2>2, MembersEmpty, HandList
<1>2. CASE t \in Tasks
  <2>1. InHand(t) = <<t>>
    BY <1>2, BrokerAssumption DEF InHand
  <2>. QED
    BY <1>2, <2>1, OneInSeq
<1>. QED
  BY <1>1, <1>2

LEMMA LineOrder ==
  ASSUME NEW p, PassType(p), NEW q \in Seq(Tasks), NEW x \in Tasks, NEW y \in Tasks
  PROVE  /\ Before(LineOf(p, q), x, y) <=> Ordered(p, q, x, y)
         /\ x \in ToSet(LineOf(p, q)) <=> \/ x \in ToSet(p.keep) \/ x = p.hand
                                          \/ x \in ToSet(q)
<1> DEFINE k == p.keep
           h == InHand(p.hand)
           c == k \o h
<1>1. k \in Seq(Tasks) /\ p.hand \in Tasks \cup {NoTask}
  BY DEF PassType
<1>2. /\ h \in Seq(Tasks)
      /\ \A z \in Tasks : z \in ToSet(h) <=> z = p.hand
      /\ ~ Before(h, x, y)
  BY <1>1, HandMembers
<1>3. LineOf(p, q) = c \o q
  BY DEF LineOf
<1> HIDE DEF h
<1>4. c \in Seq(Tasks)
  BY <1>1, <1>2, ConcatProperties
<1>5. /\ Before(c, x, y) <=> \/ Before(k, x, y) \/ Before(h, x, y)
                             \/ x \in ToSet(k) /\ y \in ToSet(h)
      /\ ToSet(c) = ToSet(k) \cup ToSet(h)
  BY <1>1, <1>2, BeforeConcat, MembersConcat
<1> HIDE DEF c
<1>6. /\ Before(c \o q, x, y) <=> \/ Before(c, x, y) \/ Before(q, x, y)
                                  \/ x \in ToSet(c) /\ y \in ToSet(q)
      /\ ToSet(c \o q) = ToSet(c) \cup ToSet(q)
  BY <1>4, BeforeConcat, MembersConcat
<1>7. x \in ToSet(c) <=> x \in ToSet(k) \/ x = p.hand
  BY <1>2, <1>5
<1>8. Before(c, x, y) <=> Before(k, x, y) \/ (x \in ToSet(k) /\ y = p.hand)
  BY <1>2, <1>5
<1>. QED
  BY <1>3, <1>6, <1>7, <1>8 DEF Ordered

\* The pass that is alone at the list of w, if there is one.
PassAt(w, p) == \/ Sweepers(w) = {} /\ p = Resting
                \/ \E m \in Monitors : Sweepers(w) = {m} /\ p = sweep[m]

LEMMA LonePass ==
  ASSUME IsFiniteSet(Monitors), NEW w, Cardinality(Sweepers(w)) <= 1
  PROVE  \E p : PassAt(w, p) /\ Line(w) = LineOf(p, queue[w])
<1> DEFINE S == Sweepers(w)
<1>1. IsFiniteSet(S) /\ S \subseteq Monitors
  BY FS_Subset DEF Sweepers
<1>2. CASE S = {}
  <2>1. Line(w) = LineOf(Resting, queue[w])
    BY <1>2 DEF Line, LineOf
  <2>. QED
    BY <1>2, <2>1 DEF PassAt
<1>3. CASE S # {}
  <2>1. Cardinality(S) \in Nat /\ Cardinality(S) # 0 /\ Cardinality(S) <= 1
    BY <1>1, <1>3, FS_CardinalityType, FS_EmptySet
  <2>2. Cardinality(S) = 1
    BY <2>1
  <2>3. PICK m : S = {m}
    BY <1>1, <2>2, FS_Singleton
  <2>4. m \in Monitors
    BY <1>1, <2>3
  <2>5. (CHOOSE n \in S : TRUE) = m
    BY <2>3
  <2>6. Line(w) = LineOf(sweep[m], queue[w])
    BY <1>3, <2>5 DEF Line, LineOf
  <2>. QED
    BY <2>3, <2>4, <2>6 DEF PassAt
<1>. QED
  BY <1>2, <1>3

LEMMA LonePassNext ==
  ASSUME IsFiniteSet(Monitors), NEW w, Cardinality(Sweepers(w)') <= 1
  PROVE  \E p : PassAt(w, p)' /\ Line(w)' = LineOf(p, queue'[w])
<1> DEFINE S == Sweepers(w)'
<1>1. IsFiniteSet(S) /\ S \subseteq Monitors
  BY FS_Subset DEF Sweepers
<1>2. CASE S = {}
  <2>1. Line(w)' = LineOf(Resting, queue'[w])
    BY <1>2 DEF Line, LineOf
  <2>. QED
    BY <1>2, <2>1 DEF PassAt
<1>3. CASE S # {}
  <2>1. Cardinality(S) \in Nat /\ Cardinality(S) # 0 /\ Cardinality(S) <= 1
    BY <1>1, <1>3, FS_CardinalityType, FS_EmptySet
  <2>2. Cardinality(S) = 1
    BY <2>1
  <2>3. PICK m : S = {m}
    BY <1>1, <2>2, FS_Singleton
  <2>4. m \in Monitors
    BY <1>1, <2>3
  <2>5. (CHOOSE n \in S : TRUE) = m
    BY <2>3
  <2>6. Line(w)' = LineOf(sweep'[m], queue'[w])
    BY <1>3, <2>5 DEF Line, LineOf
  <2>. QED
    BY <2>3, <2>4, <2>6 DEF PassAt
<1>. QED
  BY <1>2, <1>3

\* Nothing overtakes: what is ordered by the pass n and the list r already was by
\* the pass p and the list q.
Follows(p, q, n, r) == \A x, y \in Tasks : Ordered(n, r, x, y) => Ordered(p, q, x, y)

LEMMA PassAtType ==
  ASSUME SweepOK, NEW w, NEW p, PassAt(w, p)
  PROVE  PassType(p)
<1>1. PassType(Resting)
  BY RestingType DEF PassType, SweepRecord, SweepState
<1>2. \A m \in Monitors : PassType(sweep[m])
  BY DEF SweepOK, SweepState, PassType
<1>. QED
  BY <1>1, <1>2 DEF PassAt

LEMMA PassAtTypeNext ==
  ASSUME SweepOK', NEW w, NEW p, PassAt(w, p)'
  PROVE  PassType(p)
<1>1. PassType(Resting)
  BY RestingType DEF PassType, SweepRecord, SweepState
<1>2. \A m \in Monitors : PassType(sweep'[m])
  BY DEF SweepOK, SweepState, PassType
<1>. QED
  BY <1>1, <1>2 DEF PassAt

LEMMA FollowsSame ==
  ASSUME NEW p, NEW n, NEW q, n.keep = p.keep, n.hand = p.hand
  PROVE  Follows(p, q, n, q)
BY DEF Follows, Ordered

LEMMA FollowsEmpty ==
  ASSUME NEW p, NEW n, NEW q, n.keep = <<>>, n.hand = NoTask
  PROVE  Follows(p, q, n, q)
<1>1. \A x, y : ~ Before(<<>>, x, y)
  BY DEF Before
<1>. QED
  BY <1>1, MembersEmpty, BrokerAssumption DEF Follows, Ordered

LEMMA FollowsTail ==
  ASSUME NEW p, NEW q \in Seq(Tasks), q # <<>>
  PROVE  Follows(p, q, p, Tail(q))
<1>1. ToSet(Tail(q)) \subseteq ToSet(q)
  BY MembersHead
<1>2. \A x, y : Before(Tail(q), x, y) => Before(q, x, y)
  BY BeforeTail
<1>. QED
  BY <1>1, <1>2 DEF Follows, Ordered

\* Popping an id, keeping it, and putting the last kept one back move the border
\* between what the pass has and what the list has.
LEMMA FollowsPop ==
  ASSUME NEW p, NEW n, NEW q \in Seq(Tasks), q # <<>>,
         n.keep = p.keep, n.hand = Head(q), p.hand = NoTask
  PROVE  Follows(p, q, n, Tail(q))
<1>1. ToSet(q) = ToSet(Tail(q)) \cup {Head(q)}
  BY MembersHead
<1>2. \A x, y : Before(q, x, y) <=> \/ Before(Tail(q), x, y)
                                    \/ x = Head(q) /\ y \in ToSet(Tail(q))
  BY BeforeTail
<1>. QED
  BY <1>1, <1>2 DEF Follows, Ordered

LEMMA FollowsKeep ==
  ASSUME NEW p, PassType(p), p.hand \in Tasks, NEW n, NEW q,
         n.keep = Append(p.keep, p.hand), n.hand = NoTask
  PROVE  Follows(p, q, n, q)
<1>1. p.keep \in Seq(Tasks)
  BY DEF PassType
<1> DEFINE k == p.keep
           h == p.hand
<1>2. ToSet(Append(k, h)) = ToSet(k) \cup {h}
  BY <1>1, MembersAppend
<1>3. \A x, y : Before(Append(k, h), x, y) <=> \/ Before(k, x, y)
                                               \/ x \in ToSet(k) /\ y = h
  BY <1>1, BeforeAppend
<1>. QED
  BY <1>2, <1>3, BrokerAssumption DEF Follows, Ordered

LEMMA FollowsForget ==
  ASSUME NEW p, NEW n, NEW q, n.keep = p.keep, n.hand = NoTask
  PROVE  Follows(p, q, n, q)
BY BrokerAssumption DEF Follows, Ordered

LEMMA FollowsReturn ==
  ASSUME NEW p, PassType(p), p.hand = NoTask, p.keep # <<>>, NEW n, NEW q \in Seq(Tasks),
         n.keep = Front(p.keep), n.hand = NoTask
  PROVE  Follows(p, q, n, <<Last(p.keep)>> \o q)
<1> DEFINE k == p.keep
           l == Last(k)
<1>1. k \in Seq(Tasks) /\ l \in Tasks /\ ToSet(k) = ToSet(Front(k)) \cup {l}
  BY LastFrontType, MembersLast DEF PassType
<1>2. \A x, y : Before(k, x, y) <=> \/ Before(Front(k), x, y)
                                    \/ x \in ToSet(Front(k)) /\ y = l
  BY <1>1, BeforeFront
<1> HIDE DEF l
<1>3. /\ ToSet(<<l>> \o q) = ToSet(q) \cup {l}
      /\ \A x, y : Before(<<l>> \o q, x, y) <=> Before(q, x, y) \/ (x = l /\ y \in ToSet(q))
  BY <1>1, MembersPrepend, BeforePrepend
<1>4. Follows(p, q, n, <<l>> \o q)
  BY <1>1, <1>2, <1>3, BrokerAssumption DEF Follows, Ordered
<1>. QED
  BY <1>4 DEF l

\* What a pass does to its own line, and leaves alone of the others.
LEMMA PassOrder ==
  ASSUME TypeOK, PassHands, NEW m \in Monitors,
         SweepStep(m) \/ SweepFault(m) \/ RequeueError(m)
  PROVE  /\ \A n \in Monitors : n # m => sweep'[n] = sweep[n]
         /\ \A v \in Workers : v # sweep[m].of => queue'[v] = queue[v]
         /\ \/ sweep'[m].of = sweep[m].of
            \/ sweep'[m].keep = <<>> /\ sweep'[m].hand = NoTask
         /\ \A v \in Workers : v = sweep[m].of =>
               Follows(sweep[m], queue[v], sweep'[m], queue'[v])
<1> DEFINE old == sweep[m]
           new == sweep'[m]
<1>1. /\ SweepOK /\ QueueOK /\ old \in SweepState /\ PassType(old) /\ Tidy(old)
      /\ old.keep \in Seq(Tasks) /\ old.requeue \in Seq(Tasks)
      /\ old.pc # "rest" => old.of \in Workers /\ old.of \in Queues
      /\ old.pc = "load" => old.hand \in Tasks
      /\ old.pc = "push" => old.requeue # <<>>
  BY DEF TypeOK, SweepOK, SweepState, PassType, PassHands, Queues
<1>2. \A n \in Monitors : n # m => sweep'[n] = sweep[n]
  BY <1>1 DEF SweepStep, SweepBegin, SweepPop, SweepLoad, SweepKeep, SweepUnpin,
              SweepPush, SweepFault, RequeueError, SweepOK
<1>3. ASSUME UNCHANGED queue, new.keep = old.keep, new.hand = old.hand, new.of = old.of
      PROVE  /\ \A v \in Workers : v # old.of => queue'[v] = queue[v]
             /\ new.of = old.of
             /\ \A v \in Workers : v = old.of => Follows(old, queue[v], new, queue'[v])
  BY <1>3, FollowsSame
<1>4. ASSUME UNCHANGED queue, new.keep = <<>>, new.hand = NoTask
      PROVE  /\ \A v \in Workers : v # old.of => queue'[v] = queue[v]
             /\ \A v \in Workers : v = old.of => Follows(old, queue[v], new, queue'[v])
  BY <1>4, FollowsEmpty
<1>5. CASE SweepBegin(m)
  <2>1. PICK w \in Workers : new = [Resting EXCEPT !.pc = "pop", !.of = w]
    BY <1>1, <1>5 DEF SweepBegin, TypeOK, SweepOK
  <2>2. UNCHANGED queue /\ new.keep = <<>> /\ new.hand = NoTask
    BY <1>5, <2>1 DEF SweepBegin, Resting
  <2>. QED
    BY <1>2, <1>4, <2>2
<1>6. CASE SweepFault(m)
  <2>1. new = Resting /\ UNCHANGED queue
    BY <1>1, <1>6 DEF SweepFault, SweepOK
  <2>2. new.keep = <<>> /\ new.hand = NoTask
    BY <2>1 DEF Resting
  <2>. QED
    BY <1>2, <1>4, <2>1, <2>2
<1>7. CASE SweepPop(m)
  <2>1. old.pc = "pop" /\ old.of \in Workers /\ old.of \in Queues /\ old.hand = NoTask
    BY <1>1, <1>7 DEF SweepPop, Tidy
  <2>2. PICK q \in Workers : q = old.of /\ q \in Queues
    BY <2>1
  <2>3. queue[q] \in Seq(Tasks)
    BY <1>1, <2>2 DEF QueueOK
  <2>4. CASE old.seen < ScanLimit /\ queue[q] # <<>>
    <3> DEFINE y == [old EXCEPT !.pc = "load", !.seen = @ + 1, !.hand = Head(queue[q])]
    <3>1. queue' = [queue EXCEPT ![q] = Tail(queue[q])] /\ sweep' = [sweep EXCEPT ![m] = y]
      BY <1>7, <2>2, <2>4 DEF SweepPop
    <3>2. y.keep = old.keep /\ y.hand = Head(queue[q]) /\ y.of = old.of
      BY <1>1 DEF SweepState
    <3>3. new = y
      BY <1>1, <3>1 DEF SweepOK
    <3> HIDE DEF y
    <3>4. /\ queue'[q] = Tail(queue[q]) /\ \A v \in Queues : v # q => queue'[v] = queue[v]
          /\ new.keep = old.keep /\ new.hand = Head(queue[q]) /\ new.of = old.of
      BY <1>1, <2>2, <3>1, <3>2, <3>3 DEF QueueOK
    <3>5. Follows(old, queue[q], new, Tail(queue[q]))
      BY <2>1, <2>3, <2>4, <3>4, FollowsPop
    <3>. QED
      BY <1>2, <2>2, <3>4, <3>5 DEF Queues
  <2>5. CASE ~ (old.seen < ScanLimit /\ queue[q] # <<>>)
    <3>1. new = [old EXCEPT !.pc = "keep"] /\ UNCHANGED queue
      BY <1>1, <1>7, <2>2, <2>5 DEF SweepPop, SweepOK
    <3>2. new.keep = old.keep /\ new.hand = old.hand /\ new.of = old.of
      BY <1>1, <3>1 DEF SweepState
    <3>. QED
      BY <1>2, <1>3, <3>1, <3>2
  <2>. QED
    BY <2>4, <2>5
<1>8. CASE SweepLoad(m)
  <2> DEFINE back == [old EXCEPT !.pc = "pop", !.hand = NoTask]
             keeping == [back EXCEPT !.keep = Append(@, old.hand)]
             requeuing == [back EXCEPT !.requeue = Append(@, old.hand)]
  <2>1. old.pc = "load" /\ old.hand \in Tasks /\ UNCHANGED queue
    BY <1>1, <1>8 DEF SweepLoad
  <2>2. new = back \/ new = keeping \/ new = requeuing
    BY <1>1, <1>8 DEF SweepLoad, SweepOK
  <2>3. /\ back.hand = NoTask /\ back.keep = old.keep /\ back.of = old.of
        /\ keeping.hand = NoTask /\ keeping.keep = Append(old.keep, old.hand)
        /\ keeping.of = old.of
        /\ requeuing.hand = NoTask /\ requeuing.keep = old.keep /\ requeuing.of = old.of
    BY <1>1 DEF SweepState
  <2> HIDE DEF back, keeping, requeuing
  <2>4. /\ new.hand = NoTask /\ new.of = old.of
        /\ new.keep = old.keep \/ new.keep = Append(old.keep, old.hand)
    BY <2>2, <2>3
  <2>5. \A q : Follows(old, q, new, q)
    BY <1>1, <2>1, <2>4, FollowsKeep, FollowsForget
  <2>. QED
    BY <1>2, <2>1, <2>4, <2>5
<1>9. CASE SweepKeep(m)
  <2>1. old.pc = "keep" /\ old.of \in Workers /\ old.of \in Queues /\ old.hand = NoTask
    BY <1>1, <1>9 DEF SweepKeep, Tidy
  <2>2. PICK q \in Workers : q = old.of /\ q \in Queues
    BY <2>1
  <2>3. queue[q] \in Seq(Tasks)
    BY <1>1, <2>2 DEF QueueOK
  <2>4. CASE old.keep # <<>>
    <3> DEFINE y == [old EXCEPT !.keep = Front(@)]
               s == <<Last(old.keep)>> \o queue[q]
    <3>1. queue' = [queue EXCEPT ![q] = s] /\ sweep' = [sweep EXCEPT ![m] = y]
      BY <1>9, <2>2, <2>4 DEF SweepKeep
    <3>2. y.keep = Front(old.keep) /\ y.hand = NoTask /\ y.of = old.of
      BY <1>1, <2>1 DEF SweepState
    <3>3. new = y
      BY <1>1, <3>1 DEF SweepOK
    <3> HIDE DEF y
    <3>4. /\ queue'[q] = s /\ \A v \in Queues : v # q => queue'[v] = queue[v]
          /\ new.keep = Front(old.keep) /\ new.hand = NoTask /\ new.of = old.of
      BY <1>1, <2>2, <3>1, <3>2, <3>3 DEF QueueOK
    <3>5. Follows(old, queue[q], new, s)
      BY <1>1, <2>1, <2>3, <2>4, <3>4, FollowsReturn
    <3>. QED
      BY <1>2, <2>2, <3>4, <3>5 DEF Queues
  <2>5. CASE old.keep = <<>>
    <3>1. new = [old EXCEPT !.pc = "unpin"] /\ UNCHANGED queue
      BY <1>1, <1>9, <2>5 DEF SweepKeep, SweepOK
    <3>2. new.keep = old.keep /\ new.hand = old.hand /\ new.of = old.of
      BY <1>1, <3>1 DEF SweepState
    <3>. QED
      BY <1>2, <1>3, <3>1, <3>2
  <2>. QED
    BY <2>4, <2>5
<1>10. CASE SweepUnpin(m)
  <2>1. UNCHANGED queue
    BY <1>10 DEF SweepUnpin
  <2>2. CASE old.requeue # <<>>
    <3>1. new = [old EXCEPT !.pc = "push"]
      BY <1>1, <1>10, <2>2 DEF SweepUnpin, SweepOK
    <3>2. new.keep = old.keep /\ new.hand = old.hand /\ new.of = old.of
      BY <1>1, <3>1 DEF SweepState
    <3>. QED
      BY <1>2, <1>3, <2>1, <3>2
  <2>3. CASE old.requeue = <<>>
    <3>1. new = Resting
      BY <1>1, <1>10, <2>3 DEF SweepUnpin, SweepOK
    <3>2. new.keep = <<>> /\ new.hand = NoTask
      BY <3>1 DEF Resting
    <3>. QED
      BY <1>2, <1>4, <2>1, <3>2
  <2>. QED
    BY <2>2, <2>3
<1>11. CASE SweepPush(m)
  <2> DEFINE x == Head(old.requeue)
             y == [old EXCEPT !.pc = "unpin", !.requeue = Tail(@)]
  <2>1. old.pc = "push" /\ x \in Tasks
    BY <1>1, <1>11, HeadTailType DEF SweepPush
  <2>2. queue' = [queue EXCEPT ![PrioOf[x]] = Append(@, x)] /\ sweep' = [sweep EXCEPT ![m] = y]
    BY <1>11 DEF SweepPush
  <2>3. y.keep = old.keep /\ y.hand = old.hand /\ y.of = old.of
    BY <1>1 DEF SweepState
  <2>4. new = y
    BY <1>1, <2>2 DEF SweepOK
  <2> HIDE DEF x, y
  <2>5. \A v \in Workers : queue'[v] = queue[v]
    BY <1>1, <2>1, <2>2, BrokerAssumption DEF QueueOK, Queues
  <2>6. \A q : Follows(old, q, new, q)
    BY <2>3, <2>4, FollowsSame
  <2>. QED
    BY <1>2, <2>3, <2>4, <2>5, <2>6
<1>12. CASE RequeueError(m)
  <2>1. new = [old EXCEPT !.pc = "unpin", !.requeue = Tail(@)] /\ UNCHANGED queue
    BY <1>1, <1>12 DEF RequeueError, SweepOK
  <2>2. new.keep = old.keep /\ new.hand = old.hand /\ new.of = old.of
    BY <1>1, <2>1 DEF SweepState
  <2>. QED
    BY <1>2, <1>3, <2>1, <2>2
<1>. QED
  BY <1>5, <1>6, <1>7, <1>8, <1>9, <1>10, <1>11, <1>12 DEF SweepStep

LEMMA SweepersBy ==
  ASSUME NEW w
  PROVE  /\ \A m \in Monitors : m \in Sweepers(w) <=> sweep[m].of = w
         /\ \A m \in Monitors : m \in Sweepers(w)' <=> sweep'[m].of = w
         /\ Sweepers(w) \subseteq Monitors /\ Sweepers(w)' \subseteq Monitors
BY DEF Sweepers

\* A step of a pass, seen from any line.
LEMMA PassFollows ==
  ASSUME TypeOK, PassHands, NEW m \in Monitors,
         SweepStep(m) \/ SweepFault(m) \/ RequeueError(m),
         NEW w \in Workers, NEW p, PassAt(w, p), NEW n, PassAt(w, n)'
  PROVE  Follows(p, queue[w], n, queue'[w])
<1>1. /\ \A o \in Monitors : o # m => sweep'[o] = sweep[o]
      /\ \A v \in Workers : v # sweep[m].of => queue'[v] = queue[v]
      /\ \/ sweep'[m].of = sweep[m].of
         \/ sweep'[m].keep = <<>> /\ sweep'[m].hand = NoTask
      /\ \A v \in Workers : v = sweep[m].of =>
            Follows(sweep[m], queue[v], sweep'[m], queue'[v])
  BY PassOrder
<1>2. Resting.keep = <<>> /\ Resting.hand = NoTask
  BY DEF Resting
<1>3. \A o \in Monitors : /\ o \in Sweepers(w) <=> sweep[o].of = w
                          /\ o \in Sweepers(w)' <=> sweep'[o].of = w
  BY SweepersBy
<1>4. CASE m \in Sweepers(w)
  <2>1. p = sweep[m] /\ sweep[m].of = w
    BY <1>3, <1>4 DEF PassAt
  <2>2. Follows(p, queue[w], sweep'[m], queue'[w])
    BY <1>1, <2>1
  <2>3. \A o \in Monitors : o # m => o \notin Sweepers(w)'
    BY <1>1, <1>3, <1>4 DEF PassAt
  <2>4. n = sweep'[m] \/ n = Resting
    BY <2>3 DEF PassAt
  <2>5. Follows(p, queue[w], Resting, queue'[w])
    <3>1. \A x, y : ~ Before(<<>>, x, y)
      BY DEF Before
    <3>. QED
      BY <1>2, <2>2, <3>1, MembersEmpty, BrokerAssumption DEF Follows, Ordered
  <2>. QED
    BY <2>2, <2>4, <2>5
<1>5. CASE m \notin Sweepers(w)
  <2>1. queue'[w] = queue[w]
    BY <1>1, <1>3, <1>5
  <2>2. CASE m \in Sweepers(w)'
    <3>1. sweep'[m].of # sweep[m].of
      BY <1>3, <1>5, <2>2
    <3>2. n = sweep'[m] /\ n.keep = <<>> /\ n.hand = NoTask
      BY <1>1, <2>2, <3>1 DEF PassAt
    <3>. QED
      BY <2>1, <3>2, FollowsEmpty
  <2>3. CASE m \notin Sweepers(w)'
    <3>1. \A o \in Monitors : o \in Sweepers(w)' <=> o \in Sweepers(w)
      BY <1>1, <1>3, <1>5, <2>3
    <3>2. n = p
      <4>1. CASE Sweepers(w) = {}
        BY <3>1, <4>1 DEF PassAt
      <4>2. ASSUME NEW o \in Monitors, Sweepers(w) = {o}, p = sweep[o]
            PROVE  n = p
        <5>1. o # m /\ sweep'[o] = sweep[o]
          BY <1>1, <1>5, <4>2
        <5>. QED
          BY <3>1, <4>2, <5>1 DEF PassAt
      <4>. QED
        BY <4>1, <4>2 DEF PassAt
    <3>. QED
      BY <2>1, <3>2, FollowsSame
  <2>. QED
    BY <2>2, <2>3
<1>. QED
  BY <1>4, <1>5

\* A step of anybody else does not change who passes.
LEMMA PassStays ==
  ASSUME UNCHANGED sweep, NEW w, NEW p, PassAt(w, p), NEW n, PassAt(w, n)'
  PROVE  n = p
<1>1. Sweepers(w)' = Sweepers(w)
  BY DEF Sweepers
<1>2. CASE Sweepers(w) = {}
  BY <1>1, <1>2 DEF PassAt
<1>3. ASSUME NEW m \in Monitors, Sweepers(w) = {m}, p = sweep[m]
      PROVE  n = p
  BY <1>1, <1>3 DEF PassAt
<1>. QED
  BY <1>2, <1>3 DEF PassAt

LEMMA LoopFollows ==
  ASSUME TypeOK, NEW v \in Workers,
         \/ LoopStep(v) \/ StopStep(v) \/ Restart(v) \/ Expire(v) \/ WorkerFault(v),
         NEW w \in Workers, NEW p, PassAt(w, p), NEW n, PassAt(w, n)'
  PROVE  Follows(p, queue[w], n, queue'[w])
<1>1. /\ UNCHANGED sweep
      /\ \/ UNCHANGED queue
         \/ queue[Scanned(v)] # <<>> /\ queue' = [queue EXCEPT ![Scanned(v)] = Tail(@)]
  BY DEF LoopStep, StopStep, WorkerFault, Take, Miss, Load, Start, Run, CompleteValue,
         CompleteStatus, Stop, StopError, StopStatus, Restart, Expire, WorkerCrash,
         LoopError, CompleteError, StopFault
<1>2. n = p
  BY <1>1, PassStays
<1>3. w \in Queues /\ queue[w] \in Seq(Tasks) /\ QueueOK
  BY DEF TypeOK, QueueOK, Queues
<1>4. \/ queue'[w] = queue[w]
      \/ queue[w] # <<>> /\ queue'[w] = Tail(queue[w])
  BY <1>1, <1>3 DEF QueueOK
<1>. QED
  BY <1>2, <1>3, <1>4, FollowsSame, FollowsTail

\* A push comes last, and its id was nowhere before if it was submitted once.
LEMMA SubmitFollows ==
  ASSUME TypeOK, SoleInv, NEW r \in Requests, SubmitPush(r),
         NEW w \in Workers, NEW p, PassAt(w, p), NEW n, PassAt(w, n)',
         NEW x \in Tasks, Single(x), NEW y \in Tasks, Ordered(n, queue'[w], y, x),
         \/ x \in ToSet(p.keep) \/ x = p.hand \/ x \in ToSet(queue[w])
  PROVE  Ordered(p, queue[w], y, x)
<1>1. PICK t \in Tasks : t = TaskOf[r]
  BY BrokerAssumption
<1>2. PICK q \in Queues : q = IF PinOf[t] = Nobody THEN PrioOf[t] ELSE PinOf[t]
  BY BrokerAssumption DEF Queues
<1>3. /\ submit[r] = "push" /\ UNCHANGED sweep
      /\ queue' = [queue EXCEPT ![q] = Append(queue[q], t)]
  BY <1>1, <1>2 DEF SubmitPush
<1>4. n = p
  BY <1>3, PassStays
<1>5. w \in Queues /\ queue[w] \in Seq(Tasks) /\ QueueOK /\ SweepOK
  BY DEF TypeOK, QueueOK, Queues
<1>6. queue'[w] = queue[w] \/ queue'[w] = Append(queue[w], t)
  BY <1>3, <1>5 DEF QueueOK
<1>7. x # t
  <2>1. Placed(x)
    <3>1. CASE x \in ToSet(queue[w])
      BY <1>5, <3>1 DEF Placed, At
    <3>2. CASE x \in ToSet(p.keep) \/ x = p.hand
      <4>1. x \notin ToSet(Resting.keep) /\ x # Resting.hand
        BY MembersEmpty, BrokerAssumption DEF Resting
      <4>2. PICK m \in Monitors : p = sweep[m]
        BY <3>2, <4>1 DEF PassAt
      <4>3. In(m, x)
        BY <3>2, <4>2 DEF In, Carries
      <4>. QED
        BY <4>3 DEF Placed
    <3>. QED
      BY <3>1, <3>2
  <2>2. PICK o \in Requests : TaskOf[o] = x /\ submit[o] = "done"
    BY <2>1 DEF SoleInv, Sole, Sending, Sent
  <2>. QED
    BY <1>1, <1>3, <2>2 DEF Single
<1>8. CASE queue'[w] = queue[w]
  BY <1>4, <1>8
<1>9. CASE queue'[w] = Append(queue[w], t)
  <2>1. /\ ToSet(queue'[w]) = ToSet(queue[w]) \cup {t}
        /\ Before(queue'[w], y, x) <=> Before(queue[w], y, x) \/ (y \in ToSet(queue[w]) /\ x = t)
    BY <1>5, <1>9, MembersAppend, BeforeAppend
  <2>. QED
    BY <1>4, <1>7, <2>1 DEF Ordered
<1>. QED
  BY <1>6, <1>8, <1>9

\* What a step may do to the order of x and y.
LEMMA StepFollows ==
  ASSUME TypeOK, PassHands, SoleInv, [Next]_vars,
         NEW w \in Workers, NEW p, PassAt(w, p), NEW n, PassAt(w, n)',
         NEW x \in Tasks, Single(x), NEW y \in Tasks, Ordered(n, queue'[w], y, x),
         \/ x \in ToSet(p.keep) \/ x = p.hand \/ x \in ToSet(queue[w])
  PROVE  Ordered(p, queue[w], y, x)
<1>1. ASSUME UNCHANGED <<queue, sweep>>
      PROVE  Ordered(p, queue[w], y, x)
  BY <1>1, PassStays
<1>2. CASE \E r \in Requests : RequestStep(r) \/ SubmitFault(r)
  <2>1. PICK r \in Requests : RequestStep(r) \/ SubmitFault(r)
    BY <1>2
  <2>2. CASE SubmitPush(r)
    BY <2>2, SubmitFollows
  <2>3. CASE SubmitCheck(r) \/ SubmitCreate(r) \/ SubmitFault(r)
    <3>1. UNCHANGED <<queue, sweep>>
      BY <2>3 DEF SubmitCheck, SubmitCreate, SubmitFault
    <3>. QED
      BY <1>1, <3>1
  <2>. QED
    BY <2>1, <2>2, <2>3 DEF RequestStep
<1>3. CASE \E v \in Workers : \/ LoopStep(v) \/ StopStep(v) \/ Restart(v)
                              \/ Expire(v) \/ WorkerFault(v)
  <2>1. Follows(p, queue[w], n, queue'[w])
    BY <1>3, LoopFollows
  <2>. QED
    BY <2>1 DEF Follows
<1>4. CASE \E c \in Cancels : CancelStep(c) \/ CancelFault(c)
  <2>1. UNCHANGED <<queue, sweep>>
    BY <1>4 DEF CancelStep, CancelCheck, CancelError, CancelStatus, CancelFault
  <2>. QED
    BY <1>1, <2>1
<1>5. CASE \E m \in Monitors : SweepStep(m) \/ SweepFault(m) \/ RequeueError(m)
  <2>1. Follows(p, queue[w], n, queue'[w])
    BY <1>5, PassFollows
  <2>. QED
    BY <2>1 DEF Follows
<1>6. CASE UNCHANGED vars
  <2>1. UNCHANGED <<queue, sweep>>
    BY <1>6 DEF vars
  <2>. QED
    BY <1>1, <2>1
<1>. QED
  BY <1>2, <1>3, <1>4, <1>5, <1>6 DEF Next

Overtaken(w) == \E x \in Unrepeated \cap ToSet(Line(w)), y \in Unrepeated :
                   Before(Line(w)', y, x) /\ ~ Before(Line(w), y, x)

LEMMA NoneOvertaken ==
  ASSUME IsFiniteSet(Requests), IsFiniteSet(Monitors),
         TypeOK, TypeOK', PassHands, SoleInv, [Next]_vars, NEW w \in Workers,
         Cardinality(Sweepers(w)) <= 1, Cardinality(Sweepers(w)') <= 1
  PROVE  ~ Overtaken(w)
<1>1. PICK p : PassAt(w, p) /\ Line(w) = LineOf(p, queue[w])
  BY LonePass
<1>2. PICK n : PassAt(w, n)' /\ Line(w)' = LineOf(n, queue'[w])
  BY LonePassNext
<1>3. SUFFICES ASSUME NEW x \in Unrepeated \cap ToSet(Line(w)), NEW y \in Unrepeated,
                      Before(Line(w)', y, x)
               PROVE  Before(Line(w), y, x)
  BY DEF Overtaken
<1>4. x \in Tasks /\ y \in Tasks /\ Single(x)
  BY UnrepeatedSingle DEF Unrepeated
<1>5. PassType(p) /\ PassType(n) /\ queue[w] \in Seq(Tasks) /\ queue'[w] \in Seq(Tasks)
  BY <1>1, <1>2, PassAtType, PassAtTypeNext DEF TypeOK, QueueOK, Queues
<1>6. Ordered(n, queue'[w], y, x)
  BY <1>2, <1>3, <1>4, <1>5, LineOrder
<1>7. x \in ToSet(p.keep) \/ x = p.hand \/ x \in ToSet(queue[w])
  BY <1>1, <1>3, <1>4, <1>5, LineOrder
<1>8. Ordered(p, queue[w], y, x)
  BY <1>1, <1>2, <1>4, <1>6, <1>7, StepFollows
<1>. QED
  BY <1>1, <1>4, <1>5, <1>8, LineOrder

\* A pass that is alone at a worker's list takes it apart and rebuilds it in order: of
\* the tasks that were submitted once, none overtakes one that was in the line before
\* it, whatever the worker takes, requests push and faults drop in the meantime.
THEOREM FifoCorrect ==
  IsFiniteSet(Requests) /\ IsFiniteSet(Monitors) => (Spec => FifoKept)
<1> SUFFICES ASSUME IsFiniteSet(Requests), IsFiniteSet(Monitors)
             PROVE  Spec => FifoKept
  OBVIOUS
<1>1. Init /\ [][Next]_vars => [](TypeOK /\ SoleInv)
  BY TypeInit, TypeStep, SoleInit, SoleStep, PTL
<1>2. HeldInv => PassHands
  BY DEF HeldInv
<1>3. TypeOK /\ TypeOK' /\ SoleInv /\ PassHands /\ [Next]_vars
      => [\A w \in Workers :
             LET old == Line(w)
                 new == Line(w)'
             IN /\ Cardinality(Sweepers(w)) <= 1 /\ Cardinality(Sweepers(w)') <= 1
                /\ Len(new) > 1
                => \A x \in Unrepeated \cap ToSet(old), y \in Unrepeated :
                     Before(new, y, x) => Before(old, y, x)]_vars
  BY NoneOvertaken DEF Overtaken
<1>. QED
  BY <1>1, <1>2, <1>3, BrokerHeld, PTL DEF Spec, FifoKept

=============================================================================
