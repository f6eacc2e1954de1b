------------------------ MODULE SubprocessPoolProofs ------------------------
(***************************************************************************)
(* Proofs about SubprocessPool, for any callers, processes and bounds: its *)
(* types, and the safety invariants its runs check.                        *)
(*                                                                         *)
(* The argument rests on who refers to a process.  At most one caller      *)
(* does, none to an idle one, and only a process somebody waits for, or is *)
(* about to replace, has something in its queues: that caller's own call.  *)
(***************************************************************************)
EXTENDS SubprocessPool, FiniteSetTheorems, TLAPS

-----------------------------------------------------------------------------
(* The invariant, by parts. *)

Typed ==
  /\ proc \in [Procs -> ProcState]
  /\ workers \subseteq Procs /\ idle \subseteq Procs /\ busy \subseteq Procs
  /\ caller \in [Callers -> CallerState]
  /\ closed \in BOOLEAN
  /\ taken \in [Callers -> 0..2]
Bounded ==
  /\ idleCrashes \in 0..MaxIdleCrashes
  /\ taskCrashes \in 0..MaxTaskCrashes
  /\ spawnFails \in 0..MaxSpawnFails

\* A caller refers to a worker from acquiring to returning it, and has made a
\* call unless it is off.
Held ==
  \A c \in Callers :
    /\ caller[c].w # NoProc <=> caller[c].pc \notin {"off", "get", "recover"}
    /\ caller[c].pc # "off" => caller[c].n # 0

\* No two callers refer to one worker, and none to an idle one.
Alone ==
  \A c, d \in Callers :
    caller[c].w = caller[d].w /\ caller[c].w # NoProc => c = d
Free == \A c \in Callers : caller[c].w \notin idle

\* The queues of a process are empty, or there is one thing in the process, the
\* call of whoever waits for it or restarts it.
Quiet(x) == x.job = NoCall /\ x.inbox = <<>> /\ x.outbox = <<>>
Carries(x, j) ==
  \/ x.job = j /\ x.inbox = <<>> /\ x.outbox = <<>>
  \/ x.job = NoCall /\ x.inbox = <<j>> /\ x.outbox = <<>>
  \/ /\ x.job = NoCall /\ x.inbox = <<>>
     /\ \E e \in BOOLEAN : x.outbox = <<[of |-> j, exiting |-> e]>>
Mine(c) == <<c, caller[c].n>>
Carried ==
  \A p \in Procs :
    \/ Quiet(proc[p])
    \/ \E c \in Callers : /\ caller[c].w = p
                          /\ caller[c].pc \in {"wait", "restart"}
                          /\ Carries(proc[p], Mine(c))

\* A worker that may be given a task has not reached its cap.
Counted ==
  /\ \A p \in Procs : proc[p].flag => proc[p].count < MaxTasks
  /\ \A c \in Callers : caller[c].pc \in {"call", "wait"} =>
                          proc[caller[c].w].count < MaxTasks

\* Emergency recovery is alone, and finds a pool without workers.
Recovering ==
  /\ \A c, d \in Callers :
       caller[c].pc = "recover" /\ caller[d].pc = "recover" => c = d
  /\ \A c \in Callers : caller[c].pc = "recover" => workers = {}

\* The pool knows its live processes and its idle ones, and its size is never
\* exceeded.
Known == /\ \A p \in Procs : proc[p].state # "dead" => p \in workers
         /\ idle \subseteq workers
Listed ==
  ~ closed => \A c \in Callers :
                caller[c].w # NoProc /\ caller[c].pc # "return" =>
                  caller[c].w \in workers
Taken ==
  ~ closed => \A c \in Callers :
                caller[c].pc \in {"call", "wait", "done"} =>
                  caller[c].w \in busy
Sized == ~ closed => Cardinality(workers) <= PoolSize

\* A call that may still be sent has not been taken by any process, nor has one
\* that lies in the queue of a process.
UnsentAt(c) ==
  /\ caller[c].pc \in {"get", "recover", "call"} => taken[c] = 0
  /\ caller[c].err = "broken" => /\ caller[c].pc \in {"restart", "return"}
                                 /\ taken[c] = 0
                                 /\ Quiet(proc[caller[c].w])
  /\ caller[c].pc \in {"wait", "restart"} /\ proc[caller[c].w].inbox # <<>> =>
       taken[c] = 0
Unsent == \A c \in Callers : UnsentAt(c)

-----------------------------------------------------------------------------
(* What the actions do, field by field. *)

Stays(c) == \A d \in Callers : d # c => caller'[d] = caller[d]
Others(p) == \A q \in Procs : q # p => proc'[q] = proc[q]
Turns(c, pc, w, err) ==
  /\ Stays(c)
  /\ caller'[c].pc = pc /\ caller'[c].w = w /\ caller'[c].err = err
Keeps(c) == caller'[c].n = caller[c].n /\ caller'[c].got = caller[c].got

\* Fields of records that were updated.
LEMMA CallerFields ==
  ASSUME NEW x \in CallerState, NEW pc, NEW w, NEW e, NEW g
  PROVE  /\ LET y == [x EXCEPT !.pc = pc]
            IN  /\ y.pc = pc /\ y.w = x.w /\ y.err = x.err /\ y.n = x.n
                /\ y.got = x.got
         /\ LET y == [x EXCEPT !.pc = pc, !.w = w]
            IN  /\ y.pc = pc /\ y.w = w /\ y.err = x.err /\ y.n = x.n
                /\ y.got = x.got
         /\ LET y == [x EXCEPT !.pc = pc, !.err = e]
            IN  /\ y.pc = pc /\ y.w = x.w /\ y.err = e /\ y.n = x.n
                /\ y.got = x.got
         /\ LET y == [x EXCEPT !.pc = pc, !.got = g]
            IN  /\ y.pc = pc /\ y.w = x.w /\ y.err = x.err /\ y.n = x.n
                /\ y.got = g
BY DEF CallerState

LEMMA RoundFields ==
  ASSUME NEW x \in CallerState
  PROVE  LET y == NextRound(x)
         IN  /\ y.pc \in {"get", "off"} /\ y.w = NoProc
             /\ y.err \in {"none", "failed"} /\ y.n = x.n /\ y.got = x.got
BY DEF CallerState, NextRound

LEMMA CallerUpdate ==
  ASSUME Typed, NEW c \in Callers, NEW x, caller' = [caller EXCEPT ![c] = x]
  PROVE  caller'[c] = x /\ Stays(c) /\ caller[c] \in CallerState
BY DEF Typed, Stays

LEMMA ProcUpdate ==
  ASSUME Typed, NEW p \in Procs, NEW x, proc' = [proc EXCEPT ![p] = x]
  PROVE  proc'[p] = x /\ Others(p) /\ proc[p] \in ProcState
BY DEF Typed, Others

LEMMA BeginEffect ==
  ASSUME Typed, NEW c \in Callers, Begin(c)
  PROVE  /\ caller[c].pc = "off" /\ ~ closed
         /\ Turns(c, "get", NoProc, "none")
         /\ caller'[c].n = caller[c].n + 1 /\ caller[c].n < MaxCalls
         /\ caller'[c].got = NoCall /\ caller'[c].tries = 0
         /\ taken' = [taken EXCEPT ![c] = 0]
         /\ UNCHANGED <<proc, workers, idle, busy, closed>>
<1>1. caller' = [caller EXCEPT ![c] = [AtRest EXCEPT !.pc = "get",
                                         !.n = caller[c].n + 1]]
  BY DEF Begin
<1>2. Stays(c) /\ caller'[c] = [AtRest EXCEPT !.pc = "get",
                                              !.n = caller[c].n + 1]
  BY <1>1, CallerUpdate
<1>3. /\ caller'[c].pc = "get" /\ caller'[c].n = caller[c].n + 1
      /\ caller'[c].w = NoProc /\ caller'[c].err = "none"
      /\ caller'[c].got = NoCall /\ caller'[c].tries = 0
  BY <1>2 DEF AtRest
<1>. QED
  BY <1>2, <1>3 DEF Begin, Turns, lists

LEMMA AcquireEffect ==
  ASSUME Typed, NEW c \in Callers, Acquire(c)
  PROVE  /\ caller[c].pc = "get"
         /\ \E p \in Usable : /\ idle' = Usable \ {p} /\ busy' = busy \cup {p}
                              /\ Turns(c, "call", p, caller[c].err)
         /\ Keeps(c)
         /\ UNCHANGED <<proc, workers, closed, taken>>
<1>1. PICK p \in Usable :
        /\ idle' = Usable \ {p} /\ busy' = busy \cup {p}
        /\ caller' = [caller EXCEPT ![c] = [caller[c] EXCEPT !.pc = "call",
                                                             !.w = p]]
  BY DEF Acquire, Typed
<1>2. /\ Stays(c) /\ caller[c] \in CallerState
      /\ caller'[c] = [caller[c] EXCEPT !.pc = "call", !.w = p]
  BY <1>1, CallerUpdate
<1>3. Turns(c, "call", p, caller[c].err) /\ Keeps(c)
  BY <1>2, CallerFields DEF Turns, Keeps
<1>. QED
  BY <1>1, <1>3 DEF Acquire

LEMMA GiveUpEffect ==
  ASSUME Typed, NEW c \in Callers, GiveUp(c)
  PROVE  /\ caller[c].pc = "get" /\ idle' = {}
         /\ \E pc \in {"get", "off"}, e \in {"none", "failed"} :
              Turns(c, pc, NoProc, e)
         /\ Keeps(c)
         /\ UNCHANGED <<proc, workers, busy, closed, taken>>
<1>1. caller' = [caller EXCEPT ![c] = NextRound(caller[c])]
  BY DEF GiveUp
<1>2. Stays(c) /\ caller[c] \in CallerState /\ caller'[c] = NextRound(caller[c])
  BY <1>1, CallerUpdate
<1>. QED
  BY <1>2, RoundFields DEF GiveUp, Turns, Keeps

LEMMA EmergencyBeginEffect ==
  ASSUME Typed, NEW c \in Callers, EmergencyBegin(c)
  PROVE  /\ caller[c].pc = "get" /\ workers = {} /\ idle' = {} /\ LockFree
         /\ Turns(c, "recover", caller[c].w, caller[c].err) /\ Keeps(c)
         /\ UNCHANGED <<proc, workers, busy, closed, taken>>
<1>1. caller' = [caller EXCEPT ![c] = [caller[c] EXCEPT !.pc = "recover"]]
  BY DEF EmergencyBegin, Typed
<1>2. /\ Stays(c) /\ caller[c] \in CallerState
      /\ caller'[c] = [caller[c] EXCEPT !.pc = "recover"]
  BY <1>1, CallerUpdate
<1>3. Turns(c, "recover", caller[c].w, caller[c].err) /\ Keeps(c)
  BY <1>2, CallerFields DEF Turns, Keeps
<1>. QED
  BY <1>3 DEF EmergencyBegin

LEMMA EmergencySpawnEffect ==
  ASSUME Typed, NEW c \in Callers, EmergencySpawn(c)
  PROVE  /\ caller[c].pc = "recover"
         /\ \E p \in Spare :
              /\ proc'[p] = Fresh(proc[p]) /\ Others(p)
              /\ proc' = [proc EXCEPT ![p] = Fresh(proc[p])]
              /\ workers' = workers \cup {p} /\ busy' = busy \cup {p}
              /\ Turns(c, "call", p, caller[c].err)
         /\ Keeps(c)
         /\ UNCHANGED <<idle, closed, taken>>
<1>1. PICK p \in Spare :
        /\ proc' = [proc EXCEPT ![p] = Fresh(proc[p])]
        /\ workers' = workers \cup {p} /\ busy' = busy \cup {p}
        /\ caller' = [caller EXCEPT ![c] = [caller[c] EXCEPT !.pc = "call",
                                                             !.w = p]]
  BY DEF EmergencySpawn, Typed
<1>2. /\ Stays(c) /\ caller[c] \in CallerState
      /\ caller'[c] = [caller[c] EXCEPT !.pc = "call", !.w = p]
  BY <1>1, CallerUpdate
<1>3. p \in Procs
  BY DEF Spare, Unreferenced
<1>4. proc'[p] = Fresh(proc[p]) /\ Others(p)
  BY <1>1, <1>3, ProcUpdate
<1>5. Turns(c, "call", p, caller[c].err) /\ Keeps(c)
  BY <1>2, CallerFields DEF Turns, Keeps
<1>. QED
  BY <1>1, <1>4, <1>5 DEF EmergencySpawn

LEMMA EmergencyFailsEffect ==
  ASSUME Typed, NEW c \in Callers, EmergencyFails(c)
  PROVE  /\ caller[c].pc = "recover"
         /\ \/ Turns(c, "get", caller[c].w, caller[c].err)
            \/ \E pc \in {"get", "off"}, e \in {"none", "failed"} :
                 Turns(c, pc, NoProc, e)
         /\ Keeps(c)
         /\ UNCHANGED <<proc, workers, idle, busy, closed, taken>>
<1>1. CASE caller' = [caller EXCEPT ![c] = [caller[c] EXCEPT !.pc = "get"]]
  <2>1. /\ Stays(c) /\ caller[c] \in CallerState
        /\ caller'[c] = [caller[c] EXCEPT !.pc = "get"]
    BY <1>1, CallerUpdate
  <2>. QED
    BY <2>1, CallerFields DEF EmergencyFails, Turns, Keeps, lists
<1>2. CASE caller' = [caller EXCEPT ![c] = NextRound(caller[c])]
  <2>1. /\ Stays(c) /\ caller[c] \in CallerState
        /\ caller'[c] = NextRound(caller[c])
    BY <1>2, CallerUpdate
  <2>. QED
    BY <2>1, RoundFields DEF EmergencyFails, Turns, Keeps, lists
<1>. QED
  BY <1>1, <1>2 DEF EmergencyFails, Typed

LEMMA CallRefusedEffect ==
  ASSUME Typed, NEW c \in Callers, CallRefused(c)
  PROVE  /\ caller[c].pc = "call"
         /\ Turns(c, "restart", caller[c].w, "broken") /\ Keeps(c)
         /\ UNCHANGED <<proc, workers, idle, busy, closed, taken>>
<1>1. caller' = [caller EXCEPT ![c] = [caller[c] EXCEPT !.pc = "restart",
                                                        !.err = "broken"]]
  BY DEF CallRefused, Typed
<1>2. /\ Stays(c) /\ caller[c] \in CallerState
      /\ caller'[c] = [caller[c] EXCEPT !.pc = "restart", !.err = "broken"]
  BY <1>1, CallerUpdate
<1>3. Turns(c, "restart", caller[c].w, "broken") /\ Keeps(c)
  BY <1>2, CallerFields DEF Turns, Keeps
<1>. QED
  BY <1>3 DEF CallRefused, lists

\* The worker a caller refers to is a process.
LEMMA HeldProc ==
  ASSUME Typed, Held, NEW c \in Callers,
         caller[c].pc \notin {"off", "get", "recover"}
  PROVE  caller[c].w \in Procs
BY DEF Typed, Held, CallerState

LEMMA CallPutEffect ==
  ASSUME Typed, Held, NEW c \in Callers, CallPut(c)
  PROVE  LET p == caller[c].w
         IN  /\ caller[c].pc = "call" /\ Alive(p) /\ p \in Procs
             /\ proc'[p] = [proc[p] EXCEPT
                              !.inbox = Append(proc[p].inbox, Mine(c))]
             /\ Others(p)
             /\ proc' = [proc EXCEPT ![p] = proc'[p]]
             /\ Turns(c, "wait", p, caller[c].err) /\ Keeps(c)
             /\ UNCHANGED <<workers, idle, busy, closed, taken>>
<1> DEFINE p == caller[c].w
           x == [proc[p] EXCEPT !.inbox = Append(proc[p].inbox, Mine(c))]
<1>1. p \in Procs
  BY HeldProc DEF CallPut
<1>2. proc' = [proc EXCEPT ![p] = x]
  BY <1>1 DEF CallPut, Typed, Mine
<1>3. caller' = [caller EXCEPT ![c] = [caller[c] EXCEPT !.pc = "wait"]]
  BY DEF CallPut, Typed
<1>4. /\ Stays(c) /\ caller[c] \in CallerState
      /\ caller'[c] = [caller[c] EXCEPT !.pc = "wait"]
  BY <1>3, CallerUpdate
<1> HIDE DEF x
<1>5. proc'[p] = x /\ Others(p)
  BY <1>1, <1>2, ProcUpdate
<1>6. Turns(c, "wait", p, caller[c].err) /\ Keeps(c)
  BY <1>4, CallerFields DEF Turns, Keeps
<1>. QED
  BY <1>1, <1>2, <1>5, <1>6 DEF CallPut, lists, x

LEMMA ReceiveEffect ==
  ASSUME Typed, Held, NEW c \in Callers, Receive(c)
  PROVE  LET p == caller[c].w
             r == Head(proc[p].outbox)
         IN  /\ caller[c].pc = "wait" /\ proc[p].outbox # <<>> /\ p \in Procs
             /\ proc'[p] = [proc[p] EXCEPT
                  !.outbox = Tail(proc[p].outbox), !.count = proc[p].count + 1,
                  !.flag = /\ proc[p].flag /\ ~ r.exiting
                           /\ proc[p].count + 1 < MaxTasks]
             /\ Others(p)
             /\ proc' = [proc EXCEPT ![p] = proc'[p]]
             /\ Turns(c, "done", p, caller[c].err)
             /\ caller'[c].n = caller[c].n /\ caller'[c].got = r.of
             /\ UNCHANGED <<workers, idle, busy, closed, taken>>
<1> DEFINE p == caller[c].w
           r == Head(proc[p].outbox)
           x == [proc[p] EXCEPT
                  !.outbox = Tail(proc[p].outbox), !.count = proc[p].count + 1,
                  !.flag = /\ proc[p].flag /\ ~ r.exiting
                           /\ proc[p].count + 1 < MaxTasks]
<1>1. p \in Procs
  BY HeldProc DEF Receive
<1>2. proc' = [proc EXCEPT ![p] = x]
  BY <1>1 DEF Receive, Typed
<1>3. caller' = [caller EXCEPT ![c] = [caller[c] EXCEPT !.pc = "done",
                                                        !.got = r.of]]
  BY DEF Receive, Typed
<1>4. /\ Stays(c) /\ caller[c] \in CallerState
      /\ caller'[c] = [caller[c] EXCEPT !.pc = "done", !.got = r.of]
  BY <1>3, CallerUpdate
<1> HIDE DEF x
<1>5. proc'[p] = x /\ Others(p)
  BY <1>1, <1>2, ProcUpdate
<1>6. /\ Turns(c, "done", p, caller[c].err)
      /\ caller'[c].n = caller[c].n /\ caller'[c].got = r.of
  BY <1>4, CallerFields DEF Turns
<1>. QED
  BY <1>1, <1>2, <1>5, <1>6 DEF Receive, lists, x

LEMMA CallTimeoutEffect ==
  ASSUME Typed, Held, NEW c \in Callers, CallTimeout(c)
  PROVE  LET p == caller[c].w
         IN  /\ caller[c].pc = "wait" /\ p \in Procs
             /\ proc'[p] = [proc[p] EXCEPT !.flag = FALSE] /\ Others(p)
             /\ proc' = [proc EXCEPT ![p] = proc'[p]]
             /\ Turns(c, "restart", p, "timeout") /\ Keeps(c)
             /\ UNCHANGED <<workers, idle, busy, closed, taken>>
<1> DEFINE p == caller[c].w
           x == [proc[p] EXCEPT !.flag = FALSE]
<1>1. p \in Procs
  BY HeldProc DEF CallTimeout
<1>2. proc' = [proc EXCEPT ![p] = x]
  BY <1>1 DEF CallTimeout, Typed
<1>3. caller' = [caller EXCEPT ![c] = [caller[c] EXCEPT !.pc = "restart",
                                                        !.err = "timeout"]]
  BY DEF CallTimeout, Typed
<1>4. /\ Stays(c) /\ caller[c] \in CallerState
      /\ caller'[c] = [caller[c] EXCEPT !.pc = "restart", !.err = "timeout"]
  BY <1>3, CallerUpdate
<1> HIDE DEF x
<1>5. proc'[p] = x /\ Others(p)
  BY <1>1, <1>2, ProcUpdate
<1>6. Turns(c, "restart", p, "timeout") /\ Keeps(c)
  BY <1>4, CallerFields DEF Turns, Keeps
<1>. QED
  BY <1>1, <1>2, <1>5, <1>6 DEF CallTimeout, lists, x

LEMMA CheckEffect ==
  ASSUME Typed, NEW c \in Callers, Check(c)
  PROVE  /\ caller[c].pc = "done"
         /\ \E pc \in {"return", "restart"} :
              Turns(c, pc, caller[c].w, caller[c].err)
         /\ Keeps(c)
         /\ UNCHANGED <<proc, workers, idle, busy, closed, taken>>
<1>1. PICK pc \in {"return", "restart"} :
        caller' = [caller EXCEPT ![c] = [caller[c] EXCEPT !.pc = pc]]
  <2>1. CASE Alive(caller[c].w)
    BY <2>1 DEF Check, Typed
  <2>2. CASE ~ Alive(caller[c].w)
    BY <2>2 DEF Check, Typed
  <2>. QED
    BY <2>1, <2>2
<1>2. /\ Stays(c) /\ caller[c] \in CallerState
      /\ caller'[c] = [caller[c] EXCEPT !.pc = pc]
  BY <1>1, CallerUpdate
<1>3. Turns(c, pc, caller[c].w, caller[c].err) /\ Keeps(c)
  BY <1>2, CallerFields DEF Turns, Keeps
<1>. QED
  BY <1>3 DEF Check, lists

LEMMA RestartEffect ==
  ASSUME Typed, Held, NEW c \in Callers, Restart(c)
  PROVE  LET old == caller[c].w
         IN  /\ caller[c].pc = "restart" /\ LockFree /\ old \in Procs
             /\ \/ \E p \in Spare :
                     /\ proc'[old] = Unused /\ proc'[p] = Fresh(proc[old])
                     /\ p # old
                     /\ \A q \in Procs : q \notin {old, p} =>
                                           proc'[q] = proc[q]
                     /\ proc' \in [Procs -> {Unused, Fresh(Unused)}
                                              \cup {proc[q] : q \in Procs}]
                     /\ workers' = (workers \ {old}) \cup {p}
                     /\ idle' = (idle \ {old}) \cup {p}
                \/ /\ proc'[old] = Unused /\ Others(old)
                   /\ proc' = [proc EXCEPT ![old] = Unused]
                   /\ workers' = workers \ {old} /\ idle' = idle \ {old}
             /\ busy' = busy \ {old}
             /\ Turns(c, "return", old, caller[c].err) /\ Keeps(c)
             /\ UNCHANGED <<closed, taken>>
<1> DEFINE old == caller[c].w
<1>1. old \in Procs
  BY HeldProc DEF Restart
<1>2. caller' = [caller EXCEPT ![c] = [caller[c] EXCEPT !.pc = "return"]]
  BY DEF Restart, Typed
<1>3. /\ Stays(c) /\ caller[c] \in CallerState
      /\ caller'[c] = [caller[c] EXCEPT !.pc = "return"]
  BY <1>2, CallerUpdate
<1>4. Turns(c, "return", old, caller[c].err) /\ Keeps(c)
  BY <1>3, CallerFields DEF Turns, Keeps
<1>5. ASSUME NEW p \in Spare,
             proc' = [proc EXCEPT ![old] = Unused, ![p] = Fresh(proc[old])]
      PROVE  /\ proc'[old] = Unused /\ proc'[p] = Fresh(proc[old])
             /\ p # old
             /\ \A q \in Procs : q \notin {old, p} => proc'[q] = proc[q]
             /\ proc' \in [Procs -> {Unused, Fresh(Unused)}
                                      \cup {proc[q] : q \in Procs}]
  <2>1. p \in Procs /\ p # old
    BY DEF Spare, Unreferenced
  <2>2. /\ proc'[old] = Unused /\ proc'[p] = Fresh(proc[old])
        /\ \A q \in Procs : q \notin {old, p} => proc'[q] = proc[q]
        /\ DOMAIN proc' = Procs
    BY <1>1, <1>5, <2>1 DEF Typed
  <2>3. Fresh(proc[old]) = Fresh(Unused)
    BY DEF Fresh
  <2>4. \A q \in Procs : proc'[q] \in {Unused, Fresh(Unused)}
                                         \cup {proc[r] : r \in Procs}
    BY <2>2, <2>3
  <2>5. proc' = [q \in Procs |-> proc'[q]]
    BY <1>1, <1>5, <2>1 DEF Typed
  <2>. QED
    BY <2>1, <2>2, <2>4, <2>5
<1>6. ASSUME proc' = [proc EXCEPT ![old] = Unused]
      PROVE  proc'[old] = Unused /\ Others(old)
  BY <1>1, <1>6, ProcUpdate
<1>7. \/ \E p \in Spare :
           /\ proc' = [proc EXCEPT ![old] = Unused, ![p] = Fresh(proc[old])]
           /\ workers' = (workers \ {old}) \cup {p}
           /\ idle' = (idle \ {old}) \cup {p}
      \/ /\ proc' = [proc EXCEPT ![old] = Unused]
         /\ workers' = workers \ {old} /\ idle' = idle \ {old}
  BY DEF Restart
<1>. QED
  BY <1>1, <1>4, <1>5, <1>6, <1>7 DEF Restart

LEMMA ReturnEffect ==
  ASSUME Typed, NEW c \in Callers, Return(c)
  PROVE  /\ caller[c].pc = "return"
         /\ busy' = busy \ {caller[c].w}
         /\ idle' = IF Alive(caller[c].w) THEN idle \cup {caller[c].w} ELSE idle
         /\ \E pc \in {"get", "off"}, e \in {"none", "timeout", "failed"} :
              /\ pc = "get" => caller[c].err = "broken"
              /\ Turns(c, pc, NoProc, e)
         /\ Keeps(c)
         /\ UNCHANGED <<proc, workers, closed, taken>>
<1>1. CASE caller[c].err = "broken"
  <2>1. caller' = [caller EXCEPT ![c] = NextRound(caller[c])]
    BY <1>1 DEF Return
  <2>2. /\ Stays(c) /\ caller[c] \in CallerState
        /\ caller'[c] = NextRound(caller[c])
    BY <2>1, CallerUpdate
  <2>. QED
    BY <1>1, <2>2, RoundFields DEF Return, Turns, Keeps
<1>2. CASE caller[c].err # "broken"
  <2>1. caller' = [caller EXCEPT ![c] = [caller[c] EXCEPT !.pc = "off",
                                                          !.w = NoProc]]
    BY <1>2 DEF Return
  <2>2. /\ Stays(c) /\ caller[c] \in CallerState
        /\ caller'[c] = [caller[c] EXCEPT !.pc = "off", !.w = NoProc]
    BY <2>1, CallerUpdate
  <2>3. caller[c].err \in {"none", "timeout", "failed"}
    BY <1>2, <2>2 DEF CallerState
  <2>4. Turns(c, "off", NoProc, caller[c].err) /\ Keeps(c)
    BY <2>2, CallerFields DEF Turns, Keeps
  <2>. QED
    BY <2>3, <2>4 DEF Return
<1>. QED
  BY <1>1, <1>2

LEMMA TakeTaskEffect ==
  ASSUME Typed, NEW p \in Procs, TakeTask(p)
  PROVE  /\ proc[p].state = "up" /\ proc[p].job = NoCall /\ proc[p].inbox # <<>>
         /\ proc'[p] = [proc[p] EXCEPT !.job = Head(proc[p].inbox),
                                    !.inbox = Tail(proc[p].inbox)]
         /\ Others(p) /\ proc' = [proc EXCEPT ![p] = proc'[p]]
         /\ UNCHANGED <<workers, idle, busy, caller, closed>>
         /\ taken' = [c \in Callers |->
              IF Head(proc[p].inbox) = <<c, caller[c].n>> /\ taken[c] < 2
                THEN taken[c] + 1 ELSE taken[c]]
<1> DEFINE x == [proc[p] EXCEPT !.job = Head(proc[p].inbox),
                                    !.inbox = Tail(proc[p].inbox)]
<1>1. proc' = [proc EXCEPT ![p] = x]
  BY DEF TakeTask, Typed
<1> HIDE DEF x
<1>2. proc'[p] = x /\ Others(p)
  BY <1>1, ProcUpdate
<1>. QED
  BY <1>1, <1>2 DEF x, TakeTask, lists

LEMMA FinishEffect ==
  ASSUME Typed, NEW p \in Procs, Finish(p)
  PROVE  /\ proc[p].state = "up" /\ proc[p].job # NoCall
         /\ proc'[p] = [proc[p] EXCEPT !.job = NoCall,
                !.outbox = Append(proc[p].outbox,
                             [of |-> proc[p].job, exiting |-> FALSE])]
         /\ Others(p) /\ proc' = [proc EXCEPT ![p] = proc'[p]]
         /\ UNCHANGED <<workers, idle, busy, caller, closed>>
         /\ UNCHANGED taken
<1> DEFINE x == [proc[p] EXCEPT !.job = NoCall,
                !.outbox = Append(proc[p].outbox,
                             [of |-> proc[p].job, exiting |-> FALSE])]
<1>1. proc' = [proc EXCEPT ![p] = x]
  BY DEF Finish, Typed
<1> HIDE DEF x
<1>2. proc'[p] = x /\ Others(p)
  BY <1>1, ProcUpdate
<1>. QED
  BY <1>1, <1>2 DEF x, Finish, lists

LEMMA CudaErrorEffect ==
  ASSUME Typed, NEW p \in Procs, CudaError(p)
  PROVE  /\ proc[p].state = "up" /\ proc[p].job # NoCall
         /\ proc'[p] = [proc[p] EXCEPT !.state = "exiting", !.job = NoCall,
                !.outbox = Append(proc[p].outbox,
                             [of |-> proc[p].job, exiting |-> TRUE])]
         /\ Others(p) /\ proc' = [proc EXCEPT ![p] = proc'[p]]
         /\ UNCHANGED <<workers, idle, busy, caller, closed>>
         /\ UNCHANGED taken
<1> DEFINE x == [proc[p] EXCEPT !.state = "exiting", !.job = NoCall,
                !.outbox = Append(proc[p].outbox,
                             [of |-> proc[p].job, exiting |-> TRUE])]
<1>1. proc' = [proc EXCEPT ![p] = x]
  BY DEF CudaError, Typed
<1> HIDE DEF x
<1>2. proc'[p] = x /\ Others(p)
  BY <1>1, ProcUpdate
<1>. QED
  BY <1>1, <1>2 DEF x, CudaError, lists

LEMMA ExitEffect ==
  ASSUME Typed, NEW p \in Procs, Exit(p)
  PROVE  /\ proc[p].state = "exiting"
         /\ proc'[p] = [proc[p] EXCEPT !.state = "dead"]
         /\ Others(p) /\ proc' = [proc EXCEPT ![p] = proc'[p]]
         /\ UNCHANGED <<workers, idle, busy, caller, closed>>
         /\ UNCHANGED taken
<1> DEFINE x == [proc[p] EXCEPT !.state = "dead"]
<1>1. proc' = [proc EXCEPT ![p] = x]
  BY DEF Exit, Typed
<1> HIDE DEF x
<1>2. proc'[p] = x /\ Others(p)
  BY <1>1, ProcUpdate
<1>. QED
  BY <1>1, <1>2 DEF x, Exit, lists

LEMMA CrashEffect ==
  ASSUME Typed, NEW p \in Procs, TaskCrash(p) \/ IdleCrash(p)
  PROVE  /\ proc[p].state = "up"
         /\ proc'[p] = [proc[p] EXCEPT !.state = "dead", !.job = NoCall]
         /\ Others(p) /\ proc' = [proc EXCEPT ![p] = proc'[p]]
         /\ UNCHANGED <<workers, idle, busy, caller, closed>>
         /\ UNCHANGED taken
<1> DEFINE x == [proc[p] EXCEPT !.state = "dead", !.job = NoCall]
<1>1. proc' = [proc EXCEPT ![p] = x]
  BY DEF TaskCrash, IdleCrash, Die, Typed
<1> HIDE DEF x
<1>2. proc'[p] = x /\ Others(p)
  BY <1>1, ProcUpdate
<1>. QED
  BY <1>1, <1>2 DEF x, TaskCrash, IdleCrash, Die, lists

\* What no step of a process touches.
LEMMA ProcEffect ==
  ASSUME Typed, NEW p \in Procs, ProcStep(p)
  PROVE  /\ proc[p].state # "dead"
         /\ proc'[p].flag = proc[p].flag /\ proc'[p].count = proc[p].count
         /\ Others(p) /\ proc' = [proc EXCEPT ![p] = proc'[p]]
         /\ UNCHANGED <<workers, idle, busy, caller, closed>>
<1>p. proc[p] \in ProcState
  BY DEF Typed
<1>1. CASE TakeTask(p)
  <2>1. proc[p].state = "up"
    BY <1>1, TakeTaskEffect
  <2>2. proc'[p] = [proc[p] EXCEPT !.job = Head(proc[p].inbox),
                                    !.inbox = Tail(proc[p].inbox)]
    BY <1>1, TakeTaskEffect
  <2>3. /\ Others(p) /\ proc' = [proc EXCEPT ![p] = proc'[p]]
        /\ UNCHANGED <<workers, idle, busy, caller, closed>>
    BY <1>1, TakeTaskEffect
  <2>4. proc'[p].flag = proc[p].flag /\ proc'[p].count = proc[p].count
    BY <1>p, <2>2 DEF ProcState
  <2>. QED
    BY <2>1, <2>3, <2>4
<1>2. CASE Finish(p)
  <2>1. proc[p].state = "up"
    BY <1>2, FinishEffect
  <2>2. proc'[p] = [proc[p] EXCEPT !.job = NoCall,
                !.outbox = Append(proc[p].outbox,
                             [of |-> proc[p].job, exiting |-> FALSE])]
    BY <1>2, FinishEffect
  <2>3. /\ Others(p) /\ proc' = [proc EXCEPT ![p] = proc'[p]]
        /\ UNCHANGED <<workers, idle, busy, caller, closed>>
    BY <1>2, FinishEffect
  <2>4. proc'[p].flag = proc[p].flag /\ proc'[p].count = proc[p].count
    BY <1>p, <2>2 DEF ProcState
  <2>. QED
    BY <2>1, <2>3, <2>4
<1>3. CASE CudaError(p)
  <2>1. proc[p].state = "up"
    BY <1>3, CudaErrorEffect
  <2>2. proc'[p] = [proc[p] EXCEPT !.state = "exiting", !.job = NoCall,
                !.outbox = Append(proc[p].outbox,
                             [of |-> proc[p].job, exiting |-> TRUE])]
    BY <1>3, CudaErrorEffect
  <2>3. /\ Others(p) /\ proc' = [proc EXCEPT ![p] = proc'[p]]
        /\ UNCHANGED <<workers, idle, busy, caller, closed>>
    BY <1>3, CudaErrorEffect
  <2>4. proc'[p].flag = proc[p].flag /\ proc'[p].count = proc[p].count
    BY <1>p, <2>2 DEF ProcState
  <2>. QED
    BY <2>1, <2>3, <2>4
<1>4. CASE Exit(p)
  <2>1. proc[p].state = "exiting"
    BY <1>4, ExitEffect
  <2>2. proc'[p] = [proc[p] EXCEPT !.state = "dead"]
    BY <1>4, ExitEffect
  <2>3. /\ Others(p) /\ proc' = [proc EXCEPT ![p] = proc'[p]]
        /\ UNCHANGED <<workers, idle, busy, caller, closed>>
    BY <1>4, ExitEffect
  <2>4. proc'[p].flag = proc[p].flag /\ proc'[p].count = proc[p].count
    BY <1>p, <2>2 DEF ProcState
  <2>. QED
    BY <2>1, <2>3, <2>4
<1>5. CASE TaskCrash(p) \/ IdleCrash(p)
  <2>1. proc[p].state = "up"
    BY <1>5, CrashEffect
  <2>2. proc'[p] = [proc[p] EXCEPT !.state = "dead", !.job = NoCall]
    BY <1>5, CrashEffect
  <2>3. /\ Others(p) /\ proc' = [proc EXCEPT ![p] = proc'[p]]
        /\ UNCHANGED <<workers, idle, busy, caller, closed>>
    BY <1>5, CrashEffect
  <2>4. proc'[p].flag = proc[p].flag /\ proc'[p].count = proc[p].count
    BY <1>p, <2>2 DEF ProcState
  <2>. QED
    BY <2>1, <2>3, <2>4
<1>. QED
  BY <1>1, <1>2, <1>3, <1>4, <1>5 DEF ProcStep

\* shutdown() leaves nothing alive and nothing listed.
LEMMA ShutdownEffect ==
  ASSUME Typed, Shutdown
  PROVE  /\ ~ closed /\ closed' /\ workers' = {} /\ idle' = {} /\ busy' = {}
         /\ UNCHANGED <<caller, taken>>
         /\ DOMAIN proc' = Procs
         /\ \A p \in Procs :
              proc'[p] = IF p \in workers THEN Killed(proc[p]) ELSE proc[p]
BY DEF Shutdown

(* The same in fields. *)

LEMMA CallPutFields ==
  ASSUME Typed, Held, NEW c \in Callers, CallPut(c)
  PROVE  LET p == caller[c].w
             x == proc[p]
             y == proc'[p]
         IN  /\ p \in Procs /\ x \in ProcState
             /\ y.state = x.state /\ y.flag = x.flag /\ y.job = x.job
             /\ y.outbox = x.outbox /\ y.count = x.count
             /\ y.inbox = Append(x.inbox, Mine(c))
<1> DEFINE p == caller[c].w
<1>1. /\ p \in Procs
      /\ proc'[p] = [proc[p] EXCEPT !.inbox = Append(proc[p].inbox, Mine(c))]
  BY CallPutEffect
<1>2. proc[p] \in ProcState
  BY <1>1 DEF Typed
<1> HIDE DEF p
<1>. QED
  BY <1>1, <1>2 DEF ProcState, p

LEMMA ReceiveFields ==
  ASSUME Typed, Held, NEW c \in Callers, Receive(c)
  PROVE  LET p == caller[c].w
             x == proc[p]
             y == proc'[p]
         IN  /\ p \in Procs /\ x \in ProcState
             /\ y.state = x.state /\ y.job = x.job /\ y.inbox = x.inbox
             /\ y.outbox = Tail(x.outbox) /\ y.count = x.count + 1
             /\ y.flag \in BOOLEAN /\ (y.flag => x.count + 1 < MaxTasks)
<1> DEFINE p == caller[c].w
<1>1. /\ p \in Procs
      /\ proc'[p] = [proc[p] EXCEPT
           !.outbox = Tail(proc[p].outbox), !.count = proc[p].count + 1,
           !.flag = /\ proc[p].flag /\ ~ Head(proc[p].outbox).exiting
                    /\ proc[p].count + 1 < MaxTasks]
  BY ReceiveEffect
<1>2. proc[p] \in ProcState
  BY <1>1 DEF Typed
<1> HIDE DEF p
<1>. QED
  BY <1>1, <1>2 DEF ProcState, p

LEMMA CallTimeoutFields ==
  ASSUME Typed, Held, NEW c \in Callers, CallTimeout(c)
  PROVE  LET p == caller[c].w
             x == proc[p]
             y == proc'[p]
         IN  /\ p \in Procs /\ x \in ProcState
             /\ y.state = x.state /\ y.job = x.job /\ y.inbox = x.inbox
             /\ y.outbox = x.outbox /\ y.count = x.count
             /\ y.flag = FALSE
<1> DEFINE p == caller[c].w
<1>1. /\ p \in Procs
      /\ proc'[p] = [proc[p] EXCEPT !.flag = FALSE]
  BY CallTimeoutEffect
<1>2. proc[p] \in ProcState
  BY <1>1 DEF Typed
<1> HIDE DEF p
<1>. QED
  BY <1>1, <1>2 DEF ProcState, p

LEMMA TakeTaskFields ==
  ASSUME Typed, NEW p \in Procs, TakeTask(p)
  PROVE  LET x == proc[p]
             y == proc'[p]
         IN  /\ p \in Procs /\ x \in ProcState
             /\ y.state = x.state /\ y.flag = x.flag
             /\ y.outbox = x.outbox /\ y.count = x.count
             /\ y.job = Head(x.inbox) /\ y.inbox = Tail(x.inbox)
<1>1. /\ p \in Procs
      /\ proc'[p] = [proc[p] EXCEPT !.job = Head(proc[p].inbox),
                                    !.inbox = Tail(proc[p].inbox)]
  BY TakeTaskEffect
<1>2. proc[p] \in ProcState
  BY <1>1 DEF Typed
<1>. QED
  BY <1>1, <1>2 DEF ProcState

LEMMA FinishFields ==
  ASSUME Typed, NEW p \in Procs, Finish(p)
  PROVE  LET x == proc[p]
             y == proc'[p]
         IN  /\ p \in Procs /\ x \in ProcState
             /\ y.state = x.state /\ y.flag = x.flag
             /\ y.inbox = x.inbox /\ y.count = x.count
             /\ y.job = NoCall
             /\ y.outbox = Append(x.outbox, [of |-> x.job, exiting |-> FALSE])
<1>1. /\ p \in Procs
      /\ proc'[p] = [proc[p] EXCEPT !.job = NoCall,
                !.outbox = Append(proc[p].outbox,
                             [of |-> proc[p].job, exiting |-> FALSE])]
  BY FinishEffect
<1>2. proc[p] \in ProcState
  BY <1>1 DEF Typed
<1>. QED
  BY <1>1, <1>2 DEF ProcState

LEMMA CudaErrorFields ==
  ASSUME Typed, NEW p \in Procs, CudaError(p)
  PROVE  LET x == proc[p]
             y == proc'[p]
         IN  /\ p \in Procs /\ x \in ProcState
             /\ y.flag = x.flag /\ y.inbox = x.inbox /\ y.count = x.count
             /\ y.state = "exiting" /\ y.job = NoCall
             /\ y.outbox = Append(x.outbox, [of |-> x.job, exiting |-> TRUE])
<1>1. /\ p \in Procs
      /\ proc'[p] = [proc[p] EXCEPT !.state = "exiting", !.job = NoCall,
                !.outbox = Append(proc[p].outbox,
                             [of |-> proc[p].job, exiting |-> TRUE])]
  BY CudaErrorEffect
<1>2. proc[p] \in ProcState
  BY <1>1 DEF Typed
<1>. QED
  BY <1>1, <1>2 DEF ProcState

LEMMA ExitFields ==
  ASSUME Typed, NEW p \in Procs, Exit(p)
  PROVE  LET x == proc[p]
             y == proc'[p]
         IN  /\ p \in Procs /\ x \in ProcState
             /\ y.flag = x.flag /\ y.job = x.job /\ y.inbox = x.inbox
             /\ y.outbox = x.outbox /\ y.count = x.count
             /\ y.state = "dead"
<1>1. /\ p \in Procs
      /\ proc'[p] = [proc[p] EXCEPT !.state = "dead"]
  BY ExitEffect
<1>2. proc[p] \in ProcState
  BY <1>1 DEF Typed
<1>. QED
  BY <1>1, <1>2 DEF ProcState

LEMMA CrashFields ==
  ASSUME Typed, NEW p \in Procs, TaskCrash(p) \/ IdleCrash(p)
  PROVE  LET x == proc[p]
             y == proc'[p]
         IN  /\ p \in Procs /\ x \in ProcState
             /\ y.flag = x.flag /\ y.inbox = x.inbox
             /\ y.outbox = x.outbox /\ y.count = x.count
             /\ y.state = "dead" /\ y.job = NoCall
<1>1. /\ p \in Procs
      /\ proc'[p] = [proc[p] EXCEPT !.state = "dead", !.job = NoCall]
  BY CrashEffect
<1>2. proc[p] \in ProcState
  BY <1>1 DEF Typed
<1>. QED
  BY <1>1, <1>2 DEF ProcState

LEMMA ShutdownFields ==
  ASSUME Typed, Shutdown, NEW p \in Procs
  PROVE  LET x == proc[p]
             y == proc'[p]
         IN  /\ x \in ProcState
             /\ \/ p \notin workers /\ y = x
                \/ /\ p \in workers /\ y.state = "dead" /\ y.flag = FALSE
                   /\ y.job = NoCall /\ y.inbox = <<>> /\ y.count = x.count
                   /\ y.outbox = x.outbox
<1>1. proc[p] \in ProcState
  BY DEF Typed
<1> DEFINE k == Killed(proc[p])
<1>2. /\ k.state = "dead" /\ k.flag = FALSE /\ k.job = NoCall
      /\ k.inbox = <<>> /\ k.count = proc[p].count
      /\ k.outbox = proc[p].outbox
  BY <1>1 DEF Killed, ProcState
<1>3. proc'[p] = IF p \in workers THEN k ELSE proc[p]
  BY ShutdownEffect
<1> HIDE DEF k
<1>. QED
  BY <1>1, <1>2, <1>3

-----------------------------------------------------------------------------
(* Every step preserves every part. *)

\* The step of a caller that neither waits for a process nor replaces one, and
\* leaves all processes alone.
LEMMA Idlers ==
  ASSUME Carried, NEW c \in Callers, caller[c].pc \notin {"wait", "restart"},
         Stays(c), UNCHANGED proc
  PROVE  Carried'
BY DEF Carried, Stays, Mine

\* A process that is not quiet carries the call of whoever refers to it.
LEMMA CarriesMine ==
  ASSUME Carried, Alone, NEW c \in Callers, caller[c].w \in Procs
  PROVE  LET p == caller[c].w
         IN  \/ Quiet(proc[p])
             \/ /\ caller[c].pc \in {"wait", "restart"}
                /\ Carries(proc[p], Mine(c))
BY PoolAssumption DEF Carried, Alone

\* What a process may carry once nothing but its flag, count or state changed.
LEMMA SameLoad ==
  ASSUME NEW x, NEW y, y.job = x.job, y.inbox = x.inbox, y.outbox = x.outbox
  PROVE  (Quiet(y) <=> Quiet(x)) /\ \A j : Carries(y, j) <=> Carries(x, j)
BY DEF Quiet, Carries

\* One process changes its load, and nobody starts or stops waiting for another.
LEMMA CarriedBut ==
  ASSUME Carried, NEW p \in Procs, Others(p),
         \A d \in Callers : caller[d].w # p => caller'[d] = caller[d],
         \/ Quiet(proc'[p])
         \/ \E c \in Callers : /\ caller'[c].w = p
                               /\ caller'[c].pc \in {"wait", "restart"}
                               /\ Carries(proc'[p], Mine(c)')
  PROVE  Carried'
<1>1. ASSUME NEW q \in Procs, q # p
      PROVE  \/ Quiet(proc'[q])
             \/ \E c \in Callers : /\ caller'[c].w = q
                                   /\ caller'[c].pc \in {"wait", "restart"}
                                   /\ Carries(proc'[q], Mine(c)')
  <2>1. CASE Quiet(proc[q])
    BY <1>1, <2>1 DEF Others
  <2>2. CASE ~ Quiet(proc[q])
    <3>1. PICK c \in Callers : /\ caller[c].w = q
                               /\ caller[c].pc \in {"wait", "restart"}
                               /\ Carries(proc[q], Mine(c))
      BY <2>2 DEF Carried
    <3>2. caller'[c] = caller[c] /\ Mine(c)' = Mine(c)
      BY <1>1, <3>1 DEF Mine
    <3>. QED
      BY <1>1, <3>1, <3>2 DEF Others
  <2>. QED
    BY <2>1, <2>2
<1>. QED
  BY <1>1 DEF Carried

\* A step of one caller, and of no process another one needs.
LEMMA UnsentBut ==
  ASSUME Unsent, NEW c \in Callers, Stays(c), UnsentAt(c)',
         \A d \in Callers : d # c =>
           /\ taken'[d] = taken[d]
           /\ caller[d].pc \in {"wait", "restart", "return"} =>
                proc'[caller[d].w] = proc[caller[d].w]
  PROVE  Unsent'
<1>1. ASSUME NEW d \in Callers, d # c
      PROVE  UnsentAt(d)'
  BY <1>1 DEF Unsent, UnsentAt, Stays
<1>. QED
  BY <1>1 DEF Unsent

\* What the types need.
LEMMA CallerType ==
  ASSUME Typed, NEW c \in Callers
  PROVE  caller[c] \in CallerState
BY DEF Typed

LEMMA CallerTyped ==
  ASSUME Typed, NEW c \in Callers, NEW x \in CallerState,
         caller' = [caller EXCEPT ![c] = x]
  PROVE  caller' \in [Callers -> CallerState]
BY DEF Typed

LEMMA ProcTyped ==
  ASSUME Typed, NEW p \in Procs, NEW x \in ProcState,
         proc' = [proc EXCEPT ![p] = x]
  PROVE  proc' \in [Procs -> ProcState]
BY DEF Typed

LEMMA RoundTyped ==
  ASSUME NEW x \in CallerState
  PROVE  NextRound(x) \in CallerState
<1>1. CASE x.tries < MaxRetries
  <2>1. x.tries + 1 \in 0..MaxRetries
    BY <1>1, PoolAssumption DEF CallerState
  <2>. QED
    BY <1>1, <2>1 DEF CallerState, NextRound
<1>2. CASE ~ (x.tries < MaxRetries)
  BY <1>2 DEF CallerState, NextRound
<1>. QED
  BY <1>1, <1>2

LEMMA FreshTyped ==
  ASSUME NEW x
  PROVE  Fresh(x) \in ProcState /\ Unused \in ProcState
BY PoolAssumption DEF Fresh, Unused, ProcState

\* A caller takes a worker up when it starts to need one, and lays it down when
\* it looks for another or ends.
LEMMA HeldStep ==
  ASSUME Typed, Held, [Next]_vars
  PROVE  Held'
<1>1. ASSUME NEW c \in Callers, Begin(c)
      PROVE  Held'
  BY <1>1, PoolAssumption, BeginEffect
   DEF Turns, Stays, Held, Typed, CallerState
<1>2. ASSUME NEW c \in Callers, Acquire(c)
      PROVE  Held'
  <2>1. PICK p \in Usable :
           /\ caller[c].pc = "get" /\ Turns(c, "call", p, caller[c].err)
           /\ Keeps(c) /\ idle' = Usable \ {p}
    BY <1>2, AcquireEffect
  <2>2. p # NoProc
    BY <2>1, PoolAssumption DEF Usable, Typed
  <2>. QED
    BY <2>1, <2>2 DEF Turns, Stays, Keeps, Others, Held
<1>3. ASSUME NEW c \in Callers, GiveUp(c)
      PROVE  Held'
  BY <1>3, GiveUpEffect DEF Turns, Stays, Keeps, Others, Held
<1>4. ASSUME NEW c \in Callers, EmergencyBegin(c)
      PROVE  Held'
  BY <1>4, EmergencyBeginEffect DEF Turns, Stays, Keeps, Others, Held
<1>5. ASSUME NEW c \in Callers, EmergencySpawn(c)
      PROVE  Held'
  <2>1. PICK p \in Spare :
           /\ caller[c].pc = "recover" /\ Turns(c, "call", p, caller[c].err)
           /\ Keeps(c) /\ idle' = idle
    BY <1>5, EmergencySpawnEffect
  <2>. QED
    BY <2>1
     DEF Turns, Stays, Keeps, Others, Held, Typed, PoolAssumption, CallerState,
         Spare, Unreferenced
<1>6. ASSUME NEW c \in Callers, EmergencyFails(c)
      PROVE  Held'
  BY <1>6, EmergencyFailsEffect DEF Turns, Stays, Keeps, Others, Held
<1>7. ASSUME NEW c \in Callers, CallRefused(c)
      PROVE  Held'
  BY <1>7, CallRefusedEffect DEF Turns, Stays, Keeps, Others, Held
<1>8. ASSUME NEW c \in Callers, CallPut(c)
      PROVE  Held'
  <2>1. /\ caller[c].pc = "call"
        /\ Turns(c, "wait", caller[c].w, caller[c].err)
        /\ Keeps(c) /\ UNCHANGED <<workers, idle, busy, closed>>
    BY <1>8, CallPutEffect
  <2>. QED
    BY <2>1 DEF Turns, Stays, Keeps, Others, Held
<1>9. ASSUME NEW c \in Callers, Receive(c)
      PROVE  Held'
  <2>1. /\ caller[c].pc = "wait"
        /\ Turns(c, "done", caller[c].w, caller[c].err)
        /\ caller'[c].n = caller[c].n
        /\ UNCHANGED <<workers, idle, busy, closed>>
    BY <1>9, ReceiveEffect
  <2>. QED
    BY <2>1 DEF Turns, Stays, Keeps, Others, Held
<1>10. ASSUME NEW c \in Callers, CallTimeout(c)
      PROVE  Held'
  <2>1. /\ caller[c].pc = "wait"
        /\ Turns(c, "restart", caller[c].w, "timeout") /\ Keeps(c)
        /\ UNCHANGED <<workers, idle, busy, closed>>
    BY <1>10, CallTimeoutEffect
  <2>. QED
    BY <2>1 DEF Turns, Stays, Keeps, Others, Held
<1>11. ASSUME NEW c \in Callers, Check(c)
      PROVE  Held'
  BY <1>11, CheckEffect DEF Turns, Stays, Keeps, Others, Held
<1>12. ASSUME NEW c \in Callers, Restart(c)
      PROVE  Held'
  <2>1. /\ caller[c].pc = "restart"
        /\ Turns(c, "return", caller[c].w, caller[c].err) /\ Keeps(c)
    BY <1>12, RestartEffect
  <2>. QED
    BY <2>1 DEF Turns, Stays, Keeps, Others, Held
<1>13. ASSUME NEW c \in Callers, Return(c)
      PROVE  Held'
  BY <1>13, ReturnEffect DEF Turns, Stays, Keeps, Others, Held
<1>14. ASSUME NEW p \in Procs, ProcStep(p)
      PROVE  Held'
  BY <1>14, ProcEffect DEF Others, Held
<1>15. CASE Shutdown
  BY <1>15, ShutdownEffect DEF Held
<1>16. CASE UNCHANGED vars
  BY <1>16 DEF vars, Held
<1>. QED
  BY <1>1, <1>2, <1>3, <1>4, <1>5, <1>6, <1>7, <1>8, <1>9, <1>10, <1>11, <1>12,
     <1>13, <1>14, <1>15, <1>16
   DEF Next, CallerStep

\* A worker that is taken was idle or is new: no caller referred to it before.
LEMMA AloneStep ==
  ASSUME Typed, Alone, Free, Held, [Next]_vars
  PROVE  Alone'
<1>1. ASSUME NEW c \in Callers, Begin(c)
      PROVE  Alone'
  BY <1>1, BeginEffect
   DEF Turns, Stays, Keeps, Others, Alone, Usable, Spare, Unreferenced
<1>2. ASSUME NEW c \in Callers, Acquire(c)
      PROVE  Alone'
  <2>1. PICK p \in Usable :
           /\ caller[c].pc = "get" /\ Turns(c, "call", p, caller[c].err)
           /\ Keeps(c) /\ idle' = Usable \ {p}
    BY <1>2, AcquireEffect
  <2>. QED
    BY <2>1 DEF Turns, Stays, Keeps, Others, Alone, Free, Usable
<1>3. ASSUME NEW c \in Callers, GiveUp(c)
      PROVE  Alone'
  BY <1>3, GiveUpEffect
   DEF Turns, Stays, Keeps, Others, Alone, Usable, Spare, Unreferenced
<1>4. ASSUME NEW c \in Callers, EmergencyBegin(c)
      PROVE  Alone'
  BY <1>4, EmergencyBeginEffect
   DEF Turns, Stays, Keeps, Others, Alone, Usable, Spare, Unreferenced
<1>5. ASSUME NEW c \in Callers, EmergencySpawn(c)
      PROVE  Alone'
  BY <1>5, EmergencySpawnEffect
   DEF Turns, Stays, Keeps, Others, Alone, Usable, Spare, Unreferenced
<1>6. ASSUME NEW c \in Callers, EmergencyFails(c)
      PROVE  Alone'
  BY <1>6, EmergencyFailsEffect
   DEF Turns, Stays, Keeps, Others, Alone, Usable, Spare, Unreferenced
<1>7. ASSUME NEW c \in Callers, CallRefused(c)
      PROVE  Alone'
  BY <1>7, CallRefusedEffect
   DEF Turns, Stays, Keeps, Others, Alone, Usable, Spare, Unreferenced
<1>8. ASSUME NEW c \in Callers, CallPut(c)
      PROVE  Alone'
  <2>1. /\ caller[c].pc = "call"
        /\ Turns(c, "wait", caller[c].w, caller[c].err)
        /\ Keeps(c) /\ UNCHANGED <<workers, idle, busy, closed>>
    BY <1>8, CallPutEffect
  <2>. QED
    BY <2>1 DEF Turns, Stays, Keeps, Others, Alone
<1>9. ASSUME NEW c \in Callers, Receive(c)
      PROVE  Alone'
  <2>1. /\ caller[c].pc = "wait"
        /\ Turns(c, "done", caller[c].w, caller[c].err)
        /\ caller'[c].n = caller[c].n
        /\ UNCHANGED <<workers, idle, busy, closed>>
    BY <1>9, ReceiveEffect
  <2>. QED
    BY <2>1 DEF Turns, Stays, Keeps, Others, Alone
<1>10. ASSUME NEW c \in Callers, CallTimeout(c)
      PROVE  Alone'
  <2>1. /\ caller[c].pc = "wait"
        /\ Turns(c, "restart", caller[c].w, "timeout") /\ Keeps(c)
        /\ UNCHANGED <<workers, idle, busy, closed>>
    BY <1>10, CallTimeoutEffect
  <2>. QED
    BY <2>1 DEF Turns, Stays, Keeps, Others, Alone
<1>11. ASSUME NEW c \in Callers, Check(c)
      PROVE  Alone'
  BY <1>11, CheckEffect
   DEF Turns, Stays, Keeps, Others, Alone, Usable, Spare, Unreferenced
<1>12. ASSUME NEW c \in Callers, Restart(c)
      PROVE  Alone'
  <2>1. /\ caller[c].pc = "restart"
        /\ Turns(c, "return", caller[c].w, caller[c].err) /\ Keeps(c)
    BY <1>12, RestartEffect
  <2>. QED
    BY <2>1 DEF Turns, Stays, Keeps, Others, Alone
<1>13. ASSUME NEW c \in Callers, Return(c)
      PROVE  Alone'
  BY <1>13, ReturnEffect
   DEF Turns, Stays, Keeps, Others, Alone, Usable, Spare, Unreferenced
<1>14. ASSUME NEW p \in Procs, ProcStep(p)
      PROVE  Alone'
  BY <1>14, ProcEffect DEF Others, Alone, Usable, Spare, Unreferenced
<1>15. CASE Shutdown
  BY <1>15, ShutdownEffect DEF Alone, Usable, Spare, Unreferenced
<1>16. CASE UNCHANGED vars
  BY <1>16 DEF vars, Alone, Usable, Spare, Unreferenced
<1>. QED
  BY <1>1, <1>2, <1>3, <1>4, <1>5, <1>6, <1>7, <1>8, <1>9, <1>10, <1>11, <1>12,
     <1>13, <1>14, <1>15, <1>16
   DEF Next, CallerStep

\* What becomes idle is a new worker, or one its caller lays down.
LEMMA FreeStep ==
  ASSUME Typed, Free, Alone, Held, Known, [Next]_vars
  PROVE  Free'
<1>1. ASSUME NEW c \in Callers, Begin(c)
      PROVE  Free'
  BY <1>1, BeginEffect
   DEF Turns, Stays, Keeps, Others, Free, Alone, Usable, Spare, Unreferenced,
       Held, Typed
<1>2. ASSUME NEW c \in Callers, Acquire(c)
      PROVE  Free'
  <2>1. PICK p \in Usable :
           /\ caller[c].pc = "get" /\ Turns(c, "call", p, caller[c].err)
           /\ Keeps(c) /\ idle' = Usable \ {p}
    BY <1>2, AcquireEffect
  <2>. QED
    BY <2>1 DEF Turns, Stays, Keeps, Others, Free, Alone, Usable
<1>3. ASSUME NEW c \in Callers, GiveUp(c)
      PROVE  Free'
  BY <1>3, GiveUpEffect
   DEF Turns, Stays, Keeps, Others, Free, Alone, Usable, Spare, Unreferenced,
       Held, Typed
<1>4. ASSUME NEW c \in Callers, EmergencyBegin(c)
      PROVE  Free'
  BY <1>4, EmergencyBeginEffect
   DEF Turns, Stays, Keeps, Others, Free, Alone, Usable, Spare, Unreferenced,
       Held, Typed
<1>5. ASSUME NEW c \in Callers, EmergencySpawn(c)
      PROVE  Free'
  <2>1. PICK p \in Spare :
           /\ caller[c].pc = "recover" /\ Turns(c, "call", p, caller[c].err)
           /\ Keeps(c) /\ idle' = idle
    BY <1>5, EmergencySpawnEffect
  <2>. QED
    BY <2>1 DEF Turns, Stays, Keeps, Others, Free, Known, Spare, Unreferenced
<1>6. ASSUME NEW c \in Callers, EmergencyFails(c)
      PROVE  Free'
  BY <1>6, EmergencyFailsEffect
   DEF Turns, Stays, Keeps, Others, Free, Alone, Usable, Spare, Unreferenced,
       Held, Typed
<1>7. ASSUME NEW c \in Callers, CallRefused(c)
      PROVE  Free'
  BY <1>7, CallRefusedEffect
   DEF Turns, Stays, Keeps, Others, Free, Alone, Usable, Spare, Unreferenced,
       Held, Typed
<1>8. ASSUME NEW c \in Callers, CallPut(c)
      PROVE  Free'
  <2>1. /\ caller[c].pc = "call"
        /\ Turns(c, "wait", caller[c].w, caller[c].err)
        /\ Keeps(c) /\ UNCHANGED <<workers, idle, busy, closed>>
    BY <1>8, CallPutEffect
  <2>. QED
    BY <2>1 DEF Turns, Stays, Keeps, Others, Free
<1>9. ASSUME NEW c \in Callers, Receive(c)
      PROVE  Free'
  <2>1. /\ caller[c].pc = "wait"
        /\ Turns(c, "done", caller[c].w, caller[c].err)
        /\ caller'[c].n = caller[c].n
        /\ UNCHANGED <<workers, idle, busy, closed>>
    BY <1>9, ReceiveEffect
  <2>. QED
    BY <2>1 DEF Turns, Stays, Keeps, Others, Free
<1>10. ASSUME NEW c \in Callers, CallTimeout(c)
      PROVE  Free'
  <2>1. /\ caller[c].pc = "wait"
        /\ Turns(c, "restart", caller[c].w, "timeout") /\ Keeps(c)
        /\ UNCHANGED <<workers, idle, busy, closed>>
    BY <1>10, CallTimeoutEffect
  <2>. QED
    BY <2>1 DEF Turns, Stays, Keeps, Others, Free
<1>11. ASSUME NEW c \in Callers, Check(c)
      PROVE  Free'
  BY <1>11, CheckEffect
   DEF Turns, Stays, Keeps, Others, Free, Alone, Usable, Spare, Unreferenced,
       Held, Typed
<1>12. ASSUME NEW c \in Callers, Restart(c)
      PROVE  Free'
  BY <1>12, RestartEffect
   DEF Turns, Stays, Keeps, Others, Free, Alone, Usable, Spare, Unreferenced,
       Held, Typed
<1>13. ASSUME NEW c \in Callers, Return(c)
      PROVE  Free'
  <2>1. /\ caller[c].pc = "return" /\ Stays(c) /\ caller'[c].w = NoProc
        /\ idle' \subseteq idle \cup {caller[c].w}
    BY <1>13, ReturnEffect DEF Turns
  <2>2. caller[c].w # NoProc /\ caller[c].w \in Procs
    BY <2>1, HeldProc DEF Held
  <2>3. NoProc \notin idle \cup {caller[c].w}
    BY <2>2, PoolAssumption DEF Typed
  <2>4. ASSUME NEW d \in Callers, d # c
        PROVE  caller[d].w \notin idle \cup {caller[c].w}
    BY <2>2, <2>4 DEF Alone, Free
  <2>. QED
    BY <2>1, <2>3, <2>4 DEF Free, Stays
<1>14. ASSUME NEW p \in Procs, ProcStep(p)
      PROVE  Free'
  BY <1>14, ProcEffect
   DEF Others, Free, Alone, Usable, Spare, Unreferenced, Held, Typed
<1>15. CASE Shutdown
  BY <1>15, ShutdownEffect
   DEF Free, Alone, Usable, Spare, Unreferenced, Held, Typed
<1>16. CASE UNCHANGED vars
  BY <1>16 DEF vars, Free, Alone, Usable, Spare, Unreferenced, Held, Typed
<1>. QED
  BY <1>1, <1>2, <1>3, <1>4, <1>5, <1>6, <1>7, <1>8, <1>9, <1>10, <1>11, <1>12,
     <1>13, <1>14, <1>15, <1>16
   DEF Next, CallerStep

\* Recovery begins with the lock free, and whoever has the lock is alone.
LEMMA RecoveringStep ==
  ASSUME Typed, Recovering, Listed, Held, [Next]_vars
  PROVE  Recovering'
<1>1. ASSUME NEW c \in Callers, Begin(c)
      PROVE  Recovering'
  BY <1>1, BeginEffect DEF Turns, Stays, Keeps, Others, Recovering, LockFree
<1>2. ASSUME NEW c \in Callers, Acquire(c)
      PROVE  Recovering'
  BY <1>2, AcquireEffect DEF Turns, Stays, Keeps, Others, Recovering, LockFree
<1>3. ASSUME NEW c \in Callers, GiveUp(c)
      PROVE  Recovering'
  BY <1>3, GiveUpEffect DEF Turns, Stays, Keeps, Others, Recovering, LockFree
<1>4. ASSUME NEW c \in Callers, EmergencyBegin(c)
      PROVE  Recovering'
  BY <1>4, EmergencyBeginEffect
   DEF Turns, Stays, Keeps, Others, Recovering, LockFree
<1>5. ASSUME NEW c \in Callers, EmergencySpawn(c)
      PROVE  Recovering'
  BY <1>5, EmergencySpawnEffect
   DEF Turns, Stays, Keeps, Others, Recovering, LockFree
<1>6. ASSUME NEW c \in Callers, EmergencyFails(c)
      PROVE  Recovering'
  BY <1>6, EmergencyFailsEffect
   DEF Turns, Stays, Keeps, Others, Recovering, LockFree
<1>7. ASSUME NEW c \in Callers, CallRefused(c)
      PROVE  Recovering'
  BY <1>7, CallRefusedEffect
   DEF Turns, Stays, Keeps, Others, Recovering, LockFree
<1>8. ASSUME NEW c \in Callers, CallPut(c)
      PROVE  Recovering'
  <2>1. /\ caller[c].pc = "call"
        /\ Turns(c, "wait", caller[c].w, caller[c].err)
        /\ Keeps(c) /\ UNCHANGED <<workers, idle, busy, closed>>
    BY <1>8, CallPutEffect
  <2>. QED
    BY <2>1 DEF Turns, Stays, Keeps, Others, Recovering
<1>9. ASSUME NEW c \in Callers, Receive(c)
      PROVE  Recovering'
  <2>1. /\ caller[c].pc = "wait"
        /\ Turns(c, "done", caller[c].w, caller[c].err)
        /\ caller'[c].n = caller[c].n
        /\ UNCHANGED <<workers, idle, busy, closed>>
    BY <1>9, ReceiveEffect
  <2>. QED
    BY <2>1 DEF Turns, Stays, Keeps, Others, Recovering
<1>10. ASSUME NEW c \in Callers, CallTimeout(c)
      PROVE  Recovering'
  <2>1. /\ caller[c].pc = "wait"
        /\ Turns(c, "restart", caller[c].w, "timeout") /\ Keeps(c)
        /\ UNCHANGED <<workers, idle, busy, closed>>
    BY <1>10, CallTimeoutEffect
  <2>. QED
    BY <2>1 DEF Turns, Stays, Keeps, Others, Recovering
<1>11. ASSUME NEW c \in Callers, Check(c)
      PROVE  Recovering'
  BY <1>11, CheckEffect DEF Turns, Stays, Keeps, Others, Recovering, LockFree
<1>12. ASSUME NEW c \in Callers, Restart(c)
      PROVE  Recovering'
  BY <1>12, RestartEffect DEF Turns, Stays, Keeps, Others, Recovering, LockFree
<1>13. ASSUME NEW c \in Callers, Return(c)
      PROVE  Recovering'
  BY <1>13, ReturnEffect DEF Turns, Stays, Keeps, Others, Recovering, LockFree
<1>14. ASSUME NEW p \in Procs, ProcStep(p)
      PROVE  Recovering'
  BY <1>14, ProcEffect DEF Others, Recovering, LockFree
<1>15. CASE Shutdown
  BY <1>15, ShutdownEffect DEF Recovering, LockFree
<1>16. CASE UNCHANGED vars
  BY <1>16 DEF vars, Recovering, LockFree
<1>. QED
  BY <1>1, <1>2, <1>3, <1>4, <1>5, <1>6, <1>7, <1>8, <1>9, <1>10, <1>11, <1>12,
     <1>13, <1>14, <1>15, <1>16
   DEF Next, CallerStep

\* A worker leaves the list once its process is dead; what becomes idle lives.
LEMMA KnownStep ==
  ASSUME Typed, Known, Held, [Next]_vars
  PROVE  Known'
<1>1. ASSUME NEW c \in Callers, Begin(c)
      PROVE  Known'
  BY <1>1, BeginEffect
   DEF Turns, Stays, Keeps, Others, Known, Killed, Unused, Fresh, Spare,
       Unreferenced, Usable, Alive
<1>2. ASSUME NEW c \in Callers, Acquire(c)
      PROVE  Known'
  BY <1>2, AcquireEffect
   DEF Turns, Stays, Keeps, Others, Known, Killed, Unused, Fresh, Spare,
       Unreferenced, Usable, Alive
<1>3. ASSUME NEW c \in Callers, GiveUp(c)
      PROVE  Known'
  BY <1>3, GiveUpEffect
   DEF Turns, Stays, Keeps, Others, Known, Killed, Unused, Fresh, Spare,
       Unreferenced, Usable, Alive
<1>4. ASSUME NEW c \in Callers, EmergencyBegin(c)
      PROVE  Known'
  BY <1>4, EmergencyBeginEffect
   DEF Turns, Stays, Keeps, Others, Known, Killed, Unused, Fresh, Spare,
       Unreferenced, Usable, Alive
<1>5. ASSUME NEW c \in Callers, EmergencySpawn(c)
      PROVE  Known'
  BY <1>5, EmergencySpawnEffect
   DEF Turns, Stays, Keeps, Others, Known, Killed, Unused, Fresh, Spare,
       Unreferenced, Usable, Alive
<1>6. ASSUME NEW c \in Callers, EmergencyFails(c)
      PROVE  Known'
  BY <1>6, EmergencyFailsEffect
   DEF Turns, Stays, Keeps, Others, Known, Killed, Unused, Fresh, Spare,
       Unreferenced, Usable, Alive
<1>7. ASSUME NEW c \in Callers, CallRefused(c)
      PROVE  Known'
  BY <1>7, CallRefusedEffect
   DEF Turns, Stays, Keeps, Others, Known, Killed, Unused, Fresh, Spare,
       Unreferenced, Usable, Alive
<1>8. ASSUME NEW c \in Callers, CallPut(c)
      PROVE  Known'
  BY <1>8, CallPutEffect, CallPutFields DEF Others, Known
<1>9. ASSUME NEW c \in Callers, Receive(c)
      PROVE  Known'
  <2>1. UNCHANGED <<workers, idle>> /\ Others(caller[c].w)
    BY <1>9, ReceiveEffect
  <2>2. proc'[caller[c].w].state = proc[caller[c].w].state
    BY <1>9, ReceiveFields
  <2>. QED
    BY <2>1, <2>2 DEF Others, Known
<1>10. ASSUME NEW c \in Callers, CallTimeout(c)
      PROVE  Known'
  BY <1>10, CallTimeoutEffect, CallTimeoutFields DEF Others, Known
<1>11. ASSUME NEW c \in Callers, Check(c)
      PROVE  Known'
  BY <1>11, CheckEffect
   DEF Turns, Stays, Keeps, Others, Known, Killed, Unused, Fresh, Spare,
       Unreferenced, Usable, Alive
<1>12. ASSUME NEW c \in Callers, Restart(c)
      PROVE  Known'
  BY <1>12, RestartEffect
   DEF Turns, Stays, Keeps, Others, Known, Killed, Unused, Fresh, Spare,
       Unreferenced, Usable, Alive
<1>13. ASSUME NEW c \in Callers, Return(c)
      PROVE  Known'
  <2>1. /\ caller[c].pc = "return" /\ UNCHANGED <<proc, workers>>
        /\ idle' = IF Alive(caller[c].w) THEN idle \cup {caller[c].w} ELSE idle
    BY <1>13, ReturnEffect
  <2>2. caller[c].w \in Procs
    BY <2>1, HeldProc
  <2>. QED
    BY <2>1, <2>2 DEF Known, Alive
<1>14. ASSUME NEW p \in Procs, ProcStep(p)
      PROVE  Known'
  BY <1>14, ProcEffect
   DEF Others, Known, Killed, Unused, Fresh, Spare, Unreferenced, Usable, Alive
<1>15. CASE Shutdown
  BY <1>15, ShutdownEffect, ShutdownFields DEF Known
<1>16. CASE UNCHANGED vars
  BY <1>16
   DEF vars, Known, Killed, Unused, Fresh, Spare, Unreferenced, Usable, Alive
<1>. QED
  BY <1>1, <1>2, <1>3, <1>4, <1>5, <1>6, <1>7, <1>8, <1>9, <1>10, <1>11, <1>12,
     <1>13, <1>14, <1>15, <1>16
   DEF Next, CallerStep

\* Only its own caller strikes a worker off, and that caller then returns it.
LEMMA ListedStep ==
  ASSUME Typed, Listed, Alone, Held, Known, [Next]_vars
  PROVE  Listed'
<1>1. ASSUME NEW c \in Callers, Begin(c)
      PROVE  Listed'
  BY <1>1, BeginEffect
   DEF Turns, Stays, Keeps, Others, Listed, Usable, Alive, Known
<1>2. ASSUME NEW c \in Callers, Acquire(c)
      PROVE  Listed'
  BY <1>2, AcquireEffect
   DEF Turns, Stays, Keeps, Others, Listed, Usable, Alive, Known
<1>3. ASSUME NEW c \in Callers, GiveUp(c)
      PROVE  Listed'
  BY <1>3, GiveUpEffect
   DEF Turns, Stays, Keeps, Others, Listed, Usable, Alive, Known
<1>4. ASSUME NEW c \in Callers, EmergencyBegin(c)
      PROVE  Listed'
  BY <1>4, EmergencyBeginEffect
   DEF Turns, Stays, Keeps, Others, Listed, Usable, Alive, Known
<1>5. ASSUME NEW c \in Callers, EmergencySpawn(c)
      PROVE  Listed'
  BY <1>5, EmergencySpawnEffect
   DEF Turns, Stays, Keeps, Others, Listed, Usable, Alive, Known
<1>6. ASSUME NEW c \in Callers, EmergencyFails(c)
      PROVE  Listed'
  BY <1>6, EmergencyFailsEffect
   DEF Turns, Stays, Keeps, Others, Listed, Usable, Alive, Known
<1>7. ASSUME NEW c \in Callers, CallRefused(c)
      PROVE  Listed'
  BY <1>7, CallRefusedEffect
   DEF Turns, Stays, Keeps, Others, Listed, Usable, Alive, Known
<1>8. ASSUME NEW c \in Callers, CallPut(c)
      PROVE  Listed'
  <2>1. /\ caller[c].pc = "call"
        /\ Turns(c, "wait", caller[c].w, caller[c].err)
        /\ Keeps(c) /\ UNCHANGED <<workers, idle, busy, closed>>
    BY <1>8, CallPutEffect
  <2>. QED
    BY <2>1 DEF Turns, Stays, Keeps, Others, Listed
<1>9. ASSUME NEW c \in Callers, Receive(c)
      PROVE  Listed'
  <2>1. /\ caller[c].pc = "wait"
        /\ Turns(c, "done", caller[c].w, caller[c].err)
        /\ caller'[c].n = caller[c].n
        /\ UNCHANGED <<workers, idle, busy, closed>>
    BY <1>9, ReceiveEffect
  <2>. QED
    BY <2>1 DEF Turns, Stays, Keeps, Others, Listed
<1>10. ASSUME NEW c \in Callers, CallTimeout(c)
      PROVE  Listed'
  <2>1. /\ caller[c].pc = "wait"
        /\ Turns(c, "restart", caller[c].w, "timeout") /\ Keeps(c)
        /\ UNCHANGED <<workers, idle, busy, closed>>
    BY <1>10, CallTimeoutEffect
  <2>. QED
    BY <2>1 DEF Turns, Stays, Keeps, Others, Listed
<1>11. ASSUME NEW c \in Callers, Check(c)
      PROVE  Listed'
  BY <1>11, CheckEffect
   DEF Turns, Stays, Keeps, Others, Listed, Usable, Alive, Known
<1>12. ASSUME NEW c \in Callers, Restart(c)
      PROVE  Listed'
  <2>1. /\ caller[c].pc = "restart"
        /\ Turns(c, "return", caller[c].w, caller[c].err)
        /\ workers \ {caller[c].w} \subseteq workers'
        /\ busy' = busy \ {caller[c].w} /\ UNCHANGED closed
    BY <1>12, RestartEffect
  <2>2. caller[c].w # NoProc
    BY <2>1 DEF Held
  <2>3. \A d \in Callers : d # c => caller[d].w # caller[c].w
    BY <2>2 DEF Alone
  <2>. QED
    BY <2>1, <2>3 DEF Turns, Stays, Listed
<1>13. ASSUME NEW c \in Callers, Return(c)
      PROVE  Listed'
  BY <1>13, ReturnEffect
   DEF Turns, Stays, Keeps, Others, Listed, Usable, Alive, Known
<1>14. ASSUME NEW p \in Procs, ProcStep(p)
      PROVE  Listed'
  BY <1>14, ProcEffect DEF Others, Listed, Usable, Alive, Known
<1>15. CASE Shutdown
  BY <1>15, ShutdownEffect DEF Listed, Usable, Alive, Known
<1>16. CASE UNCHANGED vars
  BY <1>16 DEF vars, Listed, Usable, Alive, Known
<1>. QED
  BY <1>1, <1>2, <1>3, <1>4, <1>5, <1>6, <1>7, <1>8, <1>9, <1>10, <1>11, <1>12,
     <1>13, <1>14, <1>15, <1>16
   DEF Next, CallerStep

\* Only its own caller takes a worker out of the busy list.
LEMMA TakenStep ==
  ASSUME Typed, Taken, Alone, Held, [Next]_vars
  PROVE  Taken'
<1>1. ASSUME NEW c \in Callers, Begin(c)
      PROVE  Taken'
  BY <1>1, BeginEffect DEF Turns, Stays, Keeps, Others, Taken
<1>2. ASSUME NEW c \in Callers, Acquire(c)
      PROVE  Taken'
  BY <1>2, AcquireEffect DEF Turns, Stays, Keeps, Others, Taken
<1>3. ASSUME NEW c \in Callers, GiveUp(c)
      PROVE  Taken'
  BY <1>3, GiveUpEffect DEF Turns, Stays, Keeps, Others, Taken
<1>4. ASSUME NEW c \in Callers, EmergencyBegin(c)
      PROVE  Taken'
  BY <1>4, EmergencyBeginEffect DEF Turns, Stays, Keeps, Others, Taken
<1>5. ASSUME NEW c \in Callers, EmergencySpawn(c)
      PROVE  Taken'
  BY <1>5, EmergencySpawnEffect DEF Turns, Stays, Keeps, Others, Taken
<1>6. ASSUME NEW c \in Callers, EmergencyFails(c)
      PROVE  Taken'
  BY <1>6, EmergencyFailsEffect DEF Turns, Stays, Keeps, Others, Taken
<1>7. ASSUME NEW c \in Callers, CallRefused(c)
      PROVE  Taken'
  BY <1>7, CallRefusedEffect DEF Turns, Stays, Keeps, Others, Taken
<1>8. ASSUME NEW c \in Callers, CallPut(c)
      PROVE  Taken'
  <2>1. /\ caller[c].pc = "call"
        /\ Turns(c, "wait", caller[c].w, caller[c].err)
        /\ Keeps(c) /\ UNCHANGED <<workers, idle, busy, closed>>
    BY <1>8, CallPutEffect
  <2>. QED
    BY <2>1 DEF Turns, Stays, Keeps, Others, Taken
<1>9. ASSUME NEW c \in Callers, Receive(c)
      PROVE  Taken'
  <2>1. /\ caller[c].pc = "wait"
        /\ Turns(c, "done", caller[c].w, caller[c].err)
        /\ caller'[c].n = caller[c].n
        /\ UNCHANGED <<workers, idle, busy, closed>>
    BY <1>9, ReceiveEffect
  <2>. QED
    BY <2>1 DEF Turns, Stays, Keeps, Others, Taken
<1>10. ASSUME NEW c \in Callers, CallTimeout(c)
      PROVE  Taken'
  <2>1. /\ caller[c].pc = "wait"
        /\ Turns(c, "restart", caller[c].w, "timeout") /\ Keeps(c)
        /\ UNCHANGED <<workers, idle, busy, closed>>
    BY <1>10, CallTimeoutEffect
  <2>. QED
    BY <2>1 DEF Turns, Stays, Keeps, Others, Taken
<1>11. ASSUME NEW c \in Callers, Check(c)
      PROVE  Taken'
  BY <1>11, CheckEffect DEF Turns, Stays, Keeps, Others, Taken
<1>12. ASSUME NEW c \in Callers, Restart(c)
      PROVE  Taken'
  <2>1. /\ caller[c].pc = "restart"
        /\ Turns(c, "return", caller[c].w, caller[c].err)
        /\ workers \ {caller[c].w} \subseteq workers'
        /\ busy' = busy \ {caller[c].w} /\ UNCHANGED closed
    BY <1>12, RestartEffect
  <2>2. caller[c].w # NoProc
    BY <2>1 DEF Held
  <2>3. \A d \in Callers : d # c => caller[d].w # caller[c].w
    BY <2>2 DEF Alone
  <2>. QED
    BY <2>1, <2>3 DEF Turns, Stays, Taken
<1>13. ASSUME NEW c \in Callers, Return(c)
      PROVE  Taken'
  <2>1. /\ caller[c].pc = "return" /\ UNCHANGED closed
        /\ \E pc \in {"get", "off"}, e \in {"none", "timeout", "failed"} :
             Turns(c, pc, NoProc, e)
        /\ busy' = busy \ {caller[c].w}
    BY <1>13, ReturnEffect
  <2>2. caller[c].w # NoProc
    BY <2>1 DEF Held
  <2>3. \A d \in Callers : d # c => caller[d].w # caller[c].w
    BY <2>2 DEF Alone
  <2>. QED
    BY <2>1, <2>3 DEF Turns, Stays, Taken
<1>14. ASSUME NEW p \in Procs, ProcStep(p)
      PROVE  Taken'
  BY <1>14, ProcEffect DEF Others, Taken
<1>15. CASE Shutdown
  BY <1>15, ShutdownEffect DEF Taken
<1>16. CASE UNCHANGED vars
  BY <1>16 DEF vars, Taken
<1>. QED
  BY <1>1, <1>2, <1>3, <1>4, <1>5, <1>6, <1>7, <1>8, <1>9, <1>10, <1>11, <1>12,
     <1>13, <1>14, <1>15, <1>16
   DEF Next, CallerStep

\* A restart takes one worker out for the one it adds; recovery starts from
\* none.
LEMMA SizedStep ==
  ASSUME Typed, Sized, Listed, Recovering, Held, [Next]_vars
  PROVE  Sized'
<1>1. ASSUME NEW c \in Callers, Begin(c)
      PROVE  Sized'
  BY <1>1, BeginEffect DEF Turns, Stays, Keeps, Others, Sized, Known
<1>2. ASSUME NEW c \in Callers, Acquire(c)
      PROVE  Sized'
  BY <1>2, AcquireEffect DEF Turns, Stays, Keeps, Others, Sized, Known
<1>3. ASSUME NEW c \in Callers, GiveUp(c)
      PROVE  Sized'
  BY <1>3, GiveUpEffect DEF Turns, Stays, Keeps, Others, Sized, Known
<1>4. ASSUME NEW c \in Callers, EmergencyBegin(c)
      PROVE  Sized'
  BY <1>4, EmergencyBeginEffect DEF Turns, Stays, Keeps, Others, Sized, Known
<1>5. ASSUME NEW c \in Callers, EmergencySpawn(c)
      PROVE  Sized'
  <2>1. /\ caller[c].pc = "recover" /\ UNCHANGED closed
        /\ \E p \in Spare : workers' = workers \cup {p}
    BY <1>5, EmergencySpawnEffect
  <2>2. PICK p : workers' = {p}
    BY <2>1 DEF Recovering
  <2>3. Cardinality({p}) = 1
    BY FS_Singleton
  <2>. QED
    BY <2>2, <2>3, PoolAssumption DEF Sized
<1>6. ASSUME NEW c \in Callers, EmergencyFails(c)
      PROVE  Sized'
  BY <1>6, EmergencyFailsEffect DEF Turns, Stays, Keeps, Others, Sized, Known
<1>7. ASSUME NEW c \in Callers, CallRefused(c)
      PROVE  Sized'
  BY <1>7, CallRefusedEffect DEF Turns, Stays, Keeps, Others, Sized, Known
<1>8. ASSUME NEW c \in Callers, CallPut(c)
      PROVE  Sized'
  BY <1>8, CallPutEffect DEF Sized
<1>9. ASSUME NEW c \in Callers, Receive(c)
      PROVE  Sized'
  BY <1>9, ReceiveEffect DEF Sized
<1>10. ASSUME NEW c \in Callers, CallTimeout(c)
      PROVE  Sized'
  BY <1>10, CallTimeoutEffect DEF Sized
<1>11. ASSUME NEW c \in Callers, Check(c)
      PROVE  Sized'
  BY <1>11, CheckEffect DEF Turns, Stays, Keeps, Others, Sized, Known
<1>12. ASSUME NEW c \in Callers, Restart(c)
      PROVE  Sized'
  <2> DEFINE old == caller[c].w
  <2>1. /\ caller[c].pc = "restart" /\ UNCHANGED closed
        /\ \/ \E p \in Spare : workers' = (workers \ {old}) \cup {p}
           \/ workers' = workers \ {old}
    BY <1>12, RestartEffect
  <2>2. SUFFICES ASSUME ~ closed
                 PROVE  Cardinality(workers') <= PoolSize
    BY <2>1 DEF Sized
  <2>3. old \in workers
    BY <2>1, <2>2 DEF Held, Listed
  <2>4. /\ IsFiniteSet(workers) /\ Cardinality(workers) \in Nat
        /\ Cardinality(workers) <= PoolSize
    BY <2>2, FS_Subset, FS_CardinalityType, PoolAssumption DEF Sized, Typed
  <2> HIDE DEF old
  <2>5. /\ IsFiniteSet(workers \ {old})
        /\ Cardinality(workers \ {old}) = Cardinality(workers) - 1
    BY <2>3, <2>4, FS_RemoveElement
  <2>6. CASE workers' = workers \ {old}
    BY <2>4, <2>5, <2>6, PoolAssumption
  <2>7. CASE \E p \in Spare : workers' = (workers \ {old}) \cup {p}
    <3>1. PICK p \in Spare : workers' = (workers \ {old}) \cup {p}
      BY <2>7
    <3>2. Cardinality((workers \ {old}) \cup {p})
            = Cardinality(workers \ {old}) + 1
      <4>1. p \notin workers \ {old}
        BY DEF Spare, Unreferenced
      <4>. QED
        BY <4>1, <2>5, FS_AddElement
    <3>. QED
      BY <2>4, <2>5, <3>1, <3>2, PoolAssumption
  <2>. QED
    BY <2>1, <2>6, <2>7
<1>13. ASSUME NEW c \in Callers, Return(c)
      PROVE  Sized'
  BY <1>13, ReturnEffect DEF Turns, Stays, Keeps, Others, Sized, Known
<1>14. ASSUME NEW p \in Procs, ProcStep(p)
      PROVE  Sized'
  BY <1>14, ProcEffect DEF Others, Sized, Known
<1>15. CASE Shutdown
  BY <1>15, ShutdownEffect DEF Sized, Known
<1>16. CASE UNCHANGED vars
  BY <1>16 DEF vars, Sized, Known
<1>. QED
  BY <1>1, <1>2, <1>3, <1>4, <1>5, <1>6, <1>7, <1>8, <1>9, <1>10, <1>11, <1>12,
     <1>13, <1>14, <1>15, <1>16
   DEF Next, CallerStep

\* A result that brings a worker to its cap takes its flag down.
LEMMA CountedStep ==
  ASSUME Typed, Counted, Alone, Held, [Next]_vars
  PROVE  Counted'
<1>a. \A d \in Callers : caller[d].pc \in {"call", "wait"} =>
                           caller[d].w \in Procs
  BY HeldProc
<1>1. ASSUME NEW c \in Callers, Begin(c)
      PROVE  Counted'
  BY <1>1, BeginEffect DEF Turns, Stays, Keeps, Others, Counted
<1>2. ASSUME NEW c \in Callers, Acquire(c)
      PROVE  Counted'
  <2>1. PICK p \in Usable :
           Turns(c, "call", p, caller[c].err) /\ UNCHANGED proc
    BY <1>2, AcquireEffect
  <2>. QED
    BY <2>1, <1>a
     DEF Turns, Stays, Keeps, Others, Usable, Alive, Counted, Typed
<1>3. ASSUME NEW c \in Callers, GiveUp(c)
      PROVE  Counted'
  BY <1>3, GiveUpEffect DEF Turns, Stays, Keeps, Others, Counted
<1>4. ASSUME NEW c \in Callers, EmergencyBegin(c)
      PROVE  Counted'
  BY <1>4, EmergencyBeginEffect DEF Turns, Stays, Keeps, Others, Counted
<1>5. ASSUME NEW c \in Callers, EmergencySpawn(c)
      PROVE  Counted'
  <2>1. PICK p \in Spare : /\ proc'[p] = Fresh(proc[p]) /\ Others(p)
                           /\ Turns(c, "call", p, caller[c].err)
    BY <1>5, EmergencySpawnEffect
  <2>2. proc'[p].count = 0
    BY <2>1 DEF Fresh
  <2>3. \A q \in Procs : proc'[q].flag => proc'[q].count < MaxTasks
    BY <2>1, <2>2, PoolAssumption DEF Others, Counted
  <2>4. ASSUME NEW d \in Callers, caller'[d].pc \in {"call", "wait"}
        PROVE  proc'[caller'[d].w].count < MaxTasks
    <3>1. CASE d = c
      BY <2>1, <2>2, <3>1, PoolAssumption DEF Turns
    <3>2. CASE d # c
      <4>1. /\ caller'[d] = caller[d] /\ caller[d].w \in Procs
            /\ caller[d].w # p
        BY <1>a, <2>1, <2>4, <3>2 DEF Turns, Stays, Spare, Unreferenced
      <4>. QED
        BY <2>1, <2>4, <4>1 DEF Others, Counted
    <3>. QED
      BY <3>1, <3>2
  <2>. QED
    BY <2>3, <2>4 DEF Counted
<1>6. ASSUME NEW c \in Callers, EmergencyFails(c)
      PROVE  Counted'
  BY <1>6, EmergencyFailsEffect DEF Turns, Stays, Keeps, Others, Counted
<1>7. ASSUME NEW c \in Callers, CallRefused(c)
      PROVE  Counted'
  BY <1>7, CallRefusedEffect DEF Turns, Stays, Keeps, Others, Counted
<1>8. ASSUME NEW c \in Callers, CallPut(c)
      PROVE  Counted'
  <2>1. /\ Turns(c, "wait", caller[c].w, caller[c].err) /\ Others(caller[c].w)
        /\ caller[c].pc = "call"
    BY <1>8, CallPutEffect
  <2>2. /\ caller[c].w \in Procs
        /\ proc'[caller[c].w].flag = proc[caller[c].w].flag
        /\ proc'[caller[c].w].count = proc[caller[c].w].count
    BY <1>8, CallPutFields
  <2>3. \A d \in Callers : d # c => caller[d].w # caller[c].w
    BY <2>1 DEF Alone, Held
  <2>. QED
    BY <1>a, <2>1, <2>2, <2>3 DEF Turns, Stays, Others, Counted
<1>9. ASSUME NEW c \in Callers, Receive(c)
      PROVE  Counted'
  <2>1. /\ Turns(c, "done", caller[c].w, caller[c].err) /\ Others(caller[c].w)
        /\ caller[c].pc = "wait"
    BY <1>9, ReceiveEffect
  <2>2. /\ caller[c].w \in Procs
        /\ proc'[caller[c].w].count = proc[caller[c].w].count + 1
        /\ proc'[caller[c].w].flag => proc[caller[c].w].count + 1 < MaxTasks
    BY <1>9, ReceiveFields
  <2>3. \A d \in Callers : d # c => caller[d].w # caller[c].w
    BY <2>1 DEF Alone, Held
  <2>. QED
    BY <1>a, <2>1, <2>2, <2>3 DEF Turns, Stays, Others, Counted
<1>10. ASSUME NEW c \in Callers, CallTimeout(c)
      PROVE  Counted'
  <2>1. /\ Turns(c, "restart", caller[c].w, "timeout") /\ Others(caller[c].w)
        /\ caller[c].pc = "wait"
    BY <1>10, CallTimeoutEffect
  <2>2. /\ caller[c].w \in Procs
        /\ proc'[caller[c].w].flag = FALSE
        /\ proc'[caller[c].w].count = proc[caller[c].w].count
    BY <1>10, CallTimeoutFields
  <2>3. \A d \in Callers : d # c => caller[d].w # caller[c].w
    BY <2>1 DEF Alone, Held
  <2>. QED
    BY <1>a, <2>1, <2>2, <2>3 DEF Turns, Stays, Others, Counted
<1>11. ASSUME NEW c \in Callers, Check(c)
      PROVE  Counted'
  BY <1>11, CheckEffect DEF Turns, Stays, Keeps, Others, Counted
<1>12. ASSUME NEW c \in Callers, Restart(c)
      PROVE  Counted'
  <2>1. /\ caller[c].pc = "restart" /\ caller[c].w \in Procs
        /\ Turns(c, "return", caller[c].w, caller[c].err)
        /\ proc'[caller[c].w] = Unused
        /\ \/ Others(caller[c].w)
           \/ \E p \in Spare :
                /\ proc'[p] = Fresh(proc[caller[c].w])
                /\ \A q \in Procs : q \notin {caller[c].w, p} =>
                                      proc'[q] = proc[q]
    BY <1>12, RestartEffect DEF Others
  <2>2. ASSUME NEW x
        PROVE  ~ Unused.flag /\ Fresh(x).count = 0
    BY DEF Unused, Fresh
  <2>3. \A d \in Callers : d # c => caller[d].w # caller[c].w
    BY <2>1 DEF Alone, Held
  <2>4. ASSUME NEW d \in Callers, d # c, caller[d].pc \in {"call", "wait"}
        PROVE  /\ caller[d].w \in Procs /\ caller[d].w # caller[c].w
               /\ proc'[caller[d].w] = proc[caller[d].w]
    <3>1. caller[d].w \in Procs
      BY <2>4, HeldProc
    <3>. QED
      BY <2>1, <2>3, <2>4, <3>1 DEF Others, Spare, Unreferenced
  <2>5. \A q \in Procs : /\ proc'[q].flag => proc'[q].count < MaxTasks
    BY <2>1, <2>2, PoolAssumption DEF Others, Counted
  <2>. QED
    BY <2>1, <2>4, <2>5 DEF Turns, Stays, Counted
<1>13. ASSUME NEW c \in Callers, Return(c)
      PROVE  Counted'
  BY <1>13, ReturnEffect DEF Turns, Stays, Keeps, Others, Counted
<1>14. ASSUME NEW p \in Procs, ProcStep(p)
      PROVE  Counted'
  <2>1. /\ proc'[p].flag = proc[p].flag /\ proc'[p].count = proc[p].count
        /\ Others(p) /\ UNCHANGED caller
    BY <1>14, ProcEffect
  <2>. QED
    BY <1>a, <2>1 DEF Others, Counted
<1>15. CASE Shutdown
  <2>1. \A p \in Procs : \/ proc'[p] = proc[p]
                         \/ ~ proc'[p].flag /\ proc'[p].count = proc[p].count
    BY <1>15, ShutdownFields
  <2>3. UNCHANGED caller
    BY <1>15, ShutdownEffect
  <2>. QED
    BY <1>a, <2>1, <2>3 DEF Counted
<1>16. CASE UNCHANGED vars
  BY <1>16 DEF vars, Counted
<1>. QED
  BY <1>1, <1>2, <1>3, <1>4, <1>5, <1>6, <1>7, <1>8, <1>9, <1>10, <1>11, <1>12,
     <1>13, <1>14, <1>15, <1>16
   DEF Next, CallerStep

\* A call is sent to a quiet process; its result is read, or the process
\* replaced, before the caller refers to another.
LEMMA CarriedStep ==
  ASSUME Typed, Carried, Alone, Held, [Next]_vars
  PROVE  Carried'
<1>a. \A d \in Callers : caller[d].pc \in {"call", "wait", "restart"} =>
                           caller[d].w \in Procs
  BY HeldProc
<1>1. ASSUME NEW c \in Callers, Begin(c)
      PROVE  Carried'
  <2>1. /\ caller[c].pc \notin {"wait", "restart"}
        /\ Stays(c) /\ UNCHANGED proc
    BY <1>1, BeginEffect DEF Turns
  <2>. QED
    BY <2>1, Idlers DEF Stays
<1>2. ASSUME NEW c \in Callers, Acquire(c)
      PROVE  Carried'
  <2>1. /\ caller[c].pc \notin {"wait", "restart"}
        /\ Stays(c) /\ UNCHANGED proc
    BY <1>2, AcquireEffect DEF Turns
  <2>. QED
    BY <2>1, Idlers DEF Stays
<1>3. ASSUME NEW c \in Callers, GiveUp(c)
      PROVE  Carried'
  <2>1. /\ caller[c].pc \notin {"wait", "restart"}
        /\ Stays(c) /\ UNCHANGED proc
    BY <1>3, GiveUpEffect DEF Turns
  <2>. QED
    BY <2>1, Idlers DEF Stays
<1>4. ASSUME NEW c \in Callers, EmergencyBegin(c)
      PROVE  Carried'
  <2>1. /\ caller[c].pc \notin {"wait", "restart"}
        /\ Stays(c) /\ UNCHANGED proc
    BY <1>4, EmergencyBeginEffect DEF Turns
  <2>. QED
    BY <2>1, Idlers DEF Stays
<1>5. ASSUME NEW c \in Callers, EmergencySpawn(c)
      PROVE  Carried'
  <2>1. PICK p \in Spare :
          /\ caller[c].pc = "recover" /\ Stays(c) /\ Others(p)
          /\ proc'[p] = Fresh(proc[p])
    BY <1>5, EmergencySpawnEffect DEF Turns
  <2>2. p \in Procs /\ \A d \in Callers : caller[d].w # p
    BY <2>1 DEF Spare, Unreferenced
  <2>3. Quiet(proc'[p])
    BY <2>1 DEF Quiet, Fresh
  <2>4. ASSUME NEW q \in Procs, q # p
        PROVE  \/ Quiet(proc'[q])
               \/ \E d \in Callers : /\ caller'[d].w = q
                                     /\ caller'[d].pc \in {"wait", "restart"}
                                     /\ Carries(proc'[q], Mine(d)')
    BY <2>1, <2>4 DEF Carried, Others, Stays, Mine
  <2>. QED
    BY <2>3, <2>4 DEF Carried
<1>6. ASSUME NEW c \in Callers, EmergencyFails(c)
      PROVE  Carried'
  <2>1. /\ caller[c].pc \notin {"wait", "restart"}
        /\ Stays(c) /\ UNCHANGED proc
    BY <1>6, EmergencyFailsEffect DEF Turns
  <2>. QED
    BY <2>1, Idlers DEF Stays
<1>7. ASSUME NEW c \in Callers, CallRefused(c)
      PROVE  Carried'
  <2>1. /\ caller[c].pc \notin {"wait", "restart"}
        /\ Stays(c) /\ UNCHANGED proc
    BY <1>7, CallRefusedEffect DEF Turns
  <2>. QED
    BY <2>1, Idlers DEF Stays
<1>8. ASSUME NEW c \in Callers, CallPut(c)
      PROVE  Carried'
  <2> DEFINE p == caller[c].w
  <2>1. /\ Turns(c, "wait", p, caller[c].err) /\ Others(p)
        /\ caller[c].pc = "call"
        /\ caller'[c].n = caller[c].n
    BY <1>8, CallPutEffect DEF Keeps
  <2>2. /\ p \in Procs
        /\ proc'[p].job = proc[p].job
        /\ proc'[p].inbox = Append(proc[p].inbox, Mine(c))
        /\ proc'[p].outbox = proc[p].outbox
    BY <1>8, CallPutFields
  <2>3. \A d \in Callers : caller[d].w # p => caller'[d] = caller[d]
    BY <2>1 DEF Turns, Stays
  <2>4. Mine(c)' = Mine(c)
    BY <2>1 DEF Mine
  <2>5. \/ Quiet(proc[p])
        \/ caller[c].pc \in {"wait", "restart"} /\ Carries(proc[p], Mine(c))
    BY <2>2, CarriesMine
  <2>6. Carries(proc'[p], Mine(c))
    <3>1. Append(<<>>, Mine(c)) = <<Mine(c)>>
      OBVIOUS
    <3>. QED
      BY <2>1, <2>2, <2>5, <3>1 DEF Quiet, Carries
  <2>. QED
    BY <2>1, <2>2, <2>3, <2>4, <2>6, CarriedBut DEF Turns
<1>9. ASSUME NEW c \in Callers, Receive(c)
      PROVE  Carried'
  <2> DEFINE p == caller[c].w
  <2>1. /\ Turns(c, "done", p, caller[c].err) /\ Others(p)
        /\ caller[c].pc = "wait"
        /\ caller'[c].n = caller[c].n
    BY <1>9, ReceiveEffect DEF Keeps
  <2>2. /\ p \in Procs
        /\ proc'[p].job = proc[p].job
        /\ proc'[p].inbox = proc[p].inbox
        /\ proc'[p].outbox = Tail(proc[p].outbox)
        /\ proc[p].outbox # <<>>
    BY <1>9, ReceiveFields, ReceiveEffect
  <2>3. \A d \in Callers : caller[d].w # p => caller'[d] = caller[d]
    BY <2>1 DEF Turns, Stays
  <2>4. Mine(c)' = Mine(c)
    BY <2>1 DEF Mine
  <2>5. \/ Quiet(proc[p])
        \/ caller[c].pc \in {"wait", "restart"} /\ Carries(proc[p], Mine(c))
    BY <2>2, CarriesMine
  <2>6. Quiet(proc'[p])
    <3>1. \A r : Tail(<<r>>) = <<>>
      OBVIOUS
    <3>. QED
      BY <2>2, <2>5, <3>1 DEF Quiet, Carries
  <2>. QED
    BY <2>1, <2>2, <2>3, <2>4, <2>6, CarriedBut DEF Turns
<1>10. ASSUME NEW c \in Callers, CallTimeout(c)
      PROVE  Carried'
  <2> DEFINE p == caller[c].w
  <2>1. /\ Turns(c, "restart", p, "timeout") /\ Others(p)
        /\ caller[c].pc = "wait"
        /\ caller'[c].n = caller[c].n
    BY <1>10, CallTimeoutEffect DEF Keeps
  <2>2. /\ p \in Procs
        /\ proc'[p].job = proc[p].job
        /\ proc'[p].inbox = proc[p].inbox
        /\ proc'[p].outbox = proc[p].outbox
    BY <1>10, CallTimeoutFields
  <2>3. \A d \in Callers : caller[d].w # p => caller'[d] = caller[d]
    BY <2>1 DEF Turns, Stays
  <2>4. Mine(c)' = Mine(c)
    BY <2>1 DEF Mine
  <2>5. \/ Quiet(proc[p])
        \/ caller[c].pc \in {"wait", "restart"} /\ Carries(proc[p], Mine(c))
    BY <2>2, CarriesMine
  <2>6. Quiet(proc'[p]) \/ Carries(proc'[p], Mine(c))
    BY <2>2, <2>5, SameLoad
  <2>. QED
    BY <2>1, <2>2, <2>3, <2>4, <2>6, CarriedBut DEF Turns
<1>11. ASSUME NEW c \in Callers, Check(c)
      PROVE  Carried'
  <2>1. /\ caller[c].pc \notin {"wait", "restart"}
        /\ Stays(c) /\ UNCHANGED proc
    BY <1>11, CheckEffect DEF Turns
  <2>. QED
    BY <2>1, Idlers DEF Stays
<1>12. ASSUME NEW c \in Callers, Restart(c)
      PROVE  Carried'
  <2> DEFINE old == caller[c].w
  <2>1. /\ caller[c].pc = "restart" /\ old \in Procs /\ Stays(c)
        /\ proc'[old] = Unused
        /\ \/ Others(old)
           \/ \E p \in Spare :
                /\ proc'[p] = Fresh(proc[old])
                /\ \A q \in Procs : q \notin {old, p} => proc'[q] = proc[q]
    BY <1>12, RestartEffect DEF Turns
  <2>2. ASSUME NEW x
        PROVE  Quiet(Unused) /\ Quiet(Fresh(x))
    BY DEF Unused, Fresh, Quiet
  <2>3. ASSUME NEW q \in Procs
        PROVE  \/ Quiet(proc'[q])
               \/ q # old /\ proc'[q] = proc[q]
    BY <2>1, <2>2 DEF Others
  <2>4. ASSUME NEW q \in Procs
        PROVE  \/ Quiet(proc'[q])
               \/ \E d \in Callers : /\ caller'[d].w = q
                                     /\ caller'[d].pc \in {"wait", "restart"}
                                     /\ Carries(proc'[q], Mine(d)')
    <3>1. CASE ~ Quiet(proc[q]) /\ q # old /\ proc'[q] = proc[q]
      <4>1. PICK d \in Callers : /\ caller[d].w = q
                                 /\ caller[d].pc \in {"wait", "restart"}
                                 /\ Carries(proc[q], Mine(d))
        BY <3>1 DEF Carried
      <4>2. caller'[d] = caller[d] /\ Mine(d)' = Mine(d)
        BY <2>1, <3>1, <4>1 DEF Stays, Mine
      <4>. QED
        BY <3>1, <4>1, <4>2
    <3>. QED
      BY <2>3, <3>1
  <2>. QED
    BY <2>4 DEF Carried
<1>13. ASSUME NEW c \in Callers, Return(c)
      PROVE  Carried'
  <2>1. /\ caller[c].pc \notin {"wait", "restart"}
        /\ Stays(c) /\ UNCHANGED proc
    BY <1>13, ReturnEffect DEF Turns
  <2>. QED
    BY <2>1, Idlers DEF Stays
<1>14. ASSUME NEW p \in Procs, TakeTask(p)
      PROVE  Carried'
  <2>1. Others(p) /\ UNCHANGED caller
    BY <1>14, TakeTaskEffect
  <2>2. /\ proc[p].job = NoCall /\ proc[p].inbox # <<>>
        /\ proc'[p].job = Head(proc[p].inbox)
        /\ proc'[p].inbox = Tail(proc[p].inbox)
        /\ proc'[p].outbox = proc[p].outbox
    BY <1>14, TakeTaskFields, TakeTaskEffect
  <2>3. \/ Quiet(proc'[p])
        \/ \E d \in Callers : /\ caller'[d].w = p
                              /\ caller'[d].pc \in {"wait", "restart"}
                              /\ Carries(proc'[p], Mine(d)')
    <3>0. \A j : Head(<<j>>) = j /\ Tail(<<j>>) = <<>>
      OBVIOUS
    <3>1. PICK d \in Callers : /\ caller[d].w = p
                               /\ caller[d].pc \in {"wait", "restart"}
                               /\ Carries(proc[p], Mine(d))
      BY <2>2 DEF Carried, Quiet
    <3>2. Carries(proc'[p], Mine(d))
      BY <2>2, <3>0, <3>1 DEF Carries
    <3>. QED
      BY <2>1, <3>1, <3>2 DEF Mine
  <2>. QED
    BY <2>1, <2>3, CarriedBut DEF Carried
<1>15. ASSUME NEW p \in Procs, Finish(p)
      PROVE  Carried'
  <2>1. Others(p) /\ UNCHANGED caller
    BY <1>15, FinishEffect
  <2>2. /\ proc[p].job # NoCall
        /\ proc'[p].job = NoCall /\ proc'[p].inbox = proc[p].inbox
        /\ proc'[p].outbox = Append(proc[p].outbox,
                               [of |-> proc[p].job, exiting |-> FALSE])
    BY <1>15, FinishFields, FinishEffect
  <2>3. \/ Quiet(proc'[p])
        \/ \E d \in Callers : /\ caller'[d].w = p
                              /\ caller'[d].pc \in {"wait", "restart"}
                              /\ Carries(proc'[p], Mine(d)')
    <3>0. \A r : Append(<<>>, r) = <<r>>
      OBVIOUS
    <3>1. PICK d \in Callers : /\ caller[d].w = p
                               /\ caller[d].pc \in {"wait", "restart"}
                               /\ Carries(proc[p], Mine(d))
      BY <2>2 DEF Carried, Quiet
    <3>2. Carries(proc'[p], Mine(d))
      BY <2>2, <3>0, <3>1 DEF Carries
    <3>. QED
      BY <2>1, <3>1, <3>2 DEF Mine
  <2>. QED
    BY <2>1, <2>3, CarriedBut DEF Carried
<1>16. ASSUME NEW p \in Procs, CudaError(p)
      PROVE  Carried'
  <2>1. Others(p) /\ UNCHANGED caller
    BY <1>16, CudaErrorEffect
  <2>2. /\ proc[p].job # NoCall
        /\ proc'[p].job = NoCall /\ proc'[p].inbox = proc[p].inbox
        /\ proc'[p].outbox = Append(proc[p].outbox,
                               [of |-> proc[p].job, exiting |-> TRUE])
    BY <1>16, CudaErrorFields, CudaErrorEffect
  <2>3. \/ Quiet(proc'[p])
        \/ \E d \in Callers : /\ caller'[d].w = p
                              /\ caller'[d].pc \in {"wait", "restart"}
                              /\ Carries(proc'[p], Mine(d)')
    <3>0. \A r : Append(<<>>, r) = <<r>>
      OBVIOUS
    <3>1. PICK d \in Callers : /\ caller[d].w = p
                               /\ caller[d].pc \in {"wait", "restart"}
                               /\ Carries(proc[p], Mine(d))
      BY <2>2 DEF Carried, Quiet
    <3>2. Carries(proc'[p], Mine(d))
      BY <2>2, <3>0, <3>1 DEF Carries
    <3>. QED
      BY <2>1, <3>1, <3>2 DEF Mine
  <2>. QED
    BY <2>1, <2>3, CarriedBut DEF Carried
<1>17. ASSUME NEW p \in Procs, Exit(p)
      PROVE  Carried'
  <2>1. Others(p) /\ UNCHANGED caller
    BY <1>17, ExitEffect
  <2>2. /\ proc'[p].job = proc[p].job
        /\ proc'[p].inbox = proc[p].inbox
        /\ proc'[p].outbox = proc[p].outbox
    BY <1>17, ExitFields
  <2>3. \/ Quiet(proc'[p])
        \/ \E d \in Callers : /\ caller'[d].w = p
                              /\ caller'[d].pc \in {"wait", "restart"}
                              /\ Carries(proc'[p], Mine(d)')
    <3>1. /\ Quiet(proc'[p]) <=> Quiet(proc[p])
          /\ \A j : Carries(proc'[p], j) <=> Carries(proc[p], j)
      BY <2>2, SameLoad
    <3>2. \A d \in Callers : caller'[d] = caller[d] /\ Mine(d)' = Mine(d)
      BY <2>1 DEF Mine
    <3>. QED
      BY <3>1, <3>2 DEF Carried
  <2>. QED
    BY <2>1, <2>3, CarriedBut DEF Carried
<1>18. ASSUME NEW p \in Procs, TaskCrash(p) \/ IdleCrash(p)
      PROVE  Carried'
  <2>1. Others(p) /\ UNCHANGED caller
    BY <1>18, CrashEffect
  <2>2. /\ proc'[p].job = NoCall
        /\ proc'[p].inbox = proc[p].inbox
        /\ proc'[p].outbox = proc[p].outbox
    BY <1>18, CrashFields
  <2>3. \/ Quiet(proc'[p])
        \/ \E d \in Callers : /\ caller'[d].w = p
                              /\ caller'[d].pc \in {"wait", "restart"}
                              /\ Carries(proc'[p], Mine(d)')
    <3>1. CASE proc[p].job = NoCall
      BY <2>1, <2>2, <3>1, SameLoad DEF Carried, Mine
    <3>2. CASE proc[p].job # NoCall
      BY <2>2, <3>2 DEF Carried, Quiet, Carries
    <3>. QED
      BY <3>1, <3>2
  <2>. QED
    BY <2>1, <2>3, CarriedBut DEF Carried
<1>19. CASE Shutdown
  <2>1. UNCHANGED caller
    BY <1>19, ShutdownEffect
  <2>2. ASSUME NEW p \in Procs, ~ Quiet(proc[p]), ~ Quiet(proc'[p]),
               NEW j, Carries(proc[p], j), j # NoCall
        PROVE  Carries(proc'[p], j)
    <3>1. CASE proc'[p] = proc[p]
      BY <2>2, <3>1
    <3>2. CASE /\ proc'[p].job = NoCall /\ proc'[p].inbox = <<>>
               /\ proc'[p].outbox = proc[p].outbox
      BY <2>2, <3>2 DEF Carries, Quiet
    <3>. QED
      BY <1>19, <3>1, <3>2, ShutdownFields
  <2>3. ASSUME NEW p \in Procs, Quiet(proc[p])
        PROVE  Quiet(proc'[p])
    BY <1>19, <2>3, ShutdownFields DEF Quiet
  <2>4. \A d \in Callers : /\ Mine(d)' = Mine(d)
                           /\ caller[d].pc # "off" => Mine(d) # NoCall
    BY <2>1, PoolAssumption DEF Mine, Held, Typed, CallerState
  <2>5. ASSUME NEW p \in Procs
        PROVE  \/ Quiet(proc'[p])
               \/ \E d \in Callers : /\ caller'[d].w = p
                                     /\ caller'[d].pc \in {"wait", "restart"}
                                     /\ Carries(proc'[p], Mine(d)')
    <3>1. CASE ~ Quiet(proc[p]) /\ ~ Quiet(proc'[p])
      <4>1. PICK d \in Callers : /\ caller[d].w = p
                                 /\ caller[d].pc \in {"wait", "restart"}
                                 /\ Carries(proc[p], Mine(d))
        BY <3>1 DEF Carried
      <4>. QED
        BY <2>1, <2>2, <2>4, <3>1, <4>1
    <3>. QED
      BY <2>3, <3>1
  <2>. QED
    BY <2>5 DEF Carried
<1>20. CASE UNCHANGED vars
  BY <1>20 DEF vars, Carried, Mine
<1>. QED
  BY <1>1, <1>2, <1>3, <1>4, <1>5, <1>6, <1>7, <1>8, <1>9, <1>10, <1>11, <1>12,
     <1>13, <1>14, <1>15, <1>16, <1>17, <1>18, <1>19, <1>20
   DEF Next, CallerStep, ProcStep

\* A call is repeated only if no process has seen it.
LEMMA UnsentStep ==
  ASSUME Typed, Unsent, Alone, Held, Carried, [Next]_vars
  PROVE  Unsent'
<1>a. \A d \in Callers :
        caller[d].pc \in {"call", "wait", "restart", "return"} =>
          caller[d].w \in Procs
  BY HeldProc
<1>b. \A d \in Callers : UnsentAt(d)
  BY DEF Unsent
<1>c. ASSUME NEW c \in Callers, NEW d \in Callers, d # c,
             caller[c].w \in Procs
      PROVE  caller[d].w # caller[c].w
  BY <1>c, PoolAssumption DEF Alone
<1>1. ASSUME NEW c \in Callers, Begin(c)
      PROVE  Unsent'
  <2>1. /\ Turns(c, "get", NoProc, "none") /\ UNCHANGED proc
        /\ taken' = [taken EXCEPT ![c] = 0]
    BY <1>1, BeginEffect
  <2>2. taken'[c] = 0 /\ \A d \in Callers : d # c => taken'[d] = taken[d]
    BY <2>1 DEF Typed
  <2>3. UnsentAt(c)'
    BY <2>1, <2>2 DEF Turns, UnsentAt
  <2>. QED
    BY <2>1, <2>2, <2>3, UnsentBut DEF Turns
<1>2. ASSUME NEW c \in Callers, Acquire(c)
      PROVE  Unsent'
  <2>1. /\ Stays(c) /\ UNCHANGED <<proc, taken>>
        /\ caller[c].pc = "get" /\ caller'[c].pc = "call"
        /\ caller'[c].err = caller[c].err
    BY <1>2, AcquireEffect DEF Turns
  <2>9. UnsentAt(c)'
    BY <1>b, <2>1 DEF UnsentAt
  <2>. QED
    BY <2>1, <2>9, UnsentBut
<1>3. ASSUME NEW c \in Callers, GiveUp(c)
      PROVE  Unsent'
  <2>1. /\ Stays(c) /\ UNCHANGED <<proc, taken>>
        /\ caller[c].pc = "get" /\ caller'[c].pc \in {"get", "off"}
        /\ caller'[c].err \in {"none", "failed"}
    BY <1>3, GiveUpEffect DEF Turns
  <2>9. UnsentAt(c)'
    BY <1>b, <2>1 DEF UnsentAt
  <2>. QED
    BY <2>1, <2>9, UnsentBut
<1>4. ASSUME NEW c \in Callers, EmergencyBegin(c)
      PROVE  Unsent'
  <2>1. /\ Stays(c) /\ UNCHANGED <<proc, taken>>
        /\ caller[c].pc = "get" /\ caller'[c].pc = "recover"
        /\ caller'[c].err = caller[c].err
    BY <1>4, EmergencyBeginEffect DEF Turns
  <2>9. UnsentAt(c)'
    BY <1>b, <2>1 DEF UnsentAt
  <2>. QED
    BY <2>1, <2>9, UnsentBut
<1>5. ASSUME NEW c \in Callers, EmergencySpawn(c)
      PROVE  Unsent'
  <2>1. PICK p \in Spare :
          /\ caller[c].pc = "recover" /\ Stays(c) /\ Others(p)
          /\ caller'[c].pc = "call" /\ caller'[c].err = caller[c].err
          /\ UNCHANGED taken
    BY <1>5, EmergencySpawnEffect DEF Turns
  <2>2. UnsentAt(c)'
    BY <1>b, <2>1 DEF UnsentAt
  <2>3. \A d \in Callers :
          caller[d].pc \in {"wait", "restart", "return"} =>
            proc'[caller[d].w] = proc[caller[d].w]
    BY <1>a, <2>1 DEF Others, Spare, Unreferenced
  <2>. QED
    BY <2>1, <2>2, <2>3, UnsentBut
<1>6. ASSUME NEW c \in Callers, EmergencyFails(c)
      PROVE  Unsent'
  <2>1. /\ Stays(c) /\ UNCHANGED <<proc, taken>>
        /\ caller[c].pc = "recover" /\ caller'[c].pc \in {"get", "off"}
        /\ caller'[c].err \in {caller[c].err, "none", "failed"}
    BY <1>6, EmergencyFailsEffect DEF Turns
  <2>9. UnsentAt(c)'
    BY <1>b, <2>1 DEF UnsentAt
  <2>. QED
    BY <2>1, <2>9, UnsentBut
<1>7. ASSUME NEW c \in Callers, CallRefused(c)
      PROVE  Unsent'
  <2>1. /\ caller[c].pc = "call" /\ Turns(c, "restart", caller[c].w, "broken")
        /\ UNCHANGED <<proc, taken>>
    BY <1>7, CallRefusedEffect
  <2>2. Quiet(proc[caller[c].w])
    BY <1>a, <2>1, CarriesMine
  <2>9. UnsentAt(c)'
    BY <1>b, <2>1, <2>2 DEF Turns, UnsentAt
  <2>. QED
    BY <2>1, <2>9, UnsentBut DEF Turns
<1>8. ASSUME NEW c \in Callers, CallPut(c)
      PROVE  Unsent'
  <2> DEFINE p == caller[c].w
  <2>1. /\ caller[c].pc = "call" /\ Turns(c, "wait", p, caller[c].err)
        /\ Others(p)
        /\ p \in Procs /\ UNCHANGED taken
    BY <1>8, CallPutEffect
  <2>2. proc'[p].job = proc[p].job
    BY <1>8, CallPutFields
  <2>3. UnsentAt(c)'
    BY <1>b, <2>1, <2>2 DEF Turns, UnsentAt
  <2>4. \A d \in Callers : d # c =>
          /\ taken'[d] = taken[d]
          /\ caller[d].pc \in {"wait", "restart", "return"} =>
               proc'[caller[d].w] = proc[caller[d].w]
    BY <1>a, <1>c, <2>1 DEF Others
  <2>. QED
    BY <2>1, <2>3, <2>4, UnsentBut DEF Turns
<1>9. ASSUME NEW c \in Callers, Receive(c)
      PROVE  Unsent'
  <2> DEFINE p == caller[c].w
  <2>1. /\ caller[c].pc = "wait" /\ Turns(c, "done", p, caller[c].err)
        /\ Others(p)
        /\ p \in Procs /\ UNCHANGED taken
    BY <1>9, ReceiveEffect
  <2>2. proc'[p].job = proc[p].job
    BY <1>9, ReceiveFields
  <2>3. UnsentAt(c)'
    BY <1>b, <2>1, <2>2 DEF Turns, UnsentAt
  <2>4. \A d \in Callers : d # c =>
          /\ taken'[d] = taken[d]
          /\ caller[d].pc \in {"wait", "restart", "return"} =>
               proc'[caller[d].w] = proc[caller[d].w]
    BY <1>a, <1>c, <2>1 DEF Others
  <2>. QED
    BY <2>1, <2>3, <2>4, UnsentBut DEF Turns
<1>10. ASSUME NEW c \in Callers, CallTimeout(c)
      PROVE  Unsent'
  <2> DEFINE p == caller[c].w
  <2>1. /\ caller[c].pc = "wait" /\ Turns(c, "restart", p, "timeout")
        /\ Others(p)
        /\ p \in Procs /\ UNCHANGED taken
    BY <1>10, CallTimeoutEffect
  <2>2. proc'[p].inbox = proc[p].inbox
    BY <1>10, CallTimeoutFields
  <2>3. UnsentAt(c)'
    BY <1>b, <2>1, <2>2 DEF Turns, UnsentAt
  <2>4. \A d \in Callers : d # c =>
          /\ taken'[d] = taken[d]
          /\ caller[d].pc \in {"wait", "restart", "return"} =>
               proc'[caller[d].w] = proc[caller[d].w]
    BY <1>a, <1>c, <2>1 DEF Others
  <2>. QED
    BY <2>1, <2>3, <2>4, UnsentBut DEF Turns
<1>11. ASSUME NEW c \in Callers, Check(c)
      PROVE  Unsent'
  <2>1. /\ Stays(c) /\ UNCHANGED <<proc, taken>>
        /\ caller[c].pc = "done" /\ caller'[c].pc \in {"return", "restart"}
        /\ caller'[c].err = caller[c].err /\ caller'[c].w = caller[c].w
    BY <1>11, CheckEffect DEF Turns
  <2>0. caller[c].w \in Procs
    BY <2>1, HeldProc
  <2>2. Quiet(proc[caller[c].w])
    BY <2>0, <2>1, CarriesMine
  <2>9. UnsentAt(c)'
    BY <1>b, <2>1, <2>2 DEF Quiet, UnsentAt
  <2>. QED
    BY <2>1, <2>9, UnsentBut
<1>12. ASSUME NEW c \in Callers, Restart(c)
      PROVE  Unsent'
  <2> DEFINE old == caller[c].w
  <2>1. /\ caller[c].pc = "restart" /\ Turns(c, "return", old, caller[c].err)
        /\ old \in Procs /\ UNCHANGED taken
        /\ proc'[old] = Unused
        /\ \/ Others(old)
           \/ \E p \in Spare :
                \A q \in Procs : q \notin {old, p} => proc'[q] = proc[q]
    BY <1>12, RestartEffect
  <2>2. Quiet(Unused)
    BY DEF Unused, Quiet
  <2>3. UnsentAt(c)'
    BY <1>b, <2>1, <2>2 DEF Turns, UnsentAt
  <2>4. \A d \in Callers :
          d # c /\ caller[d].pc \in {"wait", "restart", "return"} =>
            proc'[caller[d].w] = proc[caller[d].w]
    BY <1>a, <1>c, <2>1 DEF Others, Spare, Unreferenced
  <2>. QED
    BY <2>1, <2>3, <2>4, UnsentBut DEF Turns
<1>13. ASSUME NEW c \in Callers, Return(c)
      PROVE  Unsent'
  <2>1. /\ Stays(c) /\ UNCHANGED <<proc, taken>>
        /\ caller'[c].pc \in {"get", "off"}
        /\ caller'[c].pc = "get" => caller[c].err = "broken"
        /\ caller'[c].err \in {"none", "timeout", "failed"}
    BY <1>13, ReturnEffect DEF Turns
  <2>9. UnsentAt(c)'
    BY <1>b, <2>1 DEF UnsentAt
  <2>. QED
    BY <2>1, <2>9, UnsentBut
<1>14. ASSUME NEW p \in Procs, TakeTask(p)
      PROVE  Unsent'
  <2>1. /\ Others(p) /\ UNCHANGED caller /\ proc[p].inbox # <<>>
        /\ taken' = [c \in Callers |->
             IF Head(proc[p].inbox) = <<c, caller[c].n>> /\ taken[c] < 2
               THEN taken[c] + 1 ELSE taken[c]]
    BY <1>14, TakeTaskEffect
  <2>2. proc'[p].inbox = Tail(proc[p].inbox)
    BY <1>14, TakeTaskFields
  <2>3. PICK d \in Callers : caller[d].w = p /\ proc[p].inbox = <<Mine(d)>>
    BY <2>1 DEF Carried, Quiet, Carries
  <2>4. Head(proc[p].inbox) = Mine(d) /\ proc'[p].inbox = <<>>
    BY <2>2, <2>3
  <2>5. UnsentAt(d)'
    <3>1. caller[d].pc \in {"wait", "restart"} /\ ~ Quiet(proc[p])
      BY <2>1, <2>3, CarriesMine DEF Quiet
    <3>. QED
      BY <1>b, <2>1, <2>3, <2>4, <3>1 DEF UnsentAt
  <2>6. ASSUME NEW e \in Callers, e # d
        PROVE  /\ taken'[e] = taken[e]
               /\ caller[e].pc \in {"wait", "restart", "return"} =>
                    proc'[caller[e].w] = proc[caller[e].w]
    BY <1>a, <1>c, <2>1, <2>3, <2>4, <2>6 DEF Mine, Others
  <2>. QED
    BY <2>1, <2>5, <2>6, UnsentBut DEF Stays
<1>15. ASSUME NEW p \in Procs, Finish(p)
      PROVE  Unsent'
  <2>1. /\ Others(p) /\ UNCHANGED <<caller, taken>>
        /\ proc[p].job # NoCall
    BY <1>15, FinishEffect
  <2>2. /\ proc'[p].inbox = proc[p].inbox
        /\ Quiet(proc[p]) => Quiet(proc'[p])
    BY <1>15, <2>1, FinishFields DEF Quiet
  <2>. QED
    BY <1>a, <1>b, <2>1, <2>2 DEF Others, Unsent, UnsentAt
<1>16. ASSUME NEW p \in Procs, CudaError(p)
      PROVE  Unsent'
  <2>1. /\ Others(p) /\ UNCHANGED <<caller, taken>>
        /\ proc[p].job # NoCall
    BY <1>16, CudaErrorEffect
  <2>2. /\ proc'[p].inbox = proc[p].inbox
        /\ Quiet(proc[p]) => Quiet(proc'[p])
    BY <1>16, <2>1, CudaErrorFields DEF Quiet
  <2>. QED
    BY <1>a, <1>b, <2>1, <2>2 DEF Others, Unsent, UnsentAt
<1>17. ASSUME NEW p \in Procs, Exit(p)
      PROVE  Unsent'
  <2>1. /\ Others(p) /\ UNCHANGED <<caller, taken>>
        /\ proc[p].state = "exiting"
    BY <1>17, ExitEffect
  <2>2. /\ proc'[p].inbox = proc[p].inbox
        /\ Quiet(proc[p]) => Quiet(proc'[p])
    BY <1>17, <2>1, ExitFields DEF Quiet
  <2>. QED
    BY <1>a, <1>b, <2>1, <2>2 DEF Others, Unsent, UnsentAt
<1>18. ASSUME NEW p \in Procs, TaskCrash(p) \/ IdleCrash(p)
      PROVE  Unsent'
  <2>1. /\ Others(p) /\ UNCHANGED <<caller, taken>>
        /\ proc[p].state = "up"
    BY <1>18, CrashEffect
  <2>2. /\ proc'[p].inbox = proc[p].inbox
        /\ Quiet(proc[p]) => Quiet(proc'[p])
    BY <1>18, <2>1, CrashFields DEF Quiet
  <2>. QED
    BY <1>a, <1>b, <2>1, <2>2 DEF Others, Unsent, UnsentAt
<1>19. CASE Shutdown
  <2>1. UNCHANGED <<caller, taken>>
    BY <1>19, ShutdownEffect
  <2>2. ASSUME NEW p \in Procs
        PROVE  /\ proc'[p].inbox \in {proc[p].inbox, <<>>}
               /\ Quiet(proc[p]) => Quiet(proc'[p])
    BY <1>19, ShutdownFields DEF Quiet
  <2>. QED
    BY <1>a, <1>b, <2>1, <2>2 DEF Unsent, UnsentAt
<1>20. CASE UNCHANGED vars
  BY <1>20 DEF vars, Unsent, UnsentAt
<1>. QED
  BY <1>1, <1>2, <1>3, <1>4, <1>5, <1>6, <1>7, <1>8, <1>9, <1>10, <1>11, <1>12,
     <1>13, <1>14, <1>15, <1>16, <1>17, <1>18, <1>19, <1>20
   DEF Next, CallerStep, ProcStep

\* What lies in the queue of a process has not been taken before.
LEMMA AtMostOnceStep ==
  ASSUME Typed, AtMostOnce, Alone, Held, Carried, Unsent, [Next]_vars
  PROVE  AtMostOnce'
<1>1. ASSUME NEW c \in Callers, Begin(c)
      PROVE  AtMostOnce'
  <2>1. taken' = [taken EXCEPT ![c] = 0]
    BY <1>1, BeginEffect
  <2>. QED
    BY <2>1 DEF Typed, AtMostOnce
<1>2. ASSUME NEW c \in Callers, Acquire(c)
      PROVE  AtMostOnce'
  BY <1>2, AcquireEffect DEF Turns, Stays, Keeps, Others, AtMostOnce
<1>3. ASSUME NEW c \in Callers, GiveUp(c)
      PROVE  AtMostOnce'
  BY <1>3, GiveUpEffect DEF Turns, Stays, Keeps, Others, AtMostOnce
<1>4. ASSUME NEW c \in Callers, EmergencyBegin(c)
      PROVE  AtMostOnce'
  BY <1>4, EmergencyBeginEffect DEF Turns, Stays, Keeps, Others, AtMostOnce
<1>5. ASSUME NEW c \in Callers, EmergencySpawn(c)
      PROVE  AtMostOnce'
  BY <1>5, EmergencySpawnEffect DEF Turns, Stays, Keeps, Others, AtMostOnce
<1>6. ASSUME NEW c \in Callers, EmergencyFails(c)
      PROVE  AtMostOnce'
  BY <1>6, EmergencyFailsEffect DEF Turns, Stays, Keeps, Others, AtMostOnce
<1>7. ASSUME NEW c \in Callers, CallRefused(c)
      PROVE  AtMostOnce'
  BY <1>7, CallRefusedEffect DEF Turns, Stays, Keeps, Others, AtMostOnce
<1>8. ASSUME NEW c \in Callers, CallPut(c)
      PROVE  AtMostOnce'
  BY <1>8, CallPutEffect DEF Turns, Stays, Keeps, Others, AtMostOnce
<1>9. ASSUME NEW c \in Callers, Receive(c)
      PROVE  AtMostOnce'
  BY <1>9, ReceiveEffect DEF Turns, Stays, Keeps, Others, AtMostOnce
<1>10. ASSUME NEW c \in Callers, CallTimeout(c)
      PROVE  AtMostOnce'
  BY <1>10, CallTimeoutEffect DEF Turns, Stays, Keeps, Others, AtMostOnce
<1>11. ASSUME NEW c \in Callers, Check(c)
      PROVE  AtMostOnce'
  BY <1>11, CheckEffect DEF Turns, Stays, Keeps, Others, AtMostOnce
<1>12. ASSUME NEW c \in Callers, Restart(c)
      PROVE  AtMostOnce'
  BY <1>12, RestartEffect DEF Turns, Stays, Keeps, Others, AtMostOnce
<1>13. ASSUME NEW c \in Callers, Return(c)
      PROVE  AtMostOnce'
  BY <1>13, ReturnEffect DEF Turns, Stays, Keeps, Others, AtMostOnce
<1>14. ASSUME NEW p \in Procs, TakeTask(p)
      PROVE  AtMostOnce'
  <2>1. /\ UNCHANGED caller /\ proc[p].inbox # <<>>
        /\ taken' = [c \in Callers |->
             IF Head(proc[p].inbox) = <<c, caller[c].n>> /\ taken[c] < 2
               THEN taken[c] + 1 ELSE taken[c]]
    BY <1>14, TakeTaskEffect
  <2>2. PICK d \in Callers : /\ caller[d].w = p /\ proc[p].inbox = <<Mine(d)>>
                             /\ caller[d].pc \in {"wait", "restart"}
    BY <2>1 DEF Carried, Quiet, Carries
  <2>3. Head(proc[p].inbox) = Mine(d)
    BY <2>2
  <2>4. taken[d] = 0
    BY <2>1, <2>2 DEF Unsent, UnsentAt
  <2>5. ASSUME NEW e \in Callers
        PROVE  taken'[e] <= 1
    BY <2>1, <2>3, <2>4 DEF Mine, AtMostOnce
  <2>. QED
    BY <2>5 DEF AtMostOnce
<1>15. ASSUME NEW p \in Procs, Finish(p)
      PROVE  AtMostOnce'
  BY <1>15, FinishEffect DEF Others, AtMostOnce
<1>16. ASSUME NEW p \in Procs, CudaError(p)
      PROVE  AtMostOnce'
  BY <1>16, CudaErrorEffect DEF Others, AtMostOnce
<1>17. ASSUME NEW p \in Procs, Exit(p)
      PROVE  AtMostOnce'
  BY <1>17, ExitEffect DEF Others, AtMostOnce
<1>18. ASSUME NEW p \in Procs, TaskCrash(p) \/ IdleCrash(p)
      PROVE  AtMostOnce'
  BY <1>18, CrashEffect DEF AtMostOnce
<1>19. CASE Shutdown
  BY <1>19, ShutdownEffect DEF AtMostOnce
<1>20. CASE UNCHANGED vars
  BY <1>20 DEF vars, AtMostOnce
<1>. QED
  BY <1>1, <1>2, <1>3, <1>4, <1>5, <1>6, <1>7, <1>8, <1>9, <1>10, <1>11, <1>12,
     <1>13, <1>14, <1>15, <1>16, <1>17, <1>18, <1>19, <1>20
   DEF Next, CallerStep, ProcStep

\* A result is the result of the call that is waited for.
LEMMA RightAnswerStep ==
  ASSUME Typed, RightAnswer, Alone, Held, Carried, [Next]_vars
  PROVE  RightAnswer'
<1>1. ASSUME NEW c \in Callers, Begin(c)
      PROVE  RightAnswer'
  BY <1>1, BeginEffect DEF Turns, Stays, Keeps, Others, RightAnswer
<1>2. ASSUME NEW c \in Callers, Acquire(c)
      PROVE  RightAnswer'
  <2>1. Stays(c) /\ Keeps(c)
    BY <1>2, AcquireEffect DEF Turns
  <2>. QED
    BY <2>1 DEF Stays, Keeps, RightAnswer
<1>3. ASSUME NEW c \in Callers, GiveUp(c)
      PROVE  RightAnswer'
  <2>1. Stays(c) /\ Keeps(c)
    BY <1>3, GiveUpEffect DEF Turns
  <2>. QED
    BY <2>1 DEF Stays, Keeps, RightAnswer
<1>4. ASSUME NEW c \in Callers, EmergencyBegin(c)
      PROVE  RightAnswer'
  <2>1. Stays(c) /\ Keeps(c)
    BY <1>4, EmergencyBeginEffect DEF Turns
  <2>. QED
    BY <2>1 DEF Stays, Keeps, RightAnswer
<1>5. ASSUME NEW c \in Callers, EmergencySpawn(c)
      PROVE  RightAnswer'
  <2>1. Stays(c) /\ Keeps(c)
    BY <1>5, EmergencySpawnEffect DEF Turns
  <2>. QED
    BY <2>1 DEF Stays, Keeps, RightAnswer
<1>6. ASSUME NEW c \in Callers, EmergencyFails(c)
      PROVE  RightAnswer'
  <2>1. Stays(c) /\ Keeps(c)
    BY <1>6, EmergencyFailsEffect DEF Turns
  <2>. QED
    BY <2>1 DEF Stays, Keeps, RightAnswer
<1>7. ASSUME NEW c \in Callers, CallRefused(c)
      PROVE  RightAnswer'
  <2>1. Stays(c) /\ Keeps(c)
    BY <1>7, CallRefusedEffect DEF Turns
  <2>. QED
    BY <2>1 DEF Stays, Keeps, RightAnswer
<1>8. ASSUME NEW c \in Callers, CallPut(c)
      PROVE  RightAnswer'
  <2>1. Stays(c) /\ Keeps(c)
    BY <1>8, CallPutEffect DEF Turns
  <2>. QED
    BY <2>1 DEF Stays, Keeps, RightAnswer
<1>9. ASSUME NEW c \in Callers, Receive(c)
      PROVE  RightAnswer'
  <2> DEFINE p == caller[c].w
             r == Head(proc[p].outbox)
  <2>1. /\ p \in Procs /\ proc[p].outbox # <<>> /\ Stays(c)
        /\ caller'[c].n = caller[c].n /\ caller'[c].got = r.of
    BY <1>9, ReceiveEffect DEF Turns
  <2>2. Carries(proc[p], Mine(c)) /\ ~ Quiet(proc[p])
    BY <2>1, CarriesMine DEF Quiet
  <2>3. PICK e \in BOOLEAN :
          proc[p].outbox = <<[of |-> Mine(c), exiting |-> e]>>
    BY <2>1, <2>2 DEF Carries
  <2>4. r = [of |-> Mine(c), exiting |-> e]
    BY <2>3
  <2>5. r.of = Mine(c)
    BY <2>4
  <2> HIDE DEF r
  <2>. QED
    BY <2>1, <2>5 DEF Stays, Mine, RightAnswer
<1>10. ASSUME NEW c \in Callers, CallTimeout(c)
      PROVE  RightAnswer'
  <2>1. Stays(c) /\ Keeps(c)
    BY <1>10, CallTimeoutEffect DEF Turns
  <2>. QED
    BY <2>1 DEF Stays, Keeps, RightAnswer
<1>11. ASSUME NEW c \in Callers, Check(c)
      PROVE  RightAnswer'
  <2>1. Stays(c) /\ Keeps(c)
    BY <1>11, CheckEffect DEF Turns
  <2>. QED
    BY <2>1 DEF Stays, Keeps, RightAnswer
<1>12. ASSUME NEW c \in Callers, Restart(c)
      PROVE  RightAnswer'
  <2>1. Stays(c) /\ Keeps(c)
    BY <1>12, RestartEffect DEF Turns
  <2>. QED
    BY <2>1 DEF Stays, Keeps, RightAnswer
<1>13. ASSUME NEW c \in Callers, Return(c)
      PROVE  RightAnswer'
  <2>1. Stays(c) /\ Keeps(c)
    BY <1>13, ReturnEffect DEF Turns
  <2>. QED
    BY <2>1 DEF Stays, Keeps, RightAnswer
<1>14. ASSUME NEW p \in Procs, ProcStep(p)
      PROVE  RightAnswer'
  BY <1>14, ProcEffect DEF Others, RightAnswer
<1>15. CASE Shutdown
  BY <1>15, ShutdownEffect DEF RightAnswer
<1>16. CASE UNCHANGED vars
  BY <1>16 DEF vars, RightAnswer
<1>. QED
  BY <1>1, <1>2, <1>3, <1>4, <1>5, <1>6, <1>7, <1>8, <1>9, <1>10, <1>11, <1>12,
     <1>13, <1>14, <1>15, <1>16
   DEF Next, CallerStep

\* The types.
LEMMA TypedStep ==
  ASSUME Typed, Held, Counted, [Next]_vars
  PROVE  Typed'
<1>1. ASSUME NEW c \in Callers, Begin(c)
      PROVE  Typed'
  <2>1. caller' = [caller EXCEPT
                     ![c] = [AtRest EXCEPT !.pc = "get",
                                           !.n = caller[c].n + 1]]
    BY <1>1 DEF Begin, Typed
  <2>2. [AtRest EXCEPT !.pc = "get", !.n = caller[c].n + 1] \in CallerState
    <3>1. caller[c].n + 1 \in 0..MaxCalls
      BY <1>1, CallerType, PoolAssumption DEF Begin, CallerState
    <3>2. 0 \in 0..MaxRetries
      BY PoolAssumption
    <3>. QED
      BY <3>1, <3>2 DEF CallerState, AtRest
  <2>3. caller' \in [Callers -> CallerState]
    BY <2>1, <2>2, CallerTyped
  <2>4. /\ workers' \subseteq Procs /\ idle' \subseteq Procs
        /\ busy' \subseteq Procs
    BY <1>1 DEF Begin, lists, Typed, Usable
  <2>5. proc' \in [Procs -> ProcState]
    BY <1>1 DEF Begin, Typed
  <2>6. taken' \in [Callers -> 0..2]
    BY <1>1 DEF Begin, Typed
  <2>. QED
    BY <2>6, <2>3, <2>4, <2>5, <1>1 DEF Begin, Typed
<1>2. ASSUME NEW c \in Callers, Acquire(c)
      PROVE  Typed'
  <2>1. PICK p \in Usable :
          caller' = [caller EXCEPT ![c] = [caller[c] EXCEPT !.pc = "call",
                                                            !.w = p]]
    BY <1>2 DEF Acquire, Typed
  <2>2. [caller[c] EXCEPT !.pc = "call", !.w = p] \in CallerState
    BY CallerType DEF CallerState, Usable, Typed
  <2>3. caller' \in [Callers -> CallerState]
    BY <2>1, <2>2, CallerTyped
  <2>. QED
    BY <2>3, <1>2 DEF Acquire, Typed, Usable
<1>3. ASSUME NEW c \in Callers, GiveUp(c)
      PROVE  Typed'
  <2>1. caller' = [caller EXCEPT ![c] = NextRound(caller[c])]
    BY <1>3 DEF GiveUp, Typed
  <2>2. NextRound(caller[c]) \in CallerState
    BY CallerType, RoundTyped
  <2>3. caller' \in [Callers -> CallerState]
    BY <2>1, <2>2, CallerTyped
  <2>4. /\ workers' \subseteq Procs /\ idle' \subseteq Procs
        /\ busy' \subseteq Procs
    BY <1>3 DEF GiveUp, lists, Typed, Usable
  <2>5. proc' \in [Procs -> ProcState]
    BY <1>3 DEF GiveUp, Typed
  <2>. QED
    BY <2>3, <2>4, <2>5, <1>3 DEF GiveUp, Typed
<1>4. ASSUME NEW c \in Callers, EmergencyBegin(c)
      PROVE  Typed'
  <2>1. caller' = [caller EXCEPT ![c] = [caller[c] EXCEPT !.pc = "recover"]]
    BY <1>4 DEF EmergencyBegin, Typed
  <2>2. [caller[c] EXCEPT !.pc = "recover"] \in CallerState
    BY CallerType DEF CallerState
  <2>3. caller' \in [Callers -> CallerState]
    BY <2>1, <2>2, CallerTyped
  <2>4. /\ workers' \subseteq Procs /\ idle' \subseteq Procs
        /\ busy' \subseteq Procs
    BY <1>4 DEF EmergencyBegin, lists, Typed, Usable
  <2>5. proc' \in [Procs -> ProcState]
    BY <1>4 DEF EmergencyBegin, Typed
  <2>. QED
    BY <2>3, <2>4, <2>5, <1>4 DEF EmergencyBegin, Typed
<1>5. ASSUME NEW c \in Callers, EmergencySpawn(c)
      PROVE  Typed'
  <2>1. PICK p \in Spare :
          /\ caller' = [caller EXCEPT ![c] = [caller[c] EXCEPT !.pc = "call",
                                                               !.w = p]]
          /\ proc' = [proc EXCEPT ![p] = Fresh(proc[p])]
          /\ workers' = workers \cup {p} /\ busy' = busy \cup {p}
    BY <1>5 DEF EmergencySpawn, Typed
  <2>2. p \in Procs
    BY DEF Spare, Unreferenced
  <2>3. [caller[c] EXCEPT !.pc = "call", !.w = p] \in CallerState
    BY <2>2, CallerType DEF CallerState
  <2>4. caller' \in [Callers -> CallerState]
    BY <2>1, <2>3, CallerTyped
  <2>5. proc' \in [Procs -> ProcState]
    BY <2>1, <2>2, FreshTyped, ProcTyped
  <2>. QED
    BY <2>1, <2>2, <2>4, <2>5, <1>5 DEF EmergencySpawn, Typed
<1>6. ASSUME NEW c \in Callers, EmergencyFails(c)
      PROVE  Typed'
  <2>1. \E x \in {[caller[c] EXCEPT !.pc = "get"], NextRound(caller[c])} :
          caller' = [caller EXCEPT ![c] = x]
    BY <1>6 DEF EmergencyFails, Typed
  <2>2. /\ [caller[c] EXCEPT !.pc = "get"] \in CallerState
        /\ NextRound(caller[c]) \in CallerState
    BY CallerType, RoundTyped DEF CallerState
  <2>3. caller' \in [Callers -> CallerState]
    BY <2>1, <2>2, CallerTyped
  <2>. QED
    BY <2>3, <1>6 DEF EmergencyFails, lists, Typed
<1>7. ASSUME NEW c \in Callers, CallRefused(c)
      PROVE  Typed'
  <2>1. caller' = [caller EXCEPT
                     ![c] = [caller[c] EXCEPT !.pc = "restart",
                                              !.err = "broken"]]
    BY <1>7 DEF CallRefused, Typed
  <2>2. [caller[c] EXCEPT !.pc = "restart", !.err = "broken"] \in CallerState
    BY CallerType DEF CallerState
  <2>3. caller' \in [Callers -> CallerState]
    BY <2>1, <2>2, CallerTyped
  <2>4. /\ workers' \subseteq Procs /\ idle' \subseteq Procs
        /\ busy' \subseteq Procs
    BY <1>7 DEF CallRefused, lists, Typed, Usable
  <2>5. proc' \in [Procs -> ProcState]
    BY <1>7 DEF CallRefused, Typed
  <2>. QED
    BY <2>3, <2>4, <2>5, <1>7 DEF CallRefused, Typed
<1>8. ASSUME NEW c \in Callers, CallPut(c)
      PROVE  Typed'
  <2>1. caller' = [caller EXCEPT ![c] = [caller[c] EXCEPT !.pc = "wait"]]
    BY <1>8 DEF CallPut, Typed
  <2>2. [caller[c] EXCEPT !.pc = "wait"] \in CallerState
    BY CallerType DEF CallerState
  <2>3. caller' \in [Callers -> CallerState]
    BY <2>1, <2>2, CallerTyped
  <2>4. /\ workers' \subseteq Procs /\ idle' \subseteq Procs
        /\ busy' \subseteq Procs
    BY <1>8 DEF CallPut, lists, Typed, Usable
  <2>5. proc' \in [Procs -> ProcState]
    <3> DEFINE p == caller[c].w
               x == [proc[p] EXCEPT !.inbox = Append(proc[p].inbox, Mine(c))]
    <3>1. p \in Procs /\ proc' = [proc EXCEPT ![p] = x]
      BY <1>8, HeldProc DEF CallPut, Typed, Mine
    <3>2. x \in ProcState
      <4>1. Mine(c) \in Calls
        BY <1>8, CallerType, PoolAssumption
         DEF CallPut, Held, CallerState, Mine, Calls
      <4>2. proc[p] \in ProcState
        BY <3>1 DEF Typed
      <4>3. Append(proc[p].inbox, Mine(c)) \in Seq(Calls)
        BY <4>1, <4>2 DEF ProcState
      <4>. QED
        BY <4>2, <4>3 DEF ProcState
    <3>. QED
      BY <3>1, <3>2, ProcTyped
  <2>. QED
    BY <2>3, <2>4, <2>5, <1>8 DEF CallPut, Typed
<1>9. ASSUME NEW c \in Callers, Receive(c)
      PROVE  Typed'
  <2>1. caller' = [caller EXCEPT
                     ![c] = [caller[c] EXCEPT !.pc = "done",
                                              !.got = Head(proc[caller[c].w].outbox).of]]
    BY <1>9 DEF Receive, Typed
  <2>2. [caller[c] EXCEPT !.pc = "done",
                          !.got = Head(proc[caller[c].w].outbox).of]
          \in CallerState
    <3>1. caller[c].w \in Procs /\ proc[caller[c].w].outbox # <<>>
      BY <1>9, HeldProc DEF Receive
    <3>2. proc[caller[c].w].outbox \in Seq(Result)
      BY <3>1 DEF Typed, ProcState
    <3>3. Head(proc[caller[c].w].outbox) \in Result
      BY <3>1, <3>2
    <3>4. Head(proc[caller[c].w].outbox).of \in Calls
      BY <3>3 DEF Result
    <3>. QED
      BY <3>4, CallerType DEF CallerState
  <2>3. caller' \in [Callers -> CallerState]
    BY <2>1, <2>2, CallerTyped
  <2>4. /\ workers' \subseteq Procs /\ idle' \subseteq Procs
        /\ busy' \subseteq Procs
    BY <1>9 DEF Receive, lists, Typed, Usable
  <2>5. proc' \in [Procs -> ProcState]
    <3> DEFINE p == caller[c].w
               x == [proc[p] EXCEPT
                      !.outbox = Tail(proc[p].outbox),
                      !.count = proc[p].count + 1,
                      !.flag = /\ proc[p].flag
                               /\ ~ Head(proc[p].outbox).exiting
                               /\ proc[p].count + 1 < MaxTasks]
    <3>1. p \in Procs /\ proc' = [proc EXCEPT ![p] = x]
      BY <1>9, HeldProc DEF Receive, Typed, Mine
    <3>2. x \in ProcState
      <4>1. proc[p] \in ProcState /\ proc[p].outbox # <<>>
        BY <3>1, <1>9 DEF Receive, Typed
      <4>2. Tail(proc[p].outbox) \in Seq(Result)
        BY <4>1 DEF ProcState
      <4>3. proc[p].count + 1 \in 0..MaxTasks
        <5>1. caller[c].pc = "wait" /\ proc[p].count \in 0..MaxTasks
          BY <4>1, <1>9 DEF Receive, ProcState
        <5>2. proc[p].count < MaxTasks
          BY <5>1 DEF Counted
        <5>. QED
          BY <5>1, <5>2, PoolAssumption
      <4>4. (/\ proc[p].flag /\ ~ Head(proc[p].outbox).exiting
             /\ proc[p].count + 1 < MaxTasks) \in BOOLEAN
        OBVIOUS
      <4>. QED
        BY <4>1, <4>2, <4>3, <4>4 DEF ProcState
    <3>. QED
      BY <3>1, <3>2, ProcTyped
  <2>. QED
    BY <2>3, <2>4, <2>5, <1>9 DEF Receive, Typed
<1>10. ASSUME NEW c \in Callers, CallTimeout(c)
      PROVE  Typed'
  <2>1. caller' = [caller EXCEPT
                     ![c] = [caller[c] EXCEPT !.pc = "restart",
                                              !.err = "timeout"]]
    BY <1>10 DEF CallTimeout, Typed
  <2>2. [caller[c] EXCEPT !.pc = "restart", !.err = "timeout"] \in CallerState
    BY CallerType DEF CallerState
  <2>3. caller' \in [Callers -> CallerState]
    BY <2>1, <2>2, CallerTyped
  <2>4. /\ workers' \subseteq Procs /\ idle' \subseteq Procs
        /\ busy' \subseteq Procs
    BY <1>10 DEF CallTimeout, lists, Typed, Usable
  <2>5. proc' \in [Procs -> ProcState]
    <3> DEFINE p == caller[c].w
               x == [proc[p] EXCEPT !.flag = FALSE]
    <3>1. p \in Procs /\ proc' = [proc EXCEPT ![p] = x]
      BY <1>10, HeldProc DEF CallTimeout, Typed, Mine
    <3>2. proc[p] \in ProcState
      BY <3>1 DEF Typed
    <3>3. x \in ProcState
      BY <3>2 DEF ProcState
    <3>. QED
      BY <3>1, <3>3, ProcTyped
  <2>. QED
    BY <2>3, <2>4, <2>5, <1>10 DEF CallTimeout, Typed
<1>11. ASSUME NEW c \in Callers, Check(c)
      PROVE  Typed'
  <2>1. \E x \in {[caller[c] EXCEPT !.pc = "return"],
                  [caller[c] EXCEPT !.pc = "restart"]} :
          caller' = [caller EXCEPT ![c] = x]
    BY <1>11 DEF Check, Typed
  <2>2. /\ [caller[c] EXCEPT !.pc = "return"] \in CallerState
        /\ [caller[c] EXCEPT !.pc = "restart"] \in CallerState
    BY CallerType DEF CallerState
  <2>3. caller' \in [Callers -> CallerState]
    BY <2>1, <2>2, CallerTyped
  <2>. QED
    BY <2>3, <1>11 DEF Check, lists, Typed
<1>12. ASSUME NEW c \in Callers, Restart(c)
      PROVE  Typed'
  <2>1. caller' = [caller EXCEPT ![c] = [caller[c] EXCEPT !.pc = "return"]]
    BY <1>12 DEF Restart, Typed
  <2>2. [caller[c] EXCEPT !.pc = "return"] \in CallerState
    BY CallerType DEF CallerState
  <2>3. caller' \in [Callers -> CallerState]
    BY <2>1, <2>2, CallerTyped
  <2>4. /\ workers' \subseteq Procs /\ idle' \subseteq Procs
        /\ busy' \subseteq Procs
    BY <1>12 DEF Restart, Spare, Unreferenced, Typed
  <2>5. proc' \in [Procs -> ProcState]
    <3>1. \/ proc' = [proc EXCEPT ![caller[c].w] = Unused]
          \/ proc' \in [Procs -> {Unused, Fresh(Unused)}
                                   \cup {proc[q] : q \in Procs}]
      BY <1>12, RestartEffect
    <3>2. Unused \in ProcState /\ Fresh(Unused) \in ProcState
      BY FreshTyped
    <3>3. caller[c].w \in Procs
      BY <1>12, HeldProc DEF Restart
    <3>4. \A q \in Procs : proc[q] \in ProcState
      BY DEF Typed
    <3>5. CASE proc' = [proc EXCEPT ![caller[c].w] = Unused]
      BY <3>2, <3>3, <3>5, ProcTyped
    <3>6. CASE proc' \in [Procs -> {Unused, Fresh(Unused)}
                                     \cup {proc[q] : q \in Procs}]
      BY <3>2, <3>4, <3>6
    <3>. QED
      BY <3>1, <3>5, <3>6
  <2>. QED
    BY <2>3, <2>4, <2>5, <1>12 DEF Restart, Typed
<1>13. ASSUME NEW c \in Callers, Return(c)
      PROVE  Typed'
  <2>1. \E x \in {NextRound(caller[c]),
                  [caller[c] EXCEPT !.pc = "off", !.w = NoProc]} :
          caller' = [caller EXCEPT ![c] = x]
    BY <1>13 DEF Return
  <2>2. /\ NextRound(caller[c]) \in CallerState
        /\ [caller[c] EXCEPT !.pc = "off", !.w = NoProc] \in CallerState
    <3>1. [caller[c] EXCEPT !.pc = "off", !.w = NoProc] \in CallerState
      BY CallerType DEF CallerState
    <3>. QED
      BY <3>1, CallerType, RoundTyped
  <2>3. caller' \in [Callers -> CallerState]
    BY <2>1, <2>2, CallerTyped
  <2>4. caller[c].w \in Procs
    BY <1>13, HeldProc DEF Return
  <2>5. idle' \subseteq Procs /\ busy' \subseteq Procs
    BY <2>4, <1>13 DEF Return, Typed
  <2>. QED
    BY <2>3, <2>5, <1>13 DEF Return, Typed
<1>14. ASSUME NEW p \in Procs, TakeTask(p)
      PROVE  Typed'
  <2> DEFINE x == [proc[p] EXCEPT !.job = Head(proc[p].inbox),
                                !.inbox = Tail(proc[p].inbox)]
  <2>1. proc' = [proc EXCEPT ![p] = x]
    BY <1>14 DEF TakeTask, Typed
  <2>2. x \in ProcState
    <3>1. proc[p].inbox \in Seq(Calls) /\ proc[p].inbox # <<>>
      BY <1>14 DEF TakeTask, Typed, ProcState
    <3>2. /\ Head(proc[p].inbox) \in Calls
          /\ Tail(proc[p].inbox) \in Seq(Calls)
      BY <3>1
    <3>. QED
      BY <3>2 DEF Typed, ProcState
  <2>3. proc' \in [Procs -> ProcState]
    BY <2>1, <2>2, ProcTyped
  <2>4. taken' \in [Callers -> 0..2]
    <3>1. taken' = [c \in Callers |->
             IF Head(proc[p].inbox) = <<c, caller[c].n>> /\ taken[c] < 2
               THEN taken[c] + 1 ELSE taken[c]]
      BY <1>14, TakeTaskEffect
    <3>2. \A c \in Callers : taken[c] \in 0..2
      BY DEF Typed
    <3>. QED
      BY <3>1, <3>2
  <2>5. UNCHANGED <<workers, idle, busy, caller, closed>>
    BY <1>14, TakeTaskEffect
  <2>. QED
    BY <2>3, <2>4, <2>5 DEF Typed
<1>15. ASSUME NEW p \in Procs, Finish(p)
      PROVE  Typed'
  <2> DEFINE x == [proc[p] EXCEPT !.job = NoCall,
                    !.outbox = Append(proc[p].outbox,
                                 [of |-> proc[p].job, exiting |-> FALSE])]
  <2>1. proc' = [proc EXCEPT ![p] = x]
    BY <1>15 DEF Finish, Typed
  <2>2. x \in ProcState
    <3>1. [of |-> proc[p].job, exiting |-> FALSE] \in Result
      BY <1>15 DEF Finish, Typed, ProcState, Result
    <3>2. proc[p] \in ProcState
      BY DEF Typed
    <3>3. Append(proc[p].outbox, [of |-> proc[p].job, exiting |-> FALSE])
            \in Seq(Result)
      BY <3>1, <3>2 DEF ProcState
    <3>. QED
      BY <3>2, <3>3 DEF ProcState
  <2>3. proc' \in [Procs -> ProcState]
    BY <2>1, <2>2, ProcTyped
  <2>. QED
    BY <2>3, <1>15, FinishEffect DEF Typed
<1>16. ASSUME NEW p \in Procs, CudaError(p)
      PROVE  Typed'
  <2> DEFINE x == [proc[p] EXCEPT !.state = "exiting", !.job = NoCall,
                    !.outbox = Append(proc[p].outbox,
                                 [of |-> proc[p].job, exiting |-> TRUE])]
  <2>1. proc' = [proc EXCEPT ![p] = x]
    BY <1>16 DEF CudaError, Typed
  <2>2. x \in ProcState
    <3>1. [of |-> proc[p].job, exiting |-> TRUE] \in Result
      BY <1>16 DEF CudaError, Typed, ProcState, Result
    <3>2. proc[p] \in ProcState
      BY DEF Typed
    <3>3. Append(proc[p].outbox, [of |-> proc[p].job, exiting |-> TRUE])
            \in Seq(Result)
      BY <3>1, <3>2 DEF ProcState
    <3>. QED
      BY <3>2, <3>3 DEF ProcState
  <2>3. proc' \in [Procs -> ProcState]
    BY <2>1, <2>2, ProcTyped
  <2>. QED
    BY <2>3, <1>16, CudaErrorEffect DEF Typed
<1>17. ASSUME NEW p \in Procs, Exit(p)
      PROVE  Typed'
  <2> DEFINE x == [proc[p] EXCEPT !.state = "dead"]
  <2>1. proc' = [proc EXCEPT ![p] = x]
    BY <1>17 DEF Exit, Typed
  <2>2. x \in ProcState
    BY DEF Typed, ProcState
  <2>3. proc' \in [Procs -> ProcState]
    BY <2>1, <2>2, ProcTyped
  <2>. QED
    BY <2>3, <1>17, ExitEffect DEF Typed
<1>18. ASSUME NEW p \in Procs, TaskCrash(p) \/ IdleCrash(p)
      PROVE  Typed'
  <2> DEFINE x == [proc[p] EXCEPT !.state = "dead", !.job = NoCall]
  <2>1. proc' = [proc EXCEPT ![p] = x]
    BY <1>18 DEF TaskCrash, IdleCrash, Die, Typed
  <2>2. x \in ProcState
    BY DEF Typed, ProcState
  <2>3. proc' \in [Procs -> ProcState]
    BY <2>1, <2>2, ProcTyped
  <2>. QED
    BY <2>3, <1>18, CrashEffect DEF Typed
<1>19. CASE Shutdown
  <2>1. ASSUME NEW p \in Procs
        PROVE  proc'[p] \in ProcState
    <3> DEFINE k == Killed(proc[p])
    <3>1. proc[p] \in ProcState
      BY DEF Typed
    <3>2. k \in ProcState
      <4>1. <<>> \in Seq(Calls)
        OBVIOUS
      <4>. QED
        BY <3>1, <4>1 DEF Killed, ProcState
    <3> HIDE DEF k
    <3>. QED
      BY <1>19, <3>1, <3>2, ShutdownEffect DEF k
  <2>2. proc' = [p \in Procs |-> proc'[p]]
    BY <1>19 DEF Shutdown
  <2>. QED
    BY <2>1, <2>2, <1>19, ShutdownEffect DEF Typed
<1>20. CASE UNCHANGED vars
  BY <1>20 DEF vars, Typed
<1>. QED
  BY <1>1, <1>2, <1>3, <1>4, <1>5, <1>6, <1>7, <1>8, <1>9, <1>10, <1>11, <1>12,
     <1>13, <1>14, <1>15, <1>16, <1>17, <1>18, <1>19, <1>20
   DEF Next, CallerStep, ProcStep

\* The bounds.
LEMMA BoundedStep ==
  ASSUME Bounded, [Next]_vars
  PROVE  Bounded'
<1>1. ASSUME NEW c \in Callers, Begin(c)
      PROVE  Bounded'
  BY <1>1, PoolAssumption DEF Begin, bounds, Bounded
<1>2. ASSUME NEW c \in Callers, Acquire(c)
      PROVE  Bounded'
  BY <1>2, PoolAssumption DEF Acquire, bounds, Bounded
<1>3. ASSUME NEW c \in Callers, GiveUp(c)
      PROVE  Bounded'
  BY <1>3, PoolAssumption DEF GiveUp, bounds, Bounded
<1>4. ASSUME NEW c \in Callers, EmergencyBegin(c)
      PROVE  Bounded'
  BY <1>4, PoolAssumption DEF EmergencyBegin, bounds, Bounded
<1>5. ASSUME NEW c \in Callers, EmergencySpawn(c)
      PROVE  Bounded'
  BY <1>5, PoolAssumption DEF EmergencySpawn, bounds, Bounded
<1>6. ASSUME NEW c \in Callers, EmergencyFails(c)
      PROVE  Bounded'
  BY <1>6, PoolAssumption DEF EmergencyFails, bounds, Bounded
<1>7. ASSUME NEW c \in Callers, CallRefused(c)
      PROVE  Bounded'
  BY <1>7, PoolAssumption DEF CallRefused, bounds, Bounded
<1>8. ASSUME NEW c \in Callers, CallPut(c)
      PROVE  Bounded'
  BY <1>8, PoolAssumption DEF CallPut, bounds, Bounded
<1>9. ASSUME NEW c \in Callers, Receive(c)
      PROVE  Bounded'
  BY <1>9, PoolAssumption DEF Receive, bounds, Bounded
<1>10. ASSUME NEW c \in Callers, CallTimeout(c)
      PROVE  Bounded'
  BY <1>10, PoolAssumption DEF CallTimeout, bounds, Bounded
<1>11. ASSUME NEW c \in Callers, Check(c)
      PROVE  Bounded'
  BY <1>11, PoolAssumption DEF Check, bounds, Bounded
<1>12. ASSUME NEW c \in Callers, Restart(c)
      PROVE  Bounded'
  BY <1>12, PoolAssumption DEF Restart, bounds, Bounded
<1>13. ASSUME NEW c \in Callers, Return(c)
      PROVE  Bounded'
  BY <1>13, PoolAssumption DEF Return, bounds, Bounded
<1>14. ASSUME NEW p \in Procs, TakeTask(p)
      PROVE  Bounded'
  BY <1>14, PoolAssumption DEF TakeTask, bounds, Bounded
<1>15. ASSUME NEW p \in Procs, Finish(p)
      PROVE  Bounded'
  BY <1>15, PoolAssumption DEF Finish, bounds, Bounded
<1>16. ASSUME NEW p \in Procs, CudaError(p)
      PROVE  Bounded'
  BY <1>16, PoolAssumption DEF CudaError, bounds, Bounded
<1>17. ASSUME NEW p \in Procs, Exit(p)
      PROVE  Bounded'
  BY <1>17, PoolAssumption DEF Exit, bounds, Bounded
<1>18. ASSUME NEW p \in Procs, TaskCrash(p) \/ IdleCrash(p)
      PROVE  Bounded'
  BY <1>18, PoolAssumption DEF TaskCrash, IdleCrash, Bounded
<1>19. CASE Shutdown
  BY <1>19 DEF Shutdown, bounds, Bounded
<1>20. CASE UNCHANGED vars
  BY <1>20 DEF vars, Bounded
<1>. QED
  BY <1>1, <1>2, <1>3, <1>4, <1>5, <1>6, <1>7, <1>8, <1>9, <1>10, <1>11, <1>12,
     <1>13, <1>14, <1>15, <1>16, <1>17, <1>18, <1>19, <1>20
   DEF Next, CallerStep, ProcStep

-----------------------------------------------------------------------------
(* The invariant, and what it implies. *)

IInv ==
  /\ Typed /\ Bounded /\ Held /\ Alone /\ Free /\ Carried /\ Counted
  /\ Recovering /\ Known /\ Listed /\ Taken /\ Sized /\ Unsent
  /\ AtMostOnce /\ RightAnswer

LEMMA InitInv ==
  ASSUME Init
  PROVE  IInv
<1>1. /\ workers \subseteq Procs /\ Cardinality(workers) \in 1..PoolSize
      /\ \A p \in Procs : proc[p] = IF p \in workers THEN Fresh(Unused)
                                                     ELSE Unused
      /\ \A c \in Callers : caller[c] = AtRest /\ taken[c] = 0
      /\ idle = workers /\ busy = {}
  BY DEF Init
<1>2. /\ Quiet(Unused) /\ ~ Unused.flag /\ Unused.state = "dead"
      /\ Quiet(Fresh(Unused)) /\ Fresh(Unused).count = 0
  BY DEF Unused, Fresh, Quiet
<1>3. /\ AtRest.pc = "off" /\ AtRest.w = NoProc /\ AtRest.err = "none"
      /\ AtRest.got = NoCall /\ AtRest.n = 0
  BY DEF AtRest
<1>4. Typed
  <2>1. AtRest \in CallerState
    BY PoolAssumption DEF AtRest, CallerState
  <2>2. proc \in [Procs -> ProcState]
    BY FreshTyped DEF Init
  <2>3. caller \in [Callers -> CallerState]
    BY <2>1 DEF Init
  <2>4. taken \in [Callers -> 0..2]
    BY DEF Init
  <2>. QED
    BY <1>1, <2>2, <2>3, <2>4 DEF Init, Typed
<1>5. Bounded
  BY <1>1, PoolAssumption DEF Init, Bounded
<1>6. Held /\ Alone /\ Free
  BY <1>1, <1>3, PoolAssumption DEF Held, Alone, Free
<1>7. Carried
  BY <1>1, <1>2 DEF Carried
<1>8. Counted
  BY <1>1, <1>2, <1>3, PoolAssumption DEF Counted
<1>9. Recovering /\ Listed /\ Taken
  BY <1>1, <1>3 DEF Recovering, Listed, Taken
<1>10. Known /\ Sized
  BY <1>1, <1>2 DEF Known, Sized
<1>11. Unsent
  BY <1>1, <1>3 DEF Unsent, UnsentAt
<1>12. AtMostOnce /\ RightAnswer
  BY <1>1, <1>3 DEF AtMostOnce, RightAnswer
<1>. QED
  BY <1>4, <1>5, <1>6, <1>7, <1>8, <1>9, <1>10, <1>11, <1>12 DEF IInv

LEMMA NextInv ==
  ASSUME IInv, [Next]_vars
  PROVE  IInv'
<1> USE DEF IInv
<1>1. Typed' /\ Bounded'
  BY TypedStep, BoundedStep
<1>2. Held' /\ Alone' /\ Free'
  BY HeldStep, AloneStep, FreeStep
<1>3. Carried' /\ Counted' /\ Unsent'
  BY CarriedStep, CountedStep, UnsentStep
<1>4. Recovering' /\ Known' /\ Listed' /\ Taken' /\ Sized'
  BY RecoveringStep, KnownStep, ListedStep, TakenStep, SizedStep
<1>5. AtMostOnce' /\ RightAnswer'
  BY AtMostOnceStep, RightAnswerStep
<1>. QED
  BY <1>1, <1>2, <1>3, <1>4, <1>5

LEMMA Invariance == Spec => []IInv
<1>1. Init => IInv
  BY InitInv
<1>2. IInv /\ [Next]_vars => IInv'
  BY NextInv
<1>. QED
  BY <1>1, <1>2, PTL DEF Spec

\* In a queue of a process there is at most the one call of its caller.
LEMMA QueuesAreShort ==
  ASSUME Carried, NEW p \in Procs
  PROVE  Len(proc[p].inbox) + Len(proc[p].outbox) <= 1
<1>1. Len(<<>>) = 0 /\ \A r : Len(<<r>>) = 1
  OBVIOUS
<1>2. CASE Quiet(proc[p])
  BY <1>1, <1>2 DEF Quiet
<1>3. CASE \E j : Carries(proc[p], j)
  <2>1. PICK j : Carries(proc[p], j)
    BY <1>3
  <2>2. \/ proc[p].inbox = <<>> /\ proc[p].outbox = <<>>
        \/ proc[p].inbox = <<j>> /\ proc[p].outbox = <<>>
        \/ proc[p].inbox = <<>> /\ \E r : proc[p].outbox = <<r>>
    BY <2>1 DEF Carries
  <2>3. CASE proc[p].inbox = <<>> /\ proc[p].outbox = <<>>
    BY <1>1, <2>3
  <2>4. CASE proc[p].inbox = <<j>> /\ proc[p].outbox = <<>>
    BY <1>1, <2>4
  <2>5. CASE proc[p].inbox = <<>> /\ \E r : proc[p].outbox = <<r>>
    BY <1>1, <2>5
  <2>. QED
    BY <2>2, <2>3, <2>4, <2>5
<1>. QED
  BY <1>2, <1>3 DEF Carried

\* Whatever the callers, the processes and the faults: the types are right, a
\* caller holds a worker exactly while it needs one, and the two queues of a
\* process never hold more than one call (worker/subprocess_pool.py,
\* PersistentWorker and SubprocessWorkerPool.execute_task).
THEOREM TypeCorrect == Spec => []TypeOK
<1>1. IInv => TypeOK
  BY QueuesAreShort DEF IInv, Typed, Bounded, Held, TypeOK
<1>. QED
  BY <1>1, Invariance, PTL

\* A worker is never in the hands of two callers, nor idle while it is in the
\* hands of one (SubprocessWorkerPool._get_idle_worker, _restart_worker,
\* _return_worker).
THEOREM ExclusiveCorrect == Spec => []Exclusive
<1>1. IInv => Exclusive
  <2>1. SUFFICES ASSUME Held, Alone, Free, Taken
                 PROVE  Exclusive
    BY DEF IInv
  <2>2. \A c \in Holding :
          c \in Callers /\ caller[c].pc \in {"call", "wait", "done"}
    BY DEF Holding
  <2>3. \A c \in Holding : caller[c].w # NoProc
    BY <2>1, <2>2 DEF Held
  <2>. QED
    BY <2>1, <2>2, <2>3 DEF Alone, Free, Taken, Exclusive
<1>. QED
  BY <1>1, Invariance, PTL

\* Whatever restarts, failed restarts and emergency recoveries there are, no
\* live subprocess is unknown to the pool and there are at most pool_size.
THEOREM BoundedCorrect == Spec => []LiveIsBounded
<1>1. IInv => LiveIsBounded
  BY DEF IInv, Known, Sized, Live, LiveIsBounded
<1>. QED
  BY <1>1, Invariance, PTL

\* However often a call is retried, its task is taken by a subprocess once
\* (execute_task: "timeout errors are NOT retried").
THEOREM OnceCorrect == Spec => []AtMostOnce
<1>1. IInv => AtMostOnce
  BY DEF IInv
<1>. QED
  BY <1>1, Invariance, PTL

\* However late an answer comes, the result a call receives is that of its own
\* task (PersistentWorker.execute_task).
THEOREM AnswerCorrect == Spec => []RightAnswer
<1>1. IInv => RightAnswer
  BY DEF IInv
<1>. QED
  BY <1>1, Invariance, PTL

-----------------------------------------------------------------------------
(* The contract.  What a call has come to says whether its task was begun. *)

\* What a process works on or has answered was begun, and so was what a caller has
\* got; a call is over its rounds, or in one that has met no error before the call.
Begun(x) == x.job # NoCall \/ x.outbox # <<>>
RanAt(c) ==
  /\ caller[c].pc \in {"wait", "restart"} /\ Begun(proc[caller[c].w]) => taken[c] # 0
  /\ caller[c].got # NoCall => taken[c] # 0
  /\ caller[c].pc \in {"get", "recover", "call", "wait", "done"} => caller[c].err = "none"
  /\ caller[c].pc \in {"done", "restart", "return"} /\ caller[c].err = "none" =>
       caller[c].got # NoCall
  /\ caller[c].pc # "off" => caller[c].err # "failed"
Ran == \A c \in Callers : RanAt(c)

\* The ends of a round.
LEMMA RoundTurns ==
  ASSUME Typed, NEW c \in Callers, caller' = [caller EXCEPT ![c] = NextRound(caller[c])]
  PROVE  /\ Stays(c) /\ Keeps(c)
         /\ \/ caller'[c].pc = "get" /\ caller'[c].err = "none"
            \/ caller'[c].pc = "off" /\ caller'[c].err = "failed"
<1>1. /\ Stays(c) /\ caller[c] \in CallerState
      /\ caller'[c] = NextRound(caller[c])
  BY CallerUpdate
<1>2. LET y == NextRound(caller[c])
      IN  \/ y.pc = "get" /\ y.err = "none"
          \/ y.pc = "off" /\ y.err = "failed"
  BY <1>1 DEF CallerState, NextRound
<1>. QED
  BY <1>1, <1>2, RoundFields DEF Keeps

\* What a caller returns with: another round after a refusal, else what it has.
LEMMA ReturnTurns ==
  ASSUME Typed, NEW c \in Callers, Return(c)
  PROVE  /\ caller[c].pc = "return" /\ Stays(c) /\ Keeps(c)
         /\ UNCHANGED <<proc, taken>>
         /\ \/ /\ caller[c].err = "broken"
               /\ \/ caller'[c].pc = "get" /\ caller'[c].err = "none"
                  \/ caller'[c].pc = "off" /\ caller'[c].err = "failed"
            \/ /\ caller[c].err # "broken"
               /\ caller'[c].pc = "off" /\ caller'[c].err = caller[c].err
<1>1. caller[c].pc = "return" /\ UNCHANGED <<proc, taken>>
  BY DEF Return
<1>2. CASE caller[c].err = "broken"
  <2>1. caller' = [caller EXCEPT ![c] = NextRound(caller[c])]
    BY <1>2 DEF Return
  <2>. QED
    BY <1>1, <1>2, <2>1, RoundTurns
<1>3. CASE caller[c].err # "broken"
  <2>1. caller' = [caller EXCEPT ![c] = [caller[c] EXCEPT !.pc = "off",
                                                          !.w = NoProc]]
    BY <1>3 DEF Return
  <2>2. /\ Stays(c) /\ caller[c] \in CallerState
        /\ caller'[c] = [caller[c] EXCEPT !.pc = "off", !.w = NoProc]
    BY <2>1, CallerUpdate
  <2>. QED
    BY <1>1, <1>3, <2>2, CallerFields DEF Keeps
<1>. QED
  BY <1>2, <1>3

LEMMA FailsTurns ==
  ASSUME Typed, NEW c \in Callers, EmergencyFails(c)
  PROVE  /\ caller[c].pc = "recover" /\ Stays(c) /\ Keeps(c)
         /\ UNCHANGED <<proc, taken>>
         /\ \/ caller'[c].pc = "get" /\ caller'[c].err \in {caller[c].err, "none"}
            \/ caller'[c].pc = "off" /\ caller'[c].err = "failed"
<1>1. caller[c].pc = "recover" /\ UNCHANGED <<proc, taken>>
  BY DEF EmergencyFails
<1>2. CASE caller' = [caller EXCEPT ![c] = [caller[c] EXCEPT !.pc = "get"]]
  <2>1. /\ Stays(c) /\ caller[c] \in CallerState
        /\ caller'[c] = [caller[c] EXCEPT !.pc = "get"]
    BY <1>2, CallerUpdate
  <2>. QED
    BY <1>1, <2>1, CallerFields DEF Keeps
<1>3. CASE caller' = [caller EXCEPT ![c] = NextRound(caller[c])]
  BY <1>1, <1>3, RoundTurns
<1>. QED
  BY <1>2, <1>3 DEF EmergencyFails, Typed

LEMMA GiveUpTurns ==
  ASSUME Typed, NEW c \in Callers, GiveUp(c)
  PROVE  /\ caller[c].pc = "get" /\ Stays(c) /\ Keeps(c)
         /\ UNCHANGED <<proc, taken>>
         /\ \/ caller'[c].pc = "get" /\ caller'[c].err = "none"
            \/ caller'[c].pc = "off" /\ caller'[c].err = "failed"
BY RoundTurns DEF GiveUp

LEMMA RanBut ==
  ASSUME Ran, NEW c \in Callers, Stays(c), RanAt(c)',
         \A d \in Callers : d # c =>
           /\ taken'[d] = taken[d]
           /\ caller[d].pc \in {"wait", "restart"} =>
                proc'[caller[d].w] = proc[caller[d].w]
  PROVE  Ran'
<1>1. ASSUME NEW d \in Callers, d # c
      PROVE  RanAt(d)'
  BY <1>1 DEF Ran, RanAt, Begun, Stays
<1>. QED
  BY <1>1 DEF Ran

\* A step of a process p that begins nothing for anybody.
LEMMA RanProc ==
  ASSUME Ran, NEW p \in Procs, Others(p), UNCHANGED <<caller, taken>>,
         Begun(proc'[p]) => Begun(proc[p]),
         \A d \in Callers : caller[d].pc \in {"wait", "restart"} => caller[d].w \in Procs
  PROVE  Ran'
<1>1. \A q \in Procs : Begun(proc'[q]) => Begun(proc[q])
  BY DEF Others
<1>. QED
  BY <1>1 DEF Ran, RanAt

LEMMA RanStep ==
  ASSUME Typed, Ran, Alone, Held, Carried, [Next]_vars
  PROVE  Ran'
<1>a. \A d \in Callers :
        caller[d].pc \in {"call", "wait", "restart", "return"} =>
          caller[d].w \in Procs
  BY HeldProc
<1>b. \A d \in Callers : RanAt(d)
  BY DEF Ran
<1>c. ASSUME NEW c \in Callers, NEW d \in Callers, d # c,
             caller[c].w \in Procs
      PROVE  caller[d].w # caller[c].w
  BY <1>c, PoolAssumption DEF Alone
<1>1. ASSUME NEW c \in Callers, Begin(c)
      PROVE  Ran'
  <2>1. /\ Turns(c, "get", NoProc, "none") /\ UNCHANGED proc
        /\ caller'[c].got = NoCall
        /\ taken' = [taken EXCEPT ![c] = 0]
    BY <1>1, BeginEffect
  <2>2. taken'[c] = 0 /\ \A d \in Callers : d # c => taken'[d] = taken[d]
    BY <2>1 DEF Typed
  <2>3. RanAt(c)'
    BY <2>1, <2>2 DEF Turns, RanAt
  <2>. QED
    BY <2>1, <2>2, <2>3, RanBut DEF Turns
<1>2. ASSUME NEW c \in Callers, Acquire(c) \/ EmergencyBegin(c)
      PROVE  Ran'
  <2>1. /\ Stays(c) /\ Keeps(c) /\ UNCHANGED <<proc, taken>>
        /\ caller[c].pc = "get" /\ caller'[c].pc \in {"call", "recover"}
        /\ caller'[c].err = caller[c].err
    BY <1>2, AcquireEffect, EmergencyBeginEffect DEF Turns
  <2>2. RanAt(c)'
    BY <1>b, <2>1 DEF RanAt, Keeps
  <2>. QED
    BY <2>1, <2>2, RanBut
<1>3. ASSUME NEW c \in Callers, GiveUp(c)
      PROVE  Ran'
  <2>1. RanAt(c)'
    BY <1>b, <1>3, GiveUpTurns DEF RanAt, Keeps
  <2>. QED
    BY <1>3, <2>1, GiveUpTurns, RanBut
<1>4. ASSUME NEW c \in Callers, EmergencyFails(c)
      PROVE  Ran'
  <2>1. RanAt(c)'
    BY <1>b, <1>4, FailsTurns DEF RanAt, Keeps
  <2>. QED
    BY <1>4, <2>1, FailsTurns, RanBut
<1>5. ASSUME NEW c \in Callers, EmergencySpawn(c)
      PROVE  Ran'
  <2>1. PICK p \in Spare :
          /\ caller[c].pc = "recover" /\ Stays(c) /\ Others(p) /\ Keeps(c)
          /\ caller'[c].pc = "call" /\ caller'[c].err = caller[c].err
          /\ UNCHANGED taken
    BY <1>5, EmergencySpawnEffect DEF Turns
  <2>2. RanAt(c)'
    BY <1>b, <2>1 DEF RanAt, Keeps
  <2>3. \A d \in Callers :
          caller[d].pc \in {"wait", "restart"} => proc'[caller[d].w] = proc[caller[d].w]
    BY <1>a, <2>1 DEF Others, Spare, Unreferenced
  <2>. QED
    BY <2>1, <2>2, <2>3, RanBut
<1>6. ASSUME NEW c \in Callers, CallRefused(c)
      PROVE  Ran'
  <2>1. /\ caller[c].pc = "call" /\ Turns(c, "restart", caller[c].w, "broken")
        /\ Keeps(c) /\ UNCHANGED <<proc, taken>>
    BY <1>6, CallRefusedEffect
  <2>2. Quiet(proc[caller[c].w])
    BY <1>a, <2>1, CarriesMine
  <2>3. RanAt(c)'
    BY <1>b, <2>1, <2>2 DEF Turns, RanAt, Keeps, Begun, Quiet
  <2>. QED
    BY <2>1, <2>3, RanBut DEF Turns
<1>7. ASSUME NEW c \in Callers, CallPut(c)
      PROVE  Ran'
  <2> DEFINE p == caller[c].w
  <2>1. /\ caller[c].pc = "call" /\ Turns(c, "wait", p, caller[c].err)
        /\ Others(p) /\ Keeps(c)
        /\ p \in Procs /\ UNCHANGED taken
    BY <1>7, CallPutEffect
  <2>2. proc'[p].job = proc[p].job /\ proc'[p].outbox = proc[p].outbox
    BY <1>7, CallPutFields
  <2>3. Quiet(proc[p])
    BY <2>1, CarriesMine
  <2>4. RanAt(c)'
    BY <1>b, <2>1, <2>2, <2>3 DEF Turns, RanAt, Keeps, Begun, Quiet
  <2>5. \A d \in Callers : d # c =>
          /\ taken'[d] = taken[d]
          /\ caller[d].pc \in {"wait", "restart"} =>
               proc'[caller[d].w] = proc[caller[d].w]
    BY <1>a, <1>c, <2>1 DEF Others
  <2>. QED
    BY <2>1, <2>4, <2>5, RanBut DEF Turns
<1>8. ASSUME NEW c \in Callers, Receive(c)
      PROVE  Ran'
  <2> DEFINE p == caller[c].w
             r == Head(proc[p].outbox)
  <2>1. /\ caller[c].pc = "wait" /\ Turns(c, "done", p, caller[c].err)
        /\ proc[p].outbox # <<>> /\ caller'[c].got = r.of
        /\ Others(p) /\ p \in Procs /\ UNCHANGED taken
    BY <1>8, ReceiveEffect
  <2>2. r.of # NoCall
    <3>1. proc[p].outbox \in Seq(Result)
      BY <2>1 DEF Typed, ProcState
    <3>2. r \in Result
      BY <2>1, <3>1
    <3>. QED
      BY <3>2, PoolAssumption DEF Result, Calls
  <2>3. taken[c] # 0 /\ caller[c].err = "none"
    BY <1>b, <2>1 DEF RanAt, Begun
  <2> HIDE DEF r
  <2>4. RanAt(c)'
    BY <2>1, <2>2, <2>3 DEF Turns, RanAt
  <2>5. \A d \in Callers : d # c =>
          /\ taken'[d] = taken[d]
          /\ caller[d].pc \in {"wait", "restart"} =>
               proc'[caller[d].w] = proc[caller[d].w]
    BY <1>a, <1>c, <2>1 DEF Others
  <2>. QED
    BY <2>1, <2>4, <2>5, RanBut DEF Turns
<1>9. ASSUME NEW c \in Callers, CallTimeout(c)
      PROVE  Ran'
  <2> DEFINE p == caller[c].w
  <2>1. /\ caller[c].pc = "wait" /\ Turns(c, "restart", p, "timeout")
        /\ Others(p) /\ Keeps(c)
        /\ p \in Procs /\ UNCHANGED taken
    BY <1>9, CallTimeoutEffect
  <2>2. proc'[p].job = proc[p].job /\ proc'[p].outbox = proc[p].outbox
    BY <1>9, CallTimeoutFields
  <2>3. RanAt(c)'
    BY <1>b, <2>1, <2>2 DEF Turns, RanAt, Keeps, Begun
  <2>4. \A d \in Callers : d # c =>
          /\ taken'[d] = taken[d]
          /\ caller[d].pc \in {"wait", "restart"} =>
               proc'[caller[d].w] = proc[caller[d].w]
    BY <1>a, <1>c, <2>1 DEF Others
  <2>. QED
    BY <2>1, <2>3, <2>4, RanBut DEF Turns
<1>10. ASSUME NEW c \in Callers, Check(c)
      PROVE  Ran'
  <2>1. /\ Stays(c) /\ UNCHANGED <<proc, taken>> /\ Keeps(c)
        /\ caller[c].pc = "done" /\ caller'[c].pc \in {"return", "restart"}
        /\ caller'[c].err = caller[c].err /\ caller'[c].w = caller[c].w
    BY <1>10, CheckEffect DEF Turns
  <2>2. RanAt(c)'
    BY <1>b, <2>1 DEF RanAt, Keeps
  <2>. QED
    BY <2>1, <2>2, RanBut
<1>11. ASSUME NEW c \in Callers, Restart(c)
      PROVE  Ran'
  <2> DEFINE old == caller[c].w
  <2>1. /\ caller[c].pc = "restart" /\ Turns(c, "return", old, caller[c].err)
        /\ old \in Procs /\ UNCHANGED taken /\ Keeps(c)
        /\ \/ Others(old)
           \/ \E p \in Spare :
                \A q \in Procs : q \notin {old, p} => proc'[q] = proc[q]
    BY <1>11, RestartEffect
  <2>2. RanAt(c)'
    BY <1>b, <2>1 DEF Turns, RanAt, Keeps
  <2>3. \A d \in Callers :
          d # c /\ caller[d].pc \in {"wait", "restart"} =>
            proc'[caller[d].w] = proc[caller[d].w]
    BY <1>a, <1>c, <2>1 DEF Others, Spare, Unreferenced
  <2>. QED
    BY <2>1, <2>2, <2>3, RanBut DEF Turns
<1>12. ASSUME NEW c \in Callers, Return(c)
      PROVE  Ran'
  <2>1. RanAt(c)'
    BY <1>b, <1>12, ReturnTurns DEF RanAt, Keeps
  <2>. QED
    BY <1>12, <2>1, ReturnTurns, RanBut
<1>13. ASSUME NEW p \in Procs, TakeTask(p)
      PROVE  Ran'
  <2>1. /\ Others(p) /\ UNCHANGED caller /\ proc[p].inbox # <<>>
        /\ taken' = [c \in Callers |->
             IF Head(proc[p].inbox) = <<c, caller[c].n>> /\ taken[c] < 2
               THEN taken[c] + 1 ELSE taken[c]]
    BY <1>13, TakeTaskEffect
  <2>2. PICK d \in Callers : caller[d].w = p /\ Head(proc[p].inbox) = Mine(d)
    <3>1. PICK d \in Callers : caller[d].w = p /\ proc[p].inbox = <<Mine(d)>>
      BY <2>1 DEF Carried, Quiet, Carries
    <3>2. Head(<<Mine(d)>>) = Mine(d)
      OBVIOUS
    <3>. QED
      BY <3>1, <3>2
  <2>3. taken'[d] # 0
    BY <2>1, <2>2 DEF Mine, Typed
  <2>4. RanAt(d)'
    BY <1>b, <2>1, <2>3 DEF RanAt
  <2>5. ASSUME NEW e \in Callers, e # d
        PROVE  /\ taken'[e] = taken[e]
               /\ caller[e].pc \in {"wait", "restart"} =>
                    proc'[caller[e].w] = proc[caller[e].w]
    BY <1>a, <1>c, <2>1, <2>2, <2>5 DEF Mine, Others
  <2>. QED
    BY <2>1, <2>4, <2>5, RanBut DEF Stays
<1>14. ASSUME NEW p \in Procs, Finish(p) \/ CudaError(p)
      PROVE  Ran'
  <2>1. /\ Others(p) /\ UNCHANGED <<caller, taken>> /\ Begun(proc[p])
    BY <1>14, FinishEffect, CudaErrorEffect DEF Begun
  <2>. QED
    BY <1>a, <2>1, RanProc
<1>15. ASSUME NEW p \in Procs, Exit(p) \/ TaskCrash(p) \/ IdleCrash(p)
      PROVE  Ran'
  <2>1. Others(p) /\ UNCHANGED <<caller, taken>>
    BY <1>15, ExitEffect, CrashEffect
  <2>2. proc'[p].job \in {proc[p].job, NoCall} /\ proc'[p].outbox = proc[p].outbox
    BY <1>15, ExitFields, CrashFields
  <2>. QED
    BY <1>a, <2>1, <2>2, RanProc DEF Begun
<1>16. CASE Shutdown
  <2>1. UNCHANGED <<caller, taken>>
    BY <1>16, ShutdownEffect
  <2>2. \A p \in Procs : Begun(proc'[p]) => Begun(proc[p])
    BY <1>16, ShutdownFields DEF Begun
  <2>. QED
    BY <1>a, <2>1, <2>2 DEF Ran, RanAt
<1>17. CASE UNCHANGED vars
  BY <1>17 DEF vars, Ran, RanAt
<1>. QED
  BY <1>1, <1>2, <1>3, <1>4, <1>5, <1>6, <1>7, <1>8, <1>9, <1>10, <1>11, <1>12,
     <1>13, <1>14, <1>15, <1>16, <1>17
   DEF Next, CallerStep, ProcStep

LEMMA RanInit ==
  ASSUME Init
  PROVE  Ran
<1>1. \A c \in Callers : caller[c] = AtRest
  BY DEF Init
<1>2. AtRest.pc = "off" /\ AtRest.got = NoCall
  BY DEF AtRest
<1>. QED
  BY <1>1, <1>2 DEF Ran, RanAt

\* A step of c, or of nobody, seen from the contract.
LEMMA StandingsMove ==
  ASSUME NEW c \in Callers, Stays(c)
  PROVE  Standings' = [Standings EXCEPT ![c] = Standing(c)']
<1>1. \A d \in Callers : d # c => Standing(d)' = Standing(d)
  BY DEF Stays, Standing
<1>2. Standings' = [d \in Callers |-> Standing(d)']
  BY DEF Standings
<1> HIDE DEF Standing
<1>. QED
  BY <1>1, <1>2 DEF Standings

LEMMA StandingOpen ==
  ASSUME Typed, NEW c \in Callers
  PROVE  /\ Standings[c] = Standing(c)
         /\ Standing(c) = "open" <=> caller[c].pc # "off"
         /\ caller'[c].pc # "off" => Standing(c)' = "open"
         /\ caller'[c].pc = "off" /\ caller'[c].err = "failed" => Standing(c)' = "failed"
         /\ caller'[c].pc = "off" /\ caller'[c].err = "timeout" => Standing(c)' = "timeout"
         /\ (/\ caller'[c].pc = "off" /\ caller'[c].err = "none"
             /\ caller'[c].got = Mine(c)' /\ caller'[c].got # NoCall)
            => Standing(c)' = "result"
<1>1. Standings[c] = Standing(c)
  BY DEF Standings
<1>2. caller[c].pc # "off" => Standing(c) = "open"
  BY DEF Standing
<1>3. ASSUME caller[c].pc = "off"
      PROVE  Standing(c) # "open"
  <2>1. caller[c].err \in {"none", "broken", "timeout", "failed"}
    BY DEF Typed, CallerState
  <2>2. CASE caller[c].err = "none"
    BY <1>3, <2>2 DEF Standing
  <2>3. CASE caller[c].err # "none"
    <3>1. Standing(c) = caller[c].err
      BY <1>3, <2>3 DEF Standing
    <3>. QED
      BY <2>1, <3>1
  <2>. QED
    BY <2>2, <2>3
<1>4. caller'[c].pc # "off" => Standing(c)' = "open"
  BY DEF Standing
<1>5. caller'[c].pc = "off" /\ caller'[c].err # "none" => Standing(c)' = caller'[c].err
  BY DEF Standing
<1>6. ASSUME caller'[c].pc = "off", caller'[c].err = "none",
             caller'[c].got = Mine(c)', caller'[c].got # NoCall
      PROVE  Standing(c)' = "result"
  BY <1>6 DEF Standing, Mine
<1>. QED
  BY <1>1, <1>2, <1>3, <1>4, <1>5, <1>6

\* A call that goes on, or nothing that a caller sees.
LEMMA ContractStutter ==
  ASSUME Typed, NEW c \in Callers, Stays(c), UNCHANGED taken,
         caller[c].pc # "off", caller'[c].pc # "off"
  PROVE  UNCHANGED Contract!pvars
<1>1. Standings \in [Callers -> {Standing(d) : d \in Callers}]
  BY DEF Standings
<1>2. Standings' = Standings
  BY <1>1, StandingsMove, StandingOpen
<1>. QED
  BY <1>2 DEF Contract!pvars

\* A call that ends.
LEMMA ContractEnds ==
  ASSUME Typed, NEW c \in Callers, Stays(c), UNCHANGED taken, caller[c].pc # "off",
         \/ Standing(c)' = "timeout"
         \/ Standing(c)' = "failed" /\ taken[c] = 0
         \/ Standing(c)' = "result" /\ taken[c] = 1
  PROVE  Contract!PNext
<1>1. /\ Standings[c] = "open"
      /\ Standings' = [Standings EXCEPT ![c] = Standing(c)']
  BY StandingsMove, StandingOpen
<1>2. Contract!TimeOut(c) \/ Contract!Fail(c) \/ Contract!GiveResult(c)
  BY <1>1 DEF Contract!TimeOut, Contract!Fail, Contract!GiveResult, Contract!End
<1>. QED
  BY <1>2 DEF Contract!PNext

LEMMA ContractStep ==
  ASSUME IInv, IInv', Ran, [Next]_vars
  PROVE  [Contract!PNext]_(Contract!pvars)
<1> USE DEF IInv
<1>a. ASSUME UNCHANGED <<caller, taken>>
      PROVE  UNCHANGED Contract!pvars
  BY <1>a DEF Contract!pvars, Standings, Standing
<1>b. ASSUME NEW c \in Callers, Stays(c), UNCHANGED taken,
             caller[c].pc \in {"get", "recover"},
             \/ caller'[c].pc # "off"
             \/ caller'[c].pc = "off" /\ caller'[c].err = "failed"
      PROVE  [Contract!PNext]_(Contract!pvars)
  <2>1. taken[c] = 0
    BY <1>b DEF Unsent, UnsentAt
  <2>2. CASE caller'[c].pc # "off"
    BY <1>b, <2>2, ContractStutter
  <2>3. CASE caller'[c].pc = "off" /\ caller'[c].err = "failed"
    BY <1>b, <2>1, <2>3, StandingOpen, ContractEnds
  <2>. QED
    BY <1>b, <2>2, <2>3
<1>1. ASSUME NEW c \in Callers, Begin(c)
      PROVE  [Contract!PNext]_(Contract!pvars)
  <2>1. /\ caller[c].pc = "off" /\ Stays(c) /\ caller'[c].pc = "get"
        /\ taken' = [taken EXCEPT ![c] = 0]
    BY <1>1, BeginEffect DEF Turns
  <2>2. /\ Standings[c] # "open"
        /\ Standings' = [Standings EXCEPT ![c] = "open"]
    BY <2>1, StandingsMove, StandingOpen
  <2>3. Contract!Make(c)
    BY <2>1, <2>2 DEF Contract!Make
  <2>. QED
    BY <2>3 DEF Contract!PNext
<1>2. ASSUME NEW c \in Callers, GiveUp(c)
      PROVE  [Contract!PNext]_(Contract!pvars)
  <2>1. /\ Stays(c) /\ UNCHANGED taken /\ caller[c].pc = "get"
        /\ caller'[c].pc = "get" \/ (caller'[c].pc = "off" /\ caller'[c].err = "failed")
    BY <1>2, GiveUpTurns
  <2>. QED
    BY <1>b, <2>1
<1>3. ASSUME NEW c \in Callers, EmergencyFails(c)
      PROVE  [Contract!PNext]_(Contract!pvars)
  <2>1. /\ Stays(c) /\ UNCHANGED taken /\ caller[c].pc = "recover"
        /\ caller'[c].pc = "get" \/ (caller'[c].pc = "off" /\ caller'[c].err = "failed")
    BY <1>3, FailsTurns
  <2>. QED
    BY <1>b, <2>1
<1>4. ASSUME NEW c \in Callers, Acquire(c) \/ EmergencyBegin(c) \/ EmergencySpawn(c)
      PROVE  [Contract!PNext]_(Contract!pvars)
  <2>1. /\ Stays(c) /\ UNCHANGED taken
        /\ caller[c].pc # "off" /\ caller'[c].pc # "off"
    BY <1>4, AcquireEffect, EmergencyBeginEffect, EmergencySpawnEffect DEF Turns
  <2>. QED
    BY <2>1, ContractStutter
<1>5. ASSUME NEW c \in Callers,
             CallRefused(c) \/ CallPut(c) \/ Receive(c) \/ CallTimeout(c)
      PROVE  [Contract!PNext]_(Contract!pvars)
  <2>1. /\ Stays(c) /\ UNCHANGED taken
        /\ caller[c].pc # "off" /\ caller'[c].pc # "off"
    BY <1>5, CallRefusedEffect, CallPutEffect, ReceiveEffect, CallTimeoutEffect DEF Turns
  <2>. QED
    BY <2>1, ContractStutter
<1>6. ASSUME NEW c \in Callers, Check(c) \/ Restart(c)
      PROVE  [Contract!PNext]_(Contract!pvars)
  <2>1. /\ Stays(c) /\ UNCHANGED taken
        /\ caller[c].pc # "off" /\ caller'[c].pc # "off"
    BY <1>6, CheckEffect, RestartEffect DEF Turns
  <2>. QED
    BY <2>1, ContractStutter
<1>7. ASSUME NEW c \in Callers, Return(c)
      PROVE  [Contract!PNext]_(Contract!pvars)
  <2>1. /\ caller[c].pc = "return" /\ Stays(c) /\ Keeps(c) /\ UNCHANGED taken
        /\ \/ /\ caller[c].err = "broken"
              /\ \/ caller'[c].pc = "get"
                 \/ caller'[c].pc = "off" /\ caller'[c].err = "failed"
           \/ /\ caller[c].err # "broken"
              /\ caller'[c].pc = "off" /\ caller'[c].err = caller[c].err
    BY <1>7, ReturnTurns
  <2>2. CASE caller'[c].pc = "get"
    BY <2>1, <2>2, ContractStutter
  <2>3. CASE caller[c].err = "broken" /\ caller'[c].pc = "off" /\ caller'[c].err = "failed"
    <3>1. taken[c] = 0
      BY <2>3 DEF Unsent, UnsentAt
    <3>. QED
      BY <2>1, <2>3, <3>1, StandingOpen, ContractEnds
  <2>4. CASE /\ caller[c].err # "broken" /\ caller'[c].pc = "off"
             /\ caller'[c].err = caller[c].err
    <3>1. caller[c].err \in {"none", "timeout"}
      BY <2>1, <2>4 DEF Ran, RanAt, Typed, CallerState
    <3>2. CASE caller[c].err = "timeout"
      BY <2>1, <2>4, <3>2, StandingOpen, ContractEnds
    <3>3. CASE caller[c].err = "none"
      <4>1. caller[c].got # NoCall /\ taken[c] # 0
        BY <2>1, <3>3 DEF Ran, RanAt
      <4>2. caller'[c].got # NoCall /\ caller'[c].got = Mine(c)'
        BY <2>1, <4>1 DEF Keeps, Mine, RightAnswer
      <4>3. taken[c] = 1
        BY <4>1 DEF AtMostOnce, Typed
      <4>. QED
        BY <2>1, <2>4, <3>3, <4>2, <4>3, StandingOpen, ContractEnds
    <3>. QED
      BY <3>1, <3>2, <3>3
  <2>. QED
    BY <2>1, <2>2, <2>3, <2>4
<1>8. ASSUME NEW p \in Procs, TakeTask(p)
      PROVE  [Contract!PNext]_(Contract!pvars)
  <2>1. /\ UNCHANGED caller /\ proc[p].inbox # <<>>
        /\ taken' = [c \in Callers |->
             IF Head(proc[p].inbox) = <<c, caller[c].n>> /\ taken[c] < 2
               THEN taken[c] + 1 ELSE taken[c]]
    BY <1>8, TakeTaskEffect
  <2>2. PICK d \in Callers : /\ caller[d].w = p /\ proc[p].inbox = <<Mine(d)>>
                             /\ caller[d].pc \in {"wait", "restart"}
    BY <2>1 DEF Carried, Quiet, Carries
  <2>3. Head(proc[p].inbox) = Mine(d)
    BY <2>2
  <2>4. taken[d] = 0
    BY <2>1, <2>2 DEF Unsent, UnsentAt
  <2>5. taken' = [taken EXCEPT ![d] = 1]
    <3>1. \A e \in Callers : Mine(d) = <<e, caller[e].n>> <=> e = d
      BY DEF Mine
    <3>2. taken' = [e \in Callers |-> IF e = d THEN 1 ELSE taken[e]]
      BY <2>1, <2>3, <2>4, <3>1
    <3>. QED
      BY <3>2 DEF Typed
  <2>6. Standings' = Standings /\ Standings[d] = "open"
    BY <2>1, <2>2, StandingOpen DEF Standings, Standing
  <2>7. Contract!Run(d)
    BY <2>4, <2>5, <2>6 DEF Contract!Run
  <2>. QED
    BY <2>7 DEF Contract!PNext
<1>9. ASSUME NEW p \in Procs,
             Finish(p) \/ CudaError(p) \/ Exit(p) \/ TaskCrash(p) \/ IdleCrash(p)
      PROVE  [Contract!PNext]_(Contract!pvars)
  BY <1>a, <1>9, FinishEffect, CudaErrorEffect, ExitEffect, CrashEffect
<1>10. CASE Shutdown
  BY <1>a, <1>10, ShutdownEffect
<1>11. CASE UNCHANGED vars
  BY <1>a, <1>11 DEF vars
<1>. QED
  BY <1>1, <1>2, <1>3, <1>4, <1>5, <1>6, <1>7, <1>8, <1>9, <1>10, <1>11
   DEF Next, CallerStep, ProcStep

\* Whatever retries, kills, restarts, late answers and shutdowns there are, to the
\* worker that awaits it a call does what PoolContract promises: its task is begun
\* once at most and never after the call has ended, a result was computed for it, and
\* a failure means that it was never begun (SubprocessWorkerPool.execute_task).
THEOREM ContractCorrect == Spec => ContractKept
<1>1. Init => Contract!PInit
  <2>1. ASSUME Init
        PROVE  Standings = [c \in Callers |-> "none"]
    <3>1. \A c \in Callers : caller[c] = AtRest
      BY <2>1 DEF Init
    <3>2. AtRest.pc = "off" /\ AtRest.err = "none" /\ AtRest.got = NoCall
      BY DEF AtRest
    <3>3. \A c \in Callers : Standing(c) = "none"
      BY <3>1, <3>2 DEF Standing
    <3>. QED
      BY <3>3 DEF Standings
  <2>. QED
    BY <2>1 DEF Init, Contract!PInit
<1>2. Init => Ran
  BY RanInit
<1>3. IInv /\ Ran /\ [Next]_vars => Ran'
  BY RanStep DEF IInv
<1>4. IInv /\ IInv' /\ Ran /\ [Next]_vars => [Contract!PNext]_(Contract!pvars)
  BY ContractStep
<1>. QED
  BY <1>1, <1>2, <1>3, <1>4, Invariance, PTL DEF Spec, ContractKept, Contract!PSpec
=============================================================================
