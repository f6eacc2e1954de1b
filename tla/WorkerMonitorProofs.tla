------------------------ MODULE WorkerMonitorProofs ------------------------
(* Theorems about the worker monitor, for every value of its constants. *)
EXTENDS WorkerMonitor, SequenceTheorems, FiniteSetTheorems, TLAPS

(* The types, with what makes them last: a process that runs belongs to a
   worker, one that is on a task may still finish one more, the restart loop
   serves a worker and knows the process it started for it. *)

ProcStates == [of : Workers \cup {NoWorker},
               state : {"boot", "init", "up", "none", "zombie", "gone"},
               beats : BOOLEAN, busy : BOOLEAN, stuck : BOOLEAN, kid : BOOLEAN,
               since : 0..(TaskCeiling + InitCeiling), done : 0..MaxDone]
KeyStates == [there : BOOLEAN, age : 0..KeyTTL, flag : BOOLEAN,
              online : {"initializing", "true", "false"},
              busy : BOOLEAN, done : 0..MaxDone]
SeenStates == [known : BOOLEAN, done : 0..MaxDone, stale : BOOLEAN,
               since : 0..(ProgressTimeout + 1)]
PassStates == [pc : {"rest", "check", "expect", "slept"},
               todo : SUBSET Workers, there : SUBSET Workers,
               expected : SUBSET Expected]
LoopStates == [pc : {"idle", "kill", "spawn", "note", "clear", "wait", "cool"},
               of : Workers \cup {NoWorker}, p : Procs \cup {NoProc},
               wait : 0..(InitWait + Cooldown)]

Sane(x) == /\ x \in ProcStates
           /\ x.stuck => x.busy
           /\ x.beats \/ x.busy => x.state = "up"
           /\ x.busy => x.done < MaxDone
           /\ x.state \in Running => x.of \in Workers

ProcsOK == proc \in [Procs -> ProcStates] /\ \A p \in Procs : Sane(proc[p])
KeyOK == key \in [Workers -> KeyStates]
PidOK == /\ pid \in [Workers -> Procs \cup {NoProc}]
         /\ \A w \in Workers : pid[w] # NoProc => proc[pid[w]].of = w
SeenOK == seen \in [Workers -> SeenStates]
QueueOK == queue \in Seq(Workers) /\ marked \subseteq Workers
LoopOK == /\ loop \in LoopStates
          /\ loop.pc # "idle" => loop.of \in Workers
          /\ loop.pc = "note" => loop.p \in Procs /\ proc[loop.p].of = loop.of
FaultOK == faults \in [Kinds -> Nat] /\ overran \in BOOLEAN

IInv == /\ ProcsOK /\ KeyOK /\ PidOK /\ SeenOK /\ pass \in PassStates /\ QueueOK
        /\ LoopOK /\ FaultOK

LEMMA Durations ==
  /\ KeyTTL \in Nat /\ KeyTTL > 0 /\ HeartbeatTimeout \in Nat
  /\ ProgressTimeout \in Nat /\ TaskCeiling \in Nat /\ TaskCeiling > 0
  /\ InitCeiling \in Nat /\ InitCeiling > 0
  /\ InitWait \in Nat /\ Cooldown \in Nat /\ MaxDone \in Nat
BY MonitorAssumption

LEMMA Zero ==
  /\ 0 \in 0..(TaskCeiling + InitCeiling) /\ 0 \in 0..MaxDone /\ 0 \in 0..KeyTTL
  /\ 0 \in 0..(ProgressTimeout + 1) /\ 0 \in 0..(InitWait + Cooldown)
BY Durations

LEMMA NotStartedType ==
  /\ NotStarted \in ProcStates /\ ~ NotStarted.stuck /\ ~ NotStarted.beats
  /\ ~ NotStarted.busy /\ NotStarted.state = "none"
BY Zero DEF NotStarted, ProcStates, Running

LEMMA NotStartedSane == Sane(NotStarted)
BY NotStartedType DEF Sane, Running

\* A worker that was started by hand.
LEMMA UpSane ==
  ASSUME NEW w \in Workers
  PROVE  Sane([NotStarted EXCEPT !.of = w, !.state = "up", !.beats = TRUE])
<1> DEFINE x == [NotStarted EXCEPT !.of = w]
           y == [x EXCEPT !.state = "up"]
           z == [y EXCEPT !.beats = TRUE]
<1>1. /\ x \in ProcStates /\ x.of = w /\ ~ x.stuck /\ ~ x.busy
  BY NotStartedType DEF ProcStates
<1> HIDE DEF x
<1>2. y \in ProcStates /\ y.of = w /\ ~ y.stuck /\ ~ y.busy /\ y.state = "up"
  BY <1>1 DEF ProcStates
<1> HIDE DEF y
<1>3. z \in ProcStates /\ z.of = w /\ ~ z.stuck /\ ~ z.busy /\ z.state = "up"
  BY <1>2 DEF ProcStates
<1> HIDE DEF z
<1>4. Sane(z)
  BY <1>3 DEF Sane
<1>. QED
  BY <1>4 DEF x, y, z

LEMMA IInvInit == Init => IInv
<1> SUFFICES ASSUME Init
             PROVE  IInv
  OBVIOUS
<1>1. PICK f \in [Launched -> Procs] :
        proc = [p \in Procs |->
                  IF \E w \in Launched : f[w] = p
                  THEN [NotStarted EXCEPT !.of = CHOOSE w \in Launched : f[w] = p,
                                          !.state = "up", !.beats = TRUE]
                  ELSE NotStarted]
  BY DEF Init
<1>2. /\ key = [w \in Workers |->
                  IF w \in Launched THEN [NoKey EXCEPT !.there = TRUE, !.online = "true"]
                  ELSE NoKey]
      /\ pid = [w \in Workers |-> NoProc] /\ seen = [w \in Workers |-> NeverSeen]
      /\ pass = Resting /\ queue = <<>> /\ marked = {} /\ loop = IdleLoop
      /\ faults = [k \in Kinds |-> 0] /\ overran = FALSE
  BY DEF Init
<1>3. ASSUME NEW p \in Procs
      PROVE  Sane(proc[p])
  <2>1. CASE \E w \in Launched : f[w] = p
    <3> DEFINE v == CHOOSE w \in Launched : f[w] = p
    <3>1. v \in Workers
      BY <2>1, MonitorAssumption
    <3>2. proc[p] = [NotStarted EXCEPT !.of = v, !.state = "up", !.beats = TRUE]
      BY <1>1, <2>1
    <3> HIDE DEF v
    <3>. QED
      BY <3>1, <3>2, UpSane
  <2>2. CASE ~ \E w \in Launched : f[w] = p
    BY <1>1, <2>2, NotStartedSane
  <2>. QED
    BY <2>1, <2>2
<1>4. ProcsOK
  <2>1. \A p \in Procs : proc[p] \in ProcStates
    BY <1>3 DEF Sane
  <2>. QED
    BY <1>1, <1>3, <2>1 DEF ProcsOK
<1>5. KeyOK
  <2>1. NoKey \in KeyStates /\ [NoKey EXCEPT !.there = TRUE, !.online = "true"] \in KeyStates
    BY Zero DEF NoKey, KeyStates
  <2>. QED
    BY <1>2, <2>1 DEF KeyOK
<1>6. SeenOK
  BY <1>2, Zero DEF SeenOK, SeenStates, NeverSeen
<1>7. PidOK /\ pass \in PassStates /\ QueueOK
  BY <1>2 DEF PidOK, PassStates, Resting, QueueOK
<1>8. LoopOK
  BY <1>2, Zero DEF LoopOK, LoopStates, IdleLoop
<1>9. FaultOK
  BY <1>2 DEF FaultOK
<1>. QED
  BY <1>4, <1>5, <1>6, <1>7, <1>8, <1>9 DEF IInv

LEMMA IInvTypes == IInv => TypeOK
<1> SUFFICES ASSUME IInv
             PROVE  TypeOK
  OBVIOUS
<1>1. ASSUME NEW p \in Procs
      PROVE  ProcOK(proc[p])
  <2>1. Sane(proc[p])
    BY DEF IInv, ProcsOK
  <2>2. /\ proc[p].of \in Workers \cup {NoWorker}
        /\ proc[p].state \in {"boot", "init", "up", "none", "zombie", "gone"}
        /\ {proc[p].beats, proc[p].busy, proc[p].stuck, proc[p].kid} \subseteq BOOLEAN
        /\ proc[p].since \in 0..(TaskCeiling + InitCeiling) /\ proc[p].done \in 0..MaxDone
    BY <2>1 DEF Sane, ProcStates
  <2>. QED
    BY <2>1, <2>2 DEF Sane, ProcOK, Running
<1>2. key \in [Workers -> [there : BOOLEAN, age : 0..KeyTTL, flag : BOOLEAN,
                           online : {"initializing", "true", "false"},
                           busy : BOOLEAN, done : 0..MaxDone]]
  BY DEF IInv, KeyOK, KeyStates
<1>3. seen \in [Workers -> [known : BOOLEAN, done : 0..MaxDone, stale : BOOLEAN,
                            since : 0..(ProgressTimeout + 1)]]
  BY DEF IInv, SeenOK, SeenStates
<1>4. /\ pass.pc \in {"rest", "check", "expect", "slept"}
      /\ pass.todo \subseteq Workers /\ pass.there \subseteq Workers
      /\ pass.expected \subseteq Expected
      /\ loop.pc \in {"idle", "kill", "spawn", "note", "clear", "wait", "cool"}
      /\ loop.p \in Procs \cup {NoProc} /\ loop.wait \in 0..(InitWait + Cooldown)
  BY DEF IInv, PassStates, LoopOK, LoopStates
<1>. QED
  BY <1>1, <1>2, <1>3, <1>4 DEF IInv, TypeOK, ProcsOK, PidOK, QueueOK, FaultOK

-----------------------------------------------------------------------------
(* Processes and keys. *)

LEMMA DeadSane ==
  ASSUME NEW x, Sane(x)
  PROVE  Sane(Dead(x)) /\ Dead(x).of = x.of /\ Dead(x).state \notin Running
<1> DEFINE d == IF x.kid THEN "zombie" ELSE "gone"
           u == [NotStarted EXCEPT !.of = x.of]
           v == [u EXCEPT !.kid = x.kid]
           y == [v EXCEPT !.state = d]
<1>1. x \in ProcStates /\ x.of \in Workers \cup {NoWorker} /\ x.kid \in BOOLEAN
  BY DEF Sane, ProcStates
<1>2. u \in ProcStates /\ u.of = x.of /\ ~ u.stuck /\ ~ u.busy /\ ~ u.beats
  BY <1>1, NotStartedType DEF ProcStates
<1> HIDE DEF u
<1>3. v \in ProcStates /\ v.of = x.of /\ ~ v.stuck /\ ~ v.busy /\ ~ v.beats
  BY <1>1, <1>2 DEF ProcStates
<1> HIDE DEF v
<1>4. d \in {"zombie", "gone"}
  OBVIOUS
<1>5. Dead(x) = y
  BY Zenon DEF Dead, u, v
<1> HIDE DEF d
<1>6. /\ y \in ProcStates /\ y.of = x.of /\ ~ y.stuck /\ ~ y.busy /\ ~ y.beats
      /\ y.state \notin Running
  BY <1>3, <1>4 DEF ProcStates, Running
<1> HIDE DEF y
<1>. QED
  BY <1>5, <1>6 DEF Sane

\* One process changes and goes on being what it was of.
Evolves(p, y) == proc' = [proc EXCEPT ![p] = y] /\ y.of = proc[p].of

LEMMA EvolvesProcs ==
  ASSUME ProcsOK, PidOK, LoopOK, NEW p \in Procs, NEW y, Sane(y), Evolves(p, y)
  PROVE  /\ ProcsOK'
         /\ \A q \in Procs : proc'[q] = IF q = p THEN y ELSE proc[q]
         /\ \A q \in Procs : proc'[q].of = proc[q].of
         /\ UNCHANGED pid => PidOK'
         /\ UNCHANGED loop => LoopOK'
<1>1. \A q \in Procs : proc'[q] = IF q = p THEN y ELSE proc[q]
  BY DEF Evolves, ProcsOK
<1>2. \A q \in Procs : proc'[q].of = proc[q].of
  BY <1>1 DEF Evolves
<1>3. ProcsOK'
  BY <1>1 DEF Evolves, ProcsOK, Sane
<1>4. UNCHANGED pid => PidOK'
  BY <1>2 DEF PidOK
<1>5. UNCHANGED loop => LoopOK'
  BY <1>2 DEF LoopOK
<1>. QED
  BY <1>1, <1>2, <1>3, <1>4, <1>5

Beat(z, f, o, b, n) == [z EXCEPT !.there = TRUE, !.age = 0, !.online = o, !.busy = b,
                                 !.done = n, !.flag = f]

LEMMA KeyFields ==
  ASSUME NEW z \in KeyStates, NEW f \in BOOLEAN,
         NEW o \in {"initializing", "true", "false"},
         NEW b \in BOOLEAN, NEW n \in 0..MaxDone
  PROVE  /\ [z EXCEPT !.there = TRUE] \in KeyStates
         /\ [z EXCEPT !.age = 0] \in KeyStates
         /\ [z EXCEPT !.online = o] \in KeyStates
         /\ [z EXCEPT !.busy = b] \in KeyStates
         /\ [z EXCEPT !.done = n] \in KeyStates
         /\ [z EXCEPT !.flag = f] \in KeyStates
BY Zero DEF KeyStates

LEMMA BeatType ==
  ASSUME NEW z \in KeyStates, NEW f \in BOOLEAN,
         NEW o \in {"initializing", "true", "false"},
         NEW b \in BOOLEAN, NEW n \in 0..MaxDone
  PROVE  Beat(z, f, o, b, n) \in KeyStates
BY KeyFields DEF Beat

\* The record of a worker that has beaten, or stopped.
LEMMA BeatenType ==
  ASSUME KeyOK, NEW w \in Workers,
         NEW o \in {"initializing", "true", "false"},
         NEW b \in BOOLEAN, NEW n \in 0..MaxDone
  PROVE  Beaten(w, o, b, n) \in KeyStates
<1>1. key[w] \in KeyStates
  BY DEF KeyOK
<1>2. Beaten(w, o, b, n) \in KeyStates
  <2> DEFINE f == key[w].there /\ key[w].flag
  <2>1. CASE f
    <3>1. f = TRUE
      BY <2>1
    <3>2. Beaten(w, o, b, n) = Beat(key[w], TRUE, o, b, n)
      BY <3>1, Zenon DEF Beaten, Beat
    <3>. QED
      BY <1>1, <3>2, BeatType
  <2>2. CASE ~ f
    <3>1. f = FALSE
      BY <2>2
    <3>2. Beaten(w, o, b, n) = Beat(key[w], FALSE, o, b, n)
      BY <3>1, Zenon DEF Beaten, Beat
    <3>. QED
      BY <1>1, <3>2, BeatType
  <2>. QED
    BY <2>1, <2>2
<1>. QED
  BY <1>2

-----------------------------------------------------------------------------
(* Steps of a worker process. *)

LEMMA FaultCounted ==
  ASSUME FaultOK, NEW k \in Kinds, Fault(k)
  PROVE  /\ faults' \in [Kinds -> Nat]
         /\ \A j \in Kinds : faults'[j] = IF j = k THEN faults[j] + 1 ELSE faults[j]
         /\ UNCHANGED overran => FaultOK'
BY DEF FaultOK, Fault

\* No other process moves, and nobody changes what it is of.
Only(p) == \A q \in Procs : /\ proc'[q].of = proc[q].of
                            /\ q # p => proc'[q] = proc[q]

\* A process in state y that writes, or not, a record z under its worker.
LEMMA ProcInv ==
  ASSUME IInv, NEW p \in Procs, NEW y, Sane(y), Evolves(p, y),
         UNCHANGED key \/ \E z \in KeyStates : key' = [key EXCEPT ![proc[p].of] = z],
         \/ UNCHANGED pid
         \/ pid' = [pid EXCEPT ![proc[p].of] = NoProc],
         UNCHANGED <<seen, pass, queue, marked, loop>>, FaultOK'
  PROVE  IInv' /\ Only(p)
<1>1. /\ ProcsOK' /\ LoopOK'
      /\ \A q \in Procs : proc'[q].of = proc[q].of
      /\ \A q \in Procs : proc'[q] = IF q = p THEN y ELSE proc[q]
  BY EvolvesProcs DEF IInv
<1>2. KeyOK'
  BY DEF IInv, KeyOK
<1>3. PidOK'
  BY <1>1 DEF IInv, PidOK
<1>. QED
  BY <1>1, <1>2, <1>3 DEF IInv, SeenOK, QueueOK, Only

LEMMA LifeInv ==
  ASSUME IInv, NEW p \in Procs, LifeStep(p) \/ TakeTask(p)
  PROVE  IInv' /\ Only(p)
<1> DEFINE x == proc[p]
<1>1. ProcsOK /\ KeyOK /\ Sane(x) /\ x \in ProcStates /\ DOMAIN proc = Procs
  BY DEF IInv, ProcsOK, Sane
<1>2. FaultOK' /\ UNCHANGED <<pid, seen, pass, queue, marked, loop>>
  BY DEF LifeStep, Boot, Ready, Heartbeat, FinishTask, TakeTask, monitor, redis, IInv,
         FaultOK
<1>3. x.done \in 0..MaxDone /\ x.busy \in BOOLEAN
  BY <1>1 DEF ProcStates
<1>4. CASE Boot(p)
  <2> DEFINE y == [x EXCEPT !.state = "init"]
  <2>1. /\ y \in ProcStates /\ y.of = x.of /\ y.state = "init" /\ ~ y.busy /\ ~ y.beats
        /\ ~ y.stuck
    BY <1>1, <1>4 DEF Boot, Sane, ProcStates
  <2>2. proc' = [proc EXCEPT ![p] = y]
    BY <1>4 DEF Boot
  <2> HIDE DEF y
  <2>3. x.of \in Workers
    BY <1>1, <1>4 DEF Boot, Sane, Running
  <2>4. Sane(y) /\ Evolves(p, y)
    BY <2>1, <2>2, <2>3 DEF Sane, Evolves
  <2>5. \E z \in KeyStates : key' = [key EXCEPT ![x.of] = z]
    BY <1>1, <1>4, <2>3, BeatenType, Zero DEF Boot
  <2>. QED
    BY <1>2, <2>4, <2>5, ProcInv
<1>5. CASE Ready(p)
  <2> DEFINE u == [x EXCEPT !.state = "up"]
             v == [u EXCEPT !.beats = TRUE]
             y == [v EXCEPT !.since = 0]
  <2>1. u \in ProcStates /\ u.of = x.of /\ u.state = "up" /\ ~ u.busy /\ ~ u.stuck
    BY <1>1, <1>5 DEF Ready, Sane, ProcStates
  <2> HIDE DEF u
  <2>2. v \in ProcStates /\ v.of = x.of /\ v.state = "up" /\ ~ v.busy /\ ~ v.stuck
    BY <2>1 DEF ProcStates
  <2> HIDE DEF v
  <2>3. y \in ProcStates /\ y.of = x.of /\ y.state = "up" /\ ~ y.busy /\ ~ y.stuck
    BY <2>2, Zero DEF ProcStates
  <2>4. proc' = [proc EXCEPT ![p] = y]
    BY <1>1, <1>5 DEF Ready, u, v
  <2> HIDE DEF y
  <2>5. x.of \in Workers
    BY <1>1, <1>5 DEF Ready, Sane, Running
  <2>6. Sane(y) /\ Evolves(p, y)
    BY <2>3, <2>4, <2>5 DEF Sane, Evolves
  <2>7. \E z \in KeyStates : key' = [key EXCEPT ![x.of] = z]
    BY <1>1, <1>5, <2>5, BeatenType, Zero DEF Ready
  <2>. QED
    BY <1>2, <2>6, <2>7, ProcInv
<1>6. CASE Heartbeat(p)
  <2>1. Evolves(p, x)
    <3>1. proc' = proc
      BY <1>6 DEF Heartbeat
    <3>2. proc = [proc EXCEPT ![p] = x]
      BY <1>1 DEF ProcsOK
    <3>. QED
      BY <3>1, <3>2 DEF Evolves
  <2>2. x.of \in Workers
    BY <1>1, <1>6 DEF Heartbeat, Sane, Running
  <2>3. \E z \in KeyStates : key' = [key EXCEPT ![x.of] = z]
    BY <1>1, <1>3, <1>6, <2>2, BeatenType DEF Heartbeat, Pulse
  <2>. QED
    BY <1>1, <1>2, <2>1, <2>3, ProcInv
<1>7. CASE FinishTask(p)
  <2> DEFINE u == [x EXCEPT !.busy = FALSE]
             v == [u EXCEPT !.since = 0]
             y == [v EXCEPT !.done = @ + 1]
  <2>1. /\ u \in ProcStates /\ u.of = x.of /\ u.state = "up" /\ ~ u.busy /\ ~ u.stuck
        /\ u.done = x.done
    BY <1>1, <1>7 DEF FinishTask, ProcStates
  <2> HIDE DEF u
  <2>2. /\ v \in ProcStates /\ v.of = x.of /\ v.state = "up" /\ ~ v.busy /\ ~ v.stuck
        /\ v.done = x.done
    BY <2>1, Zero DEF ProcStates
  <2> HIDE DEF v
  <2>3. v.done + 1 \in 0..MaxDone
    BY <1>1, <1>3, <1>7, <2>2, Durations DEF FinishTask, Sane
  <2>4. y \in ProcStates /\ y.of = x.of /\ y.state = "up" /\ ~ y.busy /\ ~ y.stuck
    BY <2>2, <2>3 DEF ProcStates
  <2>5. proc' = [proc EXCEPT ![p] = y]
    BY <1>1, <1>7, <2>2 DEF FinishTask, u, v
  <2> HIDE DEF y
  <2>6. x.of \in Workers
    BY <1>1, <1>7 DEF FinishTask, Sane, Running
  <2>7. Sane(y) /\ Evolves(p, y)
    BY <2>4, <2>5, <2>6 DEF Sane, Evolves
  <2>8. UNCHANGED key
    BY <1>7 DEF FinishTask, redis
  <2>. QED
    BY <1>2, <2>7, <2>8, ProcInv
<1>8. CASE TakeTask(p)
  <2> DEFINE u == [x EXCEPT !.busy = TRUE]
             y == [u EXCEPT !.since = 0]
  <2>1. /\ u \in ProcStates /\ u.of = x.of /\ u.state = "up" /\ ~ u.stuck
        /\ u.busy /\ u.done = x.done
    BY <1>1, <1>8 DEF TakeTask, Sane, ProcStates
  <2> HIDE DEF u
  <2>2. /\ y \in ProcStates /\ y.of = x.of /\ y.state = "up" /\ ~ y.stuck
        /\ y.busy /\ y.done = x.done
    BY <2>1, Zero DEF ProcStates
  <2>3. proc' = [proc EXCEPT ![p] = y]
    BY <1>1, <1>8 DEF TakeTask, u
  <2> HIDE DEF y
  <2>4. x.of \in Workers /\ x.done < MaxDone
    BY <1>1, <1>8 DEF TakeTask, Sane, Running
  <2>5. Sane(y) /\ Evolves(p, y)
    BY <2>2, <2>3, <2>4 DEF Sane, Evolves
  <2>6. UNCHANGED key
    BY <1>8 DEF TakeTask, redis
  <2>. QED
    BY <1>2, <2>5, <2>6, ProcInv
<1>. QED
  BY <1>4, <1>5, <1>6, <1>7, <1>8 DEF LifeStep

\* The record of a process that stops, with or without the shutdown flag.
LEMMA FlagType ==
  ASSUME NEW z \in KeyStates, NEW f \in BOOLEAN
  PROVE  [z EXCEPT !.flag = @ \/ f] \in KeyStates
<1>1. CASE z.flag \/ f
  <2>1. (z.flag \/ f) = TRUE
    BY <1>1
  <2>2. [z EXCEPT !.flag = @ \/ f] = [z EXCEPT !.flag = TRUE]
    BY <2>1, Zenon
  <2>. QED
    BY <2>2 DEF KeyStates
<1>2. CASE ~ (z.flag \/ f)
  <2>1. (z.flag \/ f) = FALSE
    BY <1>2
  <2>2. [z EXCEPT !.flag = @ \/ f] = [z EXCEPT !.flag = FALSE]
    BY <2>1, Zenon
  <2>. QED
    BY <2>2 DEF KeyStates
<1>. QED
  BY <1>1, <1>2

\* A process dies; of, and what it was of, stay.
LEMMA DeathInv ==
  ASSUME IInv, NEW p \in Procs, proc' = [proc EXCEPT ![p] = Dead(@)],
         UNCHANGED key \/ \E z \in KeyStates : key' = [key EXCEPT ![proc[p].of] = z],
         \/ UNCHANGED pid
         \/ pid' = [pid EXCEPT ![proc[p].of] = NoProc],
         UNCHANGED <<seen, pass, queue, marked, loop>>, FaultOK'
  PROVE  IInv' /\ Only(p) /\ ~ Alive(p)'
<1>1. Sane(proc[p])
  BY DEF IInv, ProcsOK
<1>2. Sane(Dead(proc[p])) /\ Evolves(p, Dead(proc[p]))
  BY <1>1, DeadSane DEF Evolves
<1>3. ~ Alive(p)'
  BY <1>1, DeadSane DEF Alive, IInv, ProcsOK
<1>. QED
  BY <1>2, <1>3, ProcInv

PidLeft(p) == UNCHANGED pid \/ pid' = [pid EXCEPT ![proc[p].of] = NoProc]

LEMMA StoppedInv ==
  ASSUME IInv, NEW p \in Procs, Alive(p), NEW f \in BOOLEAN, Stopped(p, f),
         UNCHANGED <<seen, pass, queue, marked, loop>>, FaultOK'
  PROVE  IInv' /\ Only(p) /\ ~ Alive(p)' /\ PidLeft(p)
<1> DEFINE w == proc[p].of
           b == Beaten(w, "false", FALSE, proc[p].done)
<1>1. w \in Workers /\ proc[p].done \in 0..MaxDone /\ KeyOK
  BY DEF IInv, ProcsOK, Sane, ProcStates, Alive
<1>2. b \in KeyStates
  BY <1>1, BeatenType
<1>3. [b EXCEPT !.flag = @ \/ f] \in KeyStates
  <2> HIDE DEF b
  <2>. QED
    BY <1>2, FlagType
<1>4. key' = [key EXCEPT ![w] = [b EXCEPT !.flag = @ \/ f]]
  BY DEF Stopped
<1>5. pid' = pid \/ pid' = [pid EXCEPT ![w] = NoProc]
  BY DEF Stopped
<1>6. proc' = [proc EXCEPT ![p] = Dead(@)]
  BY DEF Stopped
<1> HIDE DEF b
<1>. QED
  BY <1>3, <1>4, <1>5, <1>6, DeathInv DEF PidLeft

LEMMA FaultInv ==
  ASSUME IInv, NEW p \in Procs, FaultStep(p)
  PROVE  /\ IInv' /\ Only(p)
         /\ UNCHANGED pid \/ (~ Alive(p)' /\ PidLeft(p))
<1> DEFINE x == proc[p]
<1>1. ProcsOK /\ FaultOK /\ Sane(x) /\ x \in ProcStates
  BY DEF IInv, ProcsOK, Sane
<1>2. FaultOK' /\ UNCHANGED <<seen, pass, queue, marked, loop>>
  <2>1. UNCHANGED <<seen, pass, queue, marked, loop, overran>>
    BY DEF FaultStep, Crash, Wedge, LoseHeartbeat, Quit, InitFails, monitor
  <2>2. PICK k \in Kinds : Fault(k)
    BY DEF FaultStep, Crash, Wedge, LoseHeartbeat, Quit, InitFails, Kinds
  <2>. QED
    BY <1>1, <2>1, <2>2, FaultCounted
<1>3. CASE Crash(p)
  BY <1>2, <1>3, DeathInv DEF Crash, redis
<1>4. CASE Wedge(p)
  <2> DEFINE y == [x EXCEPT !.stuck = TRUE]
  <2>1. /\ y \in ProcStates /\ y.of = x.of /\ y.state = "up" /\ y.busy
        /\ y.done = x.done
    BY <1>1, <1>4 DEF Wedge, ProcStates
  <2>2. proc' = [proc EXCEPT ![p] = y]
    BY <1>4 DEF Wedge
  <2> HIDE DEF y
  <2>3. x.of \in Workers /\ x.done < MaxDone
    BY <1>1, <1>4 DEF Wedge, Sane, Running
  <2>4. Sane(y) /\ Evolves(p, y)
    BY <2>1, <2>2, <2>3 DEF Sane, Evolves
  <2>. QED
    BY <1>2, <1>4, <2>4, ProcInv DEF Wedge, redis
<1>5. CASE LoseHeartbeat(p)
  <2> DEFINE y == [x EXCEPT !.beats = FALSE]
  <2>1. /\ y \in ProcStates /\ y.of = x.of /\ y.state = "up" /\ (y.busy <=> x.busy)
        /\ y.done = x.done /\ (y.stuck <=> x.stuck)
    BY <1>1, <1>5 DEF LoseHeartbeat, ProcStates
  <2>2. proc' = [proc EXCEPT ![p] = y]
    BY <1>5 DEF LoseHeartbeat
  <2> HIDE DEF y
  <2>3. x.of \in Workers
    BY <1>1, <1>5 DEF LoseHeartbeat, Sane, Running
  <2>4. Sane(y) /\ Evolves(p, y)
    BY <1>1, <2>1, <2>2, <2>3 DEF Sane, Evolves
  <2>. QED
    BY <1>2, <1>5, <2>4, ProcInv DEF LoseHeartbeat, redis
<1>6. CASE Quit(p)
  BY <1>2, <1>6, StoppedInv DEF Quit, Alive, Running
<1>7. CASE InitFails(p)
  BY <1>2, <1>7, StoppedInv DEF InitFails, Alive, Running
<1>. QED
  BY <1>3, <1>4, <1>5, <1>6, <1>7 DEF FaultStep

-----------------------------------------------------------------------------
(* The monitor's pass and time. *)

LEMMA RequestType ==
  ASSUME QueueOK, NEW w \in Workers, Request(w) \/ NoRequest
  PROVE  QueueOK'
BY AppendProperties DEF QueueOK, Request, NoRequest

LEMMA SeenType ==
  ASSUME SeenOK, KeyOK, NEW w \in Workers
  PROVE  [known |-> TRUE, done |-> key[w].done, stale |-> Stale(w),
          since |-> StaleFor(w)] \in SeenStates
<1>1. key[w].done \in 0..MaxDone /\ seen[w].since \in 0..(ProgressTimeout + 1)
  BY DEF KeyOK, KeyStates, SeenOK, SeenStates
<1>2. StaleFor(w) \in 0..(ProgressTimeout + 1)
  BY <1>1, Zero DEF StaleFor
<1>3. CASE Stale(w)
  <2>1. Stale(w) = TRUE
    BY <1>3 DEF Stale
  <2>2. [known |-> TRUE, done |-> key[w].done, stale |-> TRUE,
         since |-> StaleFor(w)] \in SeenStates
    BY <1>1, <1>2 DEF SeenStates
  <2>. QED
    BY <2>1, <2>2, Zenon
<1>4. CASE ~ Stale(w)
  <2>1. Stale(w) = FALSE
    BY <1>4 DEF Stale
  <2>2. [known |-> TRUE, done |-> key[w].done, stale |-> FALSE,
         since |-> StaleFor(w)] \in SeenStates
    BY <1>1, <1>2 DEF SeenStates
  <2>. QED
    BY <2>1, <2>2, Zenon
<1>. QED
  BY <1>3, <1>4

LEMMA PassInv ==
  ASSUME IInv, PassStep
  PROVE  IInv'
<1>1. UNCHANGED <<proc, key, pid, loop, faults, overran>>
  BY DEF PassStep, PassBegins, CheckWorker, PassExpects, ExpectWorker, PassEnds, redis
<1>2. ProcsOK' /\ KeyOK' /\ PidOK' /\ LoopOK' /\ FaultOK'
  BY <1>1 DEF IInv, ProcsOK, KeyOK, PidOK, LoopOK, FaultOK
<1>3. pass' \in PassStates
  <2>1. CASE PassBegins
    BY <2>1 DEF PassBegins, PassStates, Resting
  <2>2. CASE \E w \in Workers : CheckWorker(w) \/ ExpectWorker(w)
    BY <2>2 DEF CheckWorker, ExpectWorker, IInv, PassStates
  <2>3. CASE PassExpects
    BY <2>3, MonitorAssumption DEF PassExpects, PassStates, Resting
  <2>4. CASE PassEnds
    BY <2>4 DEF PassEnds, PassStates, Resting
  <2>. QED
    BY <2>1, <2>2, <2>3, <2>4 DEF PassStep
<1>4. QueueOK' /\ SeenOK'
  <2>1. CASE PassBegins \/ PassExpects \/ PassEnds
    BY <2>1 DEF PassBegins, PassExpects, PassEnds, IInv, QueueOK, SeenOK
  <2>2. ASSUME NEW w \in Workers, CheckWorker(w)
        PROVE  QueueOK' /\ SeenOK'
    <3>1. QueueOK'
      BY <2>2, RequestType DEF CheckWorker, IInv
    <3>2. \/ UNCHANGED seen
          \/ seen' = [seen EXCEPT ![w] = [known |-> TRUE, done |-> key[w].done,
                                         stale |-> Stale(w), since |-> StaleFor(w)]]
      BY <2>2 DEF CheckWorker
    <3>3. [known |-> TRUE, done |-> key[w].done, stale |-> Stale(w),
           since |-> StaleFor(w)] \in SeenStates
      BY SeenType DEF IInv
    <3> DEFINE x == [known |-> TRUE, done |-> key[w].done, stale |-> Stale(w),
                     since |-> StaleFor(w)]
    <3>4. x \in SeenStates /\ (seen' = seen \/ seen' = [seen EXCEPT ![w] = x])
      BY <3>2, <3>3
    <3> HIDE DEF x
    <3>5. SeenOK'
      BY <3>4 DEF IInv, SeenOK
    <3>. QED
      BY <3>1, <3>5
  <2>3. ASSUME NEW w \in Workers, ExpectWorker(w)
        PROVE  QueueOK' /\ SeenOK'
    BY <2>3, RequestType DEF ExpectWorker, IInv, SeenOK
  <2>. QED
    BY <2>1, <2>2, <2>3 DEF PassStep
<1>. QED
  BY <1>2, <1>3, <1>4 DEF IInv

LEMMA ExpireInv ==
  ASSUME IInv, NEW w \in Workers, Expire(w)
  PROVE  IInv'
<1>1. NoKey \in KeyStates
  BY Zero DEF NoKey, KeyStates
<1>2. KeyOK'
  BY <1>1 DEF Expire, IInv, KeyOK
<1>3. UNCHANGED <<proc, pid, seen, pass, queue, marked, loop, faults, overran>>
  BY DEF Expire, monitor
<1>. QED
  BY <1>2, <1>3 DEF IInv, ProcsOK, PidOK, SeenOK, QueueOK, LoopOK, FaultOK

LEMMA TickInv ==
  ASSUME IInv, Tick
  PROVE  IInv'
<1>1. /\ \A w \in Workers : key[w].there => key[w].age < KeyTTL
      /\ \A p \in Procs :
            /\ proc[p].state = "init" => proc[p].since < InitCeiling
            /\ proc[p].busy /\ ~ proc[p].stuck => proc[p].since < TaskCeiling
  BY DEF Tick, PeriodOver
<1>2. /\ key' = [w \in Workers |-> IF key[w].there THEN [key[w] EXCEPT !.age = @ + 1]
                                   ELSE key[w]]
      /\ proc' = [p \in Procs |->
                    IF proc[p].state = "init" \/ (proc[p].busy /\ ~ proc[p].stuck)
                    THEN [proc[p] EXCEPT !.since = @ + 1] ELSE proc[p]]
      /\ seen' = [w \in Workers |->
                    IF seen[w].stale /\ seen[w].since <= ProgressTimeout
                    THEN [seen[w] EXCEPT !.since = @ + 1] ELSE seen[w]]
      /\ loop' = [loop EXCEPT !.wait = IF @ > 0 THEN @ - 1 ELSE 0]
      /\ pass' = Resting
      /\ UNCHANGED <<pid, queue, marked, faults>>
  BY DEF Tick
<1>3. KeyOK'
  <2>1. ASSUME NEW w \in Workers
        PROVE  key'[w] \in KeyStates
    <3>1. key[w] \in KeyStates /\ key[w].age \in 0..KeyTTL
      BY DEF IInv, KeyOK, KeyStates
    <3>2. key[w].there => key[w].age + 1 \in 0..KeyTTL
      BY <1>1, <3>1, Durations
    <3>3. \A n \in 0..KeyTTL : [key[w] EXCEPT !.age = n] \in KeyStates
      BY <3>1 DEF KeyStates
    <3>. QED
      BY <1>2, <3>1, <3>2, <3>3
  <2>. QED
    BY <1>2, <2>1 DEF KeyOK
<1>4. ASSUME NEW p \in Procs
      PROVE  Sane(proc'[p]) /\ proc'[p].of = proc[p].of
  <2> DEFINE n == proc[p].since + 1
             y == [proc[p] EXCEPT !.since = n]
  <2>1. Sane(proc[p]) /\ proc[p].since \in 0..(TaskCeiling + InitCeiling)
    BY DEF IInv, ProcsOK, Sane, ProcStates
  <2>2. CASE proc[p].state = "init" \/ (proc[p].busy /\ ~ proc[p].stuck)
    <3>1. n \in 0..(TaskCeiling + InitCeiling)
      BY <1>1, <2>1, <2>2, Durations
    <3> HIDE DEF n
    <3>2. Sane(y) /\ y.of = proc[p].of
      BY <2>1, <3>1 DEF Sane, ProcStates
    <3>3. proc'[p] = y
      BY <1>2, <2>2 DEF n
    <3>. QED
      BY <3>2, <3>3
  <2>3. CASE ~ (proc[p].state = "init" \/ (proc[p].busy /\ ~ proc[p].stuck))
    BY <1>2, <2>1, <2>3
  <2>. QED
    BY <2>2, <2>3
<1>5. ProcsOK' /\ PidOK'
  BY <1>2, <1>4 DEF ProcsOK, Sane, IInv, PidOK
<1>6. SeenOK'
  <2>1. ASSUME NEW w \in Workers
        PROVE  seen'[w] \in SeenStates
    <3>1. seen[w] \in SeenStates /\ seen[w].since \in 0..(ProgressTimeout + 1)
      BY DEF IInv, SeenOK, SeenStates
    <3>2. seen[w].since <= ProgressTimeout => seen[w].since + 1 \in 0..(ProgressTimeout + 1)
      BY <3>1, Durations
    <3>3. \A n \in 0..(ProgressTimeout + 1) : [seen[w] EXCEPT !.since = n] \in SeenStates
      BY <3>1 DEF SeenStates
    <3>. QED
      BY <1>2, <3>1, <3>2, <3>3
  <2>. QED
    BY <1>2, <2>1 DEF SeenOK
<1>7. LoopOK'
  <2> DEFINE n == IF loop.wait > 0 THEN loop.wait - 1 ELSE 0
             y == [loop EXCEPT !.wait = n]
  <2>1. loop \in LoopStates /\ loop.wait \in 0..(InitWait + Cooldown)
    BY DEF IInv, LoopOK, LoopStates
  <2>2. n \in 0..(InitWait + Cooldown)
    BY <2>1, Durations
  <2>3. loop' = y
    BY <1>2
  <2> HIDE DEF n
  <2>4. y \in LoopStates /\ y.pc = loop.pc /\ y.of = loop.of /\ y.p = loop.p
    BY <2>1, <2>2 DEF LoopStates
  <2> HIDE DEF y
  <2>. QED
    BY <1>4, <2>3, <2>4 DEF IInv, LoopOK
<1>8. overran' \in BOOLEAN
  BY DEF Tick
<1>9. pass' \in PassStates /\ QueueOK' /\ FaultOK'
  BY <1>2, <1>8 DEF PassStates, Resting, IInv, QueueOK, FaultOK
<1>. QED
  BY <1>3, <1>5, <1>6, <1>7, <1>9 DEF IInv

-----------------------------------------------------------------------------
(* The restart loop. *)

\* The loop with one field replaced.
WithPc(x, v) == [x EXCEPT !.pc = v]
WithP(x, v) == [x EXCEPT !.p = v]
WithWait(x, v) == [x EXCEPT !.wait = v]

LEMMA PcField ==
  ASSUME NEW x \in LoopStates,
         NEW v \in {"idle", "kill", "spawn", "note", "clear", "wait", "cool"}
  PROVE  /\ WithPc(x, v) \in LoopStates /\ WithPc(x, v).pc = v
         /\ WithPc(x, v).of = x.of /\ WithPc(x, v).p = x.p
BY DEF LoopStates, WithPc

LEMMA PField ==
  ASSUME NEW x \in LoopStates, NEW v \in Procs \cup {NoProc}
  PROVE  /\ WithP(x, v) \in LoopStates /\ WithP(x, v).pc = x.pc
         /\ WithP(x, v).of = x.of /\ WithP(x, v).p = v
BY DEF LoopStates, WithP

LEMMA WaitField ==
  ASSUME NEW x \in LoopStates, NEW v \in 0..(InitWait + Cooldown)
  PROVE  /\ WithWait(x, v) \in LoopStates /\ WithWait(x, v).pc = x.pc
         /\ WithWait(x, v).of = x.of /\ WithWait(x, v).p = x.p
BY DEF LoopStates, WithWait

\* What each step of the loop leaves it in.
After(pc, of) == loop'.pc = pc /\ loop'.of = of

\* p is the process that was started.
Spawned(p) == /\ p \in Unused
              /\ proc' = [Reaped EXCEPT ![p] = [NotStarted EXCEPT !.of = loop.of,
                                                 !.state = "boot", !.kid = TRUE]]

LEMMA LoopMoves ==
  ASSUME IInv
  PROVE  /\ TakeRequest => loop' \in LoopStates /\ After("kill", Head(queue))
         /\ KillWorker => loop' \in LoopStates /\ After("spawn", loop.of)
         /\ Spawn => /\ loop' \in LoopStates /\ After("note", loop.of)
                     /\ Spawned(loop'.p)
         /\ NoteStarted => loop' \in LoopStates /\ After("clear", loop.of)
         /\ NoteFailed => loop' \in LoopStates /\ After("cool", loop.of)
         /\ ClearFlag => loop' \in LoopStates /\ After("wait", loop.of)
         /\ KillFails => loop' \in LoopStates /\ After("spawn", loop.of)
         /\ SpawnFails \/ NoteLost => loop' \in LoopStates /\ After("cool", loop.of)
         /\ Restarted \/ Retry \/ ClearFails =>
               loop' = IdleLoop /\ IdleLoop \in LoopStates
<1>1. loop \in LoopStates /\ IdleLoop \in LoopStates /\ IdleLoop.pc = "idle"
  BY Zero DEF IInv, LoopOK, LoopStates, IdleLoop
<1>2. ASSUME TakeRequest
      PROVE  loop' \in LoopStates /\ After("kill", Head(queue))
  <2>1. Head(queue) \in Workers
    BY <1>2, HeadTailProperties DEF TakeRequest, IInv, QueueOK
  <2> DEFINE y == WithPc(IdleLoop, "kill")
             z == [y EXCEPT !.of = Head(queue)]
  <2>2. y \in LoopStates /\ y.pc = "kill"
    BY <1>1, PcField
  <2>3. loop' = z
    BY <1>2 DEF TakeRequest, WithPc
  <2> HIDE DEF y
  <2>4. z \in LoopStates /\ z.pc = "kill" /\ z.of = Head(queue)
    BY <2>1, <2>2 DEF LoopStates
  <2>. QED
    BY <2>3, <2>4 DEF After
<1>3. ASSUME KillWorker \/ KillFails
      PROVE  loop' \in LoopStates /\ After("spawn", loop.of)
  <2>1. loop' = WithPc(loop, "spawn")
    BY <1>3 DEF KillWorker, KillFails, WithPc
  <2>. QED
    BY <1>1, <2>1, PcField DEF After
<1>4. ASSUME Spawn
      PROVE  loop' \in LoopStates /\ After("note", loop.of) /\ Spawned(loop'.p)
  <2> DEFINE p == CHOOSE x \in Unused : TRUE
  <2>1. /\ loop' = [loop EXCEPT !.pc = "note", !.p = p] /\ p \in Unused
        /\ Spawned(p)
    BY <1>4 DEF Spawn, Spawned
  <2> HIDE DEF p
  <2>2. loop' = WithP(WithPc(loop, "note"), p)
    BY <2>1 DEF WithP, WithPc
  <2>3. p \in Procs \cup {NoProc}
    BY <2>1 DEF Unused
  <2>. QED
    BY <1>1, <2>1, <2>2, <2>3, PcField, PField DEF After
<1>5. ASSUME NoteStarted
      PROVE  loop' \in LoopStates /\ After("clear", loop.of)
  <2>1. loop' = WithPc(loop, "clear")
    BY <1>5 DEF NoteStarted, WithPc
  <2>. QED
    BY <1>1, <2>1, PcField DEF After
<1>6. ASSUME NEW pc \in {"cool", "wait"}, NEW n \in 0..(InitWait + Cooldown),
             loop' = WithWait(WithP(WithPc(loop, pc), NoProc), n)
      PROVE  loop' \in LoopStates /\ After(pc, loop.of)
  <2>1. WithPc(loop, pc) \in LoopStates /\ WithPc(loop, pc).of = loop.of /\ WithPc(loop, pc).pc = pc
    BY <1>1, PcField
  <2>. QED
    BY <1>6, <2>1, PField, WaitField DEF After
<1>7. Cooldown \in 0..(InitWait + Cooldown) /\ InitWait \in 0..(InitWait + Cooldown)
  BY Durations
<1>8. ASSUME NoteFailed \/ NoteLost
      PROVE  loop' \in LoopStates /\ After("cool", loop.of)
  <2>1. loop' = WithWait(WithP(WithPc(loop, "cool"), NoProc), Cooldown)
    BY <1>8 DEF NoteFailed, NoteLost, WithWait, WithP, WithPc
  <2>. QED
    BY <1>6, <1>7, <2>1
<1>9. ASSUME ClearFlag
      PROVE  loop' \in LoopStates /\ After("wait", loop.of)
  <2>1. loop' = WithWait(WithP(WithPc(loop, "wait"), NoProc), InitWait)
    BY <1>9 DEF ClearFlag, WithWait, WithP, WithPc
  <2>. QED
    BY <1>6, <1>7, <2>1
<1>10. Restarted \/ Retry \/ ClearFails => loop' = IdleLoop
  BY DEF Restarted, Retry, ClearFails
<1>11. ASSUME SpawnFails
       PROVE  loop' \in LoopStates /\ After("cool", loop.of)
  <2>1. loop' = WithWait(WithPc(loop, "cool"), Cooldown)
    BY <1>11 DEF SpawnFails, WithWait, WithPc
  <2>2. /\ WithPc(loop, "cool") \in LoopStates /\ WithPc(loop, "cool").pc = "cool"
        /\ WithPc(loop, "cool").of = loop.of
    BY <1>1, PcField
  <2>. QED
    BY <1>7, <2>1, <2>2, WaitField DEF After
<1>. QED
  BY <1>1, <1>2, <1>3, <1>4, <1>5, <1>8, <1>9, <1>10, <1>11

\* Reaping the zombies leaves those that run as they are.
LEMMA ReapedProcs ==
  ASSUME IInv, NEW q \in Procs
  PROVE  /\ Sane(Reaped[q]) /\ Reaped[q].of = proc[q].of
         /\ Reaped[q].state \in Running => Alive(q)
<1>1. Sane(proc[q])
  BY DEF IInv, ProcsOK
<1>2. CASE proc[q].state = "zombie"
  <2> DEFINE z == [proc[q] EXCEPT !.state = "gone"]
  <2>1. /\ z \in ProcStates /\ z.of = proc[q].of /\ z.state = "gone"
        /\ ~ z.stuck /\ ~ z.busy /\ ~ z.beats
    BY <1>1, <1>2 DEF Sane, ProcStates
  <2>2. Reaped[q] = z
    BY <1>2 DEF Reaped
  <2> HIDE DEF z
  <2>. QED
    BY <2>1, <2>2 DEF Sane, Running
<1>3. CASE proc[q].state # "zombie"
  BY <1>1, <1>3 DEF Reaped, Alive
<1>. QED
  BY <1>2, <1>3

\* A process that is started belongs to the worker that is restarted, and none of
\* those that run is touched.
LEMMA SpawnedProcs ==
  ASSUME IInv, NEW p, Spawned(p), loop.pc = "spawn"
  PROVE  /\ ProcsOK' /\ p \in Procs /\ proc'[p].of = loop.of
         /\ \A q \in Procs \ {p} : /\ proc'[q].of = proc[q].of
                                   /\ Alive(q)' => Alive(q)
         /\ \A w \in Workers : pid[w] # p
<1>1. p \in Procs /\ (\A w \in Workers : pid[w] # p) /\ loop.of \in Workers
  BY DEF Spawned, Unused, IInv, LoopOK
<1> DEFINE u == [NotStarted EXCEPT !.of = loop.of]
           v == [u EXCEPT !.state = "boot"]
           y == [v EXCEPT !.kid = TRUE]
<1>2. /\ u \in ProcStates /\ u.of = loop.of /\ ~ u.stuck /\ ~ u.busy /\ ~ u.beats
  BY <1>1, NotStartedType DEF ProcStates
<1> HIDE DEF u
<1>3. /\ v \in ProcStates /\ v.of = loop.of /\ ~ v.stuck /\ ~ v.busy /\ ~ v.beats
      /\ v.state = "boot"
  BY <1>2 DEF ProcStates
<1> HIDE DEF v
<1>4. /\ y \in ProcStates /\ y.of = loop.of /\ ~ y.stuck /\ ~ y.busy /\ ~ y.beats
      /\ y.state = "boot"
  BY <1>3 DEF ProcStates
<1>5. proc' = [Reaped EXCEPT ![p] = y]
  BY DEF Spawned, u, v
<1> HIDE DEF y
<1>6. Sane(y)
  BY <1>1, <1>4 DEF Sane
<1>7. \A q \in Procs : /\ Sane(Reaped[q]) /\ Reaped[q].of = proc[q].of
                       /\ Reaped[q].state \in Running => Alive(q)
  BY ReapedProcs
<1>8. DOMAIN Reaped = Procs /\ Reaped = [q \in Procs |-> Reaped[q]]
  BY DEF Reaped
<1>9. \A q \in Procs : proc'[q] = IF q = p THEN y ELSE Reaped[q]
  BY <1>1, <1>5, <1>8
<1>10. ProcsOK'
  BY <1>5, <1>6, <1>7, <1>8, <1>9 DEF ProcsOK, Sane
<1>. QED
  BY <1>1, <1>4, <1>7, <1>9, <1>10 DEF Alive

\* A start that failed leaves a process that is gone.
LEMMA FailedProcs ==
  ASSUME IInv, NoteFailed
  PROVE  /\ ProcsOK' /\ proc'[loop.p].state \notin Running /\ Only(loop.p)
<1> DEFINE p == loop.p
           y == [proc[p] EXCEPT !.state = "gone"]
<1>1. /\ p \in Procs /\ Sane(proc[p]) /\ proc[p].state \notin Running
      /\ proc' = [proc EXCEPT ![p] = y]
  BY DEF NoteFailed, IInv, LoopOK, ProcsOK, Alive
<1>2. /\ y \in ProcStates /\ y.of = proc[p].of /\ y.state = "gone"
      /\ ~ y.stuck /\ ~ y.busy /\ ~ y.beats
  BY <1>1 DEF Sane, ProcStates, Running
<1> HIDE DEF y
<1>3. Sane(y)
  BY <1>2 DEF Sane, Running
<1>4. \A q \in Procs : proc'[q] = IF q = p THEN y ELSE proc[q]
  BY <1>1 DEF IInv, ProcsOK
<1>5. ProcsOK'
  BY <1>1, <1>3, <1>4 DEF IInv, ProcsOK, Sane
<1>. QED
  BY <1>1, <1>2, <1>4, <1>5 DEF Alive, Only, Running

\* What the kill of a restart does to the processes.
LEMMA KilledProcs ==
  ASSUME IInv, loop.pc = "kill", Killed(loop.of)
  PROVE  /\ ProcsOK' /\ KeyOK' /\ loop.of \in Workers
         /\ \A q \in Procs : /\ proc'[q].of = proc[q].of
                             /\ Alive(q)' => Alive(q) /\ pid[loop.of] # q
<1> DEFINE w == loop.of
           p == pid[w]
<1>1. w \in Workers /\ ProcsOK /\ KeyOK
  BY DEF IInv, LoopOK
<1>2. CASE p # NoProc /\ Alive(p)
  <2>1. /\ p \in Procs /\ Sane(proc[p]) /\ proc[p].done \in 0..MaxDone
        /\ proc' = [proc EXCEPT ![p] = Dead(proc[p])]
    BY <1>1, <1>2 DEF Killed, IInv, PidOK, ProcsOK, Sane, ProcStates
  <2>2. Sane(Dead(proc[p])) /\ Dead(proc[p]).of = proc[p].of /\ Dead(proc[p]).state \notin Running
    BY <2>1, DeadSane
  <2>3. \A q \in Procs : proc'[q] = IF q = p THEN Dead(proc[p]) ELSE proc[q]
    BY <1>1, <2>1 DEF ProcsOK
  <2>4. ProcsOK'
    BY <1>1, <2>1, <2>2, <2>3 DEF ProcsOK, Sane
  <2>5. KeyOK'
    <3>1. Beaten(w, "false", FALSE, proc[p].done) \in KeyStates
      BY <1>1, <2>1, BeatenType
    <3>2. UNCHANGED key \/ key' = [key EXCEPT ![w] = Beaten(w, "false", FALSE, proc[p].done)]
      BY <1>2 DEF Killed
    <3>. QED
      BY <1>1, <3>1, <3>2 DEF KeyOK
  <2>. QED
    BY <1>1, <2>2, <2>3, <2>4, <2>5 DEF Alive
<1>3. CASE ~ (p # NoProc /\ Alive(p))
  <2>1. UNCHANGED <<proc, key>>
    BY <1>3 DEF Killed
  <2>2. NoProc \notin Procs
    BY MonitorAssumption
  <2>. QED
    BY <1>1, <1>3, <2>1, <2>2 DEF ProcsOK, KeyOK, Alive
<1>. QED
  BY <1>2, <1>3

LEMMA LoopInv ==
  ASSUME IInv, LoopStep
  PROVE  IInv'
<1>1. /\ ProcsOK /\ KeyOK /\ PidOK /\ QueueOK /\ LoopOK
      /\ loop.pc # "idle" => loop.of \in Workers
  BY DEF IInv, LoopOK
<1>2. SeenOK' /\ pass' \in PassStates /\ FaultOK'
  BY DEF LoopStep, TakeRequest, KillWorker, Spawn, NoteStarted, NoteFailed, ClearFlag,
         Restarted, Retry, redis, monitor, IInv, SeenOK, FaultOK
<1>3. CASE TakeRequest
  <2>1. loop' \in LoopStates /\ After("kill", Head(queue))
    BY <1>3, LoopMoves
  <2>2. Head(queue) \in Workers /\ Tail(queue) \in Seq(Workers)
    BY <1>1, <1>3, HeadTailProperties DEF TakeRequest, QueueOK
  <2>3. LoopOK' /\ QueueOK'
    BY <1>1, <1>3, <2>1, <2>2 DEF TakeRequest, QueueOK, LoopOK, After
  <2>. QED
    BY <1>1, <1>2, <1>3, <2>3 DEF TakeRequest, redis, IInv, ProcsOK, KeyOK, PidOK
<1>4. CASE KillWorker
  <2>1. /\ ProcsOK' /\ KeyOK' /\ loop.of \in Workers
        /\ \A q \in Procs : proc'[q].of = proc[q].of
    BY <1>4, KilledProcs DEF KillWorker
  <2>2. PidOK'
    BY <1>1, <1>4, <2>1 DEF KillWorker, PidOK
  <2>3. LoopOK' /\ QueueOK'
    BY <1>1, <1>4, <2>1, LoopMoves DEF KillWorker, LoopOK, After, QueueOK, monitor
  <2>. QED
    BY <1>2, <2>1, <2>2, <2>3 DEF IInv
<1>5. CASE Spawn
  <2>1. /\ loop' \in LoopStates /\ After("note", loop.of) /\ Spawned(loop'.p)
        /\ UNCHANGED <<key, pid, queue, marked>> /\ loop.pc = "spawn"
    BY <1>5, LoopMoves DEF Spawn, redis, monitor
  <2> DEFINE p == loop'.p
  <2>2. /\ ProcsOK' /\ p \in Procs /\ proc'[p].of = loop.of
        /\ \A q \in Procs \ {p} : proc'[q].of = proc[q].of
        /\ \A w \in Workers : pid[w] # p
    BY <2>1, SpawnedProcs
  <2>3. PidOK'
    BY <1>1, <2>1, <2>2 DEF PidOK
  <2>4. LoopOK'
    BY <1>1, <2>1, <2>2 DEF LoopOK, After
  <2>. QED
    BY <1>1, <1>2, <2>1, <2>2, <2>3, <2>4 DEF IInv, KeyOK, QueueOK
<1>6. CASE NoteStarted
  <2>1. loop.p \in Procs /\ proc[loop.p].of = loop.of /\ loop.of \in Workers
    BY <1>1, <1>6 DEF NoteStarted, LoopOK
  <2>2. PidOK'
    BY <1>1, <1>6, <2>1 DEF NoteStarted, PidOK
  <2>3. LoopOK'
    BY <1>1, <1>6, <2>1, LoopMoves DEF LoopOK, After
  <2>. QED
    BY <1>1, <1>2, <1>6, <2>2, <2>3 DEF NoteStarted, monitor, IInv, ProcsOK, KeyOK, QueueOK
<1>7. CASE NoteFailed
  <2>1. ProcsOK' /\ \A q \in Procs : proc'[q].of = proc[q].of
    BY <1>7, FailedProcs DEF Only
  <2>2. PidOK'
    BY <1>1, <1>7, <2>1 DEF NoteFailed, redis, PidOK
  <2>3. LoopOK'
    BY <1>1, <1>7, LoopMoves DEF NoteFailed, LoopOK, After
  <2>. QED
    BY <1>1, <1>2, <1>7, <2>1, <2>2, <2>3 DEF NoteFailed, redis, monitor, IInv, KeyOK, QueueOK
<1>8. CASE ClearFlag
  <2>1. KeyOK'
    <3>1. \A z \in KeyStates : [z EXCEPT !.flag = FALSE] \in KeyStates
      BY DEF KeyStates
    <3>2. key' = [key EXCEPT ![loop.of] = [key[loop.of] EXCEPT !.flag = FALSE]]
      BY <1>8 DEF ClearFlag
    <3>3. loop.of \in Workers
      BY <1>1, <1>8 DEF ClearFlag
    <3>4. [key[loop.of] EXCEPT !.flag = FALSE] \in KeyStates
      BY <1>1, <3>3 DEF KeyOK, KeyStates
    <3>. QED
      BY <1>1, <3>2, <3>4 DEF KeyOK
  <2>2. LoopOK'
    BY <1>1, <1>8, LoopMoves DEF ClearFlag, LoopOK, After
  <2>. QED
    BY <1>1, <1>2, <1>8, <2>1, <2>2 DEF ClearFlag, monitor, IInv, ProcsOK, PidOK, QueueOK
<1>9. CASE Restarted \/ Retry
  <2>1. LoopOK'
    BY <1>9, LoopMoves DEF LoopOK, IdleLoop
  <2>2. QueueOK'
    BY <1>1, <1>9, AppendProperties DEF Restarted, Retry, QueueOK, LoopOK
  <2>3. UNCHANGED <<proc, key, pid>>
    BY <1>9 DEF Restarted, Retry, redis
  <2>. QED
    BY <1>1, <1>2, <2>1, <2>2, <2>3 DEF IInv, ProcsOK, KeyOK, PidOK
<1>. QED
  BY <1>3, <1>4, <1>5, <1>6, <1>7, <1>8, <1>9 DEF LoopStep

\* A command of the monitor that failed.
LEMMA ErrorFault ==
  ASSUME FaultOK, ErrorStep
  PROVE  /\ FaultOK' /\ UNCHANGED overran
         /\ faults["error"] \in Nat /\ faults'["error"] = faults["error"] + 1
<1>1. Fault("error") /\ UNCHANGED overran /\ "error" \in Kinds
  BY DEF ErrorStep, PassBlind, PassFails, KillFails, SpawnFails, NoteLost, ClearFails, Kinds
<1>. QED
  BY <1>1, FaultCounted DEF FaultOK

LEMMA ErrorInv ==
  ASSUME IInv, ErrorStep
  PROVE  IInv'
<1>1. /\ ProcsOK /\ KeyOK /\ PidOK /\ QueueOK /\ LoopOK /\ FaultOK'
      /\ loop.pc # "idle" => loop.of \in Workers
  BY ErrorFault DEF IInv, LoopOK
<1>2. CASE PassBlind \/ PassFails
  <2>1. UNCHANGED <<proc, key, pid, seen, queue, marked, loop>>
    BY <1>2 DEF PassBlind, PassFails, redis
  <2>2. pass' \in PassStates
    BY <1>2 DEF PassBlind, PassFails, Resting, PassStates, IInv
  <2>. QED
    BY <1>1, <2>1, <2>2 DEF IInv, ProcsOK, KeyOK, PidOK, SeenOK, QueueOK, LoopOK
<1>3. ASSUME UNCHANGED <<seen, pass, queue, marked>>, ProcsOK', KeyOK', PidOK', LoopOK'
      PROVE  IInv'
  BY <1>1, <1>3 DEF IInv, SeenOK, QueueOK
<1>4. CASE KillFails
  <2>1. UNCHANGED <<seen, pass, queue, marked>> /\ loop.of \in Workers
    BY <1>1, <1>4 DEF KillFails, monitor
  <2>2. LoopOK'
    BY <1>1, <1>4, LoopMoves DEF KillFails, LoopOK, After
  <2>3. /\ ProcsOK' /\ KeyOK' /\ \A q \in Procs : proc'[q].of = proc[q].of
        /\ UNCHANGED pid \/ pid' = [pid EXCEPT ![loop.of] = NoProc]
    <3>1. CASE UNCHANGED <<proc, redis>>
      BY <1>1, <3>1 DEF ProcsOK, KeyOK, redis
    <3>2. CASE Killed(loop.of) /\ pid' \in {pid, [pid EXCEPT ![loop.of] = NoProc]}
      BY <1>4, <3>2, KilledProcs DEF KillFails
    <3>. QED
      BY <1>4, <3>1, <3>2 DEF KillFails
  <2>4. PidOK'
    BY <1>1, <2>1, <2>3 DEF PidOK
  <2>. QED
    BY <1>3, <2>1, <2>2, <2>3, <2>4
<1>5. CASE SpawnFails
  <2>1. UNCHANGED <<key, pid, seen, pass, queue, marked>> /\ proc' \in {proc, Reaped}
    BY <1>5 DEF SpawnFails, redis, monitor
  <2>2. LoopOK'
    BY <1>1, <1>5, LoopMoves DEF SpawnFails, LoopOK, After
  <2>3. ASSUME NEW q \in Procs
        PROVE  Sane(proc'[q]) /\ proc'[q].of = proc[q].of
    BY <1>1, <2>1, ReapedProcs DEF ProcsOK
  <2>4. proc' = [q \in Procs |-> proc'[q]]
    BY <1>1, <2>1 DEF ProcsOK, Reaped
  <2>5. ProcsOK' /\ PidOK'
    BY <1>1, <2>1, <2>3, <2>4 DEF ProcsOK, Sane, PidOK
  <2>. QED
    BY <1>1, <1>3, <2>1, <2>2, <2>5 DEF KeyOK
<1>6. CASE NoteLost
  <2>1. loop.p \in Procs /\ proc[loop.p].of = loop.of /\ loop.of \in Workers
    BY <1>1, <1>6 DEF NoteLost, LoopOK
  <2>2. PidOK'
    BY <1>1, <1>6, <2>1 DEF NoteLost, PidOK
  <2>3. LoopOK'
    BY <1>1, <1>6, <2>1, LoopMoves DEF LoopOK, After
  <2>. QED
    BY <1>1, <1>3, <1>6, <2>2, <2>3 DEF NoteLost, monitor, ProcsOK, KeyOK
<1>7. CASE ClearFails
  <2>1. KeyOK'
    <3>1. loop.of \in Workers
      BY <1>1, <1>7 DEF ClearFails
    <3>2. [key[loop.of] EXCEPT !.flag = FALSE] \in KeyStates
      BY <1>1, <3>1 DEF KeyOK, KeyStates
    <3>3. UNCHANGED key \/ key' = [key EXCEPT ![loop.of] =
                                        [key[loop.of] EXCEPT !.flag = FALSE]]
      BY <1>7 DEF ClearFails
    <3>. QED
      BY <1>1, <3>2, <3>3 DEF KeyOK
  <2>2. LoopOK'
    BY <1>7, LoopMoves DEF LoopOK, IdleLoop
  <2>. QED
    BY <1>1, <1>3, <1>7, <2>1, <2>2 DEF ClearFails, monitor, ProcsOK, PidOK
<1>. QED
  BY <1>2, <1>4, <1>5, <1>6, <1>7 DEF ErrorStep

LEMMA IInvStep == IInv /\ [Next]_vars => IInv'
<1> SUFFICES ASSUME IInv, [Next]_vars
             PROVE  IInv'
  OBVIOUS
<1>1. CASE UNCHANGED vars
  BY <1>1 DEF vars, IInv, ProcsOK, KeyOK, PidOK, SeenOK, QueueOK, LoopOK, FaultOK
<1>2. CASE Next
  BY <1>2, LifeInv, FaultInv, PassInv, LoopInv, ErrorInv, ExpireInv, TickInv DEF Next
<1>. QED
  BY <1>1, <1>2

LEMMA IInvHolds == Spec => []IInv
BY IInvInit, IInvStep, PTL DEF Spec

-----------------------------------------------------------------------------
(* Marks. *)

LEMMA RangeAppend ==
  ASSUME NEW s \in Seq(Workers), NEW w \in Workers
  PROVE  Range(Append(s, w)) = Range(s) \cup {w}
<1>1. /\ Append(s, w) \in Seq(Workers) /\ Len(Append(s, w)) = Len(s) + 1
      /\ \A i \in 1..Len(s) : Append(s, w)[i] = s[i]
      /\ Append(s, w)[Len(s) + 1] = w
  BY AppendProperties
<1>2. /\ DOMAIN s = 1..Len(s) /\ Len(s) \in Nat
      /\ DOMAIN Append(s, w) = 1..(Len(s) + 1)
  BY <1>1, LenProperties
<1>3. 1..(Len(s) + 1) = 1..Len(s) \cup {Len(s) + 1}
  BY <1>2
<1>4. /\ DOMAIN Append(s, w) = DOMAIN s \cup {Len(s) + 1}
      /\ \A i \in DOMAIN s : Append(s, w)[i] = s[i]
  BY <1>1, <1>2, <1>3
<1>. QED
  BY <1>1, <1>4 DEF Range

LEMMA RangeTail ==
  ASSUME NEW s \in Seq(Workers), s # <<>>
  PROVE  Range(s) \subseteq {Head(s)} \cup Range(Tail(s))
<1>1. /\ Len(s) \in Nat /\ Len(s) > 0 /\ DOMAIN s = 1..Len(s)
      /\ Head(s) = s[1]
  BY LenProperties, EmptySeq
<1>2. /\ DOMAIN Tail(s) = 1..(Len(s) - 1)
      /\ \A i \in 1..(Len(s) - 1) : Tail(s)[i] = s[i + 1]
  BY <1>1, HeadTailProperties, LenProperties
<1>3. ASSUME NEW i \in DOMAIN s
      PROVE  s[i] = Head(s) \/ \E j \in DOMAIN Tail(s) : s[i] = Tail(s)[j]
  <2>1. CASE i = 1
    BY <1>1, <2>1
  <2>2. CASE i # 1
    <3>1. i - 1 \in 1..(Len(s) - 1) /\ (i - 1) + 1 = i
      BY <1>1, <2>2
    <3>2. Tail(s)[i - 1] = s[i]
      BY <1>2, <3>1
    <3>. QED
      BY <1>2, <3>1, <3>2
  <2>. QED
    BY <2>1, <2>2
<1>. QED
  BY <1>3 DEF Range

\* A set that lost nothing but gained at most x.
LEMMA AtMostOneMore ==
  ASSUME NEW S, NEW T, NEW x, IsFiniteSet(S), T \subseteq S \cup {x}
  PROVE  /\ IsFiniteSet(T) /\ Cardinality(S) \in Nat /\ Cardinality(T) \in Nat
         /\ Cardinality(T) <= Cardinality(S) + 1
         /\ T \subseteq S => Cardinality(T) <= Cardinality(S)
<1>1. /\ IsFiniteSet(S \cup {x}) /\ Cardinality(S) \in Nat
      /\ Cardinality(S \cup {x}) <= Cardinality(S) + 1
  <2>1. Cardinality(S) \in Nat
    BY FS_CardinalityType
  <2>2. /\ IsFiniteSet(S \cup {x})
        /\ Cardinality(S \cup {x}) =
             IF x \in S THEN Cardinality(S) ELSE Cardinality(S) + 1
    BY FS_AddElement
  <2>. QED
    BY <2>1, <2>2
<1>2. /\ IsFiniteSet(T) /\ Cardinality(T) \in Nat
      /\ Cardinality(T) <= Cardinality(S \cup {x}) /\ Cardinality(S \cup {x}) \in Nat
  BY <1>1, FS_Subset, FS_CardinalityType
<1>3. T \subseteq S => Cardinality(T) <= Cardinality(S)
  BY FS_Subset
<1>. QED
  BY <1>1, <1>2, <1>3

LEMMA LeftFinite == IInv => IsFiniteSet(LeftBehind)
BY MonitorAssumption, FS_Subset DEF IInv, QueueOK, LeftBehind

\* No fault is ever taken back.
LEMMA FaultsGrow ==
  ASSUME IInv, [Next]_vars
  PROVE  /\ faults["error"] \in Nat /\ faults'["error"] \in Nat
         /\ faults["error"] <= faults'["error"]
<1>1. faults \in [Kinds -> Nat] /\ "error" \in Kinds
  BY DEF IInv, FaultOK, Kinds
<1>2. CASE \E k \in Kinds : Fault(k)
  <2>1. PICK k \in Kinds : Fault(k)
    BY <1>2
  <2>2. /\ faults' \in [Kinds -> Nat]
        /\ \A j \in Kinds : faults'[j] = IF j = k THEN faults[j] + 1 ELSE faults[j]
    BY <2>1, FaultCounted DEF IInv
  <2>. QED
    BY <1>1, <2>2
<1>3. CASE UNCHANGED faults
  BY <1>1, <1>3
<1>4. (\E k \in Kinds : Fault(k)) \/ UNCHANGED faults
  <2>1. CASE \E p \in Procs : FaultStep(p)
    BY <2>1 DEF FaultStep, Crash, Wedge, LoseHeartbeat, Quit, InitFails, Kinds
  <2>2. CASE ErrorStep
    BY <2>2 DEF ErrorStep, PassBlind, PassFails, KillFails, SpawnFails, NoteLost,
                ClearFails, Kinds
  <2>3. CASE \E p \in Procs : LifeStep(p) \/ TakeTask(p)
    BY <2>3 DEF LifeStep, Boot, Ready, Heartbeat, FinishTask, TakeTask
  <2>4. CASE PassStep
    BY <2>4 DEF PassStep, PassBegins, CheckWorker, PassExpects, ExpectWorker, PassEnds
  <2>5. CASE LoopStep
    BY <2>5 DEF LoopStep, TakeRequest, KillWorker, Spawn, NoteStarted, NoteFailed,
                ClearFlag, Restarted, Retry
  <2>6. CASE (\E w \in Workers : Expire(w)) \/ Tick \/ UNCHANGED vars
    BY <2>6 DEF Expire, Tick, vars
  <2>. QED
    BY <2>1, <2>2, <2>3, <2>4, <2>5, <2>6 DEF Next
<1>. QED
  BY <1>2, <1>3, <1>4

\* Nobody else is left behind by a step of a process, of time or of a pass.
LEMMA StillMarked ==
  ASSUME UNCHANGED <<queue, marked>>, loop'.pc = loop.pc, loop'.of = loop.of
  PROVE  LeftBehind' \subseteq LeftBehind
BY DEF LeftBehind

LEMMA RequestMarks ==
  ASSUME QueueOK, NEW w \in Workers, Request(w) \/ NoRequest, UNCHANGED loop
  PROVE  LeftBehind' \subseteq LeftBehind
BY RangeAppend DEF QueueOK, LeftBehind, Request, NoRequest

LEMMA LoopMarks ==
  ASSUME IInv, LoopStep
  PROVE  LeftBehind' \subseteq LeftBehind
<1>1. queue \in Seq(Workers) /\ (loop.pc # "idle" => loop.of \in Workers)
  BY DEF IInv, QueueOK, LoopOK
<1>2. CASE TakeRequest
  <2>1. /\ loop.pc = "idle" /\ loop'.pc = "kill" /\ loop'.of = Head(queue)
        /\ queue # <<>> /\ queue' = Tail(queue) /\ marked' = marked
    BY <1>2, LoopMoves DEF TakeRequest, After
  <2>. QED
    BY <1>1, <2>1, RangeTail DEF LeftBehind
<1>3. CASE KillWorker \/ Spawn \/ NoteStarted \/ NoteFailed \/ ClearFlag
  <2>1. UNCHANGED <<queue, marked>>
    BY <1>3 DEF KillWorker, Spawn, NoteStarted, NoteFailed, ClearFlag, monitor
  <2>2. loop'.pc # "idle" /\ loop'.of = loop.of
    BY <1>3, LoopMoves DEF After
  <2>. QED
    BY <2>1, <2>2 DEF LeftBehind
<1>4. CASE Restarted
  <2>1. marked' = marked \ {loop.of} /\ queue' = queue
    BY <1>4 DEF Restarted
  <2>. QED
    BY <2>1 DEF LeftBehind
<1>5. CASE Retry
  <2>1. /\ marked' = marked \ {loop.of} /\ queue' = Append(queue, loop.of)
        /\ loop.of \in Workers
    BY <1>1, <1>5 DEF Retry
  <2>. QED
    BY <1>1, <2>1, RangeAppend DEF LeftBehind
<1>. QED
  BY <1>2, <1>3, <1>4, <1>5 DEF LoopStep

\* A failed hdel leaves the worker behind that is restarted, and no other.
LEMMA ErrorMarks ==
  ASSUME IInv, ErrorStep
  PROVE  LeftBehind' \subseteq LeftBehind \cup {loop.of}
<1>1. CASE PassBlind \/ PassFails
  BY <1>1 DEF PassBlind, PassFails, LeftBehind
<1>2. CASE KillFails \/ SpawnFails \/ NoteLost
  <2>1. UNCHANGED <<queue, marked>> /\ loop'.pc # "idle" /\ loop'.of = loop.of
    BY <1>2, LoopMoves DEF KillFails, SpawnFails, NoteLost, monitor, After
  <2>. QED
    BY <2>1 DEF LeftBehind
<1>3. CASE ClearFails
  BY <1>3 DEF ClearFails, monitor, LeftBehind
<1>. QED
  BY <1>1, <1>2, <1>3 DEF ErrorStep

LEMMA MarksStep == IInv /\ MarkedIsServed /\ [Next]_vars => MarkedIsServed'
<1> SUFFICES ASSUME IInv, MarkedIsServed, [Next]_vars
             PROVE  MarkedIsServed'
  OBVIOUS
<1>1. /\ faults["error"] \in Nat /\ faults'["error"] \in Nat
      /\ faults["error"] <= faults'["error"] /\ IsFiniteSet(LeftBehind)
  BY FaultsGrow, LeftFinite
<1>2. CASE LeftBehind' \subseteq LeftBehind
  BY <1>1, <1>2, AtMostOneMore DEF MarkedIsServed
<1>3. CASE ErrorStep
  <2>1. faults'["error"] = faults["error"] + 1
    BY <1>3, ErrorFault DEF IInv
  <2>2. LeftBehind' \subseteq LeftBehind \cup {loop.of}
    BY <1>3, ErrorMarks
  <2>3. /\ Cardinality(LeftBehind') <= Cardinality(LeftBehind) + 1
        /\ Cardinality(LeftBehind) \in Nat /\ Cardinality(LeftBehind') \in Nat
    BY <1>1, <2>2, AtMostOneMore
  <2>. QED
    BY <1>1, <2>1, <2>3 DEF MarkedIsServed
<1>4. CASE UNCHANGED vars
  BY <1>2, <1>4 DEF vars, LeftBehind
<1>5. ASSUME NEW p \in Procs, LifeStep(p) \/ TakeTask(p) \/ FaultStep(p)
      PROVE  MarkedIsServed'
  <2>1. UNCHANGED <<queue, marked, loop>>
    BY <1>5 DEF LifeStep, Boot, Ready, Heartbeat, FinishTask, TakeTask, FaultStep, Crash,
                Wedge, LoseHeartbeat, Quit, InitFails, monitor
  <2>. QED
    BY <1>2, <2>1, StillMarked
<1>6. CASE PassStep
  <2>1. CASE PassBegins \/ PassExpects \/ PassEnds
    BY <1>2, <2>1, StillMarked DEF PassBegins, PassExpects, PassEnds
  <2>2. ASSUME NEW w \in Workers, CheckWorker(w) \/ ExpectWorker(w)
        PROVE  MarkedIsServed'
    <3>1. (Request(w) \/ NoRequest) /\ UNCHANGED loop
      BY <2>2 DEF CheckWorker, ExpectWorker
    <3>. QED
      BY <1>2, <3>1, RequestMarks DEF IInv
  <2>. QED
    BY <1>6, <2>1, <2>2 DEF PassStep
<1>7. CASE LoopStep
  BY <1>2, <1>7, LoopMarks
<1>8. ASSUME NEW w \in Workers, Expire(w)
      PROVE  MarkedIsServed'
  BY <1>2, <1>8, StillMarked DEF Expire, monitor
<1>9. CASE Tick
  <2>1. loop' = WithWait(loop, IF loop.wait > 0 THEN loop.wait - 1 ELSE 0)
    BY <1>9 DEF Tick, WithWait
  <2>2. loop \in LoopStates
    BY DEF IInv, LoopOK
  <2>3. loop'.pc = loop.pc /\ loop'.of = loop.of /\ UNCHANGED <<queue, marked>>
    BY <1>9, <2>1, <2>2 DEF Tick, WithWait, LoopStates
  <2>. QED
    BY <1>2, <2>3, StillMarked
<1>. QED
  BY <1>3, <1>4, <1>5, <1>6, <1>7, <1>8, <1>9 DEF Next

-----------------------------------------------------------------------------
(* Owners.  The main process of a worker is the one the monitor has just started,
   else the one whose pid it has; nobody while it is about to start one.  Any other
   that runs is an orphan, which cost a failed command or was started by hand. *)

Main(w) == IF loop.of = w /\ loop.pc = "note" THEN loop.p
           ELSE IF loop.of = w /\ loop.pc = "spawn" THEN NoProc
           ELSE pid[w]
Orphans(w) == {p \in Procs : Alive(p) /\ proc[p].of = w /\ p # Main(w)}
Allowed(w) == faults["error"] + (IF w \in Launched THEN 1 ELSE 0)
Owned == \A w \in Workers : Cardinality(Orphans(w)) <= Allowed(w)

LEMMA OrphansFinite == \A w : IsFiniteSet(Orphans(w))
BY MonitorAssumption, FS_Subset DEF Orphans

LEMMA OwnedOne == IInv /\ Owned => OneProcess
<1> SUFFICES ASSUME IInv, Owned, NEW w \in Workers
             PROVE  Cardinality(Processes(w)) <= 1 + Allowed(w)
  BY DEF OneProcess, Allowed, IInv, FaultOK, Kinds
<1>1. Processes(w) \subseteq Orphans(w) \cup {Main(w)}
  BY DEF Processes, Orphans
<1>2. /\ Cardinality(Processes(w)) \in Nat /\ Cardinality(Orphans(w)) \in Nat
      /\ Cardinality(Processes(w)) <= Cardinality(Orphans(w)) + 1
  BY <1>1, OrphansFinite, AtMostOneMore
<1>3. Cardinality(Orphans(w)) <= Allowed(w) /\ Allowed(w) \in Nat
  BY DEF Owned, Allowed, IInv, FaultOK, Kinds
<1>. QED
  BY <1>2, <1>3

LEMMA OwnedInit == Init => Owned
<1> SUFFICES ASSUME Init, NEW w \in Workers
             PROVE  Cardinality(Orphans(w)) <= Allowed(w)
  BY DEF Owned
<1>1. PICK f \in [Launched -> Procs] :
        /\ IsInjective(f)
        /\ proc = [p \in Procs |->
                     IF \E v \in Launched : f[v] = p
                     THEN [NotStarted EXCEPT !.of = CHOOSE v \in Launched : f[v] = p,
                                             !.state = "up", !.beats = TRUE]
                     ELSE NotStarted]
  BY DEF Init
<1>2. faults["error"] = 0
  BY DEF Init, Kinds
<1>3. ASSUME NEW p \in Procs, Alive(p), proc[p].of = w
      PROVE  w \in Launched /\ p = f[w]
  <2>1. CASE \E v \in Launched : f[v] = p
    <3> DEFINE u == CHOOSE v \in Launched : f[v] = p
    <3>1. u \in Launched /\ f[u] = p
      BY <2>1
    <3>2. proc[p] = [NotStarted EXCEPT !.of = u, !.state = "up", !.beats = TRUE]
      BY <1>1, <2>1
    <3> HIDE DEF u
    <3>3. proc[p].of = u
      BY <3>2 DEF NotStarted
    <3>. QED
      BY <1>3, <3>1, <3>3
  <2>2. CASE ~ \E v \in Launched : f[v] = p
    BY <1>1, <1>3, <2>2 DEF NotStarted, Alive, Running
  <2>. QED
    BY <2>1, <2>2
<1>4. CASE w \in Launched
  <2>1. Orphans(w) \subseteq {} \cup {f[w]}
    BY <1>3 DEF Orphans
  <2>2. Cardinality(Orphans(w)) <= Cardinality({}) + 1 /\ Cardinality({}) = 0
    BY <2>1, AtMostOneMore, FS_EmptySet
  <2>. QED
    BY <1>2, <1>4, <2>2 DEF Allowed
<1>5. CASE w \notin Launched
  <2>1. Orphans(w) = {}
    BY <1>3, <1>5 DEF Orphans
  <2>. QED
    BY <1>2, <1>5, <2>1, FS_EmptySet DEF Allowed
<1>. QED
  BY <1>4, <1>5

\* Where nobody becomes an orphan, or one at most for a failed command, or one for
\* another, the bound is kept.
LEMMA OwnedBy ==
  ASSUME IInv, Owned, [Next]_vars, NEW v,
         \A w \in Workers : w # v => Orphans(w)' \subseteq Orphans(w),
         \/ Orphans(v)' \subseteq Orphans(v)
         \/ /\ faults'["error"] = faults["error"] + 1
            /\ \E x : Orphans(v)' \subseteq Orphans(v) \cup {x}
         \/ \E x, y : y \in Orphans(v) /\ Orphans(v)' \subseteq (Orphans(v) \ {y}) \cup {x}
  PROVE  Owned'
<1> SUFFICES ASSUME NEW w \in Workers
             PROVE  Cardinality(Orphans(w)') <= Allowed(w)'
  BY DEF Owned
<1>1. /\ Allowed(w) \in Nat /\ Allowed(w)' \in Nat /\ Allowed(w) <= Allowed(w)'
      /\ faults'["error"] = faults["error"] + 1 => Allowed(w)' = Allowed(w) + 1
  BY FaultsGrow DEF Allowed
<1>2. /\ IsFiniteSet(Orphans(w)) /\ Cardinality(Orphans(w)) \in Nat
      /\ Cardinality(Orphans(w)) <= Allowed(w)
  BY OrphansFinite, FS_CardinalityType DEF Owned
<1>3. CASE Orphans(w)' \subseteq Orphans(w)
  <2>1. /\ Cardinality(Orphans(w)') \in Nat
        /\ Cardinality(Orphans(w)') <= Cardinality(Orphans(w))
    BY <1>2, <1>3, AtMostOneMore
  <2>. QED
    BY <1>1, <1>2, <2>1
<1>4. ASSUME NEW x, Orphans(w)' \subseteq Orphans(w) \cup {x},
             faults'["error"] = faults["error"] + 1
      PROVE  Cardinality(Orphans(w)') <= Allowed(w)'
  <2>1. /\ Cardinality(Orphans(w)') \in Nat
        /\ Cardinality(Orphans(w)') <= Cardinality(Orphans(w)) + 1
    BY <1>2, <1>4, AtMostOneMore
  <2>. QED
    BY <1>1, <1>2, <1>4, <2>1
<1>5. ASSUME NEW x, NEW y \in Orphans(w),
             Orphans(w)' \subseteq (Orphans(w) \ {y}) \cup {x}
      PROVE  Cardinality(Orphans(w)') <= Allowed(w)'
  <2>1. /\ IsFiniteSet(Orphans(w) \ {y})
        /\ Cardinality(Orphans(w) \ {y}) = Cardinality(Orphans(w)) - 1
    BY <1>2, FS_RemoveElement
  <2>2. /\ Cardinality(Orphans(w)') \in Nat
        /\ Cardinality(Orphans(w)') <= Cardinality(Orphans(w) \ {y}) + 1
    BY <1>5, <2>1, AtMostOneMore
  <2>. QED
    BY <1>1, <1>2, <2>1, <2>2
<1>. QED
  BY <1>3, <1>4, <1>5

LEMMA OwnedKept ==
  ASSUME IInv, Owned, [Next]_vars, \A w \in Workers : Orphans(w)' \subseteq Orphans(w)
  PROVE  Owned'
<1>1. CASE Workers = {}
  BY <1>1 DEF Owned
<1>2. CASE Workers # {}
  <2>1. PICK v \in Workers : TRUE
    BY <1>2
  <2>. QED
    BY <2>1, OwnedBy
<1>. QED
  BY <1>1, <1>2

\* Who runs goes on being of the same worker, and the main processes stay.
LEMMA OwnedStill ==
  ASSUME IInv, Owned, [Next]_vars,
         \A q \in Procs : Alive(q)' => Alive(q) /\ proc'[q].of = proc[q].of,
         UNCHANGED pid, loop'.pc = loop.pc, loop'.of = loop.of, loop'.p = loop.p
  PROVE  Owned'
<1>1. \A w \in Workers : Main(w)' = Main(w)
  BY DEF Main
<1>2. \A w \in Workers : Orphans(w)' \subseteq Orphans(w)
  BY <1>1 DEF Orphans
<1>. QED
  BY <1>2, OwnedKept

\* A step of a process that runs; one that stops may take the pid of its worker with
\* it, and leave the one that has it an orphan in its place.
LEMMA OwnedProc ==
  ASSUME IInv, Owned, [Next]_vars, NEW p \in Procs, Alive(p), Only(p), UNCHANGED loop,
         UNCHANGED pid \/ (~ Alive(p)' /\ PidLeft(p))
  PROVE  Owned'
<1>1. proc[p].of \in Workers /\ pid \in [Workers -> Procs \cup {NoProc}]
  BY DEF IInv, ProcsOK, Sane, Alive, PidOK
<1>2. \A q \in Procs : Alive(q)' => Alive(q) /\ proc'[q].of = proc[q].of
  BY DEF Only, Alive
<1>3. CASE UNCHANGED pid
  BY <1>2, <1>3, OwnedStill
<1>4. CASE ~ Alive(p)' /\ pid' = [pid EXCEPT ![proc[p].of] = NoProc]
  <2>. PICK v \in Workers : v = proc[p].of
    BY <1>1
  <2>0. pid' = [pid EXCEPT ![v] = NoProc]
    BY <1>4
  <2>1. \A w \in Workers : w # v => Main(w)' = Main(w)
    BY <1>1, <2>0 DEF Main
  <2>2. \A w \in Workers : w # v => Orphans(w)' \subseteq Orphans(w)
    BY <1>2, <2>1 DEF Orphans
  <2>3. CASE p = Main(v)
    <3>1. Orphans(v)' \subseteq Orphans(v)
      BY <1>2, <1>4, <2>3 DEF Orphans
    <3>. QED
      BY <2>2, <3>1, OwnedBy
  <2>4. CASE p # Main(v)
    <3>1. p \in Orphans(v)
      BY <2>4 DEF Orphans
    <3>2. Orphans(v)' \subseteq (Orphans(v) \ {p}) \cup {Main(v)}
      BY <1>2, <1>4 DEF Orphans
    <3>. QED
      BY <2>2, <3>1, <3>2, OwnedBy
  <2>. QED
    BY <2>3, <2>4
<1>. QED
  BY <1>3, <1>4 DEF PidLeft

\* A step of the restart loop: where it takes place and whom it makes the main one.
LEMMA OwnedLoop ==
  ASSUME IInv, Owned, [Next]_vars, LoopStep
  PROVE  Owned'
<1>1. /\ NoProc \notin Procs /\ pid \in [Workers -> Procs \cup {NoProc}]
      /\ loop.pc # "idle" => loop.of \in Workers
  BY MonitorAssumption DEF IInv, PidOK, LoopOK
<1>2. CASE TakeRequest
  <2>1. loop.pc = "idle" /\ loop'.pc = "kill" /\ UNCHANGED <<proc, pid>>
    BY <1>2, LoopMoves DEF TakeRequest, redis, After
  <2>2. \A w \in Workers : Orphans(w)' \subseteq Orphans(w)
    BY <2>1 DEF Orphans, Main, Alive
  <2>. QED
    BY <2>2, OwnedKept
<1>3. CASE KillWorker
  <2>1. /\ loop.pc = "kill" /\ loop'.pc = "spawn" /\ loop'.of = loop.of
        /\ pid' = [pid EXCEPT ![loop.of] = NoProc]
        /\ \A q \in Procs : /\ proc'[q].of = proc[q].of
                            /\ Alive(q)' => Alive(q) /\ pid[loop.of] # q
    BY <1>3, LoopMoves, KilledProcs DEF KillWorker, After
  <2>2. \A w \in Workers : Orphans(w)' \subseteq Orphans(w)
    BY <1>1, <2>1 DEF Orphans, Main
  <2>. QED
    BY <2>2, OwnedKept
<1>4. CASE Spawn
  <2>1. /\ loop.pc = "spawn" /\ loop'.pc = "note" /\ loop'.of = loop.of
        /\ Spawned(loop'.p) /\ UNCHANGED pid
    BY <1>4, LoopMoves DEF Spawn, After, redis
  <2> DEFINE p == loop'.p
  <2>2. /\ proc'[p].of = loop.of
        /\ \A q \in Procs \ {p} : proc'[q].of = proc[q].of /\ (Alive(q)' => Alive(q))
    BY <2>1, SpawnedProcs
  <2>3. \A w \in Workers : Orphans(w)' \subseteq Orphans(w)
    BY <1>1, <2>1, <2>2 DEF Orphans, Main
  <2>. QED
    BY <2>3, OwnedKept
<1>5. CASE NoteStarted
  <2>1. /\ loop.pc = "note" /\ loop'.pc = "clear" /\ loop'.of = loop.of /\ UNCHANGED proc
        /\ pid' = [pid EXCEPT ![loop.of] = loop.p]
    BY <1>5, LoopMoves DEF NoteStarted, After
  <2>2. \A w \in Workers : Orphans(w)' \subseteq Orphans(w)
    BY <1>1, <2>1 DEF Orphans, Main, Alive
  <2>. QED
    BY <2>2, OwnedKept
<1>6. CASE NoteFailed
  <2>1. /\ loop.pc = "note" /\ loop'.pc = "cool" /\ loop'.of = loop.of /\ UNCHANGED pid
        /\ proc'[loop.p].state \notin Running /\ Only(loop.p)
    BY <1>6, LoopMoves, FailedProcs DEF NoteFailed, After, redis
  <2>2. \A q \in Procs : Alive(q)' => /\ q # loop.p /\ Alive(q)
                                      /\ proc'[q].of = proc[q].of
    BY <2>1 DEF Only, Alive
  <2>3. \A w \in Workers : Orphans(w)' \subseteq Orphans(w)
    BY <2>1, <2>2 DEF Orphans, Main
  <2>. QED
    BY <2>3, OwnedKept
<1>7. CASE ClearFlag \/ Restarted \/ Retry
  <2>1. /\ loop.pc \notin {"note", "spawn"} /\ loop'.pc \in {"wait", "idle"}
        /\ UNCHANGED <<proc, pid>>
    BY <1>7, LoopMoves DEF ClearFlag, Restarted, Retry, After, redis, IdleLoop
  <2>2. \A w \in Workers : Orphans(w)' \subseteq Orphans(w)
    BY <2>1 DEF Orphans, Main, Alive
  <2>. QED
    BY <2>2, OwnedKept
<1>. QED
  BY <1>2, <1>3, <1>4, <1>5, <1>6, <1>7 DEF LoopStep

\* A failed command makes an orphan of one process at most: the one that was not
\* killed, or the one whose pid was not written.
LEMMA OwnedError ==
  ASSUME IInv, Owned, [Next]_vars, ErrorStep
  PROVE  Owned'
<1>1. /\ loop.pc # "idle" => loop.of \in Workers
      /\ faults'["error"] = faults["error"] + 1
      /\ pid \in [Workers -> Procs \cup {NoProc}]
  BY ErrorFault DEF IInv, PidOK, LoopOK
<1>2. CASE PassBlind \/ PassFails
  <2>1. UNCHANGED <<proc, pid, loop>>
    BY <1>2 DEF PassBlind, PassFails, redis
  <2>. QED
    BY <2>1, OwnedStill DEF Alive
<1>3. CASE KillFails
  <2>1. /\ loop.pc = "kill" /\ loop'.pc = "spawn" /\ loop'.of = loop.of
        /\ UNCHANGED pid \/ pid' = [pid EXCEPT ![loop.of] = NoProc]
    BY <1>3, LoopMoves DEF KillFails, After, redis
  <2>2. ASSUME NEW q \in Procs
        PROVE  /\ proc'[q].of = proc[q].of /\ (Alive(q)' => Alive(q))
               /\ UNCHANGED pid \/ (Alive(q)' => pid[loop.of] # q)
    <3>1. CASE UNCHANGED <<proc, redis>>
      BY <3>1 DEF Alive, redis
    <3>2. CASE Killed(loop.of)
      BY <1>3, <3>2, KilledProcs DEF KillFails
    <3>. QED
      BY <1>3, <3>1, <3>2 DEF KillFails
  <2>. PICK v \in Workers : v = loop.of
    BY <1>1, <2>1
  <2>. PICK x : x = pid[v]
    OBVIOUS
  <2>3. \A w \in Workers : w # v => Orphans(w)' \subseteq Orphans(w)
    BY <1>1, <2>1, <2>2 DEF Orphans, Main
  <2>4. Orphans(v)' \subseteq Orphans(v) \cup {x}
    BY <1>1, <2>1, <2>2 DEF Orphans, Main
  <2>. QED
    BY <1>1, <2>3, <2>4, OwnedBy
<1>4. CASE SpawnFails
  <2>1. /\ loop.pc = "spawn" /\ loop'.pc = "cool" /\ loop'.of = loop.of /\ UNCHANGED pid
        /\ proc' \in {proc, Reaped}
    BY <1>4, LoopMoves DEF SpawnFails, After, redis
  <2>2. ASSUME NEW q \in Procs
        PROVE  proc'[q].of = proc[q].of /\ (Alive(q)' => Alive(q))
    BY <2>1, ReapedProcs DEF Alive
  <2>3. NoProc \notin Procs
    BY MonitorAssumption
  <2>4. \A w \in Workers : Orphans(w)' \subseteq Orphans(w)
    BY <2>1, <2>2, <2>3 DEF Orphans, Main
  <2>. QED
    BY <2>4, OwnedKept
<1>5. CASE NoteLost
  <2>1. /\ loop.pc = "note" /\ loop'.pc = "cool" /\ loop'.of = loop.of /\ UNCHANGED proc
        /\ UNCHANGED pid \/ pid' = [pid EXCEPT ![loop.of] = loop.p]
    BY <1>5, LoopMoves DEF NoteLost, After
  <2>. PICK v \in Workers : v = loop.of
    BY <1>1, <2>1
  <2>. PICK x : x = loop.p
    OBVIOUS
  <2>2. \A w \in Workers : w # v => Orphans(w)' \subseteq Orphans(w)
    BY <1>1, <2>1 DEF Orphans, Main, Alive
  <2>3. Orphans(v)' \subseteq Orphans(v) \cup {x}
    BY <2>1 DEF Orphans, Main, Alive
  <2>. QED
    BY <1>1, <2>2, <2>3, OwnedBy
<1>6. CASE ClearFails
  <2>1. loop.pc = "clear" /\ loop'.pc = "idle" /\ UNCHANGED <<proc, pid>>
    BY <1>6 DEF ClearFails, IdleLoop
  <2>2. \A w \in Workers : Orphans(w)' \subseteq Orphans(w)
    BY <2>1 DEF Orphans, Main, Alive
  <2>. QED
    BY <2>2, OwnedKept
<1>. QED
  BY <1>2, <1>3, <1>4, <1>5, <1>6 DEF ErrorStep

LEMMA OwnedStep == IInv /\ Owned /\ [Next]_vars => Owned'
<1> SUFFICES ASSUME IInv, Owned, [Next]_vars
             PROVE  Owned'
  OBVIOUS
<1>1. CASE UNCHANGED vars
  BY <1>1, OwnedStill DEF vars, Alive
<1>2. ASSUME NEW p \in Procs, LifeStep(p) \/ TakeTask(p)
      PROVE  Owned'
  <2>1. Alive(p) /\ UNCHANGED <<pid, loop>>
    BY <1>2 DEF LifeStep, Boot, Ready, Heartbeat, FinishTask, TakeTask, Alive, Running, redis
  <2>2. Only(p)
    BY <1>2, LifeInv
  <2>. QED
    BY <2>1, <2>2, OwnedProc
<1>3. ASSUME NEW p \in Procs, FaultStep(p)
      PROVE  Owned'
  <2>1. Alive(p) /\ UNCHANGED loop
    BY <1>3 DEF FaultStep, Crash, Wedge, LoseHeartbeat, Quit, InitFails, Alive, Running
  <2>. QED
    BY <1>3, <2>1, FaultInv, OwnedProc
<1>4. CASE PassStep \/ \E w \in Workers : Expire(w)
  <2>1. UNCHANGED <<proc, pid, loop>>
    BY <1>4 DEF PassStep, PassBegins, CheckWorker, PassExpects, ExpectWorker, PassEnds,
                Expire, redis
  <2>. QED
    BY <2>1, OwnedStill DEF Alive
<1>5. CASE LoopStep
  BY <1>5, OwnedLoop
<1>6. CASE ErrorStep
  BY <1>6, OwnedError
<1>7. CASE Tick
  <2>1. loop' = WithWait(loop, IF loop.wait > 0 THEN loop.wait - 1 ELSE 0)
    BY <1>7 DEF Tick, WithWait
  <2>2. loop'.pc = loop.pc /\ loop'.of = loop.of /\ loop'.p = loop.p /\ UNCHANGED pid
    BY <1>7, <2>1 DEF Tick, WithWait, IInv, LoopOK, LoopStates
  <2>3. ASSUME NEW p \in Procs
        PROVE  proc'[p].of = proc[p].of /\ proc'[p].state = proc[p].state
    BY <1>7 DEF Tick, IInv, ProcsOK, ProcStates
  <2>. QED
    BY <2>2, <2>3, OwnedStill DEF Alive
<1>. QED
  BY <1>1, <1>2, <1>3, <1>4, <1>5, <1>6, <1>7 DEF Next

-----------------------------------------------------------------------------
(* Calm.  As long as nothing has failed and no task has run too long, who runs, what
   the records say and what the monitor is about to do fit together. *)

Quiet == (\A k \in Kinds : faults[k] = 0) /\ ~ overran
Single == \A p, q \in Procs :
            Alive(p) /\ Alive(q) /\ proc[p].of = proc[q].of => p = q
Bare(w) == \A p \in Procs : Alive(p) => proc[p].of # w

\* Processes come up, stay up and beat, one to a worker; a recorded pid is alive.
Sound ==
  /\ \A p \in Procs : /\ proc[p].state \in Running \cup {"none"}
                      /\ ~ proc[p].stuck
                      /\ proc[p].state = "up" => proc[p].beats
  /\ Single
  /\ \A w \in Workers : pid[w] # NoProc => Alive(pid[w])

\* A restart is that of a worker without a process, until it has started one.
Served ==
  /\ \A w \in Range(queue) : w \in marked /\ Bare(w)
  /\ IsInjective(queue)
  /\ loop.pc # "idle" => loop.of \in marked /\ loop.of \notin Range(queue)
  /\ loop.pc \in {"kill", "spawn"} => Bare(loop.of)
  /\ loop.pc = "note" => Alive(loop.p)
  /\ loop.pc # "cool"
  /\ loop.pc \in {"clear", "wait"} =>
        \E p \in Procs : proc[p].of = loop.of /\ proc[p].state \in {"init", "up"}
  /\ \A p \in Procs : proc[p].state = "boot" => loop.pc = "note" /\ loop.p = p

\* The record z of a worker is that of its process x, of this tick or the last one.
Fits(x, z) ==
  /\ x.state = "boot" => ~ z.there /\ x.since = 0
  /\ x.state = "init" => /\ z.there /\ ~ z.busy
                         /\ z.age <= x.since /\ x.since <= InitCeiling
  /\ x.state = "up" => /\ z.there /\ z.age <= 1
                       /\ z.done <= x.done
                       /\ (z.busy /\ z.done = x.done) => x.busy
                       /\ x.busy => x.since <= ProgressTimeout
Fresh == /\ \A w \in Workers : ~ key[w].flag /\ (Bare(w) => ~ key[w].there)
         /\ \A p \in Procs : Alive(p) => Fits(proc[p], key[proc[p].of])

\* What the monitor has seen stand still, as s, is no older than the task that x is
\* on, or is about to move.
Waits(x, z, s) ==
  /\ x.state = "up"
  /\ s.done <= z.done
  /\ s.done = z.done => /\ s.since <= ProgressTimeout
                        /\ z.done = x.done => x.busy /\ s.since <= x.since
Patient ==
  \A w \in Workers : seen[w].stale =>
     \E p \in Procs : proc[p].of = w /\ Waits(proc[p], key[w], seen[w])

\* Whom the pass misses has no process, or the loop is not done with it.
Awaited ==
  pass.pc = "expect" =>
     \A w \in pass.todo \ pass.there :
        \/ Bare(w)
        \/ loop.of = w /\ \/ loop.pc \in {"note", "clear"}
                          \/ loop.pc = "wait" /\ loop.wait = InitWait

Calm == Sound /\ Served /\ Fresh /\ Patient /\ Awaited
CalmInv == Quiet => Calm

\* What the settings must grant: a worker that starts up beats before its record
\* counts as old.
Generous == InitCeiling < HeartbeatTimeout

LEMMA CeilingFacts ==
  /\ InitCeiling \in Nat /\ InitCeiling > 0 /\ InitCeiling < KeyTTL
  /\ KeyTTL \in Nat /\ InitWait \in Nat /\ InitWait > 0
  /\ HeartbeatTimeout \in Nat /\ TaskCeiling \in Nat /\ ProgressTimeout \in Nat
BY MonitorAssumption

\* A key that is there has a process past its boot behind it.
LEMMA ThereUp ==
  ASSUME IInv, Sound, Fresh, NEW w \in Workers, key[w].there
  PROVE  /\ \E p \in Procs : /\ proc[p].of = w /\ proc[p].state \in {"init", "up"}
                             /\ Fits(proc[p], key[w])
         /\ key[w].age <= InitCeiling
<1>1. PICK p \in Procs : Alive(p) /\ proc[p].of = w
  BY DEF Fresh, Bare
<1>2. Fits(proc[p], key[w])
  BY <1>1 DEF Fresh
<1>3. proc[p].state \in {"init", "up"}
  BY <1>1, <1>2 DEF Fits, Alive, Running
<1>4. key[w].age \in Nat /\ proc[p].since \in Nat
  <2>1. key[w] \in KeyStates /\ proc[p] \in ProcStates
    BY DEF IInv, KeyOK, ProcsOK
  <2>2. 0..KeyTTL \subseteq Nat /\ 0..(TaskCeiling + InitCeiling) \subseteq Nat
    OBVIOUS
  <2>. QED
    BY <2>1, <2>2 DEF KeyStates, ProcStates
<1>5. key[w].age <= InitCeiling
  BY <1>2, <1>3, <1>4, CeilingFacts DEF Fits
<1>. QED
  BY <1>1, <1>2, <1>3, <1>5

LEMMA CalmInit == Init => Calm
<1> SUFFICES ASSUME Init
             PROVE  Calm
  OBVIOUS
<1>1. PICK f \in [Launched -> Procs] :
        /\ IsInjective(f)
        /\ proc = [p \in Procs |->
                     IF \E w \in Launched : f[w] = p
                     THEN [NotStarted EXCEPT !.of = CHOOSE w \in Launched : f[w] = p,
                                             !.state = "up", !.beats = TRUE]
                     ELSE NotStarted]
  BY DEF Init
<1>2. /\ key = [w \in Workers |->
                  IF w \in Launched THEN [NoKey EXCEPT !.there = TRUE, !.online = "true"]
                  ELSE NoKey]
      /\ pid = [w \in Workers |-> NoProc] /\ seen = [w \in Workers |-> NeverSeen]
      /\ pass = Resting /\ queue = <<>> /\ marked = {} /\ loop = IdleLoop
  BY DEF Init
<1>3. /\ \A w \in Workers : pid[w] = NoProc /\ ~ seen[w].stale
      /\ pass.pc = "rest" /\ loop.pc = "idle"
  BY <1>2 DEF NeverSeen, Resting, IdleLoop
<1>4. ASSUME NEW p \in Procs, NEW w \in Launched, f[w] = p
      PROVE  /\ proc[p].of = w /\ proc[p].state = "up" /\ proc[p].beats
             /\ ~ proc[p].stuck /\ ~ proc[p].busy /\ proc[p].done = 0
  <2> DEFINE v == CHOOSE u \in Launched : f[u] = p
  <2>1. v \in Launched /\ f[v] = p
    BY <1>4
  <2>2. v = w
    BY <1>1, <1>4, <2>1 DEF IsInjective
  <2>3. proc[p] = [NotStarted EXCEPT !.of = v, !.state = "up", !.beats = TRUE]
    BY <1>1, <1>4
  <2> HIDE DEF v
  <2>. QED
    BY <2>2, <2>3 DEF NotStarted
<1>5. ASSUME NEW p \in Procs, \A w \in Launched : f[w] # p
      PROVE  proc[p].state = "none" /\ ~ proc[p].stuck
  BY <1>1, <1>5 DEF NotStarted
<1>6. ASSUME NEW p \in Procs, Alive(p)
      PROVE  /\ proc[p].of \in Launched /\ f[proc[p].of] = p /\ proc[p].state = "up"
             /\ ~ proc[p].busy /\ proc[p].done = 0
  BY <1>4, <1>5, <1>6 DEF Alive, Running
<1>7. Sound
  <2>1. \A p \in Procs : /\ proc[p].state \in Running \cup {"none"} /\ ~ proc[p].stuck
                         /\ proc[p].state = "up" => proc[p].beats
    BY <1>4, <1>5 DEF Running
  <2>2. Single
    BY <1>6 DEF Single
  <2>. QED
    BY <1>3, <2>1, <2>2 DEF Sound
<1>8. Served
  <2>1. Range(queue) = {} /\ IsInjective(queue)
    BY <1>2 DEF Range, IsInjective
  <2>2. \A p \in Procs : proc[p].state # "boot"
    BY <1>4, <1>5
  <2>. QED
    BY <1>3, <2>1, <2>2 DEF Served
<1>9. Fresh
  <2>1. ASSUME NEW w \in Workers
        PROVE  /\ ~ key[w].flag /\ key[w].age = 0 /\ ~ key[w].busy /\ key[w].done = 0
               /\ key[w].there <=> w \in Launched
    BY <1>2 DEF NoKey
  <2>2. ASSUME NEW w \in Workers, Bare(w)
        PROVE  w \notin Launched
    <3>1. ASSUME w \in Launched
          PROVE  FALSE
      <4>1. f[w] \in Procs /\ proc[f[w]].of = w /\ Alive(f[w])
        BY <1>4, <3>1 DEF Alive, Running
      <4>. QED
        BY <2>2, <4>1 DEF Bare
    <3>. QED
      BY <3>1
  <2>3. ASSUME NEW p \in Procs, Alive(p)
        PROVE  Fits(proc[p], key[proc[p].of])
    <3>1. proc[p].of \in Workers /\ proc[p].of \in Launched
      BY <1>6, <2>3, MonitorAssumption
    <3>. QED
      BY <1>6, <2>1, <2>3, <3>1 DEF Fits
  <2>. QED
    BY <2>1, <2>2, <2>3 DEF Fresh
<1>. QED
  BY <1>3, <1>7, <1>8, <1>9 DEF Calm, Patient, Awaited

\* Where a step of the process p leaves it running, and nothing of the monitor is
\* touched, who runs and who is served does not change.
Lives(p) ==
  /\ Alive(p) /\ Only(p)
  /\ proc'[p].state \in {"init", "up"}
  /\ proc[p].state = "up" => proc'[p].state = "up"
  /\ proc'[p].state = "up" => proc'[p].beats
  /\ ~ proc'[p].stuck
  /\ UNCHANGED <<pid, seen, pass, queue, marked, loop>>

LEMMA LivesCalm ==
  ASSUME IInv, IInv', Calm, NEW p \in Procs, Lives(p)
  PROVE  /\ Sound' /\ Served' /\ Awaited'
         /\ \A q \in Procs : Alive(q)' <=> Alive(q)
         /\ \A w \in Workers : Bare(w)' <=> Bare(w)
<1>1. /\ \A q \in Procs : (Alive(q)' <=> Alive(q)) /\ proc'[q].of = proc[q].of
      /\ \A q \in Procs : q # p => proc'[q] = proc[q]
  BY DEF Lives, Only, Alive, Running
<1>2. \A w : Bare(w)' <=> Bare(w)
  BY <1>1 DEF Bare
<1>3. Sound'
  <2>1. Single'
    BY <1>1 DEF Calm, Sound, Single
  <2>2. \A w \in Workers : pid'[w] # NoProc => Alive(pid[w])'
    BY <1>1 DEF Calm, Sound, Lives, Alive, IInv, PidOK
  <2>3. \A q \in Procs : /\ proc'[q].state \in Running \cup {"none"}
                         /\ ~ proc'[q].stuck
                         /\ proc'[q].state = "up" => proc'[q].beats
    BY <1>1 DEF Calm, Sound, Lives, Running
  <2>. QED
    BY <2>1, <2>2, <2>3 DEF Sound
<1>4. Served'
  <2>1. loop' = loop /\ queue' = queue /\ marked' = marked
    BY DEF Lives
  <2>2. loop'.pc = "note" => Alive(loop.p)'
    BY <1>1, <2>1 DEF Calm, Served, IInv, LoopOK
  <2>3. loop.pc \in {"clear", "wait"} =>
          \E q \in Procs : proc'[q].of = loop.of /\ proc'[q].state \in {"init", "up"}
    BY <1>1 DEF Calm, Served, Lives
  <2>4. \A q \in Procs : proc'[q].state = "boot" => loop.pc = "note" /\ loop.p = q
    BY <1>1 DEF Calm, Served, Lives
  <2>. QED
    BY <1>2, <2>1, <2>2, <2>3, <2>4 DEF Calm, Served
<1>5. Awaited'
  BY <1>2 DEF Calm, Awaited, Lives
<1>. QED
  BY <1>1, <1>2, <1>3, <1>4, <1>5

\* And if its record fits it again, and the monitor has no more reason for worry,
\* all stays calm.
LEMMA LifeCalm ==
  ASSUME IInv, IInv', Calm, NEW p \in Procs, Lives(p),
         \A w \in Workers : w # proc[p].of => key'[w] = key[w],
         ~ key'[proc[p].of].flag, Fits(proc'[p], key'[proc[p].of]),
         Waits(proc[p], key[proc[p].of], seen[proc[p].of]) =>
            Waits(proc'[p], key'[proc[p].of], seen[proc[p].of])
  PROVE  Calm'
<1>1. /\ Sound' /\ Served' /\ Awaited'
      /\ \A q \in Procs : Alive(q)' <=> Alive(q)
      /\ \A w \in Workers : Bare(w)' <=> Bare(w)
  BY LivesCalm
<1>2. /\ Alive(p) /\ proc'[p].of = proc[p].of /\ proc[p].of \in Workers
      /\ \A q \in Procs : q # p => proc'[q] = proc[q]
      /\ UNCHANGED seen
  BY DEF Lives, Only, IInv, ProcsOK, Sane, Alive
<1>3. \A q \in Procs : Alive(q) => /\ proc[q].of \in Workers
                                   /\ q # p => proc[q].of # proc[p].of
  BY <1>2 DEF Calm, Sound, Single, IInv, ProcsOK, Sane, Alive
<1>4. Fresh'
  <2>1. ASSUME NEW w \in Workers
        PROVE  ~ key'[w].flag /\ (Bare(w)' => ~ key'[w].there)
    BY <1>1, <1>2 DEF Calm, Fresh, Bare
  <2>2. ASSUME NEW q \in Procs, Alive(q)'
        PROVE  Fits(proc'[q], key'[proc'[q].of])
    BY <1>1, <1>2, <1>3, <2>2 DEF Calm, Fresh
  <2>. QED
    BY <2>1, <2>2 DEF Fresh
<1>5. Patient'
  <2>1. ASSUME NEW w \in Workers, seen[w].stale
        PROVE  \E q \in Procs : proc'[q].of = w /\ Waits(proc'[q], key'[w], seen[w])
    <3>1. PICK q \in Procs : proc[q].of = w /\ Waits(proc[q], key[w], seen[w])
      BY <2>1 DEF Calm, Patient
    <3>2. Alive(q)
      BY <3>1 DEF Waits, Alive, Running
    <3>3. CASE q = p
      BY <1>2, <3>1, <3>3
    <3>4. CASE q # p
      BY <1>2, <1>3, <3>1, <3>2, <3>4
    <3>. QED
      BY <3>3, <3>4
  <2>. QED
    BY <1>2, <2>1 DEF Patient
<1>. QED
  BY <1>1, <1>4, <1>5 DEF Calm

\* What a beat writes.
LEMMA BeatenFields ==
  ASSUME KeyOK, NEW w \in Workers, NEW o, NEW b, NEW n, ~ key[w].flag
  PROVE  /\ Beaten(w, o, b, n).there /\ Beaten(w, o, b, n).age = 0
         /\ Beaten(w, o, b, n).busy = b /\ Beaten(w, o, b, n).done = n
         /\ ~ Beaten(w, o, b, n).flag
<1>1. key[w] \in KeyStates
  BY DEF KeyOK
<1> DEFINE f == key[w].there /\ key[w].flag
<1>2. f = FALSE
  OBVIOUS
<1>3. Beaten(w, o, b, n) = Beat(key[w], FALSE, o, b, n)
  BY <1>2, Zenon DEF Beaten, Beat
<1>. QED
  BY <1>1, <1>3 DEF Beat, KeyStates

LEMMA CalmLife ==
  ASSUME IInv, IInv', Calm, NEW p \in Procs, LifeStep(p) \/ TakeTask(p)
  PROVE  Calm'
<1> DEFINE x == proc[p]
           w == proc[p].of
<1>1. /\ ProcsOK /\ KeyOK /\ Sane(x) /\ x \in ProcStates /\ Only(p)
  BY LifeInv DEF IInv, ProcsOK, Sane
<1>2. Alive(p) /\ w \in Workers
  BY <1>1 DEF LifeStep, Boot, Ready, Heartbeat, FinishTask, TakeTask, Sane, Alive, Running
<1>3. /\ ~ x.stuck /\ (x.state = "up" => x.beats)
      /\ ~ key[w].flag /\ Fits(x, key[w])
  BY <1>2 DEF Calm, Sound, Fresh
<1>4. UNCHANGED <<pid, seen, pass, queue, marked, loop>>
  BY DEF LifeStep, Boot, Ready, Heartbeat, FinishTask, TakeTask, monitor, redis
<1>5. /\ key[w].done \in 0..MaxDone /\ x.done \in 0..MaxDone /\ 0..MaxDone \subseteq Nat
      /\ x.since \in Nat /\ seen[w].done \in Nat /\ seen[w].since \in Nat
      /\ key[w].age \in Nat /\ x.busy \in BOOLEAN
  <2>1. key[w] \in KeyStates /\ seen[w] \in SeenStates
    BY <1>1, <1>2 DEF KeyOK, IInv, SeenOK
  <2>2. /\ 0..(TaskCeiling + InitCeiling) \subseteq Nat /\ 0..MaxDone \subseteq Nat
        /\ 0..(ProgressTimeout + 1) \subseteq Nat /\ 0..KeyTTL \subseteq Nat
    OBVIOUS
  <2>. QED
    BY <1>1, <2>1, <2>2 DEF ProcStates, KeyStates, SeenStates
<1>6. ASSUME NEW o, NEW b, NEW n, key' = [key EXCEPT ![w] = Beaten(w, o, b, n)]
      PROVE  /\ key'[w].there /\ key'[w].age = 0 /\ key'[w].busy = b /\ key'[w].done = n
             /\ ~ key'[w].flag
             /\ \A v \in Workers : v # w => key'[v] = key[v]
  <2>1. key'[w] = Beaten(w, o, b, n) /\ \A v \in Workers : v # w => key'[v] = key[v]
    BY <1>1, <1>2, <1>6 DEF KeyOK
  <2>. QED
    BY <1>1, <1>2, <1>3, <2>1, BeatenFields
<1>7. CASE Boot(p)
  <2>1. /\ proc'[p].state = "init" /\ ~ proc'[p].stuck /\ x.state = "boot"
        /\ proc'[p].since = 0
    BY <1>1, <1>3, <1>7 DEF Boot, ProcsOK, ProcStates, Fits
  <2>2. Lives(p)
    BY <1>1, <1>2, <1>4, <1>7, <2>1 DEF Lives
  <2>3. key' = [key EXCEPT ![w] = Beaten(w, "initializing", FALSE, 0)]
    BY <1>7 DEF Boot
  <2>6. key'[w].there /\ ~ key'[w].busy /\ key'[w].age = 0
    BY <1>6, <2>3, Zenon
  <2>4. Fits(proc'[p], key'[w])
    BY <2>1, <2>6, CeilingFacts DEF Fits
  <2>5. ~ Waits(x, key[w], seen[w])
    BY <2>1 DEF Waits
  <2>. QED
    BY <1>6, <2>2, <2>3, <2>4, <2>5, LifeCalm
<1>8. CASE Ready(p)
  <2>1. /\ proc'[p].state = "up" /\ proc'[p].beats /\ ~ proc'[p].stuck
        /\ ~ proc'[p].busy /\ proc'[p].done = x.done
    BY <1>1, <1>3, <1>8 DEF Ready, ProcsOK, ProcStates, Sane
  <2>2. Lives(p)
    BY <1>1, <1>2, <1>4, <1>8, <2>1 DEF Lives, Ready
  <2>3. key' = [key EXCEPT ![w] = Beaten(w, "true", FALSE, 0)]
    BY <1>8 DEF Ready
  <2>6. key'[w].there /\ ~ key'[w].busy /\ key'[w].age = 0 /\ key'[w].done = 0
    BY <1>6, <2>3, Zenon
  <2>4. Fits(proc'[p], key'[w])
    BY <1>5, <2>1, <2>6 DEF Fits
  <2>5. ~ Waits(x, key[w], seen[w])
    BY <1>8 DEF Ready, Waits
  <2>. QED
    BY <1>6, <2>2, <2>3, <2>4, <2>5, LifeCalm
<1>9. CASE Heartbeat(p)
  <2>1. proc' = proc /\ x.state = "up"
    BY <1>9 DEF Heartbeat
  <2>2. Lives(p)
    BY <1>1, <1>2, <1>3, <1>4, <2>1 DEF Lives
  <2>3. key' = [key EXCEPT ![w] = Beaten(w, "true", x.busy, x.done)]
    BY <1>9 DEF Heartbeat, Pulse
  <2>6. /\ key'[w].there /\ key'[w].age = 0 /\ key'[w].done = x.done
        /\ key'[w].busy = x.busy
    <3>1. key'[w] = Beaten(w, "true", x.busy, x.done)
      BY <1>1, <1>2, <2>3 DEF KeyOK
    <3>2. /\ Beaten(w, "true", x.busy, x.done).there /\ Beaten(w, "true", x.busy, x.done).age = 0
          /\ Beaten(w, "true", x.busy, x.done).done = x.done
          /\ Beaten(w, "true", x.busy, x.done).busy = x.busy
      <4> DEFINE b == x.busy
                 n == x.done
      <4> HIDE DEF b, n
      <4>1. KeyOK /\ w \in Workers /\ ~ key[w].flag
        BY <1>1, <1>2, <1>3
      <4>2. /\ Beaten(w, "true", b, n).there /\ Beaten(w, "true", b, n).age = 0
            /\ Beaten(w, "true", b, n).busy = b /\ Beaten(w, "true", b, n).done = n
        BY <4>1, BeatenFields
      <4>. QED
        BY <4>2 DEF b, n
    <3>. QED
      BY <3>1, <3>2
  <2>8. key'[w].busy => x.busy
    BY <1>5, <2>6
  <2>4. Fits(x, key'[w])
    <3>1. x.busy => x.since <= ProgressTimeout
      BY <1>3, <2>1 DEF Fits
    <3>. QED
      BY <1>5, <2>1, <2>6, <2>8, <3>1 DEF Fits
  <2>7. key[w].done <= x.done
    BY <1>3, <2>1 DEF Fits
  <2>5. Waits(x, key[w], seen[w]) => Waits(x, key'[w], seen[w])
    BY <1>5, <2>6, <2>7 DEF Waits
  <2>. QED
    BY <1>6, <2>1, <2>2, <2>3, <2>4, <2>5, LifeCalm
<1>10. CASE FinishTask(p)
  <2>1. /\ proc'[p].state = "up" /\ proc'[p].beats /\ ~ proc'[p].stuck
        /\ ~ proc'[p].busy /\ proc'[p].done = x.done + 1 /\ x.state = "up"
    BY <1>1, <1>3, <1>10 DEF FinishTask, ProcsOK, ProcStates
  <2>2. Lives(p) /\ key' = key
    BY <1>1, <1>2, <1>4, <1>10, <2>1 DEF Lives, FinishTask, redis
  <2>3. key[w].done < proc'[p].done
    BY <1>3, <1>5, <2>1 DEF Fits
  <2>4. Fits(proc'[p], key[w])
    BY <1>3, <1>5, <2>1, <2>3 DEF Fits
  <2>5. Waits(x, key[w], seen[w]) => Waits(proc'[p], key[w], seen[w])
    BY <1>5, <2>1, <2>3 DEF Waits
  <2>. QED
    BY <1>3, <2>2, <2>4, <2>5, LifeCalm
<1>11. CASE TakeTask(p)
  <2>1. /\ proc'[p].state = "up" /\ proc'[p].beats /\ ~ proc'[p].stuck
        /\ proc'[p].busy /\ proc'[p].done = x.done /\ proc'[p].since = 0
        /\ x.state = "up" /\ ~ x.busy
    BY <1>1, <1>3, <1>11 DEF TakeTask, ProcsOK, ProcStates
  <2>2. Lives(p) /\ key' = key
    BY <1>1, <1>2, <1>4, <1>11, <2>1 DEF Lives, TakeTask, redis
  <2>3. Fits(proc'[p], key[w])
    BY <1>3, <1>5, <2>1, CeilingFacts DEF Fits
  <2>4. Waits(x, key[w], seen[w]) => Waits(proc'[p], key[w], seen[w])
    BY <1>5, <2>1 DEF Waits
  <2>. QED
    BY <1>3, <2>2, <2>3, <2>4, LifeCalm
<1>. QED
  BY <1>7, <1>8, <1>9, <1>10, <1>11 DEF LifeStep


\* One more in the queue, or one less.
LEMMA AppendOnce ==
  ASSUME NEW s \in Seq(Workers), NEW w \in Workers, IsInjective(s), w \notin Range(s)
  PROVE  IsInjective(Append(s, w))
<1>1. /\ Len(Append(s, w)) = Len(s) + 1
      /\ \A i \in 1..Len(s) : Append(s, w)[i] = s[i]
      /\ Append(s, w)[Len(s) + 1] = w /\ Append(s, w) \in Seq(Workers)
  BY AppendProperties
<1>2. /\ DOMAIN s = 1..Len(s) /\ Len(s) \in Nat
      /\ DOMAIN Append(s, w) = 1..(Len(s) + 1)
  BY <1>1, LenProperties
<1>3. \A i \in 1..Len(s) : s[i] # w
  BY <1>2 DEF Range
<1>4. \A i \in DOMAIN Append(s, w) : i \in 1..Len(s) \/ i = Len(s) + 1
  BY <1>2
<1>. QED
  BY <1>1, <1>2, <1>3, <1>4 DEF IsInjective

LEMMA TailOnce ==
  ASSUME NEW s \in Seq(Workers), s # <<>>, IsInjective(s)
  PROVE  /\ Head(s) \in Range(s) /\ Head(s) \notin Range(Tail(s))
         /\ Range(Tail(s)) \subseteq Range(s) /\ IsInjective(Tail(s))
<1>1. /\ Len(s) \in Nat /\ Len(s) > 0 /\ DOMAIN s = 1..Len(s) /\ Head(s) = s[1]
  BY LenProperties, EmptySeq
<1>2. /\ DOMAIN Tail(s) = 1..(Len(s) - 1)
      /\ \A i \in 1..(Len(s) - 1) : Tail(s)[i] = s[i + 1]
  BY <1>1, HeadTailProperties, LenProperties
<1>3. 1 \in DOMAIN s /\ \A i \in DOMAIN Tail(s) : i + 1 \in DOMAIN s /\ i + 1 # 1
  BY <1>1, <1>2
<1>4. \A i, j \in DOMAIN Tail(s) : i + 1 = j + 1 => i = j
  BY <1>2
<1>. QED
  BY <1>1, <1>2, <1>3, <1>4 DEF Range, IsInjective

\* Where nothing but the pass moves.
LEMMA StillCalm ==
  ASSUME Calm, UNCHANGED <<proc, key, pid, loop>>
  PROVE  /\ Sound' /\ Fresh'
         /\ UNCHANGED <<queue, marked>> => Served'
         /\ UNCHANGED seen => Patient'
<1>1. \A w : Bare(w)' <=> Bare(w)
  BY DEF Bare, Alive
<1>2. Sound' /\ Fresh'
  BY <1>1 DEF Calm, Sound, Fresh, Single, Alive
<1>3. UNCHANGED <<queue, marked>> => Served'
  BY <1>1 DEF Calm, Served, Alive
<1>4. UNCHANGED seen => Patient'
  BY DEF Calm, Patient
<1>. QED
  BY <1>2, <1>3, <1>4

LEMMA RequestCalm ==
  ASSUME IInv, Calm, UNCHANGED <<proc, key, pid, loop>>, NEW w \in Workers,
         \/ NoRequest
         \/ Request(w) /\ w \notin marked /\ Bare(w)
  PROVE  Served'
<1>1. CASE NoRequest
  BY <1>1, StillCalm DEF NoRequest
<1>2. CASE Request(w) /\ w \notin marked /\ Bare(w)
  <2>1. queue \in Seq(Workers) /\ w \notin Range(queue) /\ IsInjective(queue)
    BY <1>2 DEF IInv, QueueOK, Calm, Served
  <2>2. Range(queue') = Range(queue) \cup {w} /\ IsInjective(queue')
    BY <1>2, <2>1, RangeAppend, AppendOnce DEF Request
  <2>3. \A v : Bare(v)' <=> Bare(v)
    BY DEF Bare, Alive
  <2>4. marked' = marked \cup {w}
    BY <1>2 DEF Request
  <2>. QED
    BY <1>2, <2>2, <2>3, <2>4 DEF Calm, Served, Alive
<1>. QED
  BY <1>1, <1>2

\* A worker whose record does not move has a process that is on a task, and has been
\* at least as long as the monitor counts.
LEMMA StaleWaits ==
  ASSUME IInv, Calm, NEW w \in Workers, key[w].there, Stale(w)
  PROVE  \E p \in Procs :
            /\ proc[p].of = w /\ proc[p].state = "up"
            /\ StaleFor(w) <= ProgressTimeout
            /\ key[w].done = proc[p].done => proc[p].busy /\ StaleFor(w) <= proc[p].since
<1>1. Sound /\ Fresh /\ Patient
  BY DEF Calm
<1>2. PICK p \in Procs : /\ proc[p].of = w /\ proc[p].state \in {"init", "up"}
                         /\ Fits(proc[p], key[w])
  BY <1>1, ThereUp
<1>3. proc[p].state = "up" /\ (key[w].done = proc[p].done => proc[p].busy)
  BY <1>2 DEF Stale, Fits
<1>4. proc[p].since \in Nat
  <2>1. proc[p] \in ProcStates /\ 0..(TaskCeiling + InitCeiling) \subseteq Nat
    BY DEF IInv, ProcsOK
  <2>. QED
    BY <2>1 DEF ProcStates
<1>5. CASE seen[w].stale
  <2>1. PICK q \in Procs : proc[q].of = w /\ Waits(proc[q], key[w], seen[w])
    BY <1>1, <1>5 DEF Patient
  <2>2. Alive(p) /\ Alive(q)
    BY <1>2, <2>1 DEF Waits, Alive, Running
  <2>3. q = p
    BY <1>1, <1>2, <2>1, <2>2 DEF Sound, Single
  <2>4. seen[w].done = key[w].done /\ StaleFor(w) = seen[w].since
    BY <1>5 DEF Stale, StaleFor
  <2>. QED
    BY <1>2, <1>3, <2>1, <2>3, <2>4 DEF Waits
<1>6. CASE ~ seen[w].stale
  <2>1. StaleFor(w) = 0
    BY <1>6 DEF StaleFor
  <2>. QED
    BY <1>2, <1>3, <1>4, <2>1, CeilingFacts
<1>. QED
  BY <1>5, <1>6

LEMMA CalmPass ==
  ASSUME Generous, IInv, Calm, PassStep
  PROVE  Calm'
<1>1. UNCHANGED <<proc, key, pid, loop, faults>>
  BY DEF PassStep, PassBegins, CheckWorker, PassExpects, ExpectWorker, PassEnds, redis
<1>2. /\ Sound' /\ Fresh'
      /\ UNCHANGED <<queue, marked>> => Served'
      /\ UNCHANGED seen => Patient'
      /\ \A w : Bare(w)' <=> Bare(w)
  BY <1>1, StillCalm DEF Bare, Alive
<1>3. CASE PassBegins \/ PassEnds
  <2>1. UNCHANGED <<queue, marked, seen>> /\ pass'.pc # "expect"
    BY <1>3 DEF PassBegins, PassEnds, Resting
  <2>. QED
    BY <1>2, <2>1 DEF Calm, Awaited
<1>4. CASE PassExpects
  <2>1. UNCHANGED <<queue, marked, seen>>
    BY <1>4 DEF PassExpects
  <2>2. Awaited'
    <3>1. SUFFICES ASSUME NEW w \in Expected, ~ key[w].there
                   PROVE  Bare(w) \/ (loop.of = w /\ loop.pc = "note")
      BY <1>1, <1>2, <1>4, MonitorAssumption DEF PassExpects, Resting, Awaited
    <3>2. SUFFICES ASSUME NEW p \in Procs, Alive(p), proc[p].of = w
                   PROVE  loop.of = w /\ loop.pc = "note"
      BY DEF Bare
    <3>3. Fits(proc[p], key[w])
      BY <3>2 DEF Calm, Fresh
    <3>4. proc[p].state = "boot"
      BY <3>1, <3>2, <3>3 DEF Fits, Alive, Running
    <3>. QED
      BY <3>2, <3>4 DEF Calm, Served, IInv, LoopOK
  <2>. QED
    BY <1>2, <2>1, <2>2 DEF Calm
<1>5. ASSUME NEW w \in Workers, ExpectWorker(w)
      PROVE  Calm'
  <2>1. UNCHANGED seen /\ pass.pc = "expect" /\ w \in pass.todo
        /\ pass'.there = pass.there /\ pass'.todo \subseteq pass.todo
    BY <1>5 DEF ExpectWorker, IInv, PassStates
  <2>2. NoRequest \/ (Request(w) /\ w \notin marked /\ Missing(w))
    BY <1>5 DEF ExpectWorker
  <2>3. Missing(w) /\ w \notin marked => Bare(w)
    BY <2>1 DEF Missing, Calm, Sound, Alive, Awaited, Served
  <2>4. Served'
    BY <1>1, <2>2, <2>3, RequestCalm
  <2>5. Awaited'
    BY <1>1, <1>2, <2>1 DEF Calm, Awaited
  <2>. QED
    BY <1>2, <2>1, <2>4, <2>5 DEF Calm
<1>6. ASSUME NEW w \in Workers, CheckWorker(w)
      PROVE  Calm'
  <2>1. Awaited'
    BY <1>6 DEF CheckWorker, IInv, PassStates, Awaited
  <2>2. CASE ~ key[w].there
    BY <1>2, <1>6, <2>1, <2>2 DEF CheckWorker, NoRequest, Calm
  <2>3. CASE key[w].there
    <3> DEFINE s == [known |-> TRUE, done |-> key[w].done, stale |-> Stale(w),
                     since |-> StaleFor(w)]
    <3>1. seen' = [seen EXCEPT ![w] = s]
      BY <1>6, <2>3 DEF CheckWorker
    <3>2. NoRequest \/ NeedsRestart(w)
      BY <1>6, <2>3 DEF CheckWorker
    <3>3. ~ key[w].flag /\ key[w].age <= InitCeiling
      BY <2>3, ThereUp DEF Calm, Fresh
    <3>4. key[w].age \in Nat /\ key[w].done \in Nat /\ StaleFor(w) \in Nat
      <4>1. key[w] \in KeyStates /\ s \in SeenStates
        BY SeenType DEF IInv, KeyOK
      <4>2. /\ 0..KeyTTL \subseteq Nat /\ 0..MaxDone \subseteq Nat
            /\ 0..(ProgressTimeout + 1) \subseteq Nat
        OBVIOUS
      <4>3. key[w].age \in Nat /\ key[w].done \in Nat
        BY <4>1, <4>2 DEF KeyStates
      <4>4. seen[w].since \in Nat
        BY <4>2 DEF IInv, SeenOK, SeenStates
      <4>. QED
        BY <4>3, <4>4 DEF StaleFor
    <3>5. Stale(w) => StaleFor(w) <= ProgressTimeout
      BY <2>3, StaleWaits
    <3>6. ~ NeedsRestart(w)
      BY <3>3, <3>4, <3>5, CeilingFacts DEF Generous, NeedsRestart
    <3>7. Served'
      BY <1>1, <3>2, <3>6, RequestCalm
    <3>8. Patient'
      <4>1. ASSUME NEW v \in Workers, seen'[v].stale
            PROVE  \E p \in Procs : proc[p].of = v /\ Waits(proc[p], key[v], seen'[v])
        <5>1. CASE v = w
          <6> HIDE DEF s
          <6>1. seen'[w] = s
            BY <3>1 DEF IInv, SeenOK
          <6> USE DEF s
          <6>2. seen'[w].done = key[w].done /\ seen'[w].since = StaleFor(w)
            BY <6>1
          <6>3. Stale(w)
            BY <4>1, <5>1, <6>1
          <6>4. PICK p \in Procs :
                   /\ proc[p].of = w /\ proc[p].state = "up"
                   /\ StaleFor(w) <= ProgressTimeout
                   /\ key[w].done = proc[p].done =>
                         proc[p].busy /\ StaleFor(w) <= proc[p].since
            BY <2>3, <6>3, StaleWaits
          <6>5. Waits(proc[p], key[w], seen'[w])
            BY <3>4, <6>2, <6>4 DEF Waits
          <6>. QED
            BY <5>1, <6>4, <6>5
        <5>2. CASE v # w
          <6>1. seen'[v] = seen[v]
            BY <3>1, <5>2 DEF IInv, SeenOK
          <6>. QED
            BY <4>1, <6>1 DEF Calm, Patient
        <5>. QED
          BY <5>1, <5>2
      <4>. QED
        BY <1>1, <4>1 DEF Patient
    <3>. QED
      BY <1>2, <2>1, <3>7, <3>8 DEF Calm
  <2>. QED
    BY <2>2, <2>3
<1>. QED
  BY <1>3, <1>4, <1>5, <1>6 DEF PassStep

\* No record gets as old as its TTL.
LEMMA CalmExpire ==
  ASSUME IInv, Calm, NEW w \in Workers, Expire(w)
  PROVE  FALSE
<1>1. key[w].there /\ key[w].age >= KeyTTL /\ key[w].age \in 0..KeyTTL
  BY DEF Expire, IInv, KeyOK, KeyStates
<1>2. key[w].age <= InitCeiling
  BY <1>1, ThereUp DEF Calm
<1>. QED
  BY <1>1, <1>2, CeilingFacts

\* In one period every process beats; tasks and start-ups get older by one.
LEMMA CalmTick ==
  ASSUME IInv, IInv', Calm, Tick, ~ overran'
  PROVE  Calm'
<1>1. /\ UNCHANGED <<pid, queue, marked>> /\ pass'.pc = "rest"
      /\ loop'.pc = loop.pc /\ loop'.of = loop.of /\ loop'.p = loop.p
  BY DEF Tick, Resting, IInv, LoopOK, LoopStates
<1>2. ASSUME NEW p \in Procs
      PROVE  /\ proc'[p].of = proc[p].of /\ proc'[p].state = proc[p].state
             /\ proc'[p].done = proc[p].done
             /\ proc'[p].beats <=> proc[p].beats
             /\ proc'[p].busy <=> proc[p].busy
             /\ proc'[p].stuck <=> proc[p].stuck
             /\ proc[p].since \in Nat /\ proc[p].done \in Nat
             /\ (proc[p].state = "init" \/ (proc[p].busy /\ ~ proc[p].stuck)) =>
                   proc'[p].since = proc[p].since + 1
             /\ proc[p].state = "boot" => proc'[p].since = proc[p].since
  <2>1. proc[p] \in ProcStates /\ Sane(proc[p])
    BY DEF IInv, ProcsOK, Sane
  <2>2. /\ 0..(TaskCeiling + InitCeiling) \subseteq Nat /\ 0..MaxDone \subseteq Nat
    OBVIOUS
  <2>3. proc[p].since \in Nat /\ proc[p].done \in Nat
    BY <2>1, <2>2 DEF ProcStates
  <2> DEFINE n == proc[p].since + 1
  <2>4. proc'[p] = IF proc[p].state = "init" \/ (proc[p].busy /\ ~ proc[p].stuck)
                   THEN [proc[p] EXCEPT !.since = n] ELSE proc[p]
    BY DEF Tick
  <2> HIDE DEF n
  <2>5. CASE proc[p].state = "init" \/ (proc[p].busy /\ ~ proc[p].stuck)
    <3>1. proc'[p] = [proc[p] EXCEPT !.since = n]
      BY <2>4, <2>5
    <3>2. proc'[p].since = n /\ proc[p].state # "boot"
      BY <2>1, <2>5, <3>1 DEF ProcStates, Sane
    <3>. QED
      BY <2>1, <2>3, <3>1, <3>2 DEF ProcStates, n
  <2>6. CASE ~ (proc[p].state = "init" \/ (proc[p].busy /\ ~ proc[p].stuck))
    BY <2>3, <2>4, <2>6
  <2>. QED
    BY <2>5, <2>6
<1>3. ASSUME NEW w \in Workers
      PROVE  /\ key'[w].there <=> key[w].there
             /\ key'[w].busy <=> key[w].busy
             /\ key'[w].flag <=> key[w].flag
             /\ key'[w].done = key[w].done /\ key[w].age \in Nat /\ key[w].done \in Nat
             /\ key[w].there => key'[w].age = key[w].age + 1
  <2>1. key[w] \in KeyStates
    BY DEF IInv, KeyOK
  <2>2. 0..KeyTTL \subseteq Nat /\ 0..MaxDone \subseteq Nat
    OBVIOUS
  <2>3. key[w].age \in Nat /\ key[w].done \in Nat
    BY <2>1, <2>2 DEF KeyStates
  <2> DEFINE n == key[w].age + 1
  <2>4. key'[w] = IF key[w].there THEN [key[w] EXCEPT !.age = n] ELSE key[w]
    BY DEF Tick
  <2> HIDE DEF n
  <2>5. CASE key[w].there
    <3>1. key'[w] = [key[w] EXCEPT !.age = n]
      BY <2>4, <2>5
    <3>. QED
      BY <2>1, <2>3, <3>1 DEF KeyStates, n
  <2>6. CASE ~ key[w].there
    BY <2>3, <2>4, <2>6
  <2>. QED
    BY <2>5, <2>6
<1>4. ASSUME NEW w \in Workers
      PROVE  /\ seen'[w].stale <=> seen[w].stale
             /\ seen'[w].done = seen[w].done /\ seen[w].since \in Nat
             /\ seen[w].done \in Nat
             /\ seen'[w].since \in {seen[w].since, seen[w].since + 1}
  <2>1. seen[w] \in SeenStates
    BY DEF IInv, SeenOK
  <2>2. 0..(ProgressTimeout + 1) \subseteq Nat /\ 0..MaxDone \subseteq Nat
    OBVIOUS
  <2>3. seen[w].since \in Nat /\ seen[w].done \in Nat
    BY <2>1, <2>2 DEF SeenStates
  <2> DEFINE n == seen[w].since + 1
             c == seen[w].stale /\ seen[w].since <= ProgressTimeout
  <2>4. seen'[w] = IF c THEN [seen[w] EXCEPT !.since = n] ELSE seen[w]
    BY DEF Tick
  <2> HIDE DEF n, c
  <2>5. CASE c
    <3>1. seen'[w] = [seen[w] EXCEPT !.since = n]
      BY <2>4, <2>5
    <3>. QED
      BY <2>1, <2>3, <3>1 DEF SeenStates, n
  <2>6. CASE ~ c
    BY <2>3, <2>4, <2>6
  <2>. QED
    BY <2>5, <2>6
<1>5. /\ \A p \in Procs : Alive(p)' <=> Alive(p)
      /\ \A w : Bare(w)' <=> Bare(w)
  BY <1>2 DEF Bare, Alive
<1>6. Sound'
  <2>1. \A w \in Workers : pid'[w] # NoProc => Alive(pid[w])'
    BY <1>1, <1>5 DEF Calm, Sound, IInv, PidOK
  <2>2. Single'
    BY <1>2, <1>5 DEF Calm, Sound, Single
  <2>3. \A p \in Procs : /\ proc'[p].state \in Running \cup {"none"} /\ ~ proc'[p].stuck
                         /\ proc'[p].state = "up" => proc'[p].beats
    BY <1>2 DEF Calm, Sound
  <2>. QED
    BY <1>1, <2>1, <2>2, <2>3 DEF Sound
<1>7. Served'
  <2>1. loop'.pc = "note" => Alive(loop.p)'
    BY <1>1, <1>5 DEF Calm, Served, IInv, LoopOK
  <2>2. loop'.pc \in {"clear", "wait"} =>
          \E p \in Procs : proc'[p].of = loop.of /\ proc'[p].state \in {"init", "up"}
    BY <1>1, <1>2 DEF Calm, Served
  <2>3. \A p \in Procs : proc'[p].state = "boot" => loop.pc = "note" /\ loop.p = p
    BY <1>2 DEF Calm, Served
  <2>. QED
    BY <1>1, <1>5, <2>1, <2>2, <2>3 DEF Calm, Served, Alive
\* Who is up has beaten, and is not over time.
<1>8. ASSUME NEW p \in Procs, Alive(p)
      PROVE  /\ proc[p].of \in Workers /\ ~ proc[p].stuck /\ proc[p].state # "boot"
             /\ proc[p].state = "init" => proc[p].since < InitCeiling
             /\ proc[p].busy => proc[p].since < ProgressTimeout
             /\ proc[p].state = "up" =>
                   /\ key[proc[p].of].age = 0 /\ key[proc[p].of].done = proc[p].done
                   /\ key[proc[p].of].busy <=> proc[p].busy
  <2>1. proc[p].of \in Workers /\ ~ proc[p].stuck /\ (proc[p].state = "up" => proc[p].beats)
    BY <1>8 DEF IInv, ProcsOK, Sane, Alive, Calm, Sound
  <2>2. /\ proc[p].state # "boot"
        /\ proc[p].state = "init" => proc[p].since < InitCeiling
        /\ proc[p].busy => proc[p].since < ProgressTimeout
        /\ proc[p].state = "up" => key[proc[p].of] = Pulse(p)
    <3>1. /\ proc[p].state # "boot"
          /\ proc[p].state = "init" => proc[p].since < InitCeiling
      BY DEF Tick, PeriodOver
    <3>2. proc[p].busy => proc[p].since < ProgressTimeout
      <4>1. ~ \E q \in Procs : /\ proc[q].busy /\ ~ proc[q].stuck
                               /\ proc[q].since >= ProgressTimeout
        BY Zenon DEF Tick
      <4>2. proc[p].since \in Nat /\ ProgressTimeout \in Nat
        BY <1>2, CeilingFacts
      <4>. QED
        BY <2>1, <4>1, <4>2
    <3>3. ASSUME proc[p].state = "up"
          PROVE  key[proc[p].of] = Pulse(p)
      <4>1. PICK q \in Procs : /\ proc[q].state = "up" /\ proc[q].of = proc[p].of
                               /\ key[proc[q].of] = Pulse(q)
        BY <2>1, <3>3 DEF Tick, PeriodOver
      <4>2. q = p
        BY <1>8, <4>1 DEF Calm, Sound, Single, Alive, Running
      <4>. QED
        BY <4>1, <4>2
    <3>. QED
      BY <3>1, <3>2, <3>3
  <2> DEFINE w == proc[p].of
             b == proc[p].busy
             n == proc[p].done
  <2>3. w \in Workers /\ KeyOK /\ ~ key[w].flag
    BY <2>1 DEF IInv, Calm, Fresh
  <2>4. Pulse(p) = Beaten(w, "true", b, n)
    BY DEF Pulse
  <2> HIDE DEF w, b, n
  <2>5. Pulse(p).age = 0 /\ Pulse(p).busy = b /\ Pulse(p).done = n
    BY <2>3, <2>4, BeatenFields
  <2>6. proc[p].state = "up" => key[w].age = 0 /\ key[w].busy = b /\ key[w].done = n
    BY <2>2, <2>5 DEF w
  <2>. QED
    BY <2>1, <2>2, <2>6 DEF w, b, n
<1>9. Fresh'
  <2>1. ASSUME NEW p \in Procs, Alive(p)
        PROVE  Fits(proc'[p], key'[proc[p].of])
    <3>1. Fits(proc[p], key[proc[p].of])
      BY <2>1 DEF Calm, Fresh
    <3>. QED
      BY <1>2, <1>3, <1>8, <2>1, <3>1, CeilingFacts DEF Fits
  <2>. QED
    BY <1>2, <1>3, <1>5, <2>1 DEF Calm, Fresh
<1>10. Patient'
  <2>1. ASSUME NEW w \in Workers, seen[w].stale
        PROVE  \E p \in Procs : proc'[p].of = w /\ Waits(proc'[p], key'[w], seen'[w])
    <3>1. PICK p \in Procs : proc[p].of = w /\ Waits(proc[p], key[w], seen[w])
      BY <2>1 DEF Calm, Patient
    <3>2. Alive(p) /\ proc[p].state = "up"
      BY <3>1 DEF Waits, Alive, Running
    <3>3. Waits(proc'[p], key'[w], seen'[w])
      BY <1>2, <1>3, <1>4, <1>8, <3>1, <3>2, CeilingFacts DEF Waits
    <3>. QED
      BY <1>2, <3>1, <3>3
  <2>. QED
    BY <1>4, <2>1 DEF Patient
<1>. QED
  BY <1>1, <1>6, <1>7, <1>9, <1>10 DEF Calm, Awaited

\* A kill finds nobody: who is restarted has no process, and no pid.
LEMMA KillsNobody ==
  ASSUME IInv, Calm, loop.pc = "kill"
  PROVE  /\ KillWorker => UNCHANGED <<proc, key, pid>>
         /\ KillFails => UNCHANGED proc
<1>1. loop.of \in Workers /\ Bare(loop.of)
  BY DEF IInv, LoopOK, Calm, Served
<1>2. pid[loop.of] = NoProc
  BY <1>1 DEF IInv, PidOK, Calm, Sound, Bare
<1>. QED
  BY <1>1, <1>2 DEF KillWorker, KillFails, Killed, IInv, PidOK

LEMMA CalmSpawn ==
  ASSUME IInv, IInv', Calm, Spawn
  PROVE  Calm'
<1>1. PICK p \in Procs :
         /\ loop.pc = "spawn" /\ loop.of \in Workers /\ Bare(loop.of)
         /\ loop'.pc = "note" /\ loop'.of = loop.of /\ loop'.p = p /\ Spawned(p)
         /\ UNCHANGED <<key, pid, seen, pass, queue, marked>>
  BY LoopMoves, SpawnedProcs DEF Spawn, IInv, LoopOK, Calm, Served, After, redis, monitor
<1>2. proc[p].state = "none"
  BY <1>1 DEF Spawned, Unused, Calm, Sound, Running
<1>3. Reaped = proc
  BY DEF Reaped, Calm, Sound, Running, IInv, ProcsOK
<1>4. /\ \A q \in Procs : q # p => proc'[q] = proc[q]
      /\ proc'[p] = [NotStarted EXCEPT !.of = loop.of, !.state = "boot", !.kid = TRUE]
  BY <1>1, <1>3 DEF Spawned, IInv, ProcsOK
<1>5. /\ proc'[p].of = loop.of /\ proc'[p].state = "boot" /\ ~ proc'[p].stuck
      /\ proc'[p].since = 0
  BY <1>4 DEF NotStarted
<1>6. /\ \A q \in Procs : Alive(q)' <=> (q = p \/ Alive(q))
      /\ ~ Alive(p)
      /\ \A w : Bare(w)' <=> (Bare(w) /\ w # loop.of)
  <2>1. \A q \in Procs : Alive(q)' <=> (q = p \/ Alive(q))
    BY <1>4, <1>5 DEF Alive, Running
  <2>2. ~ Alive(p)
    BY <1>2 DEF Alive, Running
  <2>3. \A q \in Procs : q # p => proc'[q].of = proc[q].of
    BY <1>4
  <2>4. \A w : Bare(w)' <=> (Bare(w) /\ w # loop.of)
    BY <1>5, <2>1, <2>2, <2>3 DEF Bare
  <2>. QED
    BY <2>1, <2>2, <2>4
<1>7. Sound'
  <2>1. Single'
    BY <1>1, <1>4, <1>5, <1>6 DEF Calm, Sound, Single, Bare
  <2>2. \A w \in Workers : pid[w] # NoProc => Alive(pid[w])'
    BY <1>1, <1>6 DEF Calm, Sound, IInv, PidOK
  <2>3. \A q \in Procs : /\ proc'[q].state \in Running \cup {"none"} /\ ~ proc'[q].stuck
                         /\ proc'[q].state = "up" => proc'[q].beats
    BY <1>4, <1>5 DEF Calm, Sound, Running
  <2>. QED
    BY <1>1, <2>1, <2>2, <2>3 DEF Sound
<1>8. Served'
  <2>1. \A q \in Procs : proc'[q].state = "boot" => q = p
    BY <1>1, <1>4 DEF Calm, Served
  <2>2. \A w \in Range(queue) : w \in marked /\ Bare(w)'
    BY <1>1, <1>6 DEF Calm, Served
  <2>3. Alive(p)'
    BY <1>1, <1>6
  <2>. QED
    BY <1>1, <2>1, <2>2, <2>3 DEF Calm, Served, Alive
<1>9. Fresh'
  <2>1. ~ key[loop.of].there
    BY <1>1 DEF Calm, Fresh
  <2>2. Fits(proc'[p], key[loop.of])
    BY <1>5, <2>1 DEF Fits
  <2>. QED
    BY <1>1, <1>4, <1>5, <1>6, <2>2 DEF Calm, Fresh
<1>10. Patient'
  <2>1. \A q \in Procs : proc[q].state = "up" => proc'[q] = proc[q]
    BY <1>2, <1>4
  <2>. QED
    BY <1>1, <2>1 DEF Calm, Patient, Waits
<1>11. Awaited'
  BY <1>1, <1>6 DEF Calm, Awaited
<1>. QED
  BY <1>7, <1>8, <1>9, <1>10, <1>11 DEF Calm

LEMMA CalmLoop ==
  ASSUME IInv, IInv', Calm, LoopStep
  PROVE  Calm'
<1>1. CASE TakeRequest
  <2>1. /\ loop.pc = "idle" /\ queue # <<>> /\ queue \in Seq(Workers)
        /\ loop'.pc = "kill" /\ loop'.of = Head(queue) /\ queue' = Tail(queue)
        /\ UNCHANGED <<proc, key, pid, seen, pass, marked>>
    BY <1>1, LoopMoves DEF TakeRequest, After, IInv, QueueOK, redis
  <2>2. /\ Head(queue) \in Range(queue) /\ Head(queue) \notin Range(queue')
        /\ Range(queue') \subseteq Range(queue) /\ IsInjective(queue')
    BY <2>1, TailOnce DEF Calm, Served
  <2>3. \A w : Bare(w)' <=> Bare(w)
    BY <2>1 DEF Bare, Alive
  <2>4. Sound' /\ Fresh' /\ Patient'
    BY <2>1, <2>3 DEF Calm, Sound, Fresh, Patient, Single, Alive
  <2>5. Served'
    BY <2>1, <2>2, <2>3 DEF Calm, Served
  <2>6. Awaited'
    BY <2>1, <2>3 DEF Calm, Awaited
  <2>. QED
    BY <2>4, <2>5, <2>6 DEF Calm
<1>2. CASE KillWorker
  <2>1. /\ loop.pc = "kill" /\ loop'.pc = "spawn" /\ loop'.of = loop.of
        /\ UNCHANGED <<proc, key, pid, seen, pass, queue, marked>>
    BY <1>2, LoopMoves, KillsNobody DEF KillWorker, After, monitor
  <2>2. \A w : Bare(w)' <=> Bare(w)
    BY <2>1 DEF Bare, Alive
  <2>3. Sound' /\ Fresh' /\ Patient'
    BY <2>1, <2>2 DEF Calm, Sound, Fresh, Patient, Single, Alive
  <2>4. Served' /\ Awaited'
    BY <2>1, <2>2 DEF Calm, Served, Awaited
  <2>. QED
    BY <2>3, <2>4 DEF Calm
<1>3. CASE Spawn
  BY <1>3, CalmSpawn
<1>4. CASE NoteStarted
  <2>1. /\ loop.pc = "note" /\ loop'.pc = "clear" /\ loop'.of = loop.of
        /\ loop.p \in Procs /\ proc[loop.p].of = loop.of /\ loop.of \in Workers
        /\ Alive(loop.p) /\ proc[loop.p].state # "boot"
        /\ pid' = [pid EXCEPT ![loop.of] = loop.p]
        /\ UNCHANGED <<proc, key, seen, pass, queue, marked>>
    BY <1>4, LoopMoves DEF NoteStarted, After, IInv, LoopOK, monitor
  <2>2. /\ \A w : Bare(w)' <=> Bare(w)
        /\ \A q : Alive(q)' <=> Alive(q)
    BY <2>1 DEF Bare, Alive
  <2>3. \A w \in Workers : pid'[w] # NoProc => Alive(pid'[w])
    BY <2>1 DEF Calm, Sound, IInv, PidOK
  <2>4. Sound'
    BY <2>1, <2>3 DEF Calm, Sound, Single, Alive
  <2>5. Fresh' /\ Patient'
    BY <2>1, <2>2 DEF Calm, Fresh, Patient
  <2>6. \E q \in Procs : proc[q].of = loop.of /\ proc[q].state \in {"init", "up"}
    BY <2>1 DEF Alive, Running
  <2>7. \A q \in Procs : proc[q].state # "boot"
    BY <2>1 DEF Calm, Served
  <2>8. Served'
    BY <2>1, <2>2, <2>6, <2>7 DEF Calm, Served
  <2>9. Awaited'
    BY <2>1, <2>2 DEF Calm, Awaited
  <2>. QED
    BY <2>4, <2>5, <2>8, <2>9 DEF Calm
<1>5. CASE NoteFailed
  BY <1>5 DEF NoteFailed, Calm, Served
<1>6. CASE ClearFlag
  <2>1. /\ loop.pc = "clear" /\ loop'.pc = "wait" /\ loop'.of = loop.of
        /\ loop.of \in Workers
        /\ key' = [key EXCEPT ![loop.of].flag = FALSE]
        /\ UNCHANGED <<proc, pid, seen, pass, queue, marked>>
    BY <1>6, LoopMoves DEF ClearFlag, After, IInv, LoopOK, monitor
  <2>2. loop'.wait = InitWait
    BY <1>6 DEF ClearFlag, IInv, LoopOK, LoopStates
  <2>3. key' = key
    <3>1. key[loop.of] \in KeyStates /\ key[loop.of].flag = FALSE
      <4>1. key[loop.of] \in KeyStates /\ ~ key[loop.of].flag
        BY <2>1 DEF IInv, KeyOK, Calm, Fresh
      <4>. QED
        BY <4>1 DEF KeyStates
    <3>2. [key[loop.of] EXCEPT !.flag = FALSE] = key[loop.of]
      BY <3>1 DEF KeyStates
    <3>. QED
      BY <2>1, <3>2 DEF IInv, KeyOK
  <2>4. \A w : Bare(w)' <=> Bare(w)
    BY <2>1 DEF Bare, Alive
  <2>5. Sound' /\ Fresh' /\ Patient'
    BY <2>1, <2>3, <2>4 DEF Calm, Sound, Fresh, Patient, Single, Alive
  <2>6. Served'
    BY <2>1, <2>4 DEF Calm, Served
  <2>7. Awaited'
    BY <2>1, <2>2, <2>4 DEF Calm, Awaited
  <2>. QED
    BY <2>5, <2>6, <2>7 DEF Calm
<1>7. CASE Restarted
  <2>1. /\ loop.pc = "wait" /\ loop.wait = 0 /\ loop'.pc = "idle"
        /\ marked' = marked \ {loop.of}
        /\ UNCHANGED <<proc, key, pid, seen, pass, queue>>
    BY <1>7 DEF Restarted, IdleLoop, redis
  <2>2. \A w : Bare(w)' <=> Bare(w)
    BY <2>1 DEF Bare, Alive
  <2>3. Sound' /\ Fresh' /\ Patient'
    BY <2>1, <2>2 DEF Calm, Sound, Fresh, Patient, Single, Alive
  <2>4. Served'
    BY <2>1, <2>2 DEF Calm, Served
  <2>5. Awaited'
    BY <2>1, <2>2, CeilingFacts DEF Calm, Awaited
  <2>. QED
    BY <2>3, <2>4, <2>5 DEF Calm
<1>8. CASE Retry
  BY <1>8 DEF Retry, Calm, Served
<1>. QED
  BY <1>1, <1>2, <1>3, <1>4, <1>5, <1>6, <1>7, <1>8 DEF LoopStep

\* Faults never become fewer; and a step of anybody else leaves them.
LEMMA CalmStep ==
  ASSUME Generous, IInv, IInv', CalmInv, [Next]_vars
  PROVE  CalmInv'
<1>1. CASE UNCHANGED vars
  BY <1>1 DEF vars, CalmInv, Quiet, Calm, Sound, Served, Fresh, Patient, Awaited, Bare,
              Alive, Single
<1>2. ASSUME NEW p \in Procs, FaultStep(p)
      PROVE  CalmInv'
  <2>1. PICK k \in Kinds : Fault(k)
    BY <1>2 DEF FaultStep, Crash, Wedge, LoseHeartbeat, Quit, InitFails, Kinds
  <2>2. faults'[k] # 0
    BY <2>1 DEF Fault, IInv, FaultOK
  <2>. QED
    BY <2>2 DEF CalmInv, Quiet
<1>3. ASSUME NEW p \in Procs, LifeStep(p) \/ TakeTask(p)
      PROVE  CalmInv'
  <2>1. UNCHANGED <<faults, overran>>
    BY <1>3 DEF LifeStep, Boot, Ready, Heartbeat, FinishTask, TakeTask
  <2>. QED
    BY <1>3, <2>1, CalmLife DEF CalmInv, Quiet
<1>4. CASE PassStep
  <2>1. UNCHANGED <<faults, overran>>
    BY <1>4 DEF PassStep, PassBegins, CheckWorker, PassExpects, ExpectWorker, PassEnds
  <2>. QED
    BY <1>4, <2>1, CalmPass DEF CalmInv, Quiet
<1>5. CASE LoopStep
  <2>1. UNCHANGED <<faults, overran>>
    BY <1>5 DEF LoopStep, TakeRequest, KillWorker, Spawn, NoteStarted, NoteFailed,
                ClearFlag, Restarted, Retry
  <2>. QED
    BY <1>5, <2>1, CalmLoop DEF CalmInv, Quiet
<1>6. ASSUME NEW w \in Workers, Expire(w)
      PROVE  CalmInv'
  <2>1. UNCHANGED <<faults, overran>>
    BY <1>6 DEF Expire
  <2>. QED
    BY <1>6, <2>1, CalmExpire DEF CalmInv, Quiet
<1>7. CASE Tick
  <2>1. UNCHANGED faults /\ (overran => overran')
    BY <1>7 DEF Tick
  <2>. QED
    BY <1>7, <2>1, CalmTick DEF CalmInv, Quiet
<1>8. CASE ErrorStep
  <2>1. faults'["error"] # 0
    BY <1>8, ErrorFault DEF IInv, FaultOK, Kinds
  <2>. QED
    BY <2>1 DEF CalmInv, Quiet, Kinds
<1>. QED
  BY <1>1, <1>2, <1>3, <1>4, <1>5, <1>6, <1>7, <1>8 DEF Next

\* Only the kill of a restart takes the loop from the kill to the start.
LEMMA CalmKills ==
  ASSUME IInv, CalmInv, [Next]_vars, Quiet
  PROVE  ~ KillsHealthy
<1> SUFFICES ASSUME NEW p \in Procs, Healthy(p), loop.pc = "kill", loop'.pc = "spawn",
                    ~ Alive(p)'
             PROVE  FALSE
  BY DEF KillsHealthy
<1>1. Alive(p)
  BY DEF Healthy, Alive, Running
<1>2. CASE KillWorker \/ KillFails
  BY <1>1, <1>2, KillsNobody DEF CalmInv, Alive
<1>3. CASE ~ KillWorker /\ ~ KillFails
  <2>1. UNCHANGED loop \/ Tick
    BY <1>3 DEF Next, vars, LifeStep, Boot, Ready, Heartbeat, FinishTask, TakeTask,
                FaultStep, Crash, Wedge, LoseHeartbeat, Quit, InitFails,
                PassStep, PassBegins, CheckWorker, PassExpects, ExpectWorker, PassEnds,
                LoopStep, TakeRequest, Spawn, NoteStarted, NoteFailed, ClearFlag,
                Restarted, Retry, Expire,
                ErrorStep, PassBlind, PassFails, SpawnFails, NoteLost, ClearFails
  <2>2. loop'.pc = loop.pc
    BY <2>1 DEF Tick, IInv, LoopOK, LoopStates
  <2>. QED
    BY <2>2
<1>. QED
  BY <1>2, <1>3

-----------------------------------------------------------------------------
(* The theorems. *)

\* Every reachable state is well typed, and worker_process:<id> never holds the pid
\* of a process of another worker.
THEOREM TypeCorrect == Spec => []TypeOK
BY IInvHolds, IInvTypes, PTL

\* However checks, expectations, failed starts and retries come, a worker stays
\* marked as being restarted when nobody restarts it only for a failed command.
THEOREM MarkedCorrect == Spec => []MarkedIsServed
<1>1. Init => MarkedIsServed
  <2> SUFFICES ASSUME Init
               PROVE  MarkedIsServed
    OBVIOUS
  <2>1. LeftBehind = {} /\ faults["error"] = 0
    BY DEF Init, LeftBehind, Kinds
  <2>. QED
    BY <2>1, FS_EmptySet DEF MarkedIsServed
<1>. QED
  BY <1>1, IInvHolds, MarksStep, PTL DEF Spec

\* A worker id has one process and no more than the orphans that failed commands and
\* a start by hand account for, however processes die, stop or hang while they are
\* restarted.
THEOREM OneCorrect == Spec => []OneProcess
BY OwnedInit, IInvHolds, OwnedStep, OwnedOne, PTL DEF Spec

\* As long as nothing has failed and no task has run longer than ProgressTimeout, the
\* monitor kills no healthy worker, in whatever order beats, tasks, checks and
\* restarts come, if a start-up takes less than HeartbeatTimeout; TaskCeiling is any.
THEOREM HealthyCorrect == Generous => (Spec => HealthyNotKilled)
<1> SUFFICES ASSUME Generous
             PROVE  Spec => HealthyNotKilled
  OBVIOUS
<1>1. Init => CalmInv
  BY CalmInit DEF CalmInv
<1>2. IInv /\ IInv' /\ CalmInv /\ [Next]_vars => CalmInv'
  BY CalmStep
<1>3. IInv /\ CalmInv /\ [Next]_vars => [Quiet => ~ KillsHealthy]_vars
  BY CalmKills
<1>. QED
  BY <1>1, <1>2, <1>3, IInvHolds, PTL DEF Spec, HealthyNotKilled, Quiet
=============================================================================
