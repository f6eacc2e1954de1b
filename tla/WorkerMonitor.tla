--------------------------- MODULE WorkerMonitor ---------------------------
(***************************************************************************)
(* Who keeps the GPU workers running: worker/worker_monitor.py beside the  *)
(* life of the worker processes, worker/gpu_worker.py started by           *)
(* worker/single_worker.py.                                                *)
(*                                                                         *)
(*   Workers  worker ids                                                   *)
(*   Procs    worker processes; several may carry one worker id            *)
(*                                                                         *)
(* They meet in Redis only: the hash worker:<id>, which a heartbeat renews *)
(* and which expires, and worker_process:<id>, which holds a pid.  Time is *)
(* counted in passes of the monitor: in one Tick every heartbeat loop has  *)
(* beaten and the monitor has looked once.                                 *)
(***************************************************************************)
EXTENDS Naturals, Sequences, FiniteSets, SequencesExt

CONSTANTS Workers, Procs,
          NoWorker, NoProc,  \* nobody
          Expected,          \* the set expected_workers
          Persistent,        \* the monitor's flag --persistent
          Launched,          \* workers started by hand before the monitor
          KeyTTL,            \* expiry of worker:<id>
          HeartbeatTimeout,  \* worker_monitor_heartbeat_timeout
          ProgressTimeout,   \* worker_monitor_task_progress_timeout
          TaskCeiling,       \* how long a task may take
          InitCeiling,       \* how long a worker may initialise
          InitWait,          \* the pause after a restart
          Cooldown,          \* worker_monitor_restart_cooldown
          Budgets,           \* how many faults of each kind there may be
          MaxDone            \* bound on the tasks a process finishes

\* "error": an exception in the monitor, of a Redis command or of a start.
Kinds == {"crash", "wedge", "silence", "quit", "error"}

ASSUME MonitorAssumption ==
  /\ NoWorker \notin Workers /\ NoProc \notin Procs
  /\ Expected \subseteq Workers /\ Launched \subseteq Workers
  /\ Persistent \in BOOLEAN
  /\ {KeyTTL, HeartbeatTimeout, ProgressTimeout, TaskCeiling, InitCeiling,
      InitWait, Cooldown} \subseteq Nat \ {0}
  /\ InitCeiling < KeyTTL
  /\ Budgets \subseteq [Kinds -> Nat] /\ MaxDone \in Nat
  /\ IsFiniteSet(Procs) /\ IsFiniteSet(Workers)
  /\ \A b \in Budgets :
        Cardinality(Procs) > Cardinality(Workers) + Cardinality(Launched) + b["error"]

VARIABLES
  proc,      \* each process
  key,       \* worker:<id>
  pid,       \* worker_process:<id>
  seen,      \* monitored_workers: what the last check saw of a worker
  pass,      \* the monitor's pass
  queue,     \* restart_queue
  marked,    \* restart_in_progress
  loop,      \* the restart loop
  faults,    \* how many faults of each kind there were
  overran    \* history: a task took longer than ProgressTimeout and was not stuck

redis == <<key, pid>>
monitor == <<seen, pass, queue, marked>>
vars == <<proc, key, pid, seen, pass, queue, marked, loop, faults, overran>>

\* "beats": the heartbeat loop runs; "stuck": the processing loop never comes
\* back from its task; "kid": a child of the monitor; "since": ticks spent on
\* the task or on initialising.
NotStarted == [of |-> NoWorker, state |-> "none", beats |-> FALSE, busy |-> FALSE,
               stuck |-> FALSE, kid |-> FALSE, since |-> 0, done |-> 0]
NoKey == [there |-> FALSE, age |-> 0, online |-> "false", flag |-> FALSE,
          busy |-> FALSE, done |-> 0]
NeverSeen == [known |-> FALSE, done |-> 0, stale |-> FALSE, since |-> 0]
\* "expected": the set expected_ids of _check_workers.
Resting == [pc |-> "rest", todo |-> {}, there |-> {}, expected |-> {}]
IdleLoop == [pc |-> "idle", of |-> NoWorker, p |-> NoProc, wait |-> 0]

Running == {"boot", "init", "up"}
Alive(p) == proc[p].state \in Running

\* A process of each launched worker is up; the monitor has no pid of it.
Init == /\ \E f \in [Launched -> Procs] :
              /\ IsInjective(f)
              /\ proc = [p \in Procs |->
                   IF \E w \in Launched : f[w] = p
                   THEN [NotStarted EXCEPT !.of = CHOOSE w \in Launched : f[w] = p,
                                           !.state = "up", !.beats = TRUE]
                   ELSE NotStarted]
        /\ key = [w \in Workers |->
                    IF w \in Launched THEN [NoKey EXCEPT !.there = TRUE, !.online = "true"]
                    ELSE NoKey]
        /\ pid = [w \in Workers |-> NoProc]
        /\ seen = [w \in Workers |-> NeverSeen]
        /\ pass = Resting
        /\ queue = <<>>
        /\ marked = {}
        /\ loop = IdleLoop
        /\ faults = [k \in Kinds |-> 0]
        /\ overran = FALSE

-----------------------------------------------------------------------------
(* A worker process *)

\* _update_worker_status and the first heartbeat of start(): the fields are
\* written and the key is given its TTL; other fields stay.
Beaten(w, online, busy, done) ==
  [key[w] EXCEPT !.there = TRUE, !.age = 0, !.online = online, !.busy = busy,
                 !.done = done, !.flag = key[w].there /\ key[w].flag]

Boot(p) ==
  /\ proc[p].state = "boot"
  /\ proc' = [proc EXCEPT ![p].state = "init"]
  /\ key' = [key EXCEPT ![proc[p].of] = Beaten(proc[p].of, "initializing", FALSE, 0)]
  /\ UNCHANGED <<pid, monitor, loop, faults, overran>>

\* Registered, GPU and pool there: the loops start.
Ready(p) ==
  /\ proc[p].state = "init"
  /\ proc' = [proc EXCEPT ![p].state = "up", ![p].beats = TRUE, ![p].since = 0]
  /\ key' = [key EXCEPT ![proc[p].of] = Beaten(proc[p].of, "true", FALSE, 0)]
  /\ UNCHANGED <<pid, monitor, loop, faults, overran>>

\* What the heartbeat loop of a process writes.
Pulse(p) == Beaten(proc[p].of, "true", proc[p].busy, proc[p].done)

Heartbeat(p) ==
  /\ proc[p].state = "up" /\ proc[p].beats
  /\ key[proc[p].of] # Pulse(p)
  /\ key' = [key EXCEPT ![proc[p].of] = Pulse(p)]
  /\ UNCHANGED <<proc, pid, monitor, loop, faults, overran>>

TakeTask(p) ==
  /\ proc[p].state = "up" /\ ~ proc[p].busy
  /\ proc[p].done < MaxDone
  /\ proc' = [proc EXCEPT ![p].busy = TRUE, ![p].since = 0]
  /\ UNCHANGED <<redis, monitor, loop, faults, overran>>

\* Mutant: the task stays the current one after it is counted.
FinishTaskKept(p) ==
  /\ proc[p].state = "up" /\ proc[p].busy /\ ~ proc[p].stuck
  /\ proc' = [proc EXCEPT ![p].done = @ + 1]
  /\ UNCHANGED <<redis, monitor, loop, faults, overran>>

FinishTask(p) ==
  /\ proc[p].state = "up" /\ proc[p].busy /\ ~ proc[p].stuck
  /\ proc' = [proc EXCEPT ![p].busy = FALSE, ![p].since = 0, ![p].done = @ + 1]
  /\ UNCHANGED <<redis, monitor, loop, faults, overran>>

\* A dead child stays a zombie until the monitor starts another process.
Dead(x) == [NotStarted EXCEPT !.of = x.of, !.kid = x.kid,
                              !.state = IF x.kid THEN "zombie" ELSE "gone"]

Fault(k) == /\ faults' = [faults EXCEPT ![k] = @ + 1]
            /\ \E b \in Budgets : \A j \in Kinds : faults'[j] <= b[j]

Crash(p) ==
  /\ Alive(p)
  /\ Fault("crash")
  /\ proc' = [proc EXCEPT ![p] = Dead(@)]
  /\ UNCHANGED <<redis, monitor, loop, overran>>

Wedge(p) ==
  /\ proc[p].state = "up" /\ proc[p].busy /\ ~ proc[p].stuck
  /\ Fault("wedge")
  /\ proc' = [proc EXCEPT ![p].stuck = TRUE]
  /\ UNCHANGED <<redis, monitor, loop, overran>>

\* Any exception of _send_heartbeat_to_api ends the heartbeat loop; the
\* processing loop goes on.
LoseHeartbeat(p) ==
  /\ proc[p].state = "up" /\ proc[p].beats
  /\ Fault("silence")
  /\ proc' = [proc EXCEPT ![p].beats = FALSE]
  /\ UNCHANGED <<redis, monitor, loop, overran>>

\* stop() writes the offline record; a process started with --persistent also
\* deletes its pid.
Stopped(p, flag) ==
  LET w == proc[p].of
      off == [Beaten(w, "false", FALSE, proc[p].done) EXCEPT !.flag = @ \/ flag]
  IN /\ proc' = [proc EXCEPT ![p] = Dead(@)]
     /\ key' = [key EXCEPT ![w] = off]
     /\ pid' = IF proc[p].kid THEN [pid EXCEPT ![w] = NoProc] ELSE pid

\* Three errors of the processing loop: the flag is set and the worker stops.
\* A rejected heartbeat stops it too, without the flag.
Quit(p) ==
  /\ proc[p].state = "up" /\ ~ proc[p].stuck
  /\ Fault("quit")
  /\ \/ ~ proc[p].busy /\ Stopped(p, TRUE)
     \/ proc[p].beats /\ Stopped(p, FALSE)
  /\ UNCHANGED <<monitor, loop, overran>>

\* Registration, the GPU or the pool failed.
InitFails(p) ==
  /\ proc[p].state = "init"
  /\ Fault("crash")
  /\ Stopped(p, FALSE)
  /\ UNCHANGED <<monitor, loop, overran>>

-----------------------------------------------------------------------------
(* The monitor's pass *)

\* _check_workers lists the keys.
PassBegins ==
  /\ pass.pc = "rest"
  /\ pass' = [Resting EXCEPT !.pc = "check",
                             !.todo = {w \in Workers : key[w].there},
                             !.expected = Expected]
  /\ UNCHANGED <<proc, redis, seen, queue, marked, loop, faults, overran>>

\* smembers failed: this check expects nobody.
PassBlind ==
  /\ pass.pc = "check" /\ Persistent
  /\ pass.expected # {}
  /\ Fault("error")
  /\ pass' = [pass EXCEPT !.expected = {}]
  /\ UNCHANGED <<proc, redis, seen, queue, marked, loop, overran>>

\* Any other command failed: the rest of the pass is left out, and after a
\* check the expectations too.
PassFails ==
  /\ pass.pc \in {"rest", "check", "expect"}
  /\ Fault("error")
  /\ pass' = [Resting EXCEPT !.pc = "slept"]
  /\ UNCHANGED <<proc, redis, seen, queue, marked, loop, overran>>

Request(w) == /\ queue' = Append(queue, w)
              /\ marked' = marked \cup {w}
NoRequest == UNCHANGED <<queue, marked>>

\* On a task, online, and tasks_processed has not moved since the last check.
Stale(w) == /\ key[w].online = "true" /\ key[w].busy
            /\ seen[w].known /\ seen[w].done = key[w].done
StaleFor(w) == IF Stale(w) /\ seen[w].stale THEN seen[w].since ELSE 0

\* Mutant: a task that is as long in hand as before is enough.
NeedsRestartAnyStale(w) ==
  \/ key[w].flag
  \/ key[w].age >= HeartbeatTimeout
  \/ Stale(w)

\* The flag, else the heartbeat timeout, or the wedge.  The branch for workers
\* marked offline is never reached: their record has a last_heartbeat.
NeedsRestart(w) ==
  \/ key[w].flag
  \/ key[w].age >= HeartbeatTimeout
  \/ Stale(w) /\ StaleFor(w) > ProgressTimeout

\* KeyTTL and HeartbeatTimeout are both 120 s; a key that has come to that age is
\* seen by the check or is gone first, and what lies between the two is the time
\* of two Redis commands.
CheckWorker(w) ==
  /\ pass.pc = "check" /\ w \in pass.todo
  /\ pass' = [pass EXCEPT !.todo = @ \ {w}]
  /\ IF key[w].there
     THEN /\ IF /\ NeedsRestart(w)
                /\ Persistent => w \in pass.expected
                /\ w \notin marked
             THEN Request(w) ELSE NoRequest
          /\ seen' = [seen EXCEPT ![w] = [known |-> TRUE, done |-> key[w].done,
                                          stale |-> Stale(w), since |-> StaleFor(w)]]
     ELSE NoRequest /\ UNCHANGED seen
  /\ UNCHANGED <<proc, redis, loop, faults, overran>>

\* _check_persistent_expectations lists the keys again.
PassExpects ==
  /\ pass.pc = "check" /\ pass.todo = {}
  /\ pass' = IF Persistent
             THEN [Resting EXCEPT !.pc = "expect", !.todo = Expected,
                                  !.there = {w \in Workers : key[w].there}]
             ELSE [Resting EXCEPT !.pc = "slept"]
  /\ UNCHANGED <<proc, redis, seen, queue, marked, loop, faults, overran>>

\* Mutant: only the pid counts.
MissingPidOnly(w) == pid[w] # NoProc /\ proc[pid[w]].state \notin Running \cup {"zombie"}

\* No key, or a pid nobody has; a zombie still answers the signal 0.
Missing(w) == \/ w \notin pass.there
              \/ pid[w] # NoProc /\ proc[pid[w]].state \notin Running \cup {"zombie"}

ExpectWorker(w) ==
  /\ pass.pc = "expect" /\ w \in pass.todo
  /\ pass' = [pass EXCEPT !.todo = @ \ {w}]
  /\ IF Missing(w) /\ w \notin marked THEN Request(w) ELSE NoRequest
  /\ UNCHANGED <<proc, redis, seen, loop, faults, overran>>

PassEnds ==
  /\ pass.pc = "expect" /\ pass.todo = {}
  /\ pass' = [Resting EXCEPT !.pc = "slept"]
  /\ UNCHANGED <<proc, redis, seen, queue, marked, loop, faults, overran>>

-----------------------------------------------------------------------------
(* The restart loop *)

TakeRequest ==
  /\ loop.pc = "idle" /\ queue # <<>>
  /\ loop' = [IdleLoop EXCEPT !.pc = "kill", !.of = Head(queue)]
  /\ queue' = Tail(queue)
  /\ UNCHANGED <<proc, redis, seen, pass, marked, faults, overran>>

\* Mutant: the recorded process is left alone.
KillWorkerNot ==
  /\ loop.pc = "kill"
  /\ loop' = [loop EXCEPT !.pc = "spawn"]
  /\ pid' = [pid EXCEPT ![loop.of] = NoProc]
  /\ UNCHANGED <<proc, key, monitor, faults, overran>>

\* SIGTERM, on which a process may get to write its offline record, SIGKILL after
\* 10 s; without a recorded pid nothing.
Killed(w) ==
  LET p == pid[w]
  IN IF p # NoProc /\ Alive(p)
     THEN /\ proc' = [proc EXCEPT ![p] = Dead(@)]
          /\ \/ UNCHANGED key
             \/ key' = [key EXCEPT ![w] = Beaten(w, "false", FALSE, proc[p].done)]
     ELSE UNCHANGED <<proc, key>>

\* _kill_worker_process
KillWorker ==
  /\ loop.pc = "kill"
  /\ Killed(loop.of)
  /\ pid' = [pid EXCEPT ![loop.of] = NoProc]
  /\ loop' = [loop EXCEPT !.pc = "spawn"]
  /\ UNCHANGED <<monitor, faults, overran>>

\* hgetall failed, and nobody is killed, or delete, perhaps after Redis took it.  The
\* exception is swallowed and the restart goes on.
KillFails ==
  /\ loop.pc = "kill"
  /\ Fault("error")
  /\ \/ UNCHANGED <<proc, redis>>
     \/ Killed(loop.of) /\ pid' \in {pid, [pid EXCEPT ![loop.of] = NoProc]}
  /\ loop' = [loop EXCEPT !.pc = "spawn"]
  /\ UNCHANGED <<monitor, overran>>

\* The GPU is reset, a new process is started; Popen reaps the zombies.
Unused == {p \in Procs : /\ proc[p].state \in {"none", "zombie", "gone"}
                         /\ \A w \in Workers : pid[w] # p}
Reaped == [p \in Procs |-> IF proc[p].state = "zombie"
                           THEN [proc[p] EXCEPT !.state = "gone"] ELSE proc[p]]

\* Which of the unused ones it is makes no difference.
Spawn ==
  LET p == CHOOSE x \in Unused : TRUE
  IN /\ loop.pc = "spawn" /\ Unused # {}
     /\ proc' = [Reaped EXCEPT ![p] = [NotStarted EXCEPT !.of = loop.of,
                                         !.state = "boot", !.kid = TRUE]]
     /\ loop' = [loop EXCEPT !.pc = "note", !.p = p]
     /\ UNCHANGED <<redis, monitor, faults, overran>>

\* No process could be started.
SpawnFails ==
  /\ loop.pc = "spawn"
  /\ Fault("error")
  /\ proc' \in {proc, Reaped}
  /\ loop' = [loop EXCEPT !.pc = "cool", !.wait = Cooldown]
  /\ UNCHANGED <<redis, monitor, overran>>

\* After 5 s a process that runs is recorded.
NoteStarted ==
  /\ loop.pc = "note"
  /\ Alive(loop.p) /\ proc[loop.p].state # "boot"
  /\ pid' = [pid EXCEPT ![loop.of] = loop.p]
  /\ loop' = [loop EXCEPT !.pc = "clear"]
  /\ UNCHANGED <<proc, key, monitor, faults, overran>>

\* One that is gone is a failed restart.
NoteFailed ==
  /\ loop.pc = "note"
  /\ ~ Alive(loop.p)
  /\ proc' = [proc EXCEPT ![loop.p].state = "gone"]
  /\ loop' = [loop EXCEPT !.pc = "cool", !.p = NoProc, !.wait = Cooldown]
  /\ UNCHANGED <<redis, monitor, faults, overran>>

\* hset failed, perhaps after Redis took it: the process runs, and its restart
\* counts as failed.
NoteLost ==
  /\ loop.pc = "note"
  /\ Alive(loop.p) /\ proc[loop.p].state # "boot"
  /\ Fault("error")
  /\ pid' \in {pid, [pid EXCEPT ![loop.of] = loop.p]}
  /\ loop' = [loop EXCEPT !.pc = "cool", !.p = NoProc, !.wait = Cooldown]
  /\ UNCHANGED <<proc, key, monitor, overran>>

\* hdel of the shutdown flag, then the pause for the initialisation.
ClearFlag ==
  /\ loop.pc = "clear"
  /\ key' = [key EXCEPT ![loop.of].flag = FALSE]
  /\ loop' = [loop EXCEPT !.pc = "wait", !.p = NoProc, !.wait = InitWait]
  /\ UNCHANGED <<proc, pid, monitor, faults, overran>>

\* hdel failed, perhaps after Redis took it: the request is forgotten, and the
\* worker stays marked.
ClearFails ==
  /\ loop.pc = "clear"
  /\ Fault("error")
  /\ key' \in {key, [key EXCEPT ![loop.of].flag = FALSE]}
  /\ loop' = IdleLoop
  /\ UNCHANGED <<proc, pid, monitor, overran>>

Restarted ==
  /\ loop.pc = "wait" /\ loop.wait = 0
  /\ marked' = marked \ {loop.of}
  /\ loop' = IdleLoop
  /\ UNCHANGED <<proc, redis, seen, pass, queue, faults, overran>>

\* Mutant: a restart that failed is not queued again, and stays marked.
RetryNever ==
  /\ loop.pc = "cool" /\ loop.wait = 0
  /\ loop' = IdleLoop
  /\ UNCHANGED <<proc, redis, monitor, faults, overran>>

\* The failed request is queued again, and the worker is unmarked all the same.
Retry ==
  /\ loop.pc = "cool" /\ loop.wait = 0
  /\ queue' = Append(queue, loop.of)
  /\ marked' = marked \ {loop.of}
  /\ loop' = IdleLoop
  /\ UNCHANGED <<proc, redis, seen, pass, faults, overran>>

-----------------------------------------------------------------------------
(* Time *)

\* A key that has reached its TTL.
Expire(w) ==
  /\ key[w].there /\ key[w].age >= KeyTTL
  /\ key' = [key EXCEPT ![w] = NoKey]
  /\ UNCHANGED <<proc, pid, monitor, loop, faults, overran>>

\* What happens within one period of the monitor has happened; where several
\* processes beat for a worker, the last beat is that of any of them.
PeriodOver ==
  /\ pass.pc = "slept"
  /\ \/ loop.pc = "idle" /\ queue = <<>>
     \/ loop.pc \in {"wait", "cool"} /\ loop.wait > 0
  /\ \A w \in Workers : key[w].there => key[w].age < KeyTTL
  /\ \A p \in Procs :
        /\ proc[p].state # "boot"
        /\ proc[p].state = "init" => proc[p].since < InitCeiling
        /\ proc[p].state = "up" /\ proc[p].beats =>
              \E q \in Procs : /\ proc[q].state = "up" /\ proc[q].beats
                               /\ proc[q].of = proc[p].of
                               /\ key[proc[q].of] = Pulse(q)
        /\ proc[p].busy /\ ~ proc[p].stuck => proc[p].since < TaskCeiling

Tick ==
  /\ PeriodOver
  /\ key' = [w \in Workers |-> IF key[w].there THEN [key[w] EXCEPT !.age = @ + 1]
                               ELSE key[w]]
  /\ proc' = [p \in Procs |->
                IF proc[p].state = "init" \/ (proc[p].busy /\ ~ proc[p].stuck)
                THEN [proc[p] EXCEPT !.since = @ + 1] ELSE proc[p]]
  /\ seen' = [w \in Workers |->
                IF seen[w].stale /\ seen[w].since <= ProgressTimeout
                THEN [seen[w] EXCEPT !.since = @ + 1] ELSE seen[w]]
  /\ loop' = [loop EXCEPT !.wait = IF @ > 0 THEN @ - 1 ELSE 0]
  /\ pass' = Resting
  /\ overran' = (overran \/ \E p \in Procs : /\ proc[p].busy /\ ~ proc[p].stuck
                                            /\ proc[p].since >= ProgressTimeout)
  /\ UNCHANGED <<pid, queue, marked, faults>>

LifeStep(p) == Boot(p) \/ Ready(p) \/ Heartbeat(p) \/ FinishTask(p)
FaultStep(p) == Crash(p) \/ Wedge(p) \/ LoseHeartbeat(p) \/ Quit(p) \/ InitFails(p)
PassStep == \/ PassBegins \/ PassExpects \/ PassEnds
            \/ \E w \in Workers : CheckWorker(w) \/ ExpectWorker(w)
LoopStep == \/ TakeRequest \/ KillWorker \/ Spawn \/ NoteStarted \/ NoteFailed
            \/ ClearFlag \/ Restarted \/ Retry
ErrorStep == \/ PassBlind \/ PassFails
             \/ KillFails \/ SpawnFails \/ NoteLost \/ ClearFails

Next == \/ \E p \in Procs : LifeStep(p) \/ TakeTask(p) \/ FaultStep(p)
        \/ PassStep \/ LoopStep \/ ErrorStep
        \/ \E w \in Workers : Expire(w)
        \/ Tick

Spec == Init /\ [][Next]_vars

\* Every process, the monitor's loops and the clock go on; nobody has to hand
\* out a task and no fault has to happen.
FairSpec == Spec /\ \A p \in Procs : WF_vars(LifeStep(p))
                 /\ WF_vars(PassStep) /\ WF_vars(LoopStep)
                 /\ \A w \in Workers : WF_vars(Expire(w))
                 /\ WF_vars(Tick)

-----------------------------------------------------------------------------
(* Types *)

ProcOK(x) ==
  /\ x.of \in Workers \cup {NoWorker}
  /\ x.state \in Running \cup {"none", "zombie", "gone"}
  /\ {x.beats, x.busy, x.stuck, x.kid} \subseteq BOOLEAN
  /\ x.since \in 0..(TaskCeiling + InitCeiling)
  /\ x.done \in 0..MaxDone
  /\ x.stuck => x.busy
  /\ x.beats \/ x.busy => x.state = "up"

\* The types; and the pid of a worker is only that of a process of its own.
TypeOK ==
  /\ DOMAIN proc = Procs /\ \A p \in Procs : ProcOK(proc[p])
  /\ key \in [Workers -> [there : BOOLEAN, age : 0..KeyTTL, flag : BOOLEAN,
                          online : {"initializing", "true", "false"},
                          busy : BOOLEAN, done : 0..MaxDone]]
  /\ pid \in [Workers -> Procs \cup {NoProc}]
  /\ \A w \in Workers : pid[w] # NoProc => proc[pid[w]].of = w
  /\ seen \in [Workers -> [known : BOOLEAN, done : 0..MaxDone, stale : BOOLEAN,
                           since : 0..(ProgressTimeout + 1)]]
  /\ pass.pc \in {"rest", "check", "expect", "slept"}
  /\ pass.todo \subseteq Workers /\ pass.there \subseteq Workers
  /\ queue \in Seq(Workers) /\ marked \subseteq Workers
  /\ loop.pc \in {"idle", "kill", "spawn", "note", "clear", "wait", "cool"}
  /\ loop.p \in Procs \cup {NoProc} /\ loop.wait \in 0..(InitWait + Cooldown)
  /\ pass.expected \subseteq Expected
  /\ faults \in [Kinds -> Nat] /\ overran \in BOOLEAN

-----------------------------------------------------------------------------
(* Safety *)

Processes(w) == {p \in Procs : Alive(p) /\ proc[p].of = w}

\* A worker id has one process at a time, as its GPU and its queue suppose.
\* worker_monitor.py:64-66: a restart takes the old process group down.  Only a
\* process whose pid the monitor never had is left running, one for each command
\* that failed, and one the monitor did not start itself.
OneProcess ==
  \A w \in Workers :
    Cardinality(Processes(w)) <= 1 + faults["error"] + (IF w \in Launched THEN 1 ELSE 0)

LeftBehind == {w \in marked : w \notin Range(queue) /\ ~ (loop.pc # "idle" /\ loop.of = w)}

\* restart_in_progress holds nobody who is not being restarted: a mark that is
\* left behind keeps the monitor from ever restarting that worker again.  Each
\* costs a failed command; crashes, failed restarts and requests for the same
\* worker from both checks leave none.
MarkedIsServed == Cardinality(LeftBehind) <= faults["error"]

Healthy(p) == proc[p].state = "up" /\ proc[p].beats /\ ~ proc[p].stuck

KillsHealthy == \E p \in Procs : Healthy(p) /\ loop.pc = "kill" /\ loop'.pc = "spawn"
                                 /\ ~ Alive(p)'

\* As long as nothing has failed and no task has run longer than ProgressTimeout:
\* neither a start-up, nor a task, nor the time a request waits makes the monitor
\* kill a healthy worker.
HealthyNotKilled ==
  [][(\A k \in Kinds : faults[k] = 0) /\ ~ overran => ~ KillsHealthy]_vars

\* worker_monitor.py:63-64, "if tasks_processed stays flat for longer than this
\* threshold, the worker is making no progress": the same where tasks wedge.
FlatIsWedged ==
  [][faults["crash"] + faults["quit"] + faults["error"] = 0 /\ ~ overran
       => ~ KillsHealthy]_vars

-----------------------------------------------------------------------------
(* Liveness *)

Up(w) == \E p \in Procs : proc[p].of = w /\ Healthy(p)

\* A wedged process whose pid a failed command lost: it reports for the worker,
\* and the monitor restarts the other one over and over.
OutOfReach(w) ==
  \E p \in Procs : proc[p].of = w /\ proc[p].stuck /\ pid[w] # p

\* After finitely many crashes, wedges, lost heartbeats, stops and failed commands
\* an expected worker never stays away for good, whatever the monitor believed
\* when it happened, unless its mark was left behind or a wedged process of it is
\* out of reach.
ExpectedComesBack ==
  \A w \in Expected : []<>(Up(w) \/ w \in LeftBehind \/ OutOfReach(w))
=============================================================================
