-------------------------- MODULE SubprocessPool --------------------------
(***************************************************************************)
(* The pool of GPU subprocesses inside a worker: worker/subprocess_pool.py.*)
(*                                                                         *)
(*   Callers  coroutines inside SubprocessWorkerPool.execute_task          *)
(*   Procs    PersistentWorker objects with their process and two queues;  *)
(*            a number is used again once nothing refers to it             *)
(*                                                                         *)
(* Everything between two awaits of the event loop is a step - shutting a  *)
(* process down, sleeping and starting another one included, which all     *)
(* block the loop.  The thread that runs PersistentWorker.execute_task and *)
(* the subprocesses interleave with all of it.                             *)
(*                                                                         *)
(* ContractKept at the end: it implements PoolContract.                    *)
(***************************************************************************)
EXTENDS Naturals, Sequences, FiniteSets

CONSTANTS Callers, Procs,
          NoProc, NoCall,   \* nothing in hand
          PoolSize,         \* pool_size
          MaxTasks,         \* max_tasks_per_worker
          MaxRetries,       \* max_retries of execute_task
          MaxCalls,         \* bound on the calls of a caller
          MaxIdleCrashes,   \* bound on deaths of a subprocess without a task
          MaxTaskCrashes,   \* bound on deaths of a subprocess with a task
          MaxSpawnFails     \* bound on subprocesses that do not come up

ASSUME PoolAssumption ==
  /\ Procs \subseteq Nat /\ NoProc \notin Procs
  /\ IsFiniteSet(Procs) /\ IsFiniteSet(Callers)
  /\ PoolSize \in Nat \ {0}
  /\ Cardinality(Procs) >= PoolSize + Cardinality(Callers)
  /\ MaxTasks \in Nat \ {0} /\ MaxRetries \in Nat /\ MaxCalls \in Nat
  /\ MaxIdleCrashes \in Nat /\ MaxTaskCrashes \in Nat /\ MaxSpawnFails \in Nat
  /\ NoCall \notin Callers \X (1..MaxCalls)

VARIABLES
  proc,      \* each PersistentWorker
  workers,   \* the pool's list workers
  idle,      \* the pool's list idle_workers
  busy,      \* the pool's list busy_workers
  caller,    \* each execute_task
  closed,    \* shutdown() has run
  taken,     \* history: how often a subprocess took the task of a caller's call
  idleCrashes, taskCrashes, spawnFails   \* how much of each bound is used

lists == <<workers, idle, busy>>
bounds == <<idleCrashes, taskCrashes, spawnFails>>
vars == <<proc, workers, idle, busy, caller, closed, taken, idleCrashes,
          taskCrashes, spawnFails>>

Calls == Callers \X (1..MaxCalls)

\* Mutant: the queues belong to the worker id and outlive its processes.
FreshKeepsQueues(x) == [x EXCEPT !.state = "up", !.flag = TRUE, !.job = NoCall,
                                 !.count = 0]

\* A new PersistentWorker in the place of x: its own process, its own queues.
Fresh(x) == [state |-> "up", flag |-> TRUE, job |-> NoCall, inbox |-> <<>>,
             outbox |-> <<>>, count |-> 0]
Unused == [state |-> "dead", flag |-> FALSE, job |-> NoCall, inbox |-> <<>>,
           outbox |-> <<>>, count |-> 0]
AtRest == [pc |-> "off", n |-> 0, w |-> NoProc, tries |-> 0, err |-> "none",
           got |-> NoCall]

\* shutdown() of a PersistentWorker ends with its process joined or killed.
Killed(x) == [x EXCEPT !.state = "dead", !.flag = FALSE, !.job = NoCall,
                       !.inbox = <<>>]

\* is_alive: the flag of the parent and the process itself.
Alive(p) == proc[p].flag /\ proc[p].state # "dead"

\* _init_workers; one that fails to start is left out, but not the last one.
Init == /\ workers \in {S \in SUBSET Procs : Cardinality(S) \in 1..PoolSize}
        /\ \A p \in workers : {q \in Procs : q < p} \subseteq workers
        /\ PoolSize - Cardinality(workers) <= MaxSpawnFails
        /\ spawnFails = PoolSize - Cardinality(workers)
        /\ proc = [p \in Procs |-> IF p \in workers THEN Fresh(Unused)
                                               ELSE Unused]
        /\ idle = workers
        /\ busy = {}
        /\ caller = [c \in Callers |-> AtRest]
        /\ closed = FALSE
        /\ taken = [c \in Callers |-> 0]
        /\ idleCrashes = 0 /\ taskCrashes = 0

-----------------------------------------------------------------------------
(* execute_task of the pool: finding a worker *)

\* A worker awaits one call before it makes the next, and makes none after it
\* has shut its pool down.
Begin(c) ==
  /\ caller[c].pc = "off"
  /\ caller[c].n < MaxCalls
  /\ ~ closed
  /\ caller' = [caller EXCEPT ![c] = [AtRest EXCEPT !.pc = "get",
                                        !.n = caller[c].n + 1]]
  /\ taken' = [taken EXCEPT ![c] = 0]
  /\ UNCHANGED <<proc, lists, closed, bounds>>

\* self.lock is kept across an await only by emergency recovery.
LockFree == \A c \in Callers : caller[c].pc # "recover"

Usable == {p \in idle : Alive(p)}

\* Mutant: the worker taken stays in the idle list.
AcquirePeek(c) ==
  /\ caller[c].pc = "get"
  /\ LockFree
  /\ \E p \in Usable :
        /\ idle' = Usable
        /\ busy' = busy \cup {p}
        /\ caller' = [caller EXCEPT ![c].pc = "call", ![c].w = p]
  /\ UNCHANGED <<proc, workers, closed, taken, bounds>>

\* _get_idle_worker drops the dead from the idle list and takes one.
Acquire(c) ==
  /\ caller[c].pc = "get"
  /\ LockFree
  /\ \E p \in Usable :
        /\ idle' = Usable \ {p}
        /\ busy' = busy \cup {p}
        /\ caller' = [caller EXCEPT ![c].pc = "call", ![c].w = p]
  /\ UNCHANGED <<proc, workers, closed, taken, bounds>>

\* Mutant: the rounds are not counted.
NextRoundForever(x) == [x EXCEPT !.pc = "get", !.w = NoProc, !.err = "none"]

\* Another of the max_retries + 1 rounds, or the RuntimeError after the last.
NextRound(x) == IF x.tries < MaxRetries
                THEN [x EXCEPT !.pc = "get", !.w = NoProc, !.err = "none",
                               !.tries = @ + 1]
                ELSE [x EXCEPT !.pc = "off", !.w = NoProc, !.err = "failed"]

\* No idle worker within the timeout.
GiveUp(c) ==
  /\ caller[c].pc = "get"
  /\ LockFree
  /\ Usable = {}
  /\ workers \cup busy # {}
  /\ idle' = {}
  /\ caller' = [caller EXCEPT ![c] = NextRound(caller[c])]
  /\ UNCHANGED <<proc, workers, busy, closed, taken, bounds>>

\* A pool without any worker: under the lock, sleep, then start one.
EmergencyBegin(c) ==
  /\ caller[c].pc = "get"
  /\ LockFree
  /\ Usable = {} /\ workers = {} /\ busy = {}
  /\ idle' = {}
  /\ caller' = [caller EXCEPT ![c].pc = "recover"]
  /\ UNCHANGED <<proc, workers, busy, closed, taken, bounds>>

Unreferenced == {p \in Procs : /\ p \notin workers
                               /\ \A c \in Callers : caller[c].w # p}

\* The number of the next PersistentWorker.
Spare == {p \in Unreferenced : \A q \in Unreferenced : p <= q}

EmergencySpawn(c) ==
  /\ caller[c].pc = "recover"
  /\ \E p \in Spare :
        /\ proc' = [proc EXCEPT ![p] = Fresh(proc[p])]
        /\ workers' = workers \cup {p}
        /\ busy' = busy \cup {p}
        /\ caller' = [caller EXCEPT ![c].pc = "call", ![c].w = p]
  /\ UNCHANGED <<idle, closed, taken, bounds>>

\* The spare worker does not come up: look again, or the time is over.
EmergencyFails(c) ==
  /\ caller[c].pc = "recover"
  /\ spawnFails < MaxSpawnFails
  /\ spawnFails' = spawnFails + 1
  /\ \/ caller' = [caller EXCEPT ![c].pc = "get"]
     \/ caller' = [caller EXCEPT ![c] = NextRound(caller[c])]
  /\ UNCHANGED <<proc, lists, closed, taken, idleCrashes, taskCrashes>>

-----------------------------------------------------------------------------
(* The call in the thread: PersistentWorker.execute_task *)

\* A worker that is not alive raises before the task is sent.
CallRefused(c) ==
  /\ caller[c].pc = "call"
  /\ ~ Alive(caller[c].w)
  /\ caller' = [caller EXCEPT ![c].pc = "restart", ![c].err = "broken"]
  /\ UNCHANGED <<proc, lists, closed, taken, bounds>>

CallPut(c) ==
  /\ caller[c].pc = "call"
  /\ Alive(caller[c].w)
  /\ proc' = [proc EXCEPT ![caller[c].w].inbox = Append(@, <<c, caller[c].n>>)]
  /\ caller' = [caller EXCEPT ![c].pc = "wait"]
  /\ UNCHANGED <<lists, closed, taken, bounds>>

\* Mutant: the cap on tasks is forgotten.
ReceiveNoCap(c) ==
  /\ caller[c].pc = "wait"
  /\ proc[caller[c].w].outbox # <<>>
  /\ LET p == caller[c].w
         r == Head(proc[p].outbox)
     IN /\ proc' = [proc EXCEPT ![p].outbox = Tail(@), ![p].count = @ + 1,
                       ![p].flag = @ /\ ~ r.exiting]
        /\ caller' = [caller EXCEPT ![c].pc = "done", ![c].got = r.of]
  /\ UNCHANGED <<lists, closed, taken, bounds>>

\* A result; it may say that the subprocess is exiting, and it counts towards
\* the cap on tasks.
Receive(c) ==
  /\ caller[c].pc = "wait"
  /\ proc[caller[c].w].outbox # <<>>
  /\ LET p == caller[c].w
         r == Head(proc[p].outbox)
         n == proc[p].count + 1
     IN /\ proc' = [proc EXCEPT ![p].outbox = Tail(@), ![p].count = n,
                       ![p].flag = @ /\ ~ r.exiting /\ n < MaxTasks]
        /\ caller' = [caller EXCEPT ![c].pc = "done", ![c].got = r.of]
  /\ UNCHANGED <<lists, closed, taken, bounds>>

\* Mutant: a timeout is an error like any other, and retried.
CallTimeoutRetried(c) ==
  /\ caller[c].pc = "wait"
  /\ proc[caller[c].w].outbox = <<>>
  /\ proc' = [proc EXCEPT ![caller[c].w].flag = FALSE]
  /\ caller' = [caller EXCEPT ![c].pc = "restart", ![c].err = "broken"]
  /\ UNCHANGED <<lists, closed, taken, bounds>>

\* No result within the timeout: the worker is marked unavailable.
CallTimeout(c) ==
  /\ caller[c].pc = "wait"
  /\ proc[caller[c].w].outbox = <<>>
  /\ proc' = [proc EXCEPT ![caller[c].w].flag = FALSE]
  /\ caller' = [caller EXCEPT ![c].pc = "restart", ![c].err = "timeout"]
  /\ UNCHANGED <<lists, closed, taken, bounds>>

-----------------------------------------------------------------------------
(* execute_task of the pool: what follows the call *)

\* Mutant: a worker that reached its cap or is exiting is not restarted.
CheckNever(c) ==
  /\ caller[c].pc = "done"
  /\ caller' = [caller EXCEPT ![c].pc = "return"]
  /\ UNCHANGED <<proc, lists, closed, taken, bounds>>

\* With a result in hand, a worker that is not alive any more is restarted.
Check(c) ==
  /\ caller[c].pc = "done"
  /\ caller' = [caller EXCEPT ![c].pc = IF Alive(caller[c].w) THEN "return"
                                                              ELSE "restart"]
  /\ UNCHANGED <<proc, lists, closed, taken, bounds>>

\* Mutant: the old process is left running.
RestartNoKill(c) ==
  /\ caller[c].pc = "restart"
  /\ LockFree
  /\ LET old == caller[c].w
     IN \/ \E p \in Spare :
              /\ proc' = [proc EXCEPT ![p] = Fresh(proc[p])]
              /\ workers' = (workers \ {old}) \cup {p}
              /\ idle' = (idle \ {old}) \cup {p}
              /\ busy' = busy \ {old}
              /\ UNCHANGED spawnFails
        \/ /\ spawnFails < MaxSpawnFails
           /\ spawnFails' = spawnFails + 1
           /\ workers' = workers \ {old}
           /\ idle' = idle \ {old}
           /\ busy' = busy \ {old}
           /\ UNCHANGED proc
  /\ caller' = [caller EXCEPT ![c].pc = "return"]
  /\ UNCHANGED <<closed, taken, idleCrashes, taskCrashes>>

\* _restart_worker: the old process is shut down and struck off (nobody reads its
\* queues any more), a new one is started; when that fails the pool has one
\* worker less.
Restart(c) ==
  /\ caller[c].pc = "restart"
  /\ LockFree
  /\ LET old == caller[c].w
     IN \/ \E p \in Spare :
              /\ proc' = [proc EXCEPT ![old] = Unused, ![p] = Fresh(proc[old])]
              /\ workers' = (workers \ {old}) \cup {p}
              /\ idle' = (idle \ {old}) \cup {p}
              /\ busy' = busy \ {old}
              /\ UNCHANGED spawnFails
        \/ /\ spawnFails < MaxSpawnFails
           /\ spawnFails' = spawnFails + 1
           /\ proc' = [proc EXCEPT ![old] = Unused]
           /\ workers' = workers \ {old}
           /\ idle' = idle \ {old}
           /\ busy' = busy \ {old}
  /\ caller' = [caller EXCEPT ![c].pc = "return"]
  /\ UNCHANGED <<closed, taken, idleCrashes, taskCrashes>>

\* finally: _return_worker.  Then the result or the TimeoutError goes to the
\* caller, or the next round begins.
Return(c) ==
  /\ caller[c].pc = "return"
  /\ LockFree
  /\ busy' = busy \ {caller[c].w}
  /\ idle' = IF Alive(caller[c].w) THEN idle \cup {caller[c].w} ELSE idle
  /\ caller' = [caller EXCEPT ![c] =
                  IF caller[c].err = "broken" THEN NextRound(caller[c])
                  ELSE [caller[c] EXCEPT !.pc = "off", !.w = NoProc]]
  /\ UNCHANGED <<proc, workers, closed, taken, bounds>>

-----------------------------------------------------------------------------
(* shutdown() of the pool, without the lock *)

\* The processes are told to stop and joined or killed.  What one of them still
\* takes and answers while it is joined, it has taken and answered just before.
Shutdown ==
  /\ ~ closed
  /\ proc' = [p \in Procs |-> IF p \in workers THEN Killed(proc[p]) ELSE proc[p]]
  /\ workers' = {} /\ idle' = {} /\ busy' = {}
  /\ closed' = TRUE
  /\ UNCHANGED <<caller, taken, bounds>>

-----------------------------------------------------------------------------
(* _persistent_worker_loop, in the subprocess *)

TakeTask(p) ==
  /\ proc[p].state = "up" /\ proc[p].job = NoCall
  /\ proc[p].inbox # <<>>
  /\ LET j == Head(proc[p].inbox)
     IN /\ proc' = [proc EXCEPT ![p].job = j, ![p].inbox = Tail(@)]
        /\ taken' = [c \in Callers |-> IF j = <<c, caller[c].n>> /\ taken[c] < 2
                                       THEN taken[c] + 1 ELSE taken[c]]
  /\ UNCHANGED <<lists, caller, closed, bounds>>

\* The result, or an error that is not CUDA's: the subprocess goes on.
Finish(p) ==
  /\ proc[p].state = "up" /\ proc[p].job # NoCall
  /\ proc' = [proc EXCEPT ![p].job = NoCall, ![p].outbox = Append(@,
                            [of |-> proc[p].job, exiting |-> FALSE])]
  /\ UNCHANGED <<lists, caller, closed, taken, bounds>>

\* A CUDA or profiler error: a last result, then the process exits.
CudaError(p) ==
  /\ proc[p].state = "up" /\ proc[p].job # NoCall
  /\ proc' = [proc EXCEPT ![p].state = "exiting", ![p].job = NoCall,
                ![p].outbox = Append(@, [of |-> proc[p].job, exiting |-> TRUE])]
  /\ UNCHANGED <<lists, caller, closed, taken, bounds>>

Exit(p) ==
  /\ proc[p].state = "exiting"
  /\ proc' = [proc EXCEPT ![p].state = "dead"]
  /\ UNCHANGED <<lists, caller, closed, taken, bounds>>

Answering(p) == proc[p].job # NoCall \/ proc[p].inbox # <<>>

\* The process dies (out of memory, a GPU fault, a signal).
Die(p) == proc' = [proc EXCEPT ![p].state = "dead", ![p].job = NoCall]

TaskCrash(p) ==
  /\ proc[p].state = "up" /\ Answering(p)
  /\ taskCrashes < MaxTaskCrashes
  /\ Die(p)
  /\ taskCrashes' = taskCrashes + 1
  /\ UNCHANGED <<lists, caller, closed, taken, idleCrashes, spawnFails>>

IdleCrash(p) ==
  /\ proc[p].state = "up" /\ ~ Answering(p)
  /\ idleCrashes < MaxIdleCrashes
  /\ Die(p)
  /\ idleCrashes' = idleCrashes + 1
  /\ UNCHANGED <<lists, caller, closed, taken, taskCrashes, spawnFails>>

-----------------------------------------------------------------------------
CallerStep(c) == \/ Acquire(c) \/ GiveUp(c) \/ EmergencyBegin(c)
                 \/ EmergencySpawn(c) \/ EmergencyFails(c)
                 \/ CallRefused(c) \/ CallPut(c) \/ Receive(c) \/ CallTimeout(c)
                 \/ Check(c) \/ Restart(c) \/ Return(c)
ProcStep(p) == \/ TakeTask(p) \/ Finish(p) \/ CudaError(p) \/ Exit(p)
               \/ TaskCrash(p) \/ IdleCrash(p)

Next == \/ \E c \in Callers : Begin(c) \/ CallerStep(c)
        \/ \E p \in Procs : ProcStep(p)
        \/ Shutdown

Spec == Init /\ [][Next]_vars

\* Coroutines and threads run, a wait ends with a result or a timeout.  Nothing
\* obliges a subprocess to finish a task, a worker to call or to shut down.
FairSpec == Spec /\ \A c \in Callers : WF_vars(CallerStep(c))

-----------------------------------------------------------------------------
Result == [of : Calls, exiting : BOOLEAN]
ProcState == [state : {"up", "exiting", "dead"}, flag : BOOLEAN,
              job : Calls \cup {NoCall}, inbox : Seq(Calls),
              outbox : Seq(Result), count : 0..MaxTasks]
CallerState == [pc : {"off", "get", "recover", "call", "wait", "done", "restart",
                      "return"},
                n : 0..MaxCalls, w : Procs \cup {NoProc}, tries : 0..MaxRetries,
                err : {"none", "broken", "timeout", "failed"},
                got : Calls \cup {NoCall}]

\* The types; a caller holds a worker from acquiring to returning it; the two
\* queues of a worker never hold more than the one call.
TypeOK ==
  /\ proc \in [Procs -> ProcState]
  /\ workers \subseteq Procs /\ idle \subseteq Procs /\ busy \subseteq Procs
  /\ caller \in [Callers -> CallerState]
  /\ closed \in BOOLEAN
  /\ taken \in [Callers -> 0..2]
  /\ idleCrashes \in 0..MaxIdleCrashes
  /\ taskCrashes \in 0..MaxTaskCrashes
  /\ spawnFails \in 0..MaxSpawnFails
  /\ \A c \in Callers :
        caller[c].w # NoProc <=> caller[c].pc \notin {"off", "get", "recover"}
  /\ \A p \in Procs : Len(proc[p].inbox) + Len(proc[p].outbox) <= 1

\* Late answers: a timeout, a kill and an answer race, restarts and retries
\* follow, and still the result a call receives is the result of its own task.
RightAnswer ==
  \A c \in Callers : caller[c].got \in {NoCall, <<c, caller[c].n>>}

\* The retries of a call never run its task a second time: only a call that
\* never sent the task is repeated ("timeout errors are NOT retried").
AtMostOnce == \A c \in Callers : taken[c] <= 1

\* A worker is in the hands of one caller at most, and not idle meanwhile.
Holding == {c \in Callers : caller[c].pc \in {"call", "wait", "done"}}
Exclusive ==
  /\ \A c, d \in Holding : caller[c].w = caller[d].w => c = d
  /\ \A c \in Holding : caller[c].w \notin idle
  /\ ~ closed => \A c \in Holding : caller[c].w \in busy

\* Restarts, failed restarts and emergency recoveries never leave more live
\* subprocesses on the GPU than the pool was made for, as long as it has not been
\* shut down (a call in flight then restarts its subprocess all the same), nor
\* ever one that the pool has lost sight of.
Live == {p \in Procs : proc[p].state # "dead"}
LiveIsBounded ==
  /\ Live \subseteq workers
  /\ ~ closed => Cardinality(workers) <= PoolSize

\* Every call comes to an end: a result, a timeout or a failure.
CallEnds == \A c \in Callers : caller[c].pc # "off" ~> caller[c].pc = "off"

\* The pool has workers, and all of them are in other hands.
Contended(c) == /\ workers # {}
                /\ \A p \in workers : \E d \in Callers \ {c} : caller[d].w = p

\* Whoever looks for a worker gets one, unless the others hold all there are, the
\* pool is shut down or a subprocess died without a task: workers that hit an
\* error, the cap, a timeout or a crash during a task are replaced, and a pool
\* that lost its last worker to a failed restart recovers.
CallServed ==
  \A c \in Callers :
     caller[c].pc = "get" ~>
        caller[c].pc = "call" \/ Contended(c) \/ closed \/ idleCrashes > 0

\* worker/subprocess_pool.py:109, "The main process detects the exit and respawns
\* a new worker": the same whenever a subprocess dies.
ExitIsRepaired ==
  \A c \in Callers : caller[c].pc = "get" ~> caller[c].pc = "call" \/ closed

-----------------------------------------------------------------------------
(* The abstract specification *)

\* Where a caller's latest call stands; a result that is not the call's own would
\* be no state of the contract.
Standing(c) == CASE caller[c].pc # "off" -> "open"
                 [] caller[c].pc = "off" /\ caller[c].err # "none" -> caller[c].err
                 [] caller[c].pc = "off" /\ caller[c].err = "none" ->
                      IF caller[c].got = NoCall THEN "none"
                      ELSE IF caller[c].got = <<c, caller[c].n>> THEN "result"
                      ELSE "foreign"

Standings == [c \in Callers |-> Standing(c)]

Contract == INSTANCE PoolContract WITH call <- Standings, runs <- taken

\* The pool implements PoolContract: a call that was answered "timeout" is not run
\* any more, one answered "failed" never was, and one answered with a result was
\* run once, however retries, kills, late answers and shutdowns interleave.
ContractKept == Contract!PSpec
=============================================================================
