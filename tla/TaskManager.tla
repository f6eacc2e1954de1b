---------------------------- MODULE TaskManager ----------------------------
(***************************************************************************)
(* The task broker: server/task_manager.py over Redis, driven by the       *)
(* coroutines that call it.                                                *)
(*                                                                         *)
(*   Requests   submit_task calls of API request handlers                  *)
(*   Workers    GPU worker processes: the processing loop and, beside it,  *)
(*              the coroutine of stop()                                    *)
(*   Cancels    DELETE /tasks/{id} handlers                                *)
(*   Monitors   _queue_wait_monitor, one in every API process              *)
(*                                                                         *)
(* A Redis command is atomic; between two awaited commands of one          *)
(* coroutine every other coroutine may run.  So each awaited command is a  *)
(* step, together with the code up to the next await.                      *)
(***************************************************************************)
EXTENDS Naturals, Sequences, SequencesExt

CONSTANTS Tasks, Workers, Requests, Cancels, Monitors,
          NoTask,      \* an empty hand
          Nobody,      \* assigned_worker = ""
          TaskOf,      \* the task id of each request
          PrioOf,      \* the priority in a task's payload
          PinOf,       \* the assigned_worker in a task's payload
          ScanLimit,   \* worker_queue_wait_scan_limit
          MaxFaults,   \* bound on crashes and Redis errors
          MaxStops,    \* bound on shutdowns of workers
          MaxPasses    \* bound on the monitors' passes over a worker queue

Priorities == {"high", "normal", "low"}
Queues == Priorities \cup Workers

ASSUME BrokerAssumption ==
  /\ NoTask \notin Tasks
  /\ Nobody \notin Workers
  /\ Workers \cap Priorities = {}
  /\ TaskOf \in [Requests -> Tasks]
  /\ PrioOf \in [Tasks -> Priorities]
  /\ PinOf \in [Tasks -> Workers \cup {Nobody}]
  /\ ScanLimit \in Nat \ {0}
  /\ MaxFaults \in Nat /\ MaxStops \in Nat /\ MaxPasses \in Nat

VARIABLES
  status,   \* task hash, field status; "absent" when there is no hash
  pin,      \* task hash, field assigned_worker (and its copy in the JSON data)
  value,    \* result hash, field result: the status inside the payload
  error,    \* result hash, field error
  queue,    \* the Redis lists; the right end, where rpop takes, is the head
  listed,   \* workers whose worker:<id> key exists
  submit,   \* each request: new, existing (nothing to do), create, push, done
            \* or dead
  worker,   \* each worker's processing loop
  stopper,  \* each worker's stop() coroutine
  cancel,   \* each cancellation
  sweep,    \* each monitor's pass
  dropped,  \* history: ids held by a coroutine when a fault ended it
  faults, stops, passes   \* how much of each bound is used

store == <<status, pin, value, error>>
budget == <<dropped, faults, stops, passes>>
vars == <<status, pin, value, error, queue, listed, submit, worker, stopper,
          cancel, sweep, dropped, faults, stops, passes>>

Outcomes == {"completed", "failed"}

\* "at" is the position in ScanOrder; "guarded" is true inside the try block
\* of _process_task, false in its except block.
Idle == [pc |-> "scan", at |-> 1, task |-> NoTask, out |-> "none",
         guarded |-> TRUE]
Down == [Idle EXCEPT !.pc = "down"]
NotStopping == [pc |-> "no", task |-> NoTask]
Resting == [pc |-> "rest", of |-> Nobody, seen |-> 0, hand |-> NoTask,
            keep |-> <<>>, requeue |-> <<>>]

\* Mutant: the low priority list is forgotten.
ScanOrderNoLow(w) == <<w, "high", "normal", "high">>

\* get_next_task tries the worker's own queue, then the shared ones.
ScanOrder(w) == <<w, "high", "normal", "low">>

Init == /\ status = [t \in Tasks |-> "absent"]
        /\ pin = [t \in Tasks |-> Nobody]
        /\ value = [t \in Tasks |-> "none"]
        /\ error = [t \in Tasks |-> "none"]
        /\ queue = [q \in Queues |-> <<>>]
        /\ listed = Workers
        /\ submit = [r \in Requests |-> "new"]
        /\ worker = [w \in Workers |-> Idle]
        /\ stopper = [w \in Workers |-> NotStopping]
        /\ cancel = [c \in Cancels |-> NotStopping]
        /\ sweep = [m \in Monitors |-> Resting]
        /\ dropped = {}
        /\ faults = 0 /\ stops = 0 /\ passes = 0

-----------------------------------------------------------------------------
(* submit_task *)

\* Mutant: the id is pushed before its hash is written.
SubmitCheckPushFirst(r) ==
  /\ submit[r] = "new"
  /\ submit' = [submit EXCEPT ![r] =
                  IF status[TaskOf[r]] = "absent" THEN "push" ELSE "existing"]
  /\ UNCHANGED <<store, queue, listed, worker, stopper, cancel, sweep, budget>>

\* await redis.exists: an existing id is returned as it is.
SubmitCheck(r) ==
  /\ submit[r] = "new"
  /\ submit' = [submit EXCEPT ![r] =
                  IF status[TaskOf[r]] = "absent" THEN "create" ELSE "existing"]
  /\ UNCHANGED <<store, queue, listed, worker, stopper, cancel, sweep, budget>>

\* await redis.hset: the task hash, pending, with its assignment.
SubmitCreate(r) ==
  /\ submit[r] = "create"
  /\ LET t == TaskOf[r]
     IN /\ status' = [status EXCEPT ![t] = "pending"]
        /\ pin' = [pin EXCEPT ![t] = PinOf[t]]
  /\ submit' = [submit EXCEPT ![r] = "push"]
  /\ UNCHANGED <<value, error, queue, listed, worker, stopper, cancel, sweep,
                 budget>>

\* await redis.lpush: to the worker's queue if assigned, else by priority.
SubmitPush(r) ==
  /\ submit[r] = "push"
  /\ LET t == TaskOf[r]
         q == IF PinOf[t] = Nobody THEN PrioOf[t] ELSE PinOf[t]
     IN queue' = [queue EXCEPT ![q] = Append(@, t)]
  /\ submit' = [submit EXCEPT ![r] = "done"]
  /\ UNCHANGED <<store, listed, worker, stopper, cancel, sweep, budget>>

-----------------------------------------------------------------------------
(* get_next_task and the processing loop of a GPU worker *)

\* `while self.running` is read when an iteration ends.
NextIteration(w) == IF stopper[w].pc = "no" THEN Idle ELSE Down

Scanned(w) == ScanOrder(w)[worker[w].at]

\* await redis.rpop on a list that holds an id.
Take(w) ==
  /\ worker[w].pc = "scan"
  /\ queue[Scanned(w)] # <<>>
  /\ queue' = [queue EXCEPT ![Scanned(w)] = Tail(@)]
  /\ worker' = [worker EXCEPT ![w] = [Idle EXCEPT !.pc = "load",
                                        !.task = Head(queue[Scanned(w)])]]
  /\ UNCHANGED <<store, listed, submit, stopper, cancel, sweep, budget>>

\* rpop on an empty list: on to the next one, after the last to the next
\* iteration.
Miss(w) ==
  /\ worker[w].pc = "scan"
  /\ queue[Scanned(w)] = <<>>
  /\ worker' = [worker EXCEPT ![w] =
                  IF worker[w].at < 4 THEN [worker[w] EXCEPT !.at = @ + 1]
                                      ELSE NextIteration(w)]
  /\ UNCHANGED <<store, queue, listed, submit, stopper, cancel, sweep, budget>>

\* await redis.hgetall: an id without a task hash is forgotten.
Load(w) ==
  /\ worker[w].pc = "load"
  /\ worker' = [worker EXCEPT ![w] =
                  IF status[worker[w].task] = "absent" THEN NextIteration(w)
                                      ELSE [worker[w] EXCEPT !.pc = "start"]]
  /\ UNCHANGED <<store, queue, listed, submit, stopper, cancel, sweep, budget>>

\* await redis.hset(status = processing), whatever the status was; the loop
\* then sets current_task.
Start(w) ==
  /\ worker[w].pc = "start"
  /\ status' = [status EXCEPT ![worker[w].task] = "processing"]
  /\ worker' = [worker EXCEPT ![w].pc = "run"]
  /\ UNCHANGED <<pin, value, error, queue, listed, submit, stopper, cancel,
                 sweep, budget>>

\* The task's execution returns a completed or failed result, or raises and
\* the except block builds a failed one.
Run(w) ==
  /\ worker[w].pc = "run"
  /\ \E o \in Outcomes, g \in BOOLEAN :
        /\ o = "completed" => g
        /\ worker' = [worker EXCEPT ![w] = [worker[w] EXCEPT
                                     !.pc = "value", !.out = o, !.guarded = g]]
  /\ UNCHANGED <<store, queue, listed, submit, stopper, cancel, sweep, budget>>

\* complete_task, first hset: the result.
CompleteValue(w) ==
  /\ worker[w].pc = "value"
  /\ value' = [value EXCEPT ![worker[w].task] = worker[w].out]
  /\ worker' = [worker EXCEPT ![w].pc = "status"]
  /\ UNCHANGED <<status, pin, error, queue, listed, submit, stopper, cancel,
                 sweep, budget>>

\* complete_task, second hset: the status, completed for a failed result too.
CompleteStatus(w) ==
  /\ worker[w].pc = "status"
  /\ status' = [status EXCEPT ![worker[w].task] = "completed"]
  /\ worker' = [worker EXCEPT ![w] = NextIteration(w)]
  /\ UNCHANGED <<pin, value, error, queue, listed, submit, stopper, cancel,
                 sweep, budget>>

-----------------------------------------------------------------------------
(* stop(), and the life of a worker process *)

\* current_task is set from Start to the end of the iteration.
CurrentTask(w) == IF worker[w].pc \in {"run", "value", "status"}
                  THEN worker[w].task ELSE NoTask

\* A signal: the running flag falls and stop() reads current_task.  A rejected
\* heartbeat clears current_task first, so that nothing is failed.
Stop(w) ==
  /\ worker[w].pc # "down"
  /\ stopper[w].pc = "no"
  /\ stops < MaxStops
  /\ \E rejected \in BOOLEAN :
        stopper' = [stopper EXCEPT ![w] =
                      IF rejected \/ CurrentTask(w) = NoTask
                      THEN [pc |-> "done", task |-> NoTask]
                      ELSE [pc |-> "error", task |-> CurrentTask(w)]]
  /\ stops' = stops + 1
  /\ UNCHANGED <<store, queue, listed, submit, worker, cancel, sweep, dropped,
                 faults, passes>>

\* fail_task(current_task, "Worker shutdown"), first hset.
StopError(w) ==
  /\ stopper[w].pc = "error"
  /\ error' = [error EXCEPT ![stopper[w].task] = "shutdown"]
  /\ stopper' = [stopper EXCEPT ![w].pc = "status"]
  /\ UNCHANGED <<status, pin, value, queue, listed, submit, worker, cancel,
                 sweep, budget>>

\* fail_task, second hset.
StopStatus(w) ==
  /\ stopper[w].pc = "status"
  /\ status' = [status EXCEPT ![stopper[w].task] = "failed"]
  /\ stopper' = [stopper EXCEPT ![w] = [pc |-> "done", task |-> NoTask]]
  /\ UNCHANGED <<pin, value, error, queue, listed, submit, worker, cancel,
                 sweep, budget>>

\* The monitor process starts the worker again; it writes its first heartbeat.
Restart(w) ==
  /\ worker[w].pc = "down"
  /\ worker' = [worker EXCEPT ![w] = Idle]
  /\ stopper' = [stopper EXCEPT ![w] = NotStopping]
  /\ listed' = listed \cup {w}
  /\ UNCHANGED <<store, queue, submit, cancel, sweep, budget>>

\* The worker key has a time to live of 120 s and nobody refreshes it.  (A key
\* that runs out beside a live worker changes no more than which workers a pass
\* looks at, and a pass may look at any of them.)
Expire(w) ==
  /\ worker[w].pc = "down"
  /\ w \in listed
  /\ listed' = listed \ {w}
  /\ UNCHANGED <<store, queue, submit, worker, stopper, cancel, sweep, budget>>

-----------------------------------------------------------------------------
(* cancel_task *)

\* await redis.hgetall: an unknown or finished task is refused (False).
CancelCheck(c) ==
  /\ cancel[c].pc = "no"
  /\ \E t \in Tasks :
        cancel' = [cancel EXCEPT ![c] =
                     IF status[t] \in {"absent", "completed", "failed"}
                     THEN [pc |-> "refused", task |-> t]
                     ELSE [pc |-> "error", task |-> t]]
  /\ UNCHANGED <<store, queue, listed, submit, worker, stopper, sweep, budget>>

\* Mutant: fail_task writes the status before the error.
CancelErrorStatusFirst(c) ==
  /\ cancel[c].pc = "error"
  /\ status' = [status EXCEPT ![cancel[c].task] = "failed"]
  /\ cancel' = [cancel EXCEPT ![c].pc = "status"]
  /\ UNCHANGED <<pin, value, error, queue, listed, submit, worker, stopper,
                 sweep, budget>>

\* fail_task(task_id, "Task cancelled"), first hset.
CancelError(c) ==
  /\ cancel[c].pc = "error"
  /\ error' = [error EXCEPT ![cancel[c].task] = "cancelled"]
  /\ cancel' = [cancel EXCEPT ![c].pc = "status"]
  /\ UNCHANGED <<status, pin, value, queue, listed, submit, worker, stopper,
                 sweep, budget>>

\* fail_task, second hset; then the handler answers that it cancelled the task.
CancelStatus(c) ==
  /\ cancel[c].pc = "status"
  /\ status' = [status EXCEPT ![cancel[c].task] = "failed"]
  /\ cancel' = [cancel EXCEPT ![c].pc = "done"]
  /\ UNCHANGED <<pin, value, error, queue, listed, submit, worker, stopper,
                 sweep, budget>>

-----------------------------------------------------------------------------
(* _queue_wait_monitor *)

\* The next worker of the pass; its key was found by redis.keys.
SweepBegin(m) ==
  /\ sweep[m].pc = "rest"
  /\ passes < MaxPasses
  /\ \E w \in listed :
        sweep' = [sweep EXCEPT ![m] = [Resting EXCEPT !.pc = "pop", !.of = w]]
  /\ passes' = passes + 1
  /\ UNCHANGED <<store, queue, listed, submit, worker, stopper, cancel, dropped,
                 faults, stops>>

\* Mutant: the scan limit is off by one.
SweepPopOneMore(m) ==
  /\ sweep[m].pc = "pop"
  /\ LET q == sweep[m].of
     IN IF sweep[m].seen <= ScanLimit /\ queue[q] # <<>>
        THEN /\ queue' = [queue EXCEPT ![q] = Tail(@)]
             /\ sweep' = [sweep EXCEPT ![m] = [sweep[m] EXCEPT !.pc = "load",
                                  !.seen = @ + 1, !.hand = Head(queue[q])]]
        ELSE /\ sweep' = [sweep EXCEPT ![m].pc = "keep"]
             /\ UNCHANGED queue
  /\ UNCHANGED <<store, listed, submit, worker, stopper, cancel, budget>>

\* Mutant: the pass reads the list (lrange) where it should pop it.
SweepPopPeek(m) ==
  /\ sweep[m].pc = "pop"
  /\ LET q == sweep[m].of
     IN IF sweep[m].seen < ScanLimit /\ queue[q] # <<>>
        THEN sweep' = [sweep EXCEPT ![m] = [sweep[m] EXCEPT !.pc = "load",
                                  !.seen = @ + 1, !.hand = Head(queue[q])]]
        ELSE sweep' = [sweep EXCEPT ![m].pc = "keep"]
  /\ UNCHANGED <<store, queue, listed, submit, worker, stopper, cancel, budget>>

\* await redis.rpop, at most ScanLimit times and until the list is empty.
SweepPop(m) ==
  /\ sweep[m].pc = "pop"
  /\ LET q == sweep[m].of
     IN IF sweep[m].seen < ScanLimit /\ queue[q] # <<>>
        THEN /\ queue' = [queue EXCEPT ![q] = Tail(@)]
             /\ sweep' = [sweep EXCEPT ![m] = [sweep[m] EXCEPT !.pc = "load",
                                  !.seen = @ + 1, !.hand = Head(queue[q])]]
        ELSE /\ sweep' = [sweep EXCEPT ![m].pc = "keep"]
             /\ UNCHANGED queue
  /\ UNCHANGED <<store, listed, submit, worker, stopper, cancel, budget>>

\* await redis.hgetall and the classification: no hash, forgotten; assigned
\* elsewhere, requeued whatever its status; pending for longer than its limit
\* (the clock is left open), requeued; anything else is kept.
SweepLoad(m) ==
  /\ sweep[m].pc = "load"
  /\ LET t == sweep[m].hand
         back == [sweep[m] EXCEPT !.pc = "pop", !.hand = NoTask]
         keeping == [back EXCEPT !.keep = Append(@, t)]
         requeuing == [back EXCEPT !.requeue = Append(@, t)]
     IN \/ /\ status[t] = "absent"
           /\ sweep' = [sweep EXCEPT ![m] = back]
        \/ /\ status[t] # "absent"
           /\ pin[t] # sweep[m].of
           /\ sweep' = [sweep EXCEPT ![m] = requeuing]
        \/ /\ status[t] # "absent"
           /\ pin[t] = sweep[m].of
           /\ sweep' = [sweep EXCEPT ![m] = keeping]
        \/ /\ status[t] = "pending"
           /\ pin[t] = sweep[m].of
           /\ sweep' = [sweep EXCEPT ![m] = requeuing]
  /\ UNCHANGED <<store, queue, listed, submit, worker, stopper, cancel, budget>>

\* Mutant: keep is not reversed.
SweepKeepInOrder(m) ==
  /\ sweep[m].pc = "keep"
  /\ IF sweep[m].keep # <<>>
     THEN /\ queue' = [queue EXCEPT ![sweep[m].of] =
                         <<Head(sweep[m].keep)>> \o @]
          /\ sweep' = [sweep EXCEPT ![m].keep = Tail(@)]
     ELSE /\ sweep' = [sweep EXCEPT ![m].pc = "unpin"]
          /\ UNCHANGED queue
  /\ UNCHANGED <<store, listed, submit, worker, stopper, cancel, budget>>

\* for task_id in reversed(keep): await redis.rpush.
SweepKeep(m) ==
  /\ sweep[m].pc = "keep"
  /\ IF sweep[m].keep # <<>>
     THEN /\ queue' = [queue EXCEPT ![sweep[m].of] =
                         <<Last(sweep[m].keep)>> \o @]
          /\ sweep' = [sweep EXCEPT ![m].keep = Front(@)]
     ELSE /\ sweep' = [sweep EXCEPT ![m].pc = "unpin"]
          /\ UNCHANGED queue
  /\ UNCHANGED <<store, listed, submit, worker, stopper, cancel, budget>>

\* Mutant: the hash is updated, the id is not pushed again.
SweepUnpinOnly(m) ==
  /\ sweep[m].pc = "unpin"
  /\ IF sweep[m].requeue # <<>>
     THEN /\ pin' = [pin EXCEPT ![Head(sweep[m].requeue)] = Nobody]
          /\ sweep' = [sweep EXCEPT ![m].requeue = Tail(@)]
     ELSE /\ sweep' = [sweep EXCEPT ![m] = Resting]
          /\ UNCHANGED pin
  /\ UNCHANGED <<status, value, error, queue, listed, submit, worker, stopper,
                 cancel, budget>>

\* Mutant: the id is pushed again with its old assignment.
SweepUnpinNot(m) ==
  /\ sweep[m].pc = "unpin"
  /\ sweep' = [sweep EXCEPT ![m] = IF sweep[m].requeue # <<>>
                                   THEN [sweep[m] EXCEPT !.pc = "push"] ELSE Resting]
  /\ UNCHANGED <<store, queue, listed, submit, worker, stopper, cancel, budget>>

\* _requeue_task, hset: the assignment is cleared.  After the last one the
\* pass over this worker is over.
SweepUnpin(m) ==
  /\ sweep[m].pc = "unpin"
  /\ IF sweep[m].requeue # <<>>
     THEN /\ pin' = [pin EXCEPT ![Head(sweep[m].requeue)] = Nobody]
          /\ sweep' = [sweep EXCEPT ![m].pc = "push"]
     ELSE /\ sweep' = [sweep EXCEPT ![m] = Resting]
          /\ UNCHANGED pin
  /\ UNCHANGED <<status, value, error, queue, listed, submit, worker, stopper,
                 cancel, budget>>

\* _requeue_task, lpush: to the shared queue of the task's priority.
SweepPush(m) ==
  /\ sweep[m].pc = "push"
  /\ LET t == Head(sweep[m].requeue)
     IN queue' = [queue EXCEPT ![PrioOf[t]] = Append(@, t)]
  /\ sweep' = [sweep EXCEPT ![m] = [sweep[m] EXCEPT !.pc = "unpin",
                                             !.requeue = Tail(@)]]
  /\ UNCHANGED <<store, listed, submit, worker, stopper, cancel, budget>>

-----------------------------------------------------------------------------
(* Faults: a process is killed, or a Redis command of a coroutine raises *)

Fault(lost) == /\ faults < MaxFaults
               /\ faults' = faults + 1
               /\ dropped' = dropped \cup (lost \ {NoTask})
               /\ UNCHANGED <<stops, passes>>

\* The handler is gone, between two of its commands or with one that raised.
SubmitFault(r) ==
  /\ submit[r] \in {"create", "push"}
  /\ submit' = [submit EXCEPT ![r] = "dead"]
  /\ Fault(IF submit[r] = "push" THEN {TaskOf[r]} ELSE {})
  /\ UNCHANGED <<store, queue, listed, worker, stopper, cancel, sweep>>

\* The worker process is killed.
WorkerCrash(w) ==
  /\ worker[w].pc # "down"
  /\ worker' = [worker EXCEPT ![w] = Down]
  /\ stopper' = [stopper EXCEPT ![w] = NotStopping]
  /\ Fault({worker[w].task})
  /\ UNCHANGED <<store, queue, listed, submit, cancel, sweep>>

\* A command of get_next_task raises after the pop, or complete_task raises in
\* the except block: the loop logs it and goes on.
LoopError(w) ==
  /\ \/ worker[w].pc \in {"load", "start"}
     \/ worker[w].pc \in {"value", "status"} /\ ~ worker[w].guarded
  /\ worker' = [worker EXCEPT ![w] = NextIteration(w)]
  /\ Fault({worker[w].task})
  /\ UNCHANGED <<store, queue, listed, submit, stopper, cancel, sweep>>

\* complete_task raises inside the try block: the except block completes the
\* task again, with a failed result.
CompleteError(w) ==
  /\ worker[w].pc \in {"value", "status"}
  /\ worker[w].guarded
  /\ worker' = [worker EXCEPT ![w] = [worker[w] EXCEPT
                            !.pc = "value", !.out = "failed", !.guarded = FALSE]]
  /\ Fault({})
  /\ UNCHANGED <<store, queue, listed, submit, stopper, cancel, sweep>>

\* fail_task raises in stop(), which swallows it.
StopFault(w) ==
  /\ stopper[w].pc \in {"error", "status"}
  /\ stopper' = [stopper EXCEPT ![w] = [pc |-> "done", task |-> NoTask]]
  /\ Fault({})
  /\ UNCHANGED <<store, queue, listed, submit, worker, cancel, sweep>>

\* The cancelling handler is gone.
CancelFault(c) ==
  /\ cancel[c].pc \in {"error", "status"}
  /\ cancel' = [cancel EXCEPT ![c].pc = "dead"]
  /\ Fault({})
  /\ UNCHANGED <<store, queue, listed, submit, worker, stopper, sweep>>

\* The API process is killed, or a command of the pass raises: the ids popped
\* so far were only in the coroutine's lists.
SweepFault(m) ==
  /\ sweep[m].pc # "rest"
  /\ sweep' = [sweep EXCEPT ![m] = Resting]
  /\ Fault({sweep[m].hand} \cup ToSet(sweep[m].keep) \cup ToSet(sweep[m].requeue))
  /\ UNCHANGED <<store, queue, listed, submit, worker, stopper, cancel>>

\* A command of _requeue_task raises: it is logged, the pass goes on.
RequeueError(m) ==
  /\ \/ sweep[m].pc = "unpin" /\ sweep[m].requeue # <<>>
     \/ sweep[m].pc = "push"
  /\ sweep' = [sweep EXCEPT ![m] = [sweep[m] EXCEPT !.pc = "unpin",
                                             !.requeue = Tail(@)]]
  /\ Fault({Head(sweep[m].requeue)})
  /\ UNCHANGED <<store, queue, listed, submit, worker, stopper, cancel>>

-----------------------------------------------------------------------------
RequestStep(r) == SubmitCheck(r) \/ SubmitCreate(r) \/ SubmitPush(r)
LoopStep(w) == \/ Take(w) \/ Miss(w) \/ Load(w) \/ Start(w) \/ Run(w)
               \/ CompleteValue(w) \/ CompleteStatus(w)
StopStep(w) == Stop(w) \/ StopError(w) \/ StopStatus(w)
CancelStep(c) == CancelCheck(c) \/ CancelError(c) \/ CancelStatus(c)
SweepStep(m) == \/ SweepBegin(m) \/ SweepPop(m) \/ SweepLoad(m) \/ SweepKeep(m)
                \/ SweepUnpin(m) \/ SweepPush(m)
WorkerFault(w) == WorkerCrash(w) \/ LoopError(w) \/ CompleteError(w) \/ StopFault(w)

Next == \/ \E r \in Requests : RequestStep(r) \/ SubmitFault(r)
        \/ \E w \in Workers : \/ LoopStep(w) \/ StopStep(w) \/ Restart(w)
                              \/ Expire(w) \/ WorkerFault(w)
        \/ \E c \in Cancels : CancelStep(c) \/ CancelFault(c)
        \/ \E m \in Monitors : SweepStep(m) \/ SweepFault(m) \/ RequeueError(m)

Spec == Init /\ [][Next]_vars

-----------------------------------------------------------------------------
(* Types *)

WorkerState == [pc : {"scan", "load", "start", "run", "value", "status", "down"},
                at : 1..4, task : Tasks \cup {NoTask},
                out : Outcomes \cup {"none"}, guarded : BOOLEAN]
StopState == [pc : {"no", "error", "status", "done"},
              task : Tasks \cup {NoTask}]
CancelState == [pc : {"no", "refused", "error", "status", "done", "dead"},
                task : Tasks \cup {NoTask}]
SweepState == [pc : {"rest", "pop", "load", "keep", "unpin", "push"},
               of : Workers \cup {Nobody}, seen : 0..ScanLimit,
               hand : Tasks \cup {NoTask}, keep : Seq(Tasks),
               requeue : Seq(Tasks)]

StatusOK == status \in [Tasks -> {"absent", "pending", "processing",
                                  "completed", "failed"}]
PinOK == pin \in [Tasks -> Workers \cup {Nobody}]
ValueOK == value \in [Tasks -> Outcomes \cup {"none"}]
ErrorOK == error \in [Tasks -> {"none", "shutdown", "cancelled"}]
QueueOK == queue \in [Queues -> Seq(Tasks)]
SubmitOK == submit \in [Requests -> {"new", "existing", "create", "push", "done",
                                     "dead"}]
\* A loop past the pop and not down has a task in its hand.
WorkerOK ==
  /\ worker \in [Workers -> WorkerState]
  /\ \A w \in Workers :
        /\ worker[w].pc \notin {"scan", "down"} => worker[w].task # NoTask
        /\ worker[w].pc \in {"value", "status"} => worker[w].out # "none"
StopperOK ==
  /\ stopper \in [Workers -> StopState]
  /\ \A w \in Workers :
        stopper[w].pc \in {"error", "status"} => stopper[w].task # NoTask
CancelOK ==
  /\ cancel \in [Cancels -> CancelState]
  /\ \A c \in Cancels : cancel[c].pc # "no" => cancel[c].task # NoTask
\* A pass that is going on has a worker, a loaded id is in the hand, and there
\* is something to push back.
SweepOK ==
  /\ sweep \in [Monitors -> SweepState]
  /\ \A m \in Monitors :
        /\ sweep[m].pc # "rest" => sweep[m].of # Nobody
        /\ sweep[m].pc = "load" => sweep[m].hand # NoTask
        /\ sweep[m].pc = "push" => sweep[m].requeue # <<>>
BudgetOK == /\ dropped \subseteq Tasks
            /\ faults \in 0..MaxFaults
            /\ stops \in 0..MaxStops
            /\ passes \in 0..MaxPasses

\* The types of all variables, and what the program counters say of them.
TypeOK == /\ StatusOK /\ PinOK /\ ValueOK /\ ErrorOK /\ QueueOK
          /\ listed \subseteq Workers
          /\ SubmitOK /\ WorkerOK /\ StopperOK /\ CancelOK /\ SweepOK /\ BudgetOK

-----------------------------------------------------------------------------
(* Safety *)

\* Mutant: the error field wins over the result field.
AnswerErrorFirst(t) == IF error[t] # "none" THEN "error"
                       ELSE IF value[t] # "none" THEN "result" ELSE "none"

\* get_task_result: the result field wins over the error field.
Answer(t) == IF value[t] # "none" THEN "result"
             ELSE IF error[t] # "none" THEN "error" ELSE "none"
Answered(t) == Answer(t) # "none"
Known == {t \in Tasks : status[t] # "absent"}

\* complete_task and fail_task write the answer before the final status, so
\* whoever reads a final status in the task hash finds an answer, whatever the
\* loops, the stopping workers, the cancellations and the monitors do to it in
\* between.
FinalHasAnswer ==
  \A t \in Tasks : status[t] \in {"completed", "failed"} => Answered(t)

\* The task hash is written before the id is pushed, and no hash is deleted: an
\* id that is in a list or in a hand has a task hash, so the "forget the id"
\* branches of get_next_task and of the monitor never lose a task.
Queued == UNION {ToSet(queue[q]) : q \in Queues}
Swept == UNION {{sweep[m].hand} \cup ToSet(sweep[m].keep) \cup
                ToSet(sweep[m].requeue) : m \in Monitors}
Pushing == {TaskOf[r] : r \in {x \in Requests : submit[x] = "push"}}
Running == {worker[w].task : w \in Workers}
Held == (Queued \cup Swept \cup Pushing \cup Running) \ {NoTask}

HeldIsKnown == Held \subseteq Known

\* Conservation: a task that was accepted and has no answer is still held by
\* somebody who will bring it on - a list, a request about to push it, a worker,
\* a monitor - unless the coroutine that held it met a fault.
NoTaskLost ==
  \A t \in Known : Answered(t) \/ t \in Held \/ t \in dropped

\* Every place ids can be in: the lists, what a pass keeps, is to requeue or has
\* just popped, and what a loop has taken.
InHand(t) == IF t = NoTask THEN <<>> ELSE <<t>>
Places == ({"list"} \X Queues) \cup ({"keep", "requeue", "hand"} \X Monitors)
                               \cup ({"loop"} \X Workers)
Content(p) == CASE p[1] = "list" -> queue[p[2]]
                [] p[1] = "keep" -> sweep[p[2]].keep
                [] p[1] = "requeue" -> sweep[p[2]].requeue
                [] p[1] = "hand" -> InHand(sweep[p[2]].hand)
                [] p[1] = "loop" -> InHand(worker[p[2]].task)

\* Nothing multiplies an id: however the monitors pop, keep and requeue beside
\* the workers, its copies in lists and hands are at most the pushes of requests.
Copies(t) == UNION {{p} \X {i \in DOMAIN Content(p) : Content(p)[i] = t} : p \in Places}
Pushed(t) == {r \in Requests : TaskOf[r] = t /\ submit[r] = "done"}

NoCopyMade == \A t \in Tasks : Cardinality(Copies(t)) <= Cardinality(Pushed(t))

Unrepeated == {t \in Tasks :
                 Cardinality({r \in Requests : TaskOf[r] = t /\ submit[r] # "new"}) <= 1}

\* Of a task that was submitted once: in a worker's list it is assigned to that
\* worker and in a shared list to nobody, also while monitors reassign, so it is
\* only ever taken by its worker or after its pin was given up.
AssignmentAgrees ==
  \A t \in Unrepeated :
    /\ \A w \in Workers : t \in ToSet(queue[w]) => pin[t] = w
    /\ \A p \in Priorities : t \in ToSet(queue[p]) => pin[t] = Nobody
    /\ \A w \in Workers : worker[w].task = t => pin[t] \in {w, Nobody}

-----------------------------------------------------------------------------
(* What steps may not do *)

\* The ids a worker's list holds once a pass has put back what it keeps.
Sweepers(w) == {m \in Monitors : sweep[m].of = w}
Line(w) == LET p == IF Sweepers(w) = {} THEN Resting
                    ELSE sweep[CHOOSE m \in Sweepers(w) : TRUE]
           IN p.keep \o InHand(p.hand) \o queue[w]
Before(s, x, y) == \E i, j \in DOMAIN s : i < j /\ s[i] = x /\ s[j] = y

\* A pass that is alone at a worker's list takes it apart and rebuilds it: no id
\* ever overtakes one that was in the line before it, new arrivals included.
FifoKept ==
  [][\A w \in Workers :
        LET old == Line(w)
            new == Line(w)'
        IN /\ Cardinality(Sweepers(w)) <= 1 /\ Cardinality(Sweepers(w)') <= 1
           /\ Len(new) > 1
           => \A x \in Unrepeated \cap ToSet(old), y \in Unrepeated :
                Before(new, y, x) => Before(old, y, x)]_vars

\* The answer "Task <id> cancelled successfully" of DELETE /tasks/{id}: no worker
\* starts a task afterwards.
CancelledNeverStarts ==
  [][\A c \in Cancels, w \in Workers :
        cancel[c].pc = "done" /\ worker[w].pc = "start" /\ worker'[w].pc = "run"
        => worker[w].task # cancel[c].task]_vars

-----------------------------------------------------------------------------
(* The broker implements its contract *)

Contract == INSTANCE TaskContract
              WITH known <- Known, answer <- [t \in Tasks |-> Answer(t)]

\* Every step of the broker is, to a poller, an acceptance, an error answer to a
\* task without one, a result, or nothing.
ContractKept == Contract!CSpec

-----------------------------------------------------------------------------
(* Liveness *)

\* Handlers run to their end, workers loop, a worker that stopped is started
\* again by its monitor process, and a pass that began ends.  Nothing obliges a
\* client to ask, a worker to stop or a pass to begin.
Fairness ==
  /\ \A r \in Requests : WF_vars(RequestStep(r))
  /\ \A w \in Workers : /\ WF_vars(LoopStep(w))
                         /\ WF_vars(StopError(w) \/ StopStatus(w))
                         /\ WF_vars(Restart(w))
  /\ \A m \in Monitors : WF_vars(SweepStep(m) /\ sweep[m].pc # "rest")

FairSpec == Spec /\ Fairness

\* Without faults (MaxFaults = 0), through shutdowns, cancellations, monitor
\* passes and duplicate submissions: a task that was accepted gets an answer.
AcceptedIsAnswered == \A t \in Tasks : t \in Known ~> Answered(t)
=============================================================================
