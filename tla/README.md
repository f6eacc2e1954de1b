# kernelgym in TLA+

Specifications of *kernelgym*, the distributed evaluation service of King.triton-kernel
(`src/kernelgym/`): a GPU grading server that takes a reference model and a candidate
kernel, runs both on a GPU worker, and answers whether the kernel compiles, is correct, and
how much faster it is. A training run takes its reward from those answers, so a task that is
lost, answered twice differently, or divided by a foreign reference time is a wrong reward,
not just a failed request.

The specifications are translated from the code. Line references are to `src/kernelgym/`
unless they say otherwise; `PROJECT.json` maps every definition to the lines it stands for.

- [The system](#the-system): inventory of components, state, operations, interactions
- [The modules](#the-modules): what models what
- [What the runs check](#what-the-runs-check): properties, instances, bounds
- [Fairness](#fairness)
- [What is proved](#what-is-proved)
- [What the checks found](#what-the-checks-found): divergences and observations
- [What is not modelled](#what-is-not-modelled)
- [Plan](#plan)

## The system

```
  client ── HTTP ──> API process (uvicorn, 4 of them) ── Redis ── GPU worker process ── queues ── GPU subprocess
                     server.py                          lists,    gpu_worker.py,              subprocess_pool.py
                     KernelBench controller             hashes    processing loop,            toolkit, pipeline,
                     scheduler, reference cache                   heartbeat loop              backend
                     task_manager.py                                  ^
                     queue-wait monitor                               | pid, heartbeat key
                                                        worker monitor process (worker_monitor.py)
```

| Component | State it keeps | Operations | Talks to |
|---|---|---|---|
| **Task broker** `server/task_manager.py` | in Redis: a hash per task (status, assigned worker), a hash per result, three shared lists and a list per worker | submit, fetch next, complete, fail, get result, cancel, the queue-wait monitor | called by API processes and by workers, each in its own process; they share nothing but Redis |
| **GPU worker** `worker/gpu_worker.py` | current task, running flag, the key `worker:<id>` | processing loop, heartbeat loop, `stop()` beside the loop | broker; its pool of subprocesses |
| **Subprocess pool** `worker/subprocess_pool.py` | lists of all, idle and busy subprocesses; per subprocess a process, two queues, an alive flag, a task count | execute a task (acquire, put, wait in a thread, return or restart), retry, emergency recovery, shutdown | a subprocess by two multiprocessing queues |
| **Evaluation in a subprocess** `toolkit/kernelbench/`, `backend/` | the process' CUDA context, the backend session, the result under construction | load, compile, create, correctness trials, Triton detection, timing, profiling; timing of a reference | the GPU |
| **KernelBench workflow** `workflow/kernelbench*.py`, `server/scheduler.py` | per request a coroutine; per API process a reference cache | validate, split in two subtasks, submit and wait, combine, cache | broker |
| **HTTP API** `server/api/server.py` | per API process: background tasks | evaluate, cancel, results; the endpoints of the registry | broker, workflow, registry |
| **Worker monitor** `worker/worker_monitor.py` | what it saw of each worker, queue and set of restarts, map of pids in Redis | check pass, expectation pass, restart loop | Redis keys of the workers; signals to their processes |
| **Worker registry, load balancer** `task_manager.py`, `server.py` | in Redis: the counter `node_seq`, `nodes_by_host`, `node_names`, a hash per worker; per API process: a registry and a balancer of workers | allocate a node id, register, unregister, heartbeat, evict | workers by HTTP; the servers share only Redis |
| **kernel_simple** `workflow/kernel_simple.py`, `toolkit/kernel_simple/` | none of its own; the process' CUDA context | one subtask per request, under the request's own id; build the candidate, run its cases, compare, time | broker; the GPU |
| **Scripts, evals, diagnostics** | none | offline | files, `nvidia-smi` |

### Which behaviours are hard

*Interleaving.* Everything is asyncio over Redis: each awaited command is atomic, and between
two of them every other coroutine and process may run. The broker has five kinds of actors
(handlers, worker loops, `stop()`, cancellations, monitors) that each use several commands for
one logical step, without a transaction anywhere. Two API processes run the same monitor over
the same lists.

*Failure.* A coroutine that holds the only copy of a task id can meet a Redis error or die; a
Redis command can fail after it was applied. A subprocess dies with a task, without one, or
does not come up. A worker crashes, wedges, loses its heartbeat loop only, or is stopped. A
kernel that faults on the GPU leaves a CUDA context that is dead until its process ends.

*Time.* A call times out and its answer comes late; a key expires; a progress timer is kept; a
restart waits and cools down.

*Partial results.* A kernel subtask and a reference subtask fail independently, and a stage of
an evaluation may fail after an earlier one gave a verdict.

### What makes each component correct

| Component | What should hold |
|---|---|
| Broker | an accepted task is never lost or multiplied; whoever sees a final status finds an answer; a result is never replaced by an error; a worker's line keeps its order; a pinned task runs where it was pinned |
| Pool | one call to a subprocess at a time; no call gets another's answer; a task is not run twice; no subprocess leaks; every call ends, and is served if a subprocess can be had |
| Evaluation | a verdict agrees with what the kernel did in every trial; a fault of one kernel is not held against the next; a decoy is not timed; a session is closed |
| Workflow | a speedup was earned by its own kernel, divided by a time of its own reference; a known denominator stays; every request gets a response |
| Registry | the counter never puts two hosts under one automatic id; ids settle although nothing allocates them atomically; a balancer offers only registered workers that are online; heartbeats repair what a restarted server forgot |
| Monitor | one process per worker id, and no restart forgotten, unless a Redis command fails; a healthy worker is left alone; an expected worker always comes back |

`PROJECT.json` lists the hazards one by one, each at its line, with the property that guards it.

## The modules

| Module | Models | Composition |
|---|---|---|
| `TaskContract` | what a caller that polls for a task is promised: accepted, answered, answer never withdrawn, a result never replaced by an error | abstract specification |
| `TaskManager` | the broker and everybody who calls it | implements `TaskContract` |
| `TaskManagerProofs` | theorems about it | extends `TaskManager` |
| `TaskManagerHeldProofs` | theorems about where its ids are | extends `TaskManagerProofs` |
| `TaskManagerPinProofs` | theorems about their assignments, copies and order | extends `TaskManagerHeldProofs` |
| `PoolContract` | what the pool promises the worker that awaits `execute_task` | |
| `SubprocessPool` | the pool inside a worker with its subprocesses | implements `PoolContract` |
| `SubprocessPoolProofs` | theorems about it | extends `SubprocessPool` |
| `KernelEvaluation` | what happens to an evaluation, of either toolkit, inside a subprocess | |
| `KernelEvaluationProofs` | theorems about it | extends `KernelEvaluation` |
| `KernelBenchWorkflow` | a request, of either workflow, from its first poll to its stored result | takes its subtasks from `TaskContract` instead of the broker |
| `KernelBenchWorkflowProofs` | theorems about it | extends `KernelBenchWorkflow` |
| `WorkerMonitor` | the monitor and the life of worker processes | |
| `WorkerMonitorProofs` | theorems about it | extends `WorkerMonitor` |
| `WorkerRegistry` | how workers get a node id, register, beat and leave, with several API processes | |
| `WorkerRegistryProofs` | theorems about it | extends `WorkerRegistry` |
| `MC*` | small instances of each for TLC | |

Definitions named "Mutant" are variants of the definition that follows them, each the way a
plausible bug would look. Replacing the one by the other makes TLC find the property that
`PROJECT.json` pairs them with violated: this is the evidence that the property says something.

### TaskManager

*State.* `status` and `pin` are fields of the task hash, `value` and `error` of the result
hash, `queue` the Redis lists (the right end, where `rpop` takes, is the head), `listed` the
workers whose key exists. `submit`, `worker`, `stopper`, `cancel` and `sweep` are the program
counters and locals of the coroutines: a `submit_task` call, a worker's processing loop, its
`stop()`, a cancel handler, a pass of `_monitor_worker_queues`. `dropped` is a history variable:
the ids a coroutine held when a fault ended it.

*Steps.* An action is one awaited Redis command with the code up to the next await:
`SubmitCheck` (exists), `SubmitCreate` (hset), `SubmitPush` (lpush); `Take` / `Miss` (rpop of the
own list, then high, normal, low), `Load` (hgetall; no hash means the id is forgotten), `Start`
(hset processing, without a look at the status), `Run` (the pool's outcome), `CompleteValue` and
`CompleteStatus` (result first, then status); `Stop`, `StopError`, `StopStatus` (the shutdown fails
the current task while the loop may still be completing it); `CancelCheck`, `CancelError`,
`CancelStatus`; `SweepBegin`, `SweepPop`, `SweepLoad`, `SweepUnpin`, `SweepPush`, `SweepKeep`.
`*Fault` and `*Error` are a Redis command that fails, applied or not, followed by what the
`except` block does; `WorkerCrash`, `Restart` and `Expire` are a worker's death, return and key.

*Simplifications.* Priority and pin are functions of the task id. The legacy key prefix, which
the code reads as a fallback, is not modelled. The bundled workflows never set `assigned_worker`,
so lists of workers are used through `submit_task`'s own interface only. `MaxFaults` is below the
three errors after which a worker's loop gives up (gpu_worker.py:334), so that branch is left out.
Ids of whole evaluations, which `_execute_workflow` completes itself, belong to `KernelBenchWorkflow`.
The clock is left open: a pass may find any task of its list overdue.

### SubprocessPool

*State.* `proc` is each `PersistentWorker` (process state, alive flag, job, two queues, task count);
`workers`, `idle` and `busy` are the pool's lists; `caller` each `execute_task`.

*Steps.* Code between two awaits of the event loop is one step. Shutting down a process, sleeping
and spawning are synchronous calls inside a coroutine, so `Restart` is a single step however long it
takes; the thread that waits for a result (`CallPut`, `Receive`, `CallTimeout`) and the subprocess
(`TakeTask`, `Finish`, `CudaError`, `Exit`, `TaskCrash`, `IdleCrash`) interleave with everything.
`EmergencyBegin/Spawn/Fails` is the recovery of a pool without workers, `Check` what `execute_task`
decides after a call, `NextRound` its retry.

*Simplifications.* The program has one caller at a time per worker (`gpu_worker.py` awaits each
task); two are checked because the class is written for `pool_size > 1`. A process in
uninterruptible sleep, which survives `kill()`, is not modelled. The queues' `maxsize` of 10 is never
reached: `TypeOK` shows that the two of a subprocess never hold more than one item.

### KernelEvaluation

*State.* `pc` is the stage; `exec` the `KernelExecResult`; `session` the backend session; `context`
the CUDA context, which outlives the evaluation; `trial`, `passed`, `matches` (what Triton detection
recorded, or "unset"), `attempts`, `metrics`, `times`, `answer` the locals of the evaluation; `served`
the process' count of tasks; `begun` is history, the context in which the evaluation began.

A kernel is a record of what it does: whether it compiles, whether its constructor raises, the
outcome of each correctness trial, and whether its forward pass launches Triton kernels always,
never, or only when gradients are off. Properties compare the verdict with that record. The GPU is
the environment: a timing, a detection or a profile may fail or fault at any time, a profile may
come back empty, a compilation may meet a lock file.

*Steps.* One per stage with all of its exits: an early return that cleans up (`Finish`), an exception
nothing in the pipeline catches (`Escape`), an exception a stage swallows (`DetectRaises`,
`TimeRaises`, part of `Cover`). `Respond` is the loop of the subprocess, which exits after a *failed*
result whose message names CUDA. On a faulted context synchronising raises; other CUDA calls may.

The kernel_simple toolkit is the other path out of `idle`: `LoadCases` (an invalid request fails), `BuildSimple`, one
`Case` per test case with `JudgeCases` behind the last, `TimeSimple`. Its cases are the trials of the kernel. What a case
expects is nothing, a tensor, or something `==` settles. A tensor is compared under tolerances that the toolkit sets to
`None` unless the request gives them, and the exception this raises is swallowed: such a case is judged wrong. Plain values
are not moved to the GPU, so a case of theirs completes on a faulted context too.

*Simplifications.* A reference does not fault the GPU by itself. A kernel's module does not launch
anything while it is imported. Whether a failure's message names CUDA is left open where the message
comes from user code or a compiler.

### KernelBenchWorkflow

*State.* `known`, `kernel` and `ref` are what the broker shows for the two subtasks (the broker
is its contract, instantiated per subtask), `base` the stored result, `cache` one reference cache per
API process, `req` each request's coroutine; `given` is history, the kernel answers a task ever had.

*Steps.* The early poll, validation, pairing (cache lookup), submission of the kernel task, wait,
submission of the reference task if the kernel is correct, wait, combination and cache write, storing
of the result; answers of subtasks (`AnswerKernel`, `AnswerRef`) come from the environment at any time
in any form the toolkit and the broker can produce, also twice (`MaxReruns`). A server may restart
(`MaxRestarts`), with its cache and its requests. A kernel_simple request (`BeginSimple`, `SimpleAccepted`) has no pair and
no cache, and its task id is the id of its only subtask: worker and server write one record, so `AnswerKernel` may
overwrite what `Respond` stored and the reverse.

*Simplifications.* A time is what it measured plus a number; 0 stands for both 0.0 and -1.0, which
take the same branches. `Scheduler.wait` has no timeout, and neither has the model.

### WorkerMonitor

*State.* `proc` each worker process (state, heartbeat loop alive, busy, stuck, tasks done), `key` and
`pid` the Redis records, `seen`, `pass`, `queue`, `marked` and `loop` the monitor's own variables. `faults` counts the faults of
each kind; `overran` is history: some task ran longer than the progress timeout without being stuck.

*Steps.* Of a process: `Boot`, `Ready`, `Heartbeat`, `TakeTask`, `FinishTask`, and what befalls it (`Crash`, `Wedge`, `LoseHeartbeat`,
`Quit`, `InitFails`). Of a pass: `PassBegins`, one `CheckWorker` per record, `PassExpects`, one `ExpectWorker` per expected worker, `PassEnds`.
Of the restart loop: `TakeRequest`, `KillWorker`, `Spawn`, `NoteStarted` or `NoteFailed`, `ClearFlag`, `Restarted` or `Retry`. Each place where a
command of the monitor or a start may fail has an action that does what the code's `except` does: `PassBlind` (nobody is expected), `PassFails` (the
rest of the pass is left out), `KillFails` (the exception is swallowed and the restart goes on: a process may be left running),
`SpawnFails`, `NoteLost` (the process runs, its pid may not be recorded, and the restart counts as failed), `ClearFails` (the request is forgotten and the
worker stays in `restart_in_progress`). A failed command may have been applied.

*Time.* One `Tick` is one pass of the monitor: every heartbeat loop has beaten and the monitor has
looked once. Ages and timeouts count ticks. `HeartbeatTimeout` equals `KeyTTL` as in the defaults
(120 s each); comparing with `>=` stands for the moments before the expiry in which the age already
exceeds the timeout.

*Simplifications.* The registration that writes `worker:<id>` without an expiry
(task_manager.py:537) is folded into `Ready`. The GPU reset of a restart is only the time it takes.
Nothing in the repository writes `expected_workers`; the set is taken as an operator would write it.
The monitor does not crash. The Redis commands of a worker fail only through what they lead to: a heartbeat loop that ends
(`LoseHeartbeat`), a worker that stops (`Quit`) or does not come up (`InitFails`).

### WorkerRegistry

*State.* In Redis: `nodeSeq`, `hosts` (`nodes_by_host`), `names` (`node_names`), `record` (the device in the hash of each
worker). In the memory of each API process: `registry` (`worker_registry`) and `balancer` (`available_workers`).
`worker` is the process behind each worker id with its device and node id; `calls` are the HTTP calls under way, each
at one server, with the step its handler has reached and whether its worker still waits (`heard`); `claim` is how far
each request for an explicit node name has got. Automatic ids node-1, node-2, ... are numbers; a name an operator asks for, or the
legacy tables hold, may be such a number too, because the code accepts any name. `LegacyHosts` and `LegacyNames` are the two tables under
`redis_key_prefix_legacy`, which are read and never written.

*Steps.* On the worker's side `Start`, `Send` (node id, registration, heartbeat, good-bye), `Stop`, `Crash`, `Expire` (the
hash's expiry) and `Fails`: the call raises, the handler may run on. On the server's side a step is the code up to
the next Redis command: `AllocateRead`, `AllocateAdopt` (an id
of the legacy tables is bound to the host, unless it has one by then), `AllocateIncr`, `AllocateBind`; `RegisterBegin`, `RegisterStore`, `RegisterCommit`;
`UnregisterStore`, `UnregisterCommit`; `Beat`, `BeatAdmitted` (an unknown worker is registered by its heartbeat) and
`BeatRefused` (409: the worker evicts itself and stops); `Evict`; `RestartServer`. `ClaimRead`, `ClaimName` and `ClaimHost` are an
allocation with a name.

*Simplifications.* `get_next_worker` has no caller, so the balancer's choice and the loads it would compare are left out.
A worker's `register` retries for a minute; the model retries or gives up. The hash `nodes`, which is written and never
read, is left out. Redis commands do not fail here; a handler that dies with its server stands for one that raised.

## What the runs check

`evaluations` takes about three and a half minutes on two cores, `monitor_restarts` and `registry` about two and a half, every other
run less than two. Bounds are constants of the
modules; a run of `MCTaskManager`, `MCSubprocessPool`, `MCKernelBenchWorkflow` or `MCWorkerRegistry` checks several small
instances at once: a *scope*, chosen in the initial state and never changed, says who takes part and how much of each bound
there is.
Deadlock is not checked where the system may be at rest for good (all requests served, bounds used).
It is checked in `KernelEvaluation`, whose process always has a next step.

| Run | Checks | Instance |
|---|---|---|
| `broker_safety` | `TypeOK`, `HeldIsKnown`, `NoTaskLost`, `FinalHasAnswer`, `AssignmentAgrees`, `NoCopyMade`, `ContractKept`, `FifoKept` | five scopes: one fault anywhere with two workers and a monitor; a shutdown beside a cancellation; two monitors; one id sent twice; three tasks in one worker's line |
| `broker_liveness` | `AcceptedIsAnswered` | two tasks, pinned and shared, normal and low priority; a shutdown, a cancellation, a monitor pass; no fault |
| `broker_cancel` | `CancelledNeverStarts` is violated | one task, one worker, one cancellation |
| `pool_calls` | `TypeOK`, `AtMostOnce`, `RightAnswer`, `Exclusive`, `LiveIsBounded`, `ContractKept`, `CallEnds`, `CallServed` | four scopes on a pool of two, one task to a subprocess (the default): two calls together beside a death at rest, or a death in a task and a failed start; three calls in a row with one of each; two in a row with a death in a task and two failed starts |
| `pool_exit` | `ExitIsRepaired` is violated | a subprocess that dies at rest |
| `verdicts` | `TypeOK`, `CorrectIsRight`, `NoVerdictFromFault`, `SessionsAreClosed`, `DecoyHasNoTime`, `TritonIsNoDecoy`, `MedianIsMeasured` | 53 kernels over two trials, every resolved choice of flags on both backends, unresolved flags, references, kernel_simple requests with every choice of expected outputs; two evaluations to a process |
| `untimed` | `CorrectIsTimed` is violated | default flags, backend cuda |
| `evaluations` | `TypeOK`, `SpeedupIsEarned`, `DenominatorSettles`, `RequestIsAnswered` | eight scopes: two samples of a problem, the cache off, two references under one uuid, an invalid request, two API processes, a second answer of a subtask, a forced request, a kernel_simple task asked for at two servers |
| `denominator` | `OneDenominator` is violated | two samples that miss the cache at once |
| `monitor_restarts` | `TypeOK`, `OneProcess`, `MarkedIsServed`, `HealthyNotKilled`, `ExpectedComesBack` | one expected worker and three processes; one crash, one wedge, one lost heartbeat loop and one stop, in any order; or one failed command of the monitor beside a crash, a wedge or a lost heartbeat loop; tasks that may take longer than the progress timeout |
| `monitor_stale_progress` | `FlatIsWedged` is violated | one wedge |
| `registry` | `TypeOK`, `NodesDiffer`, `BalancerIsRegistered`, `BindingsSettle`, `BeatingIsKnown` | six scopes of two starts each: two workers of a host on one server and device, with a fault; workers of two hosts beside two claims of one name; the same beside a claim of the name `node-1`; workers of two hosts, one of which the legacy tables know as `node-1`; one worker on two servers, with a fault; one worker that comes back on another device, with a fault |

Why the bounds are enough: the hazards named in `PROJECT.json` are races of two actors, at most three, around one
task, one subprocess or one worker; each scope has one actor more than the race needs, so
that a bystander can be disturbed. One fault may fall between any two commands; a second fault in the same
behaviour only meets coroutines the first one left alone, which is a smaller instance. A worker's line of
three tasks has one that leaves, one before and one after it. A pool of two has a busy and an idle
worker. In `registry` two workers on one host race for its id, two on different hosts for the counter, and a fault is a dead
worker, a dead server or a lost call. Two evaluations to a process are one that faults and one that meets the fault. In
`monitor_restarts` a start-up takes up to one tick and a record counts as old after two, so that "one pass late" and "over" differ; the
progress timeout is one tick and a task may take two, as in the deployment, where tasks may take 600 s (settings.py:49) and the progress
timeout is 180 s (settings.py:122): `HealthyNotKilled` speaks of the behaviours in which no task has overrun yet. A failed command
beside a worker that stops by itself is left to the proofs of the safety properties. Two reference times tell a
denominator from another; three rounds of a reference are what the code runs. In `verdicts` the number of
trials is two, the least with one that passes and a later one that does not, and the reverse.

What the broker's properties say together: `HeldIsKnown` is why the branches of `get_next_task` and the
monitor that forget an id without a hash never lose a task; `NoTaskLost` is conservation, up to the one
fault the code does not recover from (an id popped by a coroutine that dies); `NoCopyMade` bounds the
copies of an id by the pushes of requests while monitors take a list apart beside its worker;
`FifoKept` is stated only for a list one monitor works on, since two interleaved passes do reorder it.
`ContractKept` is the refinement: mapping `known` to the tasks with a hash and `answer` to what
`get_task_result` returns, every step of the broker is a step of `TaskContract` or a stutter.

`ContractKept` of the pool is its refinement of `PoolContract`: `call` is where the latest call of each caller stands (open, or
ended with a result, a timeout or a failure), `runs` how often its task was begun. Subprocesses, queues, retries, restarts and
emergency recovery are stutters. A subprocess that went on with a task whose call had timed out, or a failed call whose
task had been run, would be no step of the contract.

## Fairness

- *Broker*: weak fairness of each request handler, each worker's loop, each `stop()` that began, the
  restart of a worker that stopped, and each monitor pass that began. asyncio runs every ready coroutine, and a
  worker that exits is restarted by its monitor. No fairness for clients, cancellations, shutdowns, the start of a pass,
  or any fault. `AcceptedIsAnswered` needs `MaxFaults = 0`: a coroutine that dies with an id loses it.
- *Pool*: weak fairness of each caller only; a wait ends because it has a timeout, not because a
  subprocess answers.
- *Workflow*: weak fairness of the whole (`Progress`): every behaviour is finite, because each request and each
  answer moves forward only, so fairness of the whole is fairness of each part. That the broker answers is
  `AcceptedIsAnswered`, taken here as an assumption.
- *Registry*: for each worker, weak fairness of its heartbeats and of its other calls (`Works`): its coroutines run, and a
  call it waits for is handled or raises, since asyncio runs handlers and the client has a timeout. None for claims, stops,
  expiry and faults; `BeatingIsKnown` therefore holds through any of them.
- *Monitor*: weak fairness of each process' own steps, the monitor's two loops, expiry and the clock;
  none for faults nor for handing out tasks.

## What is proved

Eight modules hold 32 theorems. Each is about every value of the constants, under the one assumption of its module
(`BrokerAssumption`, `PoolAssumption`, `ConstantsAssumption`, `WorkflowAssumption`, `RegistryAssumption`, `MonitorAssumption`: the constants have their types and the marks
for "none" are not members of the sets they stand beside), which TLC evaluates in each run. No module declares a RECURSIVE operator.

### The broker (`TaskManagerProofs`, `TaskManagerHeldProofs`, `TaskManagerPinProofs`)

- **`TypeCorrect`**: `Spec => []TypeOK`. `TypeOK` also says what program counters mean (a worker past `scan` has a
  task, one about to write a result has an outcome, a pass that is going on has a worker), without which it is not inductive.
- **`FinalAnswered`**: `Spec => []FinalHasAnswer`, that a completed or failed task has an answer. It
  is not inductive by itself: when `CompleteStatus` writes "completed" one must know that this coroutine wrote the value
  before. `AnswerInv` adds, for each coroutine that writes a final status (`LoopAnswers`, `StopAnswers`, `CancelAnswers`),
  that between its two commands the answer is there. Preservation rests on two facts: no step removes an
  answer, and no step that belongs to one coroutine moves another (`Grows`, `LoopKept`, `StopKept`, `CancelKept`).
- **`ContractCorrect`**: `Spec => ContractKept`, the refinement of `TaskContract`. Each step either leaves the
  mapped variables alone (`ContractStutter`), creates a hash (`KnownKept`), writes an error that `get_task_result` shows only if
  there is no result (`ErrorGiven`), or writes a result.

- **`HeldKnown`** and **`NothingLost`**: `HeldIsKnown` and `NoTaskLost`, that no id is in a list or a hand without a
  record, and that an unanswered task is in some list or hand unless a fault took it from there. Both are parts of one
  invariant, `HeldInv`, with `LoopHands` and `PassHands`: a loop between two tasks holds none, and a pass has put down what it
  held and kept before it goes on or rests. Each step accounts for every id (`StepOK`): what it adds has a record, and what
  leaves a place appears in another, is answered or is recorded as dropped. That a worker which is done leaves an
  answer behind comes from `AnswerInv`, that answers stay from `Grows`.
- **`AssignmentCorrect`**: `IsFiniteSet(Requests) => (Spec => []AssignmentAgrees)`, that a pinned task only runs where it was pinned or
  after a monitor gave up its pin. The property alone is not inductive: a pass that cleared an assignment relies on nobody else having the
  id. `SoleInv` says of a task with at most one request that has begun that its id is in one place at most (`Alone`) and there once (`Once`), that the
  assignment fits that place, also in the middle of a pass (`Pinned`), and that it is nowhere before its push, which still
  finds the assignment the hash was given (`Sending`). Each step makes the places shrink or moves the id (`Shrinks`, `LandsInList`,
  `LandsInPass`, `LandsInLoop`). Requests are finite because the property counts them.
- **`CopiesCorrect`**: `IsFiniteSet(Requests) => (Spec => []NoCopyMade)`, that nobody multiplies an id: it is never in more places
  of lists and hands than requests have pushed it. The property compares two sizes; the invariant `CopyInv` says that the
  copies of an id, as pairs of a place and a position in it, map one to one into the requests that pushed it. Each step is one of two
  kinds: it moves some copies to places where there was none and loses others (`Moves`, `Drops`), so that the map composes with
  the one before (`SpotsMoved`, `SpotsDropped`), or it pushes one and has one more request to map it to (`CopyPush`).
- **`FifoCorrect`**: `IsFiniteSet(Requests) /\ IsFiniteSet(Monitors) => (Spec => FifoKept)`, an action property: with one pass or none at a worker's
  list, no task submitted once overtakes another that was in the line before it. `Ordered` spells out who is before whom in a
  line made of what a pass keeps, what it holds and what is still in the list; each step of the pass, of the worker and of the
  requests leaves everything ordered as it was (`StepFollows`). `SoleInv` gives that an id taken from one end does not also
  stand elsewhere in the line, and `PassHands` that a pass which ends, or dies, has nothing left to put back.

### The pool (`SubprocessPoolProofs`)

`TypeCorrect`, **`ExclusiveCorrect`** (a subprocess serves one call), **`BoundedCorrect`** (no more live subprocesses than the
pool's size), **`OnceCorrect`** (a call's task is taken at most once) and **`AnswerCorrect`** (a call gets its own
answer), for any pool size, callers, caps and numbers of faults. The invariant is an argument about ownership. At most one caller
refers to a subprocess, and none to an idle one (`Held`, `Alone`, `Free`). Only a subprocess that somebody waits for or is about to
replace carries anything, and it is that caller's own call (`Carried`), so a late answer never meets the next call. A call that may be
sent once more has been taken by none (`Unsent`). The bound needs that every live subprocess is in the pool's list (`Known`), that
the list is no longer than the pool (`Sized`), and who may be adding to it (`Listed`, `Recovering`). `TypeCorrect` needs `Counted`,
which relates the items of the queues to the count of tasks.

**`ContractCorrect`**: `Spec => ContractKept`, the refinement, from that invariant and one more part, `Ran`: what a process works
on, has answered, or a caller got is a call whose task was begun. A process takes a task only while its call is open, because
whatever it carries is the call of the caller that waits for it or is about to kill it (`Carried`); a call fails only where it could
have been sent again (`Unsent`), so its task never ran.

### The evaluation (`KernelEvaluationProofs`)

`TypeCorrect`, **`CorrectRight`**, **`FaultCorrect`**, `SessionsCorrect`, `DecoyCorrect`, `TritonCorrect` and `MedianCorrect`: all
invariants of `verdicts`, for any set of kernels and tasks, any number of trials and tasks to a process. `Staged` says which locals are
still untouched at which stage. Beside it the invariant has a part per property: passed trials are trials the kernel gets right
(`TrialsOK`); an evaluation that began on a faulted context reaches no trial and no stage behind them, measures nothing of a reference and
completes no case but of plain values (`FaultsOK`); the
session is open exactly between its creation and its cleanup (`Opened`); a decoy never reaches the clock
(`DecoysOK`); the runtime is the middle of what was measured (`Measured`). The last needs a lemma on the median of three; the
invariant bounds the list at three.

### The workflow (`KernelBenchWorkflowProofs`)

`TypeCorrect`, **`SpeedupCorrect`** and **`DenominatorCorrect`**, for any requests, samples and servers, with restarts. The
invariant says that every time that is about, in a task of the broker, a cache, a request or a stored result, measured the
problem it stands for (`RefOK`, `CacheOK`, `ReqOK`, `BaseOK`). `Paired` says what a request relies on: one that paired with a
cached time still has it, and one in the reference stages paired with "time" and has a correct kernel behind it. `Runs` and
`Earned` tie verdict and runtime to a run of the task's own kernel. `DenominatorCorrect` is an action property: where the cache knows
the time, pairing reads it, so no request becomes one of those that may still write it (`RequestSettles`), and only those write.

### The registry (`WorkerRegistryProofs`)

- `TypeCorrect`: `TypeOK` with what calls carry (`CallSound`) and what a running worker has (`WorkerSound`); the parts of `TypeOK` that
  say a worker waits for one call of a kind, of the kind it is about, are needed for their own preservation.
- **`BalancerCorrect`**: `BalancerIsRegistered` is inductive beside the types: registry and balancer are written in one
  step of a process, whatever order Redis saw.
- **`NodesCorrect`**: `Spec => []NodesDiffer`. Two hosts may run under one automatic id, but then one of them was given it by a claim, the legacy
  tables, its configuration or its own name (`GivenTo`), never both by the counter. `Minted`: every automatic number that some table,
  worker or call holds for a host that was not given it (`Earned`) is at most `nodeSeq`, and no two hosts have earned the same
  one. `AllocateIncr` is atomic in Redis, so a fresh number is above all that was earned; every other step copies a number among
  holders of one host, or brings one that was given, and what was given stays given (`GivenLasts`).
- **`BindingsCorrect`**: `Spec => BindingsSettle`, an action property. The step that could replace a host's id is the last of an
  allocation that found none; `Grounded` says that such a call is one of those under way that make a host unsettled, or found a
  host that has none, so a settled host has no call left that would bind it anew.

### The monitor (`WorkerMonitorProofs`)

- `TypeCorrect`: `TypeOK` with what a process that was started has (`Sane`), and that a recorded pid is one of the worker's own processes.
- **`MarkedCorrect`**: `Spec => []MarkedIsServed`. Each step that marks a worker queues a request, and the one that takes a request holds it
  until it unmarks; only `ClearFails` lets go of one and leaves its mark. So at most one worker per failed command is marked without
  a restart behind it.
- **`OneCorrect`**: `Spec => []OneProcess`, without a condition. `Main` is the process the monitor knows of a worker: the one it has just
  started, else the one whose pid it has, and nobody while it is about to start one. Whatever else runs under that id is an orphan
  (`Orphans`). `Owned` bounds them by the commands that failed, and one more for a worker started by hand: only `KillFails` and `NoteLost`
  let a running process out of the monitor's sight, each at the price of a failed command, and a worker started by hand was never in it.
- **`HealthyCorrect`**: `Generous => (Spec => HealthyNotKilled)`, an action property: as long as nothing failed and no task ran longer than the
  progress timeout, no check, expectation or restart takes down a healthy process. The invariant `Calm` says that who runs, what the
  records say and what the monitor is about to do fit together: a worker that is waited for, queued or restarted has no process (`Served`,
  `Awaited`), a record that is there is younger than a process is allowed to be silent (`Fresh`), and the time without progress the monitor has
  counted is not more than the task has really taken (`Patient`). The theorem holds for any ceiling of tasks, longer than the progress
  timeout too: the history variable `overran` ends what it promises when a task does take longer, which gets a healthy worker killed (see
  below). `Generous` says that a start-up is shorter than the heartbeat timeout (120 s), which the settings must grant: otherwise
  TLC finds a worker restarted while it initialises.

### What is only model-checked

Of the properties of the passing runs, every invariant and every action property is a theorem, under the conditions named above. Liveness
(`AcceptedIsAnswered`, `CallEnds`, `CallServed`, `RequestIsAnswered`, `ExpectedComesBack`, `BeatingIsKnown`) is only checked: the
prover does not treat `ENABLED`, so it cannot use fairness. What the violated runs refute is shown by their counterexamples.

## What the checks found

Five runs show behaviour that a document, a comment or an answer of the program denies:

1. `broker_cancel`: a cancelled task is started after "cancelled successfully" was answered; the id stays queued and
   `get_next_task` does not look at the status (task_manager.py:409).
2. `pool_exit`: a subprocess that dies at rest stays in the list of workers, so emergency recovery never starts; a pool of
   one serves nothing any more (subprocess_pool.py:463).
3. `untimed`: with profiling on and Triton detection off - the defaults for backend cuda - the coverage code reads
   what detection never recorded, and the exception drops the runtime just measured (pipeline.py:283). A
   correct CUDA kernel has runtime -1 and speedup 0.
4. `denominator`: two evaluations of one problem that miss the cache at once are divided by different times
   (kernelbench.py:200), where docs/ARCHITECTURE.md:202 has all samples share one.
5. `monitor_stale_progress`: the time since which a worker made no progress is kept per worker id across its restart, so the
   successor of a wedged process is killed on its first task (worker_monitor.py:154).

Observations from reading and modelling, without a run of their own:

- Two submissions of one new id at the same time both pass the check; the second overwrites the record of a task
  that may have started (task_manager.py:331-335).
- A task pinned to a worker that never returns waits for good: a dead worker's key expires at 120 s, tasks are moved
  after 180 s, and only lists of workers with a key are scanned (task_manager.py:240).
- Two monitor passes over one worker's list reorder it.
- A call in flight during the pool's shutdown restarts its subprocess afterwards (subprocess_pool.py:555-568).
- A kernel that faults on the GPU in its trials is answered "completed, incorrect", and only *failed* results end a
  subprocess (subprocess_pool.py:873). With `MAX_TASKS_PER_WORKER` above its default of 1 the next evaluation meets a dead
  context: `NoVerdictFromFault` shows that it gets no time and no verdict that is not its own, but it is mostly lost, against "First CUDA error immediately
  terminates the worker process" (subprocess_pool.py:7).
- `_has_no_cuda_events` compares with `"no_cuda_events"`, which the profiler code never writes
  (subprocess_pool.py:842, profiling.py:256-260): the restart after a profiler dropout never happens.
- A kernel that only the profile reveals as a decoy keeps its runtime, so it has a speedup; one that detection reveals has
  none (pipeline.py:99, 302). A correct CUDA kernel with detection requested is marked a decoy by the profile.
- Every compilation error with the letters "lock" in it, as in "block", is taken for a lock file; the pipeline returns
  `None` and the client reads about `NoneType` (pipeline.py:424, 460).
- A kernel whose constructor raises anything but a RuntimeError leaves its session open and is reported as not compiled
  (pipeline.py:493).
- A reference whose rounds fail is "completed" with -1.0, and that is cached (toolkit.py:233, kernelbench.py:200), although
  docs/ARCHITECTURE.md:194 speaks of the first completed reference run. One failed round of three makes the faster of the other
  two the median.
- `force_refresh` returns the old answers of the subtasks, whose ids are the same (scheduler.py:24).
- A failed restart is queued again and unmarked; the next pass queues it too, and the second request takes down the
  process that the first one started (worker_monitor.py:371).
- A worker started by hand has no pid record, so its restart starts a second process (worker_monitor.py:547). So does a restart
  after the `hset` of the pid failed (worker_monitor.py:524, 538-540), and one whose kill could not read it (worker_monitor.py:546, 593).
- A restart whose `hdel` of the shutdown flag fails leaves the worker in `restart_in_progress` for good, and no check restarts it any
  more until the monitor is restarted (worker_monitor.py:360, 375, 377).
- A wedged process whose pid was lost reports for its worker while its successor runs; the monitor takes the reports for the
  successor's and restarts that one over and over.
- Without `--persistent` a crashed worker's record expires before it is old enough to be noticed (worker_monitor.py:176).
- A task longer than the progress timeout of 180 s gets a healthy worker killed (worker_monitor.py:62, settings.py:122), although
  a task is allowed 600 s by default (settings.py:49).
- A heartbeat for another device than the registered one is to be refused with 409, but the refusal is raised inside a
  `try` whose `except Exception: pass` swallows it (server.py:862-871).
- `allocate_node_id` is "idempotent" by its docstring (server.py:185-196), yet two workers of a new host that ask at once get two
  ids, and the host keeps the later one; two claims of one name at once both succeed; and an explicit name may look
  like `node-3`, which the counter mints later for another host (server.py:246-251). The same happens to a host whose id stands in the
  legacy tables while `node_seq` starts anew (server.py:256-264).
- Two workers on one device of one node are refused only if both are in the registry of the server the heartbeat reaches
  (server.py:815); registration itself checks nothing.
- An evicted worker's registry entry stays, so its heartbeats, from a process that survives, are answered 200 and never put it back into
  the balancer. A heartbeat under way while its worker unregisters may register it again after it is gone.
- A heartbeat that raises ends the heartbeat loop; the processing loop runs on (gpu_worker.py:568-573).
- kernel_simple sets tolerances the request leaves out to `None`; `allclose` raises, which counts as a
  mismatch, so every case with an expected tensor and no tolerances of its own is judged wrong (toolkit.py:253).
- A kernel_simple task the broker has failed, asked for again before a server stored its result, is answered "completed": the stored
  error has no status and `_result_status` takes that for done (server.py:336, 362-367).
- A kernel_simple evaluation whose cases are plain values, or compare nothing, and that times nothing completes on a faulted
  context, with the verdict its kernel earns: nothing in it synchronises or moves a tensor (toolkit.py:109, 250-255).

## What is not modelled

| Part | Why |
|---|---|
| Code retry manager | no server or worker creates one; only its test of an error message is called |
| Isolated task executor | no caller in the program; the pool took its place |
| The balancer's choice of a worker, its loads | `get_next_worker` has no caller; workers fetch their tasks |
| Batch evaluation | repeats `evaluate` for each of its tasks |
| Error classifier, code validation | matching of message or program text |
| Inside of Triton detection | replaces functions of a library while a kernel runs; which launches it sees is part of a kernel's record |
| GPU work, GPU memory cleanup, diagnostics | outside of the program's control flow |
| Metrics, statistics, logging, views | read only |
| Schemas, settings | records; their values are constants of the modules |
| Evaluation and launch scripts | offline, or one pass that starts processes |

## Plan

Order, most important behaviour first. Done: 1-7.

1. `TaskManager` with `TaskContract`, its runs, and its theorems: everything else relies on the broker.
2. `SubprocessPool` with `PoolContract`: timeouts, retries and restarts around one task; its safety for every size.
3. `KernelBenchWorkflow` over `TaskContract`: where rewards come from.
4. `WorkerMonitor`: recovery of the workers, on which the broker's liveness relies.
5. `KernelEvaluation`: how a verdict comes about and what it leaves behind; its theorems.
6. `WorkerRegistry`: node ids, registration and heartbeats over several API processes; its theorems.
7. `kernel_simple`, in `KernelBenchWorkflow` and `KernelEvaluation`.
8. `SubprocessPool` on top of `KernelEvaluation`: the pool's `Finish` and `CudaError` are refined by the answers of `Respond`;
   `CudaError` is `Respond` to a failed answer that names CUDA.

Theorems left: none of the properties that are checked now and within reach. What would be new is the refinement of item 8.
