---------------------------- MODULE PoolContract ----------------------------
(***************************************************************************)
(* What the subprocess pool promises the worker that awaits execute_task:  *)
(* a task is run once at most and only while its call is open.  A result   *)
(* says that it was run, a failure (RuntimeError) that it was not, and a   *)
(* timeout leaves that open, but the task is over.  Nothing here knows of  *)
(* subprocesses, queues, retries or restarts.                              *)
(***************************************************************************)
EXTENDS Naturals

CONSTANT Callers

VARIABLES call,   \* the latest call of each caller: none yet, open, or how it ended
          runs    \* how often that call's task was begun

pvars == <<call, runs>>

PInit == /\ call = [c \in Callers |-> "none"]
         /\ runs = [c \in Callers |-> 0]

Make(c) == /\ call[c] # "open"
           /\ call' = [call EXCEPT ![c] = "open"]
           /\ runs' = [runs EXCEPT ![c] = 0]

Run(c) == /\ call[c] = "open" /\ runs[c] = 0
          /\ runs' = [runs EXCEPT ![c] = 1]
          /\ UNCHANGED call

\* A call ends.
End(c, how) == /\ call[c] = "open"
               /\ call' = [call EXCEPT ![c] = how]
               /\ UNCHANGED runs

GiveResult(c) == runs[c] = 1 /\ End(c, "result")
TimeOut(c) == End(c, "timeout")
Fail(c) == runs[c] = 0 /\ End(c, "failed")

PNext == \E c \in Callers :
           Make(c) \/ Run(c) \/ GiveResult(c) \/ TimeOut(c) \/ Fail(c)

PSpec == PInit /\ [][PNext]_pvars
=============================================================================
