-------------------------- MODULE MCWorkerMonitor --------------------------
(* Small instances of the worker monitor for TLC. *)
EXTENDS WorkerMonitor

\* How many faults of each kind a run has.
Faults(crash, wedge, silence, quit, error) ==
  [k \in Kinds |-> CASE k = "crash" -> crash [] k = "wedge" -> wedge
                     [] k = "silence" -> silence [] k = "quit" -> quit
                     [] k = "error" -> error]
OneWedge == {Faults(0, 1, 0, 0, 0)}

\* One of every fault but a failed command, or a failed command and a crash, a
\* wedge or a lost heartbeat.
OneOfEach == {Faults(1, 1, 1, 1, 0), Faults(1, 0, 0, 0, 1), Faults(0, 1, 0, 0, 1),
              Faults(0, 0, 1, 0, 1)}
=============================================================================
