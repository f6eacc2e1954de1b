------------------------- MODULE MCSubprocessPool -------------------------
(***************************************************************************)
(* Small instances of the subprocess pool for TLC.  A run of MCSpec checks *)
(* several of them at once: each behaviour has a scope, which says how     *)
(* many calls each caller makes and how much goes wrong.                   *)
(***************************************************************************)
EXTENDS SubprocessPool

CONSTANTS c1, c2

VARIABLE scope

Scope(first, second, idles, tasks, spawns) ==
  [calls |-> [c \in {c1, c2} |-> IF c = c1 THEN first ELSE second],
   idles |-> idles, tasks |-> tasks, spawns |-> spawns]

\* Two calls at once; a series of calls.
Together == {Scope(1, 1, 1, 0, 0), Scope(1, 1, 0, 1, 1)}
InARow == {Scope(3, 0, 1, 1, 1), Scope(2, 0, 0, 1, 2)}
CrashesAtRest == {Scope(2, 0, 2, 0, 0)}
AllScopes == Together \cup InARow
CONSTANT Scopes

InScope == /\ \A c \in Callers : caller'[c].n <= scope.calls[c]
           /\ idleCrashes' <= scope.idles /\ taskCrashes' <= scope.tasks
           /\ spawnFails' <= scope.spawns
           /\ UNCHANGED scope

MCInit == Init /\ scope \in Scopes /\ spawnFails <= scope.spawns
MCSpec == MCInit /\ [][Next /\ InScope]_<<vars, scope>>

\* The fairness of the module, within the scope.
MCFairSpec == MCSpec /\ \A c \in Callers :
                          WF_<<vars, scope>>(CallerStep(c) /\ InScope)
=============================================================================
