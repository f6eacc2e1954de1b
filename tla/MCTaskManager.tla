--------------------------- MODULE MCTaskManager ---------------------------
(***************************************************************************)
(* Small instances of the task broker for TLC.  A run of MCSpec checks     *)
(* several of them at once: each behaviour has a scope, which says who     *)
(* takes part and how much of each bound there is.                         *)
(***************************************************************************)
EXTENDS TaskManager

CONSTANTS t1, t2, t3, u1, u2, w1, w2, r1, r2, r3, again, s1, s2, c1, m1, m2

\* One request per task id; "again" is a client that sends the id of t1 twice.
MCTaskOf == [r \in Requests |-> CASE r \in {r1, again} -> t1
                                  [] r = r2 -> t2 [] r = r3 -> t3
                                  [] r = s1 -> u1 [] r = s2 -> u2]

\* Tasks t1, t2 and t3 are pinned to w1; u1 and u2 go to the shared queues.
MCPinOf == [t \in Tasks |-> IF t \in {u1, u2} THEN Nobody ELSE w1]
MCPrioOf == [t \in Tasks |-> IF t \in {t2, u2} THEN "low" ELSE "normal"]

VARIABLE scope

Scope(rs, ws, cs, ms, nfaults, nstops, npasses) ==
  [requests |-> rs, workers |-> ws, cancels |-> cs, monitors |-> ms,
   faults |-> nfaults, stops |-> nstops, passes |-> npasses]

OneFault == Scope({r1, r2}, {w1, w2}, {}, {m1}, 1, 0, 1)
Shutdown == Scope({s1, s2}, {w1}, {c1}, {}, 1, 1, 0)
TwoMonitors == Scope({r1}, {w1, w2}, {}, {m1, m2}, 0, 0, 2)
SameId == Scope({r1, again}, {w1, w2}, {}, {m1}, 0, 0, 2)
ThreeInLine == Scope({r1, r2, r3}, {w1}, {}, {m1}, 0, 0, 2)
Everybody == Scope({r1, s2}, {w1}, {c1}, {m1}, 0, 1, 1)

SafetyScopes == {OneFault, Shutdown, TwoMonitors, SameId, ThreeInLine}
LivenessScopes == {Everybody}
CancelScopes == {Scope({s1}, {w1}, {c1}, {}, 0, 0, 0)}

CONSTANT Scopes

InScope ==
  /\ \A r \in Requests \ scope.requests : submit'[r] = submit[r]
  /\ \A w \in Workers \ scope.workers :
        /\ worker'[w] = worker[w] /\ stopper'[w] = stopper[w]
        /\ w \in listed' <=> w \in listed
  /\ \A c \in Cancels \ scope.cancels : cancel'[c] = cancel[c]
  /\ \A m \in Monitors \ scope.monitors : sweep'[m] = sweep[m]
  /\ faults' <= scope.faults /\ stops' <= scope.stops /\ passes' <= scope.passes

MCInit == Init /\ scope \in Scopes
MCSpec == MCInit /\ [][Next /\ InScope /\ UNCHANGED scope]_<<vars, scope>>

\* Only for instances whose one scope is everything the constants allow: then
\* InScope takes no step away that Fairness asks for.
MCFairSpec == MCSpec /\ Fairness
=============================================================================
