------------------------- MODULE MCWorkerRegistry -------------------------
(***************************************************************************)
(* Small instances of the worker registry for TLC.  A run of MCSpec checks *)
(* several of them at once: each behaviour has a scope, which says which   *)
(* workers start, how often, on which devices, which names are claimed and *)
(* how much goes wrong.                                                    *)
(***************************************************************************)
EXTENDS WorkerRegistry

CONSTANTS w1, w2, w3, w4, h1, h2, h3, d0, d1, s1, s2, n1

\* Two workers on one host, one on another, one on a host of an older deployment
\* that the legacy tables know as node-1.  One name is n1, one is node-1.
MCHostOf == [w \in Workers |-> CASE w = w3 -> h2 [] w = w4 -> h3 [] OTHER -> h1]
MCConfigured == [w \in Workers |-> NoNode]
MCLegacyHosts == [h \in Hosts |-> IF h = h3 THEN 1 ELSE NoNode]
MCLegacyNames == [n \in Names |-> IF n = 1 THEN h2 ELSE NoHost]
MCClaims == {<<h1, n1>>, <<h2, n1>>, <<h3, n1>>, <<h2, 1>>}

VARIABLE scope

Scope(ws, ss, ds, claims, nstarts, nfaults) ==
  [workers |-> ws, servers |-> ss, devices |-> ds, claims |-> claims,
   starts |-> nstarts, faults |-> nfaults]

OneHost == Scope({w1, w2}, {s1}, {d0}, {}, 2, 1)
TwoHosts == Scope({w1, w3}, {s1}, {d0}, {<<h1, n1>>, <<h2, n1>>}, 2, 0)
Numbered == Scope({w1, w3}, {s1}, {d0}, {<<h2, 1>>}, 2, 0)
Legacy == Scope({w1, w4}, {s1}, {d0}, {<<h3, n1>>}, 2, 0)
Alone == Scope({w1}, {s1, s2}, {d0}, {}, 2, 1)
Moved == Scope({w1}, {s1}, {d0, d1}, {}, 2, 1)
AllScopes == {OneHost, TwoHosts, Numbered, Legacy, Alone, Moved}
CONSTANT Scopes

InScope ==
  /\ \A w \in Workers \ scope.workers : worker'[w] = worker[w]
  /\ \A w \in Workers : worker'[w].device \in scope.devices \cup {NoDevice}
  /\ \A c \in calls' : c.at \in scope.servers
  /\ \A c \in Claims \ scope.claims : claim'[c] = claim[c]
  /\ starts' <= scope.starts /\ faults' <= scope.faults
  /\ UNCHANGED scope

MCInit == Init /\ scope \in Scopes
MCSpec == MCInit /\ [][Next /\ InScope]_<<vars, scope>>

\* The fairness of the module, within the scope.
MCFairSpec ==
  MCSpec /\ \A w \in Workers :
              /\ WF_<<vars, scope>>(Works(w, {"beat"}) /\ InScope)
              /\ WF_<<vars, scope>>(Works(w, Kinds \ {"beat"}) /\ InScope)
=============================================================================
