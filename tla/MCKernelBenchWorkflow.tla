----------------------- MODULE MCKernelBenchWorkflow -----------------------
(***************************************************************************)
(* Small instances of the evaluation workflow for TLC.  A run of MCSpec    *)
(* checks several of them at once: each behaviour has a scope, which says  *)
(* which requests come, and how many restarts and reruns there are.        *)
(***************************************************************************)
EXTENDS KernelBenchWorkflow

CONSTANTS a1, a2, off, b1, bad, k1, s1, s2

\* A task for each request; evaluations of one problem that share the cache
\* (a1, a2) or do not use it (off), the same uuid with another reference (b1),
\* a request that does not validate (bad), and one of kernel_simple (k1).
Ask(uuid, code, cached) == [uuid |-> uuid, ref |-> code, is_valid |-> FALSE,
                            use_cache |-> cached, sound |-> TRUE,
                            simple |-> FALSE]
MCPayload ==
  [t \in Tasks |->
     IF t = k1 THEN [Ask(NoUuid, "A", FALSE) EXCEPT !.simple = TRUE]
     ELSE Ask(IF t = bad THEN NoUuid ELSE "p", IF t = b1 THEN "B" ELSE "A",
              t # off)]

\* The tasks of a1, k1 and b1 are asked for twice: a1 and k1 again in another
\* server process, b1 again with force_refresh.
MCServerOf == [r \in Requests |->
                 IF r \in {<<a1, TRUE>>, <<k1, TRUE>>} THEN s2 ELSE s1]
MCTaskOf == [r \in Requests |-> r[1]]
MCRequests == Tasks \X {FALSE} \cup {a1, b1, k1} \X {TRUE}
MCForced == {<<b1, TRUE>>}

VARIABLE scope

Scope(ts, again, nrestarts, nreruns) ==
  [requests |-> ts \X (IF again THEN BOOLEAN ELSE {FALSE}),
   restarts |-> nrestarts, reruns |-> nreruns]

SharedTime == Scope({a1, a2}, FALSE, 1, 0)
OneUncached == Scope({a1, off}, FALSE, 1, 0)
TwoReferences == Scope({a1, b1}, FALSE, 0, 1)
Invalid == Scope({a1, bad}, FALSE, 1, 0)
TwoServers == Scope({a1}, TRUE, 1, 0)
Twice == Scope({a1}, FALSE, 1, 1)
Refreshed == Scope({b1}, TRUE, 1, 0)
KernelsOnly == Scope({k1}, TRUE, 1, 1)

AllScopes == {SharedTime, OneUncached, TwoReferences, Invalid, TwoServers, Twice,
              Refreshed, KernelsOnly}
FirstRuns == {Scope({a1, a2}, FALSE, 0, 0)}
CONSTANT Scopes

InScope == /\ \A r \in Requests \ scope.requests : req'[r] = req[r]
           /\ restarts' <= scope.restarts /\ reruns' <= scope.reruns
           /\ UNCHANGED scope

MCInit == Init /\ scope \in Scopes
MCSpec == MCInit /\ [][Next /\ InScope]_<<vars, scope>>

\* The fairness of the module, for the requests that come.
MCFairSpec == MCSpec /\ WF_<<vars, scope>>(Progress /\ InScope)
=============================================================================
