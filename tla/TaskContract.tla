---------------------------- MODULE TaskContract ----------------------------
(***************************************************************************)
(* What the task broker promises a caller that polls it                    *)
(* (Scheduler.wait, GET /results): an accepted task is answered, an answer *)
(* is never withdrawn, and an answer that carries a result is never        *)
(* replaced by one that only carries an error.  Nothing here knows of      *)
(* queues, workers, monitors or the order of Redis commands.               *)
(***************************************************************************)
CONSTANT Tasks

VARIABLES known,    \* task ids the broker has accepted
          answer    \* what a poll for the id returns: nothing, an error, a result

cvars == <<known, answer>>

Answers == {"none", "error", "result"}

ContractTypeOK == /\ known \subseteq Tasks
                  /\ answer \in [Tasks -> Answers]

CInit == /\ known = {}
         /\ answer = [t \in Tasks |-> "none"]

Accept(t) == /\ t \notin known
             /\ known' = known \cup {t}
             /\ UNCHANGED answer

\* An error answers the task only while nothing better does.
GiveError(t) == /\ t \in known
                /\ answer[t] = "none"
                /\ answer' = [answer EXCEPT ![t] = "error"]
                /\ UNCHANGED known

\* A result may come after an error (the error of a worker's shutdown, say).
GiveResult(t) == /\ t \in known
                 /\ answer' = [answer EXCEPT ![t] = "result"]
                 /\ UNCHANGED known

CNext == \E t \in Tasks : Accept(t) \/ GiveError(t) \/ GiveResult(t)

CSpec == CInit /\ [][CNext]_cvars
=============================================================================
