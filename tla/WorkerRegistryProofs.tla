------------------------ MODULE WorkerRegistryProofs ------------------------
(* Theorems about the worker registry, for every value of its constants. *)
EXTENDS WorkerRegistry, TLAPS

(* The invariant: the types, and what makes them last.  A worker that runs has a
   device, and a node once it was given one; a call carries them, or the id it
   binds, and nobody waits for a call of a worker that is off. *)

WorkerSound ==
  \A w \in Workers :
     /\ worker[w].pc # "off" => worker[w].device \in Devices
     /\ worker[w].pc \notin {"off", "allocate"} => worker[w].node \in Nodes

CallSound ==
  \A c \in calls :
     /\ c.kind \in {"register", "beat"} => c.node \in Nodes
     /\ c.heard => worker[c.w].pc # "off"
     /\ c.pc \in {"adopt", "bind"} => c.node \in Allocated

IInv == TypeOK /\ WorkerSound /\ CallSound

LEMMA IInvInit == Init => IInv
BY RegistryAssumption
   DEF Init, IInv, TypeOK, RedisOK, MemoryOK, WorkerOK, CallOK, RestOK,
       WorkerSound, CallSound, States, Off, Kinds

-----------------------------------------------------------------------------
(* Calls and workers. *)

\* A call that moves on keeps what it asks for and who asks.
LEMMA MovedCall ==
  ASSUME NEW c \in Calls, NEW p \in Stages
  PROVE  LET d == [c EXCEPT !.pc = p]
         IN  /\ d \in Calls /\ d.kind = c.kind /\ d.w = c.w /\ d.at = c.at
             /\ d.heard = c.heard /\ d.device = c.device /\ d.node = c.node
             /\ d.pc = p
BY DEF Calls

LEMMA HushedCall ==
  ASSUME NEW c \in Calls
  PROVE  LET d == [c EXCEPT !.heard = FALSE]
         IN  /\ d \in Calls /\ d.kind = c.kind /\ d.w = c.w /\ d.at = c.at
             /\ d.heard = FALSE /\ d.device = c.device /\ d.node = c.node
             /\ d.pc = c.pc
BY DEF Calls

\* A handler that goes on to its next step.
LEMMA MovesInv ==
  ASSUME WorkerOK, CallOK, CallSound, NEW c \in calls, NEW p \in Stages,
         p \in {"adopt", "bind"} => c.node \in Allocated,
         Moves(c, p), UNCHANGED worker
  PROVE  CallOK' /\ CallSound'
<1> DEFINE m == [c EXCEPT !.pc = p]
<1>1. c \in Calls
  BY DEF CallOK
<1>2. /\ m \in Calls /\ m.kind = c.kind /\ m.w = c.w /\ m.heard = c.heard
      /\ m.node = c.node /\ m.pc = p
  BY <1>1, MovedCall
<1>3. calls' = (calls \ {c}) \cup {m}
  BY DEF Moves
<1> HIDE DEF m
<1>4. CallOK'
  <2>1. calls' \subseteq Calls
    BY <1>2, <1>3 DEF CallOK
  <2>2. \A d, e \in calls' :
          d.heard /\ e.heard /\ d.w = e.w /\ d.kind = e.kind => d = e
    BY <1>2, <1>3 DEF CallOK
  <2>3. \A d \in calls' : d.heard => d.kind \in {"beat", worker'[d.w].pc}
    BY <1>2, <1>3 DEF CallOK
  <2>. QED
    BY <2>1, <2>2, <2>3 DEF CallOK
<1>5. CallSound'
  BY <1>2, <1>3 DEF CallSound
<1>. QED
  BY <1>4, <1>5

\* One that goes on with the id it is going to bind.
LEMMA BroughtCall ==
  ASSUME NEW c \in Calls, NEW p \in Stages, NEW n \in Nodes
  PROVE  LET d == [c EXCEPT !.pc = p, !.node = n]
         IN  /\ d \in Calls /\ d.kind = c.kind /\ d.w = c.w
             /\ d.heard = c.heard /\ d.node = n /\ d.pc = p
BY DEF Calls

LEMMA BringsInv ==
  ASSUME CallOK, CallSound, NEW c \in calls, NEW p \in Stages,
         NEW n \in Allocated, Brings(c, p, n), UNCHANGED worker
  PROVE  CallOK' /\ CallSound'
<1> DEFINE m == [c EXCEPT !.pc = p, !.node = n]
<1>1. c \in Calls /\ n \in Nodes
  BY DEF CallOK, Nodes
<1>2. /\ m \in Calls /\ m.kind = c.kind /\ m.w = c.w /\ m.heard = c.heard
      /\ m.node = n
  BY <1>1 DEF Calls
<1>3. calls' = (calls \ {c}) \cup {m}
  BY DEF Brings
<1> HIDE DEF m
<1>4. CallOK'
  <2>1. calls' \subseteq Calls
    BY <1>2, <1>3 DEF CallOK
  <2>2. \A d, e \in calls' :
          d.heard /\ e.heard /\ d.w = e.w /\ d.kind = e.kind => d = e
    BY <1>2, <1>3 DEF CallOK
  <2>3. \A d \in calls' : d.heard => d.kind \in {"beat", worker'[d.w].pc}
    BY <1>2, <1>3 DEF CallOK
  <2>. QED
    BY <2>1, <2>2, <2>3 DEF CallOK
<1>5. CallSound'
  BY <1>1, <1>2, <1>3 DEF CallSound
<1>. QED
  BY <1>4, <1>5

\* Calls that are over or that nobody waits for any more, of a worker in any
\* state.
LEMMA HushInv ==
  ASSUME CallOK, CallSound, NEW w \in Workers, NEW x \in States,
         worker \in [Workers -> States], worker' = [worker EXCEPT ![w] = x],
         NEW cs, cs \subseteq calls, calls' = Silenced(cs, w)
  PROVE  CallOK' /\ CallSound'
<1> DEFINE hush(c) == IF c.w = w THEN [c EXCEPT !.heard = FALSE] ELSE c
<1>1. calls' = {hush(c) : c \in cs}
  BY DEF Silenced
<1>2. ASSUME NEW c \in cs
      PROVE  /\ hush(c) \in Calls /\ hush(c).kind = c.kind /\ hush(c).w = c.w
             /\ hush(c).node = c.node /\ hush(c).pc = c.pc
             /\ hush(c).heard => c.w # w /\ c.heard /\ hush(c) = c
  BY <1>2, HushedCall DEF CallOK
<1> HIDE DEF hush
<1>3. CallOK'
  <2>1. calls' \subseteq Calls
    BY <1>1, <1>2
  <2>2. \A d, e \in calls' :
          d.heard /\ e.heard /\ d.w = e.w /\ d.kind = e.kind => d = e
    BY <1>1, <1>2 DEF CallOK
  <2>3. \A d \in calls' : d.heard => d.kind \in {"beat", worker'[d.w].pc}
    <3>1. SUFFICES ASSUME NEW c \in cs, hush(c).heard
                   PROVE  c.kind \in {"beat", worker'[c.w].pc}
      BY <1>1, <1>2
    <3>2. c.w # w /\ c.heard /\ c \in Calls
      BY <1>2, <3>1 DEF CallOK
    <3>3. worker'[c.w] = worker[c.w]
      BY <3>2 DEF Calls
    <3>. QED
      BY <3>2, <3>3 DEF CallOK
  <2>. QED
    BY <2>1, <2>2, <2>3 DEF CallOK
<1>4. CallSound'
  <2>1. SUFFICES ASSUME NEW c \in cs
                 PROVE  /\ c.kind \in {"register", "beat"} => c.node \in Nodes
                        /\ hush(c).heard => worker'[c.w].pc # "off"
                        /\ c.pc \in {"adopt", "bind"} => c.node \in Allocated
    BY <1>1, <1>2 DEF CallSound
  <2>2. c \in Calls
    BY DEF CallOK
  <2>3. c.w # w => worker'[c.w] = worker[c.w]
    BY <2>2 DEF Calls
  <2>. QED
    BY <1>2, <2>3 DEF CallSound
<1>. QED
  BY <1>3, <1>4

\* A state a worker may be in.
Fit(x) == /\ x \in States
          /\ x.pc # "off" => x.device \in Devices
          /\ x.pc \notin {"off", "allocate"} => x.node \in Nodes

LEMMA FitWorker ==
  ASSUME WorkerOK, WorkerSound, NEW w \in Workers
  PROVE  Fit(worker[w])
BY DEF WorkerOK, WorkerSound, Fit

LEMMA FitUpdate ==
  ASSUME WorkerOK, WorkerSound, NEW w \in Workers, NEW x, Fit(x),
         worker' = [worker EXCEPT ![w] = x]
  PROVE  WorkerOK' /\ WorkerSound'
BY DEF WorkerOK, WorkerSound, Fit

LEMMA FitMove ==
  ASSUME NEW x, Fit(x), x.pc # "off", NEW p,
         p \in (Kinds \ {"beat"}) \cup {"up", "mute"},
         p = "allocate" \/ x.pc # "allocate"
  PROVE  Fit([x EXCEPT !.pc = p]) /\ [x EXCEPT !.pc = p].pc = p
BY DEF Fit, States

LEMMA FitNode ==
  ASSUME NEW x, Fit(x), x.pc # "off", NEW n \in Nodes
  PROVE  LET y == [x EXCEPT !.pc = "register", !.node = n]
         IN  Fit(y) /\ y.pc = "register" /\ y.node = n
BY DEF Fit, States, Kinds

LEMMA FitOff == Fit(Off) /\ Off.pc = "off"
BY DEF Fit, States, Off

\* A call is over, and its worker in a state that waits for none of its other
\* calls but heartbeats.
LEMMA OverInv ==
  ASSUME WorkerOK, CallOK, CallSound, NEW c \in calls, NEW x \in States,
         c.heard, x.pc # "off",
         x.pc = worker[c.w].pc \/ c.kind = worker[c.w].pc,
         worker' = [worker EXCEPT ![c.w] = x], calls' = calls \ {c}
  PROVE  CallOK' /\ CallSound'
<1>1. \A d \in calls : d \in Calls /\ d.w \in Workers
  BY DEF CallOK, Calls
<1>2. \A d \in calls : worker'[d.w] = IF d.w = c.w THEN x ELSE worker[d.w]
  BY <1>1 DEF WorkerOK
<1>3. \A d \in calls' : d.heard => d.kind \in {"beat", worker'[d.w].pc}
  BY <1>2 DEF CallOK
<1>4. CallOK'
  BY <1>3 DEF CallOK
<1>5. CallSound'
  BY <1>2 DEF CallSound
<1>. QED
  BY <1>4, <1>5

LEMMA AnswersInv ==
  ASSUME WorkerOK, WorkerSound, CallOK, CallSound, NEW c \in calls, NEW x,
         Answers(c, x),
         c.heard => /\ Fit(x) /\ x.pc # "off"
                    /\ x.pc = worker[c.w].pc \/ c.kind = worker[c.w].pc
  PROVE  WorkerOK' /\ WorkerSound' /\ CallOK' /\ CallSound'
<1>1. c.w \in Workers
  BY DEF CallOK, Calls
<1>2. CASE c.heard
  <2>1. worker' = [worker EXCEPT ![c.w] = x] /\ calls' = calls \ {c}
    BY <1>2 DEF Answers
  <2>2. x \in States
    BY <1>2 DEF Fit
  <2>3. WorkerOK' /\ WorkerSound'
    BY <1>1, <1>2, <2>1, FitUpdate
  <2>4. CallOK' /\ CallSound'
    BY <1>2, <2>1, <2>2, OverInv
  <2>. QED
    BY <2>3, <2>4
<1>3. CASE ~ c.heard
  BY <1>3 DEF Answers, WorkerOK, WorkerSound, CallOK, CallSound
<1>. QED
  BY <1>2, <1>3

\* The last call of a worker is over.
LEMMA DismissesInv ==
  ASSUME WorkerOK, WorkerSound, CallOK, CallSound, NEW c \in calls, Dismisses(c)
  PROVE  WorkerOK' /\ WorkerSound' /\ CallOK' /\ CallSound'
<1>1. c.w \in Workers
  BY DEF CallOK, Calls
<1>2. CASE c.heard
  <2>1. worker' = [worker EXCEPT ![c.w] = Off] /\ calls' = Silenced(calls \ {c}, c.w)
    BY <1>2 DEF Dismisses
  <2>2. Fit(Off) /\ Off \in States
    BY FitOff DEF Fit
  <2>3. WorkerOK' /\ WorkerSound'
    BY <1>1, <2>1, <2>2, FitUpdate
  <2>4. CallOK' /\ CallSound'
    BY <1>1, <2>1, <2>2, HushInv DEF WorkerOK
  <2>. QED
    BY <2>3, <2>4
<1>3. CASE ~ c.heard
  BY <1>3 DEF Dismisses, WorkerOK, WorkerSound, CallOK, CallSound
<1>. QED
  BY <1>2, <1>3

\* A worker sends a call of a kind it does not wait for.
LEMMA SentCall ==
  ASSUME NEW w \in Workers, Fit(worker[w]), worker[w].pc # "off",
         NEW kind \in Kinds, NEW s \in Servers, NEW heard \in BOOLEAN
  PROVE  LET d == Call(w, kind, s, heard)
         IN  /\ d \in Calls /\ d.kind = kind /\ d.w = w /\ d.heard = heard
             /\ d.node = worker[w].node
BY DEF Call, Calls, Stages, Fit, States

LEMMA SendInv ==
  ASSUME IInv, NEW w \in Workers, NEW kind \in Kinds \ {"evict"}, Send(w, kind)
  PROVE  CallOK' /\ CallSound'
<1> USE DEF IInv, TypeOK
<1>1. Fit(worker[w]) /\ worker[w].pc # "off"
  <2>1. Fit(worker[w])
    BY FitWorker
  <2>2. worker[w].pc # "off"
    BY DEF Send, Kinds
  <2>. QED
    BY <2>1, <2>2
<1>2. PICK s \in Servers : calls' = calls \cup {Call(w, kind, s, TRUE)}
  BY DEF Send
<1> DEFINE d == Call(w, kind, s, TRUE)
<1>3. /\ d \in Calls /\ d.kind = kind /\ d.w = w /\ d.heard = TRUE
      /\ d.node = worker[w].node /\ d.pc = "begin"
  BY <1>1 DEF Call, Calls, Stages, Fit, States
<1>4. /\ UNCHANGED worker /\ ~ Waiting(w, kind)
      /\ kind # "beat" => worker[w].pc = kind
      /\ kind = "beat" => worker[w].pc = "up"
  BY DEF Send
<1>5. calls' = calls \cup {d}
  BY <1>2
<1> HIDE DEF d
<1>6. CallOK'
  <2>1. calls' \subseteq Calls
    BY <1>3, <1>5 DEF CallOK
  <2>2. \A c \in calls : c.heard /\ c.w = w => c.kind # kind
    BY <1>4 DEF Waiting
  <2>3. \A c, e \in calls' :
          c.heard /\ e.heard /\ c.w = e.w /\ c.kind = e.kind => c = e
    BY <1>3, <1>5, <2>2 DEF CallOK
  <2>4. \A c \in calls' : c.heard => c.kind \in {"beat", worker'[c.w].pc}
    BY <1>3, <1>4, <1>5 DEF CallOK
  <2>. QED
    BY <2>1, <2>3, <2>4 DEF CallOK
<1>7. kind \in {"register", "beat"} => worker[w].node \in Nodes
  BY <1>1, <1>4 DEF Fit
<1>8. CallSound'
  BY <1>1, <1>3, <1>4, <1>5, <1>7 DEF CallSound
<1>. QED
  BY <1>6, <1>8

-----------------------------------------------------------------------------
(* The invariant is inductive: one lemma for the worker's side, one for the
   handlers, one for the rest. *)

LEMMA IInvWorker ==
  ASSUME IInv, NEW w \in Workers,
         \/ Start(w) \/ Stop(w) \/ Crash(w) \/ Expire(w)
         \/ \E kind \in Kinds \ {"evict"} : Send(w, kind)
  PROVE  IInv'
<1> USE RegistryAssumption DEF IInv, TypeOK
<1>0. Fit(worker[w])
  BY FitWorker
<1>1. CASE Start(w)
  <2>1. PICK d \in Devices :
          /\ record' = [record EXCEPT ![w] = d]
          /\ worker' = [worker EXCEPT ![w] =
               [pc |-> IF Configured[w] = NoNode THEN "allocate" ELSE "register",
                device |-> d, node |-> Configured[w]]]
    BY <1>1 DEF Start
  <2> DEFINE x == [pc |-> IF Configured[w] = NoNode THEN "allocate" ELSE "register",
                   device |-> d, node |-> Configured[w]]
  <2>2. Fit(x) /\ x.pc # "off"
    BY DEF Fit, States, Kinds, Nodes, Allocated
  <2>3. worker' = [worker EXCEPT ![w] = x]
    BY <2>1
  <2> HIDE DEF x
  <2>4. WorkerOK' /\ WorkerSound'
    BY <2>2, <2>3, FitUpdate
  <2>5. \A c \in calls : c.heard => c.w # w /\ worker'[c.w] = worker[c.w]
    BY <1>1, <2>3 DEF Start, CallOK, CallSound, Calls, WorkerOK
  <2>6. UNCHANGED calls
    BY <1>1 DEF Start
  <2>7. CallOK' /\ CallSound'
    BY <2>5, <2>6 DEF CallOK, CallSound
  <2>8. RedisOK' /\ MemoryOK' /\ RestOK'
    BY <1>1, <2>1 DEF Start, RedisOK, MemoryOK, RestOK, memory
  <2>. QED
    BY <2>4, <2>7, <2>8
<1>2. CASE Stop(w)
  <2> DEFINE x == [worker[w] EXCEPT !.pc = "unregister"]
  <2>1. worker' = [worker EXCEPT ![w] = x] /\ UNCHANGED calls
    BY <1>2 DEF Stop, To, WorkerOK
  <2>2. Fit(x) /\ x.pc = "unregister"
    BY <1>0, <1>2, FitMove DEF Stop, Kinds
  <2> HIDE DEF x
  <2>3. WorkerOK' /\ WorkerSound'
    BY <2>1, <2>2, FitUpdate
  <2>4. \A c \in calls : /\ c \in Calls
                         /\ c.w = w /\ c.heard => c.kind = "beat"
                         /\ worker'[c.w] = IF c.w = w THEN x ELSE worker[c.w]
    BY <1>2, <2>1 DEF Stop, CallOK, Calls, Kinds, WorkerOK
  <2>5. CallOK' /\ CallSound'
    BY <2>1, <2>2, <2>4 DEF CallOK, CallSound
  <2>6. RedisOK' /\ MemoryOK' /\ RestOK'
    BY <1>2 DEF Stop, RedisOK, MemoryOK, RestOK, redis, memory, bounds
  <2>. QED
    BY <2>3, <2>5, <2>6
<1>3. CASE Crash(w)
  <2>1. Fit(Off) /\ Off \in States
    BY FitOff DEF Fit
  <2>2. WorkerOK' /\ WorkerSound'
    BY <1>3, <2>1, FitUpdate DEF Crash
  <2>3. CallOK' /\ CallSound'
    BY <1>3, <2>1, HushInv DEF Crash, WorkerOK
  <2>4. RedisOK' /\ MemoryOK' /\ RestOK'
    BY <1>3 DEF Crash, RedisOK, MemoryOK, RestOK, redis, memory
  <2>. QED
    BY <2>2, <2>3, <2>4
<1>4. CASE Expire(w)
  BY <1>4 DEF Expire, RedisOK, MemoryOK, RestOK, memory, bounds, WorkerOK, CallOK,
              WorkerSound, CallSound
<1>5. ASSUME NEW kind \in Kinds \ {"evict"}, Send(w, kind)
      PROVE  IInv'
  <2>1. CallOK' /\ CallSound'
    BY <1>5, SendInv
  <2>. QED
    BY <1>5, <2>1 DEF Send, RedisOK, MemoryOK, RestOK, redis, memory, bounds,
                      WorkerOK, WorkerSound
<1>. QED
  BY <1>1, <1>2, <1>3, <1>4, <1>5

LEMMA IInvFails ==
  ASSUME IInv, NEW c \in calls, Fails(c)
  PROVE  IInv'
<1> USE RegistryAssumption DEF IInv, TypeOK
<1>1. c \in Calls /\ c.w \in Workers /\ c.heard /\ c.kind \in Kinds
  BY DEF Fails, CallOK, Calls
<1>2. Fit(worker[c.w]) /\ worker[c.w].pc # "off"
  BY <1>1, FitWorker DEF CallSound
<1> DEFINE m == [c EXCEPT !.heard = FALSE]
           rest == (calls \ {c}) \cup IF c.pc = "broken" THEN {} ELSE {m}
<1>3. PICK x \in AfterFailure(worker[c.w], c.w, c.kind) :
        /\ worker' = [worker EXCEPT ![c.w] = x]
        /\ calls' = IF x = Off THEN Silenced(rest, c.w) ELSE rest
  BY DEF Fails
<1>4. /\ m \in Calls /\ m.kind = c.kind /\ m.w = c.w /\ ~ m.heard
      /\ m.node = c.node /\ m.pc = c.pc
  BY <1>1, HushedCall
<1> HIDE DEF m
<1>5. /\ Fit(x)
      /\ x = Off \/ /\ x.pc # "off"
                    /\ x.pc = worker[c.w].pc \/ c.kind = worker[c.w].pc
                                             \/ worker[c.w].pc = "up"
  <2>0. c.kind \in {"beat", worker[c.w].pc}
    BY <1>1 DEF CallOK
  <2>1. CASE c.kind = "allocate"
    <3>1. x = [worker[c.w] EXCEPT !.pc = "register", !.node = HostOf[c.w]]
      BY <1>3, <2>1 DEF AfterFailure
    <3>2. HostOf[c.w] \in Nodes
      BY <1>1 DEF Nodes
    <3>. QED
      BY <1>2, <2>0, <2>1, <3>1, <3>2, FitNode
  <2>2. CASE c.kind = "register"
    <3>1. x \in {worker[c.w], [worker[c.w] EXCEPT !.pc = "unregister"]}
      BY <1>3, <2>2 DEF AfterFailure
    <3>2. /\ Fit([worker[c.w] EXCEPT !.pc = "unregister"])
          /\ [worker[c.w] EXCEPT !.pc = "unregister"].pc = "unregister"
      BY <1>2, <2>0, <2>2, FitMove DEF Kinds
    <3>. QED
      BY <1>2, <2>0, <2>2, <3>1, <3>2
  <2>3. CASE c.kind \in {"unregister", "evict"}
    BY <1>3, <2>3, FitOff DEF AfterFailure
  <2>4. CASE c.kind = "beat"
    <3>1. x = IF worker[c.w].pc = "up" THEN [worker[c.w] EXCEPT !.pc = "mute"]
              ELSE worker[c.w]
      BY <1>3, <2>4 DEF AfterFailure
    <3>2. worker[c.w].pc = "up" =>
             /\ Fit([worker[c.w] EXCEPT !.pc = "mute"])
             /\ [worker[c.w] EXCEPT !.pc = "mute"].pc = "mute"
      BY <1>2, FitMove DEF Kinds
    <3>. QED
      BY <1>2, <3>1, <3>2
  <2>. QED
    BY <1>1, <2>1, <2>2, <2>3, <2>4 DEF Kinds
<1>6. WorkerOK' /\ WorkerSound'
  BY <1>1, <1>3, <1>5, FitUpdate
<1>7. \A d \in rest : /\ d \in Calls
                      /\ d.heard => d \in calls \ {c}
                      /\ d.kind \in {"register", "beat"} => d.node \in Nodes
                      /\ d.pc \in {"adopt", "bind"} => d.node \in Allocated
  BY <1>4 DEF CallOK, CallSound
<1>8. CallOK' /\ CallSound'
  <2>1. CASE x = Off
    <3>1. \A d \in calls' : \/ d \in rest /\ d.w # c.w
                            \/ \E e \in rest : e.w = c.w
                                             /\ d = [e EXCEPT !.heard = FALSE]
      BY <1>3, <2>1 DEF Silenced
    <3>2. \A d \in calls' : /\ d \in Calls
                            /\ d.heard => d \in calls /\ d.w # c.w
                            /\ d.kind \in {"register", "beat"} => d.node \in Nodes
                            /\ d.pc \in {"adopt", "bind"} => d.node \in Allocated
      <4>1. SUFFICES ASSUME NEW d \in calls'
                     PROVE  /\ d \in Calls
                            /\ d.heard => d \in calls /\ d.w # c.w
                            /\ d.kind \in {"register", "beat"} => d.node \in Nodes
                            /\ d.pc \in {"adopt", "bind"} => d.node \in Allocated
        OBVIOUS
      <4>2. CASE d \in rest /\ d.w # c.w
        BY <1>7, <4>2
      <4>3. ASSUME NEW e \in rest, d = [e EXCEPT !.heard = FALSE]
            PROVE  /\ d \in Calls /\ ~ d.heard
                   /\ d.kind \in {"register", "beat"} => d.node \in Nodes
                   /\ d.pc \in {"adopt", "bind"} => d.node \in Allocated
        <5>1. e \in Calls
          BY <1>7
        <5>2. /\ d \in Calls /\ ~ d.heard /\ d.kind = e.kind /\ d.node = e.node
              /\ d.pc = e.pc
          BY <4>3, <5>1, HushedCall
        <5>. QED
          BY <1>7, <5>2
      <4>. QED
        BY <3>1, <4>2, <4>3
    <3>3. \A d \in calls' : d.heard => worker'[d.w] = worker[d.w]
      BY <1>3, <3>2 DEF Calls, WorkerOK
    <3>. QED
      BY <3>2, <3>3 DEF CallOK, CallSound
  <2>2. CASE x # Off
    <3>1. calls' = rest
      BY <1>3, <2>2
    <3>2. \A d \in calls' :
            d.heard => /\ d \in calls \ {c}
                       /\ worker'[d.w] = IF d.w = c.w THEN x ELSE worker[d.w]
      BY <1>3, <1>7, <3>1 DEF Calls, WorkerOK
    <3>3. \A d \in calls' : d.heard /\ d.w = c.w => d.kind \in {"beat", x.pc}
      BY <1>1, <1>5, <1>7, <2>2, <3>1 DEF CallOK, Calls, Kinds
    <3>4. \A d \in calls' : d.heard => d.kind \in {"beat", worker'[d.w].pc}
      BY <3>2, <3>3 DEF CallOK
    <3>. QED
      BY <1>5, <1>7, <2>2, <3>1, <3>2, <3>4 DEF CallOK, CallSound
  <2>. QED
    BY <2>1, <2>2
<1>9. RedisOK' /\ MemoryOK' /\ RestOK'
  BY DEF Fails, RedisOK, MemoryOK, RestOK, redis, memory
<1>. QED
  BY <1>6, <1>8, <1>9

LEMMA IInvHandle ==
  ASSUME IInv, NEW c \in calls, Handle(c)
  PROVE  IInv'
<1> USE RegistryAssumption DEF IInv, TypeOK
<1>1. c \in Calls /\ c.w \in Workers /\ c.at \in Servers /\ c.device \in Devices
  BY DEF CallOK, Calls
<1>2. /\ Fit(worker[c.w])
      /\ c.heard => worker[c.w].pc # "off" /\ c.kind \in {"beat", worker[c.w].pc}
  BY <1>1, FitWorker DEF CallOK, CallSound
<1>3. ASSUME NEW p \in Stages,
             p \in {"adopt", "bind"} => c.node \in Allocated, Moves(c, p),
             UNCHANGED <<memory, worker, claim, bounds>>, RedisOK'
      PROVE  IInv'
  BY <1>3, MovesInv DEF MemoryOK, WorkerOK, WorkerSound, RestOK, memory, bounds
<1>4. ASSUME NEW p \in Stages, NEW n \in Allocated, Brings(c, p, n),
             UNCHANGED <<memory, worker, claim, bounds>>, RedisOK'
      PROVE  IInv'
  BY <1>4, BringsInv DEF MemoryOK, WorkerOK, WorkerSound, RestOK, memory, bounds
<1>5. ASSUME NEW n \in Allocated, c.kind = "allocate", Allots(c, n),
             UNCHANGED <<memory, claim, bounds>>, RedisOK'
      PROVE  IInv'
  <2> DEFINE x == [worker[c.w] EXCEPT !.pc = "register", !.node = n]
  <2>1. n \in Nodes
    BY DEF Nodes
  <2>2. c.heard => Fit(x) /\ x.pc = "register" /\ c.kind = worker[c.w].pc
    <3>1. c.heard => worker[c.w].pc # "off" /\ c.kind = worker[c.w].pc
      BY <1>2, <1>5
    <3>2. worker[c.w].pc # "off" => Fit(x) /\ x.pc = "register"
      BY <1>2, <2>1, FitNode
    <3>. QED
      BY <3>1, <3>2
  <2>3. Answers(c, x)
    BY <1>5 DEF Allots
  <2> HIDE DEF x
  <2>4. WorkerOK' /\ WorkerSound' /\ CallOK' /\ CallSound'
    BY <2>2, <2>3, AnswersInv
  <2>. QED
    BY <1>5, <2>4 DEF MemoryOK, RestOK, memory, bounds
<1>6. CASE AllocateRead(c)
  <2> DEFINE h == HostOf[c.w]
  <2>1. /\ RedisOK' /\ UNCHANGED <<memory, claim, bounds>>
        /\ c.kind = "allocate" /\ h \in Hosts
    BY <1>1, <1>6 DEF AllocateRead, RedisOK, redis
  <2>2. CASE hosts[h] # NoNode
    <3>1. hosts[h] \in Allocated
      BY <2>1, <2>2 DEF RedisOK
    <3>2. Allots(c, hosts[h])
      BY <1>6, <2>2 DEF AllocateRead
    <3>. QED
      BY <1>5, <2>1, <3>1, <3>2
  <2>3. CASE hosts[h] = NoNode /\ LegacyHosts[h] # NoNode
    <3>1. LegacyHosts[h] \in Allocated
      BY <2>1, <2>3
    <3>2. Brings(c, "adopt", LegacyHosts[h]) /\ UNCHANGED worker
      BY <1>6, <2>3 DEF AllocateRead
    <3>. QED
      BY <1>4, <2>1, <3>1, <3>2 DEF Stages
  <2>4. CASE hosts[h] = NoNode /\ LegacyHosts[h] = NoNode
    <3>1. Moves(c, "incr") /\ UNCHANGED worker
      BY <1>6, <2>4 DEF AllocateRead
    <3>. QED
      BY <1>3, <2>1, <3>1 DEF Stages
  <2>. QED
    BY <2>2, <2>3, <2>4
<1>7. CASE AllocateAdopt(c)
  <2>1. /\ RedisOK' /\ UNCHANGED <<memory, claim, bounds>>
        /\ c.kind = "allocate" /\ c.node \in Allocated
    BY <1>7 DEF AllocateAdopt, RedisOK, redis, CallSound
  <2>2. Allots(c, c.node) \/ (Moves(c, "bind") /\ UNCHANGED worker)
    BY <1>7 DEF AllocateAdopt
  <2>. QED
    BY <1>3, <1>5, <2>1, <2>2 DEF Stages
<1>8. CASE AllocateIncr(c)
  <2>1. nodeSeq' \in Nat /\ nodeSeq' \in Allocated
    BY <1>8 DEF AllocateIncr, RedisOK, Allocated, Automatic
  <2>2. Brings(c, "bind", nodeSeq') /\ UNCHANGED <<memory, worker, claim, bounds>>
    BY <1>8 DEF AllocateIncr
  <2>3. RedisOK'
    BY <1>8, <2>1 DEF AllocateIncr, RedisOK
  <2>. QED
    BY <1>4, <2>1, <2>2, <2>3 DEF Stages
<1>9. CASE AllocateBind(c)
  <2>1. c.node \in Allocated /\ c.kind = "allocate"
    BY <1>9 DEF AllocateBind, CallSound
  <2>2. Allots(c, c.node) /\ UNCHANGED <<memory, claim, bounds>>
    BY <1>9 DEF AllocateBind
  <2>3. RedisOK'
    BY <1>9, <2>1 DEF AllocateBind, RedisOK
  <2>. QED
    BY <1>5, <2>1, <2>2, <2>3
<1>10. CASE RegisterBegin(c) \/ UnregisterStore(c) \/ BeatAdmitted(c)
  <2>1. PICK p \in {"store", "commit"} :
          Moves(c, p) /\ UNCHANGED <<redis, memory, worker, claim, bounds>>
    BY <1>10 DEF RegisterBegin, UnregisterStore, BeatAdmitted
  <2>2. p \in Stages /\ p # "bind"
    BY DEF Stages
  <2>. QED
    BY <1>3, <2>1, <2>2 DEF RedisOK, redis
<1>11. CASE RegisterStore(c)
  <2>1. RedisOK'
    BY <1>1, <1>11 DEF RegisterStore, RedisOK
  <2>. QED
    BY <1>3, <1>11, <2>1 DEF RegisterStore, Stages
<1>12. CASE RegisterCommit(c)
  <2> DEFINE x == IF c.kind = "register" THEN [worker[c.w] EXCEPT !.pc = "up"]
                                         ELSE worker[c.w]
             e == [device |-> c.device, node |-> c.node, online |-> TRUE]
  <2>1. c.heard => /\ Fit(x) /\ x.pc # "off"
                   /\ x.pc = worker[c.w].pc \/ c.kind = worker[c.w].pc
    <3>1. CASE c.kind = "register"
      <4>1. c.heard => worker[c.w].pc = "register"
        BY <1>2, <3>1
      <4>2. worker[c.w].pc = "register" =>
              Fit([worker[c.w] EXCEPT !.pc = "up"])
              /\ [worker[c.w] EXCEPT !.pc = "up"].pc = "up"
        BY <1>2, FitMove
      <4>3. x = [worker[c.w] EXCEPT !.pc = "up"]
        BY <3>1
      <4>. QED
        BY <3>1, <4>1, <4>2, <4>3
    <3>2. CASE c.kind # "register"
      <4>1. x = worker[c.w]
        BY <3>2
      <4>. QED
        BY <1>2, <4>1
    <3>. QED
      BY <3>1, <3>2
  <2>2. Answers(c, x)
    BY <1>12 DEF RegisterCommit
  <2>3. e \in Entries
    BY <1>1, <1>12 DEF RegisterCommit, CallSound, Entries
  <2>4. MemoryOK'
    BY <1>1, <1>12, <2>3 DEF RegisterCommit, MemoryOK
  <2> HIDE DEF x
  <2>5. WorkerOK' /\ WorkerSound' /\ CallOK' /\ CallSound'
    BY <2>1, <2>2, AnswersInv
  <2>. QED
    BY <1>12, <2>4, <2>5 DEF RegisterCommit, RedisOK, RestOK, redis, bounds
<1>13. CASE UnregisterCommit(c)
  <2>1. WorkerOK' /\ WorkerSound' /\ CallOK' /\ CallSound'
    BY <1>13, DismissesInv DEF UnregisterCommit
  <2>. QED
    BY <1>1, <1>13, <2>1
       DEF UnregisterCommit, MemoryOK, RedisOK, RestOK, redis, bounds
<1>14. CASE Beat(c)
  <2>1. CASE registry[c.at][c.w] # Unknown
    <3>1. c.heard => worker[c.w].pc # "off" /\ Fit(worker[c.w])
      BY <1>2
    <3>2. Answers(c, worker[c.w])
      BY <1>14, <2>1 DEF Beat
    <3>3. WorkerOK' /\ WorkerSound' /\ CallOK' /\ CallSound'
      BY <3>1, <3>2, AnswersInv
    <3>4. RedisOK'
      BY <1>1, <1>2, <1>14, <2>1 DEF Beat, Refreshed, RedisOK, Fit
    <3>. QED
      BY <1>14, <3>3, <3>4 DEF Beat, MemoryOK, RestOK, memory, bounds
  <2>2. CASE registry[c.at][c.w] = Unknown
    <3>1. Moves(c, "check") /\ UNCHANGED <<redis, memory, worker, claim, bounds>>
      BY <1>14, <2>2 DEF Beat, redis
    <3>. QED
      BY <1>3, <3>1 DEF Stages, RedisOK, redis
  <2>. QED
    BY <2>1, <2>2
<1>15. CASE BeatRefused(c)
  <2>1. RedisOK' /\ MemoryOK' /\ RestOK'
    BY <1>15 DEF BeatRefused, RedisOK, MemoryOK, RestOK, redis, memory, bounds
  <2>2. CASE c.heard /\ worker[c.w].pc = "up"
    <3> DEFINE x == [worker[c.w] EXCEPT !.pc = "evict"]
    <3>1. PICK s \in Servers : calls' = (calls \ {c}) \cup {Call(c.w, "evict", s, TRUE)}
      BY <1>15, <2>2 DEF BeatRefused
    <3>2. worker' = [worker EXCEPT ![c.w] = x]
      BY <1>1, <1>15, <2>2 DEF BeatRefused, WorkerOK
    <3>3. Fit(x) /\ x.pc = "evict"
      BY <1>2, <2>2, FitMove DEF Kinds
    <3> DEFINE d == Call(c.w, "evict", s, TRUE)
    <3>4. /\ d \in Calls /\ d.kind = "evict" /\ d.w = c.w /\ d.pc = "begin"
      BY <1>1, <1>2, <2>2 DEF Call, Calls, Stages, Fit, States, Kinds
    <3>5. calls' = (calls \ {c}) \cup {d}
      BY <3>1
    <3> HIDE DEF x, d
    <3>6. WorkerOK' /\ WorkerSound'
      BY <1>1, <3>2, <3>3, FitUpdate
    <3>7. \A e \in calls : /\ e \in Calls
                           /\ e.heard /\ e.w = c.w => e.kind = "beat"
                           /\ worker'[e.w] = IF e.w = c.w THEN x ELSE worker[e.w]
      BY <1>1, <2>2, <3>2 DEF CallOK, Calls, Kinds, WorkerOK
    <3>8. CallOK'
      <4>1. calls' \subseteq Calls
        BY <3>4, <3>5 DEF CallOK
      <4>2. \A e, g \in calls' :
              e.heard /\ g.heard /\ e.w = g.w /\ e.kind = g.kind => e = g
        BY <3>4, <3>5, <3>7 DEF CallOK
      <4>3. worker'[c.w] = x
        BY <1>1, <3>2 DEF WorkerOK
      <4>4. \A e \in calls' : e.heard => e.kind \in {"beat", worker'[e.w].pc}
        BY <3>3, <3>4, <3>5, <3>7, <4>3 DEF CallOK
      <4>. QED
        BY <4>1, <4>2, <4>4 DEF CallOK
    <3>9. CallSound'
      <4>1. worker'[c.w] = x
        BY <1>1, <3>2 DEF WorkerOK
      <4>. QED
        BY <3>3, <3>4, <3>5, <3>7, <4>1 DEF CallSound
    <3>. QED
      BY <2>1, <3>6, <3>8, <3>9
  <2>3. CASE c.heard /\ worker[c.w].pc # "up"
    <3>1. PICK s \in Servers : calls' = (calls \ {c}) \cup {Call(c.w, "evict", s, FALSE)}
      BY <1>15, <2>3 DEF BeatRefused
    <3> DEFINE d == Call(c.w, "evict", s, FALSE)
    <3>2. /\ d \in Calls /\ d.kind = "evict" /\ ~ d.heard /\ d.pc = "begin"
      BY <1>1, <1>2, <2>3 DEF Call, Calls, Stages, Fit, States, Kinds
    <3>3. calls' = (calls \ {c}) \cup {d}
      BY <3>1
    <3>4. UNCHANGED worker
      BY <1>1, <1>15, <2>3 DEF BeatRefused, WorkerOK, States
    <3> HIDE DEF d
    <3>5. CallOK' /\ CallSound'
      BY <3>2, <3>3, <3>4 DEF CallOK, CallSound
    <3>. QED
      BY <2>1, <3>4, <3>5 DEF WorkerOK, WorkerSound
  <2>4. CASE ~ c.heard
    BY <1>15, <2>1, <2>4 DEF BeatRefused, WorkerOK, WorkerSound, CallOK, CallSound
  <2>. QED
    BY <2>2, <2>3, <2>4
<1>16. CASE Evict(c)
  <2>1. WorkerOK' /\ WorkerSound' /\ CallOK' /\ CallSound'
    BY <1>16, DismissesInv DEF Evict
  <2>2. MemoryOK'
    <3> DEFINE e == registry[c.at][c.w]
               off == [e EXCEPT !.online = FALSE]
    <3>1. balancer' \in [Servers -> [Workers -> Devices \cup {NoDevice}]]
      BY <1>1, <1>16 DEF Evict, MemoryOK
    <3>2. CASE e = Unknown
      BY <1>16, <3>1, <3>2 DEF Evict, MemoryOK
    <3>3. CASE e # Unknown
      <4>1. off \in Entries
        <5>1. e \in Entries
          BY <1>1, <3>3 DEF MemoryOK
        <5> HIDE DEF e
        <5>. QED
          BY <5>1 DEF Entries
      <4>2. registry' = [registry EXCEPT ![c.at][c.w] = off]
        BY <1>16, <3>3 DEF Evict
      <4> HIDE DEF off
      <4>. QED
        BY <1>1, <3>1, <4>1, <4>2 DEF MemoryOK
    <3>. QED
      BY <3>2, <3>3
  <2>. QED
    BY <1>16, <2>1, <2>2 DEF Evict, RedisOK, RestOK, redis, bounds
<1>. QED
  BY <1>6, <1>7, <1>8, <1>9, <1>10, <1>11, <1>12, <1>13, <1>14, <1>15, <1>16
     DEF Handle

LEMMA IInvServer ==
  ASSUME IInv, NEW s \in Servers, RestartServer(s)
  PROVE  IInv'
<1> USE DEF IInv, TypeOK
<1>1. calls' = {c \in calls : c.at # s}
                 \cup {[c EXCEPT !.pc = "broken"] :
                         c \in {d \in calls : d.at = s /\ d.heard}}
  BY DEF RestartServer
<1>2. UNCHANGED worker
  BY DEF RestartServer
<1>3. ASSUME NEW d \in calls'
      PROVE  \E c \in calls : /\ d \in Calls /\ d.kind = c.kind /\ d.w = c.w
                              /\ d.heard = c.heard /\ d.node = c.node
                              /\ \/ c.at # s /\ d = c
                                 \/ c.at = s /\ d = [c EXCEPT !.pc = "broken"]
                              /\ d.pc \in {c.pc, "broken"}
  <2>1. CASE d \in calls /\ d.at # s
    BY <2>1 DEF CallOK
  <2>2. ASSUME NEW c \in calls, c.at = s, d = [c EXCEPT !.pc = "broken"]
        PROVE  /\ d \in Calls /\ d.kind = c.kind /\ d.w = c.w
               /\ d.heard = c.heard /\ d.node = c.node /\ d.pc = "broken"
    BY <2>2, MovedCall DEF CallOK, Stages
  <2>. QED
    BY <1>1, <1>3, <2>1, <2>2
<1>4. CallOK'
  <2>1. calls' \subseteq Calls
    BY <1>3
  <2>2. ASSUME NEW d \in calls', NEW e \in calls',
               d.heard, e.heard, d.w = e.w, d.kind = e.kind
        PROVE  d = e
    <3>1. PICK c \in calls : /\ d.kind = c.kind /\ d.w = c.w /\ d.heard = c.heard
                             /\ \/ c.at # s /\ d = c
                                \/ c.at = s /\ d = [c EXCEPT !.pc = "broken"]
      BY <1>3
    <3>2. PICK b \in calls : /\ e.kind = b.kind /\ e.w = b.w /\ e.heard = b.heard
                             /\ \/ b.at # s /\ e = b
                                \/ b.at = s /\ e = [b EXCEPT !.pc = "broken"]
      BY <1>3
    <3>3. b = c
      BY <2>2, <3>1, <3>2 DEF CallOK
    <3>. QED
      BY <3>1, <3>2, <3>3
  <2>3. \A d \in calls' : d.heard => d.kind \in {"beat", worker'[d.w].pc}
    BY <1>2, <1>3 DEF CallOK
  <2>. QED
    BY <2>1, <2>2, <2>3 DEF CallOK
<1>5. CallSound'
  <2>1. ASSUME NEW d \in calls'
        PROVE  /\ d.kind \in {"register", "beat"} => d.node \in Nodes
               /\ d.heard => worker'[d.w].pc # "off"
               /\ d.pc \in {"adopt", "bind"} => d.node \in Allocated
    BY <1>2, <1>3 DEF CallSound
  <2>. QED
    BY <2>1 DEF CallSound
<1>. QED
  <2>1. MemoryOK'
    BY DEF RestartServer, MemoryOK
  <2>2. RestOK'
    BY RegistryAssumption DEF RestartServer, RestOK
  <2>. QED
    BY <1>2, <1>4, <1>5, <2>1, <2>2
       DEF RestartServer, RedisOK, WorkerOK, WorkerSound, redis

LEMMA IInvClaim ==
  ASSUME IInv, NEW c \in Claims, ClaimRead(c) \/ ClaimName(c) \/ ClaimHost(c)
  PROVE  IInv'
<1> USE RegistryAssumption DEF IInv, TypeOK
<1>1. c[1] \in Hosts /\ c[2] \in Names
  OBVIOUS
<1>2. RedisOK'
  BY <1>1 DEF ClaimRead, ClaimName, ClaimHost, RedisOK, redis, Allocated
<1>3. PICK x \in {"name", "host", "done", "refused"} : claim' = [claim EXCEPT ![c] = x]
  <2>1. ClaimRead(c) =>
          \E x \in {"name", "done", "refused"} : claim' = [claim EXCEPT ![c] = x]
    BY DEF ClaimRead
  <2>. QED
    BY <2>1 DEF ClaimName, ClaimHost
<1>4. RestOK'
  BY <1>3 DEF ClaimRead, ClaimName, ClaimHost, RestOK, bounds
<1>. QED
  BY <1>2, <1>4 DEF ClaimRead, ClaimName, ClaimHost, MemoryOK, WorkerOK, CallOK,
              WorkerSound, CallSound, memory

LEMMA IInvStep == IInv /\ [Next]_vars => IInv'
<1> SUFFICES ASSUME IInv, [Next]_vars
             PROVE  IInv'
  OBVIOUS
<1>1. CASE UNCHANGED vars
  BY <1>1 DEF vars, IInv, TypeOK, RedisOK, MemoryOK, WorkerOK, CallOK, RestOK,
              WorkerSound, CallSound
<1>. QED
  BY <1>1, IInvWorker, IInvHandle, IInvFails, IInvServer, IInvClaim DEF Next

(* Every reachable state is well typed; in particular a worker waits for at most
   one call of a kind, and only for the kind its own state is about. *)
THEOREM TypeCorrect == Spec => []TypeOK
<1>1. Spec => []IInv
  BY IInvInit, IInvStep, PTL DEF Spec
<1>2. IInv => TypeOK
  BY DEF IInv
<1>. QED
  BY <1>1, <1>2, PTL

-----------------------------------------------------------------------------
(* The balancer.  Only two handlers write both tables of a server, and each
   writes them in one step. *)

LEMMA BalancerStep ==
  ASSUME IInv, BalancerIsRegistered, [Next]_vars
  PROVE  BalancerIsRegistered'
<1> USE RegistryAssumption DEF IInv, TypeOK
<1>1. CASE UNCHANGED memory
  BY <1>1 DEF memory, BalancerIsRegistered
<1>2. ASSUME NEW c \in calls, RegisterCommit(c)
      PROVE  BalancerIsRegistered'
  <2> DEFINE e == [device |-> c.device, node |-> c.node, online |-> TRUE]
  <2>1. c.w \in Workers /\ c.at \in Servers /\ c.device \in Devices
    BY DEF CallOK, Calls
  <2>2. e \in Entries
    BY <1>2, <2>1 DEF RegisterCommit, CallSound, Entries
  <2>3. e # Unknown /\ e.device = c.device /\ e.online
    BY <2>2
  <2>4. /\ registry' = [registry EXCEPT ![c.at][c.w] = e]
        /\ balancer' = [balancer EXCEPT ![c.at][c.w] = c.device]
    BY <1>2 DEF RegisterCommit
  <2> HIDE DEF e
  <2>. QED
    BY <2>1, <2>3, <2>4 DEF MemoryOK, BalancerIsRegistered
<1>3. ASSUME NEW c \in calls, UnregisterCommit(c)
      PROVE  BalancerIsRegistered'
  BY <1>3 DEF UnregisterCommit, MemoryOK, BalancerIsRegistered, CallOK, Calls
<1>4. ASSUME NEW c \in calls, Evict(c)
      PROVE  BalancerIsRegistered'
  <2>1. c.w \in Workers /\ c.at \in Servers
    BY DEF CallOK, Calls
  <2>2. \A s \in Servers, w \in Workers :
           balancer'[s][w] = IF s = c.at /\ w = c.w THEN NoDevice ELSE balancer[s][w]
    BY <1>4, <2>1 DEF Evict, MemoryOK
  <2>3. \A s \in Servers, w \in Workers :
           ~ (s = c.at /\ w = c.w) => registry'[s][w] = registry[s][w]
    BY <1>4, <2>1 DEF Evict, MemoryOK
  <2>. QED
    BY <2>2, <2>3 DEF BalancerIsRegistered
<1>5. ASSUME NEW s \in Servers, RestartServer(s)
      PROVE  BalancerIsRegistered'
  BY <1>5 DEF RestartServer, MemoryOK, BalancerIsRegistered
<1>6. CASE Next
  BY <1>1, <1>2, <1>3, <1>4, <1>5, <1>6
     DEF Next, Handle, Start, Stop, Crash, Expire, Send, Fails, AllocateRead,
         AllocateAdopt, AllocateIncr, AllocateBind, RegisterBegin, RegisterStore, UnregisterStore,
         Beat, BeatAdmitted, BeatRefused, ClaimRead, ClaimName, ClaimHost
<1>. QED
  BY <1>1, <1>6 DEF vars, memory

(* A server's balancer offers only workers its registry knows, online and on that
   device: no order of registrations, heartbeats, evictions, good-byes, crashes and
   restarts leaves an entry behind. *)
THEOREM BalancerCorrect == Spec => []BalancerIsRegistered
<1>1. Init => BalancerIsRegistered
  BY DEF Init, BalancerIsRegistered
<1>2. Spec => [](IInv /\ BalancerIsRegistered)
  BY <1>1, IInvInit, IInvStep, BalancerStep, PTL DEF Spec
<1>. QED
  BY <1>2, PTL

-----------------------------------------------------------------------------
(* Node numbers.  A number is held for a host by the table, by a process or by a
   call on its way; only the counter makes new holders of a number that nobody
   held, so the holders of one number are of one host. *)

Holds(h, n) == \/ hosts[h] = n
               \/ \E w \in Workers : HostOf[w] = h /\ worker[w].node = n
               \/ \E c \in calls : HostOf[c.w] = h /\ c.node = n
Earned(h, n) == Holds(h, n) /\ ~ GivenTo(n, h)

Minted == \A n \in Automatic, h \in Hosts :
             Earned(h, n) => /\ n <= nodeSeq
                             /\ \A g \in Hosts : Earned(g, n) => g = h

LEMMA NoNodeNotAutomatic == NoNode \notin Automatic
BY RegistryAssumption DEF Nodes, Allocated

\* What a host was given stays given.
LEMMA GivenLasts ==
  ASSUME IInv, [Next]_vars, NEW n, NEW h, GivenTo(n, h)
  PROVE  GivenTo(n, h)'
<1>1. ASSUME NEW c \in Claims, claim[c] = "done"
      PROVE  claim'[c] = "done"
  <2>1. claim \in [Claims -> {"new", "name", "host", "done", "refused"}]
    BY DEF IInv, TypeOK, RestOK
  <2>2. ASSUME NEW d \in Claims, ClaimRead(d) \/ ClaimName(d) \/ ClaimHost(d)
        PROVE  claim'[c] = "done"
    BY <1>1, <2>1, <2>2 DEF ClaimRead, ClaimName, ClaimHost
  <2>3. ASSUME NEW w \in Workers,
               \/ Start(w) \/ Stop(w) \/ Crash(w) \/ Expire(w)
               \/ \E kind \in Kinds \ {"evict"} : Send(w, kind)
        PROVE  UNCHANGED claim
    BY <2>3 DEF Start, Stop, Crash, Expire, Send
  <2>4. ASSUME NEW d \in calls, Handle(d) \/ Fails(d)
        PROVE  UNCHANGED claim
    BY <2>4 DEF Handle, Fails, AllocateRead, AllocateAdopt, AllocateIncr,
                AllocateBind, RegisterBegin, RegisterStore, RegisterCommit,
                UnregisterStore, UnregisterCommit, Beat, BeatAdmitted, BeatRefused,
                Evict
  <2>5. ASSUME NEW s \in Servers, RestartServer(s)
        PROVE  UNCHANGED claim
    BY <2>5 DEF RestartServer
  <2>6. UNCHANGED vars => UNCHANGED claim
    BY DEF vars
  <2>. QED
    BY <1>1, <2>2, <2>3, <2>4, <2>5, <2>6 DEF Next
<1>. QED
  BY <1>1 DEF GivenTo

\* A step that leaves the counter alone and makes no new holder but of an id
\* that was given to its host.
LEMMA NoNewHolder ==
  ASSUME IInv, [Next]_vars, Minted, UNCHANGED nodeSeq,
         \A n \in Automatic, h \in Hosts :
            hosts'[h] = n => Holds(h, n) \/ GivenTo(n, h)',
         \A n \in Automatic, w \in Workers :
            worker'[w].node = n => Holds(HostOf[w], n) \/ GivenTo(n, HostOf[w])',
         \A n \in Automatic : \A c \in calls' :
            c.node = n => Holds(HostOf[c.w], n) \/ GivenTo(n, HostOf[c.w])'
  PROVE  Minted'
<1>1. ASSUME NEW n \in Automatic, NEW h \in Hosts, Earned(h, n)'
      PROVE  Earned(h, n)
  <2>1. Holds(h, n)' /\ ~ GivenTo(n, h)'
    BY <1>1 DEF Earned
  <2>2. ~ GivenTo(n, h)
    BY <2>1, GivenLasts
  <2>3. CASE hosts'[h] = n
    BY <2>1, <2>2, <2>3 DEF Earned
  <2>4. CASE \E w \in Workers : HostOf[w] = h /\ worker'[w].node = n
    BY <2>1, <2>2, <2>4 DEF Earned
  <2>5. CASE \E c \in calls' : HostOf[c.w] = h /\ c.node = n
    BY <2>1, <2>2, <2>5 DEF Earned
  <2>. QED
    BY <2>1, <2>3, <2>4, <2>5 DEF Holds
<1>2. SUFFICES ASSUME NEW n \in Automatic, NEW h \in Hosts, Earned(h, n)'
               PROVE  n <= nodeSeq' /\ \A g \in Hosts : Earned(g, n)' => g = h
  BY DEF Minted
<1>3. n <= nodeSeq /\ \A g \in Hosts : Earned(g, n) => g = h
  BY <1>1, <1>2 DEF Minted
<1>. QED
  BY <1>1, <1>3

\* The new number is earned by nobody, and then by the host of the call.
LEMMA MintedIncr ==
  ASSUME IInv, [Next]_vars, Minted, NEW c \in calls, AllocateIncr(c)
  PROVE  Minted'
<1> USE RegistryAssumption DEF IInv, TypeOK
<1> DEFINE m == [c EXCEPT !.pc = "bind", !.node = nodeSeq']
<1>1. c \in Calls /\ HostOf[c.w] \in Hosts
  BY DEF CallOK, Calls
<1>2. m.w = c.w /\ m.node = nodeSeq'
  BY <1>1 DEF Calls
<1>3. /\ nodeSeq' = nodeSeq + 1 /\ nodeSeq \in Nat
      /\ UNCHANGED <<hosts, worker>>
      /\ calls' = (calls \ {c}) \cup {m}
  BY DEF AllocateIncr, Brings, RedisOK
<1> HIDE DEF m
<1>4. ASSUME NEW n \in Automatic, NEW h \in Hosts, Earned(h, n)'
      PROVE  Earned(h, n) \/ (n = nodeSeq' /\ h = HostOf[c.w])
  <2>1. Holds(h, n)' /\ ~ GivenTo(n, h)
    BY <1>4, GivenLasts DEF Earned
  <2>2. Holds(h, n) \/ (n = nodeSeq' /\ h = HostOf[c.w])
    BY <1>2, <1>3, <2>1 DEF Holds
  <2>. QED
    BY <2>1, <2>2 DEF Earned
<1>5. SUFFICES ASSUME NEW n \in Automatic, NEW h \in Hosts, Earned(h, n)'
               PROVE  n <= nodeSeq' /\ \A g \in Hosts : Earned(g, n)' => g = h
  BY DEF Minted
<1>6. n \in Nat
  BY DEF Automatic
<1>7. CASE n = nodeSeq'
  <2>1. \A g \in Hosts : ~ Earned(g, n)
    BY <1>3, <1>7 DEF Minted
  <2>2. \A g \in Hosts : Earned(g, n)' => g = HostOf[c.w]
    BY <1>4, <2>1
  <2>. QED
    BY <1>3, <1>5, <1>6, <1>7, <2>2
<1>8. CASE n # nodeSeq'
  <2>1. Earned(h, n) /\ \A g \in Hosts : Earned(g, n)' => Earned(g, n)
    BY <1>4, <1>5, <1>8
  <2>2. n <= nodeSeq /\ \A g \in Hosts : Earned(g, n) => g = h
    BY <2>1 DEF Minted
  <2>. QED
    BY <1>3, <1>6, <2>1, <2>2
<1>. QED
  BY <1>7, <1>8

\* A step that only lets go of holders: calls keep their node and their worker,
\* and workers keep their node, or have none, the name of their host or the id
\* they are configured with.
LEMMA MintedRest ==
  ASSUME IInv, [Next]_vars, Minted, UNCHANGED <<nodeSeq, hosts>>,
         \A w \in Workers :
            worker'[w].node \in {worker[w].node, NoNode, HostOf[w], Configured[w]},
         \A d \in calls' :
            \/ \E c \in calls : d.w = c.w /\ d.node = c.node
            \/ d.w \in Workers /\ d.node = worker[d.w].node
  PROVE  Minted'
<1>1. \A n \in Automatic, h \in Hosts : hosts'[h] = n => Holds(h, n)
  BY DEF Holds
<1>2. ASSUME NEW n \in Automatic, NEW w \in Workers, worker'[w].node = n
      PROVE  Holds(HostOf[w], n) \/ GivenTo(n, HostOf[w])'
  <2>1. CASE n = worker[w].node
    BY <2>1 DEF Holds
  <2>2. CASE n = HostOf[w] \/ n = Configured[w]
    BY <2>2 DEF GivenTo
  <2>. QED
    BY <1>2, <2>1, <2>2, NoNodeNotAutomatic
<1>3. \A n \in Automatic : \A c \in calls' : c.node = n => Holds(HostOf[c.w], n)
  BY DEF Holds
<1>. QED
  BY <1>1, <1>2, <1>3, NoNewHolder

\* The calls that stay, go on or are silenced keep their worker and their node.
Kept == \A d \in calls' : \E c \in calls : d.w = c.w /\ d.node = c.node

LEMMA KeptCalls ==
  ASSUME CallOK
  PROVE  /\ \A cs \in SUBSET calls : calls' = cs => Kept
         /\ \A cs \in SUBSET calls, w \in Workers : calls' = Silenced(cs, w) => Kept
         /\ \A c \in calls, p \in Stages : Moves(c, p) => Kept
<1>1. \A c \in calls, p \in Stages :
        [c EXCEPT !.pc = p].w = c.w /\ [c EXCEPT !.pc = p].node = c.node
  BY MovedCall DEF CallOK
<1>2. \A c \in calls :
        [c EXCEPT !.heard = FALSE].w = c.w /\ [c EXCEPT !.heard = FALSE].node = c.node
  BY HushedCall DEF CallOK
<1>3. ASSUME NEW cs \in SUBSET calls, NEW w \in Workers, calls' = Silenced(cs, w)
      PROVE  Kept
  <2> DEFINE hush(c) == IF c.w = w THEN [c EXCEPT !.heard = FALSE] ELSE c
  <2>1. calls' = {hush(c) : c \in cs}
    BY <1>3 DEF Silenced
  <2>2. \A c \in cs : hush(c).w = c.w /\ hush(c).node = c.node
    BY <1>2
  <2> HIDE DEF hush
  <2>. QED
    BY <2>1, <2>2 DEF Kept
<1>4. ASSUME NEW c \in calls, NEW p \in Stages, Moves(c, p)
      PROVE  Kept
  <2> DEFINE m == [c EXCEPT !.pc = p]
  <2>1. calls' = (calls \ {c}) \cup {m} /\ m.w = c.w /\ m.node = c.node
    BY <1>1, <1>4 DEF Moves
  <2> HIDE DEF m
  <2>. QED
    BY <2>1 DEF Kept
<1>. QED
  BY <1>3, <1>4 DEF Kept

LEMMA MintedWorker ==
  ASSUME IInv, [Next]_vars, Minted, NEW w \in Workers,
         \/ Start(w) \/ Stop(w) \/ Crash(w) \/ Expire(w)
         \/ \E kind \in Kinds \ {"evict"} : Send(w, kind)
  PROVE  Minted'
<1> USE DEF IInv, TypeOK
<1>1. CASE Start(w)
  <2>1. UNCHANGED <<nodeSeq, hosts, calls>>
    BY <1>1 DEF Start
  <2>2. \A v \in Workers : worker'[v].node \in {worker[v].node, Configured[v]}
    BY <1>1 DEF Start, WorkerOK
  <2>. QED
    BY <2>1, <2>2, MintedRest
<1>2. CASE Stop(w)
  <2>1. UNCHANGED <<nodeSeq, hosts, calls>>
    BY <1>2 DEF Stop, redis
  <2>2. \A v \in Workers : worker'[v].node = worker[v].node
    BY <1>2 DEF Stop, To, WorkerOK, States
  <2>. QED
    BY <2>1, <2>2, MintedRest
<1>3. CASE Crash(w)
  <2>1. Kept
    BY <1>3, KeptCalls DEF Crash
  <2>2. \A v \in Workers : worker'[v].node \in {worker[v].node, NoNode}
    BY <1>3 DEF Crash, WorkerOK, Off
  <2>3. UNCHANGED <<nodeSeq, hosts>>
    BY <1>3 DEF Crash, redis
  <2>. QED
    BY <2>1, <2>2, <2>3, MintedRest DEF Kept
<1>4. CASE Expire(w)
  BY <1>4, MintedRest DEF Expire
<1>5. ASSUME NEW kind \in Kinds \ {"evict"}, Send(w, kind)
      PROVE  Minted'
  <2>1. PICK s \in Servers : calls' = calls \cup {Call(w, kind, s, TRUE)}
    BY <1>5 DEF Send
  <2>2. Call(w, kind, s, TRUE).w = w /\ Call(w, kind, s, TRUE).node = worker[w].node
    BY DEF Call
  <2>3. UNCHANGED <<nodeSeq, hosts, worker>>
    BY <1>5 DEF Send, redis
  <2>. QED
    BY <2>1, <2>2, <2>3, MintedRest
<1>. QED
  BY <1>1, <1>2, <1>3, <1>4, <1>5

LEMMA MintedFails ==
  ASSUME IInv, [Next]_vars, Minted, NEW c \in calls, Fails(c)
  PROVE  Minted'
<1> USE DEF IInv, TypeOK
<1> DEFINE m == [c EXCEPT !.heard = FALSE]
           rest == (calls \ {c}) \cup IF c.pc = "broken" THEN {} ELSE {m}
<1>1. c \in Calls /\ c.w \in Workers /\ c.kind \in Kinds
  BY DEF CallOK, Calls
<1>2. PICK x \in AfterFailure(worker[c.w], c.w, c.kind) :
        /\ worker' = [worker EXCEPT ![c.w] = x]
        /\ calls' = IF x = Off THEN Silenced(rest, c.w) ELSE rest
  BY DEF Fails
<1>3. m \in Calls /\ m.w = c.w /\ m.node = c.node
  BY <1>1, HushedCall
<1> HIDE DEF m
<1>4. \A d \in rest : d \in Calls /\ \E e \in calls : d.w = e.w /\ d.node = e.node
  BY <1>3 DEF CallOK
<1> HIDE DEF rest
<1>5. \A d \in calls' : \E e \in rest : d.w = e.w /\ d.node = e.node
  <2>1. \A d \in rest :
          [d EXCEPT !.heard = FALSE].w = d.w /\ [d EXCEPT !.heard = FALSE].node = d.node
    BY <1>4, HushedCall
  <2>. QED
    BY <1>2, <2>1 DEF Silenced
<1>6. Kept
  BY <1>4, <1>5 DEF Kept
<1>7. x.node \in {worker[c.w].node, HostOf[c.w], NoNode}
  <2>1. worker[c.w] \in States
    BY <1>1 DEF WorkerOK
  <2>2. ASSUME NEW p, NEW n
        PROVE  /\ [worker[c.w] EXCEPT !.pc = p].node = worker[c.w].node
               /\ [worker[c.w] EXCEPT !.pc = p, !.node = n].node = n
    BY <2>1 DEF States
  <2>3. Off.node = NoNode
    BY DEF Off
  <2>4. CASE c.kind = "allocate"
    <3>1. x = [worker[c.w] EXCEPT !.pc = "register", !.node = HostOf[c.w]]
      BY <1>2, <2>4 DEF AfterFailure
    <3>. QED
      BY <2>2, <3>1
  <2>5. CASE c.kind = "register"
    <3>1. x \in {worker[c.w], [worker[c.w] EXCEPT !.pc = "unregister"]}
      BY <1>2, <2>5 DEF AfterFailure
    <3>2. [worker[c.w] EXCEPT !.pc = "unregister"].node = worker[c.w].node
      BY <2>2
    <3>. QED
      BY <3>1, <3>2
  <2>6. CASE c.kind \in {"unregister", "evict"}
    <3>1. x = Off
      BY <1>2, <2>6 DEF AfterFailure
    <3>. QED
      BY <2>3, <3>1
  <2>7. CASE c.kind = "beat"
    <3>1. x = IF worker[c.w].pc = "up" THEN [worker[c.w] EXCEPT !.pc = "mute"]
                                       ELSE worker[c.w]
      BY <1>2, <2>7 DEF AfterFailure
    <3>2. [worker[c.w] EXCEPT !.pc = "mute"].node = worker[c.w].node
      BY <2>2
    <3>. QED
      BY <3>1, <3>2
  <2>. QED
    BY <1>1, <2>4, <2>5, <2>6, <2>7 DEF Kinds
<1>8. \A w \in Workers : worker'[w].node \in {worker[w].node, HostOf[w], NoNode}
  BY <1>1, <1>2, <1>7 DEF WorkerOK
<1>9. UNCHANGED <<nodeSeq, hosts>>
  BY DEF Fails, redis
<1>. QED
  BY <1>6, <1>8, <1>9, MintedRest DEF Kept

LEMMA MintedHandle ==
  ASSUME IInv, [Next]_vars, Minted, NEW c \in calls, Handle(c)
  PROVE  Minted'
<1> USE DEF IInv, TypeOK
<1>1. c \in Calls /\ c.w \in Workers /\ HostOf[c.w] \in Hosts
  BY RegistryAssumption DEF CallOK, Calls
<1>2. worker[c.w] \in States
  BY <1>1 DEF WorkerOK
<1>3. ASSUME UNCHANGED <<nodeSeq, hosts, worker>>, Kept
      PROVE  Minted'
  BY <1>3, MintedRest DEF Kept
<1>4. ASSUME NEW p \in Stages, Moves(c, p)
      PROVE  Kept
  BY <1>4, KeptCalls
\* A call is answered, and its worker keeps its node or has none.
<1>5. ASSUME UNCHANGED <<nodeSeq, hosts>>, Kept, NEW x,
             x.node \in {worker[c.w].node, NoNode},
             worker' = worker \/ worker' = [worker EXCEPT ![c.w] = x]
      PROVE  Minted'
  <2>1. \A w \in Workers : worker'[w].node \in {worker[w].node, NoNode}
    BY <1>1, <1>5 DEF WorkerOK
  <2>. QED
    BY <1>5, <2>1, MintedRest DEF Kept
<1>6. ASSUME NEW x, Answers(c, x)
      PROVE  Kept /\ (worker' = worker \/ worker' = [worker EXCEPT ![c.w] = x])
  BY <1>6, KeptCalls DEF Answers
<1>7. ASSUME Dismisses(c)
      PROVE  Kept /\ (worker' = worker \/ worker' = [worker EXCEPT ![c.w] = Off])
  <2>1. \/ calls' = Silenced(calls \ {c}, c.w)
        \/ calls' = calls \ {c}
    BY <1>7 DEF Dismisses
  <2>2. Kept
    BY <1>1, <2>1, KeptCalls
  <2>. QED
    BY <1>7, <2>2 DEF Dismisses
\* The worker of a call gets a node that its host holds.
<1>8. ASSUME NEW n, UNCHANGED nodeSeq,
             n \in Automatic => Holds(HostOf[c.w], n),
             \A h \in Hosts : hosts'[h] = hosts[h] \/ (h = HostOf[c.w] /\ hosts'[h] = n),
             Allots(c, n)
      PROVE  Minted'
  <2> DEFINE x == [worker[c.w] EXCEPT !.pc = "register", !.node = n]
  <2>1. x.node = n
    BY <1>2 DEF States
  <2>2. Kept /\ (worker' = worker \/ worker' = [worker EXCEPT ![c.w] = x])
    BY <1>6, <1>8 DEF Allots
  <2> HIDE DEF x
  <2>3. \A w \in Workers : worker'[w].node = worker[w].node
                           \/ (w = c.w /\ worker'[w].node = n)
    BY <1>1, <2>1, <2>2 DEF WorkerOK
  <2>4. \A m \in Automatic, h \in Hosts : hosts'[h] = m => Holds(h, m)
    BY <1>8 DEF Holds
  <2>5. \A m \in Automatic, w \in Workers : worker'[w].node = m => Holds(HostOf[w], m)
    BY <1>8, <2>3 DEF Holds
  <2>6. \A m \in Automatic : \A d \in calls' : d.node = m => Holds(HostOf[d.w], m)
    BY <2>2 DEF Kept, Holds
  <2>. QED
    BY <1>8, <2>4, <2>5, <2>6, NoNewHolder
<1>9. CASE AllocateRead(c)
  <2> DEFINE h == HostOf[c.w]
  <2>1. UNCHANGED <<nodeSeq, hosts>>
    BY <1>9 DEF AllocateRead, redis
  <2>2. CASE hosts[h] # NoNode
    <3>1. Holds(h, hosts[h]) /\ Allots(c, hosts[h])
      BY <1>9, <2>2 DEF AllocateRead, Holds
    <3>. QED
      BY <1>8, <2>1, <3>1
  <2>3. CASE hosts[h] = NoNode /\ LegacyHosts[h] # NoNode
    <3>1. Brings(c, "adopt", LegacyHosts[h]) /\ UNCHANGED worker
      BY <1>9, <2>3 DEF AllocateRead
    <3> DEFINE m == [c EXCEPT !.pc = "adopt", !.node = LegacyHosts[h]]
    <3>2. m.w = c.w /\ m.node = LegacyHosts[h] /\ calls' = (calls \ {c}) \cup {m}
      BY <1>1, <3>1 DEF Brings, Calls
    <3> HIDE DEF m
    <3>3. \A d \in calls' : d \in calls \/ (d.w = c.w /\ d.node = LegacyHosts[h])
      BY <3>2
    <3>4. \A n \in Automatic : \A d \in calls' :
             d.node = n => Holds(HostOf[d.w], n) \/ GivenTo(n, HostOf[d.w])'
      BY <3>3 DEF Holds, GivenTo
    <3>5. /\ \A n \in Automatic, g \in Hosts : hosts'[g] = n => Holds(g, n)
          /\ \A n \in Automatic, w \in Workers :
                worker'[w].node = n => Holds(HostOf[w], n)
      BY <2>1, <3>1 DEF Holds
    <3>. QED
      BY <2>1, <3>4, <3>5, NoNewHolder
  <2>4. CASE hosts[h] = NoNode /\ LegacyHosts[h] = NoNode
    <3>1. Moves(c, "incr") /\ UNCHANGED worker
      BY <1>9, <2>4 DEF AllocateRead
    <3>. QED
      BY <1>3, <1>4, <2>1, <3>1 DEF Stages
  <2>. QED
    BY <2>2, <2>3, <2>4
<1>10. CASE AllocateAdopt(c) \/ AllocateBind(c)
  <2>1. Holds(HostOf[c.w], c.node)
    BY DEF Holds
  <2>2. /\ UNCHANGED nodeSeq
        /\ \/ hosts' = hosts
           \/ hosts' = [hosts EXCEPT ![HostOf[c.w]] = c.node] /\ Allots(c, c.node)
        /\ \/ Allots(c, c.node)
           \/ Moves(c, "bind") /\ UNCHANGED worker
    BY <1>10 DEF AllocateAdopt, AllocateBind, redis
  <2>3. \A h \in Hosts :
           hosts'[h] = hosts[h] \/ (h = HostOf[c.w] /\ hosts'[h] = c.node)
    BY <1>1, <2>2 DEF RedisOK
  <2>4. CASE Allots(c, c.node)
    BY <1>8, <2>1, <2>2, <2>3, <2>4
  <2>5. CASE ~ Allots(c, c.node)
    BY <1>3, <1>4, <2>2, <2>5 DEF Stages
  <2>. QED
    BY <2>4, <2>5
<1>11. CASE RegisterBegin(c) \/ UnregisterStore(c) \/ BeatAdmitted(c) \/ RegisterStore(c)
  <2>1. PICK p \in {"store", "commit"} :
          Moves(c, p) /\ UNCHANGED <<nodeSeq, hosts, worker>>
    BY <1>11 DEF RegisterBegin, UnregisterStore, BeatAdmitted, RegisterStore, redis
  <2>. QED
    BY <1>3, <1>4, <2>1 DEF Stages
<1>12. CASE RegisterCommit(c)
  <2> DEFINE x == IF c.kind = "register" THEN [worker[c.w] EXCEPT !.pc = "up"]
                                         ELSE worker[c.w]
  <2>1. Answers(c, x) /\ UNCHANGED <<nodeSeq, hosts>>
    BY <1>12 DEF RegisterCommit, redis
  <2>2. x.node = worker[c.w].node
    BY <1>2 DEF States
  <2> HIDE DEF x
  <2>. QED
    BY <1>5, <1>6, <2>1, <2>2
<1>13. CASE UnregisterCommit(c) \/ Evict(c)
  <2>1. Dismisses(c) /\ UNCHANGED <<nodeSeq, hosts>>
    BY <1>13 DEF UnregisterCommit, Evict, redis
  <2>2. Off.node = NoNode
    BY DEF Off
  <2>. QED
    BY <1>5, <1>7, <2>1, <2>2
<1>14. CASE Beat(c)
  <2>1. CASE registry[c.at][c.w] # Unknown
    <3>1. Answers(c, worker[c.w]) /\ UNCHANGED <<nodeSeq, hosts>>
      BY <1>14, <2>1 DEF Beat
    <3>. QED
      BY <1>5, <1>6, <3>1
  <2>2. CASE registry[c.at][c.w] = Unknown
    BY <1>3, <1>4, <1>14, <2>2 DEF Beat, Stages
  <2>. QED
    BY <2>1, <2>2
<1>15. CASE BeatRefused(c)
  <2>1. UNCHANGED <<nodeSeq, hosts>>
    BY <1>15 DEF BeatRefused, redis
  <2>2. \A w \in Workers : worker'[w].node = worker[w].node
    BY <1>15 DEF BeatRefused, WorkerOK, States
  <2>3. \A d \in calls' : \/ \E e \in calls : d.w = e.w /\ d.node = e.node
                          \/ d.w \in Workers /\ d.node = worker[d.w].node
    BY <1>1, <1>15 DEF BeatRefused, Call
  <2>. QED
    BY <2>1, <2>2, <2>3, MintedRest
<1>16. CASE AllocateIncr(c)
  BY <1>16, MintedIncr
<1>. QED
  BY <1>9, <1>10, <1>11, <1>12, <1>13, <1>14, <1>15, <1>16 DEF Handle

LEMMA MintedStep ==
  ASSUME IInv, Minted, [Next]_vars
  PROVE  Minted'
<1> USE DEF IInv, TypeOK
<1>1. ASSUME NEW s \in Servers, RestartServer(s)
      PROVE  Minted'
  <2>1. \A c \in calls : [c EXCEPT !.pc = "broken"].w = c.w
                         /\ [c EXCEPT !.pc = "broken"].node = c.node
    BY MovedCall DEF CallOK, Stages
  <2>2. Kept
    BY <1>1, <2>1 DEF RestartServer, Kept
  <2>. QED
    BY <1>1, <2>2, MintedRest DEF RestartServer, Kept, redis
<1>2. ASSUME NEW c \in Claims, ClaimRead(c) \/ ClaimName(c)
      PROVE  Minted'
  BY <1>2, MintedRest DEF ClaimRead, ClaimName, redis
<1>3. ASSUME NEW c \in Claims, ClaimHost(c)
      PROVE  Minted'
  <2>1. /\ c \in Hosts \X Names /\ c = <<c[1], c[2]>> /\ claim'[c] = "done"
        /\ hosts' = [hosts EXCEPT ![c[1]] = c[2]]
    BY <1>3, RegistryAssumption DEF ClaimHost, RestOK
  <2>2. UNCHANGED <<nodeSeq, worker, calls>>
    BY <1>3 DEF ClaimHost
  <2>3. GivenTo(c[2], c[1])'
    BY <2>1 DEF GivenTo
  <2>4. \A n \in Automatic, h \in Hosts :
           hosts'[h] = n => Holds(h, n) \/ GivenTo(n, h)'
    BY <2>1, <2>3 DEF Holds, RedisOK
  <2>5. /\ \A n \in Automatic, w \in Workers :
              worker'[w].node = n => Holds(HostOf[w], n)
        /\ \A n \in Automatic : \A d \in calls' : d.node = n => Holds(HostOf[d.w], n)
    BY <2>2 DEF Holds
  <2>. QED
    BY <2>2, <2>4, <2>5, NoNewHolder
<1>4. CASE UNCHANGED vars
  BY <1>4 DEF vars, Minted, Earned, Holds, GivenTo
<1>. QED
  BY <1>1, <1>2, <1>3, <1>4, MintedWorker, MintedFails, MintedHandle DEF Next

(* However many servers mint ids at once, and whichever of their answers are late,
   lost or overwritten, the counter never puts two hosts under one automatic id: of
   two hosts that run under one, one was given it by an operator, by the legacy
   tables, by its configuration or by its name. *)
THEOREM NodesCorrect == Spec => []NodesDiffer
<1>1. Init => Minted
  BY NoNodeNotAutomatic DEF Init, Minted, Earned, Holds, Off, GivenTo
<1>2. IInv /\ Minted => NodesDiffer
  <2>1. ASSUME Minted, NEW v \in Workers, NEW w \in Workers,
               worker[v].node = worker[w].node, worker[v].node \in Automatic,
               \A u \in {v, w} : ~ GivenTo(worker[u].node, HostOf[u])
        PROVE  HostOf[v] = HostOf[w]
    <3>1. HostOf[v] \in Hosts /\ HostOf[w] \in Hosts
      BY RegistryAssumption
    <3>2. Earned(HostOf[v], worker[v].node) /\ Earned(HostOf[w], worker[v].node)
      BY <2>1 DEF Earned, Holds
    <3>. QED
      BY <2>1, <3>1, <3>2 DEF Minted
  <2>. QED
    BY <2>1 DEF NodesDiffer
<1>3. Spec => [](IInv /\ Minted)
  BY <1>1, IInvInit, IInvStep, MintedStep, PTL DEF Spec
<1>. QED
  BY <1>2, <1>3, PTL

-----------------------------------------------------------------------------
(* Bindings.  A request that may still bind an id goes on from one that might
   before, or has just found its host without one. *)

Minting(d) == d.kind = "allocate" /\ d.pc \in {"incr", "bind"}
Follows(d) == \E c \in calls : Minting(c) /\ d.w = c.w
Grounded == \A d \in calls' : Minting(d) => Follows(d) \/ hosts[HostOf[d.w]] = NoNode

\* The same call of the same kind, and no nearer to a binding.
Copies(d, c) == d.w = c.w /\ d.kind = c.kind /\ d.pc \in {c.pc} \cup (Stages \ {"incr", "bind"})

LEMMA CopiesGrounded ==
  ASSUME \A d \in calls' : ~ Minting(d) \/ \E c \in calls : Copies(d, c)
  PROVE  Grounded
BY DEF Grounded, Follows, Minting, Copies

LEMMA CopiedCalls ==
  ASSUME CallOK
  PROVE  /\ \A cs \in SUBSET calls : calls' = cs => Grounded
         /\ \A cs \in SUBSET calls, w \in Workers : calls' = Silenced(cs, w) => Grounded
         /\ \A c \in calls, p \in Stages \ {"incr", "bind"} : Moves(c, p) => Grounded
<1>1. \A c \in calls : c \in Calls
  BY DEF CallOK
<1>2. ASSUME NEW cs \in SUBSET calls, calls' = cs
      PROVE  Grounded
  BY <1>2, CopiesGrounded DEF Copies
<1>3. ASSUME NEW cs \in SUBSET calls, NEW w \in Workers, calls' = Silenced(cs, w)
      PROVE  Grounded
  <2> DEFINE hush(c) == IF c.w = w THEN [c EXCEPT !.heard = FALSE] ELSE c
  <2>1. calls' = {hush(c) : c \in cs}
    BY <1>3 DEF Silenced
  <2>2. \A c \in cs : Copies(hush(c), c)
    BY <1>1, HushedCall DEF Copies
  <2> HIDE DEF hush
  <2>. QED
    BY <2>1, <2>2, CopiesGrounded
<1>4. ASSUME NEW c \in calls, NEW p \in Stages \ {"incr", "bind"}, Moves(c, p)
      PROVE  Grounded
  <2> DEFINE m == [c EXCEPT !.pc = p]
  <2>1. calls' = (calls \ {c}) \cup {m}
    BY <1>4 DEF Moves
  <2>2. Copies(m, c)
    BY <1>1, MovedCall DEF Copies
  <2> HIDE DEF m
  <2>3. \A d \in calls : Copies(d, d)
    BY DEF Copies
  <2>. QED
    BY <2>1, <2>2, <2>3, CopiesGrounded
<1>. QED
  BY <1>2, <1>3, <1>4

\* A new call stands at its beginning.
LEMMA NewCall ==
  ASSUME NEW cs \in SUBSET calls, NEW w, NEW kind, NEW s, NEW heard,
         calls' = cs \cup {Call(w, kind, s, heard)}
  PROVE  Grounded
<1>1. ~ Minting(Call(w, kind, s, heard))
  BY DEF Minting, Call
<1>. QED
  BY <1>1, CopiesGrounded DEF Copies

LEMMA GroundedFails ==
  ASSUME IInv, NEW c \in calls, Fails(c)
  PROVE  Grounded
<1> DEFINE m == [c EXCEPT !.heard = FALSE]
           rest == (calls \ {c}) \cup IF c.pc = "broken" THEN {} ELSE {m}
<1>1. \A d \in calls : d \in Calls /\ Copies(d, d)
  BY DEF IInv, TypeOK, CallOK, Copies
<1>2. PICK x \in AfterFailure(worker[c.w], c.w, c.kind) :
        calls' = IF x = Off THEN Silenced(rest, c.w) ELSE rest
  BY DEF Fails
<1>3. m \in Calls /\ Copies(m, c)
  BY <1>1, HushedCall DEF Copies
<1> HIDE DEF m
<1>4. \A d \in rest : d \in Calls /\ \E e \in calls : Copies(d, e)
  BY <1>1, <1>3
<1> HIDE DEF rest
<1>5. \A d \in rest : Copies([d EXCEPT !.heard = FALSE], d) /\ Copies(d, d)
  BY <1>4, HushedCall DEF Copies
<1>6. \A d \in calls' : \E e \in rest : Copies(d, e)
  BY <1>2, <1>5 DEF Silenced
<1>7. \A d, e, f : Copies(d, e) /\ Copies(e, f) => Copies(d, f)
  BY DEF Copies
<1>. QED
  BY <1>4, <1>6, <1>7, CopiesGrounded

LEMMA GroundedHandle ==
  ASSUME IInv, NEW c \in calls, Handle(c)
  PROVE  Grounded
<1>1. CallOK /\ c \in Calls /\ c.w \in Workers
  BY DEF IInv, TypeOK, CallOK, Calls
<1>2. \A d \in calls : Copies(d, d)
  BY DEF Copies
<1>3. ASSUME NEW x, Answers(c, x)
      PROVE  Grounded
  BY <1>1, <1>3, CopiedCalls DEF Answers
<1>4. CASE AllocateRead(c) \/ AllocateAdopt(c)
  <2>1. \/ \E n : Allots(c, n)
        \/ /\ hosts[HostOf[c.w]] = NoNode
           /\ \E n, p : Brings(c, p, n) \/ Moves(c, p)
    <3>1. CASE AllocateRead(c)
      <4>1. \/ Allots(c, hosts[HostOf[c.w]])
            \/ /\ hosts[HostOf[c.w]] = NoNode
               /\ \/ Brings(c, "adopt", LegacyHosts[HostOf[c.w]])
                  \/ Moves(c, "incr")
        BY <3>1 DEF AllocateRead
      <4>. QED
        BY <4>1
    <3>2. CASE AllocateAdopt(c)
      BY <3>2 DEF AllocateAdopt
    <3>. QED
      BY <1>4, <3>1, <3>2
  <2>2. ASSUME NEW n, Allots(c, n)
        PROVE  Grounded
    BY <1>3, <2>2 DEF Allots
  <2>3. ASSUME hosts[HostOf[c.w]] = NoNode, NEW p, NEW n,
               Brings(c, p, n) \/ Moves(c, p)
        PROVE  Grounded
    <3>1. /\ [c EXCEPT !.pc = p].w = c.w
          /\ [c EXCEPT !.pc = p, !.node = n].w = c.w
      BY <1>1 DEF Calls
    <3>2. PICK m : calls' = (calls \ {c}) \cup {m} /\ m.w = c.w
      BY <2>3, <3>1 DEF Brings, Moves
    <3>. QED
      BY <2>3, <3>2 DEF Grounded, Follows
  <2>. QED
    BY <2>1, <2>2, <2>3
<1>5. CASE AllocateIncr(c)
  <2> DEFINE m == [c EXCEPT !.pc = "bind", !.node = nodeSeq']
  <2>1. calls' = (calls \ {c}) \cup {m} /\ Minting(c)
    BY <1>5 DEF AllocateIncr, Brings, Minting
  <2>2. m.w = c.w
    BY <1>1 DEF Calls
  <2> HIDE DEF m
  <2>. QED
    BY <2>1, <2>2 DEF Grounded, Follows
<1>6. CASE AllocateBind(c) \/ RegisterCommit(c)
  BY <1>3, <1>6 DEF AllocateBind, Allots, RegisterCommit
<1>7. CASE RegisterBegin(c) \/ UnregisterStore(c) \/ BeatAdmitted(c) \/ RegisterStore(c)
  <2>1. Moves(c, "store") \/ Moves(c, "commit")
    BY <1>7 DEF RegisterBegin, UnregisterStore, BeatAdmitted, RegisterStore
  <2>. QED
    BY <1>1, <2>1, CopiedCalls DEF Stages
<1>8. CASE UnregisterCommit(c) \/ Evict(c)
  <2>1. Dismisses(c)
    BY <1>8 DEF UnregisterCommit, Evict
  <2>. QED
    BY <1>1, <2>1, CopiedCalls DEF Dismisses
<1>9. CASE Beat(c)
  <2>1. CASE registry[c.at][c.w] # Unknown
    BY <1>3, <1>9, <2>1 DEF Beat
  <2>2. CASE registry[c.at][c.w] = Unknown
    BY <1>1, <1>9, <2>2, CopiedCalls DEF Beat, Stages
  <2>. QED
    BY <2>1, <2>2
<1>10. CASE BeatRefused(c)
  <2>1. CASE c.heard
    <3>1. PICK s \in Servers : calls' = (calls \ {c}) \cup
             {Call(c.w, "evict", s, worker[c.w].pc = "up")}
      BY <1>10, <2>1 DEF BeatRefused
    <3>. QED
      BY <3>1, NewCall
  <2>2. CASE ~ c.heard
    BY <1>1, <1>10, <2>2, CopiedCalls DEF BeatRefused
  <2>. QED
    BY <2>1, <2>2
<1>. QED
  BY <1>4, <1>5, <1>6, <1>7, <1>8, <1>9, <1>10 DEF Handle

LEMMA GroundedStep == IInv /\ [Next]_vars => Grounded
<1> SUFFICES ASSUME IInv, [Next]_vars
             PROVE  Grounded
  OBVIOUS
<1>1. CallOK
  BY DEF IInv, TypeOK
<1>2. CASE UNCHANGED calls
  BY <1>1, <1>2, CopiedCalls
<1>3. ASSUME NEW w \in Workers, Start(w) \/ Stop(w) \/ Expire(w)
      PROVE  Grounded
  BY <1>2, <1>3 DEF Start, Stop, Expire
<1>4. ASSUME NEW w \in Workers, Crash(w)
      PROVE  Grounded
  BY <1>1, <1>4, CopiedCalls DEF Crash
<1>5. ASSUME NEW w \in Workers, NEW kind \in Kinds \ {"evict"}, Send(w, kind)
      PROVE  Grounded
  BY <1>5, NewCall DEF Send
<1>6. ASSUME NEW s \in Servers, RestartServer(s)
      PROVE  Grounded
  <2>1. \A c \in calls : [c EXCEPT !.pc = "broken"].pc = "broken"
    BY <1>1 DEF CallOK, Calls
  <2>2. \A d \in calls' : d \in calls \/ d.pc = "broken"
    BY <1>6, <2>1 DEF RestartServer
  <2>. QED
    BY <2>2, CopiesGrounded DEF Copies, Minting
<1>7. ASSUME NEW c \in Claims, ClaimRead(c) \/ ClaimName(c) \/ ClaimHost(c)
      PROVE  Grounded
  BY <1>2, <1>7 DEF ClaimRead, ClaimName, ClaimHost
<1>8. CASE UNCHANGED vars
  BY <1>2, <1>8 DEF vars
<1>. QED
  BY <1>3, <1>4, <1>5, <1>6, <1>7, <1>8, GroundedFails, GroundedHandle DEF Next

\* What BindingsSettle says of one host and of one name.
HostSettles(h) ==
  hosts[h] # NoNode /\ EarlyMints(h) = {} =>
     /\ EarlyMints(h)' = {}
     /\ \/ hosts'[h] = hosts[h]
        \/ \E c \in Claims : c[1] = h /\ claim[c] = "host"
NameSettles(n) ==
  names[n] # NoHost /\ EarlyClaims(n) = {} =>
     names'[n] = names[n] /\ EarlyClaims(n)' = {}

LEMMA HostsSettle ==
  ASSUME IInv, [Next]_vars, NEW h \in Hosts
  PROVE  HostSettles(h)
<1>1. EarlyMints(h) = {} <=> \A c \in calls : Minting(c) => HostOf[c.w] # h
  BY DEF EarlyMints, Minting
<1>2. EarlyMints(h)' = {} <=> \A c \in calls' : Minting(c) => HostOf[c.w] # h
  BY DEF EarlyMints, Minting
<1>3. hosts[h] # NoNode /\ EarlyMints(h) = {} => EarlyMints(h)' = {}
  BY <1>1, <1>2, GroundedStep DEF Grounded, Follows
<1>4. RedisOK
  BY DEF IInv, TypeOK
<1>5. ASSUME NEW c \in calls, AllocateBind(c), EarlyMints(h) = {}
      PROVE  hosts'[h] = hosts[h]
  <2>1. HostOf[c.w] # h
    BY <1>1, <1>5 DEF AllocateBind, Minting
  <2>. QED
    BY <1>4, <1>5, <2>1 DEF AllocateBind, RedisOK
<1>6. ASSUME NEW c \in Claims, ClaimHost(c)
      PROVE  hosts'[h] = hosts[h] \/ (c[1] = h /\ claim[c] = "host")
  BY <1>4, <1>6 DEF ClaimHost, RedisOK
<1>7. ASSUME NEW w \in Workers,
             \/ Start(w) \/ Stop(w) \/ Crash(w) \/ Expire(w)
             \/ \E kind \in Kinds \ {"evict"} : Send(w, kind)
      PROVE  UNCHANGED hosts
  BY <1>7 DEF Start, Stop, Crash, Expire, Send, redis
<1>8. ASSUME NEW c \in calls, Handle(c) \/ Fails(c)
      PROVE  AllocateBind(c) \/ UNCHANGED hosts
  BY <1>8 DEF Handle, Fails, AllocateRead, AllocateAdopt, AllocateIncr, RegisterBegin,
              RegisterStore, RegisterCommit, UnregisterStore, UnregisterCommit, Beat,
              BeatAdmitted, BeatRefused, Evict, redis
<1>9. ASSUME NEW s \in Servers, RestartServer(s)
      PROVE  UNCHANGED hosts
  BY <1>9 DEF RestartServer, redis
<1>10. ASSUME NEW c \in Claims, ClaimRead(c) \/ ClaimName(c)
       PROVE  UNCHANGED hosts
  BY <1>10 DEF ClaimRead, ClaimName, redis
<1>11. UNCHANGED vars => UNCHANGED hosts
  BY DEF vars
<1>12. EarlyMints(h) = {} =>
          hosts'[h] = hosts[h] \/ \E c \in Claims : c[1] = h /\ claim[c] = "host"
  BY <1>5, <1>6, <1>7, <1>8, <1>9, <1>10, <1>11 DEF Next
<1>. QED
  BY <1>3, <1>12 DEF HostSettles

LEMMA NamesSettle ==
  ASSUME IInv, [Next]_vars, NEW n \in Names
  PROVE  NameSettles(n)
<1>1. RedisOK /\ RestOK
  BY DEF IInv, TypeOK
<1>2. ASSUME NEW c \in Claims, ClaimRead(c)
      PROVE  NameSettles(n)
  <2>1. UNCHANGED names
    BY <1>2 DEF ClaimRead, redis
  <2>2. \A d \in Claims : claim'[d] = "name" => claim[d] = "name" \/ names[d[2]] = NoHost
    BY <1>1, <1>2 DEF ClaimRead, RestOK
  <2>. QED
    BY <2>1, <2>2 DEF NameSettles, EarlyClaims
<1>3. ASSUME NEW c \in Claims, ClaimName(c)
      PROVE  NameSettles(n)
  <2>1. EarlyClaims(n) = {} => c[2] # n
    BY <1>3 DEF ClaimName, EarlyClaims
  <2>2. \A d \in Claims : claim'[d] = "name" => claim[d] = "name"
    BY <1>1, <1>3 DEF ClaimName, RestOK
  <2>3. c[2] # n => names'[n] = names[n]
    BY <1>1, <1>3 DEF ClaimName, RedisOK
  <2>. QED
    BY <2>1, <2>2, <2>3 DEF NameSettles, EarlyClaims
<1>4. ASSUME NEW c \in Claims, ClaimHost(c)
      PROVE  NameSettles(n)
  <2>1. \A d \in Claims : claim'[d] = "name" => claim[d] = "name"
    BY <1>1, <1>4 DEF ClaimHost, RestOK
  <2>2. UNCHANGED names
    BY <1>4 DEF ClaimHost
  <2>. QED
    BY <2>1, <2>2 DEF NameSettles, EarlyClaims
<1>5. CASE UNCHANGED <<names, claim>>
  BY <1>5 DEF NameSettles, EarlyClaims
<1>6. ASSUME NEW w \in Workers,
             \/ Start(w) \/ Stop(w) \/ Crash(w) \/ Expire(w)
             \/ \E kind \in Kinds \ {"evict"} : Send(w, kind)
      PROVE  UNCHANGED <<names, claim>>
  BY <1>6 DEF Start, Stop, Crash, Expire, Send, redis
<1>7. ASSUME NEW c \in calls, Handle(c) \/ Fails(c)
      PROVE  UNCHANGED <<names, claim>>
  BY <1>7 DEF Handle, Fails, AllocateRead, AllocateAdopt, AllocateIncr, AllocateBind, RegisterBegin,
              RegisterStore, RegisterCommit, UnregisterStore, UnregisterCommit, Beat,
              BeatAdmitted, BeatRefused, Evict, redis
<1>8. ASSUME NEW s \in Servers, RestartServer(s)
      PROVE  UNCHANGED <<names, claim>>
  BY <1>8 DEF RestartServer, redis
<1>9. CASE UNCHANGED vars
  BY <1>5, <1>9 DEF vars
<1>. QED
  BY <1>2, <1>3, <1>4, <1>5, <1>6, <1>7, <1>8, <1>9 DEF Next

(* However allocations, claims, lost calls and restarts interleave: a host that has
   an id, and no request that began without one, keeps it unless somebody claims a
   name for it, and a name stays with its host. *)
THEOREM BindingsCorrect == Spec => BindingsSettle
<1>1. IInv /\ [Next]_vars =>
        [/\ \A h \in Hosts :
               hosts[h] # NoNode /\ EarlyMints(h) = {} =>
                  /\ EarlyMints(h)' = {}
                  /\ \/ hosts'[h] = hosts[h]
                     \/ \E c \in Claims : c[1] = h /\ claim[c] = "host"
         /\ \A n \in Names :
               names[n] # NoHost /\ EarlyClaims(n) = {} =>
                  names'[n] = names[n] /\ EarlyClaims(n)' = {}]_vars
  BY HostsSettle, NamesSettle DEF HostSettles, NameSettles
<1>2. Spec => []IInv
  BY IInvInit, IInvStep, PTL DEF Spec
<1>. QED
  BY <1>1, <1>2, PTL DEF Spec, BindingsSettle
=============================================================================
