--------------------------- MODULE WorkerRegistry ---------------------------
(***************************************************************************)
(* How workers make themselves known: the node and worker endpoints of     *)
(* server/api/server.py, the registry and the load balancer of             *)
(* server/task_manager.py, and the life of a worker around them,           *)
(* worker/gpu_worker.py.                                                   *)
(*                                                                         *)
(*   Servers  uvicorn worker processes; each has a registry and a balancer *)
(*   Workers  worker ids; one process of an id runs at a time              *)
(*   Claims   POST /node/allocate with a node_name, by an operator         *)
(*                                                                         *)
(* A worker's HTTP call reaches one server.  The handler's code between    *)
(* two Redis commands is a step, and it runs on when its client is gone.   *)
(***************************************************************************)
EXTENDS Naturals, FiniteSets

CONSTANTS Servers, Workers, Hosts, Devices, Names,
          HostOf,       \* the host a worker runs on
          Configured,   \* settings.node_id of a worker, or NoNode
          Claims,       \* the <<host, name>> operators ask for
          LegacyHosts,  \* nodes_by_host under redis_key_prefix_legacy, and
          LegacyNames,  \* node_names: read, and never written
          NoNode, NoHost, NoDevice, Unknown,
          MaxStarts,    \* bound on the starts of worker processes
          MaxFaults     \* bound on dead workers, dead servers and lost calls

\* Numbers stand for the automatic ids node-1, node-2, ...  An operator may give
\* any name, such as node-3, which is then the number 3.  A worker without a node
\* id uses the name of its host.
Automatic == Nat \ {0}
Allocated == Automatic \cup Names
Nodes == Allocated \cup Hosts

\* What a registry keeps of a worker; "online" is the status of the entry.
Entries == [device : Devices, node : Nodes, online : BOOLEAN]

ASSUME RegistryAssumption ==
  /\ HostOf \in [Workers -> Hosts]
  /\ Configured \in [Workers -> Names \cup {NoNode}]
  /\ Claims \subseteq Hosts \X Names
  /\ LegacyHosts \in [Hosts -> Allocated \cup {NoNode}]
  /\ LegacyNames \in [Names -> Hosts \cup {NoHost}]
  /\ NoNode \notin Nodes /\ NoHost \notin Hosts /\ NoDevice \notin Devices
  /\ Unknown \notin Entries
  /\ MaxStarts \in Nat /\ MaxFaults \in Nat

VARIABLES
  nodeSeq,    \* Redis: the counter node_seq
  hosts,      \* Redis: nodes_by_host
  names,      \* Redis: node_names
  record,     \* Redis: the device in the hash of each worker
  registry,   \* worker_registry of each server
  balancer,   \* available_workers of each server
  worker,     \* the process of each worker id
  calls,      \* the HTTP calls in progress
  claim,      \* how far each claim has got
  starts, faults

redis == <<nodeSeq, hosts, names, record>>
memory == <<registry, balancer>>
bounds == <<starts, faults>>
vars == <<nodeSeq, hosts, names, record, registry, balancer, worker, calls,
          claim, starts, faults>>

Kinds == {"allocate", "register", "unregister", "beat", "evict"}
\* "heard": the worker still waits for the answer.
Stages == {"begin", "adopt", "incr", "bind", "check", "store", "commit", "broken"}
Calls == [kind : Kinds, w : Workers, at : Servers, heard : BOOLEAN, pc : Stages,
          device : Devices, node : Nodes \cup {NoNode}]
Off == [pc |-> "off", device |-> NoDevice, node |-> NoNode]

Init == /\ nodeSeq = 0
        /\ hosts = [h \in Hosts |-> NoNode]
        /\ names = [n \in Names |-> NoHost]
        /\ record = [w \in Workers |-> NoDevice]
        /\ registry = [s \in Servers |-> [w \in Workers |-> Unknown]]
        /\ balancer = [s \in Servers |-> [w \in Workers |-> NoDevice]]
        /\ worker = [w \in Workers |-> Off]
        /\ calls = {}
        /\ claim = [c \in Claims |-> "new"]
        /\ starts = 0 /\ faults = 0

-----------------------------------------------------------------------------
(* The worker's side *)

To(w, pc) == worker' = [worker EXCEPT ![w].pc = pc]

\* start(): the first heartbeat is written to Redis before anything else.
Start(w) ==
  /\ worker[w].pc = "off"
  /\ starts < MaxStarts
  /\ starts' = starts + 1
  /\ \E d \in Devices :
        /\ record' = [record EXCEPT ![w] = d]
        /\ worker' = [worker EXCEPT ![w] =
             [pc |-> IF Configured[w] = NoNode THEN "allocate" ELSE "register",
              device |-> d, node |-> Configured[w]]]
  /\ UNCHANGED <<nodeSeq, hosts, names, memory, calls, claim, faults>>

Waiting(w, kind) == \E c \in calls : c.w = w /\ c.kind = kind /\ c.heard

Call(w, kind, s, heard) ==
  [kind |-> kind, w |-> w, at |-> s, heard |-> heard, pc |-> "begin",
   device |-> worker[w].device, node |-> worker[w].node]

\* The node id, the registration and the good-bye; a heartbeat every ten seconds.
Send(w, kind) ==
  /\ worker[w].pc = IF kind = "beat" THEN "up" ELSE kind
  /\ ~ Waiting(w, kind)
  /\ \E s \in Servers : calls' = calls \cup {Call(w, kind, s, TRUE)}
  /\ UNCHANGED <<redis, memory, worker, claim, bounds>>

\* stop(), by a signal or because a loop or the GPU failed.
Stop(w) ==
  /\ worker[w].pc \in {"up", "mute"}
  /\ To(w, "unregister")
  /\ UNCHANGED <<redis, memory, calls, claim, bounds>>

\* Nobody waits for the calls of a process that is gone.
Silenced(cs, w) == {IF c.w = w THEN [c EXCEPT !.heard = FALSE] ELSE c : c \in cs}

\* The process dies.  Its calls are in the network or in a server.
Crash(w) ==
  /\ worker[w].pc # "off"
  /\ faults < MaxFaults /\ faults' = faults + 1
  /\ worker' = [worker EXCEPT ![w] = Off]
  /\ calls' = Silenced(calls, w)
  /\ UNCHANGED <<redis, memory, claim, starts>>

\* The hash of a worker that writes nothing more expires after two minutes.
Expire(w) ==
  /\ worker[w].pc = "off"
  /\ record[w] # NoDevice
  /\ record' = [record EXCEPT ![w] = NoDevice]
  /\ UNCHANGED <<nodeSeq, hosts, names, memory, worker, calls, claim, bounds>>

\* Where a worker goes when the call it waits for raises: no node id is the name
\* of the host, a registration is tried for a minute, a heartbeat that fails ends
\* the heartbeats and nothing else.
AfterFailure(x, w, kind) ==
  CASE kind = "allocate" -> {[x EXCEPT !.pc = "register", !.node = HostOf[w]]}
    [] kind = "register" -> {x, [x EXCEPT !.pc = "unregister"]}
    [] kind \in {"unregister", "evict"} -> {Off}
    [] kind = "beat" -> {IF x.pc = "up" THEN [x EXCEPT !.pc = "mute"] ELSE x}

\* The connection breaks, the answer is late or the server is gone; the call may
\* still be handled.
Fails(c) ==
  /\ c.heard
  /\ LET rest == (calls \ {c}) \cup IF c.pc = "broken" THEN {}
                                     ELSE {[c EXCEPT !.heard = FALSE]}
     IN \E x \in AfterFailure(worker[c.w], c.w, c.kind) :
           /\ worker' = [worker EXCEPT ![c.w] = x]
           /\ calls' = IF x = Off THEN Silenced(rest, c.w) ELSE rest
  /\ IF c.pc = "broken" THEN UNCHANGED faults
                        ELSE faults < MaxFaults /\ faults' = faults + 1
  /\ UNCHANGED <<redis, memory, claim, starts>>

-----------------------------------------------------------------------------
(* The server's side *)

Moves(c, pc) == calls' = (calls \ {c}) \cup {[c EXCEPT !.pc = pc]}

\* Mutant: the answer to a call that was given up counts.
AnswersAnyway(c, x) ==
  /\ calls' = calls \ {c}
  /\ worker' = [worker EXCEPT ![c.w] = x]

\* The answer to c makes x of its worker, if that still waits for it.
Answers(c, x) ==
  /\ calls' = calls \ {c}
  /\ worker' = IF c.heard THEN [worker EXCEPT ![c.w] = x] ELSE worker

\* The answer to the last call of a worker that stops.
Dismisses(c) ==
  /\ calls' = IF c.heard THEN Silenced(calls \ {c}, c.w) ELSE calls \ {c}
  /\ worker' = IF c.heard THEN [worker EXCEPT ![c.w] = Off] ELSE worker

\* Mutant: a node id is minted without a look at what the host has.
AllocateReadNothing(c) ==
  /\ c.kind = "allocate" /\ c.pc = "begin"
  /\ Moves(c, "incr")
  /\ UNCHANGED <<redis, memory, worker, claim, bounds>>

\* The call binds the node to the host of its worker, if it gets that far.
Brings(c, pc, node) ==
  calls' = (calls \ {c}) \cup {[c EXCEPT !.pc = pc, !.node = node]}

\* The worker of the call is told its node.
Allots(c, node) ==
  Answers(c, [worker[c.w] EXCEPT !.pc = "register", !.node = node])

\* allocate_node_id without a node_name: the id the host has, the id it had in
\* the legacy tables, or a new one.
AllocateRead(c) ==
  /\ c.kind = "allocate" /\ c.pc = "begin"
  /\ LET h == HostOf[c.w]
     IN CASE hosts[h] # NoNode -> Allots(c, hosts[h])
          [] hosts[h] = NoNode /\ LegacyHosts[h] # NoNode ->
               Brings(c, "adopt", LegacyHosts[h]) /\ UNCHANGED worker
          [] OTHER -> Moves(c, "incr") /\ UNCHANGED worker
  /\ UNCHANGED <<redis, memory, claim, bounds>>

\* A legacy id is bound if the host still has none; it is the answer either way.
AllocateAdopt(c) ==
  /\ c.kind = "allocate" /\ c.pc = "adopt"
  /\ IF hosts[HostOf[c.w]] # NoNode
     THEN Allots(c, c.node)
     ELSE Moves(c, "bind") /\ UNCHANGED worker
  /\ UNCHANGED <<redis, memory, claim, bounds>>

\* Mutant: the number of nodes so far is the next number.
AllocateIncrCount(c) ==
  /\ c.kind = "allocate" /\ c.pc = "incr"
  /\ Brings(c, "bind", Cardinality({h \in Hosts : hosts[h] # NoNode}) + 1)
  /\ UNCHANGED <<redis, memory, worker, claim, bounds>>

AllocateIncr(c) ==
  /\ c.kind = "allocate" /\ c.pc = "incr"
  /\ nodeSeq' = nodeSeq + 1
  /\ Brings(c, "bind", nodeSeq')
  /\ UNCHANGED <<hosts, names, record, memory, worker, claim, bounds>>

AllocateBind(c) ==
  /\ c.kind = "allocate" /\ c.pc = "bind"
  /\ hosts' = [hosts EXCEPT ![HostOf[c.w]] = c.node]
  /\ Allots(c, c.node)
  /\ UNCHANGED <<nodeSeq, names, record, memory, claim, bounds>>

\* /worker/register checks nothing.
RegisterBegin(c) ==
  /\ c.kind = "register" /\ c.pc = "begin"
  /\ Moves(c, "store")
  /\ UNCHANGED <<redis, memory, worker, claim, bounds>>

\* register_worker: Redis first, then the memory of this server.
RegisterStore(c) ==
  /\ c.pc = "store"
  /\ record' = [record EXCEPT ![c.w] = c.device]
  /\ Moves(c, "commit")
  /\ UNCHANGED <<nodeSeq, hosts, names, memory, worker, claim, bounds>>

RegisterCommit(c) ==
  /\ c.kind \in {"register", "beat"} /\ c.pc = "commit"
  /\ registry' = [registry EXCEPT ![c.at][c.w] =
                    [device |-> c.device, node |-> c.node, online |-> TRUE]]
  /\ balancer' = [balancer EXCEPT ![c.at][c.w] = c.device]
  /\ Answers(c, IF c.kind = "register" THEN [worker[c.w] EXCEPT !.pc = "up"]
                                       ELSE worker[c.w])
  /\ UNCHANGED <<redis, claim, bounds>>

UnregisterStore(c) ==
  /\ c.kind = "unregister" /\ c.pc = "begin"
  /\ Moves(c, "commit")
  /\ UNCHANGED <<redis, memory, worker, claim, bounds>>

\* Mutant: the balancer keeps the worker.
UnregisterRegistryOnly(c) ==
  /\ c.kind = "unregister" /\ c.pc = "commit"
  /\ registry' = [registry EXCEPT ![c.at][c.w] = Unknown]
  /\ Dismisses(c)
  /\ UNCHANGED <<redis, balancer, claim, bounds>>

UnregisterCommit(c) ==
  /\ c.kind = "unregister" /\ c.pc = "commit"
  /\ registry' = [registry EXCEPT ![c.at][c.w] = Unknown]
  /\ balancer' = [balancer EXCEPT ![c.at][c.w] = NoDevice]
  /\ Dismisses(c)
  /\ UNCHANGED <<redis, claim, bounds>>

\* An accepted heartbeat refreshes the hash in Redis.
Refreshed(c) == IF c.heard /\ worker[c.w].pc \in {"up", "unregister"}
                THEN [record EXCEPT ![c.w] = worker[c.w].device] ELSE record

\* Mutant: a heartbeat is welcome from anyone.
BeatWelcome(c) ==
  /\ c.kind = "beat" /\ c.pc = "begin"
  /\ record' = Refreshed(c)
  /\ Answers(c, worker[c.w])
  /\ UNCHANGED <<nodeSeq, hosts, names, memory, claim, bounds>>

\* A known worker: 200 whatever the device (the refusal for another device is
\* raised inside a try that swallows it).  An unknown one: read its hash.
Beat(c) ==
  /\ c.kind = "beat" /\ c.pc = "begin"
  /\ IF registry[c.at][c.w] # Unknown
     THEN record' = Refreshed(c) /\ Answers(c, worker[c.w])
     ELSE Moves(c, "check") /\ UNCHANGED <<record, worker>>
  /\ UNCHANGED <<nodeSeq, hosts, names, memory, claim, bounds>>

\* The device is in use by another worker of the node, in this server's registry,
\* or is not the one in the hash.
Refuses(c) ==
  \/ \E v \in Workers \ {c.w} : /\ registry[c.at][v] # Unknown
                                /\ registry[c.at][v].device = c.device
                                /\ registry[c.at][v].node = c.node
  \/ record[c.w] \notin {NoDevice, c.device}

BeatAdmitted(c) ==
  /\ c.kind = "beat" /\ c.pc = "check"
  /\ ~ Refuses(c)
  /\ Moves(c, "store")
  /\ UNCHANGED <<redis, memory, worker, claim, bounds>>

\* 409: the worker asks some server to evict it and stops; stop() does not
\* unregister it.
BeatRefused(c) ==
  /\ c.kind = "beat" /\ c.pc = "check"
  /\ Refuses(c)
  /\ IF c.heard
     THEN LET up == worker[c.w].pc = "up"
          IN /\ \E s \in Servers :
                   calls' = (calls \ {c}) \cup {Call(c.w, "evict", s, up)}
             /\ worker' = [worker EXCEPT ![c.w].pc = IF up THEN "evict" ELSE @]
     ELSE calls' = calls \ {c} /\ UNCHANGED worker
  /\ UNCHANGED <<redis, memory, claim, bounds>>

\* evict_from_lb: the registry keeps the worker, as offline.
Evict(c) ==
  /\ c.kind = "evict" /\ c.pc = "begin"
  /\ balancer' = [balancer EXCEPT ![c.at][c.w] = NoDevice]
  /\ registry' = IF registry[c.at][c.w] = Unknown THEN registry
                 ELSE [registry EXCEPT ![c.at][c.w].online = FALSE]
  /\ Dismisses(c)
  /\ UNCHANGED <<redis, claim, bounds>>

Handle(c) ==
  \/ AllocateRead(c) \/ AllocateAdopt(c) \/ AllocateIncr(c)
  \/ AllocateBind(c)
  \/ RegisterBegin(c) \/ RegisterStore(c) \/ RegisterCommit(c)
  \/ UnregisterStore(c) \/ UnregisterCommit(c)
  \/ Beat(c) \/ BeatAdmitted(c) \/ BeatRefused(c) \/ Evict(c)

\* A server process restarts with an empty memory; its clients see the
\* connection break.
RestartServer(s) ==
  /\ faults < MaxFaults /\ faults' = faults + 1
  /\ registry' = [registry EXCEPT ![s] = [w \in Workers |-> Unknown]]
  /\ balancer' = [balancer EXCEPT ![s] = [w \in Workers |-> NoDevice]]
  /\ calls' = {c \in calls : c.at # s}
                \cup {[c EXCEPT !.pc = "broken"] :
                        c \in {d \in calls : d.at = s /\ d.heard}}
  /\ UNCHANGED <<redis, worker, claim, starts>>

-----------------------------------------------------------------------------
(* allocate_node_id with a node_name *)

\* A name the legacy tables keep for this host is bound again; the code looks a
\* second time before it writes, and finds what it did: the others are refused.
ClaimRead(c) ==
  /\ claim[c] = "new"
  /\ claim' = [claim EXCEPT ![c] =
       CASE names[c[2]] = NoHost /\ LegacyNames[c[2]] \in {NoHost, c[1]} -> "name"
         [] names[c[2]] = c[1] -> "done"
         [] OTHER -> "refused"]
  /\ UNCHANGED <<redis, memory, worker, calls, bounds>>

ClaimName(c) ==
  /\ claim[c] = "name"
  /\ names' = [names EXCEPT ![c[2]] = c[1]]
  /\ claim' = [claim EXCEPT ![c] = "host"]
  /\ UNCHANGED <<nodeSeq, hosts, record, memory, worker, calls, bounds>>

ClaimHost(c) ==
  /\ claim[c] = "host"
  /\ hosts' = [hosts EXCEPT ![c[1]] = c[2]]
  /\ claim' = [claim EXCEPT ![c] = "done"]
  /\ UNCHANGED <<nodeSeq, names, record, memory, worker, calls, bounds>>

-----------------------------------------------------------------------------
Next ==
  \/ \E w \in Workers : \/ Start(w) \/ Stop(w) \/ Crash(w) \/ Expire(w)
                        \/ \E kind \in Kinds \ {"evict"} : Send(w, kind)
  \/ \E c \in calls : Handle(c) \/ Fails(c)
  \/ \E s \in Servers : RestartServer(s)
  \/ \E c \in Claims : ClaimRead(c) \/ ClaimName(c) \/ ClaimHost(c)

Spec == Init /\ [][Next]_vars

\* A worker's coroutines run, and a call that is waited for is handled or raises.
Works(w, kinds) ==
  \/ \E kind \in kinds \ {"evict"} : Send(w, kind)
  \/ \E c \in calls : /\ c.w = w /\ c.kind \in kinds /\ c.heard
                      /\ Handle(c) \/ (c.pc = "broken" /\ Fails(c))
FairSpec == Spec /\ \A w \in Workers : /\ WF_vars(Works(w, {"beat"}))
                                       /\ WF_vars(Works(w, Kinds \ {"beat"}))

-----------------------------------------------------------------------------
RedisOK == /\ nodeSeq \in Nat
           /\ hosts \in [Hosts -> Allocated \cup {NoNode}]
           /\ names \in [Names -> Hosts \cup {NoHost}]
           /\ record \in [Workers -> Devices \cup {NoDevice}]

MemoryOK == /\ registry \in [Servers -> [Workers -> Entries \cup {Unknown}]]
            /\ balancer \in [Servers -> [Workers -> Devices \cup {NoDevice}]]

States == [pc : (Kinds \ {"beat"}) \cup {"off", "up", "mute"},
           device : Devices \cup {NoDevice}, node : Nodes \cup {NoNode}]
WorkerOK == worker \in [Workers -> States]

CallOK == /\ calls \subseteq Calls
          /\ \A c, d \in calls :
                c.heard /\ d.heard /\ c.w = d.w /\ c.kind = d.kind => c = d
          /\ \A c \in calls : c.heard => c.kind \in {"beat", worker[c.w].pc}

RestOK == /\ claim \in [Claims -> {"new", "name", "host", "done", "refused"}]
          /\ starts \in 0..MaxStarts /\ faults \in 0..MaxFaults

\* The types; a worker waits for at most one call of a kind, and only for the
\* kind its own state is about.
TypeOK == RedisOK /\ MemoryOK /\ WorkerOK /\ CallOK /\ RestOK

\* A host has or may have an id that the counter did not give it: claimed by an
\* operator, left by the legacy tables, configured, or its own name.
GivenTo(n, h) ==
  \/ \E c \in Claims : c = <<h, n>> /\ claim[c] = "done"
  \/ LegacyHosts[h] = n
  \/ \E w \in Workers : HostOf[w] = h /\ Configured[w] = n
  \/ h = n

\* Whatever servers mint ids at once, the counter never puts two hosts under one
\* automatic id: of two that run under one, one has it from somewhere else.
NodesDiffer ==
  \A v, w \in Workers :
     worker[v].node = worker[w].node /\ worker[v].node \in Automatic =>
        \/ HostOf[v] = HostOf[w]
        \/ \E u \in {v, w} : GivenTo(worker[u].node, HostOf[u])

\* The requests that read their table before it knew the host or the name.
EarlyMints(h) == {c \in calls : /\ c.kind = "allocate" /\ HostOf[c.w] = h
                                /\ c.pc \in {"incr", "bind"}}
EarlyClaims(n) == {c \in Claims : c[2] = n /\ claim[c] = "name"}

\* "stable node_id", "idempotent": requests that race may overwrite each other,
\* but once a host has an id and the requests that began without one are through,
\* only a claim changes it and no more ids are minted for the host; and a name
\* stays with its host.
BindingsSettle ==
  [][/\ \A h \in Hosts :
           hosts[h] # NoNode /\ EarlyMints(h) = {} =>
              /\ EarlyMints(h)' = {}
              /\ \/ hosts'[h] = hosts[h]
                 \/ \E c \in Claims : c[1] = h /\ claim[c] = "host"
     /\ \A n \in Names :
           names[n] # NoHost /\ EarlyClaims(n) = {} =>
              names'[n] = names[n] /\ EarlyClaims(n)' = {}]_vars

\* A server's balancer offers nobody its registry does not know, on that device,
\* however registrations, heartbeats, evictions and good-byes interleave.
BalancerIsRegistered ==
  \A s \in Servers, w \in Workers :
     balancer[s][w] # NoDevice => /\ registry[s][w] # Unknown
                                  /\ registry[s][w].device = balancer[s][w]
                                  /\ registry[s][w].online

\* A worker that beats is known to some server, or will be, or beats no more:
\* heartbeats repair what the restart of a server forgets.
BeatingIsKnown ==
  \A w \in Workers :
     worker[w].pc = "up" ~> \/ \E s \in Servers : registry[s][w] # Unknown
                            \/ worker[w].pc # "up"
=============================================================================
