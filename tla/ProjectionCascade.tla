-------------------------- MODULE ProjectionCascade --------------------------
(***************************************************************************)
(* What ties the projections of nodes and edges together.  A deleted node  *)
(* takes its relationships with it (DETACH DELETE), and each of them owns  *)
(* a vector document; so a deletion marks the node first, which makes the  *)
(* edge save query refuse it as an endpoint, then deletes the incident     *)
(* edges page by page through their own versioned lifecycle, and removes   *)
(* the node last.  Clients and reconcilers do this concurrently, over one  *)
(* another's marks.                                                        *)
(*                                                                         *)
(* ledger, graph, index and net of ProjectionStore are those of the edges; *)
(* the nodes' own documents are in VectorProjection, and so is the halving *)
(* of a failed reconciler batch, which is given up as a whole here.        *)
(***************************************************************************)
EXTENDS ProjectionStore

CONSTANTS
    Nodes,           \* uuids of entity nodes
    Endpoints,       \* edge uuid -> its source and target; a uuid keeps them
    Clients,         \* tasks saving and deleting nodes and edges
    Reconcilers,     \* server replicas' repair loops
    BatchSize,
    MaxGeneration,   \* bound: generations an edge uuid may consume
    MaxOps,          \* bound: operations clients start
    MaxFaults        \* bound: exceptions, timeouts and crashes

Procs == Clients \cup Reconcilers
Node == [ver : Nat, del : BOOLEAN]

ASSUME CascadeAssumption ==
    /\ Endpoints \in [Uuids -> SUBSET Nodes]
    /\ Clients \cap Reconcilers = {}
    /\ BatchSize \in Nat \ {0}
    /\ MaxGeneration \in Nat /\ MaxOps \in Nat /\ MaxFaults \in Nat
    /\ Absent \notin Node

VARIABLES
    counter,   \* node -> last reserved generation
    node,      \* node -> its generation and deletion marker, or Absent
    pc,        \* where each process stands
    doomed,    \* process: node -> generation it deletes the node under, or 0
    docs,      \* process: edge uuid -> document carrying its generation
    batch,     \* process: edge uuids of the chunk being worked on
    ops,       \* operations started by clients
    faults

nodeVars == <<counter, node>>
vars == <<ledger, graph, index, net, counter, node, pc, doomed, docs, batch, ops, faults>>

NoDocuments == [u \in Uuids |-> NoDocument]
NoDoom == [n \in Nodes |-> 0]

Pcs == {"idle", "prepare_nodes", "drain", "finalize_nodes",
        "reserve", "prepare", "bury", "burying", "finalize",
        "send", "sending", "clear", "sweep_edges", "sweep_nodes", "sweep_saves"}

TypeOK ==
    /\ StoreTypeOK
    /\ counter \in [Nodes -> Nat]
    /\ node \in [Nodes -> Node \cup {Absent}]
    /\ pc \in [Procs -> Pcs]
    /\ doomed \in [Procs -> [Nodes -> Nat]]
    /\ docs \in [Procs -> [Uuids -> Document]]
    /\ batch \in [Procs -> SUBSET Uuids]
    /\ ops \in 0..MaxOps
    /\ faults \in 0..MaxFaults

Init ==
    /\ StoreInit
    /\ counter = [n \in Nodes |-> 0]
    /\ node = [n \in Nodes |-> Absent]
    /\ pc = [p \in Procs |-> IF p \in Clients THEN "idle" ELSE "sweep_edges"]
    /\ doomed = [p \in Procs |-> NoDoom]
    /\ docs = [p \in Procs |-> NoDocuments]
    /\ batch = [p \in Procs |-> {}]
    /\ ops = 0
    /\ faults = 0

Goto(p, where) == pc' = [pc EXCEPT ![p] = where]

Marked(n) == node[n] # Absent /\ node[n].del
Incident(n) == {u \in Uuids : Exists(u) /\ n \in Endpoints[u]}

Affordable(S) == \A u \in S : ledger[u] < MaxGeneration
Chunks(S) == {C \in SUBSET S : C # {} /\ Cardinality(C) <= BatchSize}

(* A client starts something.                                              *)
Starts(c) ==
    /\ pc[c] = "idle"
    /\ ops < MaxOps
    /\ ops' = ops + 1

-----------------------------------------------------------------------------
(* Saves.                                                                  *)

(* The graph half of a node save; refused while the node is being deleted. *)
SaveNode(c, n) ==
    /\ Starts(c)
    /\ counter' = [counter EXCEPT ![n] = @ + 1]
    /\ node' = IF Marked(n) THEN node
               ELSE [node EXCEPT ![n] = [ver |-> counter[n] + 1, del |-> FALSE]]
    /\ UNCHANGED <<storeVars, pc, doomed, docs, batch, faults>>

(* The edge save query goes on only if both endpoints exist and neither    *)
(* they nor the relationship are being deleted.                            *)
Takes(u) ==
    /\ \A n \in Endpoints[u] : node[n] # Absent /\ ~node[n].del
    /\ Exists(u) => ~graph[u].del

(* One chunk of a save: the generations are taken in any case; the call    *)
(* raises unless every edge was written.                                   *)
SaveEdges(c) ==
    /\ Starts(c)
    /\ \E C \in Chunks(Uuids) : \E req \in [C -> Request] :
          LET written == {u \in C : Takes(u)}
          IN /\ Affordable(C)
             /\ ledger' = Reserved(C)
             /\ graph' = [u \in Uuids |->
                    IF u \in written
                    THEN [ver |-> ledger[u] + 1, group |-> req[u].group,
                          val |-> req[u].val, sync |-> ledger[u] + 1, del |-> FALSE]
                    ELSE graph[u]]
             /\ \/ /\ written = C
                   /\ docs' = [docs EXCEPT ![c] = [u \in Uuids |->
                         IF u \in C THEN [ver |-> ledger[u] + 1, group |-> req[u].group,
                                          val |-> req[u].val]
                         ELSE NoDocument]]
                   /\ batch' = [batch EXCEPT ![c] = C]
                   /\ Goto(c, "send")
                \/ written # C /\ UNCHANGED <<pc, docs, batch>>
    /\ UNCHANGED <<index, net, nodeVars, doomed, faults>>

Send(p) ==
    /\ pc[p] = "send"
    /\ net' = net \cup Requests(batch[p], docs[p])
    /\ Goto(p, "sending")
    /\ UNCHANGED <<ledger, graph, index, nodeVars, doomed, docs, batch, ops, faults>>

-----------------------------------------------------------------------------
(* What follows when a process is done with its batch of edges, or with    *)
(* its operation.                                                          *)

Forgets(p) ==
    /\ docs' = [docs EXCEPT ![p] = NoDocuments]
    /\ batch' = [batch EXCEPT ![p] = {}]

Rest(p) == IF p \in Clients THEN "idle" ELSE "sweep_edges"

Clear(p) ==
    /\ pc[p] = "clear"
    /\ graph' = Cleared(batch[p], docs[p])
    /\ Goto(p, Rest(p))
    /\ Forgets(p)
    /\ UNCHANGED <<ledger, index, net, nodeVars, doomed, ops, faults>>

(* Deviation: one page of incident edges passes for all of them.           *)
FinalizeOnePage(p) ==
    /\ pc[p] = "finalize"
    /\ graph' = Finalized(batch[p], docs[p])
    /\ Goto(p, CASE doomed[p] # NoDoom -> "finalize_nodes"
                 [] p \in Clients      -> "idle"
                 [] OTHER              -> "sweep_nodes")
    /\ Forgets(p)
    /\ UNCHANGED <<ledger, index, net, nodeVars, doomed, ops, faults>>

(* The chunk was a page of a node deletion, a client's own request, or the *)
(* reconciler's page of pending edge deletions.                            *)
Finalize(p) ==
    /\ pc[p] = "finalize"
    /\ graph' = Finalized(batch[p], docs[p])
    /\ Goto(p, CASE doomed[p] # NoDoom -> "drain"
                 [] p \in Clients      -> "idle"
                 [] OTHER              -> "sweep_nodes")
    /\ Forgets(p)
    /\ UNCHANGED <<ledger, index, net, nodeVars, doomed, ops, faults>>

-----------------------------------------------------------------------------
(* Deleting a chunk of edges: reserve, mark, bury, remove.                 *)

StartDeleteEdges(c) ==
    /\ Starts(c)
    /\ \E C \in Chunks(Uuids) : batch' = [batch EXCEPT ![c] = C]
    /\ Goto(c, "reserve")
    /\ UNCHANGED <<storeVars, nodeVars, doomed, docs, faults>>

Reserve(p) ==
    /\ pc[p] = "reserve"
    /\ Affordable(batch[p])
    /\ ledger' = Reserved(batch[p])
    /\ docs' = [docs EXCEPT ![p] = [u \in Uuids |->
          IF u \in batch[p] THEN Tombstone(ledger[u] + 1) ELSE NoDocument]]
    /\ Goto(p, "prepare")
    /\ UNCHANGED <<graph, index, net, nodeVars, doomed, batch, ops, faults>>

Prepare(p) ==
    /\ pc[p] = "prepare"
    /\ graph' = Prepared(batch[p], docs[p])
    /\ Goto(p, "bury")
    /\ UNCHANGED <<ledger, index, net, nodeVars, doomed, docs, batch, ops, faults>>

Bury(p) ==
    /\ pc[p] = "bury"
    /\ net' = net \cup Requests(batch[p], docs[p])
    /\ Goto(p, "burying")
    /\ UNCHANGED <<ledger, graph, index, nodeVars, doomed, docs, batch, ops, faults>>

BulkSucceeds(p) ==
    /\ pc[p] \in {"sending", "burying"}
    /\ Acknowledged(batch[p], docs[p])
    /\ Goto(p, IF pc[p] = "sending" THEN "clear" ELSE "finalize")
    /\ UNCHANGED <<storeVars, nodeVars, doomed, docs, batch, ops, faults>>

-----------------------------------------------------------------------------
(* Deleting nodes.                                                         *)

(* reserve_projection_versions for a chunk of nodes.                       *)
StartDeleteNodes(c) ==
    /\ Starts(c)
    /\ \E D \in SUBSET Nodes :
          /\ D # {} /\ Cardinality(D) <= BatchSize
          /\ counter' = [n \in Nodes |-> counter[n] + (IF n \in D THEN 1 ELSE 0)]
          /\ doomed' = [doomed EXCEPT ![c] =
                [n \in Nodes |-> IF n \in D THEN counter[n] + 1 ELSE 0]]
    /\ Goto(c, "prepare_nodes")
    /\ UNCHANGED <<storeVars, node, docs, batch, faults>>

PrepareNodes(c) ==
    /\ pc[c] = "prepare_nodes"
    /\ node' = [n \in Nodes |->
          IF node[n] # Absent /\ node[n].ver < doomed[c][n]
          THEN [ver |-> doomed[c][n], del |-> TRUE]
          ELSE node[n]]
    /\ Goto(c, "drain")
    /\ UNCHANGED <<storeVars, counter, doomed, docs, batch, ops, faults>>

(* The nodes this very deletion has marked, and nobody took over.          *)
Owned(p) == {n \in Nodes : Marked(n) /\ node[n].ver = doomed[p][n]}

LowestPage(S, n) == {u \in S : Cardinality({v \in S : v < u}) < n}

(* _delete_incident_edges: a page of incident edges goes through           *)
(* delete_by_uuids, until the query finds none.                            *)
Drain(p) ==
    /\ pc[p] = "drain"
    /\ LET page == LowestPage(UNION {Incident(n) : n \in Owned(p)}, BatchSize)
       IN \/ page # {} /\ batch' = [batch EXCEPT ![p] = page] /\ Goto(p, "reserve")
          \/ page = {} /\ Goto(p, "finalize_nodes") /\ UNCHANGED batch
    /\ UNCHANGED <<storeVars, nodeVars, doomed, docs, ops, faults>>

(* DETACH DELETE of the nodes still owned, whatever hangs on them.         *)
FinalizeNodes(p) ==
    /\ pc[p] = "finalize_nodes"
    /\ node' = [n \in Nodes |-> IF n \in Owned(p) THEN Absent ELSE node[n]]
    /\ graph' = [u \in Uuids |->
          IF Endpoints[u] \cap Owned(p) # {} THEN Absent ELSE graph[u]]
    /\ doomed' = [doomed EXCEPT ![p] = NoDoom]
    /\ Goto(p, IF p \in Clients THEN "idle" ELSE "sweep_saves")
    /\ UNCHANGED <<ledger, index, net, counter, docs, batch, ops, faults>>

-----------------------------------------------------------------------------
(* Reconcilers: edge deletions, then node deletions, then edge saves.      *)

SweepEdges(r) ==
    /\ pc[r] = "sweep_edges"
    /\ LET page == LowestPage(PendingDeletes, BatchSize)
       IN \/ /\ page # {}
             /\ docs' = [docs EXCEPT ![r] = [u \in Uuids |->
                   IF u \in page THEN Tombstone(graph[u].ver) ELSE NoDocument]]
             /\ batch' = [batch EXCEPT ![r] = page]
             /\ Goto(r, "bury")
          \/ page = {} /\ Goto(r, "sweep_nodes") /\ UNCHANGED <<docs, batch>>
    /\ UNCHANGED <<storeVars, nodeVars, doomed, ops, faults>>

(* Deviation: the deletion is resumed under the generation the ledger      *)
(* reached, not under the one the node was marked with.                    *)
SweepNodesLatest(r) ==
    /\ pc[r] = "sweep_nodes"
    /\ \/ /\ \E n \in Nodes : Marked(n)
          /\ doomed' = [doomed EXCEPT ![r] =
                [n \in Nodes |-> IF Marked(n) THEN counter[n] ELSE 0]]
          /\ Goto(r, "drain")
       \/ (\A n \in Nodes : ~Marked(n)) /\ Goto(r, "sweep_saves") /\ UNCHANGED doomed
    /\ UNCHANGED <<storeVars, nodeVars, docs, batch, ops, faults>>

SweepNodes(r) ==
    /\ pc[r] = "sweep_nodes"
    /\ \/ /\ \E n \in Nodes : Marked(n)
          /\ doomed' = [doomed EXCEPT ![r] =
                [n \in Nodes |-> IF Marked(n) THEN node[n].ver ELSE 0]]
          /\ Goto(r, "drain")
       \/ (\A n \in Nodes : ~Marked(n)) /\ Goto(r, "sweep_saves") /\ UNCHANGED doomed
    /\ UNCHANGED <<storeVars, nodeVars, docs, batch, ops, faults>>

SweepSaves(r) ==
    /\ pc[r] = "sweep_saves"
    /\ LET page == LowestPage(PendingSaves, BatchSize)
       IN \/ /\ page # {}
             /\ docs' = [docs EXCEPT ![r] = [u \in Uuids |->
                   IF u \in page
                   THEN [ver |-> graph[u].ver, group |-> graph[u].group,
                         val |-> graph[u].val]
                   ELSE NoDocument]]
             /\ batch' = [batch EXCEPT ![r] = page]
             /\ Goto(r, "send")
          \/ page = {} /\ Goto(r, "sweep_edges") /\ UNCHANGED <<docs, batch>>
    /\ UNCHANGED <<storeVars, nodeVars, doomed, ops, faults>>

-----------------------------------------------------------------------------
(* A query or a bulk call raises, or the process dies: marks stay.  At the *)
(* bound, a reservation raises.                                            *)
Fails(p) ==
    /\ \/ faults < MaxFaults /\ faults' = faults + 1 /\ pc[p] # "idle"
       \/ pc[p] = "reserve" /\ ~Affordable(batch[p]) /\ UNCHANGED faults
    /\ Goto(p, Rest(p))
    /\ doomed' = [doomed EXCEPT ![p] = NoDoom]
    /\ Forgets(p)
    /\ UNCHANGED <<storeVars, nodeVars, ops>>

Lands(w) ==
    Deliver(w) /\ UNCHANGED <<nodeVars, pc, doomed, docs, batch, ops, faults>>

Step(p) ==
    \/ Send(p) \/ Clear(p) \/ Finalize(p) \/ Reserve(p) \/ Prepare(p) \/ Bury(p)
    \/ BulkSucceeds(p) \/ Drain(p) \/ FinalizeNodes(p)

ClientStarts(c) ==
    \/ \E n \in Nodes : SaveNode(c, n)
    \/ SaveEdges(c) \/ StartDeleteEdges(c) \/ StartDeleteNodes(c)

ReconcilerStep(r) == Step(r) \/ SweepEdges(r) \/ SweepNodes(r) \/ SweepSaves(r)

Next ==
    \/ \E c \in Clients : ClientStarts(c) \/ PrepareNodes(c) \/ Step(c)
    \/ \E r \in Reconcilers : ReconcilerStep(r)
    \/ \E p \in Procs : Fails(p)
    \/ \E w \in net : Lands(w)

Spec == Init /\ [][Next]_vars

AwaitedLands(p) ==
    \E u \in batch[p] :
        /\ pc[p] \in {"sending", "burying"}
        /\ Lands([uuid |-> u, doc |-> docs[p][u]])

(* Only the server's own loop is sure to go on: clients may stop anywhere. *)
Fairness ==
    \A r \in Reconcilers : WF_vars(ReconcilerStep(r)) /\ WF_vars(AwaitedLands(r))

FairSpec == Spec /\ Fairness

-----------------------------------------------------------------------------
(* Properties.                                                             *)

(* No vector document outlives its relationship: deleting a node never     *)
(* leaves the vector of one of its edges searchable, because every edge is *)
(* buried through its own lifecycle before the node goes                   *)
(* (_delete_incident_edges before DETACH DELETE).                          *)
EdgeVectorsOwned == \A u \in Uuids : Live(index[u]) => Exists(u)

(* An edge without markers has exactly its own generation in the index,    *)
(* although a save may move an edge to another partition.                  *)
CleanEdgesMirrored ==
    \A u \in Uuids :
        Exists(u) /\ ~graph[u].del /\ graph[u].sync = 0 =>
            index[u] = [ver |-> graph[u].ver, group |-> graph[u].group,
                        val |-> graph[u].val]

(* DETACH never has anything to detach: when a node is removed, whoever    *)
(* removes it, no relationship hangs on it any more, so none disappears    *)
(* without a tombstone; edge saves racing the deletion are refused from    *)
(* the moment the node is marked.                                          *)
NothingDetached ==
    [][\A n \in Nodes : node[n] # Absent /\ node'[n] = Absent => Incident(n) = {}]_vars

(* A node marked for deletion goes away, whatever the clients do, also     *)
(* when they stop half way.  Two deletions that keep overtaking each       *)
(* other's edge generations could go on for ever; those runs end at the    *)
(* bound.                                                                  *)
Exhausted == \E u \in Uuids : ledger[u] = MaxGeneration

MarkedNodesGo == \A n \in Nodes : Marked(n) ~> (~Marked(n) \/ Exhausted)
=============================================================================
