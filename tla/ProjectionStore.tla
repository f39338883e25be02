--------------------------- MODULE ProjectionStore ---------------------------
(***************************************************************************)
(* The two stores behind a Neptune-backed Graphiti and the statements the  *)
(* driver runs against them.  Neptune holds the graph and, beside it, one  *)
(* durable generation counter per uuid (GraphitiProjectionVersion);        *)
(* OpenSearch holds at most one vector document per uuid and accepts a     *)
(* write only if its external version is strictly larger than the stored   *)
(* one.  No transaction spans the two.                                     *)
(*                                                                         *)
(* The operators below are single Neptune queries, hence atomic, or single *)
(* OpenSearch index requests.  Who runs them, and in what order, is the    *)
(* business of the modules that extend this one.                           *)
(***************************************************************************)
EXTENDS Naturals, FiniteSets

CONSTANTS
    Uuids,        \* identities of entity nodes (or of edges); ordered, for paging
    Groups,       \* group_id values, the tenant partitions
    Embeddings,   \* embedding vectors
    Malformed,    \* those the index rejects (wrong dimension, not finite)
    NoVector,     \* an entity without embedding; in the index, a tombstone
    NoGroup,      \* a deletion tombstone carries no group_id
    Absent        \* no such entity in the graph

Vectors == Embeddings \cup {NoVector}

(* An entity: its generation, its partition, its embedding, the generation *)
(* whose vector write is still owed (0: none), and the deletion marker.    *)
Entity == [ver : Nat, group : Groups, val : Vectors, sync : Nat, del : BOOLEAN]

(* What a save asks for, and what is sent to the index for one uuid.       *)
Request == [group : Groups, val : Vectors]
Document == [ver : Nat, group : Groups \cup {NoGroup}, val : Vectors]
Write == [uuid : Uuids, doc : Document]

ASSUME StoreAssumption ==
    /\ Uuids \subseteq Nat
    /\ Malformed \subseteq Embeddings
    /\ NoVector \notin Embeddings
    /\ NoGroup \notin Groups
    /\ Absent \notin Entity

VARIABLES
    ledger,   \* uuid -> last reserved generation
    graph,    \* uuid -> entity or Absent
    index,    \* uuid -> stored document; version 0 stands for no document yet
    net       \* index requests ever sent: each may land late, twice or never

storeVars == <<ledger, graph, index, net>>

NoDocument == [ver |-> 0, group |-> NoGroup, val |-> NoVector]

StoreTypeOK ==
    /\ ledger \in [Uuids -> Nat]
    /\ graph \in [Uuids -> Entity \cup {Absent}]
    /\ index \in [Uuids -> Document]
    /\ net \in SUBSET Write

StoreInit ==
    /\ ledger = [u \in Uuids |-> 0]
    /\ graph = [u \in Uuids |-> Absent]
    /\ index = [u \in Uuids |-> NoDocument]
    /\ net = {}

Exists(u) == graph[u] # Absent

Live(doc) == doc.val # NoVector

Removed(u) == ~Exists(u) \/ graph[u].del

(* The generations one query takes, one for each uuid of S.                *)
Reserved(S) == [u \in Uuids |-> IF u \in S THEN ledger[u] + 1 ELSE ledger[u]]

(* Deviation: the save query without its partition guard.                  *)
AcceptsAnyGroup(u, group) == ~Exists(u) \/ ~graph[u].del

(* The save query merges the node, so an absent one is created, and goes   *)
(* on only within the entity's own partition and never over a deletion.    *)
Accepts(u, group) ==
    ~Exists(u) \/ (graph[u].group = group /\ ~graph[u].del)

(* Deviation: the save query forgets the sync marker.                      *)
SavedUnmarked(C, req) ==
    [u \in Uuids |->
        IF u \in C /\ Accepts(u, req[u].group)
        THEN [ver |-> ledger[u] + 1, group |-> req[u].group,
              val |-> req[u].val, sync |-> 0, del |-> FALSE]
        ELSE graph[u]]

(* The graph after the save query ran over the chunk C of the requests     *)
(* req; every property is replaced, the markers included.                  *)
Saved(C, req) ==
    [u \in Uuids |->
        IF u \in C /\ Accepts(u, req[u].group)
        THEN [ver |-> ledger[u] + 1, group |-> req[u].group,
              val |-> req[u].val, sync |-> ledger[u] + 1, del |-> FALSE]
        ELSE graph[u]]

(* Deviation: the acknowledgement ignores which generation it is for.      *)
ClearedAnyGeneration(S, docs) ==
    [u \in Uuids |->
        IF u \in S /\ Exists(u) /\ ~graph[u].del
        THEN [graph[u] EXCEPT !.sync = 0]
        ELSE graph[u]]

(* clear_projection_sync_pending: acknowledge exact generations only.      *)
Cleared(S, docs) ==
    [u \in Uuids |->
        IF /\ u \in S
           /\ Exists(u)
           /\ graph[u].ver = docs[u].ver
           /\ graph[u].sync = docs[u].ver
           /\ ~graph[u].del
        THEN [graph[u] EXCEPT !.sync = 0]
        ELSE graph[u]]

(* The prepare query of a deletion: mark what is older than the deletion.  *)
Prepared(S, docs) ==
    [u \in Uuids |->
        IF u \in S /\ Exists(u) /\ graph[u].ver < docs[u].ver
        THEN [graph[u] EXCEPT !.del = TRUE, !.ver = docs[u].ver]
        ELSE graph[u]]

(* Deviation: only what older deletions marked is removed.                 *)
FinalizedOlder(S, docs) ==
    [u \in Uuids |->
        IF u \in S /\ Exists(u) /\ graph[u].del /\ graph[u].ver < docs[u].ver
        THEN Absent
        ELSE graph[u]]

(* The finalize query: remove what this very deletion marked.              *)
Finalized(S, docs) ==
    [u \in Uuids |->
        IF u \in S /\ Exists(u) /\ graph[u].del /\ graph[u].ver = docs[u].ver
        THEN Absent
        ELSE graph[u]]

(* The document of a deletion tombstone.                                   *)
Tombstone(ver) == [ver |-> ver, group |-> NoGroup, val |-> NoVector]

(* Uuids the reconciler's two pending queries return.                      *)
PendingDeletes == {u \in Uuids : Exists(u) /\ graph[u].del}

PendingSaves ==
    {u \in Uuids : Exists(u) /\ ~graph[u].del /\ graph[u].sync = graph[u].ver}

Requests(S, docs) == {[uuid |-> u, doc |-> docs[u]] : u \in S}

(* Deviation: every bulk call passes for a success.                        *)
Unacknowledged(S, docs) == TRUE

(* A bulk call reports success when every request was applied or lost to   *)
(* a later version (409), that is, once the stored versions have caught up *)
Acknowledged(S, docs) == \A u \in S : index[u].ver >= docs[u].ver

(* OpenSearch executes a request: strict external versioning.              *)
Deliver(w) ==
    /\ w \in net
    /\ w.doc.ver > index[w.uuid].ver
    /\ index' = [index EXCEPT ![w.uuid] = w.doc]
    /\ UNCHANGED <<ledger, graph, net>>
=============================================================================
