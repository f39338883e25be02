----------------------------- MODULE GraphStores -----------------------------
(***************************************************************************)
(* A graph database shared by clients that each run one operation of       *)
(* StoreOperations.  In FalkorDB and Kuzu a query runs alone.  In Neo4j    *)
(* and Neptune queries interleave: a query that takes care of tombstones   *)
(* finds its rows, locks them one after another, in the order of their     *)
(* uuids, and only then looks at what they hold.                           *)
(*                                                                         *)
(* A fact in Kuzu is a node of its own with a hop to either end, and can   *)
(* lose one hop without the other.                                         *)
(***************************************************************************)
EXTENDS StoreOperations

CONSTANTS
    Stores,
    Clients,    \* 1 .. n, in the order in which they begin
    Asks,       \* client -> groups it works for
    Batch,      \* batch_size, and the limit of a listing
    None,
    Seeds       \* graphs to begin with: [node, edges] by store

VARIABLES
    store,
    node,    \* uuid -> [state, group]
    edges,   \* edge -> the hops it has left, or None
    todo,    \* client -> transactions its operation has yet to commit; or None
    stage,   \* client -> statements, or groups, its transaction has begun
    rows,    \* client -> nodes it has matched, or fetched for a page
    locked,  \* client -> rows it has locked
    watch,   \* client -> nodes its operation is answerable for
    seen     \* client -> nodes its listing has returned

graph == <<node, edges>>
clients == <<todo, stage, rows, locked, watch, seen>>
vars == <<store, node, edges, todo, stage, rows, locked, watch, seen>>

States == {"absent", "live", "reserved", "retired"}
Hops == {"from", "to"}
Nowhere == [state |-> "absent", group |-> None]

Sensible(seed, s) ==
    /\ seed.node \in [Uuids -> [state : States, group : Groups \cup {None}]]
    /\ seed.edges \in [Edges -> (SUBSET Hops) \cup {None}]
    /\ \A u \in Uuids :
          /\ seed.node[u].state = "live" => seed.node[u].group \in Groups
          /\ seed.node[u].state \in {"reserved", "retired"} => u \in Episodes /\ s # "Kuzu"
          /\ seed.node[u].state \in {"absent", "reserved"} => seed.node[u].group = None
    /\ \A e \in Edges : seed.edges[e] = Hops =>
          \A u \in {e.from, e.to} : seed.node[u].state # "absent"
    /\ s = "FalkorDB" => \A e \in Edges : seed.edges[e] # None => GraphOf[e.from] = GraphOf[e.to]

Kinds ==
    {"save", "claim", "put", "offer", "ingest", "purge", "drop", "drain", "batches",
     "link", "join", "unlink", "unhop", "scrub", "read", "page", "merge", "unmanaged"}

Transactions ==
    [kind : Kinds, statements : Seq(SUBSET Uuids), group : Groups \cup {AnyGroup},
     edges : SUBSET Edges]

(* Uuids are ordered as the database orders them; an edge is called with   *)
(* the uuids of its ends; only episodes are retired, and none in Kuzu.     *)
ASSUME StoresAssumption ==
    /\ Uuids \subseteq Nat /\ IsFiniteSet(Uuids) /\ IsFiniteSet(Groups)
    /\ GraphOf \in [Uuids -> Groups]
    /\ Episodes \cap (Entities \cup Communities \cup Sagas) = {}
    /\ \A e \in Edges : {e.from, e.to} \subseteq Uuids
    /\ Stores \subseteq {"Neo4j", "FalkorDB", "Kuzu", "Neptune"}
    /\ Asks \in [Clients -> SUBSET Groups]
    /\ Batch \in Nat \ {0}
    /\ None \notin Groups /\ None \notin Seq(Transactions)
    /\ \A hops \in SUBSET Hops : None # hops
    /\ "none" \notin Groups
    /\ \A s \in Stores : \A seed \in Seeds[s] : Sensible(seed, s)

TypeOK ==
    /\ store \in Stores
    /\ node \in [Uuids -> [state : States, group : Groups \cup {None}]]
    /\ edges \in [Edges -> (SUBSET Hops) \cup {None}]
    /\ todo \in [Clients -> Seq(Transactions) \cup {None}]
    /\ stage \in [Clients -> Nat]
    /\ rows \in [Clients -> SUBSET Uuids]
    /\ locked \in [Clients -> SUBSET Uuids]
    /\ watch \in [Clients -> SUBSET Uuids]
    /\ seen \in [Clients -> SUBSET Uuids]

Init ==
    /\ store \in Stores
    /\ \E s \in Seeds[store] : node = s.node /\ edges = s.edges
    /\ todo = [c \in Clients |-> None]
    /\ stage = [c \in Clients |-> 0]
    /\ rows = [c \in Clients |-> {}]
    /\ locked = [c \in Clients |-> {}]
    /\ watch = [c \in Clients |-> {}]
    /\ seen = [c \in Clients |-> {}]

Serial == store \in {"FalkorDB", "Kuzu"}
Held(S) == {u \in S : node[u].state # "absent"}
Live == {u \in Uuids : node[u].state = "live"}
In(S, g) == {u \in Held(S) : g = AnyGroup \/ node[u].group = g}
Lowest(n, S) == {u \in S : Cardinality({v \in S : v < u}) < n}
Highest(n, S) == {u \in S : Cardinality({v \in S : v > u}) < n}
Whole(e) == edges[e] = Hops

Busy(c) == todo[c] # None /\ todo[c] # <<>>
Now(c) == Head(todo[c])
Deletes(txns) == \E i \in DOMAIN txns : txns[i].kind \in {"purge", "drop", "drain", "batches"}
Lists(txns) == \E i \in DOMAIN txns : txns[i].kind \in {"read", "page", "merge"}

(* What a statement matches: of a merged listing, the group of each graph. *)
Matched(t, j) == In(t.statements[j], IF t.kind = "merge" THEN SetToSeq(Groups)[j] ELSE t.group)

Scope(txns) ==
    UNION {UNION {Matched(txns[i], j) \cap Live : j \in DOMAIN txns[i].statements} :
              i \in {k \in DOMAIN txns : txns[k].kind # "unhop"}}

-----------------------------------------------------------------------------
(* How an operation begins, goes on to its next transaction and ends.      *)

Offered == [s \in Stores |-> [c \in Clients |-> Operations(s, Asks[c])]]

Begin(c) ==
    /\ todo[c] = None
    /\ \A d \in Clients : d < c => todo[d] # None
    /\ \E txns \in Offered[store][c] :
          /\ todo' = [todo EXCEPT ![c] = txns]
          /\ watch' = [watch EXCEPT ![c] =
                 IF Deletes(txns) \/ Lists(txns) THEN Scope(txns) ELSE {}]
    /\ UNCHANGED <<store, graph, stage, rows, locked, seen>>

(* A deletion no longer answers for nodes saved since it began, a listing  *)
(* for nodes that went or changed group.                                   *)
Watching(c, saved, gone) ==
    IF Busy(c) /\ Lists(todo[c])
    THEN {u \in watch[c] \ gone : node'[u].group = node[u].group}
    ELSE watch[c] \ saved

(* A row that another transaction deletes drops out.                       *)
Pruned(d, gone) == IF Busy(d) /\ Lists(todo[d]) THEN rows[d] ELSE rows[d] \ gone

Release(c, gone) ==
    /\ stage' = [stage EXCEPT ![c] = 0]
    /\ rows' = [d \in Clients |-> IF d = c THEN {} ELSE Pruned(d, gone)]
    /\ locked' = [locked EXCEPT ![c] = {}]

Commit(c, saved, gone) ==
    /\ todo' = [todo EXCEPT ![c] = Tail(@)]
    /\ watch' = [d \in Clients |-> Watching(d, saved, gone)]
    /\ Release(c, gone)
    /\ UNCHANGED <<store, seen>>

(* The operation raises and answers for nothing.                           *)
Raise(c) ==
    /\ todo' = [todo EXCEPT ![c] = <<>>]
    /\ watch' = [watch EXCEPT ![c] = {}]
    /\ Release(c, {})
    /\ UNCHANGED <<store, seen>>

Free(c, S) == \A d \in Clients \ {c} : locked[d] \cap S = {}

-----------------------------------------------------------------------------
(* Rows and locks of a query in Neo4j or Neptune.                          *)

Guarded(t) == t.kind \in {"save", "purge", "ingest", "drain", "batches"}
Saves(t) == t.kind \in {"save", "ingest"}

Purgeable(S) == {u \in S : node[u].state # "retired"}

(* The rows of one transaction: of a deletion in batches, the next batch.  *)
Chunk(c) == IF Now(c).kind = "batches" THEN Lowest(Batch, rows[c]) ELSE rows[c]

(* Deviation: pages of tombstones are asked for again and again.           *)
PageOfAnything(c) == Lowest(Batch, In(Now(c).statements[1], Now(c).group))

PageToPurge(c) ==
    Lowest(Batch, Purgeable(In(Now(c).statements[1], Now(c).group)))

Match(c) ==
    /\ Busy(c) /\ ~Serial /\ Guarded(Now(c))
    /\ stage[c] < Len(Now(c).statements)
    /\ locked[c] = rows[c]
    /\ LET t == Now(c)
           S == t.statements[stage[c] + 1]
       IN  /\ t.kind = "drain" => PageToPurge(c) # {}
           /\ rows' = [rows EXCEPT ![c] = @ \cup
                  CASE Saves(t) -> S
                    [] t.kind = "drain" -> PageToPurge(c)
                    [] OTHER -> In(S, t.group)]
    /\ stage' = [stage EXCEPT ![c] = @ + 1]
    /\ UNCHANGED <<store, graph, todo, locked, watch, seen>>

LockRow(c) ==
    /\ Busy(c) /\ Guarded(Now(c))
    /\ Chunk(c) # locked[c]
    /\ LET u == Min(Chunk(c) \ locked[c])
       IN  Free(c, {u}) /\ locked' = [locked EXCEPT ![c] = @ \cup {u}]
    /\ UNCHANGED <<store, graph, todo, stage, rows, watch, seen>>

(* What the query works on once it has all its rows, or runs alone.        *)
Ready(c) ==
    /\ Busy(c) /\ Guarded(Now(c))
    /\ Serial \/ (stage[c] = Len(Now(c).statements) /\ locked[c] = Chunk(c))

Target(c) ==
    IF Serial THEN UNION {In(Now(c).statements[i], Now(c).group) :
                             i \in DOMAIN Now(c).statements}
    ELSE Chunk(c)

(* Two transactions that wait for each other: the database aborts one and  *)
(* hands its lock to the other; execute_write runs the aborted one again.  *)
(* Only transactions of several statements can lock out of order.          *)
NextRow(c) == Min(Chunk(c) \ locked[c])
Waits(c, d) ==
    Busy(c) /\ Guarded(Now(c)) /\ Chunk(c) # locked[c] /\ NextRow(c) \in locked[d]

RetryDeadlock(c) ==
    /\ Busy(c) /\ Len(Now(c).statements) > 1
    /\ \E d \in Clients \ {c} :
          /\ Waits(c, d) /\ Waits(d, c)
          /\ locked' = [locked EXCEPT ![c] = {}, ![d] = @ \cup {NextRow(d)}]
    /\ stage' = [stage EXCEPT ![c] = 0]
    /\ rows' = [rows EXCEPT ![c] = {}]
    /\ UNCHANGED <<store, graph, todo, watch, seen>>

-----------------------------------------------------------------------------
(* Saves.                                                                  *)

Set(S, state, g) ==
    node' = [u \in Uuids |-> IF u \in S THEN [state |-> state, group |-> g] ELSE node[u]]

(* Deviation: a save takes an episode over from another group.             *)
AdmitsAnyGroup(S, g) == \A u \in S : node[u].state # "retired"

(* The guard of an episode's save: no tombstone, no other group.           *)
Admits(S, g) ==
    \A u \in S : node[u].state # "retired" /\ node[u].group \in {None, g}

SaveEpisodes(c) ==
    /\ Ready(c) /\ Now(c).kind = "save"
    /\ LET S == Now(c).statements[1] g == Now(c).group
       IN  /\ Admits(S, g)
           /\ Set(S, "live", g)
           /\ Commit(c, S, {})
    /\ UNCHANGED edges

(* Refused as a whole, the query has merged the uuids that were not there: *)
(* they stay reserved.                                                     *)
RefuseEpisodes(c) ==
    /\ Ready(c) /\ Now(c).kind = "save"
    /\ LET S == Now(c).statements[1]
       IN  /\ ~Admits(S, Now(c).group)
           /\ Set(S \ Held(S), "reserved", None)
    /\ Raise(c) /\ UNCHANGED edges

(* The bulk transaction of Kuzu does not look at how many were saved.      *)
OfferEpisode(c) ==
    /\ Busy(c) /\ Now(c).kind = "offer"
    /\ LET g == Now(c).group
           S == {u \in Now(c).statements[1] : Admits({u}, g)}
       IN Set(S, "live", g) /\ Commit(c, S, {})
    /\ UNCHANGED edges

ClaimEntity(c) ==
    /\ Busy(c) /\ Now(c).kind = "claim"
    /\ LET S == Now(c).statements[1] g == Now(c).group
       IN  /\ Free(c, S)
           /\ \A u \in S : node[u].group \in {None, g}
           /\ Set(S, "live", g)
           /\ Commit(c, S, {})
    /\ UNCHANGED edges

RefuseEntity(c) ==
    /\ Busy(c) /\ Now(c).kind = "claim"
    /\ Free(c, Now(c).statements[1])
    /\ \E u \in Now(c).statements[1] : node[u].group \notin {None, Now(c).group}
    /\ Raise(c) /\ UNCHANGED graph

PutNodes(c) ==
    /\ Busy(c) /\ Now(c).kind = "put"
    /\ LET S == Now(c).statements[1]
       IN  /\ Free(c, S)
           /\ Set(S, "live", Now(c).group)
           /\ Commit(c, S, {})
    /\ UNCHANGED edges

RefuseBatches(c) ==
    /\ Busy(c) /\ Now(c).kind = "unmanaged"
    /\ Raise(c) /\ UNCHANGED graph

-----------------------------------------------------------------------------
(* Edges.                                                                  *)

Matches(e) == {e.from, e.to} \subseteq Held(Uuids)

(* What MERGE leaves in the place of e.                                    *)
Merged(E) == [e \in Edges |-> IF e \in E /\ Matches(e) THEN Hops ELSE edges[e]]

(* A fact of Kuzu that lost a hop is not the path MERGE looks for, and     *)
(* another node with its uuid cannot be created.                           *)
Clash(E) == \E e \in E : Matches(e) /\ edges[e] \notin {None, Hops}

EndsOf(E) == UNION {{e.from, e.to} : e \in E}

LinkEdges(c) ==
    /\ Busy(c) /\ Now(c).kind = "link"
    /\ LET E == Now(c).edges
       IN Free(c, EndsOf(E)) /\ ~Clash(E) /\ edges' = Merged(E)
    /\ UNCHANGED node
    /\ Commit(c, {}, {})

RefuseLink(c) ==
    /\ Busy(c) /\ Now(c).kind = "link"
    /\ Clash(Now(c).edges)
    /\ Raise(c) /\ UNCHANGED graph

(* HAS_EPISODE and NEXT_EPISODE join two nodes of the edge's own group.    *)
SameGroup(e) == Matches(e) /\ node[e.from].group = e.group /\ node[e.to].group = e.group

JoinEdges(c) ==
    /\ Busy(c) /\ Now(c).kind = "join"
    /\ LET E == Now(c).edges
       IN  /\ Free(c, EndsOf(E))
           /\ \A e \in E : SameGroup(e)
           /\ edges' = Merged(E)
    /\ UNCHANGED node
    /\ Commit(c, {}, {})

RefuseJoin(c) ==
    /\ Busy(c) /\ Now(c).kind = "join"
    /\ \E e \in Now(c).edges : ~SameGroup(e)
    /\ Raise(c) /\ UNCHANGED graph

UnlinkEdges(c) ==
    /\ Busy(c) /\ Now(c).kind \in {"unlink", "scrub"}
    /\ LET E == {e \in Now(c).edges : Now(c).kind = "scrub" \/ Whole(e)}
       IN  /\ Free(c, EndsOf(E))
           /\ edges' = [e \in Edges |-> IF e \in E THEN None ELSE edges[e]]
    /\ UNCHANGED node
    /\ Commit(c, {}, {})

UnhopFacts(c) ==
    /\ Busy(c) /\ Now(c).kind = "unhop"
    /\ LET S == In(Now(c).statements[1], Now(c).group)
       IN edges' = [e \in Edges |-> IF /\ e \in Facts /\ e.from \in S
                                       /\ edges[e] # None /\ "from" \in edges[e]
                                    THEN None ELSE edges[e]]
    /\ UNCHANGED node
    /\ Commit(c, {}, {})

-----------------------------------------------------------------------------
(* An ingestion in one transaction of Neo4j.                               *)

IngestAll(c) ==
    /\ Ready(c) /\ Now(c).kind = "ingest"
    /\ LET t == Now(c) S == t.statements[1] \cup t.statements[2]
       IN  /\ Admits(t.statements[1], t.group)
           /\ Set(S, "live", t.group)
           /\ edges' = [e \in Edges |-> IF e \in t.edges THEN Hops ELSE edges[e]]
           /\ Commit(c, S, {})

RefuseIngest(c) ==
    /\ Ready(c) /\ Now(c).kind = "ingest"
    /\ ~Admits(Now(c).statements[1], Now(c).group)
    /\ Raise(c) /\ UNCHANGED graph

-----------------------------------------------------------------------------
(* Deletions.  DETACH DELETE takes the edges along; of a fact in Kuzu, the *)
(* hop to the node.                                                        *)

LeftOf(e, S) ==
    IF edges[e] = None \/ {e.from, e.to} \cap S = {} THEN edges[e]
    ELSE IF store = "Kuzu" /\ e \in Facts
         THEN {h \in edges[e] : (IF h = "from" THEN e.from ELSE e.to) \notin S}
         ELSE None

Delete(S, E) ==
    /\ Set(S, "absent", None)
    /\ edges' = [e \in Edges |-> IF e \in E THEN None ELSE LeftOf(e, S)]

PurgeNodes(c) ==
    /\ Ready(c) /\ Now(c).kind = "purge"
    /\ LET S == Purgeable(Target(c)) IN Delete(S, {}) /\ Commit(c, {}, S)

DropNodes(c) ==
    /\ Busy(c) /\ Now(c).kind = "drop"
    /\ LET S == In(Now(c).statements[1], Now(c).group)
       IN Free(c, S) /\ Delete(S, Now(c).edges) /\ Commit(c, {}, S)

(* One batch: its transaction commits, and the next one begins.            *)
PurgeBatch(c) ==
    /\ Ready(c) /\ Now(c).kind = "batches" /\ rows[c] # {}
    /\ LET S == Purgeable(Chunk(c))
       IN  /\ Delete(S, {})
           /\ rows' = [d \in Clients |-> IF d = c THEN rows[d] \ Chunk(c) ELSE Pruned(d, S)]
           /\ watch' = [d \in Clients |-> Watching(d, {}, S)]
    /\ locked' = [locked EXCEPT ![c] = {}]
    /\ UNCHANGED <<store, todo, stage, seen>>

LastBatch(c) ==
    /\ Ready(c) /\ Now(c).kind = "batches" /\ rows[c] = {}
    /\ UNCHANGED graph /\ Commit(c, {}, {})

(* A page of a clearing is deleted by its nodes' ids; then another page is *)
(* asked for, until one comes back empty.                                  *)
PurgePage(c) ==
    /\ Ready(c) /\ Now(c).kind = "drain"
    /\ LET S == Purgeable(rows[c])
       IN  /\ Delete(S, {})
           /\ watch' = [d \in Clients |-> Watching(d, {}, S)]
           /\ Release(c, S)
    /\ UNCHANGED <<store, todo, seen>>

LastPage(c) ==
    /\ Busy(c) /\ Now(c).kind = "drain" /\ stage[c] = 0 /\ PageToPurge(c) = {}
    /\ UNCHANGED graph /\ Commit(c, {}, {})

-----------------------------------------------------------------------------
(* Reads.  A listing asks for what comes before the last uuid it got, in   *)
(* descending order, until a page is not full.                             *)

Readable(S) == IF store = "Kuzu" THEN Held(S) ELSE S \cap Live

ReadNodes(c) ==
    /\ Busy(c) /\ Now(c).kind = "read"
    /\ seen' = [seen EXCEPT ![c] = Readable(Now(c).statements[1])]
    /\ todo' = [todo EXCEPT ![c] = Tail(@)]
    /\ UNCHANGED <<store, graph, stage, rows, locked, watch>>

Ahead(c, S) == {u \in Readable(S) : \A v \in seen[c] : u < v}

Return(c, page) ==
    /\ seen' = [seen EXCEPT ![c] = @ \cup page]
    /\ todo' = [todo EXCEPT ![c] = IF Cardinality(page) < Batch THEN Tail(@) ELSE @]
    /\ UNCHANGED <<store, graph, locked, watch>>

ListPage(c) ==
    /\ Busy(c) /\ Now(c).kind = "page"
    /\ Return(c, Highest(Batch, Ahead(c, In(Now(c).statements[1], Now(c).group))))
    /\ UNCHANGED <<stage, rows>>

(* FalkorDB asks every group's graph for a page and merges what it gets.   *)
FetchGroup(c) ==
    /\ Busy(c) /\ Now(c).kind = "merge"
    /\ stage[c] < Cardinality(Groups)
    /\ rows' = [rows EXCEPT ![c] =
           @ \cup Highest(Batch, Ahead(c, Matched(Now(c), stage[c] + 1)))]
    /\ stage' = [stage EXCEPT ![c] = @ + 1]
    /\ UNCHANGED <<store, graph, todo, locked, watch, seen>>

MergeGroups(c) ==
    /\ Busy(c) /\ Now(c).kind = "merge"
    /\ stage[c] = Cardinality(Groups)
    /\ Return(c, Highest(Batch, rows[c]))
    /\ stage' = [stage EXCEPT ![c] = 0]
    /\ rows' = [rows EXCEPT ![c] = {}]

-----------------------------------------------------------------------------
(* A connection is lost before a transaction commits.  The database drops  *)
(* what it had begun, so it may as well not have.                          *)
Fail(c) ==
    /\ Busy(c) /\ stage[c] = 0 /\ rows[c] = {} /\ locked[c] = {}
    /\ Raise(c) /\ UNCHANGED graph

(* Another server retires an episode (EpisodeRetirement).                  *)
Retire(u) ==
    /\ ~Serial
    /\ node[u].state = "live" /\ \A c \in Clients : u \notin locked[c]
    /\ node' = [node EXCEPT ![u].state = "retired"]
    /\ watch' = [c \in Clients |-> watch[c] \ {u}]
    /\ UNCHANGED <<store, edges, todo, stage, rows, locked, seen>>

(* A query with a guard finds its rows, locks them, and then goes on; any  *)
(* other is atomic.                                                        *)
Step(c) ==
    /\ Busy(c)
    /\ \/ /\ Guarded(Now(c))
          /\ \/ Match(c) \/ LockRow(c) \/ RetryDeadlock(c) \/ LastPage(c)
             \/ /\ Ready(c)
                /\ \/ SaveEpisodes(c) \/ RefuseEpisodes(c) \/ IngestAll(c) \/ RefuseIngest(c)
                   \/ PurgeNodes(c) \/ PurgeBatch(c) \/ LastBatch(c) \/ PurgePage(c)
       \/ /\ ~Guarded(Now(c))
          /\ \/ OfferEpisode(c) \/ ClaimEntity(c) \/ RefuseEntity(c) \/ PutNodes(c)
             \/ RefuseBatches(c) \/ LinkEdges(c) \/ RefuseLink(c) \/ JoinEdges(c)
             \/ RefuseJoin(c) \/ UnlinkEdges(c) \/ UnhopFacts(c) \/ DropNodes(c)
             \/ ReadNodes(c) \/ ListPage(c) \/ FetchGroup(c) \/ MergeGroups(c)

Next ==
    \/ \E c \in Clients : Begin(c) \/ Step(c) \/ Fail(c)
    \/ \E u \in Episodes : Retire(u)

Spec == Init /\ [][Next]_vars /\ WF_vars(\E c \in Clients : Step(c))

-----------------------------------------------------------------------------
(* Properties.                                                             *)

(* The graph the readers see: reservations are hidden, a fact of Kuzu      *)
(* counts with both its hops.                                              *)
Abstract == INSTANCE PropertyGraph WITH
    status <- [u \in Uuids |-> IF node[u].state = "reserved" THEN "absent"
                               ELSE node[u].state],
    home <- [u \in Uuids |-> IF node[u].state = "live" THEN node[u].group ELSE "none"],
    joined <- {e \in Edges : Whole(e) /\ \A u \in {e.from, e.to} :
                                node[u].state \in {"live", "retired"}}

(* Whatever the driver and however the clients' queries interleave, the    *)
(* database behaves as the one graph of PropertyGraph: saves of several    *)
(* episodes take effect as a whole or not at all, a deletion leaves no     *)
(* edge behind that readers could follow, no episode changes group and no  *)
(* tombstone is written to or deleted.                                     *)
StoreSpec == Abstract!Spec

(* Every operation ends: guarded queries do not wait for each other in a   *)
(* circle, and a clearing is not held up by pages of tombstones.           *)
OperationsEnd == (\E c \in Clients : Busy(c)) ~> (\A c \in Clients : ~Busy(c))

(* When a deletion has returned, none of the nodes it was to delete is     *)
(* left, except those saved again since it began or retired; and when a    *)
(* listing has, it returned every node that was there all along.  In       *)
(* FalkorDB a deletion is of the graph the driver is connected to, and the *)
(* listing of a driver's operations is of each group in the group's graph. *)
PromisesKept == \A c \in Clients : todo[c] = <<>> => watch[c] \cap Live \subseteq seen[c]
=============================================================================
