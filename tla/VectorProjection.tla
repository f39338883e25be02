-------------------------- MODULE VectorProjection --------------------------
(***************************************************************************)
(* The lifecycle that keeps the OpenSearch vector index a projection of    *)
(* the Neptune graph: clients save and delete entities, reconcilers sweep  *)
(* the pending markers, index requests are late, lost or repeated, and     *)
(* every step that leaves the process may raise.  One projection kind is   *)
(* modelled, that of entity nodes; entity edges go the same way without    *)
(* the partition guard, and what ties them to nodes - a deleted node waits *)
(* for its edges between its prepare query and its tombstone - is in       *)
(* module ProjectionCascade.                                               *)
(***************************************************************************)
EXTENDS ProjectionStore, Sequences

CONSTANTS
    Clients,         \* tasks running save, save_bulk or delete
    Reconcilers,     \* server replicas' repair loops
    Projecting,      \* processes whose driver has vector_projection_enabled
    BatchSize,       \* batch_size of bulk writes and of reconciler pages
    MaxGeneration,   \* bound: generations a uuid may consume
    MaxFaults        \* bound: exceptions, timeouts and crashes

Procs == Clients \cup Reconcilers

ASSUME ProcessAssumption ==
    /\ Clients \cap Reconcilers = {}
    /\ Projecting \subseteq Procs
    /\ BatchSize \in Nat \ {0}
    /\ MaxGeneration \in Nat
    /\ MaxFaults \in Nat

VARIABLES
    pc,       \* where each process stands
    todo,     \* client: the entities of the save, uuid -> request
    left,     \* client: uuids still to write, then still to project
    docs,     \* process: uuid -> document carrying its exact generation
    batch,    \* process: uuids of the chunk being worked on
    ahead,    \* reconciler: uuids below the page cursor
    stack,    \* reconciler: sub-batches of the page still to be tried
    faults    \* faults so far

procVars == <<pc, todo, left, docs, batch, ahead, stack, faults>>
vars == <<ledger, graph, index, net, pc, todo, left, docs, batch, ahead, stack,
          faults>>

NoRequest == [group |-> NoGroup, val |-> NoVector]
NoRequests == [u \in Uuids |-> NoRequest]
NoDocuments == [u \in Uuids |-> NoDocument]

ClientPc == {"idle", "failed", "write", "sync", "reserve", "prepare"}
ReconcilerPc == {"sleep", "scan_deletes", "scan_saves", "sync"}
BothPc == {"syncing", "clear", "bury", "burying", "finalize"}

TypeOK ==
    /\ StoreTypeOK
    /\ pc \in [Procs -> ClientPc \cup ReconcilerPc \cup BothPc]
    /\ \A c \in Clients : pc[c] \in ClientPc \cup BothPc
    /\ \A r \in Reconcilers : pc[r] \in ReconcilerPc \cup BothPc
    /\ todo \in [Clients -> [Uuids -> Request \cup {NoRequest}]]
    /\ left \in [Clients -> SUBSET Uuids]
    /\ docs \in [Procs -> [Uuids -> Document]]
    /\ batch \in [Procs -> SUBSET Uuids]
    /\ ahead \in [Reconcilers -> SUBSET Uuids]
    /\ stack \in [Reconcilers -> Seq(SUBSET Uuids)]
    /\ faults \in 0..MaxFaults

Init ==
    /\ StoreInit
    /\ pc = [p \in Procs |-> IF p \in Clients THEN "idle" ELSE "sleep"]
    /\ todo = [c \in Clients |-> NoRequests]
    /\ left = [c \in Clients |-> {}]
    /\ docs = [p \in Procs |-> NoDocuments]
    /\ batch = [p \in Procs |-> {}]
    /\ ahead = [r \in Reconcilers |-> {}]
    /\ stack = [r \in Reconcilers |-> <<>>]
    /\ faults = 0

Goto(p, where) == pc' = [pc EXCEPT ![p] = where]

(* The operation of a client ends and its locals go out of scope.          *)
Ends(c, how) ==
    /\ Goto(c, how)
    /\ todo' = [todo EXCEPT ![c] = NoRequests]
    /\ left' = [left EXCEPT ![c] = {}]
    /\ docs' = [docs EXCEPT ![c] = NoDocuments]
    /\ batch' = [batch EXCEPT ![c] = {}]

Chunks(S) == {C \in SUBSET S : C # {} /\ Cardinality(C) <= BatchSize}

(* Slices of batch_size; only the last may be smaller.                     *)
Slices(S) ==
    {C \in Chunks(S) : C = S \/ Cardinality(C) = BatchSize}

Affordable(S) == \A u \in S : ledger[u] < MaxGeneration

-----------------------------------------------------------------------------
(* Clients: save and save_bulk.                                            *)

(* Duplicate uuids of a call are collapsed before either store is touched, *)
(* so a save is a function from uuids to the last value given for each.    *)
StartSave(c) ==
    /\ pc[c] \in {"idle", "failed"}
    /\ \E S \in (SUBSET Uuids) \ {{}} : \E req \in [S -> Request] :
          /\ Affordable(S)
          /\ todo' = [todo EXCEPT ![c] =
                [u \in Uuids |-> IF u \in S THEN req[u] ELSE NoRequest]]
          /\ left' = [left EXCEPT ![c] = S]
    /\ Goto(c, "write")
    /\ UNCHANGED <<storeVars, docs, batch, ahead, stack, faults>>

(* The documents once a chunk's query returned its entities, each with its *)
(* new generation.                                                         *)
Persisted(c, C) ==
    [u \in Uuids |->
        IF u \in C /\ Accepts(u, todo[c][u].group)
        THEN [ver |-> ledger[u] + 1, group |-> todo[c][u].group,
              val |-> todo[c][u].val]
        ELSE docs[c][u]]

Named(c) == {u \in Uuids : todo[c][u] # NoRequest}
Versioned(d) == {u \in Uuids : d[u] # NoDocument}

(* One query per chunk.  After the last, the call raises                   *)
(* NodeGroupMismatchError if any entity was refused, whatever the others   *)
(* wrote; with projections disabled it ends here and leaves the markers.   *)
SaveChunk(c) ==
    /\ pc[c] = "write"
    /\ \E C \in Chunks(left[c]) :
          LET saved == Persisted(c, C)
              complete == Versioned(saved) = Named(c)
          IN /\ Affordable(C)
             /\ ledger' = Reserved(C)
             /\ graph' = Saved(C, todo[c])
             /\ \/ /\ C # left[c]
                   /\ docs' = [docs EXCEPT ![c] = saved]
                   /\ left' = [left EXCEPT ![c] = @ \ C]
                   /\ UNCHANGED <<pc, todo, batch>>
                \/ /\ C = left[c] /\ complete /\ c \in Projecting
                   /\ docs' = [docs EXCEPT ![c] = saved]
                   /\ left' = [left EXCEPT ![c] = Versioned(saved)]
                   /\ Goto(c, "sync")
                   /\ UNCHANGED <<todo, batch>>
                \/ C = left[c] /\ complete /\ c \notin Projecting /\ Ends(c, "idle")
                \/ C = left[c] /\ ~complete /\ Ends(c, "failed")
    /\ UNCHANGED <<index, net, ahead, stack, faults>>

(* One malformed embedding makes save_vector_to_aoss raise for the chunk   *)
(* before anything is sent.                                                *)
Sendable(S, d) == \A u \in S : d[u].val \notin Malformed

SyncChunk(c) ==
    /\ c \in Clients
    /\ pc[c] = "sync"
    /\ \E C \in Slices(left[c]) :
          \/ /\ Sendable(C, docs[c])
             /\ net' = net \cup Requests(C, docs[c])
             /\ batch' = [batch EXCEPT ![c] = C]
             /\ left' = [left EXCEPT ![c] = @ \ C]
             /\ Goto(c, "syncing")
             /\ UNCHANGED <<todo, docs>>
          \/ ~Sendable(C, docs[c]) /\ Ends(c, "failed") /\ UNCHANGED net
    /\ UNCHANGED <<ledger, graph, index, ahead, stack, faults>>

ClearSaved(c) ==
    /\ c \in Clients
    /\ pc[c] = "clear"
    /\ graph' = Cleared(batch[c], docs[c])
    /\ \/ left[c] # {} /\ Goto(c, "sync") /\ UNCHANGED <<todo, left, docs, batch>>
       \/ left[c] = {} /\ Ends(c, "idle")
    /\ UNCHANGED <<ledger, index, net, ahead, stack, faults>>

-----------------------------------------------------------------------------
(* Clients: delete, delete_by_uuids and delete_by_group_id, a chunk at a   *)
(* time: _delete_chunk is complete in itself, so a longer deletion is a    *)
(* sequence of these.                                                      *)
StartDelete(c) ==
    /\ pc[c] \in {"idle", "failed"}
    /\ \E C \in Chunks(Uuids) :
          /\ Affordable(C)
          /\ batch' = [batch EXCEPT ![c] = C]
    /\ Goto(c, "reserve")
    /\ UNCHANGED <<storeVars, todo, left, docs, ahead, stack, faults>>

ReserveDeletion(c) ==
    /\ pc[c] = "reserve"
    /\ Affordable(batch[c])
    /\ ledger' = Reserved(batch[c])
    /\ docs' = [docs EXCEPT ![c] =
          [u \in Uuids |-> IF u \in batch[c] THEN Tombstone(ledger[u] + 1)
                           ELSE NoDocument]]
    /\ Goto(c, "prepare")
    /\ UNCHANGED <<graph, index, net, todo, left, batch, ahead, stack, faults>>

PrepareDeletion(c) ==
    /\ pc[c] = "prepare"
    /\ graph' = Prepared(batch[c], docs[c])
    /\ Goto(c, "bury")
    /\ UNCHANGED <<ledger, index, net, todo, left, docs, batch, ahead, stack, faults>>

FinalizeDeletion(c) ==
    /\ c \in Clients
    /\ pc[c] = "finalize"
    /\ graph' = Finalized(batch[c], docs[c])
    /\ Ends(c, "idle")
    /\ UNCHANGED <<ledger, index, net, ahead, stack, faults>>

-----------------------------------------------------------------------------
(* Reconcilers: one sweep handles the pending deletions page by page, then *)
(* the pending saves.                                                      *)

Asleep(r) ==
    /\ Goto(r, "sleep")
    /\ docs' = [docs EXCEPT ![r] = NoDocuments]
    /\ batch' = [batch EXCEPT ![r] = {}]
    /\ ahead' = [ahead EXCEPT ![r] = {}]
    /\ stack' = [stack EXCEPT ![r] = <<>>]

StartSweep(r) ==
    /\ pc[r] = "sleep"
    /\ ahead' = [ahead EXCEPT ![r] = Uuids]
    /\ Goto(r, "scan_deletes")
    /\ UNCHANGED <<storeVars, todo, left, docs, batch, stack, faults>>

(* The n largest uuids: ORDER BY uuid DESC LIMIT n.                        *)
Page(S, n) == {u \in S : Cardinality({v \in S : v > u}) < n}

(* A page of markers, with the generations and embeddings of this moment.  *)
ReadPage(r, page, records, next) ==
    /\ page # {}
    /\ docs' = [docs EXCEPT ![r] =
          [u \in Uuids |-> IF u \in page THEN records[u] ELSE NoDocument]]
    /\ batch' = [batch EXCEPT ![r] = page]
    /\ ahead' = [ahead EXCEPT ![r] =
          IF Cardinality(page) < BatchSize THEN {}
          ELSE {u \in @ : \A v \in page : u < v}]
    /\ Goto(r, next)
    /\ UNCHANGED <<storeVars, todo, left, stack, faults>>

ScanDeletes(r) ==
    /\ pc[r] = "scan_deletes"
    /\ LET page == Page(PendingDeletes \cap ahead[r], BatchSize)
       IN ReadPage(r, page, [u \in page |-> Tombstone(graph[u].ver)], "bury")

ScanSaves(r) ==
    /\ pc[r] = "scan_saves"
    /\ LET page == Page(PendingSaves \cap ahead[r], BatchSize)
       IN ReadPage(r, page,
                   [u \in page |-> [ver |-> graph[u].ver, group |-> graph[u].group,
                                    val |-> graph[u].val]], "sync")

(* The last page is done.  A sweep whose driver does not project leaves    *)
(* the save markers alone.                                                 *)
DeletesSwept(r) ==
    /\ pc[r] = "scan_deletes"
    /\ PendingDeletes \cap ahead[r] = {}
    /\ \/ /\ r \in Projecting
          /\ ahead' = [ahead EXCEPT ![r] = Uuids]
          /\ Goto(r, "scan_saves")
          /\ UNCHANGED <<docs, batch, stack>>
       \/ r \notin Projecting /\ Asleep(r)
    /\ UNCHANGED <<storeVars, todo, left, faults>>

SavesSwept(r) ==
    /\ pc[r] = "scan_saves"
    /\ PendingSaves \cap ahead[r] = {}
    /\ Asleep(r)
    /\ UNCHANGED <<storeVars, todo, left, faults>>

(* On to the sub-batch on top of the stack, or back to reading a page.     *)
NextBatch(r, work, scan) ==
    \/ /\ stack[r] # <<>>
       /\ batch' = [batch EXCEPT ![r] = Head(stack[r])]
       /\ stack' = [stack EXCEPT ![r] = Tail(@)]
       /\ Goto(r, work)
       /\ UNCHANGED docs
    \/ /\ stack[r] = <<>>
       /\ batch' = [batch EXCEPT ![r] = {}]
       /\ docs' = [docs EXCEPT ![r] = NoDocuments]
       /\ Goto(r, scan)
       /\ UNCHANGED stack

SweepSync(r) ==
    /\ r \in Reconcilers
    /\ pc[r] = "sync"
    /\ Sendable(batch[r], docs[r])
    /\ net' = net \cup Requests(batch[r], docs[r])
    /\ Goto(r, "syncing")
    /\ UNCHANGED <<ledger, graph, index, todo, left, docs, batch, ahead, stack, faults>>

SweepClear(r) ==
    /\ r \in Reconcilers
    /\ pc[r] = "clear"
    /\ graph' = Cleared(batch[r], docs[r])
    /\ NextBatch(r, "sync", "scan_saves")
    /\ UNCHANGED <<ledger, index, net, todo, left, ahead, faults>>

SweepFinalize(r) ==
    /\ r \in Reconcilers
    /\ pc[r] = "finalize"
    /\ graph' = Finalized(batch[r], docs[r])
    /\ NextBatch(r, "bury", "scan_deletes")
    /\ UNCHANGED <<ledger, index, net, todo, left, ahead, faults>>

(* Deviation: a failed batch is given up as a whole.                       *)
DropBatch(r, work, scan) == NextBatch(r, work, scan)

(* A failed batch is tried again as two halves; a single record that fails *)
(* is counted and left pending for the next sweep.                         *)
SplitBatch(r, work, scan) ==
    LET first == Page(batch[r], Cardinality(batch[r]) \div 2)
    IN \/ /\ first # {}
          /\ batch' = [batch EXCEPT ![r] = first]
          /\ stack' = [stack EXCEPT ![r] = <<batch[r] \ first>> \o @]
          /\ Goto(r, work)
          /\ UNCHANGED docs
       \/ first = {} /\ NextBatch(r, work, scan)

(* The documents of the batch do not validate: no store is touched.        *)
SweepRejects(r) ==
    /\ r \in Reconcilers
    /\ pc[r] = "sync"
    /\ ~Sendable(batch[r], docs[r])
    /\ SplitBatch(r, "sync", "scan_saves")
    /\ UNCHANGED <<storeVars, todo, left, ahead, faults>>

(* A bulk call or a query of the batch raises.                             *)
SweepBatchFails(r) ==
    /\ r \in Reconcilers
    /\ faults < MaxFaults
    /\ faults' = faults + 1
    /\ \/ /\ pc[r] \in {"sync", "syncing", "clear"}
          /\ SplitBatch(r, "sync", "scan_saves")
       \/ /\ pc[r] \in {"bury", "burying", "finalize"}
          /\ SplitBatch(r, "bury", "scan_deletes")
    /\ UNCHANGED <<storeVars, todo, left, ahead>>

(* A page query raises, which abandons the sweep until the next interval,  *)
(* or the replica restarts.                                                *)
SweepAborts(r) ==
    /\ pc[r] # "sleep"
    /\ faults < MaxFaults
    /\ faults' = faults + 1
    /\ Asleep(r)
    /\ UNCHANGED <<storeVars, todo, left>>

-----------------------------------------------------------------------------
(* Steps clients and reconcilers share.                                    *)

(* delete_from_aoss_async: one tombstone per uuid of the batch.            *)
Bury(p) ==
    /\ pc[p] = "bury"
    /\ net' = net \cup Requests(batch[p], docs[p])
    /\ Goto(p, "burying")
    /\ UNCHANGED <<ledger, graph, index, todo, left, docs, batch, ahead, stack, faults>>

(* The bulk response arrives: every document applied or superseded.        *)
BulkSucceeds(p) ==
    /\ pc[p] \in {"syncing", "burying"}
    /\ Acknowledged(batch[p], docs[p])
    /\ Goto(p, IF pc[p] = "syncing" THEN "clear" ELSE "finalize")
    /\ UNCHANGED <<storeVars, todo, left, docs, batch, ahead, stack, faults>>

(* A query or a bulk call raises, or the process dies, at any await of a   *)
(* client's operation: nothing done so far is undone, and requests already *)
(* sent may still land.                                                    *)
ClientFails(c) ==
    /\ pc[c] \notin {"idle", "failed"}
    /\ faults < MaxFaults
    /\ faults' = faults + 1
    /\ Ends(c, "failed")
    /\ UNCHANGED <<storeVars, ahead, stack>>

Lands(w) == Deliver(w) /\ UNCHANGED procVars

-----------------------------------------------------------------------------
ClientStep(c) ==
    \/ SaveChunk(c) \/ SyncChunk(c) \/ ClearSaved(c)
    \/ ReserveDeletion(c) \/ PrepareDeletion(c) \/ FinalizeDeletion(c)
    \/ Bury(c) \/ BulkSucceeds(c)

ReconcilerStep(r) ==
    \/ StartSweep(r) \/ ScanDeletes(r) \/ ScanSaves(r)
    \/ DeletesSwept(r) \/ SavesSwept(r)
    \/ SweepSync(r) \/ SweepClear(r) \/ SweepFinalize(r) \/ SweepRejects(r)
    \/ Bury(r) \/ BulkSucceeds(r)

Next ==
    \/ \E c \in Clients :
          StartSave(c) \/ StartDelete(c) \/ ClientStep(c) \/ ClientFails(c)
    \/ \E r \in Reconcilers :
          ReconcilerStep(r) \/ SweepBatchFails(r) \/ SweepAborts(r)
    \/ \E w \in net : Lands(w)

Spec == Init /\ [][Next]_vars

(* A bulk call that does not raise is carried out (faults are counted), so *)
(* a request somebody is waiting for lands; a process that is not waiting  *)
(* goes on; a reconciler wakes up again after every interval.              *)
AwaitedLands(p) ==
    \E u \in batch[p] :
        /\ pc[p] \in {"syncing", "burying"}
        /\ Lands([uuid |-> u, doc |-> docs[p][u]])

Fairness ==
    /\ \A c \in Clients : WF_vars(ClientStep(c))
    /\ \A r \in Reconcilers : WF_vars(ReconcilerStep(r))
    /\ \A p \in Procs : WF_vars(AwaitedLands(p))

FairSpec == Spec /\ Fairness

-----------------------------------------------------------------------------
(* Properties.                                                             *)

Clean(u) == Exists(u) /\ ~graph[u].del /\ graph[u].sync = 0

(* Wherever no marker is pending the index agrees with the graph: an       *)
(* entity without markers has its own generation, partition and embedding  *)
(* in the index, whatever was in flight when the marker was cleared        *)
(* (clear_projection_sync_pending after a versioned bulk write).           *)
CleanMirrored ==
    \A u \in Uuids :
        Clean(u) => index[u] = [ver |-> graph[u].ver, group |-> graph[u].group,
                                val |-> graph[u].val]

(* A searchable vector always belongs to an entity of the graph, in the    *)
(* same partition: a late write never resurrects a deleted uuid, nor shows *)
(* a reused uuid to its former tenant (tombstones with strict versions,    *)
(* written before the finalize query removes the entity).                  *)
VectorsOwned ==
    \A u \in Uuids :
        Live(index[u]) => Exists(u) /\ index[u].group = graph[u].group

(* A deletion that returns without raising has removed everything that was *)
(* in the graph when it reserved its generation: what is left, if          *)
(* anything, was written or is being deleted under a later generation.     *)
DeletionEffective ==
    [][\A c \in Clients :
          pc[c] = "finalize" /\ pc'[c] = "idle" =>
            \A u \in batch[c] :
                /\ graph'[u] = Absent \/ graph'[u].ver > docs[c][u].ver
                /\ Live(index[u]) => index[u].ver > docs[c][u].ver]_vars

(* A pending marker is eventually resolved once faults cease, even next to *)
(* records the index will always reject, which stay pending themselves     *)
(* (the halving of failed batches in the reconciler).                      *)
Repairable(u) == Exists(u) /\ ~Clean(u) /\ (graph[u].del \/ graph[u].val \notin Malformed)

MarkersResolved == \A u \in Uuids : Repairable(u) ~> ~Repairable(u)

(* The index is a materialized view of the graph: the source is what reads *)
(* see (an entity marked for deletion is hidden from them), the view is    *)
(* what a vector search can hit, and the stale keys are the uuids with a   *)
(* pending marker.                                                         *)
SourceOf(u) ==
    IF Removed(u) THEN NoVector
    ELSE IF graph[u].val = NoVector THEN NoVector
    ELSE <<graph[u].group, graph[u].val>>

ViewOf(u) ==
    IF Live(index[u]) THEN <<index[u].group, index[u].val>> ELSE NoVector

View == INSTANCE MaterializedView WITH
    Keys <- Uuids,
    Values <- Groups \X Embeddings,
    None <- NoVector,
    source <- [u \in Uuids |-> SourceOf(u)],
    view <- [u \in Uuids |-> ViewOf(u)],
    stale <- {u \in Uuids : Exists(u) /\ ~Clean(u)}

ViewSpec == View!Spec

-----------------------------------------------------------------------------
(* The inductive invariant.                                                *)

Content(u) ==
    [ver |-> graph[u].ver, group |-> graph[u].group, val |-> graph[u].val]

(* A document of u that is stored, under way, or held by a process: it is  *)
(* no newer than the entity and, at the same generation, it is what the    *)
(* entity says; if searchable, it is either too old to be accepted or of   *)
(* the entity's own partition.                                             *)
Coherent(u, d) ==
    /\ d.ver <= ledger[u]
    /\ Exists(u) =>
         /\ d.ver <= graph[u].ver
         /\ d.ver = graph[u].ver =>
              IF graph[u].del THEN ~Live(d) ELSE d = Content(u)
    /\ Live(d) =>
         \/ d.ver <= index[u].ver
         \/ Exists(u) /\ d.group = graph[u].group

EntitiesCoherent ==
    \A u \in Uuids : Exists(u) =>
        /\ 0 < graph[u].ver /\ graph[u].ver <= ledger[u]
        /\ graph[u].sync \in {0, graph[u].ver} \/ graph[u].del

IndexCoherent == \A u \in Uuids : Coherent(u, index[u])

NetCoherent == \A w \in net : Coherent(w.uuid, w.doc)

(* A deletion between its reservation and its prepare query is the one     *)
(* holder of a document the graph does not know of yet.                    *)
HeldCoherent ==
    \A p \in Procs : \A u \in Uuids :
        IF pc[p] = "prepare"
        THEN /\ ~Live(docs[p][u])
             /\ docs[p][u].ver <= ledger[u]
             /\ docs[p][u].ver # 0 => u \in batch[p]
             /\ Exists(u) => graph[u].ver # docs[p][u].ver
        ELSE Coherent(u, docs[p][u])

ReservationsDistinct ==
    \A p, q \in Procs : \A u \in Uuids :
        /\ p # q /\ pc[p] = "prepare" /\ pc[q] = "prepare"
        /\ docs[p][u].ver # 0
        => docs[p][u].ver # docs[q][u].ver

BulkDurable ==
    \A p \in Procs : pc[p] \in {"clear", "finalize"} =>
        \A u \in batch[p] : index[u].ver >= docs[p][u].ver

CleanVersions == \A u \in Uuids : Clean(u) => index[u].ver = graph[u].ver

RequestsValid ==
    \A c \in Clients : pc[c] = "write" => \A u \in left[c] : todo[c][u] \in Request

Inv ==
    /\ TypeOK
    /\ RequestsValid
    /\ EntitiesCoherent
    /\ IndexCoherent
    /\ NetCoherent
    /\ HeldCoherent
    /\ ReservationsDistinct
    /\ BulkDurable
    /\ CleanVersions
    /\ VectorsOwned
=============================================================================
