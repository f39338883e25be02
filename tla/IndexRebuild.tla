----------------------------- MODULE IndexRebuild -----------------------------
(***************************************************************************)
(* Rebuilding the vector index from the graph.  An operator stops          *)
(* ingestion and deletion, deletes and creates the index (or purges the    *)
(* documents of one group), streams every embedding of the graph into it   *)
(* in two passes, and only then may vector reads be enabled.  The          *)
(* reconcilers are not stopped: they go on repairing markers while the     *)
(* index is missing, empty or half full.  A rebuild that fails is begun    *)
(* again.  Meanwhile, or for want of a rebuild, the graph may have been    *)
(* served by code that knows nothing of the index.                         *)
(***************************************************************************)
EXTENDS VectorProjection, FiniteSetsExt

CONSTANTS
    AllGroups,     \* scope of --all-groups
    MaxReserved,   \* bound: generations taken when a client begins
    MaxRebuilds,   \* bound: rebuilds begun
    MaxLegacy      \* bound: deletions by code that does not project

ASSUME RebuildAssumption ==
    /\ IsFiniteSet(Uuids)
    /\ AllGroups \notin Groups
    /\ MaxReserved \in Nat /\ MaxRebuilds \in Nat /\ MaxLegacy \in Nat

VARIABLES
    op,        \* where the backfill command stands
    scope,     \* the group it repairs, or AllGroups
    round,     \* the pass it is in
    rest,      \* uuids to purge, then uuids below the page cursor
    page,      \* uuid -> document of the page read last
    present,   \* the index exists
    ready,     \* vector reads may be enabled
    rebuilds,
    legacy

opVars == <<op, scope, round, rest, page, present, ready, rebuilds, legacy>>
allVars == <<vars, opVars>>

Idle == op \in {"idle", "failed", "complete"}

RebuildTypeOK ==
    /\ TypeOK
    /\ op \in {"idle", "delete", "create", "list", "purge", "read", "write",
               "writing", "clear", "complete", "failed"}
    /\ scope \in Groups \cup {AllGroups}
    /\ round \in 1..2
    /\ rest \in SUBSET Uuids
    /\ page \in [Uuids -> Document]
    /\ present \in BOOLEAN /\ ready \in BOOLEAN
    /\ rebuilds \in 0..MaxRebuilds /\ legacy \in 0..MaxLegacy

(* The index was created when its collection was verified; it has never    *)
(* been filled from the graph.                                             *)
InitRebuild ==
    /\ Init
    /\ op = "idle" /\ scope = AllGroups /\ round = 1
    /\ rest = {} /\ page = NoDocuments
    /\ present = TRUE /\ ready = FALSE
    /\ rebuilds = 0 /\ legacy = 0

-----------------------------------------------------------------------------
(* Clients and reconcilers, as in VectorProjection but for what depends on *)
(* the index being there.                                                  *)

(* Generations taken so far.                                               *)
Generations == MapThenSumSet(LAMBDA u : ledger[u], Uuids)

ClientActs(c) ==
    /\ \/ /\ op = "idle"
          /\ Generations < MaxReserved
          /\ StartSave(c) \/ StartDelete(c)
       \/ ClientStep(c) \/ ClientFails(c)
    /\ UNCHANGED opVars

(* A deletion that finds no index counts as done.                          *)
BuryNowhere(r) ==
    /\ pc[r] = "bury" /\ ~present
    /\ Goto(r, "finalize")
    /\ UNCHANGED <<storeVars, todo, left, docs, batch, ahead, stack, faults>>

(* A bulk call to an index that is gone is refused.                        *)
BulkRefused(r) ==
    /\ ~present
    /\ \/ pc[r] = "syncing" /\ SplitBatch(r, "sync", "scan_saves")
       \/ pc[r] = "burying" /\ SplitBatch(r, "bury", "scan_deletes")
    /\ UNCHANGED <<storeVars, todo, left, ahead, faults>>

ReconcilerGoesOn(r) ==
    /\ \/ (pc[r] = "bury" => present) /\ ReconcilerStep(r)
       \/ BuryNowhere(r) \/ BulkRefused(r)
    /\ UNCHANGED opVars

ReconcilerActs(r) ==
    \/ ReconcilerGoesOn(r)
    \/ (SweepBatchFails(r) \/ SweepAborts(r)) /\ UNCHANGED opVars

RequestLands(w) == present /\ Lands(w) /\ UNCHANGED opVars

NobodyWorks ==
    /\ \A c \in Clients : pc[c] \in {"idle", "failed"}
    /\ \A r \in Reconcilers : pc[r] = "sleep"

(* Code that does not maintain the index was deployed in place of the one  *)
(* that does and deletes an entity; until the next rebuild the index is    *)
(* not to be trusted.                                                      *)
LegacyDelete(u) ==
    /\ op = "idle"
    /\ NobodyWorks
    /\ Exists(u)
    /\ legacy < MaxLegacy
    /\ legacy' = legacy + 1
    /\ graph' = [graph EXCEPT ![u] = Absent]
    /\ ready' = FALSE
    /\ UNCHANGED <<ledger, index, net, procVars, op, scope, round, rest, page,
                   present, rebuilds>>

-----------------------------------------------------------------------------
(* The backfill command.                                                   *)

(* Deviation: the documents of the index are only overwritten.             *)
FirstStepKeeping(s) == "create"

(* All groups: delete and create the index.  One group: the index is       *)
(* confirmed and the group's documents are purged.                         *)
FirstStep(s) == IF s = AllGroups THEN "delete" ELSE "create"

Starts(s) ==
    /\ scope' = s
    /\ op' = FirstStep(s)
    /\ round' = 1
    /\ rest' = {}
    /\ page' = NoDocuments

(* The operator acknowledges that ingestion and deletion are stopped and   *)
(* that everything in flight is over, the sweeps and the index requests    *)
(* included.  For an all-groups reset reads are disabled; one group is     *)
(* repaired later, while reads may be on.                                  *)
Begin(s) ==
    /\ op = "idle"
    /\ rebuilds < MaxRebuilds
    /\ NobodyWorks
    /\ s # AllGroups => ready
    /\ Starts(s)
    /\ net' = {}
    /\ ready' = (ready /\ s # AllGroups)
    /\ rebuilds' = rebuilds + 1
    /\ UNCHANGED <<ledger, graph, index, procVars, present, legacy>>

(* After a failure, with everything still quiesced.                        *)
Rerun ==
    /\ op = "failed"
    /\ \/ present /\ rebuilds < MaxRebuilds /\ rebuilds' = rebuilds + 1
       \/ ~present /\ UNCHANGED rebuilds
    /\ Starts(scope)
    /\ UNCHANGED <<vars, present, ready, legacy>>

DeleteIndex ==
    /\ op = "delete"
    /\ index' = [u \in Uuids |-> NoDocument]
    /\ present' = FALSE
    /\ op' = "create"
    /\ UNCHANGED <<ledger, graph, net, procVars, scope, round, rest, page, ready,
                   rebuilds, legacy>>

CreateIndex ==
    /\ op = "create"
    /\ present' = TRUE
    /\ \/ scope = AllGroups /\ op' = "read" /\ rest' = Uuids
       \/ scope # AllGroups /\ op' = "list" /\ UNCHANGED rest
    /\ UNCHANGED <<vars, scope, round, page, ready, rebuilds, legacy>>

(* The purge lists the documents of the group and then deletes them by     *)
(* their ids, whatever they have become.                                   *)
ListDocuments ==
    /\ op = "list"
    /\ rest' = {u \in Uuids : index[u].group = scope}
    /\ op' = "purge"
    /\ UNCHANGED <<vars, scope, round, page, present, ready, rebuilds, legacy>>

PurgeDocuments ==
    /\ op = "purge"
    /\ index' = [u \in Uuids |-> IF u \in rest THEN NoDocument ELSE index[u]]
    /\ rest' = Uuids
    /\ op' = "read"
    /\ UNCHANGED <<ledger, graph, net, procVars, scope, round, page, present, ready,
                   rebuilds, legacy>>

(* Entities of the scope that are not being deleted and have an embedding. *)
Backfillable ==
    {u \in Uuids : /\ Exists(u)
                   /\ ~graph[u].del
                   /\ graph[u].val # NoVector
                   /\ scope \in {AllGroups, graph[u].group}}

(* What is below the cursor once the page C was read.                      *)
Below(C) ==
    IF Cardinality(C) < BatchSize THEN {} ELSE {u \in rest : \A v \in C : u < v}

(* A page of the pass; after the last page of the second pass the command  *)
(* succeeds, and the all-groups scope authorizes reads.                    *)
ReadBatch ==
    /\ op = "read"
    /\ LET C == Page(Backfillable \cap rest, BatchSize)
       IN \/ /\ C # {}
             /\ page' = [u \in Uuids |->
                   IF u \in C THEN [ver |-> graph[u].ver, group |-> graph[u].group,
                                    val |-> graph[u].val]
                   ELSE NoDocument]
             /\ rest' = Below(C)
             /\ op' = "write"
             /\ UNCHANGED <<round, ready>>
          \/ /\ C = {} /\ round = 1
             /\ round' = 2
             /\ rest' = Uuids
             /\ UNCHANGED <<op, page, ready>>
          \/ /\ C = {} /\ round = 2
             /\ op' = "complete"
             /\ rest' = {}
             /\ ready' = (ready \/ scope = AllGroups)
             /\ UNCHANGED <<round, page>>
    /\ UNCHANGED <<vars, scope, present, rebuilds, legacy>>

(* Reads must stay, or be, disabled after a failure.                       *)
Fails ==
    /\ op' = "failed"
    /\ rest' = {}
    /\ page' = NoDocuments
    /\ ready' = FALSE
    /\ UNCHANGED <<ledger, graph, index, net, scope, round, present, rebuilds, legacy>>

(* index_batch_async: a malformed embedding stops the command before       *)
(* anything of its page is sent.                                           *)
WriteBatch ==
    /\ op = "write"
    /\ Sendable(Versioned(page), page)
    /\ net' = net \cup Requests(Versioned(page), page)
    /\ op' = "writing"
    /\ UNCHANGED <<ledger, graph, index, procVars, scope, round, rest, page, present,
                   ready, rebuilds, legacy>>

RejectBatch ==
    /\ op = "write"
    /\ ~Sendable(Versioned(page), page)
    /\ Fails
    /\ UNCHANGED procVars

(* Deviation: the count of the bulk answer is not looked at.               *)
UncheckedAnswer == op = "writing"

BatchAnswered == op = "writing" /\ Acknowledged(Versioned(page), page)

BatchIndexed ==
    /\ BatchAnswered
    /\ op' = "clear"
    /\ UNCHANGED <<vars, scope, round, rest, page, present, ready, rebuilds, legacy>>

ClearBatch ==
    /\ op = "clear"
    /\ graph' = Cleared(Versioned(page), page)
    /\ page' = NoDocuments
    /\ op' = "read"
    /\ UNCHANGED <<ledger, index, net, procVars, scope, round, rest, present, ready,
                   rebuilds, legacy>>

(* Any call of the command raises, or its process is killed.               *)
CommandFails ==
    /\ ~Idle
    /\ faults < MaxFaults
    /\ faults' = faults + 1
    /\ Fails
    /\ UNCHANGED <<pc, todo, left, docs, batch, ahead, stack>>

(* Ingestion and deletion go on after a success, or when the operator puts *)
(* the rebuild off.                                                        *)
Resume ==
    /\ op \in {"complete", "failed"}
    /\ present
    /\ op' = "idle"
    /\ UNCHANGED <<vars, scope, round, rest, page, present, ready, rebuilds, legacy>>

-----------------------------------------------------------------------------
CommandStep ==
    \/ DeleteIndex \/ CreateIndex \/ ListDocuments \/ PurgeDocuments
    \/ ReadBatch \/ WriteBatch \/ RejectBatch \/ BatchIndexed \/ ClearBatch

NextRebuild ==
    \/ \E c \in Clients : ClientActs(c)
    \/ \E r \in Reconcilers : ReconcilerActs(r)
    \/ \E w \in net : RequestLands(w)
    \/ \E u \in Uuids : LegacyDelete(u)
    \/ \E s \in Groups \cup {AllGroups} : Begin(s)
    \/ CommandStep \/ Rerun \/ CommandFails \/ Resume

SpecRebuild == InitRebuild /\ [][NextRebuild]_allVars

(* The reconcilers wake up after every interval and their requests land if *)
(* nothing raises.  An operator whose command has deleted the index sees   *)
(* it created, by this command or by another.                              *)
RebuildFairness ==
    /\ \A r \in Reconcilers :
          /\ WF_allVars(ReconcilerGoesOn(r))
          /\ WF_allVars(present /\ AwaitedLands(r) /\ UNCHANGED opVars)
    /\ WF_allVars(~present /\ (CommandStep \/ Rerun))

FairRebuild == SpecRebuild /\ RebuildFairness

-----------------------------------------------------------------------------
(* Properties.                                                             *)

(* Whenever reads may be enabled, a searchable vector belongs to an entity *)
(* of its partition, and an entity that has an embedding and no marker is  *)
(* found by it, unless its group is under repair: nothing of the old       *)
(* index, of a failed rebuild or of a sweep that went on during the reset  *)
(* shows (backfill_embeddings._main_async).                                *)
ReadsSound ==
    ready =>
        /\ VectorsOwned
        /\ \A u \in Uuids :
              Clean(u) /\ graph[u].val # NoVector /\ ~(op # "idle" /\ graph[u].group = scope)
                  => index[u] = Content(u)

(* A command that reports success has made the index an exact image of its *)
(* scope: every embedding and nothing else can be found in the groups it   *)
(* repaired, although reconcilers cleared, finalized and wrote between its *)
(* pages, and earlier attempts failed.                                     *)
Found(u, g) == IF Live(index[u]) /\ index[u].group = g THEN index[u].val ELSE NoVector
Stored(u, g) == IF ~Removed(u) /\ graph[u].group = g THEN graph[u].val ELSE NoVector

RebuildExact ==
    op = "complete" =>
        \A g \in Groups : scope \in {AllGroups, g} =>
            \A u \in Uuids : Found(u, g) = Stored(u, g)
=============================================================================
