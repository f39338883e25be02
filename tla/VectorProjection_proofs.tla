----------------------- MODULE VectorProjection_proofs -----------------------
(***************************************************************************)
(* Machine-checked proofs about VectorProjection and, in the second half,  *)
(* about IndexRebuild, which extends it: for any number of partitions,     *)
(* embeddings, clients and reconcilers, any batch size and any bounds; for *)
(* any uuids, and as far as pages of the backfill are concerned any finite *)
(* set of them.                                                            *)
(***************************************************************************)
EXTENDS IndexRebuild, SequenceTheorems, FiniteSetTheorems, WellFoundedInduction, TLAPS

LEMMA DocumentTypes ==
    /\ NoRequest = [group |-> NoGroup, val |-> NoVector]
    /\ NoDocument \in Document
    /\ NoDocuments \in [Uuids -> Document]
    /\ NoRequests \in [Uuids -> Request \cup {NoRequest}]
    /\ \A n \in Nat : Tombstone(n) \in Document
BY DEF NoRequest, NoDocument, NoDocuments, NoRequests, Tombstone, Document, Request, Vectors

LEMMA SavedType ==
    ASSUME TypeOK, NEW C \in SUBSET Uuids, NEW req \in [Uuids -> Request \cup {NoRequest}],
           \A u \in C : req[u] \in Request
    PROVE  /\ Saved(C, req) \in [Uuids -> Entity \cup {Absent}]
           /\ Reserved(C) \in [Uuids -> Nat]
<1>1. ASSUME NEW u \in Uuids
      PROVE (IF u \in C /\ Accepts(u, req[u].group)
             THEN [ver |-> ledger[u] + 1, group |-> req[u].group,
                   val |-> req[u].val, sync |-> ledger[u] + 1, del |-> FALSE]
             ELSE graph[u]) \in Entity \cup {Absent}
  BY DEF TypeOK, StoreTypeOK, Entity, Request
<1>2. QED
  BY <1>1 DEF Saved, Reserved, TypeOK, StoreTypeOK

LEMMA GraphUpdateTypes ==
    ASSUME TypeOK, NEW S \in SUBSET Uuids, NEW d \in [Uuids -> Document]
    PROVE  /\ Cleared(S, d) \in [Uuids -> Entity \cup {Absent}]
           /\ Prepared(S, d) \in [Uuids -> Entity \cup {Absent}]
           /\ Finalized(S, d) \in [Uuids -> Entity \cup {Absent}]
<1>1. ASSUME NEW u \in Uuids, Exists(u)
      PROVE  /\ [graph[u] EXCEPT !.sync = 0] \in Entity
             /\ [graph[u] EXCEPT !.del = TRUE, !.ver = d[u].ver] \in Entity
  <2>1. graph[u] \in Entity
    BY <1>1 DEF Exists, TypeOK, StoreTypeOK
  <2>2. d[u].ver \in Nat
    BY DEF Document
  <2>3. QED
    BY <2>1, <2>2 DEF Entity
<1>2. Cleared(S, d) \in [Uuids -> Entity \cup {Absent}]
  BY <1>1 DEF Cleared, TypeOK, StoreTypeOK
<1>3. Prepared(S, d) \in [Uuids -> Entity \cup {Absent}]
  BY <1>1 DEF Prepared, TypeOK, StoreTypeOK
<1>4. Finalized(S, d) \in [Uuids -> Entity \cup {Absent}]
  BY DEF Finalized, TypeOK, StoreTypeOK
<1>5. QED
  BY <1>2, <1>3, <1>4

LEMMA RequestsType ==
    ASSUME NEW S \in SUBSET Uuids, NEW d \in [Uuids -> Document]
    PROVE  Requests(S, d) \in SUBSET Write
BY DEF Requests, Write

-----------------------------------------------------------------------------
(* Type correctness, an action at a time.                                  *)

Typed == TypeOK /\ RequestsValid

LEMMA EndsTyped ==
    ASSUME Typed, NEW c \in Clients, NEW how \in {"idle", "failed"}, Ends(c, how)
    PROVE  /\ pc' \in [Procs -> ClientPc \cup ReconcilerPc \cup BothPc]
           /\ \A x \in Clients : pc'[x] \in ClientPc \cup BothPc
           /\ \A r \in Reconcilers : pc'[r] \in ReconcilerPc \cup BothPc
           /\ todo' \in [Clients -> [Uuids -> Request \cup {NoRequest}]]
           /\ left' \in [Clients -> SUBSET Uuids]
           /\ docs' \in [Procs -> [Uuids -> Document]]
           /\ batch' \in [Procs -> SUBSET Uuids]
           /\ RequestsValid'
BY DocumentTypes, ProcessAssumption
   DEF Ends, Goto, Typed, TypeOK, RequestsValid, ClientPc, ReconcilerPc, BothPc, Procs

LEMMA PersistedType ==
    ASSUME Typed, NEW c \in Clients, pc[c] = "write", NEW C \in SUBSET left[c]
    PROVE  /\ C \in SUBSET Uuids
           /\ todo[c] \in [Uuids -> Request \cup {NoRequest}]
           /\ \A u \in C : todo[c][u] \in Request
           /\ Persisted(c, C) \in [Uuids -> Document]
<1>1. /\ C \in SUBSET Uuids
      /\ todo[c] \in [Uuids -> Request \cup {NoRequest}]
      /\ \A u \in C : todo[c][u] \in Request
      /\ docs[c] \in [Uuids -> Document]
      /\ ledger \in [Uuids -> Nat]
  BY DEF Typed, TypeOK, StoreTypeOK, RequestsValid, Procs
<1>2. ASSUME NEW u \in C
      PROVE  [ver |-> ledger[u] + 1, group |-> todo[c][u].group, val |-> todo[c][u].val]
                 \in Document
  BY <1>1 DEF Request, Document
<1>3. QED
  BY <1>1, <1>2 DEF Persisted

LEMMA StartSaveTyped ==
    ASSUME Typed, NEW c \in Clients, StartSave(c)
    PROVE  Typed'
BY DocumentTypes, GraphUpdateTypes, RequestsType, SavedType, ProcessAssumption
   DEF StartSave, Typed, TypeOK, StoreTypeOK, RequestsValid, storeVars, procVars, Goto, Ends, ClientPc, ReconcilerPc, BothPc, Procs

LEMMA SaveChunkTyped ==
    ASSUME Typed, NEW c \in Clients, SaveChunk(c)
    PROVE  Typed'
<1>1. PICK C \in Chunks(left[c]) :
        LET saved == Persisted(c, C)
            complete == Versioned(saved) = Named(c)
        IN /\ ledger' = Reserved(C)
           /\ graph' = Saved(C, todo[c])
           /\ \/ /\ docs' = [docs EXCEPT ![c] = saved]
                 /\ left' = [left EXCEPT ![c] = @ \ C]
                 /\ UNCHANGED <<pc, todo, batch>>
              \/ /\ docs' = [docs EXCEPT ![c] = saved]
                 /\ left' = [left EXCEPT ![c] = Versioned(saved)]
                 /\ Goto(c, "sync")
                 /\ UNCHANGED <<todo, batch>>
              \/ Ends(c, "idle")
              \/ Ends(c, "failed")
  BY Zenon DEF SaveChunk
<1>2. C \in SUBSET left[c] /\ pc[c] = "write"
  BY DEF Chunks, SaveChunk
<1>3. /\ C \in SUBSET Uuids
      /\ todo[c] \in [Uuids -> Request \cup {NoRequest}]
      /\ \A u \in C : todo[c][u] \in Request
      /\ Persisted(c, C) \in [Uuids -> Document]
  BY <1>2, PersistedType
<1>4. StoreTypeOK'
  BY <1>1, <1>3, SavedType DEF SaveChunk, Typed, TypeOK, StoreTypeOK
<1>5. UNCHANGED <<ahead, stack, faults>>
  BY DEF SaveChunk
<1>6. CASE /\ docs' = [docs EXCEPT ![c] = Persisted(c, C)]
           /\ left' = [left EXCEPT ![c] = @ \ C]
           /\ UNCHANGED <<pc, todo, batch>>
  BY <1>3, <1>4, <1>5, <1>6 DEF Typed, TypeOK, RequestsValid, Procs
<1>7. CASE /\ docs' = [docs EXCEPT ![c] = Persisted(c, C)]
           /\ left' = [left EXCEPT ![c] = Versioned(Persisted(c, C))]
           /\ Goto(c, "sync")
           /\ UNCHANGED <<todo, batch>>
  <2>1. Versioned(Persisted(c, C)) \in SUBSET Uuids
    BY DEF Versioned
  <2>2. QED
    BY <1>3, <1>4, <1>5, <1>7, <2>1, ProcessAssumption
       DEF Typed, TypeOK, RequestsValid, Procs, Goto, ClientPc, ReconcilerPc, BothPc
<1>8. CASE Ends(c, "idle") \/ Ends(c, "failed")
  BY <1>4, <1>5, <1>8, EndsTyped DEF Typed, TypeOK
<1>9. QED
  BY <1>1, <1>6, <1>7, <1>8

LEMMA SyncChunkTyped ==
    ASSUME Typed, NEW c \in Clients, SyncChunk(c)
    PROVE  Typed'
<1>1. PICK C \in Slices(left[c]) :
        \/ /\ net' = net \cup Requests(C, docs[c])
           /\ batch' = [batch EXCEPT ![c] = C]
           /\ left' = [left EXCEPT ![c] = @ \ C]
           /\ Goto(c, "syncing")
           /\ UNCHANGED <<todo, docs>>
        \/ Ends(c, "failed") /\ UNCHANGED net
  BY Zenon DEF SyncChunk
<1>2. C \in SUBSET Uuids
  BY DEF Slices, Chunks, Typed, TypeOK
<1>3. docs[c] \in [Uuids -> Document]
  BY DEF Typed, TypeOK, Procs
<1>4. Requests(C, docs[c]) \in SUBSET Write
  BY <1>2, <1>3, RequestsType
<1>5. UNCHANGED <<ledger, graph, index, ahead, stack, faults>>
  BY DEF SyncChunk
<1>6. StoreTypeOK'
  BY <1>1, <1>4, <1>5 DEF Typed, TypeOK, StoreTypeOK
<1>7. CASE Ends(c, "failed")
  BY <1>5, <1>6, <1>7, EndsTyped DEF Typed, TypeOK
<1>8. CASE /\ batch' = [batch EXCEPT ![c] = C]
           /\ left' = [left EXCEPT ![c] = @ \ C]
           /\ Goto(c, "syncing")
           /\ UNCHANGED <<todo, docs>>
  BY <1>2, <1>5, <1>6, <1>8, ProcessAssumption
     DEF Typed, TypeOK, RequestsValid, Procs, Goto, ClientPc, ReconcilerPc, BothPc
<1>9. QED
  BY <1>1, <1>7, <1>8

LEMMA ClearSavedTyped ==
    ASSUME Typed, NEW c \in Clients, ClearSaved(c)
    PROVE  Typed'
<1>1. /\ graph' = Cleared(batch[c], docs[c])
      /\ UNCHANGED <<ledger, index, net, ahead, stack, faults>>
  BY DEF ClearSaved
<1>2. batch[c] \in SUBSET Uuids /\ docs[c] \in [Uuids -> Document]
  BY DEF Typed, TypeOK, Procs
<1>3. StoreTypeOK'
  BY <1>1, <1>2, GraphUpdateTypes DEF Typed, TypeOK, StoreTypeOK
<1>4. CASE Ends(c, "idle")
  BY <1>1, <1>3, <1>4, EndsTyped DEF Typed, TypeOK
<1>5. CASE Goto(c, "sync") /\ UNCHANGED <<todo, left, docs, batch>>
  BY <1>1, <1>3, <1>5, ProcessAssumption
     DEF Typed, TypeOK, RequestsValid, Procs, Goto, ClientPc, ReconcilerPc, BothPc
<1>6. QED
  BY <1>4, <1>5 DEF ClearSaved

LEMMA StartDeleteTyped ==
    ASSUME Typed, NEW c \in Clients, StartDelete(c)
    PROVE  Typed'
BY DocumentTypes, GraphUpdateTypes, RequestsType, SavedType, ProcessAssumption
   DEF StartDelete, Typed, TypeOK, StoreTypeOK, RequestsValid, storeVars, procVars, Goto, Ends, ClientPc, ReconcilerPc, BothPc, Procs, Chunks

LEMMA ReserveDeletionTyped ==
    ASSUME Typed, NEW c \in Clients, ReserveDeletion(c)
    PROVE  Typed'
BY DocumentTypes, GraphUpdateTypes, RequestsType, SavedType, ProcessAssumption
   DEF ReserveDeletion, Typed, TypeOK, StoreTypeOK, RequestsValid, storeVars, procVars, Goto, Ends, ClientPc, ReconcilerPc, BothPc, Procs, Reserved

LEMMA PrepareDeletionTyped ==
    ASSUME Typed, NEW c \in Clients, PrepareDeletion(c)
    PROVE  Typed'
BY DocumentTypes, GraphUpdateTypes, RequestsType, SavedType, ProcessAssumption
   DEF PrepareDeletion, Typed, TypeOK, StoreTypeOK, RequestsValid, storeVars, procVars, Goto, Ends, ClientPc, ReconcilerPc, BothPc, Procs

LEMMA FinalizeDeletionTyped ==
    ASSUME Typed, NEW c \in Clients, FinalizeDeletion(c)
    PROVE  Typed'
BY DocumentTypes, GraphUpdateTypes, RequestsType, SavedType, ProcessAssumption
   DEF FinalizeDeletion, Typed, TypeOK, StoreTypeOK, RequestsValid, storeVars, procVars, Goto, Ends, ClientPc, ReconcilerPc, BothPc, Procs

LEMMA ClientFailsTyped ==
    ASSUME Typed, NEW c \in Clients, ClientFails(c)
    PROVE  Typed'
BY DocumentTypes, GraphUpdateTypes, RequestsType, SavedType, ProcessAssumption
   DEF ClientFails, Typed, TypeOK, StoreTypeOK, RequestsValid, storeVars, procVars, Goto, Ends, ClientPc, ReconcilerPc, BothPc, Procs

LEMMA ReadPageTyped ==
    ASSUME Typed, NEW r \in Reconcilers, NEW listed \in SUBSET Uuids,
           NEW records \in [listed -> Document], NEW next \in {"bury", "sync"},
           ReadPage(r, listed, records, next)
    PROVE  Typed'
<1>1. [u \in Uuids |-> IF u \in listed THEN records[u] ELSE NoDocument] \in [Uuids -> Document]
  BY DocumentTypes
<1>2. QED
  BY <1>1, ProcessAssumption
     DEF ReadPage, Typed, TypeOK, StoreTypeOK, RequestsValid, storeVars, Procs, Goto,
         ClientPc, ReconcilerPc, BothPc

LEMMA PageSubset ==
    ASSUME NEW S, NEW n
    PROVE  Page(S, n) \in SUBSET S
BY DEF Page

LEMMA AsleepTyped ==
    ASSUME Typed, NEW r \in Reconcilers, Asleep(r),
           UNCHANGED <<todo, left>>
    PROVE  /\ pc' \in [Procs -> ClientPc \cup ReconcilerPc \cup BothPc]
           /\ \A x \in Clients : pc'[x] \in ClientPc \cup BothPc
           /\ \A x \in Reconcilers : pc'[x] \in ReconcilerPc \cup BothPc
           /\ docs' \in [Procs -> [Uuids -> Document]]
           /\ batch' \in [Procs -> SUBSET Uuids]
           /\ ahead' \in [Reconcilers -> SUBSET Uuids]
           /\ stack' \in [Reconcilers -> Seq(SUBSET Uuids)]
           /\ RequestsValid'
<1>1. <<>> \in Seq(SUBSET Uuids)
  OBVIOUS
<1>2. QED
  BY <1>1, DocumentTypes, ProcessAssumption
     DEF Asleep, Goto, Typed, TypeOK, RequestsValid, ClientPc, ReconcilerPc, BothPc, Procs

LEMMA NextBatchTyped ==
    ASSUME Typed, NEW r \in Reconcilers, NEW work \in {"sync", "bury"},
           NEW scan \in {"scan_saves", "scan_deletes"}, NextBatch(r, work, scan),
           UNCHANGED <<todo, left>>
    PROVE  /\ pc' \in [Procs -> ClientPc \cup ReconcilerPc \cup BothPc]
           /\ \A x \in Clients : pc'[x] \in ClientPc \cup BothPc
           /\ \A x \in Reconcilers : pc'[x] \in ReconcilerPc \cup BothPc
           /\ docs' \in [Procs -> [Uuids -> Document]]
           /\ batch' \in [Procs -> SUBSET Uuids]
           /\ stack' \in [Reconcilers -> Seq(SUBSET Uuids)]
           /\ RequestsValid'
<1>1. stack[r] \in Seq(SUBSET Uuids)
  BY DEF Typed, TypeOK
<1>2. stack[r] # <<>> => /\ Head(stack[r]) \in SUBSET Uuids
                         /\ Tail(stack[r]) \in Seq(SUBSET Uuids)
  BY <1>1, HeadTailProperties
<1>3. docs' \in [Procs -> [Uuids -> Document]]
  BY DocumentTypes DEF NextBatch, Typed, TypeOK, Procs
<1>4. PICK h \in SUBSET Uuids, t \in Seq(SUBSET Uuids) :
        /\ batch' = [batch EXCEPT ![r] = h]
        /\ stack' = [stack EXCEPT ![r] = t]
  <2>1. CASE stack[r] # <<>>
    BY <1>2, <2>1 DEF NextBatch
  <2>2. CASE stack[r] = <<>>
    <3>1. batch' = [batch EXCEPT ![r] = {}] /\ stack' = stack
      BY <2>2 DEF NextBatch
    <3>2. stack' = [stack EXCEPT ![r] = stack[r]]
      BY <3>1 DEF Typed, TypeOK
    <3>3. QED
      BY <1>1, <3>1, <3>2
  <2>3. QED
    BY <2>1, <2>2
<1>5. /\ batch' \in [Procs -> SUBSET Uuids]
      /\ stack' \in [Reconcilers -> Seq(SUBSET Uuids)]
  BY <1>4 DEF Typed, TypeOK, Procs
<1>6. pc' = [pc EXCEPT ![r] = work] \/ pc' = [pc EXCEPT ![r] = scan]
  BY DEF NextBatch, Goto
<1>7. /\ pc' \in [Procs -> ClientPc \cup ReconcilerPc \cup BothPc]
      /\ \A x \in Clients : pc'[x] \in ClientPc \cup BothPc
      /\ \A x \in Reconcilers : pc'[x] \in ReconcilerPc \cup BothPc
  BY <1>6, ProcessAssumption DEF Typed, TypeOK, ClientPc, ReconcilerPc, BothPc, Procs
<1>8. RequestsValid'
  BY <1>6, ProcessAssumption DEF Typed, TypeOK, RequestsValid, Procs
<1>9. QED
  BY <1>3, <1>5, <1>7, <1>8

LEMMA SplitBatchTyped ==
    ASSUME Typed, NEW r \in Reconcilers, NEW work \in {"sync", "bury"},
           NEW scan \in {"scan_saves", "scan_deletes"}, SplitBatch(r, work, scan),
           UNCHANGED <<todo, left>>
    PROVE  /\ pc' \in [Procs -> ClientPc \cup ReconcilerPc \cup BothPc]
           /\ \A x \in Clients : pc'[x] \in ClientPc \cup BothPc
           /\ \A x \in Reconcilers : pc'[x] \in ReconcilerPc \cup BothPc
           /\ docs' \in [Procs -> [Uuids -> Document]]
           /\ batch' \in [Procs -> SUBSET Uuids]
           /\ stack' \in [Reconcilers -> Seq(SUBSET Uuids)]
           /\ RequestsValid'
<1> DEFINE first == Page(batch[r], Cardinality(batch[r]) \div 2)
<1>1. batch[r] \in SUBSET Uuids /\ stack[r] \in Seq(SUBSET Uuids)
  BY DEF Typed, TypeOK, Procs
<1>2. first \in SUBSET batch[r]
  BY PageSubset
<1>3. first \in SUBSET Uuids /\ batch[r] \ first \in SUBSET Uuids
  BY <1>1, <1>2
<1>4. <<batch[r] \ first>> \in Seq(SUBSET Uuids)
  BY <1>3
<1>5. <<batch[r] \ first>> \o stack[r] \in Seq(SUBSET Uuids)
  BY <1>1, <1>4, ConcatProperties
<1>6. CASE NextBatch(r, work, scan)
  BY <1>6, NextBatchTyped
<1>7. CASE /\ batch' = [batch EXCEPT ![r] = first]
           /\ stack' = [stack EXCEPT ![r] = <<batch[r] \ first>> \o @]
           /\ Goto(r, work)
           /\ UNCHANGED docs
  <2> HIDE DEF first
  <2>1. /\ batch' \in [Procs -> SUBSET Uuids]
        /\ stack' \in [Reconcilers -> Seq(SUBSET Uuids)]
    BY <1>3, <1>5, <1>7 DEF Typed, TypeOK, Procs
  <2>2. QED
    BY <1>7, <2>1, ProcessAssumption
       DEF Typed, TypeOK, RequestsValid, Goto, ClientPc, ReconcilerPc, BothPc, Procs
<1>8. QED
  BY <1>6, <1>7 DEF SplitBatch

LEMMA StartSweepTyped ==
    ASSUME Typed, NEW r \in Reconcilers, StartSweep(r)
    PROVE  Typed'
BY DocumentTypes, GraphUpdateTypes, RequestsType, SavedType, ProcessAssumption
   DEF StartSweep, Typed, TypeOK, StoreTypeOK, RequestsValid, storeVars, procVars, Goto, Ends, ClientPc, ReconcilerPc, BothPc, Procs

LEMMA ScanDeletesTyped ==
    ASSUME Typed, NEW r \in Reconcilers, ScanDeletes(r)
    PROVE  Typed'
<1> DEFINE listed == Page(PendingDeletes \cap ahead[r], BatchSize)
<1>1. listed \in SUBSET (PendingDeletes \cap ahead[r])
  BY PageSubset
<1>2. listed \in SUBSET Uuids
  BY <1>1 DEF PendingDeletes
<1>3. [u \in listed |-> Tombstone(graph[u].ver)] \in [listed -> Document]
  <2>1. ASSUME NEW u \in listed PROVE Tombstone(graph[u].ver) \in Document
    <3>1. u \in Uuids /\ Exists(u)
      BY <1>1 DEF PendingDeletes
    <3>2. graph[u].ver \in Nat
      BY <3>1 DEF Exists, Typed, TypeOK, StoreTypeOK, Entity
    <3>3. QED
      BY <3>2, DocumentTypes
  <2>2. QED
    BY <2>1
<1>4. ReadPage(r, listed, [u \in listed |-> Tombstone(graph[u].ver)], "bury")
  BY Zenon DEF ScanDeletes
<1>5. QED
  BY <1>2, <1>3, <1>4, ReadPageTyped

LEMMA ScanSavesTyped ==
    ASSUME Typed, NEW r \in Reconcilers, ScanSaves(r)
    PROVE  Typed'
<1> DEFINE listed == Page(PendingSaves \cap ahead[r], BatchSize)
           doc(u) == [ver |-> graph[u].ver, group |-> graph[u].group, val |-> graph[u].val]
<1>1. listed \in SUBSET (PendingSaves \cap ahead[r])
  BY PageSubset
<1>2. listed \in SUBSET Uuids
  BY <1>1 DEF PendingSaves
<1>3. [u \in listed |-> doc(u)] \in [listed -> Document]
  <2>1. ASSUME NEW u \in listed PROVE doc(u) \in Document
    <3>1. u \in Uuids /\ Exists(u)
      BY <1>1 DEF PendingSaves
    <3>2. graph[u] \in Entity
      BY <3>1 DEF Exists, Typed, TypeOK, StoreTypeOK
    <3>3. QED
      BY <3>2 DEF Entity, Document
  <2>2. QED
    BY <2>1
<1>4. ReadPage(r, listed, [u \in listed |-> doc(u)], "sync")
  BY Zenon DEF ScanSaves
<1>5. QED
  BY <1>2, <1>3, <1>4, ReadPageTyped

LEMMA DeletesSweptTyped ==
    ASSUME Typed, NEW r \in Reconcilers, DeletesSwept(r)
    PROVE  Typed'
<1>1. UNCHANGED <<storeVars, todo, left, faults>>
  BY DEF DeletesSwept
<1>2. CASE Asleep(r)
  BY <1>1, <1>2, AsleepTyped DEF Typed, TypeOK, StoreTypeOK, storeVars
<1>3. CASE /\ ahead' = [ahead EXCEPT ![r] = Uuids]
           /\ Goto(r, "scan_saves")
           /\ UNCHANGED <<docs, batch, stack>>
  BY <1>1, <1>3, ProcessAssumption
     DEF Typed, TypeOK, StoreTypeOK, RequestsValid, storeVars, Procs, Goto,
         ClientPc, ReconcilerPc, BothPc
<1>4. QED
  BY <1>2, <1>3 DEF DeletesSwept

LEMMA SavesSweptTyped ==
    ASSUME Typed, NEW r \in Reconcilers, SavesSwept(r)
    PROVE  Typed'
BY DocumentTypes, GraphUpdateTypes, RequestsType, SavedType, ProcessAssumption
   DEF SavesSwept, Typed, TypeOK, StoreTypeOK, RequestsValid, storeVars, procVars, Goto, Ends, ClientPc, ReconcilerPc, BothPc, Procs, Asleep

LEMMA SweepSyncTyped ==
    ASSUME Typed, NEW r \in Reconcilers, SweepSync(r)
    PROVE  Typed'
BY DocumentTypes, GraphUpdateTypes, RequestsType, SavedType, ProcessAssumption
   DEF SweepSync, Typed, TypeOK, StoreTypeOK, RequestsValid, storeVars, procVars, Goto, Ends, ClientPc, ReconcilerPc, BothPc, Procs

LEMMA SweepClearTyped ==
    ASSUME Typed, NEW r \in Reconcilers, SweepClear(r)
    PROVE  Typed'
<1>1. /\ graph' = Cleared(batch[r], docs[r])
      /\ NextBatch(r, "sync", "scan_saves")
      /\ UNCHANGED <<ledger, index, net, todo, left, ahead, faults>>
  BY DEF SweepClear
<1>2. batch[r] \in SUBSET Uuids /\ docs[r] \in [Uuids -> Document]
  BY DEF Typed, TypeOK, Procs
<1>3. StoreTypeOK'
  BY <1>1, <1>2, GraphUpdateTypes DEF Typed, TypeOK, StoreTypeOK
<1>4. QED
  BY <1>1, <1>3, NextBatchTyped DEF Typed, TypeOK

LEMMA SweepFinalizeTyped ==
    ASSUME Typed, NEW r \in Reconcilers, SweepFinalize(r)
    PROVE  Typed'
<1>1. /\ graph' = Finalized(batch[r], docs[r])
      /\ NextBatch(r, "bury", "scan_deletes")
      /\ UNCHANGED <<ledger, index, net, todo, left, ahead, faults>>
  BY DEF SweepFinalize
<1>2. batch[r] \in SUBSET Uuids /\ docs[r] \in [Uuids -> Document]
  BY DEF Typed, TypeOK, Procs
<1>3. StoreTypeOK'
  BY <1>1, <1>2, GraphUpdateTypes DEF Typed, TypeOK, StoreTypeOK
<1>4. QED
  BY <1>1, <1>3, NextBatchTyped DEF Typed, TypeOK

LEMMA SweepRejectsTyped ==
    ASSUME Typed, NEW r \in Reconcilers, SweepRejects(r)
    PROVE  Typed'
<1>1. /\ SplitBatch(r, "sync", "scan_saves")
      /\ UNCHANGED <<storeVars, todo, left, ahead, faults>>
  BY DEF SweepRejects
<1>2. QED
  BY <1>1, SplitBatchTyped DEF Typed, TypeOK, StoreTypeOK, storeVars

LEMMA SweepBatchFailsTyped ==
    ASSUME Typed, NEW r \in Reconcilers, SweepBatchFails(r)
    PROVE  Typed'
<1>1. /\ SplitBatch(r, "sync", "scan_saves") \/ SplitBatch(r, "bury", "scan_deletes")
      /\ UNCHANGED <<storeVars, todo, left, ahead>>
      /\ faults' \in 0..MaxFaults
  BY ProcessAssumption DEF SweepBatchFails, Typed, TypeOK
<1>2. QED
  BY <1>1, SplitBatchTyped DEF Typed, TypeOK, StoreTypeOK, storeVars

LEMMA SweepAbortsTyped ==
    ASSUME Typed, NEW r \in Reconcilers, SweepAborts(r)
    PROVE  Typed'
BY DocumentTypes, GraphUpdateTypes, RequestsType, SavedType, ProcessAssumption
   DEF SweepAborts, Typed, TypeOK, StoreTypeOK, RequestsValid, storeVars, procVars, Goto, Ends, ClientPc, ReconcilerPc, BothPc, Procs, Asleep

LEMMA BuryTyped ==
    ASSUME Typed, NEW p \in Procs, Bury(p)
    PROVE  Typed'
BY DocumentTypes, GraphUpdateTypes, RequestsType, SavedType, ProcessAssumption
   DEF Bury, Typed, TypeOK, StoreTypeOK, RequestsValid, storeVars, procVars, Goto, Ends, ClientPc, ReconcilerPc, BothPc, Procs

LEMMA BulkSucceedsTyped ==
    ASSUME Typed, NEW p \in Procs, BulkSucceeds(p)
    PROVE  Typed'
BY DocumentTypes, GraphUpdateTypes, RequestsType, SavedType, ProcessAssumption
   DEF BulkSucceeds, Typed, TypeOK, StoreTypeOK, RequestsValid, storeVars, procVars, Goto, Ends, ClientPc, ReconcilerPc, BothPc, Procs

LEMMA LandsTyped ==
    ASSUME Typed, NEW w \in net, Lands(w)
    PROVE  Typed'
BY DEF Lands, Deliver, Typed, TypeOK, StoreTypeOK, RequestsValid, procVars, Write

LEMMA InitTyped == Init => Typed
<1>1. <<>> \in Seq(SUBSET Uuids)
  OBVIOUS
<1>2. QED
  BY <1>1, DocumentTypes, ProcessAssumption
     DEF Init, StoreInit, Typed, TypeOK, StoreTypeOK, RequestsValid, Procs,
         ClientPc, ReconcilerPc, BothPc

LEMMA NextTyped == Typed /\ [Next]_vars => Typed'
<1> SUFFICES ASSUME Typed, [Next]_vars PROVE Typed'
  OBVIOUS
<1>1. CASE UNCHANGED vars
  BY <1>1 DEF vars, Typed, TypeOK, StoreTypeOK, RequestsValid
<1>2. ASSUME NEW c \in Clients,
             StartSave(c) \/ StartDelete(c) \/ ClientStep(c) \/ ClientFails(c)
      PROVE  Typed'
  <2>1. c \in Procs
    BY DEF Procs
  <2>2. QED
    BY <1>2, <2>1, StartSaveTyped, SaveChunkTyped, SyncChunkTyped, ClearSavedTyped,
       StartDeleteTyped, ReserveDeletionTyped, PrepareDeletionTyped, FinalizeDeletionTyped,
       ClientFailsTyped, BuryTyped, BulkSucceedsTyped
       DEF ClientStep
<1>3. ASSUME NEW r \in Reconcilers,
             ReconcilerStep(r) \/ SweepBatchFails(r) \/ SweepAborts(r)
      PROVE  Typed'
  <2>1. r \in Procs
    BY DEF Procs
  <2>2. QED
    BY <1>3, <2>1, StartSweepTyped, ScanDeletesTyped, ScanSavesTyped, DeletesSweptTyped,
       SavesSweptTyped, SweepSyncTyped, SweepClearTyped, SweepFinalizeTyped,
       SweepRejectsTyped, SweepBatchFailsTyped, SweepAbortsTyped, BuryTyped, BulkSucceedsTyped
       DEF ReconcilerStep
<1>4. ASSUME NEW w \in net, Lands(w) PROVE Typed'
  BY <1>4, LandsTyped
<1>5. QED
  BY <1>1, <1>2, <1>3, <1>4 DEF Next

(* The variables keep their types: in particular every generation stays a  *)
(* natural number and every document a process holds is a document.        *)
THEOREM TypeCorrect == Spec => []TypeOK
<1>1. Typed => TypeOK
  BY DEF Typed
<1>2. QED
  BY InitTyped, NextTyped, <1>1, PTL DEF Spec

-----------------------------------------------------------------------------
(* The inductive invariant, first one uuid at a time: what a step of the   *)
(* stores does to the uuid, and that documents stay coherent with it.      *)

Sound(u) ==
    /\ Exists(u) =>
         /\ 0 < graph[u].ver /\ graph[u].ver <= ledger[u]
         /\ graph[u].sync \in {0, graph[u].ver} \/ graph[u].del
    /\ Coherent(u, index[u])
    /\ Clean(u) => index[u].ver = graph[u].ver
    /\ Live(index[u]) => Exists(u) /\ index[u].group = graph[u].group

KeepsDocuments(u) == \A d \in Document : Coherent(u, d) => Coherent(u, d)'

TypedAt(u) ==
    /\ ledger[u] \in Nat
    /\ graph[u] = Absent \/ graph[u] \in Entity
    /\ index[u] \in Document

LEMMA TypedEverywhere == TypeOK => \A u \in Uuids : TypedAt(u)
BY DEF TypeOK, StoreTypeOK, TypedAt

LEMMA SameAt ==
    ASSUME NEW u \in Uuids, TypedAt(u), TypedAt(u)', Sound(u),
           ledger'[u] >= ledger[u], graph'[u] = graph[u], index'[u] = index[u]
    PROVE  Sound(u)' /\ KeepsDocuments(u)
BY DEF TypedAt, Sound, KeepsDocuments, Coherent, Exists, Clean, Live, Content, Document, Entity

(* A save creates the entity or replaces it within its partition.          *)
LEMMA SaveAt ==
    ASSUME NEW u \in Uuids, TypedAt(u), TypedAt(u)', Sound(u),
           NEW r \in Request, Accepts(u, r.group),
           NEW v \in Nat, v = ledger[u] + 1,
           ledger'[u] = v, index'[u] = index[u],
           graph'[u] = [ver |-> v, group |-> r.group, val |-> r.val,
                        sync |-> v, del |-> FALSE]
    PROVE  /\ Sound(u)' /\ KeepsDocuments(u)
           /\ Coherent(u, [ver |-> v, group |-> r.group, val |-> r.val])'
<1>1. /\ graph'[u].ver = v /\ graph'[u].sync = v
      /\ ~graph'[u].del /\ graph'[u].group = r.group
      /\ Content(u)' = [ver |-> v, group |-> r.group, val |-> r.val]
  BY DEF Content
<1>2. Exists(u)'
  <2>1. graph'[u] \in Entity
    BY DEF Entity, Request, TypedAt
  <2>2. QED
    BY <2>1, StoreAssumption DEF Exists
<1>3. ASSUME NEW d \in Document, Coherent(u, d)
      PROVE  Coherent(u, d)'
  <2>1. d.ver <= ledger[u] /\ d.ver \in Nat
    BY <1>3 DEF Coherent, Document
  <2>2. d.ver < graph'[u].ver /\ d.ver <= ledger'[u]
    BY <1>1, <2>1 DEF TypedAt
  <2>3. Live(d) => d.ver <= index'[u].ver \/ d.group = graph'[u].group
    BY <1>1, <1>3 DEF Coherent, Accepts, Exists
  <2>4. QED
    BY <1>2, <2>2, <2>3, <1>1 DEF Coherent, Live, TypedAt
<1>4. Coherent(u, index[u])'
  BY <1>3 DEF Sound, TypedAt
<1>5. Live(index[u]) => index[u].group = r.group
  BY DEF Sound, Accepts
<1>6. Sound(u)'
  BY <1>1, <1>2, <1>4, <1>5 DEF Sound, Clean, Live, TypedAt
<1>7. Coherent(u, [ver |-> v, group |-> r.group, val |-> r.val])'
  BY <1>1, <1>2 DEF Coherent, Live, TypedAt
<1>8. QED
  BY <1>3, <1>6, <1>7 DEF KeepsDocuments

(* A deletion marks an older entity and takes over its generation.         *)
LEMMA PrepareAt ==
    ASSUME NEW u \in Uuids, TypedAt(u), TypedAt(u)', Sound(u),
           NEW v \in Nat, v <= ledger[u], Exists(u), graph[u].ver < v,
           ledger'[u] = ledger[u], index'[u] = index[u],
           graph'[u] = [graph[u] EXCEPT !.del = TRUE, !.ver = v]
    PROVE  Sound(u)' /\ KeepsDocuments(u)
<1>1. /\ Exists(u)' /\ graph[u] \in Entity
      /\ graph'[u].ver = v /\ graph'[u].del /\ graph'[u].group = graph[u].group
  BY StoreAssumption DEF Exists, Entity, TypedAt
<1>2. KeepsDocuments(u)
  BY <1>1 DEF TypedAt, Sound, KeepsDocuments, Coherent, Exists, Live, Document, Entity
<1>3. QED
  BY <1>1, <1>2 DEF TypedAt, Sound, KeepsDocuments, Coherent, Exists, Clean, Live, Document, Entity

(* An exact acknowledgement after the index has caught up.                 *)
LEMMA ClearAt ==
    ASSUME NEW u \in Uuids, TypedAt(u), TypedAt(u)', Sound(u),
           Exists(u), ~graph[u].del, index[u].ver >= graph[u].ver,
           ledger'[u] = ledger[u], index'[u] = index[u],
           graph'[u] = [graph[u] EXCEPT !.sync = 0]
    PROVE  Sound(u)' /\ KeepsDocuments(u)
<1>1. /\ Exists(u)' /\ graph[u] \in Entity
      /\ graph'[u].ver = graph[u].ver /\ graph'[u].del = graph[u].del
      /\ graph'[u].group = graph[u].group /\ graph'[u].val = graph[u].val
      /\ graph'[u].sync = 0
  BY StoreAssumption DEF Exists, Entity, TypedAt
<1>2. KeepsDocuments(u)
  BY <1>1 DEF TypedAt, Sound, KeepsDocuments, Coherent, Exists, Live, Content, Document, Entity
<1>3. QED
  BY <1>1, <1>2 DEF TypedAt, Sound, KeepsDocuments, Coherent, Exists, Clean, Live, Content,
     Document, Entity

(* The entity goes once its tombstone, or something later, is in the index *)
LEMMA FinalizeAt ==
    ASSUME NEW u \in Uuids, TypedAt(u), TypedAt(u)', Sound(u),
           Exists(u), graph[u].del, index[u].ver >= graph[u].ver,
           ledger'[u] = ledger[u], index'[u] = index[u], graph'[u] = Absent
    PROVE  Sound(u)' /\ KeepsDocuments(u)
<1>1. ~Exists(u)' /\ graph[u] \in Entity
  BY DEF Exists, TypedAt
<1>2. KeepsDocuments(u)
  BY <1>1 DEF TypedAt, Sound, KeepsDocuments, Coherent, Exists, Live, Document, Entity
<1>3. ~Live(index[u])
  BY <1>1 DEF Sound, Coherent, TypedAt, Document, Entity
<1>4. QED
  BY <1>1, <1>2, <1>3 DEF TypedAt, Sound, KeepsDocuments, Coherent, Exists, Clean, Live, Document

(* A request lands only over a smaller version.                            *)
LEMMA DeliverAt ==
    ASSUME NEW u \in Uuids, TypedAt(u), TypedAt(u)', Sound(u),
           NEW d \in Document, Coherent(u, d), d.ver > index[u].ver,
           ledger'[u] = ledger[u], graph'[u] = graph[u], index'[u] = d
    PROVE  Sound(u)' /\ KeepsDocuments(u)
<1>1. KeepsDocuments(u)
  BY DEF TypedAt, KeepsDocuments, Coherent, Exists, Live, Content, Document, Entity
<1>2. QED
  BY <1>1 DEF TypedAt, Sound, KeepsDocuments, Coherent, Exists, Clean, Live, Content, Document, Entity

-----------------------------------------------------------------------------
(* The invariant again, by uuid and by process.                            *)

HeldAt(p) ==
    \A u \in Uuids :
        IF pc[p] = "prepare"
        THEN /\ ~Live(docs[p][u])
             /\ docs[p][u].ver <= ledger[u]
             /\ docs[p][u].ver # 0 => u \in batch[p]
             /\ Exists(u) => graph[u].ver # docs[p][u].ver
        ELSE Coherent(u, docs[p][u])

DurableAt(p) ==
    pc[p] \in {"clear", "finalize"} =>
        \A u \in batch[p] : index[u].ver >= docs[p][u].ver

InvByParts ==
    /\ Typed
    /\ \A u \in Uuids : Sound(u)
    /\ NetCoherent
    /\ \A p \in Procs : HeldAt(p) /\ DurableAt(p)
    /\ ReservationsDistinct

LEMMA InvParts == (Inv => InvByParts) /\ (InvByParts' => Inv')
BY DEF Inv, InvByParts, Typed, Sound, HeldAt, DurableAt, EntitiesCoherent, IndexCoherent,
       HeldCoherent, BulkDurable, CleanVersions, VectorsOwned

(* What every step of a single process leaves to the others.               *)
OthersAt(c) ==
    \A p \in Procs \ {c} : pc'[p] = pc[p] /\ docs'[p] = docs[p] /\ batch'[p] = batch[p]

StoresAdvance ==
    \A u \in Uuids :
        /\ Sound(u)' /\ KeepsDocuments(u)
        /\ ledger'[u] >= ledger[u]
        /\ index'[u].ver >= index[u].ver

NoClash(c) ==
    \A p \in Procs \ {c} : pc[p] = "prepare" =>
        \A u \in Uuids : Exists(u)' => graph'[u].ver # docs[p][u].ver

ReservesLater(c) ==
    pc'[c] = "prepare" =>
        \A p \in Procs \ {c} : \A u \in Uuids :
            pc[p] = "prepare" =>
                docs'[c][u].ver = 0 \/ docs'[c][u].ver > docs[p][u].ver

(* A process that does not move keeps its part of the invariant.           *)
LEMMA FrameAt ==
    ASSUME Inv, Typed', StoresAdvance, NEW p \in Procs,
           pc'[p] = pc[p], docs'[p] = docs[p], batch'[p] = batch[p],
           pc[p] = "prepare" =>
               \A u \in Uuids : Exists(u)' => graph'[u].ver # docs[p][u].ver
    PROVE  HeldAt(p)' /\ DurableAt(p)'
<1>1. TypeOK /\ TypeOK' /\ HeldAt(p) /\ DurableAt(p)
  BY InvParts DEF InvByParts, Typed
<1>2. ASSUME NEW u \in Uuids
      PROVE  /\ docs[p][u] \in Document /\ docs[p][u].ver \in Nat
             /\ ledger[u] \in Nat /\ ledger'[u] \in Nat
             /\ index[u].ver \in Nat /\ index'[u].ver \in Nat
  BY <1>1 DEF TypeOK, StoreTypeOK, Document
<1>3. HeldAt(p)'
  <2> SUFFICES ASSUME NEW u \in Uuids
               PROVE  IF pc[p] = "prepare"
                      THEN /\ ~Live(docs'[p][u])
                           /\ docs'[p][u].ver <= ledger'[u]
                           /\ docs'[p][u].ver # 0 => u \in batch'[p]
                           /\ Exists(u)' => graph'[u].ver # docs'[p][u].ver
                      ELSE Coherent(u, docs[p][u])'
    BY DEF HeldAt, Live
  <2>1. CASE pc[p] = "prepare"
    BY <1>1, <1>2, <2>1 DEF HeldAt, StoresAdvance
  <2>2. CASE pc[p] # "prepare"
    <3>1. PICK d \in Document : d = docs[p][u]
      BY <1>2
    <3>2. Coherent(u, d)
      BY <1>1, <2>2, <3>1 DEF HeldAt
    <3>3. Coherent(u, d)'
      BY <3>2 DEF StoresAdvance, KeepsDocuments
    <3>4. d = docs'[p][u]
      BY <3>1
    <3>5. QED
      BY <2>2, <3>3, <3>4 DEF Coherent
  <2>3. QED
    BY <2>1, <2>2
<1>4. DurableAt(p)'
  <2>1. \A u \in batch[p] : u \in Uuids
    BY <1>1 DEF TypeOK
  <2>2. QED
    BY <1>1, <1>2, <2>1 DEF DurableAt, StoresAdvance
<1>5. QED
  BY <1>3, <1>4

LEMMA FrameStep ==
    ASSUME Inv, Typed', NEW c \in Procs, OthersAt(c), StoresAdvance, NoClash(c),
           ReservesLater(c), NetCoherent', HeldAt(c)', DurableAt(c)'
    PROVE  Inv'
<1>1. Typed /\ TypeOK /\ TypeOK' /\ ReservationsDistinct
  BY InvParts DEF InvByParts, Typed
<1>2. ASSUME NEW p \in Procs, NEW u \in Uuids
      PROVE  docs[p][u].ver \in Nat /\ docs'[p][u].ver \in Nat
  BY <1>1 DEF TypeOK, Document
<1>3. ASSUME NEW p \in Procs \ {c} PROVE HeldAt(p)' /\ DurableAt(p)'
  BY FrameAt DEF OthersAt, NoClash
<1>4. ReservationsDistinct'
  BY <1>1, <1>2 DEF ReservationsDistinct, OthersAt, ReservesLater
<1>5. QED
  BY <1>3, <1>4, InvParts DEF InvByParts, StoresAdvance

(* Steps of the index alone: no process moves.                             *)
LEMMA StillStep ==
    ASSUME Inv, Typed', UNCHANGED <<pc, docs, batch, graph>>, StoresAdvance, NetCoherent'
    PROVE  Inv'
<1>1. ReservationsDistinct /\ \A p \in Procs : HeldAt(p)
  BY InvParts DEF InvByParts
<1>2. ASSUME NEW p \in Procs PROVE HeldAt(p)' /\ DurableAt(p)'
  <2>1. pc[p] = "prepare" =>
           \A u \in Uuids : Exists(u)' => graph'[u].ver # docs[p][u].ver
    BY <1>1 DEF HeldAt, Exists
  <2>2. QED
    BY <2>1, FrameAt
<1>3. ReservationsDistinct'
  BY <1>1 DEF ReservationsDistinct
<1>4. QED
  BY <1>2, <1>3, InvParts DEF InvByParts, StoresAdvance

(* Steps that leave the ledger, the graph and the index alone.             *)
LEMMA StoresSame ==
    ASSUME Inv, Typed', UNCHANGED <<ledger, graph, index>>
    PROVE  StoresAdvance /\ \A c \in Procs : NoClash(c)
<1>1. TypeOK /\ TypeOK' /\ (\A u \in Uuids : Sound(u)) /\ \A p \in Procs : HeldAt(p)
  BY InvParts DEF InvByParts, Typed
<1>2. ASSUME NEW u \in Uuids
      PROVE  /\ Sound(u)' /\ KeepsDocuments(u)
             /\ ledger'[u] >= ledger[u] /\ index'[u].ver >= index[u].ver
  <2>1. TypedAt(u) /\ TypedAt(u)'
    BY <1>1, TypedEverywhere DEF TypeOK, StoreTypeOK, TypedAt
  <2>2. ledger'[u] >= ledger[u] /\ index'[u].ver >= index[u].ver
    BY <2>1 DEF TypedAt, Document
  <2>3. QED
    BY <1>1, <2>1, <2>2, SameAt
<1>3. \A c \in Procs : NoClash(c)
  BY <1>1 DEF NoClash, HeldAt, Exists
<1>4. QED
  BY <1>2, <1>3 DEF StoresAdvance

LEMMA NetSame ==
    ASSUME Inv, StoresAdvance, net' = net
    PROVE  NetCoherent'
<1>1. \A w \in net : w.uuid \in Uuids /\ w.doc \in Document
  BY InvParts DEF InvByParts, Typed, TypeOK, StoreTypeOK, Write
<1>2. \A w \in net : Coherent(w.uuid, w.doc)'
  BY <1>1, InvParts DEF InvByParts, StoresAdvance, KeepsDocuments, NetCoherent
<1>3. QED
  BY <1>2 DEF NetCoherent

LEMMA NetGrows ==
    ASSUME Inv, StoresAdvance,
           NEW S \in SUBSET Uuids, NEW d \in [Uuids -> Document],
           \A u \in S : Coherent(u, d[u]),
           net' = net \cup Requests(S, d)
    PROVE  NetCoherent'
<1>1. \A w \in net : w.uuid \in Uuids /\ w.doc \in Document
  BY InvParts DEF InvByParts, Typed, TypeOK, StoreTypeOK, Write
<1>2. \A w \in net : Coherent(w.uuid, w.doc)'
  BY <1>1, InvParts DEF InvByParts, StoresAdvance, KeepsDocuments, NetCoherent
<1>3. \A w \in Requests(S, d) : Coherent(w.uuid, w.doc)'
  BY DEF Requests, StoresAdvance, KeepsDocuments
<1>4. QED
  BY <1>2, <1>3 DEF NetCoherent

LEMMA NoDocumentCoherent == Inv => \A u \in Uuids : Coherent(u, NoDocument)
<1> SUFFICES ASSUME Inv, NEW u \in Uuids PROVE Coherent(u, NoDocument)
  OBVIOUS
<1>1. TypedAt(u) /\ Sound(u)
  BY InvParts, TypedEverywhere DEF InvByParts, Typed
<1>2. QED
  BY <1>1 DEF TypedAt, Sound, Coherent, NoDocument, Live, Entity, Exists

(* A step of process c that changes no store but may send documents.       *)
LEMMA LocalStep ==
    ASSUME Inv, Typed', NEW c \in Procs, OthersAt(c),
           UNCHANGED <<ledger, graph, index>>, NetCoherent',
           pc'[c] \notin {"prepare", "clear", "finalize"},
           \A u \in Uuids : Coherent(u, docs'[c][u])
    PROVE  Inv'
<1>1. StoresAdvance /\ NoClash(c)
  BY StoresSame
<1>2. HeldAt(c)'
  BY DEF HeldAt, Coherent, Exists, Content
<1>3. DurableAt(c)' /\ ReservesLater(c)
  BY DEF DurableAt, ReservesLater
<1>4. QED
  BY <1>1, <1>2, <1>3, FrameStep

LEMMA StoresSameTyped ==
    ASSUME Inv, Typed', UNCHANGED <<ledger, graph, index, net>>
    PROVE  NetCoherent'
BY StoresSame, NetSame

(* Where the locals of process c are what they were, or empty.             *)
LEMMA LocalsKept ==
    ASSUME Inv, NEW c \in Procs, pc[c] # "prepare" \/ docs'[c] = NoDocuments,
           docs'[c] = docs[c] \/ docs'[c] = NoDocuments
    PROVE  \A u \in Uuids : Coherent(u, docs'[c][u])
<1>1. HeldAt(c)
  BY InvParts DEF InvByParts
<1>2. QED
  BY <1>1, NoDocumentCoherent DEF HeldAt, NoDocuments

LEMMA GotoFrame ==
    ASSUME Typed, NEW c \in Procs, NEW where, Goto(c, where)
    PROVE  pc'[c] = where /\ \A p \in Procs \ {c} : pc'[p] = pc[p]
BY DEF Goto, Typed, TypeOK

LEMMA EndsFrame ==
    ASSUME Typed, NEW c \in Clients, NEW how, Ends(c, how)
    PROVE  pc'[c] = how /\ docs'[c] = NoDocuments /\ OthersAt(c)
BY GotoFrame DEF Ends, OthersAt, Typed, TypeOK, Procs

LEMMA AsleepFrame ==
    ASSUME Typed, NEW r \in Reconcilers, Asleep(r)
    PROVE  pc'[r] = "sleep" /\ docs'[r] = NoDocuments /\ OthersAt(r)
BY GotoFrame DEF Asleep, OthersAt, Typed, TypeOK, Procs

LEMMA NextBatchFrame ==
    ASSUME Typed, NEW r \in Reconcilers, NEW work, NEW scan, NextBatch(r, work, scan)
    PROVE  /\ pc'[r] \in {work, scan} /\ OthersAt(r)
           /\ docs'[r] = docs[r] \/ docs'[r] = NoDocuments
BY GotoFrame DEF NextBatch, OthersAt, Typed, TypeOK, Procs

LEMMA SplitBatchFrame ==
    ASSUME Typed, NEW r \in Reconcilers, NEW work, NEW scan, SplitBatch(r, work, scan)
    PROVE  /\ pc'[r] \in {work, scan} /\ OthersAt(r)
           /\ docs'[r] = docs[r] \/ docs'[r] = NoDocuments
<1>1. CASE NextBatch(r, work, scan)
  BY <1>1, NextBatchFrame
<1>2. CASE ~NextBatch(r, work, scan)
  BY <1>2, GotoFrame DEF SplitBatch, OthersAt, Typed, TypeOK, Procs
<1>3. QED
  BY <1>1, <1>2

-----------------------------------------------------------------------------
(* Steps that change no store.                                             *)

LEMMA StartSaveInv ==
    ASSUME Inv, Typed', NEW c \in Clients, StartSave(c)
    PROVE  Inv'
<1>1. Typed /\ c \in Procs
  BY InvParts DEF InvByParts, Procs
<1>2. /\ UNCHANGED <<ledger, graph, index, net, docs, batch>>
      /\ Goto(c, "write") /\ pc[c] # "prepare"
  BY DEF StartSave, storeVars
<1>3. OthersAt(c) /\ pc'[c] = "write"
  BY <1>1, <1>2, GotoFrame DEF OthersAt
<1>4. QED
  BY <1>1, <1>2, <1>3, LocalStep, LocalsKept, StoresSameTyped

LEMMA StartDeleteInv ==
    ASSUME Inv, Typed', NEW c \in Clients, StartDelete(c)
    PROVE  Inv'
<1>1. Typed /\ c \in Procs
  BY InvParts DEF InvByParts, Procs
<1>2. PICK C : batch' = [batch EXCEPT ![c] = C]
  BY DEF StartDelete
<1>3. /\ UNCHANGED <<ledger, graph, index, net, docs>>
      /\ Goto(c, "reserve") /\ pc[c] # "prepare"
  BY DEF StartDelete, storeVars
<1>4. OthersAt(c) /\ pc'[c] = "reserve"
  BY <1>1, <1>2, <1>3, GotoFrame DEF OthersAt, Typed, TypeOK
<1>5. QED
  BY <1>1, <1>3, <1>4, LocalStep, LocalsKept, StoresSameTyped

LEMMA ClientFailsInv ==
    ASSUME Inv, Typed', NEW c \in Clients, ClientFails(c)
    PROVE  Inv'
<1>1. Typed /\ c \in Procs
  BY InvParts DEF InvByParts, Procs
<1>2. UNCHANGED <<ledger, graph, index, net>> /\ Ends(c, "failed")
  BY DEF ClientFails, storeVars
<1>3. QED
  BY <1>1, <1>2, EndsFrame, LocalStep, LocalsKept, StoresSameTyped

LEMMA SyncChunkInv ==
    ASSUME Inv, Typed', NEW c \in Clients, SyncChunk(c)
    PROVE  Inv'
<1>1. Typed /\ c \in Procs /\ HeldAt(c)
  BY InvParts DEF InvByParts, Procs
<1>2. pc[c] = "sync" /\ UNCHANGED <<ledger, graph, index>>
  BY DEF SyncChunk
<1>3. PICK C \in Slices(left[c]) :
        \/ /\ net' = net \cup Requests(C, docs[c])
           /\ batch' = [batch EXCEPT ![c] = C]
           /\ Goto(c, "syncing")
           /\ UNCHANGED docs
        \/ Ends(c, "failed") /\ UNCHANGED net
  BY Zenon DEF SyncChunk
<1>4. CASE Ends(c, "failed") /\ UNCHANGED net
  BY <1>1, <1>2, <1>4, EndsFrame, LocalStep, LocalsKept, StoresSameTyped
<1>5. CASE /\ net' = net \cup Requests(C, docs[c])
           /\ batch' = [batch EXCEPT ![c] = C]
           /\ Goto(c, "syncing")
           /\ UNCHANGED docs
  <2>1. OthersAt(c) /\ pc'[c] = "syncing"
    BY <1>1, <1>5, GotoFrame DEF OthersAt, Typed, TypeOK
  <2>2. C \in SUBSET Uuids /\ docs[c] \in [Uuids -> Document]
    BY <1>1 DEF Slices, Chunks, Typed, TypeOK
  <2>3. \A u \in Uuids : Coherent(u, docs[c][u])
    BY <1>1, <1>2 DEF HeldAt
  <2>4. NetCoherent'
    BY <1>2, <1>5, <2>2, <2>3, StoresSame, NetGrows
  <2>5. QED
    BY <1>1, <1>2, <1>5, <2>1, <2>4, LocalStep, LocalsKept
<1>6. QED
  BY <1>3, <1>4, <1>5

LEMMA SendInv ==
    ASSUME Inv, Typed', NEW p \in Procs, NEW where \in {"syncing", "burying"},
           pc[p] # "prepare", Goto(p, where),
           net' = net \cup Requests(batch[p], docs[p]),
           UNCHANGED <<ledger, graph, index, docs, batch>>
    PROVE  Inv'
<1>1. Typed /\ HeldAt(p)
  BY InvParts DEF InvByParts
<1>2. OthersAt(p) /\ pc'[p] = where
  BY <1>1, GotoFrame DEF OthersAt
<1>3. batch[p] \in SUBSET Uuids /\ docs[p] \in [Uuids -> Document]
  BY <1>1 DEF Typed, TypeOK
<1>4. \A u \in Uuids : Coherent(u, docs[p][u])
  BY <1>1 DEF HeldAt
<1>5. NetCoherent'
  BY <1>3, <1>4, StoresSame, NetGrows
<1>6. QED
  BY <1>2, <1>5, LocalStep, LocalsKept

LEMMA SweepSyncInv ==
    ASSUME Inv, Typed', NEW r \in Reconcilers, SweepSync(r)
    PROVE  Inv'
BY SendInv DEF SweepSync, Procs

LEMMA BuryInv ==
    ASSUME Inv, Typed', NEW p \in Procs, Bury(p)
    PROVE  Inv'
BY SendInv DEF Bury

LEMMA BulkSucceedsInv ==
    ASSUME Inv, Typed', NEW p \in Procs, BulkSucceeds(p)
    PROVE  Inv'
<1>1. Typed /\ HeldAt(p)
  BY InvParts DEF InvByParts
<1>2. /\ UNCHANGED <<ledger, graph, index, net, docs, batch>>
      /\ pc[p] \in {"syncing", "burying"}
      /\ Goto(p, IF pc[p] = "syncing" THEN "clear" ELSE "finalize")
      /\ \A u \in batch[p] : index[u].ver >= docs[p][u].ver
  BY DEF BulkSucceeds, storeVars, Acknowledged
<1>3. OthersAt(p) /\ pc'[p] \in {"clear", "finalize"}
  BY <1>1, <1>2, GotoFrame DEF OthersAt
<1>4. StoresAdvance /\ NoClash(p) /\ NetCoherent'
  BY <1>2, StoresSame, NetSame
<1>5. HeldAt(p)'
  BY <1>1, <1>2, <1>3 DEF HeldAt, Coherent, Exists, Content
<1>6. DurableAt(p)' /\ ReservesLater(p)
  BY <1>2, <1>3 DEF DurableAt, ReservesLater
<1>7. QED
  BY <1>3, <1>4, <1>5, <1>6, FrameStep

LEMMA AsleepInv ==
    ASSUME Inv, Typed', NEW r \in Reconcilers, Asleep(r),
           UNCHANGED <<ledger, graph, index, net>>
    PROVE  Inv'
<1>1. Typed /\ r \in Procs
  BY InvParts DEF InvByParts, Procs
<1>2. QED
  BY <1>1, AsleepFrame, LocalStep, LocalsKept, StoresSameTyped

LEMMA StartSweepInv ==
    ASSUME Inv, Typed', NEW r \in Reconcilers, StartSweep(r)
    PROVE  Inv'
<1>1. Typed /\ r \in Procs
  BY InvParts DEF InvByParts, Procs
<1>2. /\ UNCHANGED <<ledger, graph, index, net, docs, batch>>
      /\ Goto(r, "scan_deletes") /\ pc[r] # "prepare"
  BY DEF StartSweep, storeVars
<1>3. OthersAt(r) /\ pc'[r] = "scan_deletes"
  BY <1>1, <1>2, GotoFrame DEF OthersAt
<1>4. QED
  BY <1>1, <1>2, <1>3, LocalStep, LocalsKept, StoresSameTyped

LEMMA DeletesSweptInv ==
    ASSUME Inv, Typed', NEW r \in Reconcilers, DeletesSwept(r)
    PROVE  Inv'
<1>1. Typed /\ r \in Procs
  BY InvParts DEF InvByParts, Procs
<1>2. UNCHANGED <<ledger, graph, index, net>> /\ pc[r] # "prepare"
  BY DEF DeletesSwept, storeVars
<1>3. CASE Asleep(r)
  BY <1>2, <1>3, AsleepInv
<1>4. CASE Goto(r, "scan_saves") /\ UNCHANGED <<docs, batch>>
  <2>1. OthersAt(r) /\ pc'[r] = "scan_saves"
    BY <1>1, <1>4, GotoFrame DEF OthersAt
  <2>2. QED
    BY <1>1, <1>2, <1>4, <2>1, LocalStep, LocalsKept, StoresSameTyped
<1>5. QED
  BY <1>3, <1>4 DEF DeletesSwept

LEMMA SavesSweptInv ==
    ASSUME Inv, Typed', NEW r \in Reconcilers, SavesSwept(r)
    PROVE  Inv'
BY AsleepInv DEF SavesSwept, storeVars

LEMMA SweepAbortsInv ==
    ASSUME Inv, Typed', NEW r \in Reconcilers, SweepAborts(r)
    PROVE  Inv'
BY AsleepInv DEF SweepAborts, storeVars

LEMMA SplitBatchInv ==
    ASSUME Inv, Typed', NEW r \in Reconcilers, pc[r] # "prepare",
           NEW work \in {"sync", "bury"}, NEW scan \in {"scan_saves", "scan_deletes"},
           SplitBatch(r, work, scan), UNCHANGED <<ledger, graph, index, net>>
    PROVE  Inv'
<1>1. Typed /\ r \in Procs
  BY InvParts DEF InvByParts, Procs
<1>2. QED
  BY <1>1, SplitBatchFrame, LocalStep, LocalsKept, StoresSameTyped

LEMMA SweepRejectsInv ==
    ASSUME Inv, Typed', NEW r \in Reconcilers, SweepRejects(r)
    PROVE  Inv'
BY SplitBatchInv DEF SweepRejects, storeVars

LEMMA SweepBatchFailsInv ==
    ASSUME Inv, Typed', NEW r \in Reconcilers, SweepBatchFails(r)
    PROVE  Inv'
BY SplitBatchInv DEF SweepBatchFails, storeVars

(* What a reconciler reads from the graph is coherent with it.             *)
LEMMA ReadPageInv ==
    ASSUME Inv, Typed', NEW r \in Reconcilers, pc[r] # "prepare",
           NEW listed \in SUBSET Uuids, NEW records \in [listed -> Document],
           NEW where \in {"bury", "sync"},
           \A u \in listed : Coherent(u, records[u]),
           ReadPage(r, listed, records, where)
    PROVE  Inv'
<1>1. Typed /\ r \in Procs
  BY InvParts DEF InvByParts, Procs
<1>2. /\ UNCHANGED <<ledger, graph, index, net>> /\ Goto(r, where)
      /\ docs' = [docs EXCEPT ![r] =
             [u \in Uuids |-> IF u \in listed THEN records[u] ELSE NoDocument]]
      /\ batch' = [batch EXCEPT ![r] = listed]
  BY DEF ReadPage, storeVars
<1>3. OthersAt(r) /\ pc'[r] = where
  BY <1>1, <1>2, GotoFrame DEF OthersAt, Typed, TypeOK
<1>4. \A u \in Uuids : Coherent(u, docs'[r][u])
  BY <1>1, <1>2, NoDocumentCoherent DEF Typed, TypeOK
<1>5. QED
  BY <1>1, <1>2, <1>3, <1>4, LocalStep, StoresSameTyped

LEMMA ScanDeletesInv ==
    ASSUME Inv, Typed', NEW r \in Reconcilers, ScanDeletes(r)
    PROVE  Inv'
<1> DEFINE listed == Page(PendingDeletes \cap ahead[r], BatchSize)
           records == [u \in listed |-> Tombstone(graph[u].ver)]
<1>1. listed \in SUBSET (PendingDeletes \cap ahead[r])
  BY PageSubset
<1>2. listed \in SUBSET Uuids
  BY <1>1 DEF PendingDeletes
<1>3. ASSUME NEW u \in listed
      PROVE  Tombstone(graph[u].ver) \in Document /\ Coherent(u, Tombstone(graph[u].ver))
  <2>1. u \in Uuids /\ Exists(u) /\ graph[u].del
    BY <1>1 DEF PendingDeletes
  <2>2. TypedAt(u) /\ Sound(u)
    BY <2>1, InvParts, TypedEverywhere DEF InvByParts, Typed
  <2>3. graph[u].ver \in Nat
    BY <2>1, <2>2 DEF TypedAt, Exists, Entity
  <2>4. QED
    BY <2>1, <2>2, <2>3, DocumentTypes DEF Sound, Coherent, Tombstone, Live, TypedAt
<1>4. ReadPage(r, listed, records, "bury") /\ pc[r] # "prepare"
  BY Zenon DEF ScanDeletes
<1>5. records \in [listed -> Document] /\ \A u \in listed : Coherent(u, records[u])
  BY <1>3
<1>6. QED
  BY <1>2, <1>4, <1>5, ReadPageInv

LEMMA ScanSavesInv ==
    ASSUME Inv, Typed', NEW r \in Reconcilers, ScanSaves(r)
    PROVE  Inv'
<1> DEFINE listed == Page(PendingSaves \cap ahead[r], BatchSize)
           record(u) == [ver |-> graph[u].ver, group |-> graph[u].group, val |-> graph[u].val]
           records == [u \in listed |-> record(u)]
<1>1. listed \in SUBSET (PendingSaves \cap ahead[r])
  BY PageSubset
<1>2. listed \in SUBSET Uuids
  BY <1>1 DEF PendingSaves
<1>3. ASSUME NEW u \in listed
      PROVE  record(u) \in Document /\ Coherent(u, record(u))
  <2>1. u \in Uuids /\ Exists(u) /\ ~graph[u].del
    BY <1>1 DEF PendingSaves
  <2>2. TypedAt(u) /\ Sound(u)
    BY <2>1, InvParts, TypedEverywhere DEF InvByParts, Typed
  <2>3. graph[u] \in Entity
    BY <2>1, <2>2 DEF TypedAt, Exists
  <2>4. QED
    BY <2>1, <2>2, <2>3 DEF Sound, Coherent, Content, Live, TypedAt, Entity, Document
<1>4. ReadPage(r, listed, records, "sync") /\ pc[r] # "prepare"
  BY Zenon DEF ScanSaves
<1>5. records \in [listed -> Document] /\ \A u \in listed : Coherent(u, records[u])
  BY <1>3
<1>6. QED
  BY <1>2, <1>4, <1>5, ReadPageInv

-----------------------------------------------------------------------------
(* Steps that change a store.                                              *)

LEMMA ClearedStores ==
    ASSUME Inv, Typed', NEW S \in SUBSET Uuids, NEW d \in [Uuids -> Document],
           \A u \in S : index[u].ver >= d[u].ver,
           graph' = Cleared(S, d), UNCHANGED <<ledger, index>>
    PROVE  StoresAdvance /\ \A c \in Procs : NoClash(c)
<1>1. TypeOK /\ TypeOK' /\ (\A u \in Uuids : Sound(u)) /\ \A p \in Procs : HeldAt(p)
  BY InvParts DEF InvByParts, Typed
<1>2. ASSUME NEW u \in Uuids
      PROVE  /\ Sound(u)' /\ KeepsDocuments(u)
             /\ ledger'[u] >= ledger[u] /\ index'[u].ver >= index[u].ver
             /\ Exists(u)' => Exists(u) /\ graph'[u].ver = graph[u].ver
  <2>1. TypedAt(u) /\ TypedAt(u)' /\ Sound(u)
    BY <1>1, TypedEverywhere DEF TypeOK, StoreTypeOK, TypedAt
  <2>2. ledger'[u] >= ledger[u] /\ index'[u].ver >= index[u].ver
    BY <2>1 DEF TypedAt, Document
  <2>3. CASE /\ u \in S /\ Exists(u) /\ graph[u].ver = d[u].ver
             /\ graph[u].sync = d[u].ver /\ ~graph[u].del
    <3>1. graph'[u] = [graph[u] EXCEPT !.sync = 0]
      BY <2>3 DEF Cleared
    <3>2. graph'[u].ver = graph[u].ver
      BY <2>1, <2>3, <3>1 DEF TypedAt, Exists, Entity
    <3>3. QED
      BY <2>1, <2>2, <2>3, <3>1, <3>2, ClearAt
  <2>4. CASE ~(/\ u \in S /\ Exists(u) /\ graph[u].ver = d[u].ver
               /\ graph[u].sync = d[u].ver /\ ~graph[u].del)
    <3>1. graph'[u] = graph[u]
      BY <2>4 DEF Cleared
    <3>2. QED
      BY <2>1, <2>2, <3>1, SameAt DEF Exists
  <2>5. QED
    BY <2>3, <2>4
<1>3. \A c \in Procs : NoClash(c)
  BY <1>1, <1>2 DEF NoClash, HeldAt
<1>4. QED
  BY <1>2, <1>3 DEF StoresAdvance

LEMMA FinalizedStores ==
    ASSUME Inv, Typed', NEW S \in SUBSET Uuids, NEW d \in [Uuids -> Document],
           \A u \in S : index[u].ver >= d[u].ver,
           graph' = Finalized(S, d), UNCHANGED <<ledger, index>>
    PROVE  StoresAdvance /\ \A c \in Procs : NoClash(c)
<1>1. TypeOK /\ TypeOK' /\ (\A u \in Uuids : Sound(u)) /\ \A p \in Procs : HeldAt(p)
  BY InvParts DEF InvByParts, Typed
<1>2. ASSUME NEW u \in Uuids
      PROVE  /\ Sound(u)' /\ KeepsDocuments(u)
             /\ ledger'[u] >= ledger[u] /\ index'[u].ver >= index[u].ver
             /\ Exists(u)' => Exists(u) /\ graph'[u].ver = graph[u].ver
  <2>1. TypedAt(u) /\ TypedAt(u)' /\ Sound(u)
    BY <1>1, TypedEverywhere DEF TypeOK, StoreTypeOK, TypedAt
  <2>2. ledger'[u] >= ledger[u] /\ index'[u].ver >= index[u].ver
    BY <2>1 DEF TypedAt, Document
  <2>3. CASE u \in S /\ Exists(u) /\ graph[u].del /\ graph[u].ver = d[u].ver
    <3>1. graph'[u] = Absent
      BY <2>3 DEF Finalized
    <3>2. ~Exists(u)'
      BY <3>1 DEF Exists
    <3>3. QED
      BY <2>1, <2>2, <2>3, <3>1, <3>2, FinalizeAt
  <2>4. CASE ~(u \in S /\ Exists(u) /\ graph[u].del /\ graph[u].ver = d[u].ver)
    <3>1. graph'[u] = graph[u]
      BY <2>4 DEF Finalized
    <3>2. QED
      BY <2>1, <2>2, <3>1, SameAt DEF Exists
  <2>5. QED
    BY <2>3, <2>4
<1>3. \A c \in Procs : NoClash(c)
  BY <1>1, <1>2 DEF NoClash, HeldAt
<1>4. QED
  BY <1>2, <1>3 DEF StoresAdvance

LEMMA PreparedStores ==
    ASSUME Inv, Typed', NEW c \in Procs, pc[c] = "prepare",
           graph' = Prepared(batch[c], docs[c]), UNCHANGED <<ledger, index, docs>>
    PROVE  /\ StoresAdvance /\ NoClash(c)
           /\ \A u \in Uuids : Coherent(u, docs[c][u])'
<1>1. /\ TypeOK /\ TypeOK' /\ (\A u \in Uuids : Sound(u)) /\ ReservationsDistinct
      /\ \A p \in Procs : HeldAt(p)
  BY InvParts DEF InvByParts, Typed
<1>2. ASSUME NEW u \in Uuids
      PROVE  /\ Sound(u)' /\ KeepsDocuments(u)
             /\ ledger'[u] >= ledger[u] /\ index'[u].ver >= index[u].ver
             /\ \/ graph'[u] = graph[u]
                \/ /\ u \in batch[c] /\ docs[c][u].ver # 0
                   /\ graph'[u].ver = docs[c][u].ver
  <2>1. TypedAt(u) /\ TypedAt(u)' /\ Sound(u)
    BY <1>1, TypedEverywhere DEF TypeOK, StoreTypeOK, TypedAt
  <2>2. ledger'[u] >= ledger[u] /\ index'[u].ver >= index[u].ver
    BY <2>1 DEF TypedAt, Document
  <2>3. docs[c][u].ver \in Nat /\ docs[c][u].ver <= ledger[u]
    BY <1>1 DEF HeldAt, TypeOK, Document
  <2>4. CASE u \in batch[c] /\ Exists(u) /\ graph[u].ver < docs[c][u].ver
    <3>1. graph'[u] = [graph[u] EXCEPT !.del = TRUE, !.ver = docs[c][u].ver]
      BY <2>4 DEF Prepared
    <3>2. graph[u] \in Entity
      BY <2>1, <2>4 DEF TypedAt, Exists
    <3>3. graph'[u].ver = docs[c][u].ver
      BY <3>1, <3>2 DEF Entity
    <3>4. docs[c][u].ver # 0
      BY <2>3, <2>4, <3>2 DEF Entity
    <3>5. Sound(u)' /\ KeepsDocuments(u)
      BY <2>1, <2>3, <2>4, <3>1, PrepareAt
    <3>6. QED
      BY <2>2, <2>4, <3>3, <3>4, <3>5
  <2>5. CASE ~(u \in batch[c] /\ Exists(u) /\ graph[u].ver < docs[c][u].ver)
    <3>1. graph'[u] = graph[u]
      BY <2>5 DEF Prepared
    <3>2. QED
      BY <2>1, <2>2, <3>1, SameAt
  <2>6. QED
    BY <2>4, <2>5
<1>3. NoClash(c)
  <2> SUFFICES ASSUME NEW p \in Procs \ {c}, pc[p] = "prepare", NEW u \in Uuids, Exists(u)'
               PROVE  graph'[u].ver # docs[p][u].ver
    BY DEF NoClash
  <2>1. CASE graph'[u] = graph[u]
    BY <1>1, <2>1 DEF HeldAt, Exists
  <2>2. CASE docs[c][u].ver # 0 /\ graph'[u].ver = docs[c][u].ver
    BY <1>1, <2>2 DEF ReservationsDistinct
  <2>3. QED
    BY <1>2, <2>1, <2>2
<1>4. ASSUME NEW u \in Uuids, NEW d \in Document, d = docs[c][u]
      PROVE  Coherent(u, d)'
  <2>1. /\ ~Live(d) /\ d.ver <= ledger[u]
        /\ d.ver # 0 => u \in batch[c]
        /\ Exists(u) => graph[u].ver # d.ver
    BY <1>1, <1>4 DEF HeldAt
  <2>2. TypedAt(u) /\ TypedAt(u)' /\ Sound(u)
    BY <1>1, TypedEverywhere DEF TypeOK, StoreTypeOK, TypedAt
  <2>3. d.ver \in Nat
    BY DEF Document
  <2>4. CASE u \in batch[c] /\ Exists(u) /\ graph[u].ver < d.ver
    <3>1. graph'[u] = [graph[u] EXCEPT !.del = TRUE, !.ver = d.ver]
      BY <1>4, <2>4 DEF Prepared
    <3>2. graph[u] \in Entity
      BY <2>2, <2>4 DEF TypedAt, Exists
    <3>3. graph'[u].ver = d.ver /\ graph'[u].del
      BY <3>1, <3>2 DEF Entity
    <3>4. QED
      BY <2>1, <2>3, <3>3 DEF Coherent, Live
  <2>5. CASE ~(u \in batch[c] /\ Exists(u) /\ graph[u].ver < d.ver)
    <3>1. graph'[u] = graph[u]
      BY <1>4, <2>5 DEF Prepared
    <3>2. Exists(u) => d.ver < graph[u].ver
      <4>1. CASE ~Exists(u)
        BY <4>1
      <4>2. CASE Exists(u)
        BY <2>1, <2>2, <2>3, <2>5, <4>2 DEF TypedAt, Exists, Entity, Sound
      <4>3. QED
        BY <4>1, <4>2
    <3>3. QED
      BY <2>1, <2>2, <2>3, <3>1, <3>2 DEF Coherent, Live, Exists, TypedAt, Entity
  <2>6. QED
    BY <2>4, <2>5
<1>5. ASSUME NEW u \in Uuids
      PROVE  Coherent(u, docs[c][u])'
  <2>1. PICK d \in Document : d = docs[c][u]
    BY <1>1 DEF TypeOK
  <2>2. Coherent(u, d)'
    BY <1>4, <2>1
  <2>3. d = docs'[c][u]
    BY <2>1
  <2>4. QED
    BY <2>2, <2>3 DEF Coherent, Live
<1>6. StoresAdvance
  BY <1>2 DEF StoresAdvance
<1>7. QED
  BY <1>3, <1>5, <1>6

(* What process c holds, unless it forgets it, stays coherent.             *)
LEMMA HeldLater ==
    ASSUME Inv, Typed', StoresAdvance, NEW c \in Procs, pc[c] # "prepare",
           docs'[c] = docs[c] \/ docs'[c] = NoDocuments
    PROVE  \A u \in Uuids : Coherent(u, docs[c][u])'
<1> SUFFICES ASSUME NEW u \in Uuids PROVE Coherent(u, docs[c][u])'
  OBVIOUS
<1>1. docs'[c][u] \in Document
  BY DEF Typed, TypeOK
<1>2. PICK d \in Document : d = docs'[c][u]
  BY <1>1
<1>3. Coherent(u, d)
  BY <1>2, LocalsKept
<1>4. Coherent(u, d)'
  BY <1>3 DEF StoresAdvance, KeepsDocuments
<1>5. QED
  BY <1>2, <1>4 DEF Coherent, Live

(* A step of process c that changes the graph and sends nothing.           *)
LEMMA GraphStep ==
    ASSUME Inv, Typed', NEW c \in Procs, OthersAt(c), StoresAdvance, NoClash(c),
           net' = net, pc'[c] \notin {"prepare", "clear", "finalize"},
           \A u \in Uuids : Coherent(u, docs[c][u])'
    PROVE  Inv'
<1>1. HeldAt(c)' /\ DurableAt(c)' /\ ReservesLater(c)
  BY DEF HeldAt, DurableAt, ReservesLater
<1>2. QED
  BY <1>1, NetSame, FrameStep

LEMMA PrepareDeletionInv ==
    ASSUME Inv, Typed', NEW c \in Clients, PrepareDeletion(c)
    PROVE  Inv'
<1>1. Typed /\ c \in Procs
  BY InvParts DEF InvByParts, Procs
<1>2. /\ pc[c] = "prepare" /\ Goto(c, "bury")
      /\ graph' = Prepared(batch[c], docs[c])
      /\ UNCHANGED <<ledger, index, net, docs, batch>>
  BY DEF PrepareDeletion
<1>3. OthersAt(c) /\ pc'[c] = "bury"
  BY <1>1, <1>2, GotoFrame DEF OthersAt
<1>4. QED
  BY <1>1, <1>2, <1>3, PreparedStores, GraphStep

LEMMA ClearSavedInv ==
    ASSUME Inv, Typed', NEW c \in Clients, ClearSaved(c)
    PROVE  Inv'
<1>1. Typed /\ c \in Procs /\ DurableAt(c)
  BY InvParts DEF InvByParts, Procs
<1>2. /\ pc[c] = "clear" /\ graph' = Cleared(batch[c], docs[c])
      /\ UNCHANGED <<ledger, index, net>>
      /\ \/ Goto(c, "sync") /\ UNCHANGED <<docs, batch>>
         \/ Ends(c, "idle")
  BY DEF ClearSaved
<1>3. StoresAdvance /\ NoClash(c)
  <2>1. batch[c] \in SUBSET Uuids /\ docs[c] \in [Uuids -> Document]
    BY <1>1 DEF Typed, TypeOK
  <2>2. QED
    BY <1>1, <1>2, <2>1, ClearedStores DEF DurableAt
<1>4. /\ OthersAt(c) /\ pc'[c] \in {"sync", "idle"}
      /\ docs'[c] = docs[c] \/ docs'[c] = NoDocuments
  <2>1. CASE Goto(c, "sync") /\ UNCHANGED <<docs, batch>>
    BY <1>1, <2>1, GotoFrame DEF OthersAt
  <2>2. QED
    BY <1>1, <1>2, <2>1, EndsFrame
<1>5. QED
  BY <1>1, <1>2, <1>3, <1>4, HeldLater, GraphStep

LEMMA SweepClearInv ==
    ASSUME Inv, Typed', NEW r \in Reconcilers, SweepClear(r)
    PROVE  Inv'
<1>1. Typed /\ r \in Procs /\ DurableAt(r)
  BY InvParts DEF InvByParts, Procs
<1>2. /\ pc[r] = "clear" /\ graph' = Cleared(batch[r], docs[r])
      /\ UNCHANGED <<ledger, index, net>>
      /\ NextBatch(r, "sync", "scan_saves")
  BY DEF SweepClear
<1>3. StoresAdvance /\ NoClash(r)
  <2>1. batch[r] \in SUBSET Uuids /\ docs[r] \in [Uuids -> Document]
    BY <1>1 DEF Typed, TypeOK
  <2>2. QED
    BY <1>1, <1>2, <2>1, ClearedStores DEF DurableAt
<1>4. /\ OthersAt(r) /\ pc'[r] \in {"sync", "scan_saves"}
      /\ docs'[r] = docs[r] \/ docs'[r] = NoDocuments
  BY <1>1, <1>2, NextBatchFrame
<1>5. QED
  BY <1>1, <1>2, <1>3, <1>4, HeldLater, GraphStep

LEMMA FinalizeDeletionInv ==
    ASSUME Inv, Typed', NEW c \in Clients, FinalizeDeletion(c)
    PROVE  Inv'
<1>1. Typed /\ c \in Procs /\ DurableAt(c)
  BY InvParts DEF InvByParts, Procs
<1>2. /\ pc[c] = "finalize" /\ graph' = Finalized(batch[c], docs[c])
      /\ UNCHANGED <<ledger, index, net>> /\ Ends(c, "idle")
  BY DEF FinalizeDeletion
<1>3. StoresAdvance /\ NoClash(c)
  <2>1. batch[c] \in SUBSET Uuids /\ docs[c] \in [Uuids -> Document]
    BY <1>1 DEF Typed, TypeOK
  <2>2. QED
    BY <1>1, <1>2, <2>1, FinalizedStores DEF DurableAt
<1>4. OthersAt(c) /\ pc'[c] = "idle" /\ docs'[c] = NoDocuments
  BY <1>1, <1>2, EndsFrame
<1>5. QED
  BY <1>1, <1>2, <1>3, <1>4, HeldLater, GraphStep

LEMMA SweepFinalizeInv ==
    ASSUME Inv, Typed', NEW r \in Reconcilers, SweepFinalize(r)
    PROVE  Inv'
<1>1. Typed /\ r \in Procs /\ DurableAt(r)
  BY InvParts DEF InvByParts, Procs
<1>2. /\ pc[r] = "finalize" /\ graph' = Finalized(batch[r], docs[r])
      /\ UNCHANGED <<ledger, index, net>>
      /\ NextBatch(r, "bury", "scan_deletes")
  BY DEF SweepFinalize
<1>3. StoresAdvance /\ NoClash(r)
  <2>1. batch[r] \in SUBSET Uuids /\ docs[r] \in [Uuids -> Document]
    BY <1>1 DEF Typed, TypeOK
  <2>2. QED
    BY <1>1, <1>2, <2>1, FinalizedStores DEF DurableAt
<1>4. /\ OthersAt(r) /\ pc'[r] \in {"bury", "scan_deletes"}
      /\ docs'[r] = docs[r] \/ docs'[r] = NoDocuments
  BY <1>1, <1>2, NextBatchFrame
<1>5. QED
  BY <1>1, <1>2, <1>3, <1>4, HeldLater, GraphStep

(* A deletion takes generations that nothing else carries.                 *)
LEMMA ReserveDeletionInv ==
    ASSUME Inv, Typed', NEW c \in Clients, ReserveDeletion(c)
    PROVE  Inv'
<1>1. /\ Typed /\ TypeOK /\ TypeOK' /\ c \in Procs
      /\ (\A u \in Uuids : Sound(u)) /\ \A p \in Procs : HeldAt(p)
  BY InvParts DEF InvByParts, Procs, Typed
<1>2. /\ ledger' = Reserved(batch[c]) /\ Goto(c, "prepare")
      /\ docs' = [docs EXCEPT ![c] =
             [u \in Uuids |-> IF u \in batch[c] THEN Tombstone(ledger[u] + 1)
                              ELSE NoDocument]]
      /\ UNCHANGED <<graph, index, net, batch>>
  BY DEF ReserveDeletion
<1>3. OthersAt(c) /\ pc'[c] = "prepare"
  BY <1>1, <1>2, GotoFrame DEF OthersAt, TypeOK
<1>4. ASSUME NEW u \in Uuids
      PROVE  /\ ledger[u] \in Nat /\ ledger'[u] \in Nat /\ ledger'[u] >= ledger[u]
             /\ u \in batch[c] => ledger'[u] = ledger[u] + 1
             /\ index'[u].ver >= index[u].ver
             /\ Sound(u)' /\ KeepsDocuments(u)
  <2>1. TypedAt(u) /\ TypedAt(u)'
    BY <1>1, TypedEverywhere DEF TypeOK, StoreTypeOK, TypedAt
  <2>2. /\ ledger'[u] >= ledger[u]
        /\ u \in batch[c] => ledger'[u] = ledger[u] + 1
        /\ index'[u].ver >= index[u].ver
    BY <1>2, <2>1 DEF Reserved, TypedAt, Document
  <2>3. QED
    BY <1>1, <1>2, <2>1, <2>2, SameAt DEF TypedAt
<1>5. StoresAdvance /\ NoClash(c)
  BY <1>1, <1>2, <1>4 DEF StoresAdvance, NoClash, HeldAt, Exists
<1>6. ASSUME NEW u \in Uuids
      PROVE  /\ docs'[c][u].val = NoVector
             /\ \/ u \in batch[c] /\ docs'[c][u].ver = ledger[u] + 1
                \/ docs'[c][u].ver = 0
  BY <1>1, <1>2 DEF TypeOK, Tombstone, NoDocument
<1>7. HeldAt(c)'
  <2> SUFFICES ASSUME NEW u \in Uuids
               PROVE  /\ ~Live(docs'[c][u])
                      /\ docs'[c][u].ver <= ledger'[u]
                      /\ docs'[c][u].ver # 0 => u \in batch'[c]
                      /\ Exists(u)' => graph'[u].ver # docs'[c][u].ver
    BY <1>3 DEF HeldAt, Live
  <2>1. Exists(u)' => /\ graph'[u].ver \in Nat
                      /\ 0 < graph'[u].ver /\ graph'[u].ver <= ledger[u]
    BY <1>1, <1>2 DEF Sound, Exists, TypeOK, StoreTypeOK, Entity
  <2>2. QED
    BY <1>2, <1>4, <1>6, <2>1 DEF Live
<1>8. ReservesLater(c)
  <2> SUFFICES ASSUME NEW p \in Procs, pc[p] = "prepare", NEW u \in Uuids
               PROVE  docs'[c][u].ver = 0 \/ docs'[c][u].ver > docs[p][u].ver
    BY DEF ReservesLater
  <2>1. docs[p][u].ver \in Nat /\ docs[p][u].ver <= ledger[u]
    BY <1>1 DEF HeldAt, TypeOK, Document
  <2>2. QED
    BY <1>4, <1>6, <2>1
<1>9. DurableAt(c)' /\ NetCoherent'
  BY <1>2, <1>3, <1>5, NetSame DEF DurableAt
<1>10. QED
  BY <1>1, <1>3, <1>5, <1>7, <1>8, <1>9, FrameStep

-----------------------------------------------------------------------------
(* A save: one query writes what it may and takes a generation for all.    *)

LEMMA SavedStores ==
    ASSUME Inv, Typed', NEW c \in Clients, pc[c] = "write", NEW C \in SUBSET left[c],
           ledger' = Reserved(C), graph' = Saved(C, todo[c]), UNCHANGED index
    PROVE  /\ StoresAdvance /\ NoClash(c)
           /\ \A d \in [Uuids -> Document] :
                 d = Persisted(c, C) => \A u \in Uuids : Coherent(u, d[u])'
<1>1. /\ Typed /\ TypeOK /\ TypeOK' /\ c \in Procs
      /\ (\A u \in Uuids : Sound(u)) /\ \A p \in Procs : HeldAt(p)
  BY InvParts DEF InvByParts, Procs, Typed
<1>2. /\ C \in SUBSET Uuids /\ \A u \in C : todo[c][u] \in Request
  BY <1>1, PersistedType
<1>3. ASSUME NEW u \in Uuids, NEW d \in Document, d = Persisted(c, C)[u]
      PROVE  /\ Sound(u)' /\ KeepsDocuments(u) /\ Coherent(u, d)'
             /\ ledger[u] \in Nat /\ ledger'[u] >= ledger[u]
             /\ index'[u].ver >= index[u].ver
             /\ graph'[u] = graph[u] \/ graph'[u].ver = ledger[u] + 1
  <2>1. TypedAt(u) /\ TypedAt(u)' /\ Sound(u)
    BY <1>1, TypedEverywhere DEF TypeOK, StoreTypeOK, TypedAt
  <2>2. /\ ledger'[u] >= ledger[u] /\ index'[u].ver >= index[u].ver
        /\ u \in C => ledger'[u] = ledger[u] + 1
    BY <2>1 DEF Reserved, TypedAt, Document
  <2>3. CASE u \in C /\ Accepts(u, todo[c][u].group)
    <3>1. PICK v \in Nat, r \in Request : v = ledger[u] + 1 /\ r = todo[c][u]
      BY <1>2, <2>1, <2>3 DEF TypedAt
    <3>2. graph'[u] = [ver |-> v, group |-> r.group, val |-> r.val,
                       sync |-> v, del |-> FALSE]
      BY <2>3, <3>1 DEF Saved
    <3>3. d = [ver |-> v, group |-> r.group, val |-> r.val]
      BY <1>3, <2>3, <3>1 DEF Persisted
    <3>4. Accepts(u, r.group) /\ ledger'[u] = v
      BY <2>2, <2>3, <3>1
    <3>5. /\ Sound(u)' /\ KeepsDocuments(u)
          /\ Coherent(u, [ver |-> v, group |-> r.group, val |-> r.val])'
      BY <2>1, <3>1, <3>2, <3>4, SaveAt
    <3>6. QED
      BY <2>1, <2>2, <3>1, <3>2, <3>3, <3>5 DEF TypedAt
  <2>4. CASE ~(u \in C /\ Accepts(u, todo[c][u].group))
    <3>1. graph'[u] = graph[u]
      BY <2>4 DEF Saved
    <3>2. d = docs[c][u]
      BY <1>3, <2>4 DEF Persisted
    <3>3. Coherent(u, d)
      BY <1>1, <3>2 DEF HeldAt
    <3>4. Sound(u)' /\ KeepsDocuments(u)
      BY <2>1, <2>2, <3>1, SameAt
    <3>5. QED
      BY <2>1, <2>2, <3>1, <3>3, <3>4 DEF KeepsDocuments, TypedAt
  <2>5. QED
    BY <2>3, <2>4
<1>4. Persisted(c, C) \in [Uuids -> Document]
  BY <1>1, PersistedType
<1>5. StoresAdvance
  BY <1>3, <1>4 DEF StoresAdvance
<1>6. NoClash(c)
  <2> SUFFICES ASSUME NEW p \in Procs, pc[p] = "prepare", NEW u \in Uuids, Exists(u)'
               PROVE  graph'[u].ver # docs[p][u].ver
    BY DEF NoClash
  <2>1. docs[p][u].ver \in Nat /\ docs[p][u].ver <= ledger[u]
    BY <1>1 DEF HeldAt, TypeOK, Document
  <2>2. CASE graph'[u] = graph[u]
    BY <1>1, <2>2 DEF HeldAt, Exists
  <2>3. CASE graph'[u].ver = ledger[u] + 1 /\ ledger[u] \in Nat
    BY <2>1, <2>3
  <2>4. QED
    BY <1>3, <1>4, <2>2, <2>3
<1>7. QED
  BY <1>3, <1>5, <1>6

LEMMA SaveChunkInv ==
    ASSUME Inv, Typed', NEW c \in Clients, SaveChunk(c)
    PROVE  Inv'
<1>1. Typed /\ c \in Procs
  BY InvParts DEF InvByParts, Procs
<1>2. PICK C \in Chunks(left[c]) :
        /\ ledger' = Reserved(C)
        /\ graph' = Saved(C, todo[c])
        /\ \/ docs' = [docs EXCEPT ![c] = Persisted(c, C)] /\ UNCHANGED <<pc, batch>>
           \/ /\ docs' = [docs EXCEPT ![c] = Persisted(c, C)]
              /\ Goto(c, "sync") /\ UNCHANGED batch
           \/ Ends(c, "idle")
           \/ Ends(c, "failed")
  BY Zenon DEF SaveChunk
<1>3. C \in SUBSET left[c] /\ pc[c] = "write" /\ UNCHANGED <<index, net>>
  BY DEF Chunks, SaveChunk
<1>4. /\ StoresAdvance /\ NoClash(c)
      /\ \A d \in [Uuids -> Document] :
            d = Persisted(c, C) => \A u \in Uuids : Coherent(u, d[u])'
  BY <1>2, <1>3, SavedStores
<1>5. CASE Ends(c, "idle") \/ Ends(c, "failed")
  <2>1. OthersAt(c) /\ pc'[c] \in {"idle", "failed"} /\ docs'[c] = NoDocuments
    BY <1>1, <1>5, EndsFrame
  <2>2. QED
    BY <1>1, <1>3, <1>4, <2>1, HeldLater, GraphStep
<1>6. CASE /\ docs' = [docs EXCEPT ![c] = Persisted(c, C)]
           /\ UNCHANGED pc \/ Goto(c, "sync")
           /\ UNCHANGED batch
  <2>1. OthersAt(c) /\ pc'[c] \in {"write", "sync"}
    BY <1>1, <1>3, <1>6, GotoFrame DEF OthersAt, Typed, TypeOK
  <2>2. Persisted(c, C) \in [Uuids -> Document]
    BY <1>1, <1>3, PersistedType
  <2>3. docs'[c] = Persisted(c, C)
    BY <1>1, <1>6 DEF Typed, TypeOK
  <2>4. PICK d \in [Uuids -> Document] : d = docs'[c]
    BY <2>2, <2>3
  <2>5. \A u \in Uuids : Coherent(u, d[u])'
    BY <1>4, <2>3, <2>4
  <2>6. \A u \in Uuids : Coherent(u, docs[c][u])'
    BY <2>4, <2>5 DEF Coherent, Live
  <2>7. QED
    BY <1>1, <1>3, <1>4, <2>1, <2>6, GraphStep
<1>7. QED
  BY <1>2, <1>5, <1>6

(* The index executes a request, whoever sent it and however late.         *)
LEMMA LandsInv ==
    ASSUME Inv, Typed', NEW w \in net, Lands(w)
    PROVE  Inv'
<1>1. /\ TypeOK /\ TypeOK' /\ NetCoherent /\ (\A u \in Uuids : Sound(u))
  BY InvParts DEF InvByParts, Typed
<1>2. w.uuid \in Uuids /\ w.doc \in Document /\ Coherent(w.uuid, w.doc)
  BY <1>1 DEF TypeOK, StoreTypeOK, Write, NetCoherent
<1>3. /\ index' = [index EXCEPT ![w.uuid] = w.doc] /\ w.doc.ver > index[w.uuid].ver
      /\ UNCHANGED <<ledger, graph, net, pc, docs, batch>>
  BY DEF Lands, Deliver, procVars
<1>4. ASSUME NEW u \in Uuids
      PROVE  /\ Sound(u)' /\ KeepsDocuments(u)
             /\ ledger'[u] >= ledger[u] /\ index'[u].ver >= index[u].ver
  <2>1. TypedAt(u) /\ TypedAt(u)' /\ Sound(u)
    BY <1>1, TypedEverywhere DEF TypeOK, StoreTypeOK, TypedAt
  <2>2. ledger'[u] >= ledger[u]
    BY <1>3, <2>1 DEF TypedAt
  <2>3. CASE u = w.uuid
    <3>1. PICK d \in Document : d = w.doc
      BY <1>2
    <3>2. index'[u] = d /\ d.ver > index[u].ver /\ Coherent(u, d)
      BY <1>1, <1>2, <1>3, <2>3, <3>1 DEF TypeOK, StoreTypeOK
    <3>3. Sound(u)' /\ KeepsDocuments(u)
      BY <1>3, <2>1, <3>2, DeliverAt
    <3>4. QED
      BY <2>1, <2>2, <3>2, <3>3 DEF TypedAt, Document
  <2>4. CASE u # w.uuid
    <3>1. index'[u] = index[u]
      BY <1>1, <1>3, <2>4 DEF TypeOK, StoreTypeOK
    <3>2. QED
      BY <1>3, <2>1, <2>2, <3>1, SameAt DEF TypedAt, Document
  <2>5. QED
    BY <2>3, <2>4
<1>5. StoresAdvance
  BY <1>4 DEF StoresAdvance
<1>6. QED
  BY <1>3, <1>5, NetSame, StillStep

-----------------------------------------------------------------------------
(* The theorems.                                                           *)

LEMMA InitInv == Init => Inv
<1> SUFFICES ASSUME Init PROVE Inv
  OBVIOUS
<1>1. Typed
  BY InitTyped
<1>2. ASSUME NEW u \in Uuids
      PROVE  /\ ~Exists(u) /\ ledger[u] = 0 /\ index[u] = NoDocument
             /\ \A p \in Procs : docs[p][u] = NoDocument
  BY DEF Init, StoreInit, Exists, NoDocuments
<1>3. \A u \in Uuids : Coherent(u, NoDocument)
  BY <1>2 DEF Coherent, NoDocument, Live
<1>4. net = {} /\ \A p \in Procs : pc[p] \in {"idle", "sleep"}
  BY DEF Init, StoreInit
<1>5. EntitiesCoherent /\ IndexCoherent /\ NetCoherent /\ CleanVersions
  BY <1>2, <1>3, <1>4 DEF EntitiesCoherent, IndexCoherent, NetCoherent, CleanVersions, Clean
<1>6. HeldCoherent /\ ReservationsDistinct /\ BulkDurable
  BY <1>2, <1>3, <1>4 DEF HeldCoherent, ReservationsDistinct, BulkDurable
<1>7. VectorsOwned
  BY <1>2 DEF VectorsOwned, Live, NoDocument
<1>8. QED
  BY <1>1, <1>5, <1>6, <1>7 DEF Inv, Typed

LEMMA StutterInv ==
    ASSUME Inv, Typed', UNCHANGED vars
    PROVE  Inv'
<1>1. UNCHANGED <<ledger, graph, index, net, pc, docs, batch>>
  BY DEF vars
<1>2. QED
  BY <1>1, StoresSame, NetSame, StillStep

LEMMA NextInv == Inv /\ [Next]_vars => Inv'
<1> SUFFICES ASSUME Inv, [Next]_vars PROVE Inv'
  OBVIOUS
<1>1. Typed'
  BY InvParts, NextTyped DEF InvByParts
<1>2. CASE UNCHANGED vars
  BY <1>1, <1>2, StutterInv
<1>3. ASSUME NEW c \in Clients,
             StartSave(c) \/ StartDelete(c) \/ ClientStep(c) \/ ClientFails(c)
      PROVE  Inv'
  <2>1. c \in Procs
    BY DEF Procs
  <2>2. QED
    BY <1>1, <1>3, <2>1, StartSaveInv, SaveChunkInv, SyncChunkInv, ClearSavedInv,
       StartDeleteInv, ReserveDeletionInv, PrepareDeletionInv, FinalizeDeletionInv,
       ClientFailsInv, BuryInv, BulkSucceedsInv
       DEF ClientStep
<1>4. ASSUME NEW r \in Reconcilers,
             ReconcilerStep(r) \/ SweepBatchFails(r) \/ SweepAborts(r)
      PROVE  Inv'
  <2>1. r \in Procs
    BY DEF Procs
  <2>2. QED
    BY <1>1, <1>4, <2>1, StartSweepInv, ScanDeletesInv, ScanSavesInv, DeletesSweptInv,
       SavesSweptInv, SweepSyncInv, SweepClearInv, SweepFinalizeInv,
       SweepRejectsInv, SweepBatchFailsInv, SweepAbortsInv, BuryInv, BulkSucceedsInv
       DEF ReconcilerStep
<1>5. ASSUME NEW w \in net, Lands(w) PROVE Inv'
  BY <1>1, <1>5, LandsInv
<1>6. QED
  BY <1>2, <1>3, <1>4, <1>5 DEF Next

(* The inductive invariant holds throughout.                               *)
THEOREM InvHolds == Spec => []Inv
BY InitInv, NextInv, PTL DEF Spec

(* Wherever no marker is pending, the index holds exactly the entity's own *)
(* generation, partition and embedding: the acknowledgement of             *)
(* clear_projection_sync_pending never comes too early or for another      *)
(* generation, whatever requests are late and whoever crashed.             *)
THEOREM MirrorCorrect == Spec => []CleanMirrored
<1>1. Inv => CleanMirrored
  BY DEF Inv, CleanVersions, IndexCoherent, CleanMirrored, Clean, Coherent, Content
<1>2. QED
  BY InvHolds, <1>1, PTL

(* A searchable vector always belongs to an entity of the graph and to its *)
(* partition: no late write resurrects a deleted uuid, or shows a reused   *)
(* uuid to the tenant that had it before.                                  *)
THEOREM NoOrphanVectors == Spec => []VectorsOwned
<1>1. Inv => VectorsOwned
  BY DEF Inv
<1>2. QED
  BY InvHolds, <1>1, PTL
-----------------------------------------------------------------------------
(* A deletion takes effect: once its generation is reserved, no searchable *)
(* document and no live entity ever carries that generation.               *)

Dead(u, v) ==
    /\ v <= ledger[u]
    /\ Exists(u) /\ graph[u].ver = v => graph[u].del
    /\ index[u].ver = v => ~Live(index[u])
    /\ \A w \in net : w.uuid = u /\ w.doc.ver = v => ~Live(w.doc)
    /\ \A p \in Procs : docs[p][u].ver = v => ~Live(docs[p][u])

(* Where the generations and documents after a step come from.             *)
HonestGraph(u) ==
    Exists(u)' =>
        \/ graph'[u].del
        \/ graph'[u].ver > ledger[u]
        \/ Exists(u) /\ ~graph[u].del /\ graph'[u].ver = graph[u].ver

HonestDocument(u, d) ==
    \/ ~Live(d)
    \/ d.ver > ledger[u]
    \/ \E p \in Procs : d = docs[p][u]
    \/ Exists(u) /\ ~graph[u].del /\ d.ver = graph[u].ver

HonestStores ==
    /\ \A u \in Uuids : ledger'[u] >= ledger[u] /\ HonestGraph(u)
    /\ \A u \in Uuids : index'[u] = index[u] \/ \E w \in net : w.uuid = u /\ index'[u] = w.doc
    /\ \A w \in net' : w \in net \/ \E p \in Procs : w.doc = docs[p][w.uuid]

HonestHolders == \A p \in Procs : \A u \in Uuids : HonestDocument(u, docs[p][u]')

LEMMA DeadStep ==
    ASSUME TypeOK, TypeOK', HonestStores, HonestHolders,
           NEW u \in Uuids, NEW v \in Nat, Dead(u, v)
    PROVE  Dead(u, v)'
<1>1. ledger[u] \in Nat /\ ledger'[u] \in Nat /\ ledger'[u] >= ledger[u]
  BY DEF TypeOK, StoreTypeOK, HonestStores
<1>2. v <= ledger'[u]
  BY <1>1 DEF Dead
<1>3. ASSUME Exists(u)', graph'[u].ver = v
      PROVE  graph'[u].del
  BY <1>1, <1>3 DEF HonestStores, HonestGraph, Dead
<1>4. ASSUME index'[u].ver = v
      PROVE  ~Live(index'[u])
  <2>1. CASE index'[u] = index[u]
    BY <1>4, <2>1 DEF Dead
  <2>2. CASE \E w \in net : w.uuid = u /\ index'[u] = w.doc
    BY <1>4, <2>2 DEF Dead
  <2>3. QED
    BY <2>1, <2>2 DEF HonestStores
<1>5. ASSUME NEW w \in net', w.uuid = u, w.doc.ver = v
      PROVE  ~Live(w.doc)
  <2>1. CASE w \in net
    BY <1>5, <2>1 DEF Dead
  <2>2. CASE \E p \in Procs : w.doc = docs[p][u]
    BY <1>5, <2>2 DEF Dead
  <2>3. QED
    BY <1>5, <2>1, <2>2 DEF HonestStores
<1>6. ASSUME NEW p \in Procs, docs[p][u]'.ver = v
      PROVE  ~Live(docs[p][u]')
  <2>1. HonestDocument(u, docs[p][u]')
    BY DEF HonestHolders
  <2>2. CASE \E q \in Procs : docs[p][u]' = docs[q][u]
    <3>1. PICK q \in Procs : docs[p][u]' = docs[q][u]
      BY <2>2
    <3>2. QED
      BY <1>6, <3>1 DEF Dead
  <2>3. CASE docs[p][u]'.ver > ledger[u]
    BY <1>1, <1>6, <2>3 DEF Dead
  <2>4. CASE Exists(u) /\ ~graph[u].del /\ docs[p][u]'.ver = graph[u].ver
    BY <1>6, <2>4 DEF Dead
  <2>5. QED
    BY <2>1, <2>2, <2>3, <2>4 DEF HonestDocument
<1>7. QED
  BY <1>2, <1>3, <1>4, <1>5, <1>6 DEF Dead, Live

Deleting == {"prepare", "bury", "burying", "finalize"}

(* How a step moves a client: a deletion under way keeps its batch and its *)
(* tombstones, and it ends well in one way only.                           *)
Moved(c) ==
    \/ docs'[c] = docs[c] /\ batch'[c] = batch[c] /\ pc'[c] = pc[c]
    \/ /\ docs'[c] = docs[c] /\ batch'[c] = batch[c]
       /\ pc[c] \in Deleting /\ pc'[c] \in Deleting
    \/ pc'[c] \notin Deleting /\ (pc[c] = "finalize" => pc'[c] # "idle")
    \/ ReserveDeletion(c)
    \/ FinalizeDeletion(c)

Honest == HonestStores /\ HonestHolders /\ \A c \in Clients : Moved(c)

LEMMA HonestFrame ==
    ASSUME TypeOK, HonestStores, NEW p \in Procs, OthersAt(p),
           \A u \in Uuids : HonestDocument(u, docs'[p][u]),
           p \in Clients => Moved(p)
    PROVE  Honest
<1>1. ASSUME NEW q \in Procs, NEW u \in Uuids
      PROVE  HonestDocument(u, docs'[q][u])
  <2>1. CASE q = p
    BY <2>1
  <2>2. CASE q # p
    BY <2>2 DEF OthersAt, HonestDocument
  <2>3. QED
    BY <2>1, <2>2
<1>2. \A c \in Clients \ {p} : Moved(c)
  BY DEF OthersAt, Moved, Procs
<1>3. QED
  BY <1>1, <1>2 DEF Honest, HonestHolders

LEMMA HonestDocuments ==
    ASSUME NEW p \in Procs, docs'[p] = docs[p] \/ docs'[p] = NoDocuments
    PROVE  \A u \in Uuids : HonestDocument(u, docs'[p][u])
BY DEF HonestDocument, NoDocuments, NoDocument, Live

LEMMA StoresHonest ==
    ASSUME TypeOK, TypeOK', UNCHANGED <<ledger, index>>,
           \A u \in Uuids : HonestGraph(u),
           \A w \in net' : w \in net \/ \E p \in Procs : w.doc = docs[p][w.uuid]
    PROVE  HonestStores
<1>1. \A u \in Uuids : ledger[u] \in Nat
  BY DEF TypeOK, StoreTypeOK
<1>2. QED
  BY <1>1 DEF HonestStores

LEMMA SameGraph == graph' = graph => \A u \in Uuids : HonestGraph(u)
BY DEF HonestGraph, Exists

LEMMA SentHonest ==
    ASSUME NEW p \in Procs, NEW S \in SUBSET Uuids,
           net' = net \cup Requests(S, docs[p])
    PROVE  \A w \in net' : w \in net \/ \E q \in Procs : w.doc = docs[q][w.uuid]
BY DEF Requests

(* Steps that leave the stores alone or only send, and empty or keep the   *)
(* documents of the process.                                               *)
LEMMA QuietHonest ==
    ASSUME TypeOK, TypeOK', NEW p \in Procs, OthersAt(p),
           UNCHANGED <<ledger, graph, index>>,
           net' = net \/ \E S \in SUBSET Uuids : net' = net \cup Requests(S, docs[p]),
           docs'[p] = docs[p] \/ docs'[p] = NoDocuments,
           p \in Clients => Moved(p)
    PROVE  Honest
<1>1. \A w \in net' : w \in net \/ \E q \in Procs : w.doc = docs[q][w.uuid]
  BY SentHonest
<1>2. HonestStores
  BY <1>1, SameGraph, StoresHonest
<1>3. QED
  BY <1>2, HonestDocuments, HonestFrame

(* Queries that clear markers, mark or remove entities.                    *)
LEMMA QueryHonest ==
    ASSUME TypeOK, TypeOK', NEW p \in Procs, OthersAt(p),
           UNCHANGED <<ledger, index, net>>,
           \/ graph' = Cleared(batch[p], docs[p])
           \/ graph' = Prepared(batch[p], docs[p])
           \/ graph' = Finalized(batch[p], docs[p]),
           docs'[p] = docs[p] \/ docs'[p] = NoDocuments,
           p \in Clients => Moved(p)
    PROVE  Honest
<1>1. ASSUME NEW u \in Uuids
      PROVE  HonestGraph(u)
  <2>1. Exists(u) => graph[u] \in Entity
    BY DEF TypeOK, StoreTypeOK, Exists
  <2>2. CASE graph' = Cleared(batch[p], docs[p])
    <3>1. \/ graph'[u] = graph[u]
          \/ Exists(u) /\ ~graph[u].del /\ graph'[u] = [graph[u] EXCEPT !.sync = 0]
      BY <2>2 DEF Cleared
    <3>2. QED
      BY <2>1, <3>1 DEF HonestGraph, Exists, Entity
  <2>3. CASE graph' = Prepared(batch[p], docs[p])
    <3>1. \/ graph'[u] = graph[u]
          \/ Exists(u) /\ graph'[u] = [graph[u] EXCEPT !.del = TRUE, !.ver = docs[p][u].ver]
      BY <2>3 DEF Prepared
    <3>2. QED
      BY <2>1, <3>1 DEF HonestGraph, Exists, Entity
  <2>4. CASE graph' = Finalized(batch[p], docs[p])
    <3>1. graph'[u] = graph[u] \/ graph'[u] = Absent
      BY <2>4 DEF Finalized
    <3>2. QED
      BY <3>1 DEF HonestGraph, Exists
  <2>5. QED
    BY <2>2, <2>3, <2>4
<1>2. HonestStores
  BY <1>1, StoresHonest
<1>3. QED
  BY <1>2, HonestDocuments, HonestFrame

-----------------------------------------------------------------------------
(* Action by action.                                                       *)

LEMMA StartHonest ==
    ASSUME Typed, Typed', NEW c \in Clients,
           StartSave(c) \/ StartDelete(c) \/ ClientFails(c)
    PROVE  Honest
<1>1. c \in Procs /\ UNCHANGED <<ledger, graph, index, net>>
  BY DEF Procs, StartSave, StartDelete, ClientFails, storeVars
<1>2. CASE ClientFails(c)
  <2>1. OthersAt(c) /\ docs'[c] = NoDocuments /\ pc'[c] = "failed"
    BY <1>2, EndsFrame DEF ClientFails
  <2>2. QED
    BY <1>1, <2>1, QuietHonest DEF Typed, Moved, Deleting
<1>3. CASE StartSave(c) \/ StartDelete(c)
  <2>1. /\ UNCHANGED docs
        /\ Goto(c, "write") \/ Goto(c, "reserve")
        /\ UNCHANGED batch \/ \E C : batch' = [batch EXCEPT ![c] = C]
    BY <1>3 DEF StartSave, StartDelete
  <2>2. pc'[c] \in {"write", "reserve"} /\ \A p \in Procs \ {c} : pc'[p] = pc[p]
    BY <1>1, <2>1, GotoFrame
  <2>3. \A p \in Procs \ {c} : batch'[p] = batch[p]
    BY <2>1 DEF Typed, TypeOK
  <2>4. docs' = docs
    BY <2>1
  <2>5. OthersAt(c)
    BY <2>2, <2>3, <2>4 DEF OthersAt
  <2>6. Moved(c)
    BY <2>2 DEF Moved, Deleting
  <2>7. QED
    BY <1>1, <2>4, <2>5, <2>6, QuietHonest DEF Typed
<1>4. QED
  BY <1>2, <1>3

LEMMA BulkHonest ==
    ASSUME Typed, Typed', NEW p \in Procs, Bury(p) \/ BulkSucceeds(p)
    PROVE  Honest
<1>1. /\ UNCHANGED <<ledger, graph, index, docs, batch>>
      /\ net' = net \/ net' = net \cup Requests(batch[p], docs[p])
      /\ \/ pc[p] = "bury" /\ Goto(p, "burying")
         \/ pc[p] = "burying" /\ Goto(p, "finalize")
         \/ pc[p] = "syncing" /\ Goto(p, "clear")
  BY DEF Bury, BulkSucceeds, storeVars
<1>2. batch[p] \in SUBSET Uuids
  BY DEF Typed, TypeOK
<1>3. /\ OthersAt(p)
      /\ \/ pc[p] \in Deleting /\ pc'[p] \in Deleting
         \/ pc[p] = "syncing" /\ pc'[p] = "clear"
  BY <1>1, GotoFrame DEF OthersAt, Deleting
<1>4. Moved(p)
  BY <1>1, <1>3 DEF Moved, Deleting
<1>5. QED
  BY <1>1, <1>2, <1>3, <1>4, QuietHonest DEF Typed

LEMMA SyncHonest ==
    ASSUME Typed, Typed', NEW c \in Clients, SyncChunk(c)
    PROVE  Honest
<1>1. c \in Procs
  BY DEF Procs
<1>2. PICK C \in Slices(left[c]) :
        \/ /\ net' = net \cup Requests(C, docs[c])
           /\ batch' = [batch EXCEPT ![c] = C]
           /\ Goto(c, "syncing")
           /\ UNCHANGED docs
        \/ Ends(c, "failed") /\ UNCHANGED net
  BY Zenon DEF SyncChunk
<1>3. UNCHANGED <<ledger, graph, index>>
  BY DEF SyncChunk
<1>4. C \in SUBSET Uuids
  BY DEF Slices, Chunks, Typed, TypeOK
<1>5. CASE Ends(c, "failed") /\ UNCHANGED net
  <2>1. OthersAt(c) /\ docs'[c] = NoDocuments /\ pc'[c] = "failed"
    BY <1>5, EndsFrame
  <2>2. QED
    BY <1>1, <1>3, <1>5, <2>1, QuietHonest DEF Typed, Moved, Deleting
<1>6. CASE /\ net' = net \cup Requests(C, docs[c])
           /\ batch' = [batch EXCEPT ![c] = C]
           /\ Goto(c, "syncing")
           /\ UNCHANGED docs
  <2>1. OthersAt(c) /\ docs'[c] = docs[c] /\ pc'[c] = "syncing"
    BY <1>1, <1>6, GotoFrame DEF OthersAt, Typed, TypeOK
  <2>2. QED
    BY <1>1, <1>3, <1>4, <1>6, <2>1, QuietHonest DEF Typed, Moved, Deleting
<1>7. QED
  BY <1>2, <1>5, <1>6

LEMMA ClientQueryHonest ==
    ASSUME Typed, Typed', NEW c \in Clients,
           ClearSaved(c) \/ PrepareDeletion(c) \/ FinalizeDeletion(c)
    PROVE  Honest
<1>1. c \in Procs /\ UNCHANGED <<ledger, index, net>>
  BY DEF Procs, ClearSaved, PrepareDeletion, FinalizeDeletion
<1>2. CASE ClearSaved(c)
  <2>1. /\ pc[c] = "clear" /\ graph' = Cleared(batch[c], docs[c])
        /\ \/ Goto(c, "sync") /\ UNCHANGED <<docs, batch>>
           \/ Ends(c, "idle")
    BY <1>2 DEF ClearSaved
  <2>2. /\ OthersAt(c) /\ pc'[c] \in {"sync", "idle"}
        /\ docs'[c] = docs[c] \/ docs'[c] = NoDocuments
    <3>1. CASE Goto(c, "sync") /\ UNCHANGED <<docs, batch>>
      BY <1>1, <3>1, GotoFrame DEF OthersAt
    <3>2. QED
      BY <1>1, <2>1, <3>1, EndsFrame
  <2>3. QED
    BY <1>1, <2>1, <2>2, QueryHonest DEF Typed, Moved, Deleting
<1>3. CASE PrepareDeletion(c)
  <2>1. /\ pc[c] = "prepare" /\ graph' = Prepared(batch[c], docs[c])
        /\ Goto(c, "bury") /\ UNCHANGED <<docs, batch>>
    BY <1>3 DEF PrepareDeletion
  <2>2. OthersAt(c) /\ pc'[c] = "bury"
    BY <1>1, <2>1, GotoFrame DEF OthersAt
  <2>3. QED
    BY <1>1, <2>1, <2>2, QueryHonest DEF Typed, Moved, Deleting
<1>4. CASE FinalizeDeletion(c)
  <2>1. graph' = Finalized(batch[c], docs[c]) /\ Ends(c, "idle")
    BY <1>4 DEF FinalizeDeletion
  <2>2. OthersAt(c) /\ docs'[c] = NoDocuments
    BY <2>1, EndsFrame
  <2>3. QED
    BY <1>1, <1>4, <2>1, <2>2, QueryHonest DEF Typed, Moved
<1>5. QED
  BY <1>2, <1>3, <1>4

LEMMA ReserveHonest ==
    ASSUME Typed, Typed', NEW c \in Clients, ReserveDeletion(c)
    PROVE  Honest
<1>1. c \in Procs /\ TypeOK
  BY DEF Procs, Typed
<1>2. /\ ledger' = Reserved(batch[c]) /\ UNCHANGED <<graph, index, net, batch>>
      /\ docs' = [docs EXCEPT ![c] =
            [u \in Uuids |-> IF u \in batch[c] THEN Tombstone(ledger[u] + 1)
                             ELSE NoDocument]]
      /\ Goto(c, "prepare")
  BY DEF ReserveDeletion
<1>3. OthersAt(c)
  BY <1>1, <1>2, GotoFrame DEF OthersAt, Typed, TypeOK
<1>4. \A u \in Uuids : HonestDocument(u, docs'[c][u])
  BY <1>1, <1>2 DEF TypeOK, HonestDocument, Live, Tombstone, NoDocument
<1>5. \A u \in Uuids : ledger'[u] >= ledger[u]
  BY <1>1, <1>2 DEF TypeOK, StoreTypeOK, Reserved
<1>6. HonestStores
  BY <1>2, <1>5, SameGraph DEF HonestStores
<1>7. QED
  BY <1>1, <1>3, <1>4, <1>6, HonestFrame DEF Moved

LEMMA SaveHonest ==
    ASSUME Typed, Typed', NEW c \in Clients, SaveChunk(c)
    PROVE  Honest
<1>1. c \in Procs /\ TypeOK
  BY DEF Procs, Typed
<1>2. PICK C \in Chunks(left[c]) :
        /\ ledger' = Reserved(C)
        /\ graph' = Saved(C, todo[c])
        /\ \/ docs' = [docs EXCEPT ![c] = Persisted(c, C)] /\ UNCHANGED <<pc, batch>>
           \/ /\ docs' = [docs EXCEPT ![c] = Persisted(c, C)]
              /\ Goto(c, "sync") /\ UNCHANGED batch
           \/ Ends(c, "idle")
           \/ Ends(c, "failed")
  BY Zenon DEF SaveChunk
<1>3. C \in SUBSET left[c] /\ pc[c] = "write" /\ UNCHANGED <<index, net>>
  BY DEF Chunks, SaveChunk
<1>4. ASSUME NEW u \in Uuids
      PROVE  /\ ledger[u] \in Nat /\ ledger'[u] >= ledger[u] /\ HonestGraph(u)
             /\ HonestDocument(u, Persisted(c, C)[u])
  <2>1. ledger[u] \in Nat
    BY <1>1 DEF TypeOK, StoreTypeOK
  <2>2. ledger'[u] >= ledger[u]
    BY <1>2, <2>1 DEF Reserved
  <2>3. graph'[u] = graph[u] \/ graph'[u].ver = ledger[u] + 1
    BY <1>2 DEF Saved
  <2>4. HonestGraph(u)
    BY <2>1, <2>3 DEF HonestGraph, Exists
  <2>5. Persisted(c, C)[u] = docs[c][u] \/ Persisted(c, C)[u].ver = ledger[u] + 1
    BY DEF Persisted
  <2>6. HonestDocument(u, Persisted(c, C)[u])
    BY <1>1, <2>1, <2>5 DEF HonestDocument
  <2>7. QED
    BY <2>1, <2>2, <2>4, <2>6
<1>5. HonestStores
  BY <1>3, <1>4 DEF HonestStores
<1>6. CASE Ends(c, "idle") \/ Ends(c, "failed")
  <2>1. OthersAt(c) /\ pc'[c] \in {"idle", "failed"} /\ docs'[c] = NoDocuments
    BY <1>1, <1>6, EndsFrame
  <2>2. QED
    BY <1>1, <1>3, <1>5, <2>1, HonestDocuments, HonestFrame DEF Moved, Deleting
<1>7. CASE /\ docs' = [docs EXCEPT ![c] = Persisted(c, C)]
           /\ UNCHANGED pc \/ Goto(c, "sync")
           /\ UNCHANGED batch
  <2>1. OthersAt(c) /\ pc'[c] \in {"write", "sync"} /\ docs'[c] = Persisted(c, C)
    BY <1>1, <1>3, <1>7, GotoFrame DEF OthersAt, Typed, TypeOK
  <2>2. QED
    BY <1>1, <1>3, <1>4, <1>5, <2>1, HonestFrame DEF Moved, Deleting
<1>8. QED
  BY <1>2, <1>6, <1>7

LEMMA SweepHonest ==
    ASSUME Typed, Typed', NEW r \in Reconcilers,
           \/ StartSweep(r) \/ DeletesSwept(r) \/ SavesSwept(r) \/ SweepAborts(r)
           \/ SweepRejects(r) \/ SweepBatchFails(r) \/ SweepSync(r)
           \/ SweepClear(r) \/ SweepFinalize(r)
    PROVE  Honest
<1>1. r \in Procs /\ r \notin Clients
  BY ProcessAssumption DEF Procs
<1>2. CASE StartSweep(r) \/ DeletesSwept(r) \/ SavesSwept(r) \/ SweepAborts(r)
  <2>1. UNCHANGED <<ledger, graph, index, net>>
    BY <1>2 DEF StartSweep, DeletesSwept, SavesSwept, SweepAborts, storeVars
  <2>2. \/ Asleep(r)
        \/ UNCHANGED <<docs, batch>> /\ \E where : Goto(r, where)
    BY <1>2 DEF StartSweep, DeletesSwept, SavesSwept, SweepAborts
  <2>3. OthersAt(r) /\ (docs'[r] = docs[r] \/ docs'[r] = NoDocuments)
    <3>1. CASE Asleep(r)
      BY <3>1, AsleepFrame
    <3>2. CASE UNCHANGED <<docs, batch>> /\ \E where : Goto(r, where)
      BY <1>1, <3>2, GotoFrame DEF OthersAt
    <3>3. QED
      BY <2>2, <3>1, <3>2
  <2>4. QED
    BY <1>1, <2>1, <2>3, QuietHonest DEF Typed
<1>3. CASE SweepRejects(r) \/ SweepBatchFails(r)
  <2>1. UNCHANGED <<ledger, graph, index, net>>
    BY <1>3 DEF SweepRejects, SweepBatchFails, storeVars
  <2>2. SplitBatch(r, "sync", "scan_saves") \/ SplitBatch(r, "bury", "scan_deletes")
    BY <1>3 DEF SweepRejects, SweepBatchFails
  <2>3. OthersAt(r) /\ (docs'[r] = docs[r] \/ docs'[r] = NoDocuments)
    BY <2>2, SplitBatchFrame
  <2>4. QED
    BY <1>1, <2>1, <2>3, QuietHonest DEF Typed
<1>4. CASE SweepSync(r)
  <2>1. /\ UNCHANGED <<ledger, graph, index, docs, batch>> /\ Goto(r, "syncing")
        /\ net' = net \cup Requests(batch[r], docs[r])
    BY <1>4 DEF SweepSync
  <2>2. OthersAt(r) /\ batch[r] \in SUBSET Uuids
    BY <1>1, <2>1, GotoFrame DEF OthersAt, Typed, TypeOK
  <2>3. QED
    BY <1>1, <2>1, <2>2, QuietHonest DEF Typed
<1>5. CASE SweepClear(r) \/ SweepFinalize(r)
  <2>1. /\ UNCHANGED <<ledger, index, net>>
        /\ graph' = Cleared(batch[r], docs[r]) \/ graph' = Finalized(batch[r], docs[r])
        /\ NextBatch(r, "sync", "scan_saves") \/ NextBatch(r, "bury", "scan_deletes")
    BY <1>5 DEF SweepClear, SweepFinalize
  <2>2. OthersAt(r) /\ (docs'[r] = docs[r] \/ docs'[r] = NoDocuments)
    BY <2>1, NextBatchFrame
  <2>3. QED
    BY <1>1, <2>1, <2>2, QueryHonest DEF Typed
<1>6. QED
  BY <1>2, <1>3, <1>4, <1>5

LEMMA ReadPageHonest ==
    ASSUME Typed, Typed', NEW r \in Reconcilers,
           NEW listed \in SUBSET Uuids, NEW records \in [listed -> Document], NEW where,
           \A u \in listed : HonestDocument(u, records[u]),
           ReadPage(r, listed, records, where)
    PROVE  Honest
<1>1. r \in Procs /\ r \notin Clients /\ TypeOK /\ TypeOK'
  BY ProcessAssumption DEF Procs, Typed
<1>2. /\ UNCHANGED <<ledger, graph, index, net>> /\ Goto(r, where)
      /\ docs' = [docs EXCEPT ![r] =
             [u \in Uuids |-> IF u \in listed THEN records[u] ELSE NoDocument]]
      /\ batch' = [batch EXCEPT ![r] = listed]
  BY DEF ReadPage, storeVars
<1>3. OthersAt(r)
  BY <1>1, <1>2, GotoFrame DEF OthersAt, Typed, TypeOK
<1>4. \A u \in Uuids : HonestDocument(u, NoDocument)
  BY DEF HonestDocument, NoDocument, Live
<1>5. \A u \in Uuids : HonestDocument(u, docs'[r][u])
  <2>1. docs'[r] = [u \in Uuids |-> IF u \in listed THEN records[u] ELSE NoDocument]
    BY <1>1, <1>2 DEF TypeOK
  <2>2. QED
    BY <1>4, <2>1
<1>6. HonestStores
  BY <1>1, <1>2, SameGraph, StoresHonest
<1>7. QED
  BY <1>1, <1>3, <1>5, <1>6, HonestFrame

LEMMA ScanDeletesHonest ==
    ASSUME Typed, Typed', NEW r \in Reconcilers, ScanDeletes(r)
    PROVE  Honest
<1> DEFINE listed == Page(PendingDeletes \cap ahead[r], BatchSize)
           records == [u \in listed |-> Tombstone(graph[u].ver)]
<1>1. listed \in SUBSET (PendingDeletes \cap ahead[r])
  BY PageSubset
<1>2. listed \in SUBSET Uuids
  BY <1>1 DEF PendingDeletes
<1>3. ASSUME NEW u \in listed
      PROVE  Tombstone(graph[u].ver) \in Document /\ HonestDocument(u, Tombstone(graph[u].ver))
  <2>1. u \in Uuids /\ graph[u] \in Entity
    BY <1>1 DEF PendingDeletes, Exists, Typed, TypeOK, StoreTypeOK
  <2>2. graph[u].ver \in Nat
    BY <2>1 DEF Entity
  <2>3. QED
    BY <2>2, DocumentTypes DEF HonestDocument, Tombstone, Live
<1>4. ReadPage(r, listed, records, "bury")
  BY Zenon DEF ScanDeletes
<1>5. records \in [listed -> Document] /\ \A u \in listed : HonestDocument(u, records[u])
  BY <1>3
<1>6. QED
  BY <1>2, <1>4, <1>5, ReadPageHonest

LEMMA ScanSavesHonest ==
    ASSUME Typed, Typed', NEW r \in Reconcilers, ScanSaves(r)
    PROVE  Honest
<1> DEFINE listed == Page(PendingSaves \cap ahead[r], BatchSize)
           record(u) == [ver |-> graph[u].ver, group |-> graph[u].group, val |-> graph[u].val]
           records == [u \in listed |-> record(u)]
<1>1. listed \in SUBSET (PendingSaves \cap ahead[r])
  BY PageSubset
<1>2. listed \in SUBSET Uuids
  BY <1>1 DEF PendingSaves
<1>3. ASSUME NEW u \in listed
      PROVE  record(u) \in Document /\ HonestDocument(u, record(u))
  <2>1. u \in Uuids /\ Exists(u) /\ ~graph[u].del
    BY <1>1 DEF PendingSaves
  <2>2. graph[u] \in Entity
    BY <2>1 DEF Exists, Typed, TypeOK, StoreTypeOK
  <2>3. QED
    BY <2>1, <2>2 DEF Entity, Document, HonestDocument
<1>4. ReadPage(r, listed, records, "sync")
  BY Zenon DEF ScanSaves
<1>5. records \in [listed -> Document] /\ \A u \in listed : HonestDocument(u, records[u])
  BY <1>3
<1>6. QED
  BY <1>2, <1>4, <1>5, ReadPageHonest

LEMMA LandsHonest ==
    ASSUME Typed, Typed', NEW w \in net, Lands(w)
    PROVE  Honest
<1>1. w.uuid \in Uuids /\ TypeOK
  BY DEF Typed, TypeOK, StoreTypeOK, Write
<1>2. /\ index' = [index EXCEPT ![w.uuid] = w.doc]
      /\ UNCHANGED <<ledger, graph, net, pc, docs, batch>>
  BY DEF Lands, Deliver, procVars
<1>3. \A u \in Uuids : index'[u] = index[u] \/ (w.uuid = u /\ index'[u] = w.doc)
  BY <1>1, <1>2 DEF TypeOK, StoreTypeOK
<1>4. \A u \in Uuids : ledger'[u] >= ledger[u]
  BY <1>1, <1>2 DEF TypeOK, StoreTypeOK
<1>5. HonestStores
  BY <1>2, <1>3, <1>4, SameGraph DEF HonestStores
<1>6. HonestHolders
  BY <1>2 DEF HonestHolders, HonestDocument
<1>7. QED
  BY <1>2, <1>5, <1>6 DEF Honest, Moved

LEMMA StutterHonest ==
    ASSUME Typed, Typed', UNCHANGED vars
    PROVE  Honest
<1>1. UNCHANGED <<ledger, graph, index, net, pc, docs, batch>>
  BY DEF vars
<1>2. HonestStores
  BY <1>1, SameGraph, StoresHonest DEF Typed
<1>3. HonestHolders
  BY <1>1 DEF HonestHolders, HonestDocument
<1>4. QED
  BY <1>1, <1>2, <1>3 DEF Honest, Moved

LEMMA NextHonest ==
    ASSUME Typed, Typed', [Next]_vars
    PROVE  Honest
<1>1. CASE UNCHANGED vars
  BY <1>1, StutterHonest
<1>2. ASSUME NEW c \in Clients,
             StartSave(c) \/ StartDelete(c) \/ ClientStep(c) \/ ClientFails(c)
      PROVE  Honest
  <2>1. c \in Procs
    BY DEF Procs
  <2>2. QED
    BY <1>2, <2>1, StartHonest, SaveHonest, SyncHonest, ClientQueryHonest, ReserveHonest,
       BulkHonest DEF ClientStep
<1>3. ASSUME NEW r \in Reconcilers,
             ReconcilerStep(r) \/ SweepBatchFails(r) \/ SweepAborts(r)
      PROVE  Honest
  <2>1. r \in Procs
    BY DEF Procs
  <2>2. QED
    BY <1>3, <2>1, SweepHonest, ScanDeletesHonest, ScanSavesHonest,
       BulkHonest DEF ReconcilerStep
<1>4. ASSUME NEW w \in net, Lands(w) PROVE Honest
  BY <1>4, LandsHonest
<1>5. QED
  BY <1>1, <1>2, <1>3, <1>4 DEF Next

-----------------------------------------------------------------------------
(* What a deletion holds is dead from its reservation on.                  *)

Buries ==
    \A c \in Clients : pc[c] \in Deleting =>
        \A u \in batch[c] : Dead(u, docs[c][u].ver)

(* A generation just taken is above whatever is stored, sent or held.      *)
LEMMA ReservedDead ==
    ASSUME Inv, Typed', NEW c \in Clients, ReserveDeletion(c), NEW u \in batch[c]
    PROVE  Dead(u, docs[c][u].ver)'
<1>1. c \in Procs /\ u \in Uuids /\ TypeOK /\ TypeOK'
  BY DEF Procs, Inv, TypeOK, Typed
<1>2. /\ ledger' = Reserved(batch[c]) /\ UNCHANGED <<graph, index, net, batch>>
      /\ docs' = [docs EXCEPT ![c] =
            [x \in Uuids |-> IF x \in batch[c] THEN Tombstone(ledger[x] + 1)
                             ELSE NoDocument]]
  BY DEF ReserveDeletion
<1>3. ledger[u] \in Nat /\ ledger'[u] = ledger[u] + 1
  BY <1>1, <1>2 DEF TypeOK, StoreTypeOK, Reserved
<1>4. docs'[c][u] = Tombstone(ledger[u] + 1)
  BY <1>1, <1>2 DEF TypeOK
<1>5. docs'[c][u].ver = ledger[u] + 1 /\ ~Live(docs'[c][u])
  BY <1>4 DEF Tombstone, Live
<1>6. Exists(u) => graph[u].ver \in Nat /\ graph[u].ver <= ledger[u]
  BY <1>1 DEF Inv, EntitiesCoherent, Exists, TypeOK, StoreTypeOK, Entity
<1>7. index[u].ver \in Nat /\ index[u].ver <= ledger[u]
  BY <1>1 DEF Inv, IndexCoherent, Coherent, TypeOK, StoreTypeOK, Document
<1>8. \A w \in net : w.uuid = u => w.doc.ver \in Nat /\ w.doc.ver <= ledger[u]
  BY <1>1 DEF Inv, NetCoherent, Coherent, TypeOK, StoreTypeOK, Write, Document
<1>9. ASSUME NEW p \in Procs, docs'[p][u].ver = ledger[u] + 1
      PROVE  ~Live(docs'[p][u])
  <2>1. CASE p = c
    BY <1>5, <2>1
  <2>2. CASE p # c
    <3>1. docs'[p] = docs[p]
      BY <1>1, <1>2, <2>2 DEF TypeOK
    <3>2. docs[p][u].ver \in Nat /\ docs[p][u].ver <= ledger[u]
      BY <1>1 DEF Inv, HeldCoherent, Coherent, TypeOK, Document
    <3>3. QED
      BY <1>3, <1>9, <3>1, <3>2
  <2>3. QED
    BY <2>1, <2>2
<1>10. PICK v \in Nat : v = ledger[u] + 1
  BY <1>3
<1>11. v <= ledger'[u] /\ (Exists(u)' => graph'[u].ver # v) /\ index'[u].ver # v
  BY <1>2, <1>3, <1>6, <1>7, <1>10 DEF Exists
<1>12. \A w \in net' : w.uuid = u => w.doc.ver # v
  BY <1>2, <1>3, <1>8, <1>10
<1>13. Dead(u, v)'
  BY <1>9, <1>10, <1>11, <1>12 DEF Dead, Live
<1>14. QED
  BY <1>5, <1>10, <1>13 DEF Dead

LEMMA BuriesStep ==
    ASSUME Inv, Typed', Buries, [Next]_vars
    PROVE  Buries'
<1>1. Typed /\ TypeOK /\ TypeOK'
  BY DEF Inv, Typed
<1>2. Honest
  BY <1>1, NextHonest
<1>3. ASSUME NEW c \in Clients, pc'[c] \in Deleting, NEW u \in batch'[c]
      PROVE  Dead(u, docs[c][u].ver)'
  <2>1. c \in Procs /\ Moved(c)
    BY <1>2 DEF Honest, Procs
  <2>2. CASE docs'[c] = docs[c] /\ batch'[c] = batch[c] /\ pc[c] \in Deleting
    <3>1. u \in Uuids /\ docs[c][u].ver \in Nat
      BY <1>1, <1>3, <2>1, <2>2 DEF TypeOK, Document
    <3>2. Dead(u, docs[c][u].ver)
      BY <1>3, <2>2 DEF Buries
    <3>3. PICK v \in Nat : v = docs[c][u].ver
      BY <3>1
    <3>4. Dead(u, v)'
      BY <1>1, <1>2, <3>1, <3>2, <3>3, DeadStep DEF Honest
    <3>5. QED
      BY <2>2, <3>3, <3>4 DEF Dead
  <2>3. CASE ReserveDeletion(c)
    <3>1. u \in batch[c]
      BY <1>3, <2>3 DEF ReserveDeletion
    <3>2. QED
      BY <2>3, <3>1, ReservedDead
  <2>4. CASE FinalizeDeletion(c)
    <3>1. pc'[c] = "idle"
      BY <1>1, <2>4, EndsFrame DEF FinalizeDeletion
    <3>2. QED
      BY <1>3, <3>1 DEF Deleting
  <2>5. QED
    BY <1>3, <2>1, <2>2, <2>3, <2>4 DEF Moved
<1>4. QED
  BY <1>3 DEF Buries, Dead

(* What the graph and the index hold after the finalize query.             *)
LEMMA FinalizedEffective ==
    ASSUME Inv, Buries, NEW c \in Clients, FinalizeDeletion(c), NEW u \in batch[c]
    PROVE  /\ graph'[u] = Absent \/ graph'[u].ver > docs[c][u].ver
           /\ Live(index[u]) => index[u].ver > docs[c][u].ver
<1>1. c \in Procs /\ TypeOK /\ u \in Uuids
  BY DEF Inv, Procs, TypeOK
<1>2. pc[c] = "finalize" /\ graph' = Finalized(batch[c], docs[c])
  BY DEF FinalizeDeletion
<1>3. Dead(u, docs[c][u].ver)
  BY <1>2 DEF Buries, Deleting
<1>4. docs[c][u].ver \in Nat /\ index[u].ver \in Nat
  BY <1>1 DEF TypeOK, StoreTypeOK, Document
<1>5. index[u].ver >= docs[c][u].ver
  BY <1>1, <1>2 DEF Inv, BulkDurable
<1>6. Live(index[u]) => index[u].ver > docs[c][u].ver
  BY <1>3, <1>4, <1>5 DEF Dead
<1>7. CASE ~Exists(u)
  BY <1>1, <1>2, <1>6, <1>7 DEF Finalized, Exists
<1>8. CASE Exists(u)
  <2>1. graph[u].ver \in Nat
    BY <1>1, <1>8 DEF Exists, TypeOK, StoreTypeOK, Entity
  <2>2. docs[c][u].ver <= graph[u].ver
    BY <1>1, <1>2, <1>8 DEF Inv, HeldCoherent, Coherent
  <2>3. CASE graph[u].ver = docs[c][u].ver
    <3>1. graph[u].del
      BY <1>3, <1>8, <2>3 DEF Dead
    <3>2. graph'[u] = Absent
      BY <1>1, <1>2, <1>8, <2>3, <3>1 DEF Finalized
    <3>3. QED
      BY <1>6, <3>2
  <2>4. CASE graph[u].ver # docs[c][u].ver
    <3>1. graph'[u] = graph[u]
      BY <1>1, <1>2, <2>4 DEF Finalized
    <3>2. QED
      BY <1>4, <1>6, <2>1, <2>2, <2>4, <3>1
  <2>5. QED
    BY <2>3, <2>4
<1>9. QED
  BY <1>7, <1>8

Effective ==
    \A c \in Clients :
        pc[c] = "finalize" /\ pc'[c] = "idle" =>
          \A u \in batch[c] :
              /\ graph'[u] = Absent \/ graph'[u].ver > docs[c][u].ver
              /\ Live(index[u]) => index[u].ver > docs[c][u].ver

LEMMA EffectiveStep ==
    ASSUME Inv, Typed', Buries, [Next]_vars
    PROVE  Effective
<1>1. Honest
  BY NextHonest DEF Inv, Typed
<1>2. ASSUME NEW c \in Clients, pc[c] = "finalize", pc'[c] = "idle"
      PROVE  FinalizeDeletion(c)
  <2>1. Moved(c)
    BY <1>1 DEF Honest
  <2>2. QED
    BY <1>2, <2>1 DEF Moved, Deleting, ReserveDeletion
<1>3. QED
  BY <1>2, FinalizedEffective DEF Effective

(* A deletion that returns has removed from the graph, and from what a     *)
(* vector search can hit, everything that was there when it reserved its   *)
(* generation (_delete_chunk): later saves are all that can be left.       *)
THEOREM DeletionsTakeEffect == Spec => DeletionEffective
<1>1. Init => Buries
  <2>1. Init => \A c \in Clients : pc[c] = "idle"
    BY DEF Init, Procs
  <2>2. QED
    BY <2>1 DEF Buries, Deleting
<1>2. Inv /\ Inv' /\ Buries /\ [Next]_vars => Buries' /\ [Effective]_vars
  BY BuriesStep, EffectiveStep DEF Inv, Typed
<1>3. Spec => [][Effective]_vars
  BY <1>1, <1>2, InvHolds, PTL DEF Spec
<1>4. QED
  BY <1>3 DEF DeletionEffective, Effective

-----------------------------------------------------------------------------
(* The vector index implements the materialized view.  What readers and    *)
(* searches see has the types the view declares, and where no marker is    *)
(* pending the two agree.                                                  *)

Shown == (Groups \X Embeddings) \cup {NoVector}

Stale == {u \in Uuids : Exists(u) /\ ~Clean(u)}

ShownAt(u) ==
    /\ SourceOf(u) \in Shown
    /\ ViewOf(u) \in Shown
    /\ u \notin Stale => SourceOf(u) = ViewOf(u)

LEMMA InvShown == Inv => \A u \in Uuids : ShownAt(u)
<1> SUFFICES ASSUME Inv, NEW u \in Uuids PROVE ShownAt(u)
  OBVIOUS
<1>1. TypedAt(u) /\ Sound(u)
  BY InvParts, TypedEverywhere DEF InvByParts, Typed
<1>2. Exists(u) => graph[u].group \in Groups /\ graph[u].val \in Vectors
  BY <1>1 DEF TypedAt, Exists, Entity
<1>3. index[u].val \in Vectors
  BY <1>1 DEF TypedAt, Document
<1>4. SourceOf(u) \in Shown
  BY <1>2 DEF SourceOf, Removed, Vectors, Shown
<1>5. ViewOf(u) \in Shown
  BY <1>1, <1>2, <1>3 DEF ViewOf, Sound, Live, Vectors, Shown
<1>6. CASE ~Exists(u)
  BY <1>1, <1>4, <1>5, <1>6 DEF Sound, SourceOf, ViewOf, Removed, ShownAt
<1>7. CASE Exists(u)
  <2>1. ASSUME u \notin Stale PROVE SourceOf(u) = ViewOf(u)
    <3>1. Clean(u) /\ ~graph[u].del
      BY <1>7, <2>1 DEF Stale, Clean
    <3>2. index[u] = Content(u)
      BY <1>1, <1>7, <3>1 DEF Sound, Coherent
    <3>3. index[u].val = graph[u].val /\ index[u].group = graph[u].group
      BY <3>2 DEF Content
    <3>4. QED
      BY <1>7, <3>1, <3>3 DEF SourceOf, ViewOf, Removed, Live
  <2>2. QED
    BY <1>4, <1>5, <2>1 DEF ShownAt
<1>8. QED
  BY <1>6, <1>7

LEMMA InvShownNext == Inv' => (\A u \in Uuids : ShownAt(u))'
BY InvShown, PTL

(* Sources change under a mark.                                            *)
LEMMA ChangeRefines ==
    ASSUME Inv, Inv', index' = index, NEW S \in SUBSET Uuids,
           \A u \in Uuids \ S : graph'[u] = graph[u],
           \A u \in S : u \in Stale'
    PROVE  View!Next
<1>1. \A u \in Uuids \ S : SourceOf(u)' = SourceOf(u) /\ (u \in Stale' <=> u \in Stale)
  BY DEF SourceOf, Removed, Exists, Stale, Clean
<1>2. \A u \in Uuids : ViewOf(u)' = ViewOf(u)
  BY DEF ViewOf, Live
<1>3. \A u \in Uuids : SourceOf(u)' \in Shown
  BY InvShownNext DEF ShownAt, Shown
<1>4. Stale' = Stale \cup S
  BY <1>1 DEF Stale
<1>5. View!Change(S)
  BY <1>1, <1>2, <1>3, <1>4 DEF View!Change, Stale, Shown
<1>6. QED
  BY <1>5 DEF View!Next

(* Marks go where the index shows what the graph says.                     *)
LEMMA SettleRefines ==
    ASSUME Inv, Inv', index' = index, NEW S \in SUBSET Uuids,
           \A u \in Uuids \ S : graph'[u] = graph[u],
           \A u \in S : u \notin Stale' /\ SourceOf(u)' = SourceOf(u)
    PROVE  View!Next
<1>1. \A u \in Uuids \ S : SourceOf(u)' = SourceOf(u) /\ (u \in Stale' <=> u \in Stale)
  BY DEF SourceOf, Removed, Exists, Stale, Clean
<1>2. \A u \in Uuids : ViewOf(u)' = ViewOf(u)
  BY DEF ViewOf, Live
<1>3. \A u \in S : SourceOf(u)' = ViewOf(u)'
  BY InvShownNext DEF ShownAt
<1>4. Stale' = Stale \ S
  BY <1>1 DEF Stale
<1>5. View!Settle(S)
  BY <1>1, <1>2, <1>3, <1>4 DEF View!Settle, Stale
<1>6. QED
  BY <1>5 DEF View!Next

(* Steps that move neither the graph nor the index do not show.            *)
LEMMA SilentRefines ==
    ASSUME graph' = graph, index' = index
    PROVE  UNCHANGED View!vars
BY DEF View!vars, SourceOf, ViewOf, Removed, Exists, Clean, Live

(* The save query marks every entity it writes.                            *)
LEMMA SaveChunkRefines ==
    ASSUME Inv, Inv', NEW c \in Clients, SaveChunk(c)
    PROVE  View!Next
<1>1. Typed /\ TypeOK
  BY InvParts DEF InvByParts, Typed
<1>2. PICK C \in Chunks(left[c]) : graph' = Saved(C, todo[c])
  BY Zenon DEF SaveChunk
<1>3. pc[c] = "write" /\ C \in SUBSET left[c] /\ index' = index
  BY DEF Chunks, SaveChunk
<1>4. C \in SUBSET Uuids /\ \A u \in C : todo[c][u] \in Request
  BY <1>1, <1>3, PersistedType
<1>5. PICK S \in SUBSET Uuids : S = {u \in C : Accepts(u, todo[c][u].group)}
  BY <1>4
<1>6. \A u \in Uuids \ S : graph'[u] = graph[u]
  BY <1>2, <1>5 DEF Saved
<1>7. ASSUME NEW u \in S
      PROVE  u \in Stale'
  <2>1. u \in Uuids /\ ledger[u] \in Nat /\ todo[c][u] \in Request
    BY <1>1, <1>4, <1>5 DEF TypeOK, StoreTypeOK
  <2>2. PICK v \in Nat : v = ledger[u] + 1
    BY <2>1
  <2>3. graph'[u] = [ver |-> v, group |-> todo[c][u].group, val |-> todo[c][u].val,
                     sync |-> v, del |-> FALSE]
    BY <1>2, <1>5, <2>2 DEF Saved
  <2>4. graph'[u] \in Entity /\ graph'[u].sync # 0
    BY <2>1, <2>2, <2>3 DEF Entity, Request
  <2>5. QED
    BY <2>1, <2>4, StoreAssumption DEF Stale, Exists, Clean
<1>8. QED
  BY <1>3, <1>6, <1>7, ChangeRefines

(* The prepare query marks every entity it hides.                          *)
LEMMA PrepareRefines ==
    ASSUME Inv, Inv', NEW c \in Clients, PrepareDeletion(c)
    PROVE  View!Next
<1>1. TypeOK /\ c \in Procs
  BY DEF Inv, Procs
<1>2. PICK S \in SUBSET Uuids :
          S = {u \in batch[c] : Exists(u) /\ graph[u].ver < docs[c][u].ver}
  BY <1>1 DEF TypeOK
<1>3. graph' = Prepared(batch[c], docs[c]) /\ index' = index
  BY DEF PrepareDeletion
<1>4. \A u \in Uuids \ S : graph'[u] = graph[u]
  BY <1>2, <1>3 DEF Prepared
<1>5. ASSUME NEW u \in S
      PROVE  u \in Stale'
  <2>1. graph'[u] = [graph[u] EXCEPT !.del = TRUE, !.ver = docs[c][u].ver]
    BY <1>2, <1>3 DEF Prepared
  <2>2. graph[u] \in Entity /\ docs[c][u].ver \in Nat
    BY <1>1, <1>2 DEF TypeOK, StoreTypeOK, Exists, Document
  <2>3. graph'[u] \in Entity /\ graph'[u].del
    BY <2>1, <2>2 DEF Entity
  <2>4. QED
    BY <2>3, StoreAssumption DEF Stale, Exists, Clean
<1>6. QED
  BY <1>3, <1>4, <1>5, ChangeRefines

(* An acknowledgement takes the marker away and shows nothing new.         *)
LEMMA ClearRefines ==
    ASSUME Inv, Inv', NEW S \in SUBSET Uuids, NEW d \in [Uuids -> Document],
           graph' = Cleared(S, d), index' = index
    PROVE  View!Next
<1>1. PICK T \in SUBSET Uuids :
          T = {u \in S : /\ Exists(u) /\ graph[u].ver = d[u].ver
                         /\ graph[u].sync = d[u].ver /\ ~graph[u].del}
  OBVIOUS
<1>2. \A u \in Uuids \ T : graph'[u] = graph[u]
  BY <1>1 DEF Cleared
<1>3. ASSUME NEW u \in T
      PROVE  u \notin Stale' /\ SourceOf(u)' = SourceOf(u)
  <2>1. graph'[u] = [graph[u] EXCEPT !.sync = 0]
    BY <1>1 DEF Cleared
  <2>2. graph[u] \in Entity /\ ~graph[u].del
    BY <1>1 DEF Inv, TypeOK, StoreTypeOK, Exists
  <2>3. /\ graph'[u] \in Entity
        /\ graph'[u].sync = 0 /\ graph'[u].del = graph[u].del
        /\ graph'[u].val = graph[u].val /\ graph'[u].group = graph[u].group
    BY <2>1, <2>2 DEF Entity
  <2>4. QED
    BY <2>2, <2>3, StoreAssumption DEF Stale, Exists, Clean, SourceOf, Removed
<1>4. QED
  BY <1>2, <1>3, SettleRefines

(* The entity a finalize query removes was hidden already.                 *)
LEMMA FinalizeRefines ==
    ASSUME Inv, Inv', NEW S \in SUBSET Uuids, NEW d \in [Uuids -> Document],
           graph' = Finalized(S, d), index' = index
    PROVE  View!Next
<1>1. PICK T \in SUBSET Uuids :
          T = {u \in S : Exists(u) /\ graph[u].del /\ graph[u].ver = d[u].ver}
  OBVIOUS
<1>2. \A u \in Uuids \ T : graph'[u] = graph[u]
  BY <1>1 DEF Finalized
<1>3. ASSUME NEW u \in T
      PROVE  u \notin Stale' /\ SourceOf(u)' = SourceOf(u)
  <2>1. graph'[u] = Absent /\ graph[u].del
    BY <1>1 DEF Finalized
  <2>2. QED
    BY <2>1 DEF Stale, Exists, SourceOf, Removed
<1>4. QED
  BY <1>2, <1>3, SettleRefines

(* A request that lands may be old, but it changes what searches see of    *)
(* its uuid only while a marker is pending there: a settled entity has its *)
(* own generation in the index, which no request can exceed, and a uuid    *)
(* that is gone shows nothing before or after.                             *)
LEMMA LandsRefines ==
    ASSUME Inv, Inv', NEW w \in net, Lands(w)
    PROVE  View!Next \/ UNCHANGED View!vars
<1>1. /\ w.uuid \in Uuids /\ w.doc \in Document
      /\ index \in [Uuids -> Document]
  BY DEF Inv, TypeOK, StoreTypeOK, Write
<1>2. /\ w.doc.ver > index[w.uuid].ver
      /\ index' = [index EXCEPT ![w.uuid] = w.doc]
      /\ UNCHANGED graph
  BY DEF Lands, Deliver
<1>3. PICK k \in Uuids : k = w.uuid
  BY <1>1
<1>4. \A u \in Uuids : SourceOf(u)' = SourceOf(u) /\ (u \in Stale' <=> u \in Stale)
  BY <1>2 DEF SourceOf, Removed, Exists, Stale, Clean
<1>5. \A u \in Uuids \ {k} : ViewOf(u)' = ViewOf(u)
  BY <1>1, <1>2, <1>3 DEF ViewOf, Live
<1>6. ViewOf(k)' \in Shown
  BY InvShownNext DEF ShownAt, Shown
<1>7. CASE k \in Stale
  <2>1. [u \in Uuids |-> ViewOf(u)]' = [[u \in Uuids |-> ViewOf(u)] EXCEPT ![k] = ViewOf(k)']
    BY <1>5
  <2>2. View!Refresh(k)
    BY <1>4, <1>6, <1>7, <2>1 DEF View!Refresh, Stale, Shown
  <2>3. QED
    BY <2>2 DEF View!Next
<1>8. CASE k \notin Stale
  <2>1. ViewOf(k) = SourceOf(k) /\ ViewOf(k)' = SourceOf(k)'
    BY <1>4, <1>8, InvShown, InvShownNext DEF ShownAt
  <2>2. \A u \in Uuids : ViewOf(u)' = ViewOf(u)
    BY <1>4, <1>5, <2>1
  <2>3. UNCHANGED View!vars
    BY <1>4, <2>2 DEF View!vars, Stale
  <2>4. QED
    BY <2>3
<1>9. QED
  BY <1>7, <1>8

(* The other steps of clients and reconcilers touch neither the graph nor  *)
(* the index.                                                              *)
LEMMA ClientRefines ==
    ASSUME Inv, Inv', NEW c \in Clients,
           StartSave(c) \/ StartDelete(c) \/ ClientStep(c) \/ ClientFails(c)
    PROVE  View!Next \/ UNCHANGED View!vars
<1>1. batch[c] \in SUBSET Uuids /\ docs[c] \in [Uuids -> Document]
  BY DEF Inv, TypeOK, Procs
<1>2. CASE SaveChunk(c)
  BY <1>2, SaveChunkRefines
<1>3. CASE PrepareDeletion(c)
  BY <1>3, PrepareRefines
<1>4. CASE ClearSaved(c)
  <2>1. graph' = Cleared(batch[c], docs[c]) /\ index' = index
    BY <1>4 DEF ClearSaved
  <2>2. QED
    BY <1>1, <2>1, ClearRefines
<1>5. CASE FinalizeDeletion(c)
  <2>1. graph' = Finalized(batch[c], docs[c]) /\ index' = index
    BY <1>5 DEF FinalizeDeletion
  <2>2. QED
    BY <1>1, <2>1, FinalizeRefines
<1>6. CASE StartSave(c) \/ StartDelete(c) \/ SyncChunk(c) \/ ReserveDeletion(c)
           \/ Bury(c) \/ BulkSucceeds(c) \/ ClientFails(c)
  <2>1. graph' = graph /\ index' = index
    BY <1>6 DEF StartSave, StartDelete, SyncChunk, ReserveDeletion, Bury, BulkSucceeds,
                ClientFails, storeVars
  <2>2. QED
    BY <2>1, SilentRefines
<1>7. QED
  BY <1>2, <1>3, <1>4, <1>5, <1>6 DEF ClientStep

LEMMA ReconcilerRefines ==
    ASSUME Inv, Inv', NEW r \in Reconcilers,
           ReconcilerStep(r) \/ SweepBatchFails(r) \/ SweepAborts(r)
    PROVE  View!Next \/ UNCHANGED View!vars
<1>1. batch[r] \in SUBSET Uuids /\ docs[r] \in [Uuids -> Document]
  BY DEF Inv, TypeOK, Procs
<1>2. CASE SweepClear(r)
  <2>1. graph' = Cleared(batch[r], docs[r]) /\ index' = index
    BY <1>2 DEF SweepClear
  <2>2. QED
    BY <1>1, <2>1, ClearRefines
<1>3. CASE SweepFinalize(r)
  <2>1. graph' = Finalized(batch[r], docs[r]) /\ index' = index
    BY <1>3 DEF SweepFinalize
  <2>2. QED
    BY <1>1, <2>1, FinalizeRefines
<1>4. CASE StartSweep(r) \/ ScanDeletes(r) \/ ScanSaves(r) \/ DeletesSwept(r)
           \/ SavesSwept(r) \/ SweepSync(r) \/ SweepRejects(r) \/ Bury(r)
           \/ BulkSucceeds(r) \/ SweepBatchFails(r) \/ SweepAborts(r)
  <2>1. graph' = graph /\ index' = index
    BY <1>4 DEF StartSweep, ScanDeletes, ScanSaves, ReadPage, DeletesSwept, SavesSwept,
                SweepSync, SweepRejects, Bury, BulkSucceeds, SweepBatchFails, SweepAborts,
                storeVars
  <2>2. QED
    BY <2>1, SilentRefines
<1>5. QED
  BY <1>2, <1>3, <1>4 DEF ReconcilerStep

LEMMA StepRefines == Inv /\ Inv' /\ [Next]_vars => [View!Next]_(View!vars)
<1> SUFFICES ASSUME Inv, Inv', [Next]_vars PROVE View!Next \/ UNCHANGED View!vars
  OBVIOUS
<1>1. CASE UNCHANGED vars
  BY <1>1, SilentRefines DEF vars
<1>2. ASSUME NEW w \in net, Lands(w)
      PROVE  View!Next \/ UNCHANGED View!vars
  BY <1>2, LandsRefines
<1>3. QED
  BY <1>1, <1>2, ClientRefines, ReconcilerRefines DEF Next

LEMMA InitRefines == Init => View!Init
<1> SUFFICES ASSUME Init PROVE View!Init
  OBVIOUS
<1>1. \A u \in Uuids : ~Exists(u) /\ ~Live(index[u])
  BY DEF Init, StoreInit, Exists, Live, NoDocument
<1>2. QED
  BY <1>1 DEF View!Init, SourceOf, ViewOf, Removed

(* The projection implements a materialized view of the graph: what a      *)
(* vector search can hit differs from what readers of the graph see only   *)
(* while a durable marker says so, the marker is set in the query that     *)
(* changes the entity, no late request moves a settled uuid, and a marker  *)
(* is taken away only where the two agree.                                 *)
THEOREM Refinement == Spec => ViewSpec
<1>1. Spec => View!Init /\ [][View!Next]_(View!vars)
  BY InitRefines, StepRefines, InvHolds, PTL DEF Spec
<1>2. QED
  BY <1>1 DEF ViewSpec, View!Spec

-----------------------------------------------------------------------------
(* The rebuild (module IndexRebuild).  A reset takes the tombstones and    *)
(* the versions of the index with it, so Inv does not survive one; its     *)
(* invariant is in three layers.  What documents say of an entity of their *)
(* generation holds in every state, whatever the index contains.           *)

(* Documents of entities bear a group, those of deletions do not.          *)
Grouped(d) == d.group # NoGroup

(* A document of u, wherever it is, is no newer than the entity and, at    *)
(* the same generation, is what the entity says.                           *)
Fits(u, d) ==
    /\ d.ver <= ledger[u]
    /\ Exists(u) =>
         /\ d.ver <= graph[u].ver
         /\ d.ver = graph[u].ver => IF graph[u].del THEN ~Grouped(d) ELSE d = Content(u)
    /\ Live(d) => Grouped(d)

EntityAt(u) ==
    Exists(u) =>
         /\ 0 < graph[u].ver /\ graph[u].ver <= ledger[u]
         /\ graph[u].sync \in {0, graph[u].ver} \/ graph[u].del

HeldFits(p) ==
    \A u \in Uuids :
        IF pc[p] = "prepare"
        THEN /\ ~Grouped(docs[p][u]) /\ ~Live(docs[p][u])
             /\ docs[p][u].ver <= ledger[u]
             /\ docs[p][u].ver # 0 => u \in batch[p]
             /\ Exists(u) => graph[u].ver # docs[p][u].ver
        ELSE Fits(u, docs[p][u])

Resting(p) == pc[p] \in {"idle", "failed", "sleep"} => docs[p] = NoDocuments

StoresFit ==
    /\ \A u \in Uuids : EntityAt(u) /\ Fits(u, index[u])
    /\ \A w \in net : Fits(w.uuid, w.doc)
    /\ \A p \in Procs : HeldFits(p) /\ Resting(p)
    /\ ReservationsDistinct

(* While the command is at work, or has failed, nothing but documents of   *)
(* the entities as they are is under way.                                  *)
Quiet(u, d) == Grouped(d) => Exists(u) /\ ~graph[u].del /\ d = Content(u)

Quiesced ==
    /\ \A c \in Clients : pc[c] \in {"idle", "failed"}
    /\ \A w \in net : Quiet(w.uuid, w.doc)
    /\ \A p \in Procs : \A u \in Uuids : Quiet(u, docs[p][u])

(* So nothing else gets into the index once the old documents are gone,    *)
Filling == {"read", "write", "writing", "clear"}

Emptied == op \in Filling \cup {"complete"} \/ (op = "create" /\ scope = AllGroups)

Wiped ==
    /\ op = "purge" => \A u \in Uuids \ rest : index[u].group = scope => Quiet(u, index[u])
    /\ Emptied => \A u \in Uuids :
          scope \in {AllGroups, index[u].group} => Quiet(u, index[u])

(* and whatever a pass has left behind is in the index.                    *)
Covered ==
    /\ op \in Filling \cup {"complete"} =>
          \A u \in Backfillable :
              u \in rest \cup Versioned(page) \/ index[u].ver = graph[u].ver
    /\ op \notin Filling \ {"read"} => page = NoDocuments
    /\ op = "complete" => rest = {}
    /\ op = "clear" => \A u \in Versioned(page) : index[u].ver >= page[u].ver
    /\ op \in Filling => \A u \in Versioned(page) : u \in Backfillable /\ page[u] = Content(u)

Stages ==
    /\ ~present => op \in {"delete", "create", "failed"} /\ ~ready
    /\ op = "delete" => scope = AllGroups
    /\ op \in {"list", "purge"} => scope \in Groups
    /\ op \notin {"idle", "complete"} /\ scope = AllGroups => ~ready
    /\ op = "failed" => ~ready

(* What holds of the index while reads may be enabled: the invariant of    *)
(* the lifecycle, except that an entity without an embedding may have no   *)
(* document, that the group under repair is behind, and that a deletion    *)
(* that found no index may go on if nothing of its entity is left that     *)
(* could show.                                                             *)
Harmless(u, d) ==
    Grouped(d) => d.ver <= index[u].ver \/ (Exists(u) /\ d.group = graph[u].group)

UnderRepair(u) == op \notin {"idle", "complete"} /\ scope = graph[u].group

Owned(u) == Grouped(index[u]) => Exists(u) /\ index[u].group = graph[u].group

Exact(u) ==
    Clean(u) /\ graph[u].val # NoVector /\ ~UnderRepair(u) => index[u].ver = graph[u].ver

NoneGrouped(u) ==
    /\ ~Grouped(index[u])
    /\ \A w \in net : w.uuid = u => ~Grouped(w.doc)
    /\ \A p \in Procs : ~Grouped(docs[p][u])

IndexedAt(u, d) ==
    Exists(u) /\ ~graph[u].del /\ graph[u].ver = d.ver
      /\ graph[u].val # NoVector /\ ~UnderRepair(u) => index[u].ver >= graph[u].ver

BuriedAt(u, d) ==
    Exists(u) /\ graph[u].del /\ graph[u].ver = d.ver
      => index[u].ver >= graph[u].ver \/ NoneGrouped(u)

Durable(p) ==
    \A u \in batch[p] :
        /\ pc[p] = "clear" => IndexedAt(u, docs[p][u])
        /\ pc[p] = "finalize" => BuriedAt(u, docs[p][u])

Authorized ==
    /\ \A u \in Uuids : Owned(u) /\ Exact(u)
    /\ \A w \in net : Harmless(w.uuid, w.doc)
    /\ \A p \in Procs : Durable(p) /\ \A u \in Uuids : Harmless(u, docs[p][u])
    /\ op = "purge" => \A u \in rest : Exists(u) => graph[u].group = scope

RebuildInv ==
    /\ RebuildTypeOK /\ RequestsValid
    /\ StoresFit
    /\ op # "idle" => Quiesced
    /\ Wiped
    /\ Covered
    /\ Stages
    /\ ready => Authorized

-----------------------------------------------------------------------------
(* What a step of a process does to the entity u.                          *)

Kept(u) == graph'[u] = graph[u]

Unmoved(u) ==
    /\ Exists(u) /\ Exists(u)'
    /\ graph'[u].group = graph[u].group /\ graph'[u].val = graph[u].val

Acked(p, u) ==
    /\ pc[p] = "clear" /\ u \in batch[p] /\ graph[u].ver = docs[p][u].ver
    /\ Unmoved(u) /\ ~graph[u].del /\ ~graph'[u].del
    /\ graph'[u].ver = graph[u].ver /\ graph'[u].sync = 0

Gone(p, u) ==
    /\ pc[p] = "finalize" /\ u \in batch[p] /\ graph[u].ver = docs[p][u].ver
    /\ Exists(u) /\ graph[u].del /\ ~Exists(u)'

Marked(p, u) ==
    /\ pc[p] = "prepare" /\ u \in batch[p] /\ graph[u].ver < docs[p][u].ver
    /\ Unmoved(u) /\ graph'[u].del /\ graph'[u].ver = docs[p][u].ver

Written(p, u) ==
    /\ pc[p] = "write" /\ Accepts(u, graph'[u].group)
    /\ Exists(u)' /\ ~graph'[u].del
    /\ graph'[u].ver = ledger[u] + 1 /\ graph'[u].sync = graph'[u].ver
    /\ ledger'[u] = ledger[u] + 1

Effect(p, u) ==
    /\ ledger'[u] >= ledger[u]
    /\ Kept(u) \/ Acked(p, u) \/ Gone(p, u) \/ Marked(p, u) \/ Written(p, u)

(* Whatever the effect, documents of u that fit go on fitting.             *)
KeepsFits(u) == \A d \in Document : Fits(u, d) => Fits(u, d)'

LEMMA KeptFits ==
    ASSUME NEW u \in Uuids, TypedAt(u), TypedAt(u)', EntityAt(u),
           ledger'[u] >= ledger[u], Kept(u)
    PROVE  EntityAt(u)' /\ KeepsFits(u)
BY DEF TypedAt, EntityAt, KeepsFits, Fits, Kept, Exists, Live, Grouped, Content, Document, Entity

LEMMA AckedFits ==
    ASSUME NEW u \in Uuids, TypedAt(u), TypedAt(u)', EntityAt(u),
           ledger'[u] >= ledger[u], NEW p, Acked(p, u)
    PROVE  EntityAt(u)' /\ KeepsFits(u)
<1>1. graph[u] \in Entity /\ graph'[u] \in Entity /\ Content(u)' = Content(u)
  BY DEF TypedAt, Acked, Unmoved, Exists, Content
<1>2. QED
  BY <1>1 DEF TypedAt, EntityAt, KeepsFits, Fits, Acked, Unmoved, Live, Grouped, Document, Entity

LEMMA GoneFits ==
    ASSUME NEW u \in Uuids, TypedAt(u), TypedAt(u)',
           ledger'[u] >= ledger[u], NEW p, Gone(p, u)
    PROVE  EntityAt(u)' /\ KeepsFits(u)
BY DEF TypedAt, EntityAt, KeepsFits, Fits, Gone, Live, Grouped, Document

LEMMA MarkedFits ==
    ASSUME NEW u \in Uuids, TypedAt(u), TypedAt(u)', EntityAt(u),
           ledger'[u] >= ledger[u], NEW p, Marked(p, u), docs[p][u].ver <= ledger[u],
           docs[p][u].ver \in Nat
    PROVE  EntityAt(u)' /\ KeepsFits(u)
<1>1. graph[u] \in Entity /\ graph'[u] \in Entity
  BY DEF TypedAt, Marked, Unmoved, Exists
<1>2. QED
  BY <1>1 DEF TypedAt, EntityAt, KeepsFits, Fits, Marked, Unmoved, Live, Grouped, Document, Entity

LEMMA WrittenFits ==
    ASSUME NEW u \in Uuids, TypedAt(u), TypedAt(u)', NEW p, Written(p, u)
    PROVE  EntityAt(u)' /\ KeepsFits(u)
<1>1. graph'[u] \in Entity
  BY DEF TypedAt, Written, Exists
<1>2. QED
  BY <1>1 DEF TypedAt, EntityAt, KeepsFits, Fits, Written, Live, Grouped, Document, Entity

LEMMA EffectFits ==
    ASSUME TypeOK, TypeOK', StoresFit, NEW p \in Procs, NEW u \in Uuids, Effect(p, u)
    PROVE  EntityAt(u)' /\ KeepsFits(u)
<1>1. TypedAt(u) /\ TypedAt(u)' /\ EntityAt(u) /\ HeldFits(p)
  BY TypedEverywhere DEF StoresFit, TypeOK, StoreTypeOK, TypedAt
<1>2. CASE Marked(p, u)
  <2>1. docs[p][u].ver <= ledger[u] /\ docs[p][u].ver \in Nat
    BY <1>1, <1>2 DEF HeldFits, Marked, TypeOK, Document
  <2>2. QED
    BY <1>1, <1>2, <2>1, MarkedFits DEF Effect
<1>3. QED
  BY <1>1, <1>2, KeptFits, AckedFits, GoneFits, WrittenFits DEF Effect

(* What a step of process p that leaves the command and the index alone    *)
(* does: to the stores, to what it holds, and to what is under way.        *)
Obtained(p, u) ==
    \/ docs'[p][u] = docs[p][u]
    \/ ~Grouped(docs'[p][u])
    \/ Exists(u)' /\ ~graph'[u].del /\ docs'[p][u] = Content(u)'

Sends(p) ==
    \/ net' = net
    \/ pc[p] # "prepare" /\ \E S \in SUBSET Uuids : net' = net \cup Requests(S, docs[p])

Caught(p) ==
    pc'[p] \in {"clear", "finalize"} /\ present =>
        \A u \in batch'[p] : index[u].ver >= docs'[p][u].ver

StepOf(p) ==
    /\ OthersAt(p) /\ index' = index /\ UNCHANGED opVars
    /\ \A u \in Uuids : Effect(p, u) /\ Obtained(p, u)
    /\ Sends(p) /\ ReservesLater(p) /\ Caught(p)
    /\ HeldFits(p)' /\ Resting(p)'

LEMMA EffectsNoClash ==
    ASSUME TypeOK, StoresFit, NEW p \in Procs, \A u \in Uuids : Effect(p, u)
    PROVE  NoClash(p)
<1> SUFFICES ASSUME NEW q \in Procs \ {p}, pc[q] = "prepare", NEW u \in Uuids, Exists(u)'
             PROVE  graph'[u].ver # docs[q][u].ver
  BY DEF NoClash
<1>1. /\ docs[q][u].ver \in Nat /\ docs[p][u].ver \in Nat /\ ledger[u] \in Nat
      /\ Exists(u) => graph[u].ver \in Nat
  BY DEF TypeOK, StoreTypeOK, Document, Entity, Exists
<1>2. docs[q][u].ver <= ledger[u] /\ (Exists(u) => graph[u].ver # docs[q][u].ver)
  BY DEF StoresFit, HeldFits
<1>3. CASE Kept(u)
  BY <1>2, <1>3 DEF Kept, Exists
<1>4. CASE Marked(p, u)
  BY <1>1, <1>4 DEF Marked, Unmoved, StoresFit, ReservationsDistinct
<1>5. QED
  BY <1>1, <1>2, <1>3, <1>4 DEF Effect, Acked, Unmoved, Gone, Written

(* A process that does not move goes on holding what fits.                 *)
LEMMA HeldFitsFrame ==
    ASSUME TypeOK, TypeOK', NEW p \in Procs, HeldFits(p),
           pc'[p] = pc[p], docs'[p] = docs[p], batch'[p] = batch[p],
           \A u \in Uuids : KeepsFits(u) /\ ledger'[u] >= ledger[u],
           pc[p] = "prepare" =>
               \A u \in Uuids : Exists(u)' => graph'[u].ver # docs[p][u].ver
    PROVE  HeldFits(p)'
<1> SUFFICES ASSUME NEW u \in Uuids
             PROVE  IF pc[p] = "prepare"
                    THEN /\ ~Grouped(docs'[p][u]) /\ ~Live(docs'[p][u])
                         /\ docs'[p][u].ver <= ledger'[u]
                         /\ docs'[p][u].ver # 0 => u \in batch'[p]
                         /\ Exists(u)' => graph'[u].ver # docs'[p][u].ver
                    ELSE Fits(u, docs[p][u])'
  BY DEF HeldFits, Live, Grouped
<1>1. /\ docs[p][u] \in Document /\ docs[p][u].ver \in Nat
      /\ ledger[u] \in Nat /\ ledger'[u] \in Nat
  BY DEF TypeOK, StoreTypeOK, Document
<1>2. CASE pc[p] = "prepare"
  BY <1>1, <1>2 DEF HeldFits
<1>3. CASE pc[p] # "prepare"
  <2>1. PICK d \in Document : d = docs[p][u]
    BY <1>1
  <2>2. Fits(u, d)'
    BY <1>3, <2>1 DEF HeldFits, KeepsFits
  <2>3. d = docs'[p][u]
    BY <2>1
  <2>4. QED
    BY <1>3, <2>2, <2>3 DEF Fits, Live, Grouped
<1>4. QED
  BY <1>2, <1>3

(* Documents in a set of requests, when the stores move under them.        *)
LEMMA NetFits ==
    ASSUME TypeOK, StoresFit, \A u \in Uuids : KeepsFits(u)
    PROVE  \A w \in net : Fits(w.uuid, w.doc)'
BY DEF TypeOK, StoreTypeOK, Write, StoresFit, KeepsFits

LEMMA IndexFits ==
    ASSUME TypeOK, StoresFit, index' = index, \A u \in Uuids : KeepsFits(u)
    PROVE  \A u \in Uuids : Fits(u, index[u])'
<1> SUFFICES ASSUME NEW u \in Uuids PROVE Fits(u, index[u])'
  OBVIOUS
<1>1. PICK d \in Document : d = index[u]
  BY DEF TypeOK, StoreTypeOK
<1>2. Fits(u, d)' /\ d = index'[u]
  BY <1>1 DEF StoresFit, KeepsFits
<1>3. QED
  BY <1>2 DEF Fits, Live, Grouped

LEMMA StepFits ==
    ASSUME TypeOK, TypeOK', StoresFit, NEW p \in Procs, StepOf(p)
    PROVE  StoresFit'
<1>1. \A u \in Uuids : EntityAt(u)' /\ KeepsFits(u) /\ ledger'[u] >= ledger[u]
  BY EffectFits DEF StepOf, Effect
<1>2. NoClash(p)
  BY EffectsNoClash DEF StepOf
<1>3. \A q \in Procs : HeldFits(q)' /\ Resting(q)'
  <2> SUFFICES ASSUME NEW q \in Procs PROVE HeldFits(q)' /\ Resting(q)'
    OBVIOUS
  <2>1. CASE q = p
    BY <2>1 DEF StepOf
  <2>2. CASE q # p
    <3>1. pc'[q] = pc[q] /\ docs'[q] = docs[q] /\ batch'[q] = batch[q]
      BY <2>2 DEF StepOf, OthersAt
    <3>2. HeldFits(q) /\ Resting(q)
      BY DEF StoresFit
    <3>3. pc[q] = "prepare" =>
              \A u \in Uuids : Exists(u)' => graph'[u].ver # docs[q][u].ver
      BY <1>2, <2>2 DEF NoClash
    <3>4. HeldFits(q)'
      BY <1>1, <3>1, <3>2, <3>3, HeldFitsFrame
    <3>5. QED
      BY <3>1, <3>2, <3>4 DEF Resting
  <2>3. QED
    BY <2>1, <2>2
<1>4. \A w \in net' : Fits(w.uuid, w.doc)'
  <2>1. \A w \in net : Fits(w.uuid, w.doc)'
    BY <1>1, NetFits
  <2>2. ASSUME NEW S \in SUBSET Uuids, pc[p] # "prepare", NEW w \in Requests(S, docs[p])
        PROVE  Fits(w.uuid, w.doc)'
    <3>1. PICK u \in S : w = [uuid |-> u, doc |-> docs[p][u]]
      BY DEF Requests
    <3>2. docs[p][u] \in Document /\ Fits(u, docs[p][u])
      BY <2>2 DEF TypeOK, StoresFit, HeldFits
    <3>3. PICK d \in Document : d = docs[p][u]
      BY <3>2
    <3>4. Fits(u, d)'
      BY <1>1, <3>2, <3>3 DEF KeepsFits
    <3>5. w.uuid = u /\ w.doc = d
      BY <3>1, <3>3
    <3>6. QED
      BY <3>4, <3>5
  <2>3. QED
    BY <2>1, <2>2 DEF StepOf, Sends
<1>5. (\A u \in Uuids : Fits(u, index[u]))'
  BY <1>1, IndexFits DEF StepOf
<1>6. ReservationsDistinct'
  <2>1. \A q \in Procs : \A u \in Uuids : docs[q][u].ver \in Nat /\ docs'[q][u].ver \in Nat
    BY DEF TypeOK, Document
  <2>2. QED
    BY <2>1 DEF StoresFit, ReservationsDistinct, OthersAt, ReservesLater, StepOf
<1>7. QED
  BY <1>1, <1>3, <1>4, <1>5, <1>6 DEF StoresFit

-----------------------------------------------------------------------------
(* While the command is at work only reconcilers move, and they neither    *)
(* save nor mark: the entities that are not being deleted stay as they are *)
(* but for their sync markers.                                             *)

Calm(p) == \A u \in Uuids : Kept(u) \/ Acked(p, u) \/ Gone(p, u)

LEMMA CalmSteps ==
    ASSUME TypeOK, NEW r \in Reconcilers, StepOf(r)
    PROVE  Calm(r)
<1>1. pc[r] \notin {"prepare", "write"}
  BY DEF TypeOK, ReconcilerPc, BothPc
<1>2. QED
  BY <1>1 DEF StepOf, Effect, Marked, Written, Calm

(* The entities a backfill is about, and what it writes for them.          *)
LEMMA CalmKeeps ==
    ASSUME NEW p, Calm(p), NEW u \in Uuids
    PROVE  /\ Exists(u) /\ ~graph[u].del =>
                Exists(u)' /\ ~graph'[u].del /\ Content(u)' = Content(u)
           /\ Exists(u)' => Exists(u) /\ Content(u)' = Content(u) /\ (graph'[u].del <=> graph[u].del)
BY DEF Calm, Kept, Acked, Gone, Unmoved, Exists, Content

LEMMA CalmQuiet ==
    ASSUME NEW p, Calm(p), NEW u \in Uuids, NEW d, Quiet(u, d)
    PROVE  Quiet(u, d)'
BY CalmKeeps DEF Quiet, Grouped

LEMMA CalmBackfillable ==
    ASSUME NEW p, Calm(p), scope' = scope
    PROVE  /\ Backfillable' = Backfillable
           /\ \A u \in Backfillable : Content(u)' = Content(u) /\ graph'[u].ver = graph[u].ver
<1>1. \A u \in Uuids : Exists(u) => graph[u].val = Content(u).val /\ graph[u].ver = Content(u).ver
                                    /\ graph[u].group = Content(u).group
  BY DEF Content
<1>2. \A u \in Uuids : Exists(u)' => graph'[u].val = (Content(u)').val
                  /\ graph'[u].ver = (Content(u)').ver /\ graph'[u].group = (Content(u)').group
  BY DEF Content
<1>3. ASSUME NEW u \in Uuids
      PROVE  /\ (Exists(u)' /\ ~graph'[u].del) <=> (Exists(u) /\ ~graph[u].del)
             /\ Exists(u) /\ ~graph[u].del =>
                   /\ Content(u)' = Content(u) /\ graph'[u].val = graph[u].val
                   /\ graph'[u].ver = graph[u].ver /\ graph'[u].group = graph[u].group
  BY <1>1, <1>2, CalmKeeps
<1>4. Backfillable' = {u \in Uuids : /\ Exists(u)'
                                     /\ ~graph'[u].del
                                     /\ graph'[u].val # NoVector
                                     /\ scope \in {AllGroups, graph'[u].group}}
  BY DEF Backfillable
<1>5. QED
  BY <1>3, <1>4 DEF Backfillable

LEMMA StepQuiesced ==
    ASSUME TypeOK, Quiesced, NEW r \in Reconcilers, StepOf(r)
    PROVE  Quiesced'
<1>1. Calm(r) /\ r \in Procs /\ r \notin Clients
  BY CalmSteps, ProcessAssumption DEF Procs
<1>2. \A c \in Clients : pc'[c] \in {"idle", "failed"}
  BY <1>1 DEF Quiesced, StepOf, OthersAt, Procs
<1>3. ASSUME NEW q \in Procs, NEW u \in Uuids
      PROVE  Quiet(u, docs[q][u])'
  <2>1. CASE docs'[q][u] = docs[q][u]
    BY <1>1, <2>1, CalmQuiet DEF Quiesced, Quiet, Grouped
  <2>2. CASE docs'[q][u] # docs[q][u]
    BY <2>2 DEF StepOf, OthersAt, Obtained, Quiet, Grouped
  <2>3. QED
    BY <2>1, <2>2
<1>4. ASSUME NEW w \in net'
      PROVE  Quiet(w.uuid, w.doc)'
  <2>1. CASE w \in net
    <3>1. w.uuid \in Uuids
      BY <2>1 DEF TypeOK, StoreTypeOK, Write
    <3>2. QED
      BY <1>1, <2>1, <3>1, CalmQuiet DEF Quiesced
  <2>2. CASE w \notin net
    <3>1. PICK u \in Uuids : w.uuid = u /\ w.doc = docs[r][u]
      BY <2>2 DEF StepOf, Sends, Requests
    <3>2. Quiet(u, w.doc)'
      BY <1>1, <3>1, CalmQuiet DEF Quiesced
    <3>3. QED
      BY <3>1, <3>2
  <2>3. QED
    BY <2>1, <2>2
<1>5. QED
  BY <1>2, <1>3, <1>4 DEF Quiesced

LEMMA StepWiped ==
    ASSUME Wiped, NEW p, Calm(p), index' = index, UNCHANGED opVars
    PROVE  Wiped'
<1>1. \A u \in Uuids : Quiet(u, index[u]) => Quiet(u, index[u])'
  BY CalmQuiet DEF Quiet, Grouped
<1>2. UNCHANGED <<op, scope, rest>>
  BY DEF opVars
<1>3. QED
  BY <1>1, <1>2 DEF Wiped, Emptied, Filling

LEMMA StepCovered ==
    ASSUME Covered, NEW p, Calm(p), index' = index, UNCHANGED opVars
    PROVE  Covered'
<1>1. UNCHANGED <<op, scope, rest, page>>
  BY DEF opVars
<1>2. /\ Backfillable' = Backfillable
      /\ \A u \in Backfillable : Content(u)' = Content(u) /\ graph'[u].ver = graph[u].ver
  BY <1>1, CalmBackfillable
<1>3. Versioned(page)' = Versioned(page)
  BY <1>1 DEF Versioned
<1>4. QED
  BY <1>1, <1>2, <1>3 DEF Covered, Filling

-----------------------------------------------------------------------------
(* While reads may be enabled, clients move as well.                       *)

LEMMA OwnedKept ==
    ASSUME NEW u \in Uuids, TypedAt(u), TypedAt(u)', EntityAt(u), Fits(u, index[u]), Owned(u),
           NEW p, Effect(p, u), index'[u] = index[u],
           Gone(p, u) => BuriedAt(u, docs[p][u])
    PROVE  Owned(u)'
<1>1. CASE Kept(u)
  BY <1>1 DEF Owned, Kept, Exists, Grouped
<1>2. CASE Acked(p, u) \/ Marked(p, u)
  BY <1>2 DEF Owned, Acked, Marked, Unmoved, Grouped
<1>3. CASE Gone(p, u)
  <2>1. index[u].ver >= graph[u].ver \/ ~Grouped(index[u])
    BY <1>3 DEF Gone, BuriedAt, NoneGrouped
  <2>2. ~Grouped(index[u])
    <3>1. graph[u].ver \in Nat /\ index[u].ver \in Nat
      BY <1>3 DEF Gone, TypedAt, Exists, Entity, Document
    <3>2. QED
      BY <1>3, <2>1, <3>1 DEF Gone, Fits
  <2>3. QED
    BY <2>2 DEF Owned, Grouped
<1>4. CASE Written(p, u)
  BY <1>4 DEF Owned, Written, Accepts, Grouped
<1>5. QED
  BY <1>1, <1>2, <1>3, <1>4 DEF Effect

LEMMA ExactKept ==
    ASSUME NEW u \in Uuids, TypedAt(u), TypedAt(u)', Fits(u, index[u]), Exact(u),
           NEW p, Effect(p, u), index'[u] = index[u], UNCHANGED <<op, scope>>,
           Acked(p, u) => IndexedAt(u, docs[p][u])
    PROVE  Exact(u)'
<1>1. CASE Kept(u)
  BY <1>1 DEF Exact, Kept, Clean, Exists, UnderRepair
<1>2. CASE Acked(p, u)
  <2>1. graph[u].ver \in Nat /\ index[u].ver \in Nat
    BY <1>2 DEF Acked, Unmoved, TypedAt, Exists, Entity, Document
  <2>2. QED
    BY <1>2, <2>1 DEF Exact, Acked, Unmoved, Clean, UnderRepair, IndexedAt, Fits
<1>3. CASE Written(p, u)
  <2>1. ledger[u] \in Nat
    BY DEF TypedAt
  <2>2. graph'[u].sync # 0
    BY <1>3, <2>1 DEF Written
  <2>3. QED
    BY <2>2 DEF Exact, Clean
<1>4. CASE Gone(p, u) \/ Marked(p, u)
  BY <1>4 DEF Exact, Clean, Gone, Marked
<1>5. QED
  BY <1>1, <1>2, <1>3, <1>4 DEF Effect

LEMMA HarmlessKept ==
    ASSUME NEW u \in Uuids, TypedAt(u), NEW d \in Document, Fits(u, d), Harmless(u, d),
           NEW p, Effect(p, u), index'[u] = index[u],
           Gone(p, u) => BuriedAt(u, docs[p][u]),
           NoneGrouped(u) => ~Grouped(d)
    PROVE  Harmless(u, d)'
<1>1. CASE Kept(u)
  BY <1>1 DEF Harmless, Kept, Exists, Grouped
<1>2. CASE Acked(p, u) \/ Marked(p, u)
  BY <1>2 DEF Harmless, Acked, Marked, Unmoved, Grouped
<1>3. CASE Gone(p, u)
  <2>1. index[u].ver >= graph[u].ver \/ ~Grouped(d)
    BY <1>3 DEF Gone, BuriedAt
  <2>2. graph[u].ver \in Nat /\ index[u].ver \in Nat /\ d.ver \in Nat
    BY <1>3 DEF Gone, TypedAt, Exists, Entity, Document
  <2>3. Grouped(d) => d.ver <= index[u].ver
    BY <1>3, <2>1, <2>2 DEF Gone, Fits
  <2>4. QED
    BY <2>3 DEF Harmless, Grouped
<1>4. CASE Written(p, u)
  BY <1>4 DEF Harmless, Written, Accepts, Grouped
<1>5. QED
  BY <1>1, <1>2, <1>3, <1>4 DEF Effect

(* What the index owed a process that stands still, it owes it still.      *)
LEMMA IndexedKept ==
    ASSUME NEW u \in Uuids, TypedAt(u), NEW d \in Document, Fits(u, d), IndexedAt(u, d),
           NEW p, Effect(p, u), index'[u] = index[u], UNCHANGED <<op, scope>>
    PROVE  IndexedAt(u, d)'
<1>1. CASE Kept(u)
  BY <1>1 DEF IndexedAt, Kept, Exists, UnderRepair
<1>2. CASE Acked(p, u)
  BY <1>2 DEF IndexedAt, Acked, Unmoved, UnderRepair
<1>3. CASE Written(p, u)
  <2>1. ledger[u] \in Nat /\ d.ver \in Nat /\ d.ver <= ledger[u]
    BY DEF TypedAt, Document, Fits
  <2>2. graph'[u].ver # d.ver
    BY <1>3, <2>1 DEF Written
  <2>3. QED
    BY <2>2 DEF IndexedAt
<1>4. CASE Gone(p, u) \/ Marked(p, u)
  BY <1>4 DEF IndexedAt, Gone, Marked
<1>5. QED
  BY <1>1, <1>2, <1>3, <1>4 DEF Effect

LEMMA BuriedKept ==
    ASSUME NEW u \in Uuids, TypedAt(u), NEW d \in Document, Fits(u, d), BuriedAt(u, d),
           NEW p, Effect(p, u), index'[u] = index[u],
           NoneGrouped(u) /\ Exists(u)' /\ graph'[u].del => NoneGrouped(u)'
    PROVE  BuriedAt(u, d)'
<1>1. CASE Kept(u)
  BY <1>1 DEF BuriedAt, Kept, Exists
<1>2. CASE Marked(p, u)
  <2>1. Fits(u, d) /\ Exists(u)
    BY <1>2 DEF Marked, Unmoved
  <2>2. d.ver <= graph[u].ver /\ graph[u].ver < graph'[u].ver
    BY <1>2, <2>1 DEF Fits, Marked
  <2>3. d.ver \in Nat /\ graph[u].ver \in Nat
    BY <2>1 DEF TypedAt, Exists, Document, Entity
  <2>4. graph'[u].ver # d.ver
    BY <2>2, <2>3
  <2>5. QED
    BY <2>4 DEF BuriedAt
<1>3. CASE Acked(p, u) \/ Gone(p, u) \/ Written(p, u)
  BY <1>3 DEF BuriedAt, Acked, Gone, Written
<1>4. QED
  BY <1>1, <1>2, <1>3 DEF Effect

LEMMA NoneGroupedKept ==
    ASSUME NEW p \in Procs, StepOf(p), NEW u \in Uuids, NoneGrouped(u), graph'[u].del
    PROVE  NoneGrouped(u)'
<1>1. \A q \in Procs : ~Grouped(docs'[q][u])
  BY DEF StepOf, OthersAt, Obtained, NoneGrouped
<1>2. \A w \in net' : w.uuid = u => ~Grouped(w.doc)
  BY DEF StepOf, Sends, Requests, NoneGrouped
<1>3. ~Grouped(index'[u])
  BY DEF StepOf, NoneGrouped
<1>4. QED
  BY <1>1, <1>2, <1>3 DEF NoneGrouped, Grouped

LEMMA StepDurable ==
    ASSUME TypeOK, TypeOK', StoresFit, Stages, ready, Authorized, NEW p \in Procs, StepOf(p),
           NEW q \in Procs
    PROVE  Durable(q)'
<1>1. present /\ UNCHANGED <<op, scope>> /\ index' = index
  BY DEF Stages, StepOf, opVars
<1>2. CASE q = p
  <2> SUFFICES ASSUME pc'[p] \in {"clear", "finalize"}, NEW u \in batch'[p]
               PROVE  IndexedAt(u, docs[p][u])' /\ BuriedAt(u, docs[p][u])'
    BY <1>2 DEF Durable
  <2>1. index'[u].ver >= docs'[p][u].ver
    BY <1>1 DEF StepOf, Caught
  <2>2. QED
    BY <2>1 DEF IndexedAt, BuriedAt
<1>3. CASE q # p
  <2>1. pc'[q] = pc[q] /\ docs'[q] = docs[q] /\ batch'[q] = batch[q]
    BY <1>3 DEF StepOf, OthersAt
  <2>2. ASSUME NEW u \in batch[q]
        PROVE  /\ pc[q] = "clear" => IndexedAt(u, docs[q][u])'
               /\ pc[q] = "finalize" => BuriedAt(u, docs[q][u])'
    <3>1. u \in Uuids /\ docs[q][u] \in Document
      BY DEF TypeOK
    <3>2. PICK d \in Document : d = docs[q][u]
      BY <3>1
    <3>3. d = docs'[q][u]
      BY <2>1, <3>2
    <3>4. Effect(p, u) /\ index'[u] = index[u] /\ TypedAt(u)
      BY <3>1, TypedEverywhere DEF StepOf
    <3>5. CASE pc[q] = "clear"
      <4>1. IndexedAt(u, d) /\ Fits(u, d)
        BY <3>1, <3>2, <3>5 DEF Authorized, Durable, StoresFit, HeldFits
      <4>2. IndexedAt(u, d)'
        BY <1>1, <3>1, <3>4, <4>1, IndexedKept
      <4>3. QED
        BY <3>3, <3>5, <4>2 DEF IndexedAt
    <3>6. CASE pc[q] = "finalize"
      <4>1. BuriedAt(u, d) /\ Fits(u, d)
        BY <3>1, <3>2, <3>6 DEF Authorized, Durable, StoresFit, HeldFits
      <4>2. NoneGrouped(u) /\ graph'[u].del => NoneGrouped(u)'
        BY <3>1, NoneGroupedKept
      <4>3. BuriedAt(u, d)'
        BY <1>1, <3>1, <3>4, <4>1, <4>2, BuriedKept
      <4>4. QED
        BY <3>3, <3>6, <4>3 DEF BuriedAt
    <3>7. QED
      BY <3>5, <3>6
  <2>3. QED
    BY <2>1, <2>2 DEF Durable
<1>4. QED
  BY <1>2, <1>3

LEMMA StepHarmless ==
    ASSUME TypeOK, StoresFit, Authorized, NEW p \in Procs, StepOf(p)
    PROVE  /\ \A w \in net' : Harmless(w.uuid, w.doc)'
           /\ \A q \in Procs : \A u \in Uuids : Harmless(u, docs[q][u])'
<1>1. ASSUME NEW u \in Uuids, NEW d \in Document, Fits(u, d), Harmless(u, d),
             NoneGrouped(u) => ~Grouped(d)
      PROVE  Harmless(u, d)'
  <2>1. Gone(p, u) => BuriedAt(u, docs[p][u])
    BY DEF Gone, Authorized, Durable
  <2>2. TypedAt(u) /\ Effect(p, u) /\ index'[u] = index[u]
    BY TypedEverywhere DEF StepOf
  <2>3. QED
    BY <1>1, <2>1, <2>2, HarmlessKept
<1>2. ASSUME NEW q \in Procs, NEW u \in Uuids
      PROVE  /\ docs[q][u] \in Document
             /\ pc[q] # "prepare" => Harmless(u, docs[q][u])' \/ docs'[q][u] # docs[q][u]
             /\ \A d \in Document : d = docs[q][u] => Harmless(u, d)'
  <2>1. docs[q][u] \in Document
    BY DEF TypeOK
  <2>2. ASSUME NEW d \in Document, d = docs[q][u]
        PROVE  Harmless(u, d)'
    <3>1. Harmless(u, d) /\ (NoneGrouped(u) => ~Grouped(d))
      BY <2>2 DEF Authorized, NoneGrouped
    <3>2. CASE pc[q] = "prepare"
      BY <2>2, <3>2 DEF StoresFit, HeldFits, Harmless, Grouped
    <3>3. CASE pc[q] # "prepare"
      <4>1. Fits(u, d)
        BY <2>2, <3>3 DEF StoresFit, HeldFits
      <4>2. QED
        BY <1>1, <3>1, <4>1
    <3>4. QED
      BY <3>2, <3>3
  <2>3. docs'[q][u] = docs[q][u] => Harmless(u, docs[q][u])'
    BY <2>1, <2>2 DEF Harmless, Grouped
  <2>4. QED
    BY <2>1, <2>2, <2>3
<1>3. ASSUME NEW q \in Procs, NEW u \in Uuids
      PROVE  Harmless(u, docs[q][u])'
  <2>1. CASE docs'[q][u] = docs[q][u]
    <3>1. PICK d \in Document : d = docs[q][u]
      BY <1>2
    <3>2. Harmless(u, d)' /\ d = docs'[q][u]
      BY <1>2, <2>1, <3>1
    <3>3. QED
      BY <3>2 DEF Harmless, Grouped
  <2>2. CASE docs'[q][u] # docs[q][u]
    <3>1. q = p /\ Obtained(p, u)
      BY <2>2 DEF StepOf, OthersAt
    <3>2. QED
      BY <2>2, <3>1 DEF Obtained, Harmless, Content, Grouped
  <2>3. QED
    BY <2>1, <2>2
<1>4. ASSUME NEW w \in net'
      PROVE  Harmless(w.uuid, w.doc)'
  <2>1. CASE w \in net
    <3>1. w.uuid \in Uuids /\ w.doc \in Document
      BY <2>1 DEF TypeOK, StoreTypeOK, Write
    <3>2. /\ Fits(w.uuid, w.doc) /\ Harmless(w.uuid, w.doc)
          /\ NoneGrouped(w.uuid) => ~Grouped(w.doc)
      BY <2>1 DEF StoresFit, Authorized, NoneGrouped
    <3>3. QED
      BY <1>1, <3>1, <3>2
  <2>2. CASE w \notin net
    <3>1. PICK u \in Uuids : w.uuid = u /\ w.doc = docs[p][u]
      BY <2>2 DEF StepOf, Sends, Requests
    <3>2. PICK d \in Document : d = docs[p][u]
      BY <1>2
    <3>3. QED
      BY <1>2, <3>1, <3>2
  <2>3. QED
    BY <2>1, <2>2
<1>5. QED
  BY <1>3, <1>4

LEMMA StepAuthorized ==
    ASSUME TypeOK, TypeOK', StoresFit, Stages, ready, Authorized, NEW p \in Procs, StepOf(p),
           op = "purge" => Calm(p), rest \in SUBSET Uuids
    PROVE  Authorized'
<1>1. UNCHANGED <<op, scope, rest>> /\ index' = index
  BY DEF StepOf, opVars
<1>2. \A u \in Uuids : Owned(u)' /\ Exact(u)'
  <2> SUFFICES ASSUME NEW u \in Uuids PROVE Owned(u)' /\ Exact(u)'
    OBVIOUS
  <2>1. /\ TypedAt(u) /\ TypedAt(u)' /\ EntityAt(u) /\ Fits(u, index[u])
        /\ Owned(u) /\ Exact(u) /\ Effect(p, u)
    BY TypedEverywhere DEF TypeOK, StoreTypeOK, TypedAt, StoresFit, Authorized, StepOf
  <2>2. /\ Gone(p, u) => BuriedAt(u, docs[p][u])
        /\ Acked(p, u) => IndexedAt(u, docs[p][u])
    BY DEF Gone, Acked, Authorized, Durable
  <2>3. QED
    BY <1>1, <2>1, <2>2, OwnedKept, ExactKept
<1>3. op = "purge" => \A u \in rest : Exists(u)' => graph'[u].group = scope
  BY DEF Authorized, Calm, Kept, Acked, Gone, Unmoved, Exists
<1>4. \A q \in Procs : Durable(q)'
  BY StepDurable
<1>5. QED
  BY <1>1, <1>2, <1>3, <1>4, StepHarmless DEF Authorized

(* So a step of a process preserves the whole invariant.                   *)
LEMMA StepInv ==
    ASSUME RebuildInv, Typed', NEW p \in Procs, StepOf(p), op # "idle" => p \in Reconcilers
    PROVE  RebuildInv'
<1>1. TypeOK /\ TypeOK' /\ RebuildTypeOK /\ StoresFit /\ Stages /\ Wiped /\ Covered
  BY DEF RebuildInv, RebuildTypeOK, Typed
<1>2. UNCHANGED opVars /\ index' = index
  BY DEF StepOf
<1>3. op # "idle" => Calm(p)
  BY <1>1, CalmSteps
<1>4. RebuildTypeOK' /\ RequestsValid' /\ Stages'
  BY <1>1, <1>2 DEF RebuildTypeOK, opVars, Typed, Stages
<1>5. StoresFit'
  BY <1>1, StepFits
<1>6. op' # "idle" => Quiesced'
  BY <1>1, <1>2, StepQuiesced DEF RebuildInv, opVars
<1>7. Wiped' /\ Covered'
  <2>1. CASE op = "idle"
    BY <1>1, <1>2, <2>1 DEF Wiped, Covered, Emptied, Filling, opVars
  <2>2. CASE op # "idle"
    BY <1>1, <1>2, <1>3, <2>2, StepWiped, StepCovered
  <2>3. QED
    BY <2>1, <2>2
<1>8. ready' => Authorized'
  <2>1. ready' => ready /\ Authorized
    BY <1>2 DEF opVars, RebuildInv
  <2>2. rest \in SUBSET Uuids
    BY <1>1 DEF RebuildTypeOK
  <2>3. QED
    BY <1>1, <1>3, <2>1, <2>2, StepAuthorized
<1>9. QED
  BY <1>4, <1>5, <1>6, <1>7, <1>8 DEF RebuildInv

-----------------------------------------------------------------------------
(* Every step of a client or of a reconciler is such a step.  First those  *)
(* that change no store.                                                   *)

LEMMA NoDocumentFits == TypeOK /\ StoresFit => \A u \in Uuids : Fits(u, NoDocument)
<1> SUFFICES ASSUME TypeOK, StoresFit, NEW u \in Uuids PROVE Fits(u, NoDocument)
  OBVIOUS
<1>1. TypedAt(u) /\ EntityAt(u)
  BY TypedEverywhere DEF StoresFit
<1>2. QED
  BY <1>1 DEF TypedAt, EntityAt, Fits, NoDocument, Live, Grouped, Entity, Exists

LEMMA LocalStepOf ==
    ASSUME TypeOK, StoresFit, NEW p \in Procs, OthersAt(p),
           UNCHANGED <<ledger, graph, index>>, UNCHANGED opVars, Sends(p), Caught(p),
           pc'[p] # "prepare", Resting(p)',
           \A u \in Uuids : Fits(u, docs'[p][u]) /\ Obtained(p, u)
    PROVE  StepOf(p)
<1>1. \A u \in Uuids : Effect(p, u)
  BY DEF TypeOK, StoreTypeOK, Effect, Kept
<1>2. HeldFits(p)'
  BY DEF HeldFits, Fits, Exists, Content, Live, Grouped
<1>3. ReservesLater(p)
  BY DEF ReservesLater
<1>4. QED
  BY <1>1, <1>2, <1>3 DEF StepOf

LEMMA LocalsFit ==
    ASSUME TypeOK, StoresFit, NEW p \in Procs, pc[p] # "prepare" \/ docs'[p] = NoDocuments,
           docs'[p] = docs[p] \/ docs'[p] = NoDocuments
    PROVE  \A u \in Uuids : Fits(u, docs'[p][u]) /\ Obtained(p, u)
<1> SUFFICES ASSUME NEW u \in Uuids PROVE Fits(u, docs'[p][u]) /\ Obtained(p, u)
  OBVIOUS
<1>1. CASE docs'[p] = docs[p] /\ pc[p] # "prepare"
  <2>1. docs'[p][u] = docs[p][u] /\ Fits(u, docs[p][u])
    BY <1>1 DEF StoresFit, HeldFits
  <2>2. QED
    BY <2>1 DEF Obtained
<1>2. CASE docs'[p] = NoDocuments
  <2>1. docs'[p][u] = NoDocument
    BY <1>2 DEF NoDocuments
  <2>2. QED
    BY <2>1, NoDocumentFits DEF Obtained, NoDocument, Grouped
<1>3. QED
  BY <1>1, <1>2

(* The process goes on with the documents it has, or drops them.           *)
LEMMA MoveStepOf ==
    ASSUME TypeOK, StoresFit, NEW p \in Procs, OthersAt(p),
           UNCHANGED <<ledger, graph, index>>, UNCHANGED opVars, Sends(p),
           pc'[p] \notin {"prepare", "clear", "finalize"},
           \/ docs'[p] = NoDocuments
           \/ /\ docs'[p] = docs[p] /\ pc[p] # "prepare"
              /\ pc'[p] \notin {"idle", "failed", "sleep"}
    PROVE  StepOf(p)
<1>1. Caught(p) /\ Resting(p)'
  BY DEF Caught, Resting
<1>2. QED
  BY <1>1, LocalsFit, LocalStepOf

LEMMA StartStepOf ==
    ASSUME Typed, StoresFit, NEW c \in Clients, StartSave(c) \/ StartDelete(c), UNCHANGED opVars
    PROVE  StepOf(c)
<1>1. c \in Procs /\ TypeOK
  BY DEF Procs, Typed
<1>2. /\ UNCHANGED <<ledger, graph, index, net, docs>>
      /\ Goto(c, "write") \/ Goto(c, "reserve")
      /\ UNCHANGED batch \/ \E C : batch' = [batch EXCEPT ![c] = C]
      /\ pc[c] # "prepare"
  BY DEF StartSave, StartDelete, storeVars
<1>3. pc'[c] \in {"write", "reserve"} /\ \A q \in Procs \ {c} : pc'[q] = pc[q]
  BY <1>1, <1>2, GotoFrame
<1>4. OthersAt(c)
  BY <1>1, <1>2, <1>3 DEF OthersAt, TypeOK
<1>5. Sends(c)
  BY <1>2 DEF Sends
<1>6. QED
  BY <1>1, <1>2, <1>3, <1>4, <1>5, MoveStepOf

LEMMA ClientFailsStepOf ==
    ASSUME Typed, StoresFit, NEW c \in Clients, ClientFails(c), UNCHANGED opVars
    PROVE  StepOf(c)
<1>1. c \in Procs /\ TypeOK
  BY DEF Procs, Typed
<1>2. UNCHANGED <<ledger, graph, index, net>> /\ Ends(c, "failed")
  BY DEF ClientFails, storeVars
<1>3. Sends(c)
  BY <1>2 DEF Sends
<1>4. QED
  BY <1>1, <1>2, <1>3, EndsFrame, MoveStepOf

LEMMA SyncChunkStepOf ==
    ASSUME Typed, StoresFit, NEW c \in Clients, SyncChunk(c), UNCHANGED opVars
    PROVE  StepOf(c)
<1>1. c \in Procs /\ TypeOK
  BY DEF Procs, Typed
<1>2. pc[c] = "sync" /\ UNCHANGED <<ledger, graph, index>>
  BY DEF SyncChunk
<1>3. PICK C \in Slices(left[c]) :
        \/ /\ net' = net \cup Requests(C, docs[c])
           /\ batch' = [batch EXCEPT ![c] = C]
           /\ Goto(c, "syncing")
           /\ UNCHANGED docs
        \/ Ends(c, "failed") /\ UNCHANGED net
  BY Zenon DEF SyncChunk
<1>4. C \in SUBSET Uuids
  BY <1>1 DEF Slices, Chunks, TypeOK
<1>5. Sends(c)
  BY <1>2, <1>3, <1>4 DEF Sends
<1>6. CASE Ends(c, "failed")
  BY <1>1, <1>2, <1>5, <1>6, EndsFrame, MoveStepOf
<1>7. CASE batch' = [batch EXCEPT ![c] = C] /\ Goto(c, "syncing") /\ UNCHANGED docs
  <2>1. OthersAt(c) /\ pc'[c] = "syncing"
    BY <1>1, <1>7, GotoFrame DEF OthersAt, TypeOK
  <2>2. QED
    BY <1>1, <1>2, <1>5, <1>7, <2>1, MoveStepOf
<1>8. QED
  BY <1>3, <1>6, <1>7

LEMMA SendStepOf ==
    ASSUME Typed, StoresFit, NEW p \in Procs, pc[p] # "prepare",
           Goto(p, "syncing") \/ Goto(p, "burying"),
           net' = net \cup Requests(batch[p], docs[p]),
           UNCHANGED <<ledger, graph, index, docs, batch>>, UNCHANGED opVars
    PROVE  StepOf(p)
<1>1. batch[p] \in SUBSET Uuids /\ TypeOK
  BY DEF Typed, TypeOK
<1>2. Sends(p)
  BY <1>1 DEF Sends
<1>3. OthersAt(p) /\ pc'[p] \in {"syncing", "burying"}
  BY GotoFrame DEF OthersAt
<1>4. QED
  BY <1>1, <1>2, <1>3, MoveStepOf

LEMMA BulkSucceedsStepOf ==
    ASSUME Typed, StoresFit, NEW p \in Procs, BulkSucceeds(p), UNCHANGED opVars
    PROVE  StepOf(p)
<1>1. /\ UNCHANGED <<ledger, graph, index, net, docs, batch>>
      /\ pc[p] \in {"syncing", "burying"}
      /\ Goto(p, IF pc[p] = "syncing" THEN "clear" ELSE "finalize")
      /\ \A u \in batch[p] : index[u].ver >= docs[p][u].ver
  BY DEF BulkSucceeds, storeVars, Acknowledged
<1>2. TypeOK /\ OthersAt(p) /\ pc'[p] \in {"clear", "finalize"}
  BY <1>1, GotoFrame DEF OthersAt, Typed
<1>3. Caught(p) /\ Sends(p) /\ Resting(p)'
  BY <1>1, <1>2 DEF Caught, Sends, Resting
<1>4. QED
  BY <1>1, <1>2, <1>3, LocalsFit, LocalStepOf

(* A deletion that finds no index: nothing was caught, and reads are off.  *)
LEMMA BuryNowhereStepOf ==
    ASSUME Typed, StoresFit, NEW r \in Procs, BuryNowhere(r), UNCHANGED opVars
    PROVE  StepOf(r)
<1>1. /\ UNCHANGED <<ledger, graph, index, net, docs, batch>>
      /\ pc[r] = "bury" /\ ~present /\ Goto(r, "finalize")
  BY DEF BuryNowhere, storeVars
<1>2. TypeOK /\ OthersAt(r) /\ pc'[r] = "finalize"
  BY <1>1, GotoFrame DEF OthersAt, Typed
<1>3. Caught(r) /\ Sends(r) /\ Resting(r)'
  BY <1>1, <1>2 DEF Caught, Sends, Resting
<1>4. QED
  BY <1>1, <1>2, <1>3, LocalsFit, LocalStepOf

LEMMA AsleepStepOf ==
    ASSUME Typed, StoresFit, NEW r \in Reconcilers, Asleep(r),
           UNCHANGED <<ledger, graph, index, net>>, UNCHANGED opVars
    PROVE  StepOf(r)
<1>1. r \in Procs /\ TypeOK /\ Sends(r)
  BY DEF Procs, Typed, Sends
<1>2. QED
  BY <1>1, AsleepFrame, MoveStepOf

LEMMA SplitStepOf ==
    ASSUME Typed, StoresFit, NEW r \in Reconcilers, pc[r] # "prepare",
           SplitBatch(r, "sync", "scan_saves") \/ SplitBatch(r, "bury", "scan_deletes"),
           UNCHANGED <<ledger, graph, index, net>>, UNCHANGED opVars
    PROVE  StepOf(r)
<1>1. r \in Procs /\ TypeOK /\ Sends(r)
  BY DEF Procs, Typed, Sends
<1>2. /\ pc'[r] \in {"sync", "scan_saves", "bury", "scan_deletes"} /\ OthersAt(r)
      /\ docs'[r] = docs[r] \/ docs'[r] = NoDocuments
  BY SplitBatchFrame
<1>3. QED
  BY <1>1, <1>2, MoveStepOf

LEMMA SweepMovesStepOf ==
    ASSUME Typed, StoresFit, NEW r \in Reconcilers,
           StartSweep(r) \/ DeletesSwept(r) \/ SavesSwept(r), UNCHANGED opVars
    PROVE  StepOf(r)
<1>1. UNCHANGED <<ledger, graph, index, net>> /\ pc[r] # "prepare"
  BY DEF StartSweep, DeletesSwept, SavesSwept, storeVars
<1>2. \/ Asleep(r)
      \/ /\ UNCHANGED <<docs, batch>>
         /\ Goto(r, "scan_deletes") \/ Goto(r, "scan_saves")
  BY DEF StartSweep, DeletesSwept, SavesSwept
<1>3. CASE Asleep(r)
  BY <1>1, <1>3, AsleepStepOf
<1>4. CASE /\ UNCHANGED <<docs, batch>>
           /\ Goto(r, "scan_deletes") \/ Goto(r, "scan_saves")
  <2>1. r \in Procs /\ TypeOK /\ Sends(r)
    BY <1>1 DEF Procs, Typed, Sends
  <2>2. OthersAt(r) /\ pc'[r] \in {"scan_deletes", "scan_saves"}
    BY <1>4, <2>1, GotoFrame DEF OthersAt
  <2>3. QED
    BY <1>1, <1>4, <2>1, <2>2, MoveStepOf
<1>5. QED
  BY <1>2, <1>3, <1>4

(* What a reconciler reads from the graph.                                 *)
LEMMA ReadPageStepOf ==
    ASSUME Typed, StoresFit, NEW r \in Reconcilers,
           NEW S \in SUBSET Uuids, NEW records, NEW where \in {"bury", "sync"},
           \A u \in S : /\ Fits(u, records[u])
                        /\ \/ ~Grouped(records[u])
                           \/ Exists(u) /\ ~graph[u].del /\ records[u] = Content(u),
           ReadPage(r, S, records, where), UNCHANGED opVars
    PROVE  StepOf(r)
<1>1. r \in Procs /\ TypeOK
  BY DEF Procs, Typed
<1>2. /\ UNCHANGED <<ledger, graph, index, net>> /\ Goto(r, where)
      /\ docs' = [docs EXCEPT ![r] =
             [u \in Uuids |-> IF u \in S THEN records[u] ELSE NoDocument]]
      /\ batch' = [batch EXCEPT ![r] = S]
  BY DEF ReadPage, storeVars
<1>3. OthersAt(r) /\ pc'[r] = where
  BY <1>1, <1>2, GotoFrame DEF OthersAt, TypeOK
<1>4. Sends(r) /\ Caught(r) /\ Resting(r)'
  BY <1>2, <1>3 DEF Sends, Caught, Resting
<1>5. ASSUME NEW u \in Uuids
      PROVE  Fits(u, docs'[r][u]) /\ Obtained(r, u)
  <2>1. docs'[r][u] = IF u \in S THEN records[u] ELSE NoDocument
    BY <1>1, <1>2 DEF TypeOK
  <2>2. CASE u \in S
    BY <1>2, <2>1, <2>2 DEF Obtained, Exists, Content
  <2>3. CASE u \notin S
    BY <1>1, <2>1, <2>3, NoDocumentFits DEF Obtained, NoDocument, Grouped
  <2>4. QED
    BY <2>2, <2>3
<1>6. QED
  BY <1>1, <1>2, <1>3, <1>4, <1>5, LocalStepOf

LEMMA ContentFits ==
    ASSUME NEW u \in Uuids, TypedAt(u), EntityAt(u), Exists(u), ~graph[u].del
    PROVE  Fits(u, Content(u)) /\ Grouped(Content(u)) /\ Content(u) \in Document
<1>1. graph[u] \in Entity /\ Content(u).ver = graph[u].ver /\ Content(u).group = graph[u].group
  BY DEF TypedAt, Exists, Content
<1>2. Grouped(Content(u))
  BY <1>1, StoreAssumption DEF Entity, Grouped
<1>3. QED
  BY <1>1, <1>2 DEF EntityAt, Fits, Content, Entity, Document

ContentsFit ==
    \A u \in Uuids :
        TypedAt(u) /\ EntityAt(u) /\ Exists(u) /\ ~graph[u].del => Fits(u, Content(u))

LEMMA ContentsFitNext == ContentsFit'
<1>1. ContentsFit
  BY ContentFits DEF ContentsFit
<1>2. QED
  BY <1>1, PTL

LEMMA ScanStepOf ==
    ASSUME Typed, StoresFit, NEW r \in Reconcilers, ScanDeletes(r) \/ ScanSaves(r),
           UNCHANGED opVars
    PROVE  StepOf(r)
<1>1. \A u \in Uuids : TypedAt(u) /\ EntityAt(u)
  BY TypedEverywhere DEF Typed, StoresFit
<1>2. CASE ScanDeletes(r)
  <2> DEFINE S == Page(PendingDeletes \cap ahead[r], BatchSize)
             records == [u \in S |-> Tombstone(graph[u].ver)]
  <2>1. S \in SUBSET (PendingDeletes \cap ahead[r])
    BY PageSubset
  <2>2. S \in SUBSET Uuids
    BY <2>1 DEF PendingDeletes
  <2>3. ASSUME NEW u \in S
        PROVE  Fits(u, Tombstone(graph[u].ver)) /\ ~Grouped(Tombstone(graph[u].ver))
    <3>1. u \in Uuids /\ Exists(u) /\ graph[u].del
      BY <2>1 DEF PendingDeletes
    <3>2. graph[u].ver \in Nat
      BY <1>1, <3>1 DEF TypedAt, Exists, Entity
    <3>3. QED
      BY <1>1, <3>1, <3>2 DEF EntityAt, Fits, Tombstone, Live, Grouped, TypedAt
  <2>4. ReadPage(r, S, records, "bury")
    BY <1>2, Zenon DEF ScanDeletes
  <2>5. \A u \in S : records[u] = Tombstone(graph[u].ver)
    OBVIOUS
  <2> HIDE DEF S, records
  <2>6. QED
    BY <2>2, <2>3, <2>4, <2>5, ReadPageStepOf
<1>3. CASE ScanSaves(r)
  <2> DEFINE S == Page(PendingSaves \cap ahead[r], BatchSize)
             records == [u \in S |-> [ver |-> graph[u].ver, group |-> graph[u].group,
                                      val |-> graph[u].val]]
  <2>1. S \in SUBSET (PendingSaves \cap ahead[r])
    BY PageSubset
  <2>2. S \in SUBSET Uuids
    BY <2>1 DEF PendingSaves
  <2>3. \A u \in S : records[u] = Content(u)
    BY DEF Content
  <2>4. ASSUME NEW u \in S
        PROVE  Fits(u, records[u]) /\ Exists(u) /\ ~graph[u].del /\ records[u] = Content(u)
    <3>1. u \in Uuids /\ Exists(u) /\ ~graph[u].del
      BY <2>1 DEF PendingSaves
    <3>2. Fits(u, Content(u))
      BY <1>1, <3>1, ContentFits
    <3>3. QED
      BY <2>3, <3>1, <3>2
  <2>5. ReadPage(r, S, records, "sync")
    BY <1>3, Zenon DEF ScanSaves
  <2> HIDE DEF S, records
  <2>6. QED
    BY <2>2, <2>4, <2>5, ReadPageStepOf
<1>4. QED
  BY <1>2, <1>3

-----------------------------------------------------------------------------
(* Steps that change a store.                                              *)

LEMMA ClearedEffect ==
    ASSUME TypeOK, TypeOK', NEW p \in Procs, pc[p] = "clear",
           graph' = Cleared(batch[p], docs[p]), ledger' = ledger
    PROVE  \A u \in Uuids : Effect(p, u)
<1> SUFFICES ASSUME NEW u \in Uuids PROVE Effect(p, u)
  OBVIOUS
<1>1. TypedAt(u) /\ TypedAt(u)' /\ ledger'[u] >= ledger[u]
  BY TypedEverywhere DEF TypeOK, StoreTypeOK, TypedAt
<1>2. CASE /\ u \in batch[p] /\ Exists(u) /\ graph[u].ver = docs[p][u].ver
           /\ graph[u].sync = docs[p][u].ver /\ ~graph[u].del
  <2>1. graph'[u] = [graph[u] EXCEPT !.sync = 0] /\ graph[u] \in Entity
    BY <1>1, <1>2 DEF Cleared, TypedAt, Exists
  <2>2. /\ graph'[u] \in Entity
        /\ graph'[u].sync = 0 /\ ~graph'[u].del /\ graph'[u].ver = graph[u].ver
        /\ graph'[u].group = graph[u].group /\ graph'[u].val = graph[u].val
    BY <1>2, <2>1 DEF Entity
  <2>3. Acked(p, u)
    BY <1>2, <2>2, StoreAssumption DEF Acked, Unmoved, Exists
  <2>4. QED
    BY <1>1, <2>3 DEF Effect
<1>3. CASE ~(/\ u \in batch[p] /\ Exists(u) /\ graph[u].ver = docs[p][u].ver
             /\ graph[u].sync = docs[p][u].ver /\ ~graph[u].del)
  BY <1>1, <1>3 DEF Cleared, Kept, Effect
<1>4. QED
  BY <1>2, <1>3

LEMMA FinalizedEffect ==
    ASSUME TypeOK, TypeOK', NEW p \in Procs, pc[p] = "finalize",
           graph' = Finalized(batch[p], docs[p]), ledger' = ledger
    PROVE  \A u \in Uuids : Effect(p, u)
<1> SUFFICES ASSUME NEW u \in Uuids PROVE Effect(p, u)
  OBVIOUS
<1>1. ledger'[u] >= ledger[u]
  BY DEF TypeOK, StoreTypeOK
<1>2. Kept(u) \/ Gone(p, u)
  BY DEF Finalized, Kept, Gone, Exists
<1>3. QED
  BY <1>1, <1>2 DEF Effect

LEMMA PreparedEffect ==
    ASSUME TypeOK, TypeOK', NEW p \in Procs, pc[p] = "prepare",
           graph' = Prepared(batch[p], docs[p]), ledger' = ledger
    PROVE  \A u \in Uuids :
              /\ Effect(p, u)
              /\ Marked(p, u) \/ ~(u \in batch[p] /\ Exists(u) /\ graph[u].ver < docs[p][u].ver)
<1> SUFFICES ASSUME NEW u \in Uuids
             PROVE  /\ Effect(p, u)
                    /\ \/ Marked(p, u)
                       \/ ~(u \in batch[p] /\ Exists(u) /\ graph[u].ver < docs[p][u].ver)
  OBVIOUS
<1>1. TypedAt(u) /\ docs[p][u].ver \in Nat /\ ledger'[u] >= ledger[u]
  BY TypedEverywhere DEF TypeOK, StoreTypeOK, Document
<1>2. CASE u \in batch[p] /\ Exists(u) /\ graph[u].ver < docs[p][u].ver
  <2>1. /\ graph'[u] = [graph[u] EXCEPT !.del = TRUE, !.ver = docs[p][u].ver]
        /\ graph[u] \in Entity
    BY <1>1, <1>2 DEF Prepared, TypedAt, Exists
  <2>2. /\ graph'[u] \in Entity
        /\ graph'[u].del /\ graph'[u].ver = docs[p][u].ver
        /\ graph'[u].group = graph[u].group /\ graph'[u].val = graph[u].val
    BY <1>1, <2>1 DEF Entity
  <2>3. Marked(p, u)
    BY <1>2, <2>2, StoreAssumption DEF Marked, Unmoved, Exists
  <2>4. QED
    BY <1>1, <2>3 DEF Effect
<1>3. CASE ~(u \in batch[p] /\ Exists(u) /\ graph[u].ver < docs[p][u].ver)
  BY <1>1, <1>3 DEF Prepared, Kept, Effect
<1>4. QED
  BY <1>2, <1>3

LEMMA GraphStepOf ==
    ASSUME NEW p \in Procs, OthersAt(p), index' = index, UNCHANGED opVars, net' = net,
           \A u \in Uuids : Effect(p, u) /\ Obtained(p, u) /\ Fits(u, docs[p][u])',
           pc'[p] \notin {"prepare", "clear", "finalize"}, Resting(p)'
    PROVE  StepOf(p)
<1>1. Sends(p) /\ Caught(p) /\ ReservesLater(p) /\ HeldFits(p)'
  BY DEF Sends, Caught, ReservesLater, HeldFits
<1>2. QED
  BY <1>1 DEF StepOf

(* An acknowledgement or a removal, and the process drops its documents or *)
(* goes on with them.                                                      *)
LEMMA QueryStepOf ==
    ASSUME TypeOK, TypeOK', StoresFit, NEW p \in Procs, OthersAt(p), UNCHANGED <<index, net>>,
           UNCHANGED opVars, pc[p] # "prepare", \A u \in Uuids : Effect(p, u),
           pc'[p] \notin {"prepare", "clear", "finalize"},
           docs'[p] = docs[p] \/ docs'[p] = NoDocuments,
           pc'[p] \in {"idle", "failed", "sleep"} => docs'[p] = NoDocuments
    PROVE  StepOf(p)
<1>1. \A u \in Uuids : Fits(u, docs'[p][u]) /\ Obtained(p, u)
  BY LocalsFit
<1>2. ASSUME NEW u \in Uuids PROVE Fits(u, docs[p][u])'
  <2>1. PICK d \in Document : d = docs'[p][u]
    BY DEF TypeOK
  <2>2. Fits(u, d)'
    BY <1>1, <2>1, EffectFits DEF KeepsFits
  <2>3. QED
    BY <2>1, <2>2 DEF Fits, Live, Grouped
<1>3. Resting(p)'
  BY DEF Resting
<1>4. QED
  BY <1>1, <1>2, <1>3, GraphStepOf

LEMMA ClearSavedStepOf ==
    ASSUME Typed, Typed', StoresFit, NEW c \in Clients, ClearSaved(c), UNCHANGED opVars
    PROVE  StepOf(c)
<1>1. c \in Procs /\ TypeOK /\ TypeOK'
  BY DEF Procs, Typed
<1>2. /\ pc[c] = "clear" /\ graph' = Cleared(batch[c], docs[c])
      /\ UNCHANGED <<ledger, index, net>>
      /\ \/ Goto(c, "sync") /\ UNCHANGED <<docs, batch>>
         \/ Ends(c, "idle")
  BY DEF ClearSaved
<1>3. \A u \in Uuids : Effect(c, u)
  BY <1>1, <1>2, ClearedEffect
<1>4. CASE Goto(c, "sync") /\ UNCHANGED <<docs, batch>>
  <2>1. OthersAt(c) /\ pc'[c] = "sync"
    BY <1>1, <1>4, GotoFrame DEF OthersAt
  <2>2. QED
    BY <1>1, <1>2, <1>3, <1>4, <2>1, QueryStepOf
<1>5. CASE Ends(c, "idle")
  BY <1>1, <1>2, <1>3, <1>5, EndsFrame, QueryStepOf
<1>6. QED
  BY <1>2, <1>4, <1>5

LEMMA FinalizeDeletionStepOf ==
    ASSUME Typed, Typed', StoresFit, NEW c \in Clients, FinalizeDeletion(c), UNCHANGED opVars
    PROVE  StepOf(c)
<1>1. c \in Procs /\ TypeOK /\ TypeOK'
  BY DEF Procs, Typed
<1>2. /\ pc[c] = "finalize" /\ graph' = Finalized(batch[c], docs[c])
      /\ UNCHANGED <<ledger, index, net>> /\ Ends(c, "idle")
  BY DEF FinalizeDeletion
<1>3. \A u \in Uuids : Effect(c, u)
  BY <1>1, <1>2, FinalizedEffect
<1>4. QED
  BY <1>1, <1>2, <1>3, EndsFrame, QueryStepOf

LEMMA SweepQueryStepOf ==
    ASSUME Typed, Typed', StoresFit, NEW r \in Reconcilers, SweepClear(r) \/ SweepFinalize(r),
           UNCHANGED opVars
    PROVE  StepOf(r)
<1>1. r \in Procs /\ TypeOK /\ TypeOK'
  BY DEF Procs, Typed
<1>2. /\ UNCHANGED <<ledger, index, net>> /\ pc[r] # "prepare"
      /\ NextBatch(r, "sync", "scan_saves") \/ NextBatch(r, "bury", "scan_deletes")
      /\ \/ pc[r] = "clear" /\ graph' = Cleared(batch[r], docs[r])
         \/ pc[r] = "finalize" /\ graph' = Finalized(batch[r], docs[r])
  BY DEF SweepClear, SweepFinalize
<1>3. \A u \in Uuids : Effect(r, u)
  BY <1>1, <1>2, ClearedEffect, FinalizedEffect
<1>4. /\ pc'[r] \in {"sync", "scan_saves", "bury", "scan_deletes"} /\ OthersAt(r)
      /\ docs'[r] = docs[r] \/ docs'[r] = NoDocuments
  BY <1>2, NextBatchFrame
<1>5. QED
  BY <1>1, <1>2, <1>3, <1>4, QueryStepOf

(* A deletion under way fits the entities from its prepare query on.       *)
LEMMA PrepareDeletionStepOf ==
    ASSUME Typed, Typed', StoresFit, NEW c \in Clients, PrepareDeletion(c), UNCHANGED opVars
    PROVE  StepOf(c)
<1>1. c \in Procs /\ TypeOK /\ TypeOK'
  BY DEF Procs, Typed
<1>2. /\ pc[c] = "prepare" /\ Goto(c, "bury")
      /\ graph' = Prepared(batch[c], docs[c])
      /\ UNCHANGED <<ledger, index, net, docs, batch>>
  BY DEF PrepareDeletion
<1>3. OthersAt(c) /\ pc'[c] = "bury"
  BY <1>1, <1>2, GotoFrame DEF OthersAt
<1>4. \A u \in Uuids :
          /\ Effect(c, u)
          /\ Marked(c, u) \/ ~(u \in batch[c] /\ Exists(u) /\ graph[u].ver < docs[c][u].ver)
  BY <1>1, <1>2, PreparedEffect
<1>5. ASSUME NEW u \in Uuids
      PROVE  Obtained(c, u) /\ Fits(u, docs[c][u])'
  <2>1. /\ ~Grouped(docs[c][u]) /\ ~Live(docs[c][u])
        /\ docs[c][u].ver <= ledger[u]
        /\ docs[c][u].ver # 0 => u \in batch[c]
        /\ Exists(u) => graph[u].ver # docs[c][u].ver
    BY <1>1, <1>2 DEF StoresFit, HeldFits
  <2>2. PICK d \in Document : d = docs[c][u]
    BY <1>1 DEF TypeOK
  <2>3. d.ver \in Nat /\ (Exists(u) => graph[u].ver \in Nat /\ 0 < graph[u].ver)
    BY <1>1 DEF Document, TypeOK, StoreTypeOK, Exists, Entity, StoresFit, EntityAt
  <2>4. ledger'[u] = ledger[u]
    BY <1>2
  <2>5. Fits(u, d)'
    <3>1. CASE Marked(c, u)
      BY <2>1, <2>2, <2>3, <2>4, <3>1 DEF Marked, Fits, Live, Grouped
    <3>2. CASE ~Marked(c, u)
      <4>1. Exists(u) => d.ver < graph[u].ver
        BY <1>4, <2>1, <2>2, <2>3, <3>2
      <4>2. Kept(u)
        BY <1>2, <1>4, <3>2 DEF Effect, Acked, Gone, Written
      <4>3. QED
        BY <2>1, <2>2, <2>3, <2>4, <4>1, <4>2 DEF Kept, Fits, Exists, Live, Grouped
    <3>3. QED
      BY <3>1, <3>2
  <2>6. d = docs'[c][u]
    BY <1>2, <2>2
  <2>7. QED
    BY <2>1, <2>2, <2>5, <2>6 DEF Obtained, Fits, Live, Grouped
<1>6. Resting(c)'
  BY <1>3 DEF Resting
<1>7. QED
  BY <1>1, <1>2, <1>3, <1>4, <1>5, <1>6, GraphStepOf

LEMMA ReserveDeletionStepOf ==
    ASSUME Typed, Typed', StoresFit, NEW c \in Clients, ReserveDeletion(c), UNCHANGED opVars
    PROVE  StepOf(c)
<1>1. c \in Procs /\ TypeOK /\ TypeOK'
  BY DEF Procs, Typed
<1>2. /\ ledger' = Reserved(batch[c]) /\ Goto(c, "prepare")
      /\ docs' = [docs EXCEPT ![c] =
             [u \in Uuids |-> IF u \in batch[c] THEN Tombstone(ledger[u] + 1)
                              ELSE NoDocument]]
      /\ UNCHANGED <<graph, index, net, batch>>
  BY DEF ReserveDeletion
<1>3. OthersAt(c) /\ pc'[c] = "prepare"
  BY <1>1, <1>2, GotoFrame DEF OthersAt, TypeOK
<1>4. ASSUME NEW u \in Uuids
      PROVE  /\ ledger[u] \in Nat /\ ledger'[u] \in Nat /\ ledger'[u] >= ledger[u]
             /\ u \in batch[c] => ledger'[u] = ledger[u] + 1
             /\ docs'[c][u].val = NoVector /\ docs'[c][u].group = NoGroup
             /\ \/ u \in batch[c] /\ docs'[c][u].ver = ledger[u] + 1
                \/ docs'[c][u].ver = 0
  BY <1>1, <1>2 DEF TypeOK, StoreTypeOK, Reserved, Tombstone, NoDocument
<1>5. \A u \in Uuids : Effect(c, u) /\ Obtained(c, u)
  BY <1>2, <1>4 DEF Effect, Kept, Obtained, Grouped
<1>6. HeldFits(c)'
  <2> SUFFICES ASSUME NEW u \in Uuids
               PROVE  /\ ~Grouped(docs'[c][u]) /\ ~Live(docs'[c][u])
                      /\ docs'[c][u].ver <= ledger'[u]
                      /\ docs'[c][u].ver # 0 => u \in batch'[c]
                      /\ Exists(u)' => graph'[u].ver # docs'[c][u].ver
    BY <1>3 DEF HeldFits, Live, Grouped
  <2>1. Exists(u)' => /\ graph'[u].ver \in Nat
                      /\ 0 < graph'[u].ver /\ graph'[u].ver <= ledger[u]
    BY <1>1, <1>2 DEF StoresFit, EntityAt, Exists, TypeOK, StoreTypeOK, Entity
  <2>2. QED
    BY <1>2, <1>4, <2>1 DEF Live, Grouped
<1>7. ReservesLater(c)
  <2> SUFFICES ASSUME NEW p \in Procs, pc[p] = "prepare", NEW u \in Uuids
               PROVE  docs'[c][u].ver = 0 \/ docs'[c][u].ver > docs[p][u].ver
    BY DEF ReservesLater
  <2>1. docs[p][u].ver \in Nat /\ docs[p][u].ver <= ledger[u]
    BY <1>1 DEF StoresFit, HeldFits, TypeOK, Document
  <2>2. QED
    BY <1>4, <2>1
<1>8. Sends(c) /\ Caught(c) /\ Resting(c)'
  BY <1>2, <1>3 DEF Sends, Caught, Resting
<1>9. QED
  BY <1>2, <1>3, <1>5, <1>6, <1>7, <1>8 DEF StepOf

(* A save: one query writes what it may and takes a generation for all.    *)
LEMMA SavedEffect ==
    ASSUME Typed, Typed', StoresFit, NEW c \in Clients, pc[c] = "write",
           NEW C \in SUBSET left[c], ledger' = Reserved(C), graph' = Saved(C, todo[c])
    PROVE  \A u \in Uuids :
              /\ Effect(c, u)
              /\ \/ Persisted(c, C)[u] = docs[c][u]
                 \/ /\ Exists(u)' /\ ~graph'[u].del
                    /\ Persisted(c, C)[u] = Content(u)'
<1>1. /\ TypeOK /\ TypeOK' /\ c \in Procs
      /\ C \in SUBSET Uuids /\ \A u \in C : todo[c][u] \in Request
  BY PersistedType DEF Typed, Procs
<1> SUFFICES ASSUME NEW u \in Uuids
             PROVE  /\ Effect(c, u)
                    /\ \/ Persisted(c, C)[u] = docs[c][u]
                       \/ /\ Exists(u)' /\ ~graph'[u].del
                          /\ Persisted(c, C)[u] = Content(u)'
  OBVIOUS
<1>2. /\ ledger[u] \in Nat /\ ledger'[u] >= ledger[u]
      /\ u \in C => ledger'[u] = ledger[u] + 1
  BY <1>1 DEF Reserved, TypeOK, StoreTypeOK
<1>3. CASE u \in C /\ Accepts(u, todo[c][u].group)
  <2>1. PICK v \in Nat, r \in Request : v = ledger[u] + 1 /\ r = todo[c][u]
    BY <1>1, <1>2, <1>3
  <2>2. graph'[u] = [ver |-> v, group |-> r.group, val |-> r.val,
                     sync |-> v, del |-> FALSE]
    BY <1>3, <2>1 DEF Saved
  <2>3. graph'[u] \in Entity
    BY <2>2 DEF Entity, Request
  <2>4. Persisted(c, C)[u] = [ver |-> v, group |-> r.group, val |-> r.val]
    BY <1>3, <2>1 DEF Persisted
  <2>5. /\ Exists(u)' /\ ~graph'[u].del /\ graph'[u].group = r.group
        /\ graph'[u].ver = v /\ graph'[u].sync = v
        /\ Persisted(c, C)[u] = Content(u)'
    <3>1. Exists(u)'
      BY <2>3, StoreAssumption DEF Exists
    <3>2. /\ graph'[u].ver = v /\ graph'[u].group = r.group /\ graph'[u].val = r.val
          /\ graph'[u].sync = v /\ ~graph'[u].del
      BY <2>2
    <3>3. QED
      BY <2>4, <3>1, <3>2 DEF Content
  <2>6. Written(c, u)
    BY <1>2, <1>3, <2>1, <2>5 DEF Written
  <2>7. QED
    BY <1>2, <2>5, <2>6 DEF Effect
<1>4. CASE ~(u \in C /\ Accepts(u, todo[c][u].group))
  BY <1>2, <1>4 DEF Saved, Persisted, Kept, Effect
<1>5. QED
  BY <1>3, <1>4

LEMMA SaveChunkStepOf ==
    ASSUME Typed, Typed', StoresFit, NEW c \in Clients, SaveChunk(c), UNCHANGED opVars
    PROVE  StepOf(c)
<1>1. c \in Procs /\ TypeOK /\ TypeOK'
  BY DEF Procs, Typed
<1>2. PICK C \in Chunks(left[c]) :
        /\ ledger' = Reserved(C)
        /\ graph' = Saved(C, todo[c])
        /\ \/ docs' = [docs EXCEPT ![c] = Persisted(c, C)] /\ UNCHANGED <<pc, batch>>
           \/ /\ docs' = [docs EXCEPT ![c] = Persisted(c, C)]
              /\ Goto(c, "sync") /\ UNCHANGED batch
           \/ Ends(c, "idle")
           \/ Ends(c, "failed")
  BY Zenon DEF SaveChunk
<1>3. C \in SUBSET left[c] /\ pc[c] = "write" /\ UNCHANGED <<index, net>>
  BY DEF Chunks, SaveChunk
<1>4. \A u \in Uuids :
          /\ Effect(c, u)
          /\ \/ Persisted(c, C)[u] = docs[c][u]
             \/ /\ Exists(u)' /\ ~graph'[u].del
                /\ Persisted(c, C)[u] = Content(u)'
  BY <1>2, <1>3, SavedEffect
<1>5. CASE Ends(c, "idle") \/ Ends(c, "failed")
  BY <1>1, <1>3, <1>4, <1>5, EndsFrame, QueryStepOf
<1>6. CASE /\ docs' = [docs EXCEPT ![c] = Persisted(c, C)]
           /\ UNCHANGED pc \/ Goto(c, "sync")
           /\ UNCHANGED batch
  <2>1. OthersAt(c) /\ pc'[c] \in {"write", "sync"} /\ docs'[c] = Persisted(c, C)
    BY <1>1, <1>3, <1>6, GotoFrame DEF OthersAt, TypeOK
  <2>2. ASSUME NEW u \in Uuids
        PROVE  Obtained(c, u) /\ Fits(u, docs[c][u])'
    <3>1. CASE Persisted(c, C)[u] = docs[c][u]
      <4>1. PICK d \in Document : d = docs[c][u]
        BY <1>1 DEF TypeOK
      <4>2. Fits(u, d)
        BY <1>1, <1>3, <4>1 DEF StoresFit, HeldFits
      <4>3. Fits(u, d)'
        BY <1>1, <1>4, <4>2, EffectFits DEF KeepsFits
      <4>4. d = docs'[c][u]
        BY <2>1, <3>1, <4>1
      <4>5. QED
        BY <4>1, <4>3, <4>4 DEF Obtained, Fits, Live, Grouped
    <3>2. CASE Exists(u)' /\ ~graph'[u].del /\ Persisted(c, C)[u] = Content(u)'
      <4>1. TypedAt(u)' /\ EntityAt(u)'
        BY <1>1, <1>4, EffectFits DEF TypeOK, StoreTypeOK, TypedAt
      <4>2. Fits(u, Content(u))'
        BY <3>2, <4>1, ContentsFitNext DEF ContentsFit
      <4>3. docs'[c][u] = Content(u)'
        BY <2>1, <3>2
      <4>4. QED
        BY <3>2, <4>2, <4>3 DEF Obtained, Fits, Live, Grouped, Content
    <3>3. QED
      BY <1>4, <3>1, <3>2
  <2>3. Resting(c)'
    BY <2>1 DEF Resting
  <2>4. QED
    BY <1>1, <1>3, <1>4, <2>1, <2>2, <2>3, GraphStepOf
<1>7. QED
  BY <1>2, <1>5, <1>6

LEMMA ClientActsInv ==
    ASSUME RebuildInv, NEW c \in Clients, ClientActs(c)
    PROVE  RebuildInv'
<1>1. Typed /\ StoresFit /\ UNCHANGED opVars /\ c \in Procs
  BY DEF RebuildInv, RebuildTypeOK, Typed, ClientActs, Procs
<1>2. StartSave(c) \/ StartDelete(c) \/ ClientStep(c) \/ ClientFails(c)
  BY DEF ClientActs
<1>3. Typed'
  <2>1. Next
    BY <1>2 DEF Next
  <2>2. QED
    BY <1>1, <2>1, NextTyped
<1>4. op = "idle"
  <2>1. CASE op # "idle"
    <3>1. pc[c] \in {"idle", "failed"}
      BY <2>1 DEF RebuildInv, Quiesced
    <3>2. QED
      BY <2>1, <3>1
         DEF ClientActs, ClientStep, ClientFails, SaveChunk, SyncChunk, ClearSaved,
             ReserveDeletion, PrepareDeletion, FinalizeDeletion, Bury, BulkSucceeds
  <2>2. QED
    BY <2>1
<1>5. StepOf(c)
  <2>1. CASE Bury(c)
    BY <1>1, <2>1, SendStepOf DEF Bury
  <2>2. QED
    BY <1>1, <1>2, <1>3, <2>1, StartStepOf, ClientFailsStepOf, SaveChunkStepOf, SyncChunkStepOf,
       ClearSavedStepOf, ReserveDeletionStepOf, PrepareDeletionStepOf, FinalizeDeletionStepOf,
       BulkSucceedsStepOf
       DEF ClientStep
<1>6. QED
  BY <1>1, <1>3, <1>4, <1>5, StepInv

LEMMA ReconcilerTyped ==
    ASSUME Typed, NEW r \in Reconcilers, ReconcilerActs(r)
    PROVE  Typed'
<1>1. CASE ReconcilerStep(r) \/ SweepBatchFails(r) \/ SweepAborts(r)
  <2>1. Next
    BY <1>1 DEF Next
  <2>2. QED
    BY <2>1, NextTyped
<1>2. CASE BuryNowhere(r)
  BY <1>2, ProcessAssumption
     DEF BuryNowhere, Goto, storeVars, Typed, TypeOK, StoreTypeOK, RequestsValid, Procs,
         ClientPc, ReconcilerPc, BothPc
<1>3. CASE BulkRefused(r)
  <2>1. /\ SplitBatch(r, "sync", "scan_saves") \/ SplitBatch(r, "bury", "scan_deletes")
        /\ UNCHANGED <<storeVars, todo, left, ahead, faults>>
    BY <1>3 DEF BulkRefused
  <2>2. QED
    BY <2>1, SplitBatchTyped DEF Typed, TypeOK, StoreTypeOK, storeVars
<1>4. QED
  BY <1>1, <1>2, <1>3 DEF ReconcilerActs, ReconcilerGoesOn

LEMMA ReconcilerActsInv ==
    ASSUME RebuildInv, NEW r \in Reconcilers, ReconcilerActs(r)
    PROVE  RebuildInv'
<1>1. Typed /\ Typed' /\ StoresFit /\ UNCHANGED opVars /\ r \in Procs
  BY ReconcilerTyped
     DEF RebuildInv, RebuildTypeOK, Typed, ReconcilerActs, ReconcilerGoesOn, Procs
<1>2. ASSUME SweepSync(r) \/ Bury(r) PROVE StepOf(r)
  BY <1>1, <1>2, SendStepOf DEF SweepSync, Bury
<1>3. ASSUME SweepRejects(r) \/ BulkRefused(r) \/ SweepBatchFails(r) PROVE StepOf(r)
  <2>1. /\ SplitBatch(r, "sync", "scan_saves") \/ SplitBatch(r, "bury", "scan_deletes")
        /\ UNCHANGED storeVars /\ pc[r] # "prepare"
    BY <1>3 DEF SweepRejects, BulkRefused, SweepBatchFails
  <2>2. QED
    BY <1>1, <2>1, SplitStepOf DEF storeVars
<1>4. ASSUME SweepAborts(r) PROVE StepOf(r)
  BY <1>1, <1>4, AsleepStepOf DEF SweepAborts, storeVars
<1>5. StepOf(r)
  BY <1>1, <1>2, <1>3, <1>4, ScanStepOf, SweepMovesStepOf, SweepQueryStepOf,
     BulkSucceedsStepOf, BuryNowhereStepOf
     DEF ReconcilerActs, ReconcilerGoesOn, ReconcilerStep
<1>6. QED
  BY <1>1, <1>5, StepInv

-----------------------------------------------------------------------------
(* A request lands, whoever sent it and however late.                      *)

LEMMA RequestLandsInv ==
    ASSUME RebuildInv, NEW w \in net, RequestLands(w)
    PROVE  RebuildInv'
<1>1. /\ Typed /\ TypeOK /\ RebuildTypeOK /\ StoresFit /\ Stages /\ Wiped /\ Covered
      /\ Lands(w) /\ UNCHANGED opVars /\ UNCHANGED <<op, scope, rest, page, present, ready>>
  BY DEF RebuildInv, RebuildTypeOK, Typed, RequestLands, opVars
<1>2. Typed'
  BY <1>1, LandsTyped
<1>3. w.uuid \in Uuids /\ w.doc \in Document /\ Fits(w.uuid, w.doc)
  BY <1>1 DEF TypeOK, StoreTypeOK, Write, StoresFit
<1>4. /\ index' = [index EXCEPT ![w.uuid] = w.doc] /\ w.doc.ver > index[w.uuid].ver
      /\ UNCHANGED <<ledger, graph, net, pc, docs, batch>>
  BY <1>1 DEF Lands, Deliver, procVars
<1>5. ASSUME NEW u \in Uuids
      PROVE  /\ index[u] \in Document /\ index'[u].ver >= index[u].ver
             /\ index'[u] = index[u] \/ (u = w.uuid /\ index'[u] = w.doc)
  BY <1>1, <1>3, <1>4 DEF TypeOK, StoreTypeOK, Document
<1>6. RebuildTypeOK' /\ RequestsValid' /\ Stages'
  BY <1>1, <1>2 DEF RebuildTypeOK, opVars, Typed, Stages
<1>7. \A u \in Uuids : Fits(u, index'[u])
  BY <1>1, <1>3, <1>5 DEF StoresFit
<1>8. StoresFit'
  <2>1. \A u \in Uuids : EntityAt(u)' /\ Fits(u, index[u])'
    BY <1>1, <1>4, <1>7 DEF StoresFit, EntityAt, Fits, Exists, Content, Live, Grouped
  <2>2. \A x \in net' : Fits(x.uuid, x.doc)'
    BY <1>1, <1>4 DEF StoresFit, Fits, Exists, Content
  <2>3. \A p \in Procs : HeldFits(p)' /\ Resting(p)'
    BY <1>1, <1>4 DEF StoresFit, HeldFits, Resting, Fits, Exists, Content, Live, Grouped
  <2>4. ReservationsDistinct'
    BY <1>1, <1>4 DEF StoresFit, ReservationsDistinct
  <2>5. QED
    BY <2>1, <2>2, <2>3, <2>4 DEF StoresFit
<1>9. op' # "idle" => Quiesced'
  BY <1>1, <1>4 DEF RebuildInv, Quiesced, Quiet, Exists, Content, Grouped
<1>10. \A u \in Uuids : op # "idle" /\ Quiet(u, index[u]) => Quiet(u, index[u])'
  BY <1>1, <1>4, <1>5 DEF RebuildInv, Quiesced, Quiet, Exists, Content, Grouped
<1>11. \A u \in Uuids : op # "idle" /\ index'[u] # index[u] => Quiet(u, index[u])'
  BY <1>1, <1>4, <1>5 DEF RebuildInv, Quiesced, Quiet, Exists, Content, Grouped
<1>12. Wiped'
  BY <1>1, <1>10, <1>11 DEF Wiped, Emptied, Filling
(* No document is newer than the entity it is of.                          *)
<1>13. ASSUME NEW u \in Uuids, Exists(u)
       PROVE  /\ graph[u].ver \in Nat /\ index'[u].ver \in Nat
              /\ index'[u].ver <= graph[u].ver
              /\ index[u].ver = graph[u].ver => index'[u].ver = graph[u].ver
  <2>1. graph[u].ver \in Nat /\ index'[u].ver \in Nat /\ index[u].ver \in Nat
    BY <1>1, <1>2, <1>13 DEF Typed, TypeOK, StoreTypeOK, Exists, Entity, Document
  <2>2. index'[u].ver <= graph[u].ver
    BY <1>7, <1>13 DEF Fits
  <2>3. QED
    BY <1>5, <2>1, <2>2
<1>14. Covered'
  <2>1. Backfillable' = Backfillable /\ Backfillable \in SUBSET Uuids
        /\ \A u \in Backfillable : Exists(u) /\ Content(u)' = Content(u)
    BY <1>1, <1>4 DEF Backfillable, Exists, Content
  <2>2. op \in Filling => \A u \in Versioned(page) : index[u].ver >= page[u].ver
                                                      => index'[u].ver >= page[u].ver
    BY <1>1, <1>2, <1>5 DEF RebuildTypeOK, Versioned, Document, Typed, TypeOK, StoreTypeOK
  <2>3. Versioned(page)' = Versioned(page)
    BY <1>1 DEF Versioned
  <2>4. QED
    BY <1>1, <1>4, <1>13, <2>1, <2>2, <2>3 DEF Covered, Filling
<1>15. ready' => Authorized'
  <2> SUFFICES ASSUME ready PROVE Authorized'
    BY <1>1
  <2>1. Authorized
    BY DEF RebuildInv
  <2>2. ASSUME NEW u \in Uuids, NEW d, d.ver \in Nat, Harmless(u, d)
        PROVE  Harmless(u, d)'
    <3>1. index[u].ver \in Nat /\ index'[u].ver \in Nat
      BY <1>1, <1>2 DEF Typed, TypeOK, StoreTypeOK, Document
    <3>2. QED
      BY <1>4, <1>5, <2>2, <3>1 DEF Harmless, Exists, Grouped
  <2>3. \A x \in net' : Harmless(x.uuid, x.doc)'
    BY <1>1, <1>4, <2>1, <2>2 DEF Authorized, TypeOK, StoreTypeOK, Write, Document
  <2>4. \A p \in Procs : \A u \in Uuids : Harmless(u, docs[p][u])'
    <3> SUFFICES ASSUME NEW p \in Procs, NEW u \in Uuids PROVE Harmless(u, docs[p][u])'
      OBVIOUS
    <3>1. PICK d \in Document : d = docs[p][u] /\ Harmless(u, d)
      BY <1>1, <2>1 DEF TypeOK, Authorized
    <3>2. Harmless(u, d)' /\ d = docs'[p][u]
      BY <1>4, <2>2, <3>1 DEF Document
    <3>3. QED
      BY <3>2 DEF Harmless, Grouped
  <2>5. ASSUME NEW u \in Uuids
        PROVE  Owned(u)' /\ Exact(u)'
    <3>1. Owned(u)'
      <4>1. CASE index'[u] = index[u]
        BY <1>4, <2>1, <4>1 DEF Authorized, Owned, Exists, Grouped
      <4>2. CASE u = w.uuid /\ index'[u] = w.doc
        <5>1. Harmless(u, w.doc) /\ w.doc.ver > index[u].ver
          BY <1>4, <2>1, <4>2 DEF Authorized
        <5>2. w.doc.ver \in Nat /\ index[u].ver \in Nat
          BY <1>1, <1>3 DEF TypeOK, StoreTypeOK, Document
        <5>3. QED
          BY <1>4, <4>2, <5>1, <5>2 DEF Harmless, Owned, Exists, Grouped
      <4>3. QED
        BY <1>5, <4>1, <4>2
    <3>2. Exact(u)'
      BY <1>1, <1>4, <1>13, <2>1 DEF Authorized, Exact, Clean, Exists, UnderRepair
    <3>3. QED
      BY <3>1, <3>2
  <2>6. ASSUME NEW u \in Uuids, NoneGrouped(u)
        PROVE  NoneGrouped(u)'
    BY <1>4, <1>5, <2>6 DEF NoneGrouped, Grouped
  <2>7. ASSUME NEW p \in Procs
        PROVE  Durable(p)'
    <3> SUFFICES ASSUME NEW u \in batch[p]
                 PROVE  /\ pc[p] = "clear" => IndexedAt(u, docs[p][u])'
                        /\ pc[p] = "finalize" => BuriedAt(u, docs[p][u])'
      BY <1>4 DEF Durable
    <3>1. u \in Uuids
      BY <1>1 DEF TypeOK
    <3>2. Exists(u) => (index[u].ver >= graph[u].ver => index'[u].ver >= graph[u].ver)
      <4>1. Exists(u) => graph[u].ver \in Nat
        BY <1>13, <3>1
      <4>2. index[u].ver \in Nat /\ index'[u].ver \in Nat
        BY <1>1, <1>2, <3>1 DEF Typed, TypeOK, StoreTypeOK, Document
      <4>3. QED
        BY <1>5, <3>1, <4>1, <4>2
    <3>3. pc[p] = "clear" => IndexedAt(u, docs[p][u])'
      BY <1>1, <1>4, <2>1, <3>1, <3>2 DEF Authorized, Durable, IndexedAt, UnderRepair, Exists
    <3>4. pc[p] = "finalize" => BuriedAt(u, docs[p][u])'
      BY <1>1, <1>4, <2>1, <2>6, <3>1, <3>2 DEF Authorized, Durable, BuriedAt, Exists
    <3>5. QED
      BY <3>3, <3>4
  <2>8. (op = "purge" => \A u \in rest : Exists(u) => graph[u].group = scope)'
    BY <1>1, <1>4, <2>1 DEF Authorized, Exists
  <2>9. QED
    BY <2>3, <2>4, <2>5, <2>7, <2>8 DEF Authorized
<1>16. QED
  BY <1>6, <1>8, <1>9, <1>12, <1>14, <1>15 DEF RebuildInv

-----------------------------------------------------------------------------
(* Pages: what ORDER BY uuid DESC LIMIT n returns of a finite set.         *)

Above(S, x) == {y \in S : y > x}

LEMMA AboveCounts ==
    ASSUME NEW S \in SUBSET Nat, IsFiniteSet(S)
    PROVE  /\ \A x \in S : IsFiniteSet(Above(S, x)) /\ Cardinality(Above(S, x)) \in Nat
           /\ \A x, y \in S : x < y =>
                  Cardinality(Above(S, y)) < Cardinality(Above(S, x))
<1>1. \A x \in S : IsFiniteSet(Above(S, x)) /\ Cardinality(Above(S, x)) \in Nat
  BY FS_Subset, FS_CardinalityType DEF Above
<1>2. ASSUME NEW x \in S, NEW y \in S, x < y
      PROVE  Cardinality(Above(S, y)) < Cardinality(Above(S, x))
  <2>1. \A z \in S : z > y => z > x
    BY <1>2
  <2>2. y \in Above(S, x) /\ y \notin Above(S, y)
    BY <1>2 DEF Above
  <2>3. Above(S, y) \subseteq Above(S, x) /\ Above(S, y) # Above(S, x)
    BY <2>1, <2>2 DEF Above
  <2>4. /\ Cardinality(Above(S, y)) <= Cardinality(Above(S, x))
        /\ Cardinality(Above(S, y)) # Cardinality(Above(S, x))
    BY <1>1, <2>3, FS_Subset
  <2>5. QED
    BY <1>1, <2>4
<1>3. QED
  BY <1>1, <1>2

LEMMA PageCounts ==
    \A S, n : Page(S, n) = {u \in S : Cardinality(Above(S, u)) < n}
BY DEF Page, Above

LEMMA PageAbove ==
    ASSUME NEW S \in SUBSET Nat, IsFiniteSet(S), NEW n \in Nat,
           NEW u \in S \ Page(S, n), NEW v \in Page(S, n)
    PROVE  u < v
<1>1. u \in Nat /\ v \in Nat /\ v \in S
  BY DEF Page
<1>2. Cardinality(Above(S, v)) < n /\ ~(Cardinality(Above(S, u)) < n)
  BY PageCounts
<1>3. CASE v < u
  BY <1>1, <1>2, <1>3, AboveCounts
<1>4. QED
  BY <1>1, <1>2, <1>3

LEMMA Greatest ==
    ASSUME NEW S \in SUBSET Nat, IsFiniteSet(S), S # {}
    PROVE  \E x \in S : \A y \in S : y <= x
<1> DEFINE counts == {Cardinality(Above(S, x)) : x \in S}
<1>1. counts \subseteq Nat /\ counts # {}
  BY AboveCounts
<1>2. PICK k \in counts : \A j \in counts : ~(<<j, k>> \in OpToRel(<, Nat))
  <2> HIDE DEF counts
  <2>1. QED
    BY <1>1, WFMin, NatLessThanWellFounded
<1>3. \A j \in counts : ~(j < k)
  <2> HIDE DEF counts
  <2>1. QED
    BY <1>1, <1>2 DEF OpToRel
<1>4. PICK x \in S : k = Cardinality(Above(S, x))
  OBVIOUS
<1>5. \A y \in S : ~(x < y)
  BY <1>3, <1>4, AboveCounts
<1>6. QED
  BY <1>5

LEMMA PageShort ==
    ASSUME NEW S \in SUBSET Nat, IsFiniteSet(S), NEW n \in Nat,
           Cardinality(Page(S, n)) < n
    PROVE  Page(S, n) = S
<1>1. Page(S, n) \subseteq S
  BY DEF Page
<1>2. SUFFICES ASSUME S \ Page(S, n) # {} PROVE FALSE
  BY <1>1
<1>3. IsFiniteSet(S \ Page(S, n)) /\ IsFiniteSet(Page(S, n))
  BY <1>1, FS_Subset
<1>4. PICK u \in S \ Page(S, n) : \A y \in S \ Page(S, n) : y <= u
  BY <1>2, <1>3, Greatest
<1>5. Above(S, u) \subseteq Page(S, n)
  <2> SUFFICES ASSUME NEW y \in S, y > u PROVE y \in Page(S, n)
    BY DEF Above
  <2>1. ~(y <= u)
    OBVIOUS
  <2>2. QED
    BY <1>4, <2>1
<1>6. /\ Cardinality(Above(S, u)) <= Cardinality(Page(S, n))
      /\ Cardinality(Above(S, u)) \in Nat /\ Cardinality(Page(S, n)) \in Nat
  BY <1>3, <1>5, AboveCounts, FS_Subset, FS_CardinalityType
<1>7. ~(Cardinality(Above(S, u)) < n)
  BY <1>4, PageCounts
<1>8. QED
  BY <1>6, <1>7

-----------------------------------------------------------------------------
(* The command, and the operator who runs it.  Most of its steps leave the *)
(* processes, the graph and the requests alone.                            *)

Untouched == UNCHANGED <<ledger, graph, net, pc, docs, batch>>

LEMMA SameStoresFit ==
    ASSUME StoresFit, Untouched, \A u \in Uuids : Fits(u, index'[u])
    PROVE  StoresFit'
<1>1. \A u \in Uuids : EntityAt(u)' /\ Fits(u, index[u])'
  BY DEF StoresFit, Untouched, EntityAt, Fits, Exists, Content, Live, Grouped
<1>2. \A x \in net' : Fits(x.uuid, x.doc)'
  BY DEF StoresFit, Untouched, Fits, Exists, Content
<1>3. \A p \in Procs : HeldFits(p)' /\ Resting(p)'
  BY DEF StoresFit, Untouched, HeldFits, Resting, Fits, Exists, Content, Live, Grouped
<1>4. ReservationsDistinct'
  BY DEF StoresFit, Untouched, ReservationsDistinct
<1>5. QED
  BY <1>1, <1>2, <1>3, <1>4 DEF StoresFit

LEMMA SameQuiesced ==
    ASSUME Quiesced, Untouched
    PROVE  Quiesced'
BY DEF Quiesced, Untouched, Quiet, Exists, Content, Grouped

LEMMA SameQuiet ==
    ASSUME Untouched, NEW u \in Uuids, Quiet(u, index'[u])
    PROVE  Quiet(u, index[u])'
BY DEF Untouched, Quiet, Exists, Content, Grouped

LEMMA SameBackfillable ==
    ASSUME Untouched, scope' = scope
    PROVE  /\ Backfillable' = Backfillable
           /\ \A u \in Backfillable : Content(u)' = Content(u) /\ graph'[u].ver = graph[u].ver
BY DEF Untouched, Backfillable, Exists, Content

(* A step of the command while reads may be enabled.                       *)
LEMMA SameAuthorized ==
    ASSUME TypeOK, Authorized, Untouched, index' = index,
           \A u \in Uuids : UnderRepair(u) => UnderRepair(u)',
           op' = "purge" => \A u \in rest' : Exists(u) => graph[u].group = scope'
    PROVE  Authorized'
<1>1. \A u \in Uuids : Owned(u)' /\ Exact(u)'
  BY DEF Authorized, Untouched, Owned, Exact, Clean, Exists, Grouped
<1>2. /\ \A w \in net' : Harmless(w.uuid, w.doc)'
      /\ \A p \in Procs : \A u \in Uuids : Harmless(u, docs[p][u])'
  BY DEF Authorized, Untouched, Harmless, Exists, Grouped
<1>3. \A u : NoneGrouped(u) => NoneGrouped(u)'
  BY DEF Untouched, NoneGrouped, Grouped
<1>4. ASSUME NEW p \in Procs PROVE Durable(p)'
  <2> SUFFICES ASSUME NEW u \in batch[p]
               PROVE  /\ pc[p] = "clear" => IndexedAt(u, docs[p][u])'
                      /\ pc[p] = "finalize" => BuriedAt(u, docs[p][u])'
    BY DEF Durable, Untouched
  <2>1. u \in Uuids
    BY DEF TypeOK
  <2>2. pc[p] = "clear" => IndexedAt(u, docs[p][u])'
    BY <2>1 DEF Authorized, Durable, IndexedAt, Untouched, Exists
  <2>3. pc[p] = "finalize" => BuriedAt(u, docs[p][u])'
    BY <1>3, <2>1 DEF Authorized, Durable, BuriedAt, Untouched, Exists
  <2>4. QED
    BY <2>2, <2>3
<1>5. (op = "purge" => \A u \in rest : Exists(u) => graph[u].group = scope)'
  BY DEF Untouched, Exists
<1>6. QED
  BY <1>1, <1>2, <1>4, <1>5 DEF Authorized

(* The part of the invariant a step of the command is about is left to it. *)
LEMMA CommandInv ==
    ASSUME RebuildInv, Untouched, UNCHANGED <<index, todo, left>>,
           RebuildTypeOK', op' # "idle" => op # "idle",
           Wiped', Covered', Stages', ready' => Authorized'
    PROVE  RebuildInv'
<1>1. StoresFit'
  BY SameStoresFit DEF RebuildInv, StoresFit
<1>2. op' # "idle" => Quiesced'
  BY SameQuiesced DEF RebuildInv
<1>3. RequestsValid'
  BY DEF RebuildInv, RequestsValid, Untouched
<1>4. QED
  BY <1>1, <1>2, <1>3 DEF RebuildInv

LEMMA UntouchedVars ==
    /\ UNCHANGED vars => Untouched /\ UNCHANGED <<index, todo, left>>
    /\ UNCHANGED <<net, graph, ledger, procVars>> => Untouched /\ UNCHANGED <<todo, left>>
BY DEF vars, Untouched, procVars

LEMMA UnchangedVarsTyped == TypeOK /\ UNCHANGED vars => TypeOK'
BY DEF vars, TypeOK, StoreTypeOK

LEMMA NoPage == Versioned(NoDocuments) = {} /\ NoDocuments \in [Uuids -> Document]
BY DocumentTypes DEF Versioned, NoDocuments

LEMMA NoPageNext ==
    ASSUME page' = NoDocuments
    PROVE  Versioned(page)' = {}
BY DEF Versioned, NoDocuments

LEMMA RerunInv ==
    ASSUME RebuildInv, Rerun
    PROVE  RebuildInv'
<1>1. /\ UNCHANGED <<vars, present, ready, legacy, scope>> /\ op = "failed" /\ ~ready
      /\ op' = FirstStep(scope) /\ round' = 1 /\ rest' = {} /\ page' = NoDocuments
      /\ \/ present /\ rebuilds < MaxRebuilds /\ rebuilds' = rebuilds + 1
         \/ ~present /\ rebuilds' = rebuilds
  BY Zenon DEF Rerun, Starts, RebuildInv, Stages
<1>2. \/ op' = "delete" /\ scope = AllGroups
      \/ op' = "create" /\ scope # AllGroups
  BY <1>1 DEF FirstStep
<1>3. RebuildTypeOK'
  BY <1>1, <1>2, UnchangedVarsTyped, NoPage, RebuildAssumption DEF RebuildInv, RebuildTypeOK
<1>4. Wiped' /\ Covered' /\ Stages'
  BY <1>1, <1>2, NoPageNext DEF Wiped, Emptied, Covered, Stages, Filling
<1>5. QED
  BY <1>1, <1>2, <1>3, <1>4, CommandInv, UntouchedVars

LEMMA ResumeInv ==
    ASSUME RebuildInv, Resume
    PROVE  RebuildInv'
<1>1. /\ UNCHANGED <<vars, scope, round, rest, page, present, ready, rebuilds, legacy>>
      /\ op \in {"complete", "failed"} /\ op' = "idle" /\ present
  BY DEF Resume
<1>2. RebuildTypeOK'
  BY <1>1, UnchangedVarsTyped DEF RebuildInv, RebuildTypeOK
<1>3. Wiped' /\ Covered' /\ Stages'
  BY <1>1 DEF RebuildInv, Wiped, Emptied, Covered, Stages, Filling
<1>4. ready' => Authorized'
  BY <1>1, UntouchedVars, SameAuthorized DEF RebuildInv, RebuildTypeOK, Stages, UnderRepair
<1>5. QED
  BY <1>1, <1>2, <1>3, <1>4, CommandInv, UntouchedVars

LEMMA CreateIndexInv ==
    ASSUME RebuildInv, CreateIndex
    PROVE  RebuildInv'
<1>1. /\ UNCHANGED <<vars, scope, round, page, ready, rebuilds, legacy>>
      /\ op = "create" /\ present'
      /\ \/ scope = AllGroups /\ op' = "read" /\ rest' = Uuids
         \/ scope # AllGroups /\ op' = "list" /\ rest' = rest
  BY DEF CreateIndex
<1>2. RebuildTypeOK'
  BY <1>1, UnchangedVarsTyped DEF RebuildInv, RebuildTypeOK, CreateIndex
<1>3. page = NoDocuments /\ page' = NoDocuments
  BY <1>1 DEF RebuildInv, Covered, Filling
<1>4. Wiped'
  <2>1. op' = "read" => \A u \in Uuids : Quiet(u, index[u])
    BY <1>1 DEF RebuildInv, Wiped, Emptied
  <2>2. op' = "read" => \A u \in Uuids : Quiet(u, index[u])'
    BY <1>1, <2>1, SameQuiet, UntouchedVars
  <2>3. QED
    BY <1>1, <2>2 DEF Wiped, Emptied, Filling
<1>5. Covered'
  BY <1>1, <1>3, NoPageNext DEF Covered, Filling, Backfillable
<1>6. Stages'
  BY <1>1 DEF RebuildInv, Stages, RebuildTypeOK
<1>7. ready' => Authorized'
  BY <1>1, UntouchedVars, SameAuthorized DEF RebuildInv, RebuildTypeOK, UnderRepair, Untouched
<1>8. QED
  BY <1>1, <1>2, <1>4, <1>5, <1>6, <1>7, CommandInv, UntouchedVars

LEMMA ListDocumentsInv ==
    ASSUME RebuildInv, ListDocuments
    PROVE  RebuildInv'
<1>1. /\ UNCHANGED <<vars, scope, round, page, present, ready, rebuilds, legacy>>
      /\ op = "list" /\ op' = "purge" /\ rest' = {u \in Uuids : index[u].group = scope}
      /\ scope \in Groups
  BY DEF ListDocuments, RebuildInv, Stages
<1>2. RebuildTypeOK'
  BY <1>1, UnchangedVarsTyped DEF RebuildInv, RebuildTypeOK
<1>3. page = NoDocuments /\ page' = NoDocuments
  BY <1>1 DEF RebuildInv, Covered, Filling
<1>4. Wiped'
  BY <1>1, UntouchedVars DEF Wiped, Emptied, Filling
<1>5. Covered' /\ Stages'
  BY <1>1, <1>3, NoPageNext DEF RebuildInv, Covered, Filling, Stages
<1>6. ready' => Authorized'
  <2> SUFFICES ASSUME ready PROVE Authorized'
    BY <1>1
  <2>1. \A u \in rest' : Exists(u) => graph[u].group = scope
    BY <1>1, StoreAssumption DEF RebuildInv, Authorized, Owned, Grouped
  <2>2. QED
    BY <1>1, <2>1, UntouchedVars, SameAuthorized DEF RebuildInv, RebuildTypeOK, UnderRepair, Untouched
<1>7. QED
  BY <1>1, <1>2, <1>4, <1>5, <1>6, CommandInv, UntouchedVars

LEMMA BatchIndexedInv ==
    ASSUME RebuildInv, BatchIndexed
    PROVE  RebuildInv'
<1>1. /\ UNCHANGED <<vars, scope, round, rest, page, present, ready, rebuilds, legacy>>
      /\ op = "writing" /\ op' = "clear" /\ Acknowledged(Versioned(page), page)
  BY DEF BatchIndexed, BatchAnswered
<1>2. RebuildTypeOK'
  BY <1>1, UnchangedVarsTyped DEF RebuildInv, RebuildTypeOK
<1>3. Untouched /\ index' = index /\ UNCHANGED <<todo, left>>
  BY <1>1, UntouchedVars
<1>4. Wiped'
  BY <1>1, <1>3, SameQuiet DEF RebuildInv, Wiped, Emptied, Filling
<1>5. Covered'
  <2>1. Backfillable' = Backfillable
        /\ \A u \in Backfillable : Content(u)' = Content(u) /\ graph'[u].ver = graph[u].ver
    BY <1>1, <1>3, SameBackfillable
  <2>2. Versioned(page)' = Versioned(page)
    BY <1>1 DEF Versioned
  <2>3. QED
    BY <1>1, <1>3, <2>1, <2>2 DEF RebuildInv, Covered, Filling, Acknowledged
<1>6. Stages'
  BY <1>1 DEF RebuildInv, Stages
<1>7. ready' => Authorized'
  BY <1>1, <1>3, SameAuthorized DEF RebuildInv, RebuildTypeOK, UnderRepair, Untouched
<1>8. QED
  BY <1>1, <1>2, <1>3, <1>4, <1>5, <1>6, <1>7, CommandInv

(* The steps that change what the index contains.                          *)
LEMMA DeleteIndexInv ==
    ASSUME RebuildInv, DeleteIndex
    PROVE  RebuildInv'
<1>1. /\ UNCHANGED <<ledger, graph, net, procVars, scope, round, rest, page, ready, rebuilds, legacy>>
      /\ op = "delete" /\ op' = "create" /\ present' = FALSE
      /\ index' = [u \in Uuids |-> NoDocument]
      /\ scope = AllGroups /\ ~ready
  BY Zenon DEF DeleteIndex, RebuildInv, Stages
<1>2. Untouched /\ UNCHANGED procVars
  BY <1>1, UntouchedVars
<1>3. RebuildTypeOK' /\ RequestsValid'
  BY <1>1, DocumentTypes
     DEF RebuildInv, RebuildTypeOK, TypeOK, StoreTypeOK, RequestsValid, procVars
<1>4. page = NoDocuments /\ page' = NoDocuments
  BY <1>1 DEF RebuildInv, Covered, Filling
<1>5. StoresFit'
  <2>1. \A u \in Uuids : Fits(u, index'[u])
    BY <1>1, NoDocumentFits DEF RebuildInv, RebuildTypeOK
  <2>2. QED
    BY <1>2, <2>1, SameStoresFit DEF RebuildInv
<1>6. Quiesced'
  BY <1>1, <1>2, SameQuiesced DEF RebuildInv
<1>7. Wiped'
  <2>1. \A u \in Uuids : Quiet(u, index[u])'
    BY <1>1 DEF Quiet, Grouped, NoDocument
  <2>2. QED
    BY <1>1, <2>1 DEF Wiped
<1>8. Covered' /\ Stages'
  BY <1>1, <1>4, NoPageNext DEF Covered, Stages, Filling
<1>9. QED
  BY <1>1, <1>3, <1>5, <1>6, <1>7, <1>8 DEF RebuildInv

LEMMA PurgeDocumentsInv ==
    ASSUME RebuildInv, PurgeDocuments
    PROVE  RebuildInv'
<1>1. /\ UNCHANGED <<ledger, graph, net, procVars, scope, round, page, present, ready, rebuilds, legacy>>
      /\ op = "purge" /\ op' = "read" /\ rest' = Uuids
      /\ index' = [u \in Uuids |-> IF u \in rest THEN NoDocument ELSE index[u]]
      /\ scope \in Groups
  BY Zenon DEF PurgeDocuments, RebuildInv, Stages
<1>2. /\ Untouched /\ UNCHANGED procVars /\ UNCHANGED <<graph, net, pc, docs, batch>>
      /\ Quiesced /\ Wiped /\ TypeOK
  BY <1>1, UntouchedVars DEF Untouched, RebuildInv, RebuildTypeOK
<1>3. RebuildTypeOK' /\ RequestsValid'
  BY <1>1, DocumentTypes
     DEF RebuildInv, RebuildTypeOK, TypeOK, StoreTypeOK, RequestsValid, procVars
<1>4. page = NoDocuments /\ page' = NoDocuments
  BY <1>1 DEF RebuildInv, Covered, Filling
<1>5. StoresFit'
  <2>1. \A u \in Uuids : Fits(u, index'[u])
    BY <1>1, NoDocumentFits DEF RebuildInv, RebuildTypeOK, StoresFit
  <2>2. QED
    BY <1>2, <2>1, SameStoresFit DEF RebuildInv
<1>6. Quiesced'
  BY <1>1, <1>2, SameQuiesced DEF RebuildInv
<1>7. \A u \in Uuids : u \in rest => ~Grouped(index'[u])
  BY <1>1 DEF NoDocument, Grouped
<1>8. Wiped'
  <2>1. ASSUME NEW u \in Uuids, index'[u].group = scope PROVE Quiet(u, index[u])'
    <3>1. u \notin rest
      BY <1>1, <1>7, <2>1, StoreAssumption DEF Grouped
    <3>2. index'[u] = index[u] /\ Quiet(u, index[u])
      BY <1>1, <1>2, <2>1, <3>1 DEF Wiped
    <3>3. QED
      BY <1>2, <3>2, SameQuiet
  <2>2. scope' = scope /\ scope # AllGroups
    BY <1>1, RebuildAssumption
  <2>3. QED
    BY <1>1, <2>1, <2>2 DEF Wiped
<1>9. Covered' /\ Stages'
  BY <1>1, <1>4, NoPageNext DEF RebuildInv, Covered, Stages, Filling, Backfillable
<1>10. ready' => Authorized'
  <2> SUFFICES ASSUME ready, Authorized PROVE Authorized'
    BY <1>1 DEF RebuildInv
  <2>1. \A u \in Uuids : u \notin rest => index'[u] = index[u]
    BY <1>1
  <2>2. \A u \in Uuids : u \in rest /\ Exists(u) => UnderRepair(u) /\ UnderRepair(u)'
    BY <1>1, <1>2 DEF Authorized, UnderRepair
  <2>3. \A u \in Uuids : Owned(u)' /\ Exact(u)'
    <3> SUFFICES ASSUME NEW u \in Uuids PROVE Owned(u)' /\ Exact(u)'
      OBVIOUS
    <3>1. CASE u \in rest
      BY <1>2, <1>7, <2>2, <3>1 DEF Owned, Exact, Clean, Exists, Grouped
    <3>2. CASE u \notin rest
      <4>1. Owned(u) /\ Exact(u) /\ index'[u] = index[u]
        BY <2>1, <3>2 DEF Authorized
      <4>2. QED
        BY <1>1, <1>2, <4>1 DEF Owned, Exact, Clean, Exists, Grouped, UnderRepair
    <3>3. QED
      BY <3>1, <3>2
  <2>4. ASSUME NEW u \in Uuids, NEW d, Quiet(u, d)
        PROVE  Harmless(u, d)'
    BY <1>2, <2>4 DEF Quiet, Harmless, Content, Exists, Grouped
  <2>5. \A w \in net' : Harmless(w.uuid, w.doc)'
    BY <1>2, <2>4 DEF Quiesced, TypeOK, StoreTypeOK, Write
  <2>6. \A p \in Procs : \A u \in Uuids : Harmless(u, docs[p][u])'
    BY <1>2, <2>4 DEF Quiesced, Harmless, Grouped
  <2>7. \A u \in Uuids : NoneGrouped(u) => NoneGrouped(u)'
    BY <1>2, <1>7, <2>1 DEF NoneGrouped, Grouped
  <2>8. ASSUME NEW u \in rest \cap Uuids, Exists(u), graph[u].del
        PROVE  NoneGrouped(u)'
    <3>1. \A p \in Procs : ~Grouped(docs[p][u])
      BY <1>2, <2>8 DEF Quiesced, Quiet
    <3>2. \A w \in net : w.uuid = u => ~Grouped(w.doc)
      BY <1>2, <2>8 DEF Quiesced, Quiet
    <3>3. QED
      BY <1>2, <1>7, <2>8, <3>1, <3>2 DEF NoneGrouped, Grouped
  <2>9. ASSUME NEW p \in Procs PROVE Durable(p)'
    <3> SUFFICES ASSUME NEW u \in batch[p]
                 PROVE  /\ pc[p] = "clear" => IndexedAt(u, docs[p][u])'
                        /\ pc[p] = "finalize" => BuriedAt(u, docs[p][u])'
      BY <1>2 DEF Durable
    <3>1. u \in Uuids
      BY <1>2 DEF TypeOK
    <3>2. CASE u \in rest
      BY <1>2, <2>2, <2>8, <3>1, <3>2 DEF IndexedAt, BuriedAt, Exists
    <3>3. CASE u \notin rest
      <4>1. index'[u] = index[u]
        BY <2>1, <3>1, <3>3
      <4>2. pc[p] = "clear" => IndexedAt(u, docs[p][u])'
        BY <1>1, <1>2, <4>1 DEF Authorized, Durable, IndexedAt, UnderRepair, Exists
      <4>3. pc[p] = "finalize" => BuriedAt(u, docs[p][u])'
        BY <1>2, <2>7, <3>1, <4>1 DEF Authorized, Durable, BuriedAt, Exists
      <4>4. QED
        BY <4>2, <4>3
    <3>4. QED
      BY <3>2, <3>3
  <2>10. (op = "purge" => \A u \in rest : Exists(u) => graph[u].group = scope)'
    BY <1>1
  <2>11. QED
    BY <2>3, <2>5, <2>6, <2>9, <2>10 DEF Authorized
<1>11. QED
  BY <1>1, <1>3, <1>5, <1>6, <1>8, <1>9, <1>10 DEF RebuildInv

(* The command gives up.                                                   *)
LEMMA FailsInv ==
    ASSUME RebuildInv, ~Idle, Fails, UNCHANGED <<pc, todo, left, docs, batch, ahead, stack>>,
           faults' \in 0..MaxFaults
    PROVE  RebuildInv'
<1>1. /\ UNCHANGED <<ledger, graph, index, net, scope, round, present, rebuilds, legacy>>
      /\ op' = "failed" /\ rest' = {} /\ page' = NoDocuments /\ ready' = FALSE
      /\ op # "idle"
  BY DEF Fails, Idle
<1>2. Untouched
  BY <1>1 DEF Untouched
<1>3. RebuildTypeOK'
  BY <1>1, NoPage DEF RebuildInv, RebuildTypeOK, TypeOK, StoreTypeOK
<1>4. Wiped' /\ Covered' /\ Stages'
  BY <1>1, NoPageNext DEF RebuildInv, Wiped, Emptied, Covered, Filling, Stages
<1>5. QED
  BY <1>1, <1>2, <1>3, <1>4, CommandInv

(* A page goes out: documents of the entities as they are.                 *)
LEMMA WriteBatchInv ==
    ASSUME RebuildInv, WriteBatch
    PROVE  RebuildInv'
<1> DEFINE V == Versioned(page)
<1>1. /\ UNCHANGED <<ledger, graph, index, procVars, scope, round, rest, page, present, ready,
                     rebuilds, legacy>>
      /\ op = "write" /\ op' = "writing" /\ net' = net \cup Requests(V, page)
  BY DEF WriteBatch
<1>2. /\ UNCHANGED <<pc, todo, left, docs, batch, ahead, stack, faults>>
      /\ Quiesced /\ Wiped /\ Covered /\ TypeOK /\ StoresFit
  BY <1>1 DEF procVars, RebuildInv, RebuildTypeOK
<1>3. RebuildTypeOK' /\ RequestsValid'
  <2>1. V \in SUBSET Uuids /\ page \in [Uuids -> Document]
    BY DEF Versioned, RebuildInv, RebuildTypeOK
  <2>2. Requests(V, page) \in SUBSET Write
    BY <2>1, RequestsType
  <2>3. QED
    BY <1>1, <1>2, <2>2 DEF RebuildInv, RebuildTypeOK, TypeOK, StoreTypeOK, RequestsValid
(* What is new among the requests.                                         *)
<1>4. ASSUME NEW w \in net', w \notin net
      PROVE  /\ w.uuid \in Uuids /\ Exists(w.uuid) /\ ~graph[w.uuid].del
             /\ w.doc = Content(w.uuid) /\ Fits(w.uuid, w.doc)
  <2>1. PICK u \in V : w = [uuid |-> u, doc |-> page[u]]
    BY <1>1, <1>4 DEF Requests
  <2>2. u \in Uuids /\ Exists(u) /\ ~graph[u].del /\ page[u] = Content(u)
    BY <1>1, <1>2, <2>1 DEF Covered, Filling, Backfillable
  <2>3. TypedAt(u) /\ EntityAt(u)
    BY <1>2, <2>2, TypedEverywhere DEF StoresFit
  <2>4. Fits(u, Content(u))
    BY <2>2, <2>3, ContentFits
  <2>5. QED
    BY <2>1, <2>2, <2>4
<1>5. StoresFit'
  <2>1. \A u \in Uuids : EntityAt(u)' /\ Fits(u, index[u])'
    BY <1>1, <1>2 DEF StoresFit, EntityAt, Fits, Exists, Content, Live, Grouped
  <2>2. \A x \in net' : Fits(x.uuid, x.doc)
    BY <1>2, <1>4 DEF StoresFit
  <2>3. \A x \in net' : Fits(x.uuid, x.doc)'
    BY <1>1, <2>2 DEF Fits, Exists, Content
  <2>4. \A p \in Procs : HeldFits(p)' /\ Resting(p)'
    BY <1>1, <1>2 DEF StoresFit, HeldFits, Resting, Fits, Exists, Content, Live, Grouped
  <2>5. ReservationsDistinct'
    BY <1>2 DEF StoresFit, ReservationsDistinct
  <2>6. QED
    BY <2>1, <2>3, <2>4, <2>5 DEF StoresFit
<1>6. Quiesced'
  <2>1. \A w \in net' : Quiet(w.uuid, w.doc)
    BY <1>2, <1>4 DEF Quiesced, Quiet
  <2>2. QED
    BY <1>1, <1>2, <2>1 DEF Quiesced, Quiet, Exists, Content, Grouped
<1>7. Wiped'
  <2>1. \A u \in Uuids : Quiet(u, index[u]) => Quiet(u, index[u])'
    BY <1>1 DEF Quiet, Exists, Content, Grouped
  <2>2. QED
    BY <1>1, <1>2, <2>1 DEF Wiped, Emptied, Filling
<1>8. Covered'
  <2>1. /\ Backfillable' = Backfillable
        /\ \A u \in Backfillable : Content(u)' = Content(u) /\ graph'[u].ver = graph[u].ver
    BY <1>1 DEF Backfillable, Exists, Content
  <2>2. Versioned(page)' = Versioned(page)
    BY <1>1 DEF Versioned
  <2>3. QED
    BY <1>1, <1>2, <2>1, <2>2 DEF Covered, Filling
<1>9. Stages'
  BY <1>1 DEF RebuildInv, Stages
<1>10. ready' => Authorized'
  <2> SUFFICES ASSUME ready, Authorized PROVE Authorized'
    BY <1>1 DEF RebuildInv
  <2>1. \A u \in Uuids : Owned(u)' /\ Exact(u)'
    BY <1>1 DEF Authorized, Owned, Exact, Clean, Exists, Grouped, UnderRepair
  <2>2. \A w \in net' : Harmless(w.uuid, w.doc)
    <3>1. \A w \in net : Harmless(w.uuid, w.doc)
      BY DEF Authorized
    <3>2. \A u : Exists(u) => Harmless(u, Content(u))
      BY DEF Harmless, Content
    <3>3. QED
      BY <1>4, <3>1, <3>2
  <2>3. /\ \A w \in net' : Harmless(w.uuid, w.doc)'
        /\ \A p \in Procs : \A u \in Uuids : Harmless(u, docs[p][u])'
    BY <1>1, <1>2, <2>2 DEF Authorized, Harmless, Exists, Grouped
  <2>4. ASSUME NEW u \in Uuids, Exists(u), graph[u].del, NoneGrouped(u)
        PROVE  NoneGrouped(u)'
    <3>1. \A w \in net' : w.uuid = u => ~Grouped(w.doc)
      BY <1>4, <2>4 DEF NoneGrouped
    <3>2. QED
      BY <1>1, <1>2, <2>4, <3>1 DEF NoneGrouped, Grouped
  <2>5. ASSUME NEW p \in Procs PROVE Durable(p)'
    <3> SUFFICES ASSUME NEW u \in batch[p]
                 PROVE  /\ pc[p] = "clear" => IndexedAt(u, docs[p][u])'
                        /\ pc[p] = "finalize" => BuriedAt(u, docs[p][u])'
      BY <1>2 DEF Durable
    <3>1. u \in Uuids
      BY <1>2 DEF TypeOK
    <3>2. pc[p] = "clear" => IndexedAt(u, docs[p][u])'
      BY <1>1, <1>2 DEF Authorized, Durable, IndexedAt, UnderRepair, Exists
    <3>3. pc[p] = "finalize" => BuriedAt(u, docs[p][u])'
      BY <1>1, <1>2, <2>4, <3>1 DEF Authorized, Durable, BuriedAt, Exists
    <3>4. QED
      BY <3>2, <3>3
  <2>6. (op = "purge" => \A u \in rest : Exists(u) => graph[u].group = scope)'
    BY <1>1
  <2>7. QED
    BY <2>1, <2>3, <2>5, <2>6 DEF Authorized
<1>11. QED
  BY <1>1, <1>3, <1>5, <1>6, <1>7, <1>8, <1>9, <1>10 DEF RebuildInv

(* The page is acknowledged: sync markers go, and nothing else changes.    *)
LEMMA ClearBatchInv ==
    ASSUME RebuildInv, ClearBatch
    PROVE  RebuildInv'
<1> DEFINE V == Versioned(page)
<1>1. /\ UNCHANGED <<ledger, index, net, procVars, scope, round, rest, present, ready,
                     rebuilds, legacy>>
      /\ op = "clear" /\ op' = "read" /\ page' = NoDocuments
      /\ graph' = Cleared(V, page)
  BY DEF ClearBatch
<1>2. /\ UNCHANGED <<pc, todo, left, docs, batch, ahead, stack, faults>>
      /\ Quiesced /\ Wiped /\ Covered /\ TypeOK /\ StoresFit
  BY <1>1 DEF procVars, RebuildInv, RebuildTypeOK
<1>3. RebuildTypeOK' /\ RequestsValid'
  <2>1. V \in SUBSET Uuids /\ page \in [Uuids -> Document]
    BY DEF Versioned, RebuildInv, RebuildTypeOK
  <2>2. graph' \in [Uuids -> Entity \cup {Absent}]
    BY <1>1, <1>2, <2>1, GraphUpdateTypes
  <2>3. QED
    BY <1>1, <1>2, <2>2, NoPage DEF RebuildInv, RebuildTypeOK, TypeOK, StoreTypeOK, RequestsValid
<1>4. ASSUME NEW u \in Uuids
      PROVE  /\ Exists(u)' <=> Exists(u)
             /\ Exists(u) =>
                  /\ Content(u)' = Content(u) /\ (graph'[u].del <=> graph[u].del)
                  /\ graph'[u].ver = graph[u].ver /\ graph'[u].group = graph[u].group
                  /\ graph'[u].val = graph[u].val
                  /\ \/ graph'[u].sync = graph[u].sync
                     \/ u \in V /\ graph'[u].sync = 0
  <2>1. CASE graph'[u] = graph[u]
    BY <2>1 DEF Exists, Content
  <2>2. CASE u \in V /\ Exists(u) /\ graph'[u] = [graph[u] EXCEPT !.sync = 0]
    <3>1. graph[u] \in Entity
      BY <1>2, <2>2 DEF TypeOK, StoreTypeOK, Exists
    <3>2. /\ graph'[u] \in Entity
          /\ graph'[u].sync = 0 /\ graph'[u].del = graph[u].del /\ graph'[u].ver = graph[u].ver
          /\ graph'[u].group = graph[u].group /\ graph'[u].val = graph[u].val
      BY <2>2, <3>1 DEF Entity
    <3>3. QED
      BY <2>2, <3>2, StoreAssumption DEF Exists, Content
  <2>3. QED
    BY <1>1, <2>1, <2>2 DEF Cleared
<1>5. ASSUME NEW u \in Uuids, NEW d
      PROVE  /\ Fits(u, d) => Fits(u, d)'
             /\ Quiet(u, d) => Quiet(u, d)'
             /\ Harmless(u, d) => Harmless(u, d)'
  BY <1>1, <1>4 DEF Fits, Quiet, Harmless, Live, Grouped
<1>6. StoresFit'
  <2>1. \A u \in Uuids : EntityAt(u)'
    BY <1>1, <1>2, <1>4 DEF StoresFit, EntityAt
  <2>2. \A u \in Uuids : Fits(u, index[u])'
    BY <1>1, <1>2, <1>5 DEF StoresFit, Fits, Live, Grouped
  <2>3. \A x \in net' : Fits(x.uuid, x.doc)'
    BY <1>1, <1>2, <1>5 DEF StoresFit, TypeOK, StoreTypeOK, Write
  <2>4. \A p \in Procs : HeldFits(p)' /\ Resting(p)'
    BY <1>1, <1>2, <1>4, <1>5 DEF StoresFit, HeldFits, Resting, Fits, Live, Grouped
  <2>5. ReservationsDistinct'
    BY <1>2 DEF StoresFit, ReservationsDistinct
  <2>6. QED
    BY <2>1, <2>2, <2>3, <2>4, <2>5 DEF StoresFit
<1>7. Quiesced'
  <2>1. \A w \in net' : Quiet(w.uuid, w.doc)'
    BY <1>1, <1>2, <1>5 DEF Quiesced, TypeOK, StoreTypeOK, Write
  <2>2. \A p \in Procs : \A u \in Uuids : Quiet(u, docs[p][u])'
    BY <1>2, <1>5 DEF Quiesced, Quiet, Grouped
  <2>3. QED
    BY <1>2, <2>1, <2>2 DEF Quiesced
<1>8. Wiped'
  <2>1. \A u \in Uuids : Quiet(u, index[u]) => Quiet(u, index[u])'
    BY <1>1, <1>5 DEF Quiet, Grouped
  <2>2. QED
    BY <1>1, <1>2, <2>1 DEF Wiped, Emptied, Filling
(* Whatever is of the page is in the index by now.                         *)
<1>9. \A u \in V : u \in Uuids /\ Exists(u) /\ index[u].ver = graph[u].ver
  <2> SUFFICES ASSUME NEW u \in V
               PROVE  u \in Uuids /\ Exists(u) /\ index[u].ver = graph[u].ver
    OBVIOUS
  <2>1. u \in Uuids /\ Exists(u) /\ page[u] = Content(u) /\ index[u].ver >= page[u].ver
    BY <1>1, <1>2 DEF Covered, Filling, Backfillable
  <2>2. graph[u].ver \in Nat /\ index[u].ver \in Nat
    BY <1>2, <2>1 DEF TypeOK, StoreTypeOK, Exists, Entity, Document
  <2>3. index[u].ver <= graph[u].ver /\ page[u].ver = graph[u].ver
    BY <1>2, <2>1 DEF StoresFit, Fits, Content
  <2>4. QED
    BY <2>1, <2>2, <2>3
<1>10. Covered'
  <2>1. Backfillable' = Backfillable /\ Backfillable \subseteq Uuids
    BY <1>1, <1>4 DEF Backfillable
  <2>2. \A u \in Backfillable : graph'[u].ver = graph[u].ver
    BY <1>4 DEF Backfillable
  <2>3. QED
    BY <1>1, <1>2, <1>9, <2>1, <2>2, NoPageNext DEF Covered, Filling
<1>11. Stages'
  BY <1>1 DEF RebuildInv, Stages
<1>12. ready' => Authorized'
  <2> SUFFICES ASSUME ready, Authorized PROVE Authorized'
    BY <1>1 DEF RebuildInv
  <2>1. \A u \in Uuids : Owned(u)'
    BY <1>1, <1>4 DEF Authorized, Owned, Grouped
  <2>2. \A u \in Uuids : Exact(u)'
    BY <1>1, <1>4, <1>9 DEF Authorized, Exact, Clean, UnderRepair
  <2>3. \A w \in net' : Harmless(w.uuid, w.doc)'
    BY <1>1, <1>2, <1>5 DEF Authorized, TypeOK, StoreTypeOK, Write
  <2>4. \A p \in Procs : \A u \in Uuids : Harmless(u, docs[p][u])'
    BY <1>2, <1>5 DEF Authorized, Harmless, Grouped
  <2>5. \A u : NoneGrouped(u) => NoneGrouped(u)'
    BY <1>1, <1>2 DEF NoneGrouped, Grouped
  <2>6. ASSUME NEW p \in Procs PROVE Durable(p)'
    <3> SUFFICES ASSUME NEW u \in batch[p]
                 PROVE  /\ pc[p] = "clear" => IndexedAt(u, docs[p][u])'
                        /\ pc[p] = "finalize" => BuriedAt(u, docs[p][u])'
      BY <1>2 DEF Durable
    <3>1. u \in Uuids
      BY <1>2 DEF TypeOK
    <3>2. pc[p] = "clear" => IndexedAt(u, docs[p][u])'
      BY <1>1, <1>2, <1>4, <3>1 DEF Authorized, Durable, IndexedAt, UnderRepair
    <3>3. pc[p] = "finalize" => BuriedAt(u, docs[p][u])'
      BY <1>1, <1>2, <1>4, <2>5, <3>1 DEF Authorized, Durable, BuriedAt
    <3>4. QED
      BY <3>2, <3>3
  <2>7. (op = "purge" => \A u \in rest : Exists(u) => graph[u].group = scope)'
    BY <1>1
  <2>8. QED
    BY <2>1, <2>2, <2>3, <2>4, <2>6, <2>7 DEF Authorized
<1>13. QED
  BY <1>1, <1>3, <1>6, <1>7, <1>8, <1>10, <1>11, <1>12 DEF RebuildInv

(* The operator: nobody is at work.                                        *)
LEMMA NobodyHolds ==
    ASSUME StoresFit, TypeOK, NobodyWorks
    PROVE  \A p \in Procs : pc[p] \in {"idle", "failed", "sleep"} /\ docs[p] = NoDocuments
BY DEF NobodyWorks, Procs, StoresFit, Resting

LEMMA BeginInv ==
    ASSUME RebuildInv, NEW s \in Groups \cup {AllGroups}, Begin(s)
    PROVE  RebuildInv'
<1>1. /\ UNCHANGED <<ledger, graph, index, procVars, present, legacy>>
      /\ op = "idle" /\ NobodyWorks /\ net' = {} /\ (ready' <=> (ready /\ s # AllGroups))
      /\ scope' = s /\ op' = FirstStep(s) /\ round' = 1 /\ rest' = {} /\ page' = NoDocuments
      /\ rebuilds < MaxRebuilds /\ rebuilds' = rebuilds + 1
  BY DEF Begin, Starts
<1>2. \/ op' = "delete" /\ s = AllGroups
      \/ op' = "create" /\ s # AllGroups
  BY <1>1 DEF FirstStep
<1>3. /\ UNCHANGED <<pc, todo, left, docs, batch, ahead, stack, faults>>
      /\ TypeOK /\ StoresFit
  BY <1>1 DEF procVars, RebuildInv, RebuildTypeOK
<1>4. RebuildTypeOK' /\ RequestsValid'
  <2>1. ready' \in BOOLEAN
    BY DEF Begin
  <2>2. QED
    BY <1>1, <1>2, <1>3, <2>1, NoPage, RebuildAssumption
       DEF RebuildInv, RebuildTypeOK, TypeOK, StoreTypeOK, RequestsValid
<1>5. \A p \in Procs : pc[p] \in {"idle", "failed", "sleep"} /\ docs[p] = NoDocuments
  BY <1>1, <1>3, NobodyHolds
<1>6. StoresFit'
  <2>1. \A u \in Uuids : EntityAt(u)' /\ Fits(u, index[u])'
    BY <1>1, <1>3 DEF StoresFit, EntityAt, Fits, Exists, Content, Live, Grouped
  <2>2. \A p \in Procs : HeldFits(p)' /\ Resting(p)'
    BY <1>1, <1>3 DEF StoresFit, HeldFits, Resting, Fits, Exists, Content, Live, Grouped
  <2>3. ReservationsDistinct'
    BY <1>3 DEF StoresFit, ReservationsDistinct
  <2>4. QED
    BY <1>1, <2>1, <2>2, <2>3 DEF StoresFit
<1>7. \A p \in Procs : \A u \in Uuids : ~Grouped(docs'[p][u])
  BY <1>3, <1>5 DEF NoDocuments, NoDocument, Grouped
<1>8. Quiesced'
  BY <1>1, <1>3, <1>7 DEF NobodyWorks, Quiesced, Quiet, Grouped
<1>9. Wiped' /\ Covered' /\ Stages'
  BY <1>1, <1>2, NoPageNext DEF RebuildInv, Wiped, Emptied, Covered, Filling, Stages
<1>10. ready' => Authorized'
  <2> SUFFICES ASSUME ready, Authorized PROVE Authorized'
    BY <1>1 DEF RebuildInv
  <2>1. \A u \in Uuids : Owned(u)' /\ Exact(u)'
    BY <1>1 DEF Authorized, Owned, Exact, Clean, Exists, Grouped, UnderRepair
  <2>2. \A p \in Procs : \A u \in Uuids : Harmless(u, docs[p][u])'
    BY <1>7 DEF Harmless, Grouped
  <2>3. \A p \in Procs : Durable(p)'
    BY <1>3, <1>5 DEF Durable
  <2>4. QED
    BY <1>1, <1>2, <2>1, <2>2, <2>3 DEF Authorized
<1>11. QED
  BY <1>4, <1>6, <1>8, <1>9, <1>10 DEF RebuildInv

LEMMA LegacyDeleteInv ==
    ASSUME RebuildInv, NEW u \in Uuids, LegacyDelete(u)
    PROVE  RebuildInv'
<1>1. /\ UNCHANGED <<ledger, index, net, procVars, op, scope, round, rest, page,
                     present, rebuilds>>
      /\ op = "idle" /\ NobodyWorks /\ graph' = [graph EXCEPT ![u] = Absent] /\ ready' = FALSE
      /\ legacy < MaxLegacy /\ legacy' = legacy + 1
  BY DEF LegacyDelete
<1>2. /\ UNCHANGED <<pc, todo, left, docs, batch, ahead, stack, faults>>
      /\ TypeOK /\ StoresFit
  BY <1>1 DEF procVars, RebuildInv, RebuildTypeOK
<1>3. RebuildTypeOK' /\ RequestsValid'
  <2>1. legacy' \in 0..MaxLegacy
    BY <1>1, RebuildAssumption DEF RebuildInv, RebuildTypeOK
  <2>2. graph' \in [Uuids -> Entity \cup {Absent}]
    BY <1>1, <1>2 DEF TypeOK, StoreTypeOK
  <2>3. TypeOK'
    BY <1>1, <1>2, <2>2 DEF TypeOK, StoreTypeOK
  <2>4. ready' \in BOOLEAN
    BY <1>1
  <2>5. QED
    BY <1>1, <1>2, <2>1, <2>3, <2>4 DEF RebuildInv, RebuildTypeOK, RequestsValid
<1>4. \A x \in Uuids : graph'[x] = graph[x] \/ ~Exists(x)'
  BY <1>1, <1>2 DEF TypeOK, StoreTypeOK, Exists
<1>5. ASSUME NEW x \in Uuids, NEW d, Fits(x, d)
      PROVE  Fits(x, d)'
  BY <1>1, <1>4, <1>5 DEF Fits, Exists, Content, Live, Grouped
<1>6. StoresFit'
  <2>1. \A x \in Uuids : EntityAt(x)'
    BY <1>1, <1>2, <1>4 DEF StoresFit, EntityAt, Exists
  <2>2. \A x \in Uuids : Fits(x, index[x])'
    BY <1>1, <1>2, <1>5 DEF StoresFit, Fits, Live, Grouped
  <2>3. \A w \in net' : Fits(w.uuid, w.doc)'
    BY <1>1, <1>2, <1>5 DEF StoresFit, TypeOK, StoreTypeOK, Write
  <2>4. ASSUME NEW p \in Procs PROVE HeldFits(p)' /\ Resting(p)'
    <3>1. pc[p] # "prepare" /\ HeldFits(p) /\ Resting(p)
      BY <1>1, <1>2, NobodyHolds DEF StoresFit
    <3>2. \A x \in Uuids : Fits(x, docs[p][x])'
      BY <1>2, <1>5, <3>1 DEF HeldFits, Fits, Live, Grouped
    <3>3. QED
      BY <1>2, <3>1, <3>2 DEF HeldFits, Resting
  <2>5. ReservationsDistinct'
    BY <1>2 DEF StoresFit, ReservationsDistinct
  <2>6. QED
    BY <2>1, <2>2, <2>3, <2>4, <2>5 DEF StoresFit
<1>7. Wiped' /\ Covered' /\ Stages'
  BY <1>1 DEF RebuildInv, Wiped, Emptied, Covered, Filling, Stages
<1>8. QED
  BY <1>1, <1>3, <1>6, <1>7 DEF RebuildInv

(* A page is read, or the pass is over.                                    *)
LEMMA CandidatesPaged ==
    ASSUME RebuildInv
    PROVE  LET S == Backfillable \cap rest
               C == Page(S, BatchSize)
           IN /\ S \in SUBSET Nat /\ IsFiniteSet(S) /\ C \subseteq S
              /\ C = {} => S = {}
              /\ \A u \in S : u \in C \/ u \in Below(C)
<1> DEFINE S == Backfillable \cap rest
           C == Page(S, BatchSize)
<1>1. rest \subseteq Uuids /\ BatchSize \in Nat /\ 0 < BatchSize
  BY ProcessAssumption DEF RebuildInv, RebuildTypeOK
<1>2. S \in SUBSET Nat /\ IsFiniteSet(S)
  <2>1. S \in SUBSET Uuids
    BY DEF Backfillable
  <2>2. QED
    BY <2>1, FS_Subset, RebuildAssumption, StoreAssumption
<1>3. C \subseteq S
  BY DEF Page
<1> HIDE DEF S
<1>4. C = {} => S = {}
  <2>1. C = {} => Cardinality(C) < BatchSize
    BY <1>1, FS_EmptySet
  <2>2. QED
    BY <1>1, <1>2, <2>1, PageShort
<1>5. ASSUME NEW u \in S, u \notin C PROVE u \in Below(C)
  <2>1. ~(Cardinality(C) < BatchSize)
    BY <1>1, <1>2, <1>5, PageShort
  <2>2. \A v \in C : u < v
    BY <1>1, <1>2, <1>5, PageAbove
  <2>3. u \in rest
    BY DEF S
  <2>4. QED
    BY <2>1, <2>2, <2>3 DEF Below
<1>6. QED
  BY <1>2, <1>3, <1>4, <1>5 DEF S

LEMMA PageReadInv ==
    ASSUME RebuildInv, op = "read",
           NEW C, C = Page(Backfillable \cap rest, BatchSize),
           page' = [u \in Uuids |-> IF u \in C THEN Content(u) ELSE NoDocument],
           rest' = Below(C), op' = "write",
           UNCHANGED <<vars, scope, round, present, ready, rebuilds, legacy>>
    PROVE  RebuildInv'
<1>1. /\ Untouched /\ UNCHANGED <<index, todo, left>>
      /\ Wiped /\ Covered /\ TypeOK /\ StoresFit
  BY UntouchedVars DEF RebuildInv, RebuildTypeOK
<1>2. /\ C \subseteq Backfillable /\ C \subseteq Uuids
      /\ \A u \in Backfillable \cap rest : u \in C \/ u \in Below(C)
  BY CandidatesPaged DEF Backfillable
<1>3. ASSUME NEW u \in C
      PROVE  Content(u) \in Document /\ Content(u) # NoDocument
  <2>1. u \in Uuids /\ Exists(u) /\ ~graph[u].del
    BY <1>2 DEF Backfillable
  <2>2. TypedAt(u) /\ EntityAt(u)
    BY <1>1, <2>1, TypedEverywhere DEF StoresFit
  <2>3. QED
    BY <2>1, <2>2, ContentFits DEF NoDocument, Grouped
<1>4. page' \in [Uuids -> Document] /\ rest' \in SUBSET Uuids
  BY <1>3, DocumentTypes DEF Below, RebuildInv, RebuildTypeOK
<1>5. RebuildTypeOK'
  BY <1>4, UnchangedVarsTyped DEF RebuildInv, RebuildTypeOK
<1>6. Versioned(page)' = C
  BY <1>2, <1>3 DEF Versioned
<1>7. Wiped'
  <2>1. \A u \in Uuids : Quiet(u, index[u]) => Quiet(u, index[u])'
    BY <1>1, SameQuiet
  <2>2. QED
    BY <1>1, <2>1 DEF Wiped, Emptied, Filling
<1>8. Covered'
  <2>1. /\ Backfillable' = Backfillable
        /\ \A u \in Backfillable : Content(u)' = Content(u) /\ graph'[u].ver = graph[u].ver
    BY <1>1, SameBackfillable
  <2>2. \A u \in Backfillable : u \in rest \/ index[u].ver = graph[u].ver
    BY <1>1, NoPage DEF Covered, Filling
  <2>3. \A u \in Backfillable : u \in rest' \cup C \/ index[u].ver = graph[u].ver
    BY <1>2, <2>2
  <2>4. \A u \in C : u \in Backfillable /\ page'[u] = Content(u)
    BY <1>2
  <2>5. QED
    BY <1>1, <1>6, <2>1, <2>3, <2>4 DEF Covered, Filling
<1>9. Stages'
  BY DEF RebuildInv, Stages
<1>10. ready' => Authorized'
  BY <1>1, SameAuthorized DEF RebuildInv, UnderRepair, Untouched
<1>11. QED
  BY <1>1, <1>5, <1>7, <1>8, <1>9, <1>10, CommandInv

LEMMA SecondPassInv ==
    ASSUME RebuildInv, op = "read", round' = 2, rest' = Uuids,
           UNCHANGED <<vars, scope, op, page, present, ready, rebuilds, legacy>>
    PROVE  RebuildInv'
<1>1. /\ Untouched /\ UNCHANGED <<index, todo, left>>
      /\ Wiped /\ Covered /\ TypeOK
  BY UntouchedVars DEF RebuildInv, RebuildTypeOK
<1>2. RebuildTypeOK'
  BY UnchangedVarsTyped DEF RebuildInv, RebuildTypeOK
<1>3. Wiped'
  <2>1. \A u \in Uuids : Quiet(u, index[u]) => Quiet(u, index[u])'
    BY <1>1, SameQuiet
  <2>2. QED
    BY <1>1, <2>1 DEF Wiped, Emptied, Filling
<1>4. Covered'
  <2>1. page = NoDocuments /\ page' = NoDocuments
    BY <1>1 DEF Covered, Filling
  <2>2. QED
    BY <2>1, NoPageNext DEF Covered, Filling, Backfillable
<1>5. Stages'
  BY DEF RebuildInv, Stages
<1>6. ready' => Authorized'
  BY <1>1, SameAuthorized DEF RebuildInv, UnderRepair, Untouched
<1>7. QED
  BY <1>1, <1>2, <1>3, <1>4, <1>5, <1>6, CommandInv

(* Success: what the passes have established is what authorizes reads.     *)
LEMMA CompletionAuthorized ==
    ASSUME TypeOK, StoresFit, Quiesced,
           \A u \in Uuids : scope \in {AllGroups, index[u].group} => Quiet(u, index[u]),
           \A u \in Backfillable : index[u].ver = graph[u].ver,
           scope = AllGroups \/ (Authorized /\ op = "read"),
           Untouched, index' = index, scope' = scope, op' = "complete"
    PROVE  Authorized'
<1>1. UNCHANGED <<ledger, graph, net, pc, docs, batch>>
  BY DEF Untouched
<1>2. \A u \in Uuids : Owned(u)'
  <2>1. ASSUME NEW u \in Uuids PROVE Owned(u)
    <3>1. CASE Authorized
      BY <3>1 DEF Authorized
    <3>2. CASE scope = AllGroups
      <4>1. Quiet(u, index[u]) /\ Content(u).group = graph[u].group
        BY <3>2 DEF Content
      <4>2. QED
        BY <4>1 DEF Quiet, Owned
    <3>3. QED
      BY <3>1, <3>2
  <2>2. QED
    BY <1>1, <2>1 DEF Owned, Exists, Grouped
<1>3. \A u \in Uuids : Clean(u) /\ graph[u].val # NoVector => index[u].ver = graph[u].ver
  BY DEF Backfillable, Clean, Authorized, Exact, UnderRepair
<1>4. \A u \in Uuids : Exact(u)'
  BY <1>1, <1>3 DEF Exact, Clean, Exists
<1>5. \A u \in Uuids : \A d : Quiet(u, d) => Harmless(u, d)'
  BY <1>1 DEF Quiet, Harmless, Content, Exists, Grouped
<1>6. \A w \in net' : Harmless(w.uuid, w.doc)'
  BY <1>1, <1>5 DEF Quiesced, TypeOK, StoreTypeOK, Write
<1>7. \A p \in Procs : \A u \in Uuids : Harmless(u, docs[p][u])'
  BY <1>1, <1>5 DEF Quiesced, Harmless, Grouped
<1>8. ASSUME NEW p \in Procs PROVE Durable(p)'
  <2> SUFFICES ASSUME NEW u \in batch[p]
               PROVE  /\ pc[p] = "clear" => IndexedAt(u, docs[p][u])'
                      /\ pc[p] = "finalize" => BuriedAt(u, docs[p][u])'
    BY <1>1 DEF Durable
  <2>1. u \in Uuids
    BY DEF TypeOK
  <2>2. pc[p] = "clear" => IndexedAt(u, docs[p][u])'
    <3> SUFFICES ASSUME pc[p] = "clear", Exists(u), ~graph[u].del,
                        graph[u].ver = docs[p][u].ver, graph[u].val # NoVector
                 PROVE  index[u].ver >= graph[u].ver
      BY <1>1 DEF IndexedAt, Exists
    <3>1. CASE u \in Backfillable
      <4>1. index[u].ver = graph[u].ver /\ graph[u].ver \in Nat
        BY <2>1, <3>1 DEF TypeOK, StoreTypeOK, Exists, Entity
      <4>2. QED
        BY <4>1
    <3>2. CASE u \notin Backfillable
      <4>1. scope \notin {AllGroups, graph[u].group}
        BY <2>1, <3>2 DEF Backfillable
      <4>2. IndexedAt(u, docs[p][u]) /\ ~UnderRepair(u)
        BY <4>1 DEF Authorized, Durable, UnderRepair
      <4>3. QED
        BY <4>2 DEF IndexedAt
    <3>3. QED
      BY <3>1, <3>2
  <2>3. pc[p] = "finalize" => BuriedAt(u, docs[p][u])'
    <3> SUFFICES ASSUME pc[p] = "finalize", Exists(u), graph[u].del,
                        graph[u].ver = docs[p][u].ver
                 PROVE  index[u].ver >= graph[u].ver \/ NoneGrouped(u)'
      BY <1>1 DEF BuriedAt, Exists
    <3>1. CASE scope = AllGroups
      <4>1. NoneGrouped(u)
        BY <2>1, <3>1 DEF Quiesced, Quiet, NoneGrouped
      <4>2. QED
        BY <1>1, <4>1 DEF NoneGrouped, Grouped
    <3>2. CASE Authorized
      <4>1. index[u].ver >= graph[u].ver \/ NoneGrouped(u)
        BY <3>2 DEF Authorized, Durable, BuriedAt
      <4>2. QED
        BY <1>1, <4>1 DEF NoneGrouped, Grouped
    <3>3. QED
      BY <3>1, <3>2
  <2>4. QED
    BY <2>2, <2>3
<1>9. (op = "purge" => \A u \in rest : Exists(u) => graph[u].group = scope)'
  OBVIOUS
<1>10. QED
  BY <1>2, <1>4, <1>6, <1>7, <1>8, <1>9 DEF Authorized

LEMMA CompletionInv ==
    ASSUME RebuildInv, op = "read", Page(Backfillable \cap rest, BatchSize) = {},
           op' = "complete", rest' = {}, ready' = (ready \/ scope = AllGroups),
           UNCHANGED <<vars, scope, round, page, present, rebuilds, legacy>>
    PROVE  RebuildInv'
<1>1. /\ Untouched /\ UNCHANGED <<index, todo, left>>
      /\ Wiped /\ Covered /\ TypeOK /\ StoresFit /\ Quiesced /\ Stages
  BY UntouchedVars DEF RebuildInv, RebuildTypeOK
<1>2. page = NoDocuments /\ page' = NoDocuments
  BY <1>1 DEF Covered, Filling
<1>3. \A u \in Backfillable : index[u].ver = graph[u].ver
  <2>1. Backfillable \cap rest = {}
    BY CandidatesPaged
  <2>2. QED
    BY <1>1, <1>2, <2>1, NoPage DEF Covered, Filling
<1>4. \A u \in Uuids : scope \in {AllGroups, index[u].group} => Quiet(u, index[u])
  BY <1>1 DEF Wiped, Emptied, Filling
<1>5. RebuildTypeOK'
  <2>1. ready' \in BOOLEAN
    OBVIOUS
  <2>2. QED
    BY <2>1, UnchangedVarsTyped DEF RebuildInv, RebuildTypeOK
<1>6. Wiped'
  <2>1. \A u \in Uuids : Quiet(u, index[u]) => Quiet(u, index[u])'
    BY <1>1, SameQuiet
  <2>2. QED
    BY <1>1, <1>4, <2>1 DEF Wiped
<1>7. Covered'
  <2>1. /\ Backfillable' = Backfillable
        /\ \A u \in Backfillable : graph'[u].ver = graph[u].ver
    BY <1>1, SameBackfillable
  <2>2. QED
    BY <1>1, <1>2, <1>3, <2>1, NoPageNext DEF Covered, Filling
<1>8. Stages'
  BY <1>1 DEF Stages
<1>9. ready' => Authorized'
  <2>1. ready' => scope = AllGroups \/ Authorized
    BY DEF RebuildInv
  <2>2. QED
    BY <1>1, <1>3, <1>4, <2>1, CompletionAuthorized
<1>10. QED
  BY <1>1, <1>5, <1>6, <1>7, <1>8, <1>9, CommandInv

LEMMA ReadBatchInv ==
    ASSUME RebuildInv, ReadBatch
    PROVE  RebuildInv'
<1> DEFINE C == Page(Backfillable \cap rest, BatchSize)
<1>1. op = "read" /\ UNCHANGED <<vars, scope, present, rebuilds, legacy>>
  BY DEF ReadBatch
<1>2. \/ /\ page' = [u \in Uuids |->
                IF u \in C THEN [ver |-> graph[u].ver, group |-> graph[u].group,
                                 val |-> graph[u].val]
                ELSE NoDocument]
         /\ rest' = Below(C) /\ op' = "write" /\ UNCHANGED <<round, ready>>
      \/ round' = 2 /\ rest' = Uuids /\ UNCHANGED <<op, page, ready>>
      \/ /\ C = {} /\ op' = "complete" /\ rest' = {}
         /\ ready' = (ready \/ scope = AllGroups) /\ UNCHANGED <<round, page>>
  BY Zenon DEF ReadBatch
<1> HIDE DEF C
<1>3. CASE round' = 2 /\ rest' = Uuids /\ UNCHANGED <<op, page, ready>>
  BY <1>1, <1>3, SecondPassInv
<1>4. CASE /\ C = {} /\ op' = "complete" /\ rest' = {}
           /\ ready' = (ready \/ scope = AllGroups) /\ UNCHANGED <<round, page>>
  BY <1>1, <1>4, CompletionInv DEF C
<1>5. CASE /\ page' = [u \in Uuids |->
                IF u \in C THEN [ver |-> graph[u].ver, group |-> graph[u].group,
                                 val |-> graph[u].val]
                ELSE NoDocument]
           /\ rest' = Below(C) /\ op' = "write" /\ UNCHANGED <<round, ready>>
  <2>1. page' = [u \in Uuids |-> IF u \in C THEN Content(u) ELSE NoDocument]
    BY <1>5 DEF Content
  <2>2. QED
    BY <1>1, <1>5, <2>1, PageReadInv DEF C
<1>6. QED
  BY <1>2, <1>3, <1>4, <1>5

-----------------------------------------------------------------------------
(* The invariant of the rebuild, and what it gives.                        *)

LEMMA InitRebuildInv == InitRebuild => RebuildInv
<1> SUFFICES ASSUME InitRebuild PROVE RebuildInv
  OBVIOUS
<1>1. /\ Typed /\ TypeOK
      /\ graph = [u \in Uuids |-> Absent] /\ ledger = [u \in Uuids |-> 0]
      /\ index = [u \in Uuids |-> NoDocument] /\ net = {}
      /\ docs = [p \in Procs |-> NoDocuments]
      /\ op = "idle" /\ scope = AllGroups /\ round = 1 /\ rest = {} /\ page = NoDocuments
      /\ present = TRUE /\ ready = FALSE /\ rebuilds = 0 /\ legacy = 0
  BY InitTyped DEF InitRebuild, Init, StoreInit, Typed
<1>2. \A u \in Uuids : ~Exists(u)
  BY <1>1 DEF Exists
<1>3. RebuildTypeOK
  <2>1. rebuilds \in 0..MaxRebuilds /\ legacy \in 0..MaxLegacy
    BY <1>1, RebuildAssumption
  <2>2. page \in [Uuids -> Document]
    BY <1>1, NoPage
  <2>3. present \in BOOLEAN /\ ready \in BOOLEAN
    BY Zenon DEF InitRebuild
  <2>4. round \in 1..2 /\ scope \in Groups \cup {AllGroups} /\ rest \in SUBSET Uuids
    BY <1>1
  <2>5. QED
    BY <1>1, <2>1, <2>2, <2>3, <2>4 DEF RebuildTypeOK
<1>4. \A u \in Uuids : Fits(u, NoDocument) /\ EntityAt(u)
  BY <1>1, <1>2 DEF Fits, EntityAt, NoDocument, Live, Grouped
<1>5. \A p \in Procs : pc[p] # "prepare" /\ docs[p] = NoDocuments
  BY <1>1 DEF InitRebuild, Init
<1>6. StoresFit
  BY <1>1, <1>4, <1>5 DEF StoresFit, HeldFits, Resting, ReservationsDistinct, NoDocuments
<1>7. Wiped /\ Covered /\ Stages
  BY <1>1 DEF Wiped, Emptied, Covered, Filling, Stages
<1>8. QED
  BY <1>1, <1>3, <1>6, <1>7 DEF RebuildInv, Typed

LEMMA StutterRebuildInv ==
    ASSUME RebuildInv, UNCHANGED allVars
    PROVE  RebuildInv'
<1>1. UNCHANGED vars /\ UNCHANGED <<op, scope, round, rest, page, present, ready, rebuilds, legacy>>
  BY DEF allVars, opVars
<1>2. /\ Untouched /\ UNCHANGED <<index, todo, left>>
      /\ Wiped /\ Covered /\ TypeOK
  BY <1>1, UntouchedVars DEF RebuildInv, RebuildTypeOK
<1>3. RebuildTypeOK'
  BY <1>1, UnchangedVarsTyped DEF RebuildInv, RebuildTypeOK
<1>4. Wiped'
  <2>1. \A u \in Uuids : Quiet(u, index[u]) => Quiet(u, index[u])'
    BY <1>2, SameQuiet
  <2>2. QED
    BY <1>1, <1>2, <2>1 DEF Wiped, Emptied, Filling
<1>5. Covered'
  <2>1. /\ Backfillable' = Backfillable
        /\ \A u \in Backfillable : Content(u)' = Content(u) /\ graph'[u].ver = graph[u].ver
    BY <1>1, <1>2, SameBackfillable
  <2>2. Versioned(page)' = Versioned(page)
    BY <1>1 DEF Versioned
  <2>3. QED
    BY <1>1, <1>2, <2>1, <2>2 DEF Covered, Filling
<1>6. Stages'
  BY <1>1 DEF RebuildInv, Stages
<1>7. ready' => Authorized'
  <2>1. op = "purge" => (ready => \A u \in rest : Exists(u) => graph[u].group = scope)
    BY DEF RebuildInv, Authorized
  <2>2. \A u \in Uuids : UnderRepair(u) => UnderRepair(u)'
    BY <1>1, <1>2 DEF UnderRepair, Untouched
  <2>3. QED
    BY <1>1, <1>2, <2>1, <2>2, SameAuthorized DEF RebuildInv
<1>8. QED
  BY <1>1, <1>2, <1>3, <1>4, <1>5, <1>6, <1>7, CommandInv

LEMMA CommandStepInv ==
    ASSUME RebuildInv, CommandStep \/ CommandFails
    PROVE  RebuildInv'
<1>1. CASE RejectBatch
  <2>1. /\ op = "write" /\ Fails /\ UNCHANGED <<pc, todo, left, docs, batch, ahead, stack>>
        /\ faults' = faults /\ faults \in 0..MaxFaults
    BY <1>1 DEF RejectBatch, procVars, RebuildInv, RebuildTypeOK, TypeOK
  <2>2. QED
    BY <2>1, FailsInv DEF Idle
<1>2. CASE CommandFails
  <2>1. faults' \in 0..MaxFaults
    BY <1>2, ProcessAssumption DEF CommandFails, RebuildInv, RebuildTypeOK, TypeOK
  <2>2. QED
    BY <1>2, <2>1, FailsInv DEF CommandFails
<1>3. QED
  BY <1>1, <1>2, DeleteIndexInv, CreateIndexInv, ListDocumentsInv, PurgeDocumentsInv,
     ReadBatchInv, WriteBatchInv, BatchIndexedInv, ClearBatchInv
     DEF CommandStep

LEMMA NextRebuildInv == RebuildInv /\ [NextRebuild]_allVars => RebuildInv'
<1> SUFFICES ASSUME RebuildInv, NextRebuild \/ UNCHANGED allVars PROVE RebuildInv'
  OBVIOUS
<1>1. CASE NextRebuild
  BY <1>1, ClientActsInv, ReconcilerActsInv, RequestLandsInv, LegacyDeleteInv, BeginInv,
     CommandStepInv, RerunInv, ResumeInv
     DEF NextRebuild
<1>2. QED
  BY <1>1, StutterRebuildInv

(* The invariant of the backfill command, of the reconcilers that go on    *)
(* beside it and of the clients before and after it.                       *)
THEOREM RebuildInvHolds == SpecRebuild => []RebuildInv
BY InitRebuildInv, NextRebuildInv, PTL DEF SpecRebuild

(* An entity that is not being deleted, of which the index has the         *)
(* generation, is indexed as it is.                                        *)
LEMMA SameGeneration ==
    ASSUME StoresFit, NEW u \in Uuids, Exists(u), ~graph[u].del, index[u].ver = graph[u].ver
    PROVE  index[u] = Content(u)
BY DEF StoresFit, Fits

(* Whenever reads may be enabled they are sound, whatever rebuilds,        *)
(* failures, deletions without projection and sweeps came before           *)
(* (backfill_embeddings._main_async, OpenSearchOperations.reset_index).    *)
THEOREM RebuiltReadsSound == SpecRebuild => []ReadsSound
<1>1. RebuildInv => ReadsSound
  <2> SUFFICES ASSUME RebuildInv, ready PROVE
          /\ VectorsOwned
          /\ \A u \in Uuids :
                Clean(u) /\ graph[u].val # NoVector /\ ~(op # "idle" /\ graph[u].group = scope)
                    => index[u] = Content(u)
    BY DEF ReadsSound
  <2>1. Authorized /\ StoresFit
    BY DEF RebuildInv
  <2>2. VectorsOwned
    BY <2>1 DEF VectorsOwned, Authorized, Owned, StoresFit, Fits
  <2>3. ASSUME NEW u \in Uuids, Clean(u), graph[u].val # NoVector,
               ~(op # "idle" /\ graph[u].group = scope)
        PROVE  index[u] = Content(u)
    <3>1. index[u].ver = graph[u].ver
      BY <2>1, <2>3 DEF Authorized, Exact, UnderRepair
    <3>2. QED
      BY <2>1, <2>3, <3>1, SameGeneration DEF Clean
  <2>4. QED
    BY <2>2, <2>3
<1>2. QED
  BY <1>1, RebuildInvHolds, PTL

(* A rebuild or a repair that reports success has made the index an exact  *)
(* image of its scope (backfill_embeddings._main_async,                    *)
(* vector_projection.backfill).                                            *)
THEOREM RebuildIsExact == SpecRebuild => []RebuildExact
<1>1. RebuildInv => RebuildExact
  <2> SUFFICES ASSUME RebuildInv, op = "complete", NEW g \in Groups,
                      scope \in {AllGroups, g}, NEW u \in Uuids
               PROVE  Found(u, g) = Stored(u, g)
    BY DEF RebuildExact
  <2>1. /\ StoresFit /\ Fits(u, index[u]) /\ page = NoDocuments /\ rest = {}
        /\ scope \in {AllGroups, index[u].group} => Quiet(u, index[u])
        /\ u \in Backfillable => index[u].ver = graph[u].ver
    BY NoPage DEF RebuildInv, StoresFit, Wiped, Covered, Emptied, Filling
  <2>2. CASE Live(index[u]) /\ index[u].group = g
    <3>1. Quiet(u, index[u]) /\ Grouped(index[u])
      BY <2>1, <2>2 DEF Fits
    <3>2. Exists(u) /\ ~graph[u].del /\ index[u] = Content(u)
      BY <3>1 DEF Quiet
    <3>3. graph[u].group = g /\ graph[u].val = index[u].val
      BY <2>2, <3>2 DEF Content
    <3>4. QED
      BY <2>2, <3>2, <3>3 DEF Found, Stored, Removed
  <2>3. CASE ~(Live(index[u]) /\ index[u].group = g)
    <3>1. Found(u, g) = NoVector
      BY <2>3 DEF Found
    <3>2. ASSUME ~Removed(u), graph[u].group = g, graph[u].val # NoVector PROVE FALSE
      <4>1. u \in Backfillable
        BY <3>2 DEF Backfillable, Removed
      <4>2. index[u] = Content(u)
        BY <2>1, <3>2, <4>1, SameGeneration DEF Removed
      <4>3. QED
        BY <2>3, <3>2, <4>2 DEF Content, Live
    <3>3. QED
      BY <3>1, <3>2 DEF Stored
  <2>4. QED
    BY <2>2, <2>3
<1>2. QED
  BY <1>1, RebuildInvHolds, PTL
=============================================================================
