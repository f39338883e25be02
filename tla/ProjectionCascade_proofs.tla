---------------------- MODULE ProjectionCascade_proofs ----------------------
(***************************************************************************)
(* Machine-checked proofs about ProjectionCascade, for any nodes, edges    *)
(* and endpoints, partitions, embeddings, clients and reconcilers, and any *)
(* bounds.                                                                 *)
(***************************************************************************)
EXTENDS ProjectionCascade, FiniteSetTheorems, WellFoundedInduction, TLAPS

-----------------------------------------------------------------------------
(* A page of a nonempty set of uuids is not empty.                         *)

LEMMA SmallestUuid ==
    ASSUME NEW S, S \subseteq Nat, S # {}
    PROVE  \E m \in S : \A v \in S : ~(v < m)
<1> DEFINE below(x) == {v \in S : v <= x}
           T == {below(x) : x \in S}
           R == StrictSubsetOrdering(S)
<1>1. ASSUME NEW x \in S PROVE below(x) \in FiniteSubsetsOf(S)
  <2>1. x \in Nat /\ \A v \in below(x) : v \in Nat /\ v <= x
    OBVIOUS
  <2>2. IsFiniteSet(below(x))
    BY <2>1, FS_BoundedSetOfNaturals
  <2>3. QED
    BY <2>2 DEF FiniteSubsetsOf
<1>2. T \subseteq FiniteSubsetsOf(S) /\ T # {}
  BY <1>1
<1>3. PICK X \in T : \A Y \in T : <<Y, X>> \notin R
  <2> HIDE DEF T, R
  <2>1. IsWellFoundedOn(R, FiniteSubsetsOf(S))
    BY FS_StrictSubsetOrderingWellFounded DEF R
  <2>2. QED
    BY <1>2, <2>1, WFMin
<1>4. PICK m \in S : X = below(m)
  BY <1>3
<1>5. ASSUME NEW v \in S, v < m PROVE FALSE
  <2>1. v \in Nat /\ m \in Nat /\ \A w \in S : w \in Nat
    OBVIOUS
  <2>2. m \in below(m) /\ m \notin below(v)
    BY <1>5, <2>1
  <2>3. \A w \in S : w <= v => w <= m
    BY <1>5, <2>1
  <2>4. below(v) \subseteq below(m)
    BY <2>3
  <2>5. <<below(v), below(m)>> \in R
    BY <2>2, <2>4 DEF StrictSubsetOrdering
  <2>6. QED
    BY <1>3, <1>4, <2>5
<1>6. QED
  BY <1>5

LEMMA PageOfSome ==
    ASSUME NEW S, S \subseteq Nat, NEW n \in Nat \ {0}, LowestPage(S, n) = {}
    PROVE  S = {}
<1> SUFFICES ASSUME S # {} PROVE FALSE
  OBVIOUS
<1>1. PICK m \in S : \A v \in S : ~(v < m)
  BY SmallestUuid
<1>2. {v \in S : v < m} = {}
  BY <1>1
<1>3. Cardinality({v \in S : v < m}) < n
  BY <1>2, FS_EmptySet
<1>4. QED
  BY <1>3 DEF LowestPage

LEMMA PageWithin == \A S, n : LowestPage(S, n) \in SUBSET S
BY DEF LowestPage

-----------------------------------------------------------------------------
(* Type correctness, an action at a time.                                  *)

LEMMA Types ==
    /\ Clients \subseteq Procs /\ Reconcilers \subseteq Procs
    /\ \A p \in Procs : Rest(p) \in {"idle", "sweep_edges"}
    /\ NoDocument \in Document /\ NoDocuments \in [Uuids -> Document]
    /\ NoDoom \in [Nodes -> Nat]
    /\ \A n \in Nat : Tombstone(n) \in Document
BY DEF Procs, Rest, NoDocument, NoDocuments, NoDoom, Tombstone, Document, Vectors

LEMMA GraphTypes ==
    ASSUME TypeOK, NEW S \in SUBSET Uuids, NEW d \in [Uuids -> Document]
    PROVE  /\ Cleared(S, d) \in [Uuids -> Entity \cup {Absent}]
           /\ Prepared(S, d) \in [Uuids -> Entity \cup {Absent}]
           /\ Finalized(S, d) \in [Uuids -> Entity \cup {Absent}]
           /\ Requests(S, d) \in SUBSET Write
<1>1. ASSUME NEW u \in Uuids, Exists(u)
      PROVE  /\ [graph[u] EXCEPT !.sync = 0] \in Entity
             /\ [graph[u] EXCEPT !.del = TRUE, !.ver = d[u].ver] \in Entity
  <2>1. graph[u] \in Entity
    BY <1>1 DEF Exists, TypeOK, StoreTypeOK
  <2>2. d[u].ver \in Nat
    BY DEF Document
  <2>3. QED
    BY <2>1, <2>2 DEF Entity
<1>2. Cleared(S, d) \in [Uuids -> Entity \cup {Absent}]
  BY <1>1 DEF Cleared, TypeOK, StoreTypeOK
<1>3. Prepared(S, d) \in [Uuids -> Entity \cup {Absent}]
  BY <1>1 DEF Prepared, TypeOK, StoreTypeOK
<1>4. Finalized(S, d) \in [Uuids -> Entity \cup {Absent}]
  BY DEF Finalized, TypeOK, StoreTypeOK
<1>5. Requests(S, d) \in SUBSET Write
  BY DEF Requests, Write
<1>6. QED
  BY <1>2, <1>3, <1>4, <1>5

(* The locals of a process.                                                *)
LEMMA LocalTypes ==
    ASSUME TypeOK, NEW p \in Procs
    PROVE  batch[p] \in SUBSET Uuids /\ docs[p] \in [Uuids -> Document]
           /\ doomed[p] \in [Nodes -> Nat]
BY DEF TypeOK

LEMMA ForgetsTyped ==
    ASSUME TypeOK, NEW p \in Procs, Forgets(p)
    PROVE  docs' \in [Procs -> [Uuids -> Document]] /\ batch' \in [Procs -> SUBSET Uuids]
BY Types DEF TypeOK, Forgets

LEMMA SaveNodeTyped ==
    ASSUME TypeOK, NEW c \in Clients, NEW n \in Nodes, SaveNode(c, n)
    PROVE  TypeOK'
<1>1. counter[n] \in Nat /\ counter[n] + 1 \in Nat
  BY DEF TypeOK
<1>2. [ver |-> counter[n] + 1, del |-> FALSE] \in Node
  BY <1>1 DEF Node
<1>3. /\ counter' = [counter EXCEPT ![n] = counter[n] + 1]
      /\ \/ node' = node
         \/ node' = [node EXCEPT ![n] = [ver |-> counter[n] + 1, del |-> FALSE]]
      /\ ops < MaxOps /\ ops' = ops + 1
      /\ UNCHANGED <<ledger, graph, index, net, pc, doomed, docs, batch, faults>>
  BY DEF SaveNode, Starts, storeVars
<1>4. counter' \in [Nodes -> Nat] /\ node' \in [Nodes -> Node \cup {Absent}]
  BY <1>1, <1>2, <1>3 DEF TypeOK
<1>5. ops' \in 0..MaxOps
  BY <1>3, CascadeAssumption DEF TypeOK
<1>6. QED
  BY <1>3, <1>4, <1>5 DEF TypeOK, StoreTypeOK

LEMMA StartsTyped ==
    ASSUME TypeOK, NEW c \in Clients, Starts(c)
    PROVE  ops' \in 0..MaxOps
BY CascadeAssumption DEF TypeOK, Starts

(* What a save of edges writes, and what it goes on to send.               *)
Written(u, req) == [ver |-> ledger[u] + 1, group |-> req[u].group,
                    val |-> req[u].val, sync |-> ledger[u] + 1, del |-> FALSE]

Sent(u, req) == [ver |-> ledger[u] + 1, group |-> req[u].group, val |-> req[u].val]

Saves(c, C, req) ==
    /\ ledger' = Reserved(C)
    /\ graph' = [u \in Uuids |->
          IF u \in {v \in C : Takes(v)} THEN Written(u, req) ELSE graph[u]]
    /\ \/ /\ {v \in C : Takes(v)} = C
          /\ docs' = [docs EXCEPT ![c] =
                [u \in Uuids |-> IF u \in C THEN Sent(u, req) ELSE NoDocument]]
          /\ batch' = [batch EXCEPT ![c] = C]
          /\ Goto(c, "send")
       \/ UNCHANGED <<pc, docs, batch>>

LEMMA SavesSome ==
    ASSUME TypeOK, NEW c \in Clients, SaveEdges(c)
    PROVE  /\ \E C \in SUBSET Uuids : \E req \in [C -> Request] : Saves(c, C, req)
           /\ \A C \in SUBSET Uuids : \A req \in [C -> Request] : \A u \in C :
                 Written(u, req) \in Entity /\ Sent(u, req) \in Document
<1>1. \E C \in Chunks(Uuids) : \E req \in [C -> Request] : Saves(c, C, req)
  BY Zenon DEF SaveEdges, Saves, Written, Sent
<1>2. Chunks(Uuids) \subseteq SUBSET Uuids
  BY DEF Chunks
<1>3. ASSUME NEW C \in SUBSET Uuids, NEW req \in [C -> Request], NEW u \in C
      PROVE  Written(u, req) \in Entity /\ Sent(u, req) \in Document
  <2>1. ledger[u] + 1 \in Nat /\ req[u] \in Request
    BY DEF TypeOK, StoreTypeOK
  <2>2. QED
    BY <2>1 DEF Request, Entity, Document, Written, Sent
<1>4. QED
  BY <1>1, <1>2, <1>3

LEMMA SaveEdgesTyped ==
    ASSUME TypeOK, NEW c \in Clients, SaveEdges(c)
    PROVE  TypeOK'
<1>1. PICK C \in SUBSET Uuids : \E req \in [C -> Request] : Saves(c, C, req)
  BY SavesSome
<1>2. PICK req \in [C -> Request] : Saves(c, C, req)
  BY <1>1
<1>3. \A u \in C : Written(u, req) \in Entity /\ Sent(u, req) \in Document
  BY SavesSome
<1>4. UNCHANGED <<index, net, counter, node, doomed, faults>> /\ ops' \in 0..MaxOps
  BY StartsTyped DEF SaveEdges, nodeVars
<1>5. ledger' \in [Uuids -> Nat]
  BY <1>2 DEF Saves, Reserved, TypeOK, StoreTypeOK
<1>6. graph' \in [Uuids -> Entity \cup {Absent}]
  <2>1. \A u \in Uuids : (IF u \in {v \in C : Takes(v)} THEN Written(u, req) ELSE graph[u])
                            \in Entity \cup {Absent}
    BY <1>3 DEF TypeOK, StoreTypeOK
  <2>2. QED
    BY <1>2, <2>1 DEF Saves
<1>7. StoreTypeOK'
  BY <1>4, <1>5, <1>6 DEF TypeOK, StoreTypeOK
<1>8. [u \in Uuids |-> IF u \in C THEN Sent(u, req) ELSE NoDocument]
        \in [Uuids -> Document]
  BY <1>3, Types
<1>9. CASE /\ docs' = [docs EXCEPT ![c] =
                 [u \in Uuids |-> IF u \in C THEN Sent(u, req) ELSE NoDocument]]
           /\ batch' = [batch EXCEPT ![c] = C]
           /\ Goto(c, "send")
  <2>1. c \in Procs /\ docs' \in [Procs -> [Uuids -> Document]]
        /\ batch' \in [Procs -> SUBSET Uuids]
    BY <1>8, <1>9, Types DEF TypeOK
  <2>2. QED
    BY <1>4, <1>7, <1>9, <2>1 DEF Goto, TypeOK, Pcs
<1>10. CASE UNCHANGED <<pc, docs, batch>>
  BY <1>4, <1>7, <1>10 DEF TypeOK
<1>11. QED
  BY <1>2, <1>9, <1>10 DEF Saves

LEMMA StartDeleteEdgesTyped ==
    ASSUME TypeOK, NEW c \in Clients, StartDeleteEdges(c)
    PROVE  TypeOK'
<1>1. PICK C \in SUBSET Uuids : batch' = [batch EXCEPT ![c] = C]
  BY DEF StartDeleteEdges, Chunks
<1>2. /\ Goto(c, "reserve") /\ ops' \in 0..MaxOps
      /\ UNCHANGED <<ledger, graph, index, net, counter, node, doomed, docs, faults>>
  BY StartsTyped DEF StartDeleteEdges, storeVars, nodeVars
<1>3. batch' \in [Procs -> SUBSET Uuids]
  BY <1>1 DEF TypeOK
<1>4. QED
  BY <1>2, <1>3 DEF TypeOK, StoreTypeOK, Goto, Pcs

LEMMA StartDeleteNodesTyped ==
    ASSUME TypeOK, NEW c \in Clients, StartDeleteNodes(c)
    PROVE  TypeOK'
<1>1. PICK D \in SUBSET Nodes :
        /\ counter' = [n \in Nodes |-> counter[n] + (IF n \in D THEN 1 ELSE 0)]
        /\ doomed' = [doomed EXCEPT ![c] =
              [n \in Nodes |-> IF n \in D THEN counter[n] + 1 ELSE 0]]
  BY DEF StartDeleteNodes
<1>2. /\ Goto(c, "prepare_nodes") /\ ops' \in 0..MaxOps
      /\ UNCHANGED <<ledger, graph, index, net, node, docs, batch, faults>>
  BY StartsTyped DEF StartDeleteNodes, storeVars
<1>3. \A n \in Nodes : counter[n] \in Nat
  BY DEF TypeOK
<1>4. counter' \in [Nodes -> Nat]
  BY <1>1, <1>3
<1>5. [n \in Nodes |-> IF n \in D THEN counter[n] + 1 ELSE 0] \in [Nodes -> Nat]
  BY <1>3
<1>6. doomed' \in [Procs -> [Nodes -> Nat]]
  BY <1>1, <1>5 DEF TypeOK
<1>7. QED
  BY <1>2, <1>4, <1>6 DEF TypeOK, StoreTypeOK, Goto, Pcs

LEMMA PrepareNodesTyped ==
    ASSUME TypeOK, NEW c \in Clients, PrepareNodes(c)
    PROVE  TypeOK'
<1>1. ASSUME NEW n \in Nodes PROVE [ver |-> doomed[c][n], del |-> TRUE] \in Node
  BY Types DEF TypeOK, Node
<1>2. node' \in [Nodes -> Node \cup {Absent}]
  BY <1>1 DEF PrepareNodes, TypeOK
<1>3. /\ Goto(c, "drain")
      /\ UNCHANGED <<ledger, graph, index, net, counter, doomed, docs, batch, ops, faults>>
  BY DEF PrepareNodes, storeVars
<1>4. QED
  BY <1>2, <1>3 DEF TypeOK, StoreTypeOK, Goto, Pcs

LEMMA SendTyped ==
    ASSUME TypeOK, NEW p \in Procs, NEW where \in Pcs, Goto(p, where),
           net' = net \cup Requests(batch[p], docs[p]),
           UNCHANGED <<ledger, graph, index, counter, node, doomed, docs, batch, ops, faults>>
    PROVE  TypeOK'
<1>1. Requests(batch[p], docs[p]) \in SUBSET Write
  BY GraphTypes, LocalTypes
<1>2. QED
  BY <1>1 DEF TypeOK, StoreTypeOK, Goto

LEMMA QuietTyped ==
    ASSUME TypeOK, NEW p \in Procs, NEW where \in Pcs, Goto(p, where),
           UNCHANGED <<ledger, graph, index, net, counter, node, doomed, docs, batch, ops, faults>>
    PROVE  TypeOK'
BY DEF TypeOK, StoreTypeOK, Goto

LEMMA ClearTyped ==
    ASSUME TypeOK, NEW p \in Procs, Clear(p)
    PROVE  TypeOK'
<1>1. /\ graph' = Cleared(batch[p], docs[p]) /\ Goto(p, Rest(p)) /\ Forgets(p)
      /\ UNCHANGED <<ledger, index, net, counter, node, doomed, ops, faults>>
  BY DEF Clear, nodeVars
<1>2. graph' \in [Uuids -> Entity \cup {Absent}]
  BY <1>1, GraphTypes, LocalTypes
<1>3. Rest(p) \in Pcs
  BY Types DEF Pcs
<1>4. QED
  BY <1>1, <1>2, <1>3, ForgetsTyped DEF TypeOK, StoreTypeOK, Goto

LEMMA FinalizeTyped ==
    ASSUME TypeOK, NEW p \in Procs, Finalize(p)
    PROVE  TypeOK'
<1>1. PICK where \in Pcs : Goto(p, where)
  BY DEF Finalize, Pcs
<1>2. /\ graph' = Finalized(batch[p], docs[p]) /\ Forgets(p)
      /\ UNCHANGED <<ledger, index, net, counter, node, doomed, ops, faults>>
  BY DEF Finalize, nodeVars
<1>3. graph' \in [Uuids -> Entity \cup {Absent}]
  BY <1>2, GraphTypes, LocalTypes
<1>4. QED
  BY <1>1, <1>2, <1>3, ForgetsTyped DEF TypeOK, StoreTypeOK, Goto

LEMMA ReserveTyped ==
    ASSUME TypeOK, NEW p \in Procs, Reserve(p)
    PROVE  TypeOK'
<1>1. /\ ledger' = Reserved(batch[p]) /\ Goto(p, "prepare")
      /\ docs' = [docs EXCEPT ![p] = [u \in Uuids |->
            IF u \in batch[p] THEN Tombstone(ledger[u] + 1) ELSE NoDocument]]
      /\ UNCHANGED <<graph, index, net, counter, node, doomed, batch, ops, faults>>
  BY DEF Reserve, nodeVars
<1>2. \A u \in Uuids : ledger[u] \in Nat
  BY DEF TypeOK, StoreTypeOK
<1>3. ledger' \in [Uuids -> Nat]
  BY <1>1, <1>2 DEF Reserved
<1>4. [u \in Uuids |-> IF u \in batch[p] THEN Tombstone(ledger[u] + 1) ELSE NoDocument]
        \in [Uuids -> Document]
  BY <1>2, Types
<1>5. docs' \in [Procs -> [Uuids -> Document]]
  BY <1>1, <1>4 DEF TypeOK
<1>6. QED
  BY <1>1, <1>3, <1>5 DEF TypeOK, StoreTypeOK, Goto, Pcs

LEMMA PrepareTyped ==
    ASSUME TypeOK, NEW p \in Procs, Prepare(p)
    PROVE  TypeOK'
<1>1. /\ graph' = Prepared(batch[p], docs[p]) /\ Goto(p, "bury")
      /\ UNCHANGED <<ledger, index, net, counter, node, doomed, docs, batch, ops, faults>>
  BY DEF Prepare, nodeVars
<1>2. graph' \in [Uuids -> Entity \cup {Absent}]
  BY <1>1, GraphTypes, LocalTypes
<1>3. QED
  BY <1>1, <1>2 DEF TypeOK, StoreTypeOK, Goto, Pcs

LEMMA DrainTyped ==
    ASSUME TypeOK, NEW p \in Procs, Drain(p)
    PROVE  TypeOK'
<1> DEFINE page == LowestPage(UNION {Incident(n) : n \in Owned(p)}, BatchSize)
<1>1. page \in SUBSET Uuids
  BY DEF LowestPage, Incident
<1>2. /\ \/ batch' = [batch EXCEPT ![p] = page] /\ Goto(p, "reserve")
         \/ Goto(p, "finalize_nodes") /\ UNCHANGED batch
      /\ UNCHANGED <<ledger, graph, index, net, counter, node, doomed, docs, ops, faults>>
  BY DEF Drain, storeVars, nodeVars
<1> HIDE DEF page
<1>3. batch' \in [Procs -> SUBSET Uuids]
  BY <1>1, <1>2 DEF TypeOK
<1>4. QED
  BY <1>2, <1>3 DEF TypeOK, StoreTypeOK, Goto, Pcs

LEMMA FinalizeNodesTyped ==
    ASSUME TypeOK, NEW p \in Procs, FinalizeNodes(p)
    PROVE  TypeOK'
<1>1. PICK where \in Pcs : Goto(p, where)
  BY DEF FinalizeNodes, Pcs
<1>2. /\ node' = [n \in Nodes |-> IF n \in Owned(p) THEN Absent ELSE node[n]]
      /\ graph' = [u \in Uuids |->
            IF Endpoints[u] \cap Owned(p) # {} THEN Absent ELSE graph[u]]
      /\ doomed' = [doomed EXCEPT ![p] = NoDoom]
      /\ UNCHANGED <<ledger, index, net, counter, docs, batch, ops, faults>>
  BY DEF FinalizeNodes
<1>3. /\ node' \in [Nodes -> Node \cup {Absent}]
      /\ graph' \in [Uuids -> Entity \cup {Absent}]
      /\ doomed' \in [Procs -> [Nodes -> Nat]]
  BY <1>2, Types DEF TypeOK, StoreTypeOK
<1>4. QED
  BY <1>1, <1>2, <1>3 DEF TypeOK, StoreTypeOK, Goto

(* A reconciler's page, with the documents it read.                        *)
LEMMA SweepTyped ==
    ASSUME TypeOK, NEW r \in Reconcilers, NEW where \in Pcs, Goto(r, where),
           NEW page \in SUBSET Uuids, NEW d \in [Uuids -> Document],
           \/ docs' = [docs EXCEPT ![r] = d] /\ batch' = [batch EXCEPT ![r] = page]
           \/ UNCHANGED <<docs, batch>>,
           UNCHANGED <<ledger, graph, index, net, counter, node, doomed, ops, faults>>
    PROVE  TypeOK'
BY DEF TypeOK, StoreTypeOK, Goto

LEMMA SweepEdgesTyped ==
    ASSUME TypeOK, NEW r \in Reconcilers, SweepEdges(r)
    PROVE  TypeOK'
<1> DEFINE page == LowestPage(PendingDeletes, BatchSize)
           d == [u \in Uuids |-> IF u \in page THEN Tombstone(graph[u].ver) ELSE NoDocument]
<1>1. page \in SUBSET Uuids /\ \A u \in page : graph[u] \in Entity
  BY DEF LowestPage, PendingDeletes, Exists, TypeOK, StoreTypeOK
<1>2. d \in [Uuids -> Document]
  BY <1>1, Types DEF Entity
<1>3. /\ \/ docs' = [docs EXCEPT ![r] = d] /\ batch' = [batch EXCEPT ![r] = page]
            /\ Goto(r, "bury")
         \/ Goto(r, "sweep_nodes") /\ UNCHANGED <<docs, batch>>
      /\ UNCHANGED <<ledger, graph, index, net, counter, node, doomed, ops, faults>>
  BY DEF SweepEdges, storeVars, nodeVars
<1> HIDE DEF page, d
<1>4. "bury" \in Pcs /\ "sweep_nodes" \in Pcs
  BY DEF Pcs
<1>5. QED
  BY <1>1, <1>2, <1>3, <1>4, SweepTyped

LEMMA SweepSavesTyped ==
    ASSUME TypeOK, NEW r \in Reconcilers, SweepSaves(r)
    PROVE  TypeOK'
<1> DEFINE page == LowestPage(PendingSaves, BatchSize)
           d == [u \in Uuids |->
                   IF u \in page
                   THEN [ver |-> graph[u].ver, group |-> graph[u].group, val |-> graph[u].val]
                   ELSE NoDocument]
<1>1. page \in SUBSET Uuids /\ \A u \in page : graph[u] \in Entity
  BY DEF LowestPage, PendingSaves, Exists, TypeOK, StoreTypeOK
<1>2. d \in [Uuids -> Document]
  <2>1. \A u \in page :
           [ver |-> graph[u].ver, group |-> graph[u].group, val |-> graph[u].val] \in Document
    BY <1>1 DEF Entity, Document
  <2>2. QED
    BY <2>1, Types
<1>3. /\ \/ docs' = [docs EXCEPT ![r] = d] /\ batch' = [batch EXCEPT ![r] = page]
            /\ Goto(r, "send")
         \/ Goto(r, "sweep_edges") /\ UNCHANGED <<docs, batch>>
      /\ UNCHANGED <<ledger, graph, index, net, counter, node, doomed, ops, faults>>
  BY DEF SweepSaves, storeVars, nodeVars
<1> HIDE DEF page, d
<1>4. "send" \in Pcs /\ "sweep_edges" \in Pcs
  BY DEF Pcs
<1>5. QED
  BY <1>1, <1>2, <1>3, <1>4, SweepTyped

LEMMA SweepNodesTyped ==
    ASSUME TypeOK, NEW r \in Reconcilers, SweepNodes(r)
    PROVE  TypeOK'
<1>1. \A n \in Nodes : Marked(n) => node[n].ver \in Nat
  BY DEF TypeOK, Marked, Node
<1>2. [n \in Nodes |-> IF Marked(n) THEN node[n].ver ELSE 0] \in [Nodes -> Nat]
  BY <1>1
<1>3. doomed' \in [Procs -> [Nodes -> Nat]]
  BY <1>2 DEF SweepNodes, TypeOK
<1>4. /\ Goto(r, "drain") \/ Goto(r, "sweep_saves")
      /\ UNCHANGED <<ledger, graph, index, net, counter, node, docs, batch, ops, faults>>
  BY DEF SweepNodes, storeVars, nodeVars
<1>5. QED
  BY <1>3, <1>4 DEF TypeOK, StoreTypeOK, Goto, Pcs

LEMMA FailsTyped ==
    ASSUME TypeOK, NEW p \in Procs, Fails(p)
    PROVE  TypeOK'
<1>1. faults' \in 0..MaxFaults
  BY CascadeAssumption DEF Fails, TypeOK
<1>2. /\ Goto(p, Rest(p)) /\ Forgets(p) /\ doomed' = [doomed EXCEPT ![p] = NoDoom]
      /\ UNCHANGED <<ledger, graph, index, net, counter, node, ops>>
  BY DEF Fails, storeVars, nodeVars
<1>3. Rest(p) \in Pcs /\ doomed' \in [Procs -> [Nodes -> Nat]]
  BY <1>2, Types DEF Pcs, TypeOK
<1>4. QED
  BY <1>1, <1>2, <1>3, ForgetsTyped DEF TypeOK, StoreTypeOK, Goto

LEMMA LandsTyped ==
    ASSUME TypeOK, NEW w \in net, Lands(w)
    PROVE  TypeOK'
BY DEF Lands, Deliver, nodeVars, TypeOK, StoreTypeOK, Write

LEMMA InitTyped == Init => TypeOK
BY Types, CascadeAssumption DEF Init, StoreInit, TypeOK, StoreTypeOK, Procs, Pcs

-----------------------------------------------------------------------------
(* The inductive invariant.                                                *)

Clean(u) == Exists(u) /\ ~graph[u].del /\ graph[u].sync = 0

Content(u) == [ver |-> graph[u].ver, group |-> graph[u].group, val |-> graph[u].val]

(* A document of u that is stored, under way or held by a process: it is   *)
(* no newer than the relationship and, at the same generation, it is what  *)
(* the relationship says; if searchable, it is too old to be accepted or   *)
(* the relationship is there.                                              *)
Coherent(u, d) ==
    /\ d.ver <= ledger[u]
    /\ Exists(u) =>
         /\ d.ver <= graph[u].ver
         /\ d.ver = graph[u].ver => IF graph[u].del THEN ~Live(d) ELSE d = Content(u)
    /\ Live(d) => d.ver <= index[u].ver \/ Exists(u)

Sound(u) ==
    /\ Exists(u) => 0 < graph[u].ver /\ graph[u].ver <= ledger[u]
    /\ Coherent(u, index[u])
    /\ Clean(u) => index[u].ver = graph[u].ver
    /\ Live(index[u]) => Exists(u)

NetCoherent == \A w \in net : Coherent(w.uuid, w.doc)

(* A deletion between its reservation and its prepare query is the one     *)
(* holder of a document the graph does not know of yet.                    *)
HeldAt(p) ==
    \A u \in Uuids :
        IF pc[p] = "prepare"
        THEN /\ ~Live(docs[p][u])
             /\ docs[p][u].ver <= ledger[u]
             /\ docs[p][u].ver # 0 => u \in batch[p]
             /\ Exists(u) => graph[u].ver # docs[p][u].ver
        ELSE Coherent(u, docs[p][u])

DurableAt(p) ==
    pc[p] \in {"clear", "finalize"} => \A u \in batch[p] : index[u].ver >= docs[p][u].ver

ReservationsDistinct ==
    \A p, q \in Procs : \A u \in Uuids :
        /\ p # q /\ pc[p] = "prepare" /\ pc[q] = "prepare"
        /\ docs[p][u].ver # 0
        => docs[p][u].ver # docs[q][u].ver

EdgeInv ==
    /\ \A u \in Uuids : Sound(u)
    /\ NetCoherent
    /\ \A p \in Procs : HeldAt(p) /\ DurableAt(p)
    /\ ReservationsDistinct

GenerationsKnown ==
    /\ \A n \in Nodes : node[n] # Absent => node[n].ver <= counter[n]
    /\ \A p \in Procs : \A n \in Nodes : doomed[p][n] <= counter[n]

(* The generation a client is about to mark a node with is known to nobody *)
(* else, so a deletion that drained the edges of a node never comes to own *)
(* another one.                                                            *)
MarksFresh ==
    \A c \in Procs : \A n \in Nodes :
        pc[c] = "prepare_nodes" /\ doomed[c][n] # 0 =>
            /\ node[n] # Absent => node[n].ver # doomed[c][n]
            /\ \A p \in Procs \ {c} : doomed[p][n] # doomed[c][n]

(* A process that removes nodes has drained all it owns.                   *)
Drained(p) ==
    pc[p] = "finalize_nodes" => \A n \in Owned(p) : Incident(n) = {}

NodeInv == GenerationsKnown /\ MarksFresh /\ \A p \in Procs : Drained(p)

Inv == TypeOK /\ EdgeInv /\ NodeInv

-----------------------------------------------------------------------------
(* What a step of the stores does to one relationship, and that documents  *)
(* stay coherent with it.                                                  *)

KeepsDocuments(u) == \A d \in Document : Coherent(u, d) => Coherent(u, d)'

TypedAt(u) ==
    /\ ledger[u] \in Nat
    /\ graph[u] = Absent \/ graph[u] \in Entity
    /\ index[u] \in Document

LEMMA TypedEverywhere ==
    /\ TypeOK => \A u \in Uuids : TypedAt(u)
    /\ TypeOK' => \A u \in Uuids : TypedAt(u)'
BY DEF TypeOK, StoreTypeOK, TypedAt

LEMMA SameAt ==
    ASSUME NEW u \in Uuids, TypedAt(u), TypedAt(u)', Sound(u),
           ledger'[u] >= ledger[u], graph'[u] = graph[u], index'[u] = index[u]
    PROVE  Sound(u)' /\ KeepsDocuments(u)
BY DEF TypedAt, Sound, KeepsDocuments, Coherent, Exists, Clean, Live, Content, Document, Entity

(* A save creates the relationship or replaces it, wherever it was.        *)
LEMMA SaveAt ==
    ASSUME NEW u \in Uuids, TypedAt(u), TypedAt(u)', Sound(u),
           NEW g \in Groups, NEW val \in Vectors, NEW v \in Nat, v = ledger[u] + 1,
           ledger'[u] = v, index'[u] = index[u],
           graph'[u] = [ver |-> v, group |-> g, val |-> val, sync |-> v, del |-> FALSE]
    PROVE  /\ Sound(u)' /\ KeepsDocuments(u)
           /\ Coherent(u, [ver |-> v, group |-> g, val |-> val])'
<1>1. /\ graph'[u].ver = v /\ graph'[u].sync = v /\ ~graph'[u].del
      /\ Content(u)' = [ver |-> v, group |-> g, val |-> val]
  BY DEF Content
<1>2. Exists(u)'
  <2>1. graph'[u] \in Entity
    BY DEF Entity, TypedAt
  <2>2. QED
    BY <2>1, StoreAssumption DEF Exists
<1>3. ASSUME NEW d \in Document, Coherent(u, d)
      PROVE  Coherent(u, d)'
  <2>1. d.ver <= ledger[u] /\ d.ver \in Nat
    BY <1>3 DEF Coherent, Document
  <2>2. d.ver < graph'[u].ver /\ d.ver <= ledger'[u]
    BY <1>1, <2>1 DEF TypedAt
  <2>3. QED
    BY <1>1, <1>2, <2>2 DEF Coherent, Live, TypedAt
<1>4. Coherent(u, index[u])'
  BY <1>3 DEF Sound, TypedAt
<1>5. Sound(u)'
  BY <1>1, <1>2, <1>4 DEF Sound, Clean, Live, TypedAt
<1>6. Coherent(u, [ver |-> v, group |-> g, val |-> val])'
  BY <1>1, <1>2 DEF Coherent, Live, TypedAt
<1>7. QED
  BY <1>3, <1>5, <1>6 DEF KeepsDocuments

(* A deletion marks an older relationship and takes over its generation.   *)
LEMMA PrepareAt ==
    ASSUME NEW u \in Uuids, TypedAt(u), TypedAt(u)', Sound(u),
           NEW v \in Nat, v <= ledger[u], Exists(u), graph[u].ver < v,
           ledger'[u] = ledger[u], index'[u] = index[u],
           graph'[u] = [graph[u] EXCEPT !.del = TRUE, !.ver = v]
    PROVE  Sound(u)' /\ KeepsDocuments(u)
<1>1. Exists(u)' /\ graph[u] \in Entity /\ graph'[u].ver = v /\ graph'[u].del
  BY StoreAssumption DEF Exists, Entity, TypedAt
<1>2. KeepsDocuments(u)
  BY <1>1 DEF TypedAt, Sound, KeepsDocuments, Coherent, Exists, Live, Document, Entity
<1>3. QED
  BY <1>1, <1>2 DEF TypedAt, Sound, KeepsDocuments, Coherent, Exists, Clean, Live, Document, Entity

(* An exact acknowledgement after the index has caught up.                 *)
LEMMA ClearAt ==
    ASSUME NEW u \in Uuids, TypedAt(u), TypedAt(u)', Sound(u),
           Exists(u), ~graph[u].del, index[u].ver >= graph[u].ver,
           ledger'[u] = ledger[u], index'[u] = index[u],
           graph'[u] = [graph[u] EXCEPT !.sync = 0]
    PROVE  Sound(u)' /\ KeepsDocuments(u)
<1>1. /\ Exists(u)' /\ graph[u] \in Entity
      /\ graph'[u].ver = graph[u].ver /\ graph'[u].del = graph[u].del
      /\ graph'[u].group = graph[u].group /\ graph'[u].val = graph[u].val
      /\ graph'[u].sync = 0
  BY StoreAssumption DEF Exists, Entity, TypedAt
<1>2. KeepsDocuments(u)
  BY <1>1 DEF TypedAt, Sound, KeepsDocuments, Coherent, Exists, Live, Content, Document, Entity
<1>3. QED
  BY <1>1, <1>2 DEF TypedAt, Sound, KeepsDocuments, Coherent, Exists, Clean, Live, Content,
     Document, Entity

(* It goes once its tombstone, or something later, is in the index.        *)
LEMMA FinalizeAt ==
    ASSUME NEW u \in Uuids, TypedAt(u), TypedAt(u)', Sound(u),
           Exists(u), graph[u].del, index[u].ver >= graph[u].ver,
           ledger'[u] = ledger[u], index'[u] = index[u], graph'[u] = Absent
    PROVE  Sound(u)' /\ KeepsDocuments(u)
<1>1. ~Exists(u)' /\ graph[u] \in Entity
  BY DEF Exists, TypedAt
<1>2. KeepsDocuments(u)
  BY <1>1 DEF TypedAt, Sound, KeepsDocuments, Coherent, Exists, Live, Document, Entity
<1>3. ~Live(index[u])
  BY <1>1 DEF Sound, Coherent, TypedAt, Document, Entity
<1>4. QED
  BY <1>1, <1>2, <1>3 DEF TypedAt, Sound, KeepsDocuments, Coherent, Exists, Clean, Live, Document

(* A request lands only over a smaller version.                            *)
LEMMA DeliverAt ==
    ASSUME NEW u \in Uuids, TypedAt(u), TypedAt(u)', Sound(u),
           NEW d \in Document, Coherent(u, d), d.ver > index[u].ver,
           ledger'[u] = ledger[u], graph'[u] = graph[u], index'[u] = d
    PROVE  Sound(u)' /\ KeepsDocuments(u)
<1>1. KeepsDocuments(u)
  BY DEF TypedAt, KeepsDocuments, Coherent, Exists, Live, Content, Document, Entity
<1>2. QED
  BY <1>1 DEF TypedAt, Sound, KeepsDocuments, Coherent, Exists, Clean, Live, Content, Document, Entity

-----------------------------------------------------------------------------
(* A step of one process: what it leaves to the others.                    *)

Others(c) ==
    \A p \in Procs \ {c} : pc'[p] = pc[p] /\ docs'[p] = docs[p] /\ batch'[p] = batch[p]

StoresAdvance ==
    \A u \in Uuids :
        /\ Sound(u)' /\ KeepsDocuments(u)
        /\ ledger'[u] >= ledger[u]
        /\ index'[u].ver >= index[u].ver

NoClash(c) ==
    \A p \in Procs \ {c} : pc[p] = "prepare" =>
        \A u \in Uuids : Exists(u)' => graph'[u].ver # docs[p][u].ver

ReservesLater(c) ==
    pc'[c] = "prepare" =>
        \A p \in Procs \ {c} : \A u \in Uuids :
            pc[p] = "prepare" => docs'[c][u].ver = 0 \/ docs'[c][u].ver > docs[p][u].ver

(* A process that does not move keeps its part of the invariant.           *)
LEMMA FrameAt ==
    ASSUME TypeOK, TypeOK', EdgeInv, StoresAdvance, NEW p \in Procs,
           pc'[p] = pc[p], docs'[p] = docs[p], batch'[p] = batch[p],
           pc[p] = "prepare" =>
               \A u \in Uuids : Exists(u)' => graph'[u].ver # docs[p][u].ver
    PROVE  HeldAt(p)' /\ DurableAt(p)'
<1>1. HeldAt(p) /\ DurableAt(p)
  BY DEF EdgeInv
<1>2. ASSUME NEW u \in Uuids
      PROVE  /\ docs[p][u] \in Document /\ docs[p][u].ver \in Nat
             /\ ledger[u] \in Nat /\ ledger'[u] \in Nat
             /\ index[u].ver \in Nat /\ index'[u].ver \in Nat
  BY DEF TypeOK, StoreTypeOK, Document
<1>3. HeldAt(p)'
  <2> SUFFICES ASSUME NEW u \in Uuids
               PROVE  IF pc[p] = "prepare"
                      THEN /\ ~Live(docs'[p][u])
                           /\ docs'[p][u].ver <= ledger'[u]
                           /\ docs'[p][u].ver # 0 => u \in batch'[p]
                           /\ Exists(u)' => graph'[u].ver # docs'[p][u].ver
                      ELSE Coherent(u, docs[p][u])'
    BY DEF HeldAt, Live
  <2>1. CASE pc[p] = "prepare"
    BY <1>1, <1>2, <2>1 DEF HeldAt, StoresAdvance
  <2>2. CASE pc[p] # "prepare"
    <3>1. PICK d \in Document : d = docs[p][u]
      BY <1>2
    <3>2. Coherent(u, d)
      BY <1>1, <2>2, <3>1 DEF HeldAt
    <3>3. Coherent(u, d)'
      BY <3>2 DEF StoresAdvance, KeepsDocuments
    <3>4. d = docs'[p][u]
      BY <3>1
    <3>5. QED
      BY <2>2, <3>3, <3>4 DEF Coherent
  <2>3. QED
    BY <2>1, <2>2
<1>4. DurableAt(p)'
  <2>1. \A u \in batch[p] : u \in Uuids
    BY DEF TypeOK
  <2>2. QED
    BY <1>1, <1>2, <2>1 DEF DurableAt, StoresAdvance
<1>5. QED
  BY <1>3, <1>4

LEMMA FrameStep ==
    ASSUME TypeOK, TypeOK', EdgeInv, NEW c \in Procs, Others(c), StoresAdvance, NoClash(c),
           ReservesLater(c), NetCoherent', HeldAt(c)', DurableAt(c)'
    PROVE  EdgeInv'
<1>1. ASSUME NEW p \in Procs, NEW u \in Uuids
      PROVE  docs[p][u].ver \in Nat /\ docs'[p][u].ver \in Nat
  BY DEF TypeOK, Document
<1>2. ASSUME NEW p \in Procs \ {c} PROVE HeldAt(p)' /\ DurableAt(p)'
  BY FrameAt DEF Others, NoClash
<1>3. ReservationsDistinct'
  BY <1>1 DEF EdgeInv, ReservationsDistinct, Others, ReservesLater
<1>4. QED
  BY <1>2, <1>3 DEF EdgeInv, StoresAdvance

(* Steps that leave the ledger, the graph and the index alone.             *)
LEMMA StoresSame ==
    ASSUME TypeOK, TypeOK', EdgeInv, UNCHANGED <<ledger, graph, index>>
    PROVE  StoresAdvance /\ \A c \in Procs : NoClash(c)
<1>1. ASSUME NEW u \in Uuids
      PROVE  /\ Sound(u)' /\ KeepsDocuments(u)
             /\ ledger'[u] >= ledger[u] /\ index'[u].ver >= index[u].ver
  <2>1. TypedAt(u) /\ TypedAt(u)' /\ Sound(u)
    BY TypedEverywhere DEF EdgeInv
  <2>2. ledger'[u] >= ledger[u] /\ index'[u].ver >= index[u].ver
    BY <2>1 DEF TypedAt, Document
  <2>3. QED
    BY <2>1, <2>2, SameAt
<1>2. \A c \in Procs : NoClash(c)
  BY DEF EdgeInv, NoClash, HeldAt, Exists
<1>3. QED
  BY <1>1, <1>2 DEF StoresAdvance

LEMMA NetSame ==
    ASSUME TypeOK, EdgeInv, StoresAdvance, net' = net
    PROVE  NetCoherent'
<1>1. \A w \in net : w.uuid \in Uuids /\ w.doc \in Document
  BY DEF TypeOK, StoreTypeOK, Write
<1>2. \A w \in net : Coherent(w.uuid, w.doc)'
  BY <1>1 DEF EdgeInv, StoresAdvance, KeepsDocuments, NetCoherent
<1>3. QED
  BY <1>2 DEF NetCoherent

LEMMA NetGrows ==
    ASSUME TypeOK, EdgeInv, StoresAdvance,
           NEW S \in SUBSET Uuids, NEW d \in [Uuids -> Document],
           \A u \in S : Coherent(u, d[u]), net' = net \cup Requests(S, d)
    PROVE  NetCoherent'
<1>1. \A w \in net : w.uuid \in Uuids /\ w.doc \in Document
  BY DEF TypeOK, StoreTypeOK, Write
<1>2. \A w \in net : Coherent(w.uuid, w.doc)'
  BY <1>1 DEF EdgeInv, StoresAdvance, KeepsDocuments, NetCoherent
<1>3. \A w \in Requests(S, d) : Coherent(w.uuid, w.doc)'
  BY DEF Requests, StoresAdvance, KeepsDocuments
<1>4. QED
  BY <1>2, <1>3 DEF NetCoherent

LEMMA NoDocumentCoherent ==
    ASSUME TypeOK, EdgeInv
    PROVE  \A u \in Uuids : Coherent(u, NoDocument)
<1> SUFFICES ASSUME NEW u \in Uuids PROVE Coherent(u, NoDocument)
  OBVIOUS
<1>1. TypedAt(u) /\ Sound(u)
  BY TypedEverywhere DEF EdgeInv
<1>2. QED
  BY <1>1 DEF TypedAt, Sound, Coherent, NoDocument, Live, Entity, Exists

(* A step of process c that changes no store, though it may send requests. *)
LEMMA LocalStep ==
    ASSUME TypeOK, TypeOK', EdgeInv, NEW c \in Procs, Others(c),
           UNCHANGED <<ledger, graph, index>>, NetCoherent',
           pc'[c] \notin {"prepare", "clear", "finalize"},
           \A u \in Uuids : Coherent(u, docs'[c][u])
    PROVE  EdgeInv'
<1>1. StoresAdvance /\ NoClash(c)
  BY StoresSame
<1>2. HeldAt(c)'
  BY DEF HeldAt, Coherent, Exists, Content
<1>3. DurableAt(c)' /\ ReservesLater(c)
  BY DEF DurableAt, ReservesLater
<1>4. QED
  BY <1>1, <1>2, <1>3, FrameStep

(* Where the documents of process c are what they were, or gone.           *)
LEMMA DocumentsKept ==
    ASSUME TypeOK, EdgeInv, NEW c \in Procs,
           (docs'[c] = docs[c] /\ pc[c] # "prepare") \/ docs'[c] = NoDocuments
    PROVE  \A u \in Uuids : Coherent(u, docs'[c][u])
BY NoDocumentCoherent DEF EdgeInv, HeldAt, NoDocuments

(* A step of process c that leaves the stores and its documents alone, or  *)
(* forgets them.                                                           *)
LEMMA QuietStep ==
    ASSUME TypeOK, TypeOK', EdgeInv, NEW c \in Procs, Others(c),
           UNCHANGED <<ledger, graph, index, net>>,
           pc'[c] \notin {"prepare", "clear", "finalize"},
           (docs'[c] = docs[c] /\ pc[c] # "prepare") \/ docs'[c] = NoDocuments
    PROVE  EdgeInv'
BY StoresSame, NetSame, DocumentsKept, LocalStep

LEMMA GotoFrame ==
    ASSUME TypeOK, NEW c \in Procs, NEW where, Goto(c, where)
    PROVE  pc'[c] = where /\ \A p \in Procs \ {c} : pc'[p] = pc[p]
BY DEF Goto, TypeOK

LEMMA ForgetsFrame ==
    ASSUME TypeOK, NEW c \in Procs, Forgets(c)
    PROVE  /\ docs'[c] = NoDocuments
           /\ \A p \in Procs \ {c} : docs'[p] = docs[p] /\ batch'[p] = batch[p]
BY DEF Forgets, TypeOK

-----------------------------------------------------------------------------
(* Steps that change the graph.                                            *)

LEMMA ClearedStores ==
    ASSUME TypeOK, TypeOK', EdgeInv, NEW S \in SUBSET Uuids, NEW d \in [Uuids -> Document],
           \A u \in S : index[u].ver >= d[u].ver,
           graph' = Cleared(S, d), UNCHANGED <<ledger, index>>
    PROVE  StoresAdvance /\ \A c \in Procs : NoClash(c)
<1>1. (\A u \in Uuids : Sound(u)) /\ \A p \in Procs : HeldAt(p)
  BY DEF EdgeInv
<1>2. ASSUME NEW u \in Uuids
      PROVE  /\ Sound(u)' /\ KeepsDocuments(u)
             /\ ledger'[u] >= ledger[u] /\ index'[u].ver >= index[u].ver
             /\ Exists(u)' => Exists(u) /\ graph'[u].ver = graph[u].ver
  <2>1. TypedAt(u) /\ TypedAt(u)' /\ Sound(u)
    BY <1>1, TypedEverywhere
  <2>2. ledger'[u] >= ledger[u] /\ index'[u].ver >= index[u].ver
    BY <2>1 DEF TypedAt, Document
  <2>3. CASE /\ u \in S /\ Exists(u) /\ graph[u].ver = d[u].ver
             /\ graph[u].sync = d[u].ver /\ ~graph[u].del
    <3>1. graph'[u] = [graph[u] EXCEPT !.sync = 0]
      BY <2>3 DEF Cleared
    <3>2. graph'[u].ver = graph[u].ver
      BY <2>1, <2>3, <3>1 DEF TypedAt, Exists, Entity
    <3>3. QED
      BY <2>1, <2>2, <2>3, <3>1, <3>2, ClearAt
  <2>4. CASE ~(/\ u \in S /\ Exists(u) /\ graph[u].ver = d[u].ver
               /\ graph[u].sync = d[u].ver /\ ~graph[u].del)
    <3>1. graph'[u] = graph[u]
      BY <2>4 DEF Cleared
    <3>2. QED
      BY <2>1, <2>2, <3>1, SameAt DEF Exists
  <2>5. QED
    BY <2>3, <2>4
<1>3. \A c \in Procs : NoClash(c)
  BY <1>1, <1>2 DEF NoClash, HeldAt
<1>4. QED
  BY <1>2, <1>3 DEF StoresAdvance

LEMMA FinalizedStores ==
    ASSUME TypeOK, TypeOK', EdgeInv, NEW S \in SUBSET Uuids, NEW d \in [Uuids -> Document],
           \A u \in S : index[u].ver >= d[u].ver,
           graph' = Finalized(S, d), UNCHANGED <<ledger, index>>
    PROVE  StoresAdvance /\ \A c \in Procs : NoClash(c)
<1>1. (\A u \in Uuids : Sound(u)) /\ \A p \in Procs : HeldAt(p)
  BY DEF EdgeInv
<1>2. ASSUME NEW u \in Uuids
      PROVE  /\ Sound(u)' /\ KeepsDocuments(u)
             /\ ledger'[u] >= ledger[u] /\ index'[u].ver >= index[u].ver
             /\ Exists(u)' => Exists(u) /\ graph'[u].ver = graph[u].ver
  <2>1. TypedAt(u) /\ TypedAt(u)' /\ Sound(u)
    BY <1>1, TypedEverywhere
  <2>2. ledger'[u] >= ledger[u] /\ index'[u].ver >= index[u].ver
    BY <2>1 DEF TypedAt, Document
  <2>3. CASE u \in S /\ Exists(u) /\ graph[u].del /\ graph[u].ver = d[u].ver
    <3>1. graph'[u] = Absent
      BY <2>3 DEF Finalized
    <3>2. ~Exists(u)'
      BY <3>1 DEF Exists
    <3>3. QED
      BY <2>1, <2>2, <2>3, <3>1, <3>2, FinalizeAt
  <2>4. CASE ~(u \in S /\ Exists(u) /\ graph[u].del /\ graph[u].ver = d[u].ver)
    <3>1. graph'[u] = graph[u]
      BY <2>4 DEF Finalized
    <3>2. QED
      BY <2>1, <2>2, <3>1, SameAt DEF Exists
  <2>5. QED
    BY <2>3, <2>4
<1>3. \A c \in Procs : NoClash(c)
  BY <1>1, <1>2 DEF NoClash, HeldAt
<1>4. QED
  BY <1>2, <1>3 DEF StoresAdvance

LEMMA PreparedStores ==
    ASSUME TypeOK, TypeOK', EdgeInv, NEW c \in Procs, pc[c] = "prepare",
           graph' = Prepared(batch[c], docs[c]), UNCHANGED <<ledger, index, docs>>
    PROVE  /\ StoresAdvance /\ NoClash(c)
           /\ \A u \in Uuids : Coherent(u, docs[c][u])'
<1>1. (\A u \in Uuids : Sound(u)) /\ ReservationsDistinct /\ \A p \in Procs : HeldAt(p)
  BY DEF EdgeInv
<1>2. ASSUME NEW u \in Uuids
      PROVE  /\ Sound(u)' /\ KeepsDocuments(u)
             /\ ledger'[u] >= ledger[u] /\ index'[u].ver >= index[u].ver
             /\ \/ graph'[u] = graph[u]
                \/ /\ u \in batch[c] /\ docs[c][u].ver # 0
                   /\ graph'[u].ver = docs[c][u].ver
  <2>1. TypedAt(u) /\ TypedAt(u)' /\ Sound(u)
    BY <1>1, TypedEverywhere
  <2>2. ledger'[u] >= ledger[u] /\ index'[u].ver >= index[u].ver
    BY <2>1 DEF TypedAt, Document
  <2>3. docs[c][u].ver \in Nat /\ docs[c][u].ver <= ledger[u]
    BY <1>1 DEF HeldAt, TypeOK, Document
  <2>4. CASE u \in batch[c] /\ Exists(u) /\ graph[u].ver < docs[c][u].ver
    <3>1. graph'[u] = [graph[u] EXCEPT !.del = TRUE, !.ver = docs[c][u].ver]
      BY <2>4 DEF Prepared
    <3>2. graph[u] \in Entity
      BY <2>1, <2>4 DEF TypedAt, Exists
    <3>3. graph'[u].ver = docs[c][u].ver
      BY <3>1, <3>2 DEF Entity
    <3>4. docs[c][u].ver # 0
      BY <2>3, <2>4, <3>2 DEF Entity
    <3>5. Sound(u)' /\ KeepsDocuments(u)
      BY <2>1, <2>3, <2>4, <3>1, PrepareAt
    <3>6. QED
      BY <2>2, <2>4, <3>3, <3>4, <3>5
  <2>5. CASE ~(u \in batch[c] /\ Exists(u) /\ graph[u].ver < docs[c][u].ver)
    <3>1. graph'[u] = graph[u]
      BY <2>5 DEF Prepared
    <3>2. QED
      BY <2>1, <2>2, <3>1, SameAt
  <2>6. QED
    BY <2>4, <2>5
<1>3. NoClash(c)
  <2> SUFFICES ASSUME NEW p \in Procs \ {c}, pc[p] = "prepare", NEW u \in Uuids, Exists(u)'
               PROVE  graph'[u].ver # docs[p][u].ver
    BY DEF NoClash
  <2>1. CASE graph'[u] = graph[u]
    BY <1>1, <2>1 DEF HeldAt, Exists
  <2>2. CASE docs[c][u].ver # 0 /\ graph'[u].ver = docs[c][u].ver
    BY <1>1, <2>2 DEF ReservationsDistinct
  <2>3. QED
    BY <1>2, <2>1, <2>2
<1>4. ASSUME NEW u \in Uuids, NEW d \in Document, d = docs[c][u]
      PROVE  Coherent(u, d)'
  <2>1. /\ ~Live(d) /\ d.ver <= ledger[u]
        /\ d.ver # 0 => u \in batch[c]
        /\ Exists(u) => graph[u].ver # d.ver
    BY <1>1, <1>4 DEF HeldAt
  <2>2. TypedAt(u) /\ TypedAt(u)' /\ Sound(u)
    BY <1>1, TypedEverywhere
  <2>3. d.ver \in Nat
    BY DEF Document
  <2>4. CASE u \in batch[c] /\ Exists(u) /\ graph[u].ver < d.ver
    <3>1. graph'[u] = [graph[u] EXCEPT !.del = TRUE, !.ver = d.ver]
      BY <1>4, <2>4 DEF Prepared
    <3>2. graph[u] \in Entity
      BY <2>2, <2>4 DEF TypedAt, Exists
    <3>3. graph'[u].ver = d.ver /\ graph'[u].del
      BY <3>1, <3>2 DEF Entity
    <3>4. QED
      BY <2>1, <2>3, <3>3 DEF Coherent, Live
  <2>5. CASE ~(u \in batch[c] /\ Exists(u) /\ graph[u].ver < d.ver)
    <3>1. graph'[u] = graph[u]
      BY <1>4, <2>5 DEF Prepared
    <3>2. Exists(u) => d.ver < graph[u].ver
      <4>1. CASE ~Exists(u)
        BY <4>1
      <4>2. CASE Exists(u)
        BY <2>1, <2>2, <2>3, <2>5, <4>2 DEF TypedAt, Exists, Entity, Sound
      <4>3. QED
        BY <4>1, <4>2
    <3>3. QED
      BY <2>1, <2>2, <2>3, <3>1, <3>2 DEF Coherent, Live, Exists, TypedAt, Entity
  <2>6. QED
    BY <2>4, <2>5
<1>5. ASSUME NEW u \in Uuids
      PROVE  Coherent(u, docs[c][u])'
  <2>1. PICK d \in Document : d = docs[c][u]
    BY <1>1 DEF TypeOK
  <2>2. Coherent(u, d)'
    BY <1>4, <2>1
  <2>3. d = docs'[c][u]
    BY <2>1
  <2>4. QED
    BY <2>2, <2>3 DEF Coherent, Live
<1>6. StoresAdvance
  BY <1>2 DEF StoresAdvance
<1>7. QED
  BY <1>3, <1>5, <1>6

LEMMA StillStep ==
    ASSUME TypeOK, TypeOK', EdgeInv, StoresAdvance, NetCoherent',
           UNCHANGED <<graph, pc, docs, batch>>
    PROVE  EdgeInv'
<1>1. ASSUME NEW p \in Procs PROVE HeldAt(p)' /\ DurableAt(p)'
  <2>1. pc[p] = "prepare" => \A u \in Uuids : Exists(u)' => graph'[u].ver # docs[p][u].ver
    BY DEF EdgeInv, HeldAt, Exists
  <2>2. QED
    BY <2>1, FrameAt
<1>2. ReservationsDistinct'
  BY DEF EdgeInv, ReservationsDistinct
<1>3. QED
  BY <1>1, <1>2 DEF EdgeInv, StoresAdvance

(* What process c holds, unless it forgets it, stays coherent.             *)
LEMMA HeldLater ==
    ASSUME TypeOK, TypeOK', EdgeInv, StoresAdvance, NEW c \in Procs,
           (docs'[c] = docs[c] /\ pc[c] # "prepare") \/ docs'[c] = NoDocuments
    PROVE  \A u \in Uuids : Coherent(u, docs[c][u])'
<1> SUFFICES ASSUME NEW u \in Uuids PROVE Coherent(u, docs[c][u])'
  OBVIOUS
<1>1. docs'[c][u] \in Document
  BY DEF TypeOK
<1>2. PICK d \in Document : d = docs'[c][u]
  BY <1>1
<1>3. Coherent(u, d)
  BY <1>2, DocumentsKept
<1>4. Coherent(u, d)'
  BY <1>3 DEF StoresAdvance, KeepsDocuments
<1>5. QED
  BY <1>2, <1>4 DEF Coherent, Live

(* A step of process c that changes the graph and sends nothing.           *)
LEMMA GraphStep ==
    ASSUME TypeOK, TypeOK', EdgeInv, NEW c \in Procs, Others(c), StoresAdvance, NoClash(c),
           net' = net, pc'[c] \notin {"prepare", "clear", "finalize"},
           \A u \in Uuids : Coherent(u, docs[c][u])'
    PROVE  EdgeInv'
<1>1. HeldAt(c)' /\ DurableAt(c)' /\ ReservesLater(c)
  BY DEF HeldAt, DurableAt, ReservesLater
<1>2. QED
  BY <1>1, NetSame, FrameStep

-----------------------------------------------------------------------------
(* The edges' part of the invariant, an action at a time.                  *)

(* A step that touches nothing of the edges.                               *)
LEMMA AsideEdges ==
    ASSUME TypeOK, TypeOK', EdgeInv, UNCHANGED <<storeVars, pc, docs, batch>>
    PROVE  EdgeInv'
<1>1. UNCHANGED <<ledger, graph, index, net>>
  BY DEF storeVars
<1>2. StoresAdvance
  BY <1>1, StoresSame
<1>3. NetCoherent'
  BY <1>1, <1>2, NetSame
<1>4. QED
  BY <1>1, <1>2, <1>3, StillStep

(* A process that only moves on, or gives up what it held.                 *)
LEMMA MovesEdges ==
    ASSUME TypeOK, TypeOK', EdgeInv, NEW c \in Procs, NEW where, Goto(c, where),
           where \notin {"prepare", "clear", "finalize"}, UNCHANGED storeVars,
           \/ UNCHANGED docs /\ pc[c] # "prepare" /\ (\A p \in Procs \ {c} : batch'[p] = batch[p])
           \/ Forgets(c)
    PROVE  EdgeInv'
<1>1. UNCHANGED <<ledger, graph, index, net>>
  BY DEF storeVars
<1>2. pc'[c] = where /\ \A p \in Procs \ {c} : pc'[p] = pc[p]
  BY GotoFrame
<1>3. CASE UNCHANGED docs /\ pc[c] # "prepare" /\ (\A p \in Procs \ {c} : batch'[p] = batch[p])
  <2>1. Others(c)
    BY <1>2, <1>3 DEF Others
  <2>2. docs'[c] = docs[c] /\ pc[c] # "prepare"
    BY <1>3
  <2>3. QED
    BY <1>1, <1>2, <2>1, <2>2, QuietStep
<1>4. CASE Forgets(c)
  <2>1. docs'[c] = NoDocuments /\ Others(c)
    BY <1>2, <1>4, ForgetsFrame DEF Others
  <2>2. QED
    BY <1>1, <1>2, <2>1, QuietStep
<1>5. QED
  BY <1>3, <1>4

LEMMA SaveEdgesEdges ==
    ASSUME TypeOK, TypeOK', EdgeInv, NEW c \in Clients, SaveEdges(c)
    PROVE  EdgeInv'
<1>1. PICK C \in SUBSET Uuids : \E req \in [C -> Request] : Saves(c, C, req)
  BY SavesSome
<1>2. PICK req \in [C -> Request] : Saves(c, C, req)
  BY <1>1
<1>3. /\ c \in Procs /\ pc[c] = "idle" /\ UNCHANGED <<index, net>>
      /\ (\A u \in Uuids : Sound(u)) /\ \A p \in Procs : HeldAt(p)
  BY Types DEF EdgeInv, SaveEdges, Starts
<1>4. /\ ledger' = Reserved(C)
      /\ graph' = [u \in Uuids |-> IF u \in C /\ Takes(u) THEN Written(u, req) ELSE graph[u]]
  BY <1>2 DEF Saves
<1>5. ASSUME NEW u \in Uuids
      PROVE  /\ Sound(u)' /\ KeepsDocuments(u)
             /\ ledger[u] \in Nat /\ ledger'[u] >= ledger[u]
             /\ index'[u].ver >= index[u].ver
             /\ graph'[u] = graph[u] \/ graph'[u].ver = ledger[u] + 1
             /\ u \in C /\ Takes(u) =>
                    \A d \in Document : d = Sent(u, req) => Coherent(u, d)'
  <2>1. TypedAt(u) /\ TypedAt(u)' /\ Sound(u)
    BY <1>3, TypedEverywhere
  <2>2. /\ ledger'[u] >= ledger[u] /\ index'[u].ver >= index[u].ver
        /\ u \in C => ledger'[u] = ledger[u] + 1
    BY <1>3, <1>4, <2>1 DEF Reserved, TypedAt, Document
  <2>3. CASE u \in C /\ Takes(u)
    <3>1. PICK v \in Nat, r \in Request : v = ledger[u] + 1 /\ r = req[u]
      BY <2>1, <2>3 DEF TypedAt
    <3>2. graph'[u] = [ver |-> v, group |-> r.group, val |-> r.val,
                       sync |-> v, del |-> FALSE]
      BY <1>4, <2>3, <3>1 DEF Written
    <3>3. Sent(u, req) = [ver |-> v, group |-> r.group, val |-> r.val]
      BY <3>1 DEF Sent
    <3>4. ledger'[u] = v /\ r.group \in Groups /\ r.val \in Vectors /\ index'[u] = index[u]
      BY <1>3, <2>2, <2>3, <3>1 DEF Request
    <3>5. /\ Sound(u)' /\ KeepsDocuments(u)
          /\ Coherent(u, [ver |-> v, group |-> r.group, val |-> r.val])'
      BY <2>1, <3>1, <3>2, <3>4, SaveAt
    <3>6. graph'[u].ver = ledger[u] + 1
      BY <3>1, <3>2
    <3>7. \A d \in Document : d = Sent(u, req) => Coherent(u, d)'
      BY <3>3, <3>5
    <3>8. QED
      BY <2>1, <2>2, <3>5, <3>6, <3>7 DEF TypedAt
  <2>4. CASE ~(u \in C /\ Takes(u))
    <3>1. graph'[u] = graph[u]
      BY <1>4, <2>4
    <3>2. Sound(u)' /\ KeepsDocuments(u)
      BY <1>3, <2>1, <2>2, <3>1, SameAt
    <3>3. QED
      BY <2>1, <2>2, <2>4, <3>1, <3>2 DEF TypedAt
  <2>5. QED
    BY <2>3, <2>4
<1>6. StoresAdvance
  BY <1>5 DEF StoresAdvance
<1>7. NoClash(c)
  <2> SUFFICES ASSUME NEW p \in Procs \ {c}, pc[p] = "prepare", NEW u \in Uuids, Exists(u)'
               PROVE  graph'[u].ver # docs[p][u].ver
    BY DEF NoClash
  <2>1. docs[p][u].ver \in Nat /\ docs[p][u].ver <= ledger[u]
    BY <1>3 DEF HeldAt, TypeOK, Document
  <2>2. CASE graph'[u] = graph[u]
    BY <1>3, <2>2 DEF HeldAt, Exists
  <2>3. CASE graph'[u].ver = ledger[u] + 1 /\ ledger[u] \in Nat
    BY <2>1, <2>3
  <2>4. QED
    BY <1>5, <2>2, <2>3
<1>8. CASE UNCHANGED <<pc, docs, batch>>
  <2>1. Others(c) /\ pc'[c] = "idle" /\ docs'[c] = docs[c] /\ pc[c] # "prepare"
    BY <1>3, <1>8 DEF Others
  <2>2. \A u \in Uuids : Coherent(u, docs[c][u])'
    BY <1>3, <1>6, <2>1, HeldLater
  <2>3. QED
    BY <1>3, <1>6, <1>7, <2>1, <2>2, GraphStep
<1>9. CASE /\ {v \in C : Takes(v)} = C
           /\ docs' = [docs EXCEPT ![c] =
                 [u \in Uuids |-> IF u \in C THEN Sent(u, req) ELSE NoDocument]]
           /\ batch' = [batch EXCEPT ![c] = C]
           /\ Goto(c, "send")
  <2>1. /\ Others(c) /\ pc'[c] = "send"
        /\ docs'[c] = [u \in Uuids |-> IF u \in C THEN Sent(u, req) ELSE NoDocument]
    BY <1>3, <1>9, GotoFrame DEF Others, TypeOK
  <2>2. ASSUME NEW u \in Uuids
        PROVE  Coherent(u, docs[c][u])'
    <3>1. docs'[c][u] \in Document
      BY <1>3 DEF TypeOK
    <3>2. PICK d \in Document : d = docs'[c][u]
      BY <3>1
    <3>3. CASE u \in C
      <4>1. Takes(u) /\ d = Sent(u, req)
        BY <1>9, <2>1, <3>2, <3>3
      <4>2. Coherent(u, d)'
        BY <1>5, <3>3, <4>1
      <4>3. QED
        BY <3>2, <4>2 DEF Coherent, Live
    <3>4. CASE u \notin C
      <4>1. d = NoDocument
        BY <2>1, <3>2, <3>4
      <4>2. Coherent(u, d)'
        BY <1>6, <4>1, NoDocumentCoherent DEF StoresAdvance, KeepsDocuments
      <4>3. QED
        BY <3>2, <4>2 DEF Coherent, Live
    <3>5. QED
      BY <3>3, <3>4
  <2>3. QED
    BY <1>3, <1>6, <1>7, <2>1, <2>2, GraphStep
<1>10. QED
  BY <1>2, <1>8, <1>9 DEF Saves

(* Requests leave with the documents held, which keep being held.          *)
LEMMA SendEdges ==
    ASSUME TypeOK, TypeOK', EdgeInv, NEW p \in Procs, NEW where, Goto(p, where),
           pc[p] # "prepare", where \notin {"prepare", "clear", "finalize"},
           net' = net \cup Requests(batch[p], docs[p]),
           UNCHANGED <<ledger, graph, index, docs, batch>>
    PROVE  EdgeInv'
<1>1. Others(p) /\ pc'[p] = where
  BY GotoFrame DEF Others
<1>2. batch[p] \in SUBSET Uuids /\ docs[p] \in [Uuids -> Document]
  BY LocalTypes
<1>3. \A u \in Uuids : Coherent(u, docs[p][u])
  BY DEF EdgeInv, HeldAt
<1>4. NetCoherent'
  <2>1. StoresAdvance /\ \A u \in batch[p] : Coherent(u, docs[p][u])
    BY <1>2, <1>3, StoresSame
  <2>2. QED
    BY <1>2, <2>1, NetGrows
<1>5. \A u \in Uuids : Coherent(u, docs'[p][u])
  BY <1>3
<1>6. QED
  BY <1>1, <1>4, <1>5, LocalStep

(* A bulk call that succeeded left every document, or later ones, behind.  *)
LEMMA BulkSucceedsEdges ==
    ASSUME TypeOK, TypeOK', EdgeInv, NEW p \in Procs, BulkSucceeds(p)
    PROVE  EdgeInv'
<1>1. /\ pc[p] \in {"sending", "burying"} /\ Acknowledged(batch[p], docs[p])
      /\ Goto(p, IF pc[p] = "sending" THEN "clear" ELSE "finalize")
      /\ UNCHANGED <<ledger, graph, index, net, docs, batch>>
  BY DEF BulkSucceeds, storeVars
<1>2. Others(p) /\ pc'[p] \in {"clear", "finalize"}
  BY <1>1, GotoFrame DEF Others
<1>3. StoresAdvance /\ NoClash(p)
  BY <1>1, StoresSame
<1>4. NetCoherent'
  BY <1>1, <1>3, NetSame
<1>5. HeldAt(p)' /\ ReservesLater(p)
  BY <1>1, <1>2 DEF EdgeInv, HeldAt, ReservesLater, Coherent, Exists, Content
<1>6. DurableAt(p)'
  BY <1>1 DEF DurableAt, Acknowledged
<1>7. QED
  BY <1>2, <1>3, <1>4, <1>5, <1>6, FrameStep

LEMMA ClearEdges ==
    ASSUME TypeOK, TypeOK', EdgeInv, NEW p \in Procs, Clear(p)
    PROVE  EdgeInv'
<1>1. /\ pc[p] = "clear" /\ graph' = Cleared(batch[p], docs[p]) /\ Goto(p, Rest(p))
      /\ Forgets(p) /\ UNCHANGED <<ledger, index, net>>
  BY DEF Clear
<1>2. Others(p) /\ pc'[p] \in {"idle", "sweep_edges"} /\ docs'[p] = NoDocuments
  BY <1>1, GotoFrame, ForgetsFrame, Types DEF Others
<1>3. StoresAdvance /\ NoClash(p)
  <2>1. batch[p] \in SUBSET Uuids /\ docs[p] \in [Uuids -> Document] /\ DurableAt(p)
    BY LocalTypes DEF EdgeInv
  <2>2. QED
    BY <1>1, <2>1, ClearedStores DEF DurableAt
<1>4. \A u \in Uuids : Coherent(u, docs[p][u])'
  BY <1>2, <1>3, HeldLater
<1>5. QED
  BY <1>1, <1>2, <1>3, <1>4, GraphStep

LEMMA FinalizeEdges ==
    ASSUME TypeOK, TypeOK', EdgeInv, NEW p \in Procs, Finalize(p)
    PROVE  EdgeInv'
<1>1. /\ pc[p] = "finalize" /\ graph' = Finalized(batch[p], docs[p])
      /\ Forgets(p) /\ UNCHANGED <<ledger, index, net>>
  BY DEF Finalize
<1>2. PICK where \in {"drain", "idle", "sweep_nodes"} : Goto(p, where)
  BY DEF Finalize
<1>3. Others(p) /\ pc'[p] \in {"drain", "idle", "sweep_nodes"} /\ docs'[p] = NoDocuments
  BY <1>1, <1>2, GotoFrame, ForgetsFrame DEF Others
<1>4. StoresAdvance /\ NoClash(p)
  <2>1. batch[p] \in SUBSET Uuids /\ docs[p] \in [Uuids -> Document] /\ DurableAt(p)
    BY LocalTypes DEF EdgeInv
  <2>2. QED
    BY <1>1, <2>1, FinalizedStores DEF DurableAt
<1>5. \A u \in Uuids : Coherent(u, docs[p][u])'
  BY <1>3, <1>4, HeldLater
<1>6. QED
  BY <1>1, <1>3, <1>4, <1>5, GraphStep

LEMMA StartDeleteEdgesEdges ==
    ASSUME TypeOK, TypeOK', EdgeInv, NEW c \in Clients, StartDeleteEdges(c)
    PROVE  EdgeInv'
<1>1. PICK C \in SUBSET Uuids : batch' = [batch EXCEPT ![c] = C]
  BY DEF StartDeleteEdges, Chunks
<1>2. /\ c \in Procs /\ pc[c] # "prepare" /\ Goto(c, "reserve")
      /\ UNCHANGED storeVars /\ UNCHANGED docs
  BY Types DEF StartDeleteEdges, Starts
<1>3. \A p \in Procs \ {c} : batch'[p] = batch[p]
  BY <1>1 DEF TypeOK
<1>4. QED
  BY <1>2, <1>3, MovesEdges

(* A deletion takes generations that nothing else carries.                 *)
LEMMA ReserveEdges ==
    ASSUME TypeOK, TypeOK', EdgeInv, NEW c \in Procs, Reserve(c)
    PROVE  EdgeInv'
<1>1. (\A u \in Uuids : Sound(u)) /\ \A p \in Procs : HeldAt(p)
  BY DEF EdgeInv
<1>2. /\ ledger' = Reserved(batch[c]) /\ Goto(c, "prepare")
      /\ docs' = [docs EXCEPT ![c] =
             [u \in Uuids |-> IF u \in batch[c] THEN Tombstone(ledger[u] + 1)
                              ELSE NoDocument]]
      /\ UNCHANGED <<graph, index, net, batch>>
  BY DEF Reserve
<1>3. Others(c) /\ pc'[c] = "prepare"
  BY <1>1, <1>2, GotoFrame DEF Others, TypeOK
<1>4. ASSUME NEW u \in Uuids
      PROVE  /\ ledger[u] \in Nat /\ ledger'[u] \in Nat /\ ledger'[u] >= ledger[u]
             /\ u \in batch[c] => ledger'[u] = ledger[u] + 1
             /\ index'[u].ver >= index[u].ver
             /\ Sound(u)' /\ KeepsDocuments(u)
  <2>1. TypedAt(u) /\ TypedAt(u)'
    BY <1>1, TypedEverywhere
  <2>2. /\ ledger'[u] >= ledger[u]
        /\ u \in batch[c] => ledger'[u] = ledger[u] + 1
        /\ index'[u].ver >= index[u].ver
    BY <1>2, <2>1 DEF Reserved, TypedAt, Document
  <2>3. QED
    BY <1>1, <1>2, <2>1, <2>2, SameAt DEF TypedAt
<1>5. StoresAdvance /\ NoClash(c)
  BY <1>1, <1>2, <1>4 DEF StoresAdvance, NoClash, HeldAt, Exists
<1>6. ASSUME NEW u \in Uuids
      PROVE  /\ docs'[c][u].val = NoVector
             /\ \/ u \in batch[c] /\ docs'[c][u].ver = ledger[u] + 1
                \/ docs'[c][u].ver = 0
  BY <1>1, <1>2 DEF TypeOK, Tombstone, NoDocument
<1>7. HeldAt(c)'
  <2> SUFFICES ASSUME NEW u \in Uuids
               PROVE  /\ ~Live(docs'[c][u])
                      /\ docs'[c][u].ver <= ledger'[u]
                      /\ docs'[c][u].ver # 0 => u \in batch'[c]
                      /\ Exists(u)' => graph'[u].ver # docs'[c][u].ver
    BY <1>3 DEF HeldAt, Live
  <2>1. Exists(u)' => /\ graph'[u].ver \in Nat
                      /\ 0 < graph'[u].ver /\ graph'[u].ver <= ledger[u]
    BY <1>1, <1>2 DEF Sound, Exists, TypeOK, StoreTypeOK, Entity
  <2>2. QED
    BY <1>2, <1>4, <1>6, <2>1 DEF Live
<1>8. ReservesLater(c)
  <2> SUFFICES ASSUME NEW p \in Procs, pc[p] = "prepare", NEW u \in Uuids
               PROVE  docs'[c][u].ver = 0 \/ docs'[c][u].ver > docs[p][u].ver
    BY DEF ReservesLater
  <2>1. docs[p][u].ver \in Nat /\ docs[p][u].ver <= ledger[u]
    BY <1>1 DEF HeldAt, TypeOK, Document
  <2>2. QED
    BY <1>4, <1>6, <2>1
<1>9. DurableAt(c)' /\ NetCoherent'
  BY <1>2, <1>3, <1>5, NetSame DEF DurableAt
<1>10. QED
  BY <1>1, <1>3, <1>5, <1>7, <1>8, <1>9, FrameStep

LEMMA PrepareEdges ==
    ASSUME TypeOK, TypeOK', EdgeInv, NEW p \in Procs, Prepare(p)
    PROVE  EdgeInv'
<1>1. /\ pc[p] = "prepare" /\ Goto(p, "bury")
      /\ graph' = Prepared(batch[p], docs[p])
      /\ UNCHANGED <<ledger, index, net, docs, batch>>
  BY DEF Prepare
<1>2. Others(p) /\ pc'[p] = "bury"
  BY <1>1, GotoFrame DEF Others
<1>3. StoresAdvance /\ NoClash(p) /\ \A u \in Uuids : Coherent(u, docs[p][u])'
  BY <1>1, PreparedStores
<1>4. QED
  BY <1>1, <1>2, <1>3, GraphStep

LEMMA DrainEdges ==
    ASSUME TypeOK, TypeOK', EdgeInv, NEW p \in Procs, Drain(p)
    PROVE  EdgeInv'
<1> DEFINE page == LowestPage(UNION {Incident(n) : n \in Owned(p)}, BatchSize)
<1>1. pc[p] # "prepare" /\ UNCHANGED storeVars /\ UNCHANGED docs
  BY DEF Drain
<1>2. PICK where \in {"reserve", "finalize_nodes"} : Goto(p, where)
  BY DEF Drain
<1>3. batch' = [batch EXCEPT ![p] = page] \/ UNCHANGED batch
  BY DEF Drain
<1>4. \A q \in Procs \ {p} : batch'[q] = batch[q]
  <2> HIDE DEF page
  <2>1. QED
    BY <1>3 DEF TypeOK
<1>5. QED
  BY <1>1, <1>2, <1>4, MovesEdges

(* Nothing hangs on the nodes that go, so the graph's edges stay.          *)
LEMMA FinalizeNodesEdges ==
    ASSUME Inv, TypeOK', NEW p \in Procs, FinalizeNodes(p)
    PROVE  EdgeInv' /\ graph' = graph
<1>1. TypeOK /\ EdgeInv /\ NodeInv
  BY DEF Inv
<1>2. /\ pc[p] = "finalize_nodes"
      /\ graph' = [u \in Uuids |->
            IF Endpoints[u] \cap Owned(p) # {} THEN Absent ELSE graph[u]]
      /\ UNCHANGED <<ledger, index, net, docs, batch>>
  BY DEF FinalizeNodes
<1>3. PICK where \in {"idle", "sweep_saves"} : Goto(p, where)
  BY DEF FinalizeNodes
<1>4. ASSUME NEW u \in Uuids PROVE graph'[u] = graph[u]
  <2>1. CASE Endpoints[u] \cap Owned(p) # {}
    <3>1. PICK n \in Owned(p) : n \in Endpoints[u]
      BY <2>1
    <3>2. Incident(n) = {}
      BY <1>1, <1>2 DEF NodeInv, Drained
    <3>3. ~Exists(u)
      BY <3>1, <3>2 DEF Incident
    <3>4. QED
      BY <1>2, <2>1, <3>3 DEF Exists
  <2>2. CASE Endpoints[u] \cap Owned(p) = {}
    BY <1>2, <2>2
  <2>3. QED
    BY <2>1, <2>2
<1>5. graph' = graph
  BY <1>1, <1>2, <1>4 DEF TypeOK, StoreTypeOK
<1>6. UNCHANGED storeVars /\ pc[p] # "prepare" /\ UNCHANGED docs
      /\ \A q \in Procs \ {p} : batch'[q] = batch[q]
  BY <1>2, <1>5 DEF storeVars
<1>7. QED
  BY <1>1, <1>3, <1>5, <1>6, MovesEdges

(* A reconciler's page of documents, read off the graph.                   *)
LEMMA SweepPage ==
    ASSUME TypeOK, TypeOK', EdgeInv, NEW r \in Procs, NEW where, Goto(r, where),
           where \in {"bury", "send"}, UNCHANGED storeVars,
           NEW page \in SUBSET Uuids, NEW d \in [Uuids -> Document],
           docs' = [docs EXCEPT ![r] = d], batch' = [batch EXCEPT ![r] = page],
           \A u \in Uuids : Coherent(u, d[u])
    PROVE  EdgeInv'
<1>1. Others(r) /\ pc'[r] = where /\ docs'[r] = d
  BY GotoFrame DEF Others, TypeOK
<1>2. UNCHANGED <<ledger, graph, index, net>>
  BY DEF storeVars
<1>3. NetCoherent'
  BY <1>2, StoresSame, NetSame
<1>4. QED
  BY <1>1, <1>2, <1>3, LocalStep

LEMMA SweepEdgesEdges ==
    ASSUME TypeOK, TypeOK', EdgeInv, NEW r \in Reconcilers, SweepEdges(r)
    PROVE  EdgeInv'
<1> DEFINE page == LowestPage(PendingDeletes, BatchSize)
           d == [u \in Uuids |-> IF u \in page THEN Tombstone(graph[u].ver) ELSE NoDocument]
<1>1. page \in SUBSET Uuids /\ \A u \in page : u \in Uuids /\ Exists(u) /\ graph[u].del
  BY DEF LowestPage, PendingDeletes
<1>2. \A u \in page : graph[u] \in Entity
  BY <1>1 DEF Exists, TypeOK, StoreTypeOK
<1>3. d \in [Uuids -> Document]
  BY <1>2, Types DEF Entity
<1>4. ASSUME NEW u \in Uuids PROVE Coherent(u, d[u])
  <2>1. CASE u \in page
    <3>1. d[u] = Tombstone(graph[u].ver) /\ Exists(u) /\ graph[u].del
      BY <1>1, <2>1
    <3>2. TypedAt(u) /\ Sound(u) /\ graph[u] \in Entity
      BY <1>2, <2>1, TypedEverywhere DEF EdgeInv
    <3>3. QED
      BY <3>1, <3>2 DEF Sound, Coherent, Live, TypedAt, Entity, Tombstone
  <2>2. CASE u \notin page
    BY <2>2, NoDocumentCoherent
  <2>3. QED
    BY <2>1, <2>2
<1>5. r \in Procs /\ pc[r] # "prepare" /\ UNCHANGED storeVars
  BY Types DEF SweepEdges
<1>6. CASE docs' = [docs EXCEPT ![r] = d] /\ batch' = [batch EXCEPT ![r] = page] /\ Goto(r, "bury")
  <2> HIDE DEF d, page
  <2>1. QED
    BY <1>1, <1>3, <1>4, <1>5, <1>6, SweepPage
<1>7. CASE Goto(r, "sweep_nodes") /\ UNCHANGED <<docs, batch>>
  BY <1>5, <1>7, MovesEdges
<1>8. QED
  BY <1>6, <1>7, Zenon DEF SweepEdges

LEMMA SweepSavesEdges ==
    ASSUME TypeOK, TypeOK', EdgeInv, NEW r \in Reconcilers, SweepSaves(r)
    PROVE  EdgeInv'
<1> DEFINE page == LowestPage(PendingSaves, BatchSize)
           d == [u \in Uuids |->
                   IF u \in page
                   THEN [ver |-> graph[u].ver, group |-> graph[u].group, val |-> graph[u].val]
                   ELSE NoDocument]
<1>1. page \in SUBSET Uuids /\ \A u \in page : u \in Uuids /\ Exists(u) /\ ~graph[u].del
  BY DEF LowestPage, PendingSaves
<1>2. \A u \in page : graph[u] \in Entity
  BY <1>1 DEF Exists, TypeOK, StoreTypeOK
<1>3. d \in [Uuids -> Document]
  BY <1>2, Types DEF Entity, Document
<1>4. ASSUME NEW u \in Uuids PROVE Coherent(u, d[u])
  <2>1. CASE u \in page
    <3>1. d[u] = Content(u) /\ Exists(u) /\ ~graph[u].del
      BY <1>1, <2>1 DEF Content
    <3>2. TypedAt(u) /\ Sound(u) /\ graph[u] \in Entity
      BY <1>2, <2>1, TypedEverywhere DEF EdgeInv
    <3>3. QED
      BY <3>1, <3>2 DEF Sound, Coherent, Content, Live, TypedAt, Entity
  <2>2. CASE u \notin page
    BY <2>2, NoDocumentCoherent
  <2>3. QED
    BY <2>1, <2>2
<1>5. r \in Procs /\ pc[r] # "prepare" /\ UNCHANGED storeVars
  BY Types DEF SweepSaves
<1>6. CASE docs' = [docs EXCEPT ![r] = d] /\ batch' = [batch EXCEPT ![r] = page] /\ Goto(r, "send")
  <2> HIDE DEF d, page
  <2>1. QED
    BY <1>1, <1>3, <1>4, <1>5, <1>6, SweepPage
<1>7. CASE Goto(r, "sweep_edges") /\ UNCHANGED <<docs, batch>>
  BY <1>5, <1>7, MovesEdges
<1>8. QED
  BY <1>6, <1>7, Zenon DEF SweepSaves

LEMMA SweepNodesEdges ==
    ASSUME TypeOK, TypeOK', EdgeInv, NEW r \in Reconcilers, SweepNodes(r)
    PROVE  EdgeInv'
<1>1. r \in Procs /\ pc[r] # "prepare" /\ UNCHANGED storeVars /\ UNCHANGED <<docs, batch>>
  BY Types DEF SweepNodes
<1>2. PICK where \in {"drain", "sweep_saves"} : Goto(r, where)
  BY DEF SweepNodes
<1>3. QED
  BY <1>1, <1>2, MovesEdges

LEMMA FailsEdges ==
    ASSUME TypeOK, TypeOK', EdgeInv, NEW p \in Procs, Fails(p)
    PROVE  EdgeInv'
<1>1. Goto(p, Rest(p)) /\ Forgets(p) /\ UNCHANGED storeVars
  BY DEF Fails
<1>2. PICK where \in {"idle", "sweep_edges"} : where = Rest(p)
  BY Types
<1>3. QED
  BY <1>1, <1>2, MovesEdges

(* The index executes a request, whoever sent it and however late.         *)
LEMMA LandsEdges ==
    ASSUME TypeOK, TypeOK', EdgeInv, NEW w \in net, Lands(w)
    PROVE  EdgeInv'
<1>1. NetCoherent /\ (\A u \in Uuids : Sound(u))
  BY DEF EdgeInv
<1>2. w.uuid \in Uuids /\ w.doc \in Document /\ Coherent(w.uuid, w.doc)
  BY <1>1 DEF TypeOK, StoreTypeOK, Write, NetCoherent
<1>3. /\ index' = [index EXCEPT ![w.uuid] = w.doc] /\ w.doc.ver > index[w.uuid].ver
      /\ UNCHANGED <<ledger, graph, net, pc, docs, batch>>
  BY DEF Lands, Deliver
<1>4. ASSUME NEW u \in Uuids
      PROVE  /\ Sound(u)' /\ KeepsDocuments(u)
             /\ ledger'[u] >= ledger[u] /\ index'[u].ver >= index[u].ver
  <2>1. TypedAt(u) /\ TypedAt(u)' /\ Sound(u)
    BY <1>1, TypedEverywhere
  <2>2. ledger'[u] >= ledger[u]
    BY <1>3, <2>1 DEF TypedAt
  <2>3. CASE u = w.uuid
    <3>1. PICK d \in Document : d = w.doc
      BY <1>2
    <3>2. index'[u] = d /\ d.ver > index[u].ver /\ Coherent(u, d)
      BY <1>1, <1>2, <1>3, <2>3, <3>1 DEF TypeOK, StoreTypeOK
    <3>3. Sound(u)' /\ KeepsDocuments(u)
      BY <1>3, <2>1, <3>2, DeliverAt
    <3>4. QED
      BY <2>1, <2>2, <3>2, <3>3 DEF TypedAt, Document
  <2>4. CASE u # w.uuid
    <3>1. index'[u] = index[u]
      BY <1>1, <1>3, <2>4 DEF TypeOK, StoreTypeOK
    <3>2. QED
      BY <1>3, <2>1, <2>2, <3>1, SameAt DEF TypedAt, Document
  <2>5. QED
    BY <2>3, <2>4
<1>5. StoresAdvance
  BY <1>4 DEF StoresAdvance
<1>6. QED
  BY <1>3, <1>5, NetSame, StillStep

-----------------------------------------------------------------------------
(* The nodes' part of the invariant, an action at a time.                  *)

LEMMA NodeTypes ==
    ASSUME TypeOK, NEW n \in Nodes
    PROVE  /\ counter[n] \in Nat
           /\ node[n] # Absent => node[n] \in Node /\ node[n].ver \in Nat
           /\ \A p \in Procs : doomed[p][n] \in Nat
BY DEF TypeOK, Node

(* Steps that leave the nodes and their generations alone.                 *)
LEMMA CalmNodes ==
    ASSUME TypeOK, NodeInv, UNCHANGED <<counter, node>>,
           \A p \in Procs : doomed'[p] = doomed[p] \/ doomed'[p] = NoDoom,
           \A p \in Procs :
               pc'[p] \in {"prepare_nodes", "finalize_nodes"} =>
                   pc'[p] = pc[p] /\ doomed'[p] = doomed[p],
           \A u \in Uuids :
               Exists(u)' => Exists(u) \/ \A n \in Endpoints[u] \cap Nodes : ~Marked(n)
    PROVE  NodeInv'
<1>1. GenerationsKnown /\ MarksFresh /\ \A p \in Procs : Drained(p)
  BY DEF NodeInv
<1>2. GenerationsKnown'
  BY <1>1, NodeTypes DEF GenerationsKnown, NoDoom
<1>3. MarksFresh'
  <2> SUFFICES ASSUME NEW c \in Procs, NEW n \in Nodes,
                      pc'[c] = "prepare_nodes", doomed'[c][n] # 0
               PROVE  /\ node[n] # Absent => node[n].ver # doomed'[c][n]
                      /\ \A p \in Procs \ {c} : doomed'[p][n] # doomed'[c][n]
    BY DEF MarksFresh
  <2>1. pc[c] = "prepare_nodes" /\ doomed'[c] = doomed[c]
    OBVIOUS
  <2>2. /\ node[n] # Absent => node[n].ver # doomed[c][n]
        /\ \A p \in Procs \ {c} : doomed[p][n] # doomed[c][n]
    BY <1>1, <2>1 DEF MarksFresh
  <2>3. ASSUME NEW p \in Procs \ {c} PROVE doomed'[p][n] # doomed'[c][n]
    BY <2>1, <2>2 DEF NoDoom
  <2>4. QED
    BY <2>1, <2>2, <2>3
<1>4. ASSUME NEW p \in Procs PROVE Drained(p)'
  <2> SUFFICES ASSUME pc'[p] = "finalize_nodes", NEW n \in Nodes,
                      Marked(n)', node'[n].ver = doomed'[p][n]
               PROVE  Incident(n)' = {}
    BY DEF Drained, Owned
  <2>1. pc[p] = "finalize_nodes" /\ doomed'[p] = doomed[p]
    OBVIOUS
  <2>2. Marked(n) /\ node[n].ver = doomed[p][n]
    BY <2>1 DEF Marked
  <2>3. Incident(n) = {}
    BY <1>1, <2>1, <2>2 DEF Drained, Owned
  <2>4. QED
    BY <2>2, <2>3 DEF Incident
<1>5. QED
  BY <1>2, <1>3, <1>4 DEF NodeInv

LEMMA MovesNodes ==
    ASSUME TypeOK, NodeInv, UNCHANGED <<counter, node>>, NEW c \in Procs, NEW where,
           Goto(c, where), where \notin {"prepare_nodes", "finalize_nodes"},
           doomed' = doomed \/ doomed' = [doomed EXCEPT ![c] = NoDoom],
           \A u \in Uuids :
               Exists(u)' => Exists(u) \/ \A n \in Endpoints[u] \cap Nodes : ~Marked(n)
    PROVE  NodeInv'
<1>1. pc'[c] = where /\ \A p \in Procs \ {c} : pc'[p] = pc[p]
  BY GotoFrame
<1>2. \A p \in Procs :
        /\ doomed'[p] = doomed[p] \/ doomed'[p] = NoDoom
        /\ p # c => doomed'[p] = doomed[p]
  BY DEF TypeOK
<1>3. \A p \in Procs :
        pc'[p] \in {"prepare_nodes", "finalize_nodes"} =>
            pc'[p] = pc[p] /\ doomed'[p] = doomed[p]
  BY <1>1, <1>2
<1>4. QED
  BY <1>2, <1>3, CalmNodes

(* No relationship appears.                                                *)
LEMMA NoneAppears ==
    ASSUME TypeOK, NEW S, NEW d,
           \/ graph' = graph \/ graph' = Cleared(S, d)
           \/ graph' = Prepared(S, d) \/ graph' = Finalized(S, d)
    PROVE  \A u \in Uuids : Exists(u)' => Exists(u)
BY DEF Exists, Cleared, Prepared, Finalized

LEMMA SaveNodeNodes ==
    ASSUME TypeOK, TypeOK', NodeInv, NEW c \in Clients, NEW n \in Nodes, SaveNode(c, n)
    PROVE  NodeInv'
<1>1. GenerationsKnown /\ MarksFresh /\ \A p \in Procs : Drained(p)
  BY DEF NodeInv
<1>2. /\ UNCHANGED <<graph, pc, doomed>>
      /\ counter'[n] = counter[n] + 1
      /\ \A m \in Nodes \ {n} : counter'[m] = counter[m] /\ node'[m] = node[m]
      /\ \/ node'[n] = node[n]
         \/ node'[n] = [ver |-> counter[n] + 1, del |-> FALSE]
  BY DEF SaveNode, storeVars, TypeOK
<1>3. \A m \in Nodes : /\ counter[m] \in Nat /\ counter'[m] \in Nat
                       /\ counter'[m] >= counter[m]
                       /\ \A p \in Procs : doomed[p][m] \in Nat
                       /\ node[m] # Absent => node[m].ver \in Nat
  BY <1>2, NodeTypes
<1>4. ASSUME NEW m \in Nodes
      PROVE  \/ node'[m] = node[m]
             \/ /\ node'[m].ver = counter[m] + 1 /\ ~node'[m].del
                /\ counter'[m] = counter[m] + 1
  <2>1. CASE m = n
    BY <1>2, <2>1
  <2>2. CASE m # n
    BY <1>2, <2>2
  <2>3. QED
    BY <2>1, <2>2
<1>5. GenerationsKnown'
  BY <1>1, <1>2, <1>3, <1>4 DEF GenerationsKnown
<1>6. MarksFresh'
  <2> SUFFICES ASSUME NEW k \in Procs, NEW m \in Nodes,
                      pc[k] = "prepare_nodes", doomed[k][m] # 0
               PROVE  /\ node'[m] # Absent => node'[m].ver # doomed[k][m]
                      /\ \A p \in Procs \ {k} : doomed[p][m] # doomed[k][m]
    BY <1>2 DEF MarksFresh
  <2>1. doomed[k][m] <= counter[m] /\ doomed[k][m] \in Nat /\ counter[m] \in Nat
    BY <1>1, <1>3 DEF GenerationsKnown
  <2>2. /\ node[m] # Absent => node[m].ver # doomed[k][m]
        /\ \A p \in Procs \ {k} : doomed[p][m] # doomed[k][m]
    BY <1>1 DEF MarksFresh
  <2>3. QED
    BY <1>4, <2>1, <2>2
<1>7. ASSUME NEW p \in Procs PROVE Drained(p)'
  <2> SUFFICES ASSUME pc[p] = "finalize_nodes", NEW m \in Nodes,
                      Marked(m)', node'[m].ver = doomed[p][m]
               PROVE  Incident(m)' = {}
    BY <1>2 DEF Drained, Owned
  <2>1. node'[m] = node[m]
    BY <1>4 DEF Marked
  <2>2. Incident(m) = {}
    BY <1>1, <2>1 DEF Drained, Owned, Marked
  <2>3. QED
    BY <1>2, <2>2 DEF Incident, Exists
<1>8. QED
  BY <1>5, <1>6, <1>7 DEF NodeInv

LEMMA SaveEdgesNodes ==
    ASSUME TypeOK, NodeInv, NEW c \in Clients, SaveEdges(c)
    PROVE  NodeInv'
<1>1. PICK C \in SUBSET Uuids : \E req \in [C -> Request] : Saves(c, C, req)
  BY SavesSome
<1>2. PICK req \in [C -> Request] : Saves(c, C, req)
  BY <1>1
<1>3. graph' = [u \in Uuids |-> IF u \in {v \in C : Takes(v)} THEN Written(u, req) ELSE graph[u]]
  BY <1>2 DEF Saves
<1>4. \A u \in Uuids : Exists(u)' => Exists(u) \/ \A n \in Endpoints[u] \cap Nodes : ~Marked(n)
  BY <1>3 DEF Exists, Takes, Marked
<1>5. UNCHANGED <<counter, node, doomed>> /\ c \in Procs
  BY Types DEF SaveEdges, nodeVars
<1>6. CASE Goto(c, "send")
  BY <1>4, <1>5, <1>6, MovesNodes
<1>7. CASE UNCHANGED pc
  BY <1>4, <1>5, <1>7, CalmNodes
<1>8. QED
  BY <1>2, <1>6, <1>7 DEF Saves

(* A deletion of nodes takes generations nobody knows.                     *)
LEMMA StartDeleteNodesNodes ==
    ASSUME TypeOK, TypeOK', NodeInv, NEW c \in Clients, StartDeleteNodes(c)
    PROVE  NodeInv'
<1>1. GenerationsKnown /\ MarksFresh /\ \A p \in Procs : Drained(p)
  BY DEF NodeInv
<1>2. PICK D \in SUBSET Nodes :
        /\ counter' = [n \in Nodes |-> counter[n] + (IF n \in D THEN 1 ELSE 0)]
        /\ doomed' = [doomed EXCEPT ![c] =
              [n \in Nodes |-> IF n \in D THEN counter[n] + 1 ELSE 0]]
  BY DEF StartDeleteNodes
<1>3. /\ c \in Procs /\ UNCHANGED <<graph, node>> /\ pc'[c] = "prepare_nodes"
      /\ \A p \in Procs \ {c} : pc'[p] = pc[p] /\ doomed'[p] = doomed[p]
  BY <1>2, Types, GotoFrame DEF StartDeleteNodes, storeVars, TypeOK
<1>4. \A n \in Nodes : /\ counter[n] \in Nat
                       /\ \A p \in Procs : doomed[p][n] \in Nat /\ doomed[p][n] <= counter[n]
                       /\ node[n] # Absent => node[n].ver \in Nat /\ node[n].ver <= counter[n]
  BY <1>1, NodeTypes DEF GenerationsKnown
<1>5. \A n \in Nodes :
        \/ counter'[n] = counter[n] + 1 /\ doomed'[c][n] = counter[n] + 1
        \/ counter'[n] = counter[n] /\ doomed'[c][n] = 0
  BY <1>2, <1>3, <1>4 DEF TypeOK
<1>6. GenerationsKnown'
  BY <1>3, <1>4, <1>5 DEF GenerationsKnown
<1>7. MarksFresh'
  <2> SUFFICES ASSUME NEW k \in Procs, NEW n \in Nodes,
                      pc'[k] = "prepare_nodes", doomed'[k][n] # 0
               PROVE  /\ node[n] # Absent => node[n].ver # doomed'[k][n]
                      /\ \A p \in Procs \ {k} : doomed'[p][n] # doomed'[k][n]
    BY <1>3 DEF MarksFresh
  <2>1. CASE k = c
    <3>1. doomed'[c][n] = counter[n] + 1
      BY <1>5, <2>1
    <3>2. QED
      BY <1>3, <1>4, <2>1, <3>1
  <2>2. CASE k # c
    <3>1. doomed'[k] = doomed[k] /\ pc[k] = "prepare_nodes" /\ doomed[k][n] # 0
      BY <1>3, <2>2
    <3>2. /\ node[n] # Absent => node[n].ver # doomed[k][n]
          /\ \A p \in Procs \ {k} : doomed[p][n] # doomed[k][n]
      BY <1>1, <3>1 DEF MarksFresh
    <3>3. doomed'[c][n] # doomed[k][n]
      BY <1>4, <1>5, <3>1
    <3>4. QED
      BY <1>3, <3>1, <3>2, <3>3
  <2>3. QED
    BY <2>1, <2>2
<1>8. \A p \in Procs : Drained(p)'
  BY <1>1, <1>3 DEF Drained, Owned, Marked, Incident, Exists
<1>9. QED
  BY <1>6, <1>7, <1>8 DEF NodeInv

(* Marking a node takes it from every deletion that was about to remove it *)
LEMMA PrepareNodesNodes ==
    ASSUME TypeOK, NodeInv, NEW c \in Clients, PrepareNodes(c)
    PROVE  NodeInv'
<1>1. GenerationsKnown /\ MarksFresh /\ \A p \in Procs : Drained(p)
  BY DEF NodeInv
<1>2. /\ c \in Procs /\ UNCHANGED <<graph, counter, doomed>>
      /\ pc[c] = "prepare_nodes" /\ pc'[c] = "drain"
      /\ \A p \in Procs \ {c} : pc'[p] = pc[p]
  BY Types, GotoFrame DEF PrepareNodes, storeVars
<1>3. ASSUME NEW n \in Nodes
      PROVE  \/ node'[n] = node[n]
             \/ /\ node'[n].ver = doomed[c][n] /\ doomed[c][n] # 0
                /\ \A p \in Procs \ {c} : doomed[p][n] # doomed[c][n]
  <2>1. \/ node'[n] = node[n]
        \/ /\ node'[n].ver = doomed[c][n]
           /\ node[n] # Absent /\ node[n].ver < doomed[c][n]
    BY DEF PrepareNodes
  <2>2. node[n] # Absent /\ node[n].ver < doomed[c][n] => doomed[c][n] # 0
    BY <1>2, NodeTypes
  <2>3. QED
    BY <1>1, <1>2, <2>1, <2>2 DEF MarksFresh
<1>4. GenerationsKnown'
  BY <1>1, <1>2, <1>3 DEF GenerationsKnown
<1>5. MarksFresh'
  BY <1>1, <1>2, <1>3 DEF MarksFresh
<1>6. ASSUME NEW p \in Procs PROVE Drained(p)'
  <2> SUFFICES ASSUME pc'[p] = "finalize_nodes", NEW n \in Nodes,
                      Marked(n)', node'[n].ver = doomed[p][n]
               PROVE  Incident(n)' = {}
    BY <1>2 DEF Drained, Owned
  <2>1. p # c /\ pc[p] = "finalize_nodes"
    BY <1>2
  <2>2. node'[n] = node[n]
    BY <1>3, <2>1
  <2>3. Incident(n) = {}
    BY <1>1, <2>1, <2>2 DEF Drained, Owned, Marked
  <2>4. QED
    BY <1>2, <2>3 DEF Incident, Exists
<1>7. QED
  BY <1>4, <1>5, <1>6 DEF NodeInv

(* An empty page shows that nothing hangs on the nodes owned.              *)
LEMMA DrainNodes ==
    ASSUME TypeOK, NodeInv, NEW p \in Procs, Drain(p)
    PROVE  NodeInv'
<1> DEFINE edges == UNION {Incident(n) : n \in Owned(p)}
<1>1. /\ UNCHANGED <<ledger, graph, counter, node, doomed>>
      /\ \A u \in Uuids : Exists(u)' => Exists(u)
  BY DEF Drain, storeVars, nodeVars, Exists
<1>2. CASE Goto(p, "reserve")
  BY <1>1, <1>2, MovesNodes
<1>3. CASE LowestPage(edges, BatchSize) = {} /\ Goto(p, "finalize_nodes")
  <2>1. edges \subseteq Nat
    BY StoreAssumption DEF Incident
  <2>2. edges = {}
    <3> HIDE DEF edges
    <3>1. QED
      BY <1>3, <2>1, PageOfSome, CascadeAssumption
  <2>3. \A n \in Owned(p) : Incident(n) = {}
    BY <2>2
  <2>4. /\ GenerationsKnown /\ MarksFresh /\ (\A q \in Procs : Drained(q))
        /\ pc'[p] = "finalize_nodes" /\ \A q \in Procs \ {p} : pc'[q] = pc[q]
    BY <1>3, GotoFrame DEF NodeInv
  <2>5. GenerationsKnown'
    BY <1>1, <2>4 DEF GenerationsKnown
  <2>6. MarksFresh'
    BY <1>1, <2>4 DEF MarksFresh
  <2>7. \A q \in Procs : Drained(q)'
    BY <1>1, <2>3, <2>4 DEF Drained, Owned, Marked, Incident, Exists
  <2>8. QED
    BY <2>5, <2>6, <2>7 DEF NodeInv
<1>4. QED
  BY <1>2, <1>3 DEF Drain

LEMMA FinalizeNodesNodes ==
    ASSUME TypeOK, NodeInv, NEW p \in Procs, FinalizeNodes(p), graph' = graph
    PROVE  NodeInv'
<1>1. GenerationsKnown /\ MarksFresh /\ \A q \in Procs : Drained(q)
  BY DEF NodeInv
<1>2. PICK where \in {"idle", "sweep_saves"} : Goto(p, where)
  BY DEF FinalizeNodes
<1>3. /\ counter' = counter /\ doomed'[p] = NoDoom
      /\ pc'[p] \notin {"prepare_nodes", "finalize_nodes"}
      /\ \A q \in Procs \ {p} : pc'[q] = pc[q] /\ doomed'[q] = doomed[q]
      /\ \A n \in Nodes : node'[n] = node[n] \/ node'[n] = Absent
  BY <1>2, GotoFrame DEF FinalizeNodes, TypeOK
<1>4. GenerationsKnown'
  BY <1>1, <1>3, NodeTypes DEF GenerationsKnown, NoDoom
<1>5. MarksFresh'
  BY <1>1, <1>3 DEF MarksFresh, NoDoom
<1>6. \A q \in Procs : Drained(q)'
  BY <1>1, <1>3 DEF Drained, Owned, Marked, Incident, Exists
<1>7. QED
  BY <1>4, <1>5, <1>6 DEF NodeInv

(* A reconciler resumes deletions under the generations of their marks,    *)
(* none of which is still to be set.                                       *)
LEMMA SweepNodesNodes ==
    ASSUME TypeOK, NodeInv, NEW r \in Reconcilers, SweepNodes(r)
    PROVE  NodeInv'
<1>1. GenerationsKnown /\ MarksFresh /\ \A q \in Procs : Drained(q)
  BY DEF NodeInv
<1>2. PICK where \in {"drain", "sweep_saves"} : Goto(r, where)
  BY DEF SweepNodes
<1>3. /\ r \in Procs /\ UNCHANGED <<graph, counter, node>>
      /\ pc[r] = "sweep_nodes" /\ pc'[r] \in {"drain", "sweep_saves"}
      /\ \A q \in Procs \ {r} : pc'[q] = pc[q] /\ doomed'[q] = doomed[q]
  BY <1>2, Types, GotoFrame DEF SweepNodes, storeVars, nodeVars, TypeOK
<1>4. \/ doomed'[r] = [n \in Nodes |-> IF Marked(n) THEN node[n].ver ELSE 0]
      \/ doomed'[r] = doomed[r]
  BY <1>3 DEF SweepNodes, TypeOK
<1>5. \A n \in Nodes :
        \/ doomed'[r][n] = doomed[r][n] \/ doomed'[r][n] = 0
        \/ node[n] # Absent /\ doomed'[r][n] = node[n].ver
  BY <1>4 DEF Marked
<1>6. GenerationsKnown'
  BY <1>1, <1>3, <1>5, NodeTypes DEF GenerationsKnown
<1>7. MarksFresh'
  BY <1>1, <1>3, <1>5 DEF MarksFresh
<1>8. \A q \in Procs : Drained(q)'
  BY <1>1, <1>3 DEF Drained, Owned, Marked, Incident, Exists
<1>9. QED
  BY <1>6, <1>7, <1>8 DEF NodeInv

-----------------------------------------------------------------------------
(* The theorems.                                                           *)

LEMMA InitInv == Init => Inv
<1> SUFFICES ASSUME Init PROVE Inv
  OBVIOUS
<1>1. TypeOK
  BY InitTyped
<1>2. ASSUME NEW u \in Uuids
      PROVE  /\ ~Exists(u) /\ ledger[u] = 0 /\ index[u] = NoDocument
             /\ \A p \in Procs : docs[p][u] = NoDocument
  BY DEF Init, StoreInit, Exists, NoDocuments
<1>3. \A u \in Uuids : Coherent(u, NoDocument)
  BY <1>2 DEF Coherent, NoDocument, Live
<1>4. \A u \in Uuids : Sound(u)
  BY <1>2, <1>3 DEF Sound, Clean, Live, NoDocument
<1>5. NetCoherent
  BY DEF Init, StoreInit, NetCoherent
<1>6. \A p \in Procs : pc[p] \in {"idle", "sweep_edges"} /\ batch[p] = {} /\ doomed[p] = NoDoom
  BY DEF Init
<1>7. \A p \in Procs : HeldAt(p) /\ DurableAt(p)
  BY <1>2, <1>3, <1>6 DEF HeldAt, DurableAt
<1>8. ReservationsDistinct
  BY <1>6 DEF ReservationsDistinct
<1>9. GenerationsKnown
  BY <1>6 DEF Init, GenerationsKnown, NoDoom
<1>10. MarksFresh /\ \A p \in Procs : Drained(p)
  BY <1>6 DEF MarksFresh, Drained
<1>11. QED
  BY <1>1, <1>4, <1>5, <1>7, <1>8, <1>9, <1>10 DEF Inv, EdgeInv, NodeInv

(* A step of the life of a chunk of edges, or of a deletion of nodes, by a *)
(* client or a reconciler.                                                 *)
LEMMA StepInv ==
    ASSUME Inv, NEW p \in Procs, Step(p)
    PROVE  Inv'
<1>1. TypeOK /\ EdgeInv /\ NodeInv
  BY DEF Inv
<1>2. CASE Send(p)
  <2>1. /\ pc[p] = "send" /\ net' = net \cup Requests(batch[p], docs[p]) /\ Goto(p, "sending")
        /\ UNCHANGED <<ledger, graph, index, counter, node, doomed, docs, batch, ops, faults>>
    BY <1>2 DEF Send, nodeVars
  <2>2. TypeOK'
    BY <1>1, <2>1, SendTyped DEF Pcs
  <2>3. EdgeInv'
    BY <1>1, <2>1, <2>2, SendEdges
  <2>4. NodeInv'
    BY <1>1, <2>1, NoneAppears, MovesNodes
  <2>5. QED
    BY <2>2, <2>3, <2>4 DEF Inv
<1>3. CASE Bury(p)
  <2>1. /\ pc[p] = "bury" /\ net' = net \cup Requests(batch[p], docs[p]) /\ Goto(p, "burying")
        /\ UNCHANGED <<ledger, graph, index, counter, node, doomed, docs, batch, ops, faults>>
    BY <1>3 DEF Bury, nodeVars
  <2>2. TypeOK'
    BY <1>1, <2>1, SendTyped DEF Pcs
  <2>3. EdgeInv'
    BY <1>1, <2>1, <2>2, SendEdges
  <2>4. NodeInv'
    BY <1>1, <2>1, NoneAppears, MovesNodes
  <2>5. QED
    BY <2>2, <2>3, <2>4 DEF Inv
<1>4. CASE Clear(p)
  <2>1. TypeOK' /\ EdgeInv'
    BY <1>1, <1>4, ClearTyped, ClearEdges
  <2>2. /\ Goto(p, Rest(p)) /\ graph' = Cleared(batch[p], docs[p])
        /\ UNCHANGED <<counter, node, doomed>>
    BY <1>4 DEF Clear, nodeVars
  <2>3. NodeInv'
    BY <1>1, <2>2, Types, NoneAppears, MovesNodes
  <2>4. QED
    BY <2>1, <2>3 DEF Inv
<1>5. CASE Finalize(p)
  <2>1. TypeOK' /\ EdgeInv'
    BY <1>1, <1>5, FinalizeTyped, FinalizeEdges
  <2>2. graph' = Finalized(batch[p], docs[p]) /\ UNCHANGED <<counter, node, doomed>>
    BY <1>5 DEF Finalize, nodeVars
  <2>3. PICK where \in {"drain", "idle", "sweep_nodes"} : Goto(p, where)
    BY <1>5 DEF Finalize
  <2>4. NodeInv'
    BY <1>1, <2>2, <2>3, NoneAppears, MovesNodes
  <2>5. QED
    BY <2>1, <2>4 DEF Inv
<1>6. CASE Reserve(p)
  <2>1. TypeOK' /\ EdgeInv'
    BY <1>1, <1>6, ReserveTyped, ReserveEdges
  <2>2. Goto(p, "prepare") /\ graph' = graph /\ UNCHANGED <<counter, node, doomed>>
    BY <1>6 DEF Reserve, nodeVars
  <2>3. NodeInv'
    BY <1>1, <2>2, NoneAppears, MovesNodes
  <2>4. QED
    BY <2>1, <2>3 DEF Inv
<1>7. CASE Prepare(p)
  <2>1. TypeOK' /\ EdgeInv'
    BY <1>1, <1>7, PrepareTyped, PrepareEdges
  <2>2. /\ Goto(p, "bury") /\ graph' = Prepared(batch[p], docs[p])
        /\ UNCHANGED <<counter, node, doomed>>
    BY <1>7 DEF Prepare, nodeVars
  <2>3. NodeInv'
    BY <1>1, <2>2, NoneAppears, MovesNodes
  <2>4. QED
    BY <2>1, <2>3 DEF Inv
<1>8. CASE BulkSucceeds(p)
  <2>1. PICK where \in {"clear", "finalize"} : Goto(p, where)
    BY <1>8 DEF BulkSucceeds
  <2>2. UNCHANGED <<ledger, graph, index, net, counter, node, doomed, docs, batch, ops, faults>>
    BY <1>8 DEF BulkSucceeds, storeVars, nodeVars
  <2>3. TypeOK'
    BY <1>1, <2>1, <2>2, QuietTyped DEF Pcs
  <2>4. EdgeInv'
    BY <1>1, <1>8, <2>3, BulkSucceedsEdges
  <2>5. NodeInv'
    BY <1>1, <2>1, <2>2, NoneAppears, MovesNodes
  <2>6. QED
    BY <2>3, <2>4, <2>5 DEF Inv
<1>9. CASE Drain(p)
  BY <1>1, <1>9, DrainTyped, DrainEdges, DrainNodes DEF Inv
<1>10. CASE FinalizeNodes(p)
  BY <1>1, <1>10, FinalizeNodesTyped, FinalizeNodesEdges, FinalizeNodesNodes DEF Inv
<1>11. QED
  BY <1>2, <1>3, <1>4, <1>5, <1>6, <1>7, <1>8, <1>9, <1>10 DEF Step

(* What only clients do.                                                   *)
LEMMA ClientInv ==
    ASSUME Inv, NEW c \in Clients, ClientStarts(c) \/ PrepareNodes(c)
    PROVE  Inv'
<1>1. TypeOK /\ EdgeInv /\ NodeInv
  BY DEF Inv
<1>2. ASSUME NEW n \in Nodes, SaveNode(c, n) PROVE Inv'
  <2>1. TypeOK' /\ UNCHANGED <<storeVars, pc, docs, batch>>
    BY <1>1, <1>2, SaveNodeTyped DEF SaveNode
  <2>2. QED
    BY <1>1, <1>2, <2>1, AsideEdges, SaveNodeNodes DEF Inv
<1>3. CASE SaveEdges(c)
  BY <1>1, <1>3, SaveEdgesTyped, SaveEdgesEdges, SaveEdgesNodes DEF Inv
<1>4. CASE StartDeleteEdges(c)
  <2>1. TypeOK' /\ EdgeInv'
    BY <1>1, <1>4, StartDeleteEdgesTyped, StartDeleteEdgesEdges
  <2>2. c \in Procs /\ Goto(c, "reserve") /\ graph' = graph /\ UNCHANGED <<counter, node, doomed>>
    BY <1>4, Types DEF StartDeleteEdges, storeVars, nodeVars
  <2>3. NodeInv'
    BY <1>1, <2>2, NoneAppears, MovesNodes
  <2>4. QED
    BY <2>1, <2>3 DEF Inv
<1>5. CASE StartDeleteNodes(c)
  <2>1. /\ c \in Procs /\ pc[c] # "prepare" /\ Goto(c, "prepare_nodes")
        /\ UNCHANGED <<storeVars, docs, batch>>
    BY <1>5, Types DEF StartDeleteNodes, Starts
  <2>2. TypeOK'
    BY <1>1, <1>5, StartDeleteNodesTyped
  <2>3. EdgeInv'
    BY <1>1, <2>1, <2>2, MovesEdges
  <2>4. QED
    BY <1>1, <1>5, <2>2, <2>3, StartDeleteNodesNodes DEF Inv
<1>6. CASE PrepareNodes(c)
  <2>1. /\ c \in Procs /\ pc[c] # "prepare" /\ Goto(c, "drain")
        /\ UNCHANGED <<storeVars, docs, batch>>
    BY <1>6, Types DEF PrepareNodes
  <2>2. TypeOK'
    BY <1>1, <1>6, PrepareNodesTyped
  <2>3. EdgeInv'
    BY <1>1, <2>1, <2>2, MovesEdges
  <2>4. QED
    BY <1>1, <1>6, <2>2, <2>3, PrepareNodesNodes DEF Inv
<1>7. QED
  BY <1>2, <1>3, <1>4, <1>5, <1>6 DEF ClientStarts

(* What only reconcilers do.                                               *)
LEMMA SweepInv ==
    ASSUME Inv, NEW r \in Reconcilers, SweepEdges(r) \/ SweepNodes(r) \/ SweepSaves(r)
    PROVE  Inv'
<1>1. TypeOK /\ EdgeInv /\ NodeInv /\ r \in Procs
  BY Types DEF Inv
<1>2. CASE SweepEdges(r)
  <2>1. TypeOK' /\ EdgeInv'
    BY <1>1, <1>2, SweepEdgesTyped, SweepEdgesEdges
  <2>2. PICK where \in {"bury", "sweep_nodes"} : Goto(r, where)
    BY <1>2 DEF SweepEdges
  <2>3. graph' = graph /\ UNCHANGED <<counter, node, doomed>>
    BY <1>2 DEF SweepEdges, storeVars, nodeVars
  <2>4. NodeInv'
    BY <1>1, <2>2, <2>3, NoneAppears, MovesNodes
  <2>5. QED
    BY <2>1, <2>4 DEF Inv
<1>3. CASE SweepSaves(r)
  <2>1. TypeOK' /\ EdgeInv'
    BY <1>1, <1>3, SweepSavesTyped, SweepSavesEdges
  <2>2. PICK where \in {"send", "sweep_edges"} : Goto(r, where)
    BY <1>3 DEF SweepSaves
  <2>3. graph' = graph /\ UNCHANGED <<counter, node, doomed>>
    BY <1>3 DEF SweepSaves, storeVars, nodeVars
  <2>4. NodeInv'
    BY <1>1, <2>2, <2>3, NoneAppears, MovesNodes
  <2>5. QED
    BY <2>1, <2>4 DEF Inv
<1>4. CASE SweepNodes(r)
  BY <1>1, <1>4, SweepNodesTyped, SweepNodesEdges, SweepNodesNodes DEF Inv
<1>5. QED
  BY <1>2, <1>3, <1>4

LEMMA FailsInv ==
    ASSUME Inv, NEW p \in Procs, Fails(p)
    PROVE  Inv'
<1>1. TypeOK /\ EdgeInv /\ NodeInv
  BY DEF Inv
<1>2. TypeOK' /\ EdgeInv'
  BY <1>1, FailsTyped, FailsEdges
<1>3. /\ Goto(p, Rest(p)) /\ graph' = graph /\ UNCHANGED <<counter, node>>
      /\ doomed' = [doomed EXCEPT ![p] = NoDoom]
  BY DEF Fails, storeVars, nodeVars
<1>4. NodeInv'
  BY <1>1, <1>3, Types, NoneAppears, MovesNodes
<1>5. QED
  BY <1>2, <1>4 DEF Inv

LEMMA LandsInv ==
    ASSUME Inv, NEW w \in net, Lands(w)
    PROVE  Inv'
<1>1. TypeOK /\ EdgeInv /\ NodeInv
  BY DEF Inv
<1>2. TypeOK' /\ EdgeInv'
  BY <1>1, LandsTyped, LandsEdges
<1>3. graph' = graph /\ UNCHANGED <<counter, node, pc, doomed>>
  BY DEF Lands, Deliver, nodeVars
<1>4. NodeInv'
  BY <1>1, <1>3, NoneAppears, CalmNodes
<1>5. QED
  BY <1>2, <1>4 DEF Inv

LEMMA StutterInv == Inv /\ UNCHANGED vars => Inv'
<1> SUFFICES ASSUME Inv, UNCHANGED vars PROVE Inv'
  OBVIOUS
<1>1. /\ TypeOK /\ EdgeInv /\ NodeInv
      /\ UNCHANGED <<ledger, graph, index, net, counter, node, pc, doomed, docs, batch,
                     ops, faults>>
  BY DEF Inv, vars
<1>2. TypeOK'
  BY <1>1 DEF TypeOK, StoreTypeOK
<1>3. EdgeInv'
  BY <1>1, <1>2, AsideEdges DEF storeVars
<1>4. NodeInv'
  BY <1>1, NoneAppears, CalmNodes
<1>5. QED
  BY <1>2, <1>3, <1>4 DEF Inv

LEMMA NextInv == Inv /\ [Next]_vars => Inv'
<1> SUFFICES ASSUME Inv, [Next]_vars PROVE Inv'
  OBVIOUS
<1>1. ASSUME NEW c \in Clients, ClientStarts(c) \/ PrepareNodes(c) \/ Step(c) PROVE Inv'
  BY <1>1, ClientInv, StepInv, Types
<1>2. ASSUME NEW r \in Reconcilers, ReconcilerStep(r) PROVE Inv'
  BY <1>2, SweepInv, StepInv, Types DEF ReconcilerStep
<1>3. ASSUME NEW p \in Procs, Fails(p) PROVE Inv'
  BY <1>3, FailsInv
<1>4. ASSUME NEW w \in net, Lands(w) PROVE Inv'
  BY <1>4, LandsInv
<1>5. CASE UNCHANGED vars
  BY <1>5, StutterInv
<1>6. QED
  BY <1>1, <1>2, <1>3, <1>4, <1>5 DEF Next

(* The inductive invariant holds in every reachable state.                 *)
THEOREM InvHolds == Spec => []Inv
<1>1. Init => Inv
  BY InitInv
<1>2. Inv /\ [Next]_vars => Inv'
  BY NextInv
<1>3. QED
  BY <1>1, <1>2, PTL DEF Spec

(* Every variable keeps its type.                                          *)
THEOREM TypeCorrect == Spec => []TypeOK
BY InvHolds, PTL DEF Inv

(* No vector of an edge outlives its relationship, whatever clients and    *)
(* reconcilers do to the edge and its endpoints, however late requests to  *)
(* the index land and wherever a process stops.                            *)
THEOREM VectorsOwned == Spec => []EdgeVectorsOwned
<1>1. Inv => EdgeVectorsOwned
  BY DEF Inv, EdgeInv, Sound, EdgeVectorsOwned
<1>2. QED
  BY <1>1, InvHolds, PTL

(* An edge without markers has exactly its own generation in the index.    *)
THEOREM CleanEdgesExact == Spec => []CleanEdgesMirrored
<1>1. ASSUME Inv, NEW u \in Uuids, Clean(u)
      PROVE  index[u] = Content(u)
  <2>1. Sound(u)
    BY <1>1 DEF Inv, EdgeInv
  <2>2. Coherent(u, index[u]) /\ index[u].ver = graph[u].ver
    BY <1>1, <2>1 DEF Sound
  <2>3. QED
    BY <1>1, <2>2 DEF Coherent, Clean
<1>2. Inv => CleanEdgesMirrored
  BY <1>1 DEF Clean, Content, CleanEdgesMirrored
<1>3. QED
  BY <1>2, InvHolds, PTL

(* Removing a node never detaches a relationship: an edge save racing the  *)
(* deletion is refused from the mark on, and the deletion that removes the *)
(* node is one that saw it without edges after marking it.                 *)
THEOREM DetachesNothing == Spec => NothingDetached
<1>1. ASSUME Inv, [Next]_vars, NEW n \in Nodes, node[n] # Absent, node'[n] = Absent
      PROVE  Incident(n) = {}
  <2>1. TypeOK /\ \A p \in Procs : Drained(p)
    BY <1>1 DEF Inv, NodeInv
  <2>2. PICK p \in Procs : FinalizeNodes(p)
    <3>1. ASSUME NEW c \in Clients, NEW m \in Nodes, SaveNode(c, m) PROVE FALSE
      <4>1. node' = node \/ node' = [node EXCEPT ![m] = [ver |-> counter[m] + 1, del |-> FALSE]]
        BY <3>1 DEF SaveNode
      <4>2. [ver |-> counter[m] + 1, del |-> FALSE] \in Node
        BY <2>1 DEF TypeOK, Node
      <4>3. QED
        BY <1>1, <2>1, <4>1, <4>2, CascadeAssumption DEF TypeOK
    <3>2. ASSUME NEW c \in Clients, PrepareNodes(c) PROVE FALSE
      <4>1. [ver |-> doomed[c][n], del |-> TRUE] \in Node
        BY <2>1, Types DEF TypeOK, Node
      <4>2. node'[n] = node[n] \/ node'[n] = [ver |-> doomed[c][n], del |-> TRUE]
        BY <3>2 DEF PrepareNodes
      <4>3. QED
        BY <1>1, <4>1, <4>2, CascadeAssumption
    <3>3. node' # node
      BY <1>1
    <3>4. ASSUME NEW q \in Procs, Step(q), ~FinalizeNodes(q) PROVE FALSE
      BY <3>3, <3>4 DEF Step, Send, Clear, Finalize, Reserve, Prepare, Bury, BulkSucceeds,
         Drain, nodeVars
    <3>5. ASSUME NEW r \in Reconcilers, SweepEdges(r) \/ SweepNodes(r) \/ SweepSaves(r)
          PROVE  FALSE
      BY <3>3, <3>5 DEF SweepEdges, SweepNodes, SweepSaves, nodeVars
    <3>6. ASSUME NEW c \in Clients, SaveEdges(c) \/ StartDeleteEdges(c) \/ StartDeleteNodes(c)
          PROVE  FALSE
      BY <3>3, <3>6 DEF SaveEdges, StartDeleteEdges, StartDeleteNodes, nodeVars
    <3>7. ASSUME NEW q \in Procs, Fails(q) PROVE FALSE
      BY <3>3, <3>7 DEF Fails, nodeVars
    <3>8. ASSUME NEW w \in net, Lands(w) PROVE FALSE
      BY <3>3, <3>8 DEF Lands, nodeVars
    <3>9. Next
      BY <1>1, <3>3 DEF vars
    <3>10. QED
      BY <3>1, <3>2, <3>4, <3>5, <3>6, <3>7, <3>8, <3>9, Types DEF Next, ClientStarts,
         ReconcilerStep
  <2>3. pc[p] = "finalize_nodes" /\ n \in Owned(p)
    BY <1>1, <2>2 DEF FinalizeNodes
  <2>4. QED
    BY <2>1, <2>3 DEF Drained
<1>2. Inv /\ [Next]_vars =>
        [\A n \in Nodes : node[n] # Absent /\ node'[n] = Absent => Incident(n) = {}]_vars
  BY <1>1
<1>3. QED
  BY <1>2, InvHolds, PTL DEF Spec, NothingDetached
=============================================================================
