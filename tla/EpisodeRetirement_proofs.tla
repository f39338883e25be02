----------------------- MODULE EpisodeRetirement_proofs -----------------------
(***************************************************************************)
(* Machine-checked proofs about EpisodeRetirement, for any number of       *)
(* episodes, partitions, contents, requests, writers and retirers.         *)
(***************************************************************************)
EXTENDS EpisodeRetirement, TLAPS

LEMMA EpisodeTyped ==
    ASSUME TypeOK, NEW u \in Episodes, Exists(u)
    PROVE  /\ episode[u] \in Episode
           /\ episode[u].by \in Requests \cup {NoRequest}
           /\ episode[u].deleted \in BOOLEAN /\ episode[u].fenced \in BOOLEAN
BY DEF TypeOK, Exists, Episode

LEMMA ReceiptTyped ==
    ASSUME TypeOK, NEW r \in Requests, receipt[r] # Nothing
    PROVE  /\ receipt[r] \in Receipt
           /\ receipt[r].uuid \in Episodes
           /\ receipt[r].digest \in Contents
           /\ receipt[r].outcome \in {"pending", "retired", "not_applied"}
BY DEF TypeOK, Receipt

LEMMA CallTyped ==
    ASSUME TypeOK, NEW t \in Retirers, pc[t] # "idle"
    PROVE  /\ call[t] \in Call
           /\ call[t].uuid \in Episodes
           /\ call[t].content \in Contents
           /\ call[t].request \in Requests
BY DEF TypeOK, Call

LEMMA WrittenTyped ==
    ASSUME NEW g \in Groups \cup {NoGroup}, NEW x \in Contents \cup {NoContent}
    PROVE  /\ Written(g, x) \in Episode
           /\ Written(g, x) # Nothing
           /\ ~Written(g, x).deleted /\ ~Written(g, x).fenced
           /\ Written(g, x).by = NoRequest
<1>1. Written(g, x) \in Episode
  BY DEF Written, Episode
<1>2. QED
  BY <1>1, NothingAssumption DEF Written

-----------------------------------------------------------------------------
(* The invariant holds initially and is kept, an action at a time.         *)

LEMMA InitInv ==
    ASSUME Init
    PROVE  Inv
<1>1. TypeOK
  BY NothingAssumption, RetirementAssumption
     DEF Init, TypeOK, Document, NothingToIndex, Pcs, TombstoneVersion
<1>2. BooksMatch
  BY DEF Init, BooksMatch, ReceiptsMatch, Retired, Exists
<1>3. TombstonesWhole
  BY DEF Init, TombstonesWhole, Exists
<1>4. DocumentsBlank
  BY DEF Init, DocumentsBlank
<1>5. CallsGrounded
  BY DEF Init, CallsGrounded
<1>6. AnswersBacked
  BY DEF Init, AnswersBacked
<1>7. QED
  BY <1>1, <1>2, <1>3, <1>4, <1>5, <1>6 DEF Inv

(* Writing, deleting and reserving leave tombstones alone and make none.   *)
Untombed(u) ==
    \/ episode'[u] = episode[u]
    \/ /\ ~Retired(u)
       /\ \/ episode'[u] = Nothing
          \/ \E g \in Groups \cup {NoGroup} : \E x \in Contents \cup {NoContent} :
                episode'[u] = Written(g, x)

LEMMA UntombedInv ==
    ASSUME Inv, \A u \in Episodes : Untombed(u),
           UNCHANGED <<federated, receipt, search, pc, call, answers>>
    PROVE  BooksMatch' /\ TombstonesWhole' /\ CallsGrounded' /\ AnswersBacked'
<1>1. ASSUME NEW u \in Episodes
      PROVE  /\ Retired(u)' <=> Retired(u)
             /\ Retired(u) => episode'[u] = episode[u]
             /\ Exists(u)' /\ ~Retired(u) =>
                  episode'[u].by = NoRequest /\ ~episode'[u].fenced
  BY <1>1, WrittenTyped DEF Inv, Untombed, Retired, Exists, TombstonesWhole
<1>2. ASSUME NEW r \in Requests, receipt[r] # Nothing
      PROVE  receipt[r].uuid \in Episodes
  BY <1>2, ReceiptTyped DEF Inv
<1>3. BooksMatch'
  BY <1>1, <1>2 DEF Inv, BooksMatch, ReceiptsMatch
<1>4. TombstonesWhole'
  BY <1>1 DEF Inv, TombstonesWhole, Retired, Exists
<1>5. CallsGrounded'
  BY DEF Inv, CallsGrounded
<1>6. AnswersBacked'
  <2>1. ASSUME NEW u \in Episodes, Exists(u), episode[u].fenced
        PROVE  Exists(u)' /\ episode'[u].fenced
    BY <1>1, <2>1 DEF Inv, TombstonesWhole, Retired, Exists
  <2>2. QED
    BY <1>2, <2>1 DEF Inv, AnswersBacked
<1>7. QED
  BY <1>3, <1>4, <1>5, <1>6

(* What a save of S into g may do.                                         *)
SavesAs(w, S, g, x) ==
    \/ /\ \A u \in S : Writable(u, g)
       /\ episode' = [u \in Episodes |-> IF u \in S THEN Written(g, x[u]) ELSE episode[u]]
       /\ writing' = IF federated
                     THEN [writing EXCEPT ![w] =
                             [u \in Episodes |-> IF u \in S THEN x[u] ELSE NoContent]]
                     ELSE writing
    \/ /\ episode' = [u \in Episodes |->
                         IF u \in S /\ ~Exists(u) THEN Written(NoGroup, NoContent)
                         ELSE episode[u]]
       /\ UNCHANGED writing
    \/ UNCHANGED <<episode, writing>>

LEMMA SavesUntombed ==
    ASSUME Inv, NEW w \in Writers, NEW S \in SUBSET Episodes, NEW g \in Groups,
           NEW x \in [S -> Contents], SavesAs(w, S, g, x)
    PROVE  \A u \in Episodes : Untombed(u)
<1>1. SUFFICES ASSUME NEW u \in Episodes, episode'[u] # episode[u]
               PROVE  Untombed(u)
  BY DEF Untombed
<1>2. \/ u \in S /\ Writable(u, g) /\ episode'[u] = Written(g, x[u])
      \/ ~Exists(u) /\ episode'[u] = Written(NoGroup, NoContent)
  BY <1>1 DEF SavesAs, Inv, TypeOK
<1>3. \/ ~Retired(u) /\ u \in S /\ episode'[u] = Written(g, x[u])
      \/ ~Retired(u) /\ episode'[u] = Written(NoGroup, NoContent)
  BY <1>2 DEF Writable, Retired, Exists
<1>4. u \in S => x[u] \in Contents
  OBVIOUS
<1>5. QED
  BY <1>3, <1>4 DEF Untombed

LEMMA SaveInv ==
    ASSUME Inv, NEW w \in Writers, Save(w)
    PROVE  Inv'
<1>1. PICK S \in (SUBSET Episodes) \ {{}} :
          \E g \in Groups : \E x \in [S -> Contents] : SavesAs(w, S, g, x)
  BY DEF Save, SavesAs
<1>g. PICK g \in Groups : \E x \in [S -> Contents] : SavesAs(w, S, g, x)
  BY <1>1
<1>x. PICK x \in [S -> Contents] : SavesAs(w, S, g, x)
  BY <1>g
<1>2. UNCHANGED <<federated, receipt, search, net, pc, call, page, answers, faults>>
  BY DEF Save
<1>3. \A u \in Episodes : Untombed(u)
  BY <1>x, SavesUntombed
<1>4. TypeOK'
  <2>1. episode' \in [Episodes -> Episode \cup {Nothing}]
    <3>1. \A u \in S : x[u] \in Contents /\ Written(g, x[u]) \in Episode
      BY WrittenTyped
    <3>2. Written(NoGroup, NoContent) \in Episode
      BY WrittenTyped
    <3>3. QED
      BY <1>x, <3>1, <3>2 DEF SavesAs, Inv, TypeOK
  <2>2. writing' \in [Writers -> [Episodes -> Contents \cup {NoContent}]]
    BY <1>x DEF SavesAs, Inv, TypeOK
  <2>3. QED
    BY <1>2, <2>1, <2>2 DEF Inv, TypeOK
<1>5. DocumentsBlank'
  BY <1>x, <1>2 DEF SavesAs, Inv, DocumentsBlank
<1>6. QED
  BY <1>2, <1>3, <1>4, <1>5, UntombedInv DEF Inv

LEMMA IndexInv ==
    ASSUME Inv, NEW w \in Writers, Index(w)
    PROVE  Inv'
<1>1. federated
  BY DEF Index, Inv, DocumentsBlank
<1>2. TypeOK'
  <2>1. ASSUME NEW u \in Episodes
        PROVE  [ver |-> WriteVersion, content |-> writing[w][u]] \in Document
    BY DEF Inv, TypeOK, Document, WriteVersion, TombstoneVersion
  <2>2. net' \subseteq Episodes \X Document
    BY <2>1 DEF Index, Inv, TypeOK
  <2>3. writing' \in [Writers -> [Episodes -> Contents \cup {NoContent}]]
    BY DEF Index, Inv, TypeOK, NothingToIndex
  <2>4. QED
    BY <2>2, <2>3 DEF Index, Inv, TypeOK
<1>3. DocumentsBlank'
  BY <1>1 DEF Index, Inv, DocumentsBlank, WriteVersion, TombstoneVersion
<1>4. QED
  BY <1>2, <1>3
     DEF Index, Inv, BooksMatch, ReceiptsMatch, TombstonesWhole, CallsGrounded,
         AnswersBacked, Retired, Exists

LEMMA WriterFailsInv ==
    ASSUME Inv, NEW w \in Writers, WriterFails(w)
    PROVE  Inv'
<1>1. TypeOK'
  BY RetirementAssumption DEF WriterFails, Inv, TypeOK, NothingToIndex
<1>2. DocumentsBlank'
  BY DEF WriterFails, Inv, TypeOK, DocumentsBlank
<1>3. QED
  BY <1>1, <1>2
     DEF WriterFails, Inv, BooksMatch, ReceiptsMatch, TombstonesWhole, CallsGrounded,
         AnswersBacked, Retired, Exists

LEMMA LandsInv ==
    ASSUME Inv, NEW m \in net, Lands(m[1], m[2])
    PROVE  Inv'
<1>1. /\ m[1] \in Episodes /\ m[2] \in Document
      /\ federated
      /\ \A u \in Episodes : search[u].ver \in 0..TombstoneVersion
      /\ m[2].ver \in 0..TombstoneVersion
  BY DEF Inv, TypeOK, DocumentsBlank, Document
<1>2. /\ \A u \in Episodes : search[u].ver = TombstoneVersion =>
            search'[u].ver = TombstoneVersion
      /\ search' \in [Episodes -> Document]
  BY <1>1 DEF Lands, Inv, TypeOK, TombstoneVersion
<1>3. TypeOK'
  BY <1>2 DEF Lands, Inv, TypeOK
<1>4. DocumentsBlank'
  BY <1>1 DEF Lands, Inv, TypeOK, DocumentsBlank
<1>5. TombstonesWhole'
  BY <1>2 DEF Lands, Inv, TombstonesWhole, Exists
<1>6. CallsGrounded'
  BY <1>2, CallTyped DEF Lands, Inv, CallsGrounded
<1>7. QED
  BY <1>3, <1>4, <1>5, <1>6
     DEF Lands, Inv, BooksMatch, ReceiptsMatch, AnswersBacked, Retired, Exists

LEMMA DeleteInv ==
    ASSUME Inv, NEW u \in Episodes, Delete(u)
    PROVE  Inv'
<1>1. \A v \in Episodes : Untombed(v)
  BY DEF Delete, Untombed, Retired, Inv, TypeOK
<1>2. TypeOK' /\ DocumentsBlank'
  BY DEF Delete, Inv, TypeOK, DocumentsBlank
<1>3. QED
  BY <1>1, <1>2, UntombedInv DEF Delete, Inv

LEMMA SelectPageInv ==
    ASSUME Inv, SelectPage
    PROVE  Inv'
<1>1. TypeOK' /\ DocumentsBlank'
  BY DEF SelectPage, Inv, TypeOK, DocumentsBlank
<1>2. QED
  BY <1>1, UntombedInv DEF SelectPage, Inv, Untombed

LEMMA DeletePageInv ==
    ASSUME Inv, DeletePage
    PROVE  Inv'
<1>1. \A v \in Episodes : Untombed(v)
  BY DEF DeletePage, Untombed, Inv, TypeOK
<1>2. TypeOK' /\ DocumentsBlank'
  BY DEF DeletePage, Inv, TypeOK, DocumentsBlank
<1>3. QED
  BY <1>1, <1>2, UntombedInv DEF DeletePage, Inv

-----------------------------------------------------------------------------
(* Retirement requests.                                                    *)

(* Where requests go.                                                      *)
LEMMA GoesGrounded ==
    ASSUME Inv, NEW t \in Retirers, NEW where \in Pcs, NEW c \in Call, Goes(t, where, c),
           \A r \in Requests : receipt[r] # Nothing => receipt'[r] # Nothing,
           where # "idle" => receipt'[c.request] # Nothing,
           where \in {"apply", "decide", "fence", "fencing"} => federated,
           where = "finalize" /\ federated => search[c.uuid].ver = TombstoneVersion,
           UNCHANGED <<federated, search>>
    PROVE  /\ CallsGrounded'
           /\ pc' \in [Retirers -> Pcs]
           /\ call' \in [Retirers -> Call \cup {Nothing}]
           /\ \A q \in Retirers : pc'[q] = "idle" <=> call'[q] = Nothing
<1>1. /\ pc' \in [Retirers -> Pcs] /\ call' \in [Retirers -> Call \cup {Nothing}]
      /\ pc'[t] = where /\ call'[t] = IF where = "idle" THEN Nothing ELSE c
      /\ \A q \in Retirers \ {t} : pc'[q] = pc[q] /\ call'[q] = call[q]
      /\ c # Nothing
  BY NothingAssumption DEF Goes, Inv, TypeOK
<1>2. \A q \in Retirers : pc'[q] = "idle" <=> call'[q] = Nothing
  BY <1>1 DEF Inv, TypeOK
<1>3. ASSUME NEW q \in Retirers \ {t}, pc[q] # "idle"
      PROVE  receipt'[call[q].request] # Nothing
  BY <1>3, CallTyped DEF Inv, CallsGrounded
<1>4. CallsGrounded'
  BY <1>1, <1>3 DEF Inv, CallsGrounded
<1>5. QED
  BY <1>1, <1>2, <1>4

LEMMA ReceiptsKept ==
    ASSUME Inv, \A r \in Requests : receipt[r] # Nothing => receipt'[r] # Nothing,
           UNCHANGED <<federated, search, pc, call>>
    PROVE  CallsGrounded'
<1>1. ASSUME NEW q \in Retirers, pc[q] # "idle"
      PROVE  receipt'[call[q].request] # Nothing
  BY <1>1, CallTyped DEF Inv, CallsGrounded
<1>2. QED
  BY <1>1 DEF Inv, CallsGrounded

(* What callers are told.                                                  *)
Backed(r, outcome) ==
    /\ receipt'[r] # Nothing /\ receipt'[r].outcome = outcome
    /\ outcome = "retired" =>
          episode'[receipt'[r].uuid] # Nothing /\ episode'[receipt'[r].uuid].fenced

Answered(r, outcome) == UNCHANGED answers \/ (Told(r, outcome) /\ Backed(r, outcome))

(* Outcomes are final, fences stay.                                        *)
Durably ==
    /\ \A r \in Requests :
          receipt[r] # Nothing /\ receipt[r].outcome # "pending" => receipt'[r] = receipt[r]
    /\ \A u \in Episodes :
          Exists(u) /\ episode[u].fenced => Exists(u)' /\ episode'[u].fenced

LEMMA AnsweredBacked ==
    ASSUME Inv, Durably, NEW r \in Requests, NEW outcome \in {"retired", "not_applied"},
           Answered(r, outcome)
    PROVE  /\ AnswersBacked'
           /\ answers' \in [Requests -> SUBSET {"retired", "not_applied"}]
<1>1. /\ answers' \in [Requests -> SUBSET {"retired", "not_applied"}]
      /\ \A q \in Requests : \A o \in answers'[q] :
            o \in answers[q] \/ (q = r /\ o = outcome /\ Backed(r, outcome))
  BY DEF Answered, Told, Inv, TypeOK
<1>2. ASSUME NEW q \in Requests, "not_applied" \in answers'[q]
      PROVE  receipt'[q] # Nothing /\ receipt'[q].outcome = "not_applied"
  BY <1>1, <1>2 DEF Backed, Durably, Inv, AnswersBacked
<1>3. ASSUME NEW q \in Requests, "retired" \in answers'[q]
      PROVE  /\ receipt'[q] # Nothing /\ receipt'[q].outcome = "retired"
             /\ episode'[receipt'[q].uuid] # Nothing /\ episode'[receipt'[q].uuid].fenced
  <2>1. CASE "retired" \in answers[q]
    <3>1. /\ receipt[q] # Nothing /\ receipt[q].outcome = "retired"
          /\ Exists(receipt[q].uuid) /\ episode[receipt[q].uuid].fenced
      BY <2>1 DEF Inv, AnswersBacked
    <3>2. receipt[q].uuid \in Episodes
      BY <3>1, ReceiptTyped DEF Inv
    <3>3. QED
      BY <3>1, <3>2 DEF Durably, Exists
  <2>2. CASE "retired" \notin answers[q]
    BY <1>1, <1>3, <2>2 DEF Backed
  <2>3. QED
    BY <2>1, <2>2
<1>4. QED
  BY <1>1, <1>2, <1>3 DEF AnswersBacked, Exists

-----------------------------------------------------------------------------
(* The tombstone and the receipt are written together.                     *)

Recorded(c, outcome) == [uuid |-> c.uuid, digest |-> c.content, outcome |-> outcome]

Mine(c) == receipt[c.request] # Nothing =>
               receipt[c.request].uuid = c.uuid /\ receipt[c.request].digest = c.content

OutcomeOf(c) == IF receipt[c.request] = Nothing THEN "pending"
                ELSE receipt[c.request].outcome

Retires(c) ==
    /\ Mine(c) /\ Applies(c, OutcomeOf(c))
    /\ receipt' = [receipt EXCEPT ![c.request] = Recorded(c, "retired")]
    /\ episode' = Tombstoned(c)
    /\ UNCHANGED <<federated, search>>

LEMMA TombstonedFacts ==
    ASSUME TypeOK, NEW c \in Call, Exists(c.uuid), episode' = Tombstoned(c)
    PROVE  /\ episode' \in [Episodes -> Episode \cup {Nothing}]
           /\ \A u \in Episodes \ {c.uuid} : episode'[u] = episode[u]
           /\ Exists(c.uuid)' /\ episode'[c.uuid].deleted
           /\ episode'[c.uuid].by = c.request /\ episode'[c.uuid].digest = c.content
           /\ episode'[c.uuid].fenced = episode[c.uuid].fenced
           /\ episode'[c.uuid].group = episode[c.uuid].group
           /\ episode'[c.uuid].content = episode[c.uuid].content
<1>1. c.uuid \in Episodes /\ c.content \in Contents /\ c.request \in Requests
  BY DEF Call
<1>2. episode[c.uuid] \in Episode
  BY <1>1, EpisodeTyped
<1>3. /\ \A u \in Episodes \ {c.uuid} : episode'[u] = episode[u]
      /\ DOMAIN episode' = Episodes
  BY <1>1 DEF Tombstoned, TypeOK
<1>4. episode'[c.uuid] =
          [episode[c.uuid] EXCEPT !.deleted = TRUE, !.digest = c.content, !.by = c.request]
  BY <1>1, <1>2 DEF Tombstoned, TypeOK, Episode
<1>5. /\ episode'[c.uuid] \in Episode
      /\ episode'[c.uuid].deleted
      /\ episode'[c.uuid].by = c.request /\ episode'[c.uuid].digest = c.content
      /\ episode'[c.uuid].fenced = episode[c.uuid].fenced
      /\ episode'[c.uuid].group = episode[c.uuid].group
      /\ episode'[c.uuid].content = episode[c.uuid].content
  BY <1>1, <1>2, <1>4 DEF Episode
<1>6. episode' \in [Episodes -> Episode \cup {Nothing}]
  <2>1. episode' = [u \in Episodes |-> episode'[u]]
    BY <1>3 DEF Tombstoned
  <2>2. \A u \in Episodes : episode'[u] \in Episode \cup {Nothing}
    BY <1>3, <1>5 DEF TypeOK
  <2>3. QED
    BY <2>1, <2>2
<1>7. QED
  BY <1>3, <1>5, <1>6, NothingAssumption DEF Exists

LEMMA RetiresInv ==
    ASSUME Inv, NEW c \in Call, Retires(c)
    PROVE  /\ episode' \in [Episodes -> Episode \cup {Nothing}]
           /\ receipt' \in [Requests -> Receipt \cup {Nothing}]
           /\ \A r \in Requests : receipt[r] # Nothing => receipt'[r] # Nothing
           /\ receipt'[c.request] = Recorded(c, "retired") /\ receipt'[c.request] # Nothing
           /\ BooksMatch' /\ TombstonesWhole' /\ Durably
<1>1. c.uuid \in Episodes /\ c.content \in Contents /\ c.request \in Requests
  BY DEF Call
<1>2. /\ Exists(c.uuid)
      /\ OutcomeOf(c) \in {"pending", "retired"}
      /\ \/ ~episode[c.uuid].deleted
         \/ episode[c.uuid].deleted /\ episode[c.uuid].by = c.request
                /\ episode[c.uuid].digest = c.content
  BY DEF Retires, Applies
<1>3. /\ episode' \in [Episodes -> Episode \cup {Nothing}]
      /\ \A u \in Episodes \ {c.uuid} : episode'[u] = episode[u]
      /\ Exists(c.uuid)' /\ episode'[c.uuid].deleted
      /\ episode'[c.uuid].by = c.request /\ episode'[c.uuid].digest = c.content
      /\ episode'[c.uuid].fenced = episode[c.uuid].fenced
      /\ episode'[c.uuid].group = episode[c.uuid].group
      /\ episode'[c.uuid].content = episode[c.uuid].content
  BY <1>2, TombstonedFacts DEF Retires, Inv
<1>4. /\ Recorded(c, "retired") \in Receipt
      /\ Recorded(c, "retired") # Nothing
      /\ Recorded(c, "retired").uuid = c.uuid
      /\ Recorded(c, "retired").digest = c.content
      /\ Recorded(c, "retired").outcome = "retired"
  <2>1. Recorded(c, "retired") \in Receipt
    BY <1>1 DEF Recorded, Receipt
  <2>2. QED
    BY <2>1, NothingAssumption DEF Recorded
<1>5. /\ receipt' \in [Requests -> Receipt \cup {Nothing}]
      /\ receipt'[c.request] = Recorded(c, "retired")
      /\ \A r \in Requests \ {c.request} : receipt'[r] = receipt[r]
  BY <1>1, <1>4 DEF Retires, Inv, TypeOK
<1>6. ASSUME NEW r \in Requests \ {c.request}, receipt[r] # Nothing,
             receipt[r].outcome = "retired"
      PROVE  receipt[r].uuid \in Episodes \ {c.uuid}
  BY <1>2, <1>6, ReceiptTyped DEF Inv, BooksMatch, ReceiptsMatch, Retired
<1>7. ASSUME NEW u \in Episodes \ {c.uuid}, Retired(u)
      PROVE  episode[u].by \in Requests \ {c.request}
  BY <1>7, <1>1 DEF Retires, Mine, Inv, BooksMatch, ReceiptsMatch
<1>8. BooksMatch'
  <2>1. ASSUME NEW r \in Requests, receipt'[r] # Nothing, receipt'[r].outcome = "retired"
        PROVE  /\ Retired(receipt[r].uuid)'
               /\ episode'[receipt'[r].uuid].by = r
               /\ episode'[receipt'[r].uuid].digest = receipt'[r].digest
    <3>1. CASE r = c.request
      BY <1>3, <1>4, <1>5, <3>1 DEF Retired
    <3>2. CASE r # c.request
      BY <1>3, <1>5, <1>6, <2>1, <3>2 DEF Inv, BooksMatch, ReceiptsMatch, Retired, Exists
    <3>3. QED
      BY <3>1, <3>2
  <2>2. ASSUME NEW u \in Episodes, Retired(u)'
        PROVE  /\ episode'[u].by \in Requests
               /\ receipt'[episode'[u].by] # Nothing
               /\ receipt'[episode'[u].by].outcome = "retired"
               /\ receipt'[episode'[u].by].uuid = u
    <3>1. CASE u = c.uuid
      BY <1>1, <1>3, <1>4, <1>5, <3>1
    <3>2. CASE u # c.uuid
      BY <1>3, <1>5, <1>7, <2>2, <3>2 DEF Inv, BooksMatch, ReceiptsMatch, Retired, Exists
    <3>3. QED
      BY <3>1, <3>2
  <2>3. QED
    BY <2>1, <2>2 DEF BooksMatch, ReceiptsMatch
<1>9. TombstonesWhole'
  BY <1>1, <1>2, <1>3 DEF Retires, Inv, TombstonesWhole, Exists
<1>10. Durably
  <2>1. ASSUME NEW r \in Requests, receipt[r] # Nothing, receipt[r].outcome # "pending"
        PROVE  receipt'[r] = receipt[r]
    <3>1. CASE r = c.request
      <4>1. receipt[r] \in Receipt /\ receipt[r].outcome = "retired"
              /\ receipt[r].uuid = c.uuid /\ receipt[r].digest = c.content
        BY <1>2, <2>1, <3>1, ReceiptTyped DEF OutcomeOf, Retires, Mine, Inv
      <4>2. receipt[r] = Recorded(c, "retired")
        BY <4>1 DEF Receipt, Recorded
      <4>3. QED
        BY <1>5, <3>1, <4>2
    <3>2. CASE r # c.request
      BY <1>5, <3>2
    <3>3. QED
      BY <3>1, <3>2
  <2>2. QED
    BY <1>1, <1>3, <2>1 DEF Durably, Exists
<1>11. QED
  BY <1>3, <1>4, <1>5, <1>8, <1>9, <1>10

(* Nothing retired: the tombstones and what is recorded stay, though a     *)
(* pending request may be called off and a new one put on record.          *)
Records(r) ==
    /\ receipt'[r] # Nothing
    /\ receipt[r] # Nothing =>
          /\ receipt'[r].uuid = receipt[r].uuid
          /\ receipt'[r].digest = receipt[r].digest
          /\ receipt[r].outcome # "pending" => receipt'[r] = receipt[r]
    /\ receipt'[r].outcome = "retired" => receipt[r] # Nothing /\ receipt[r].outcome = "retired"

LEMMA RecordsInv ==
    ASSUME Inv, \A r \in Requests : receipt'[r] = receipt[r] \/ Records(r),
           UNCHANGED <<federated, episode, search>>
    PROVE  /\ \A r \in Requests : receipt[r] # Nothing => receipt'[r] # Nothing
           /\ BooksMatch' /\ TombstonesWhole' /\ Durably
<1>1. ASSUME NEW r \in Requests
      PROVE  /\ receipt[r] # Nothing => receipt'[r] # Nothing
             /\ receipt[r] # Nothing /\ receipt[r].outcome # "pending" =>
                   receipt'[r] = receipt[r]
             /\ receipt'[r] # Nothing /\ receipt'[r].outcome = "retired" =>
                   receipt'[r] = receipt[r]
  BY <1>1 DEF Records
<1>2. BooksMatch'
  BY <1>1 DEF Inv, BooksMatch, ReceiptsMatch, Retired, Exists
<1>3. TombstonesWhole'
  BY DEF Inv, TombstonesWhole, Exists
<1>4. QED
  BY <1>1, <1>2, <1>3 DEF Durably, Exists

LEMMA IssuedTyped ==
    ASSUME TypeOK, NEW c \in Call
    PROVE  /\ Issued(c) \in Receipt /\ Issued(c) # Nothing
           /\ Issued(c).outcome \in {"pending", "retired", "not_applied"}
           /\ Issued(c).outcome = OutcomeOf(c)
           /\ (Issued(c).uuid = c.uuid /\ Issued(c).digest = c.content) <=> Mine(c)
           /\ receipt[c.request] # Nothing => Issued(c) = receipt[c.request]
<1>1. c.uuid \in Episodes /\ c.content \in Contents /\ c.request \in Requests
  BY DEF Call
<1>2. Issued(c) \in Receipt
  BY <1>1 DEF Issued, TypeOK, Receipt
<1>3. QED
  BY <1>1, <1>2, NothingAssumption DEF Issued, Receipt, OutcomeOf, Mine

(* What the retirement requests leave alone.                               *)
LEMMA IndexStill ==
    ASSUME Inv, UNCHANGED <<federated, search, net, writing>>
    PROVE  DocumentsBlank'
BY DEF Inv, DocumentsBlank

LEMMA BindInv ==
    ASSUME Inv, federated, NEW t \in Retirers, NEW c \in Call, Bind(t, c)
    PROVE  Inv'
<1>1. c.uuid \in Episodes /\ c.content \in Contents /\ c.request \in Requests
  BY DEF Call
<1>2. UNCHANGED <<federated, episode, search, net, writing, page, faults>>
  BY DEF Bind
<1>3. /\ Issued(c) \in Receipt /\ Issued(c) # Nothing
      /\ Issued(c).outcome \in {"pending", "retired", "not_applied"}
      /\ receipt[c.request] # Nothing => Issued(c) = receipt[c.request]
      /\ receipt[c.request] = Nothing => Issued(c).outcome = "pending"
  BY IssuedTyped DEF Inv, OutcomeOf
<1>4. /\ receipt' \in [Requests -> Receipt \cup {Nothing}]
      /\ receipt'[c.request] = Issued(c)
      /\ \A r \in Requests \ {c.request} : receipt'[r] = receipt[r]
  BY <1>1, <1>3 DEF Bind, Inv, TypeOK
<1>5. \A r \in Requests : receipt'[r] = receipt[r] \/ Records(r)
  BY <1>3, <1>4 DEF Records
<1>6. /\ \A r \in Requests : receipt[r] # Nothing => receipt'[r] # Nothing
      /\ BooksMatch' /\ TombstonesWhole' /\ Durably
  BY <1>2, <1>5, RecordsInv
<1>7. Answered(c.request, "not_applied")
  BY <1>3, <1>4 DEF Bind, Answered, Backed
<1>8. AnswersBacked' /\ answers' \in [Requests -> SUBSET {"retired", "not_applied"}]
  BY <1>1, <1>6, <1>7, AnsweredBacked
<1>9. /\ CallsGrounded'
      /\ pc' \in [Retirers -> Pcs]
      /\ call' \in [Retirers -> Call \cup {Nothing}]
      /\ \A q \in Retirers : pc'[q] = "idle" <=> call'[q] = Nothing
  <2>1. CASE UNCHANGED <<pc, call>>
    BY <1>2, <1>6, <2>1, ReceiptsKept DEF Inv, TypeOK
  <2>2. CASE Goes(t, "apply", c)
    <3>1. "apply" \in Pcs
      BY DEF Pcs
    <3>2. receipt'[c.request] # Nothing
      BY <1>3, <1>4
    <3>3. QED
      BY <1>2, <1>6, <2>2, <3>1, <3>2, GoesGrounded
  <2>3. QED
    BY <2>1, <2>2 DEF Bind
<1>10. TypeOK'
  BY <1>2, <1>4, <1>8, <1>9 DEF Inv, TypeOK
<1>11. QED
  BY <1>2, <1>6, <1>8, <1>9, <1>10, IndexStill DEF Inv

LEMMA ProceedsInv ==
    ASSUME Inv, NEW t \in Retirers, NEW c \in Call, Retires(c), Proceeds(t, c),
           UNCHANGED <<net, writing, page, faults>>
    PROVE  Inv'
<1>1. c.uuid \in Episodes /\ c.content \in Contents /\ c.request \in Requests
  BY DEF Call
<1>2. /\ episode' \in [Episodes -> Episode \cup {Nothing}]
      /\ receipt' \in [Requests -> Receipt \cup {Nothing}]
      /\ \A r \in Requests : receipt[r] # Nothing => receipt'[r] # Nothing
      /\ receipt'[c.request] = Recorded(c, "retired") /\ receipt'[c.request] # Nothing
      /\ BooksMatch' /\ TombstonesWhole' /\ Durably
  BY RetiresInv
<1>3. UNCHANGED <<federated, search>>
  BY DEF Retires
<1>4. Answered(c.request, "retired")
  <2>1. CASE Fenced(c) /\ Told(c.request, "retired")
    <3>1. Exists(c.uuid)' /\ episode'[c.uuid].fenced
      BY <1>1, <1>2, <2>1 DEF Durably, Fenced, Retires, Applies
    <3>2. QED
      BY <1>2, <2>1, <3>1 DEF Answered, Backed, Recorded, Exists
  <2>2. CASE UNCHANGED answers
    BY <2>2 DEF Answered
  <2>3. QED
    BY <2>1, <2>2 DEF Proceeds
<1>5. AnswersBacked' /\ answers' \in [Requests -> SUBSET {"retired", "not_applied"}]
  BY <1>1, <1>2, <1>4, AnsweredBacked
<1>6. /\ CallsGrounded'
      /\ pc' \in [Retirers -> Pcs]
      /\ call' \in [Retirers -> Call \cup {Nothing}]
      /\ \A q \in Retirers : pc'[q] = "idle" <=> call'[q] = Nothing
  <2>1. CASE Goes(t, "idle", c)
    BY <1>2, <1>3, <2>1, GoesGrounded DEF Pcs
  <2>2. CASE federated /\ Goes(t, "fence", c)
    BY <1>2, <1>3, <2>2, GoesGrounded DEF Pcs
  <2>3. CASE ~federated /\ Goes(t, "finalize", c)
    BY <1>2, <1>3, <2>3, GoesGrounded DEF Pcs
  <2>4. QED
    BY <2>1, <2>2, <2>3 DEF Proceeds
<1>7. TypeOK'
  BY <1>2, <1>3, <1>5, <1>6 DEF Inv, TypeOK
<1>8. QED
  BY <1>2, <1>3, <1>5, <1>6, <1>7, IndexStill DEF Inv

LEMMA ApplyRetires ==
    ASSUME TypeOK, NEW c \in Call, receipt[c.request] # Nothing,
           Bound(c), Applies(c, receipt[c.request].outcome),
           episode' = Tombstoned(c), Decided(c.request, "retired"),
           UNCHANGED <<federated, search>>
    PROVE  Retires(c)
<1>1. receipt[c.request] \in Receipt
  BY DEF TypeOK, Call
<1>2. Mine(c) /\ OutcomeOf(c) = receipt[c.request].outcome
  BY DEF Bound, Mine, OutcomeOf
<1>3. [receipt[c.request] EXCEPT !.outcome = "retired"] = Recorded(c, "retired")
  BY <1>1 DEF Bound, Receipt, Recorded
<1>4. receipt' = [receipt EXCEPT ![c.request] = Recorded(c, "retired")]
  BY <1>3 DEF Decided
<1>5. QED
  BY <1>2, <1>4 DEF Retires

LEMMA ApplyInv ==
    ASSUME Inv, NEW t \in Retirers, Apply(t)
    PROVE  Inv'
<1> DEFINE c == call[t]
<1>1. c \in Call /\ c.uuid \in Episodes /\ c.content \in Contents /\ c.request \in Requests
  BY CallTyped DEF Apply, Inv
<1>2. federated /\ receipt[c.request] # Nothing
  BY DEF Apply, Inv, CallsGrounded
<1>3. CASE Goes(t, "decide", c) /\ UNCHANGED <<episode, receipt, answers>>
  <2>1. UNCHANGED <<federated, search, net, writing, page, faults>>
    BY DEF Apply
  <2>2. /\ CallsGrounded'
        /\ pc' \in [Retirers -> Pcs]
        /\ call' \in [Retirers -> Call \cup {Nothing}]
        /\ \A q \in Retirers : pc'[q] = "idle" <=> call'[q] = Nothing
    <3>1. receipt' = receipt /\ receipt'[c.request] # Nothing
      BY <1>2, <1>3
    <3>2. QED
      BY <1>1, <1>2, <1>3, <2>1, <3>1, GoesGrounded DEF Pcs
  <2>3. QED
    BY <1>3, <2>1, <2>2, IndexStill
       DEF Inv, TypeOK, BooksMatch, ReceiptsMatch, TombstonesWhole, AnswersBacked,
           Retired, Exists
<1>4. CASE /\ Bound(c) /\ Applies(c, receipt[c.request].outcome)
           /\ episode' = Tombstoned(c)
           /\ Decided(c.request, "retired")
           /\ Proceeds(t, c)
  <2>1. Retires(c)
    BY <1>1, <1>2, <1>4, ApplyRetires DEF Inv, Apply
  <2>2. QED
    BY <1>1, <1>4, <2>1, ProceedsInv DEF Apply
<1>5. QED
  BY <1>3, <1>4 DEF Apply
LEMMA DecidedReceipt ==
    ASSUME TypeOK, NEW r \in Requests, receipt[r] # Nothing,
           NEW outcome \in {"pending", "retired", "not_applied"}, Decided(r, outcome)
    PROVE  /\ receipt' \in [Requests -> Receipt \cup {Nothing}]
           /\ \A q \in Requests \ {r} : receipt'[q] = receipt[q]
           /\ receipt'[r] \in Receipt /\ receipt'[r] # Nothing
           /\ receipt'[r].uuid = receipt[r].uuid /\ receipt'[r].digest = receipt[r].digest
           /\ receipt'[r].outcome = outcome
           /\ outcome = receipt[r].outcome => receipt'[r] = receipt[r]
<1>1. receipt[r] \in Receipt
  BY DEF TypeOK
<1>2. receipt'[r] = [receipt[r] EXCEPT !.outcome = outcome]
  BY DEF Decided, TypeOK
<1>3. /\ receipt'[r] \in Receipt
      /\ receipt'[r].uuid = receipt[r].uuid /\ receipt'[r].digest = receipt[r].digest
      /\ receipt'[r].outcome = outcome
      /\ outcome = receipt[r].outcome => receipt'[r] = receipt[r]
  BY <1>1, <1>2 DEF Receipt
<1>4. receipt' = [q \in Requests |-> receipt'[q]] /\ \A q \in Requests \ {r} : receipt'[q] = receipt[q]
  BY DEF Decided, TypeOK
<1>5. receipt' \in [Requests -> Receipt \cup {Nothing}]
  <2>1. \A q \in Requests : receipt'[q] \in Receipt \cup {Nothing}
    BY <1>3, <1>4 DEF TypeOK
  <2>2. QED
    BY <1>4, <2>1
<1>6. QED
  BY <1>3, <1>4, <1>5, NothingAssumption

LEMMA DecideInv ==
    ASSUME Inv, NEW t \in Retirers, Decide(t)
    PROVE  Inv'
<1> DEFINE c == call[t]
           outcome == IF receipt[c.request].outcome = "pending" THEN "not_applied"
                      ELSE receipt[c.request].outcome
<1>1. c \in Call /\ c.uuid \in Episodes /\ c.content \in Contents /\ c.request \in Requests
  BY CallTyped DEF Decide, Inv
<1>2. federated /\ receipt[c.request] # Nothing
  BY DEF Decide, Inv, CallsGrounded
<1>3. outcome \in {"retired", "not_applied"}
  BY <1>1, <1>2, ReceiptTyped DEF Inv
<1>4. UNCHANGED <<federated, episode, search, net, writing, page, faults>>
  BY DEF Decide
<1>5. Decided(c.request, outcome)
  BY DEF Decide
<1>6. /\ receipt' \in [Requests -> Receipt \cup {Nothing}]
      /\ \A q \in Requests \ {c.request} : receipt'[q] = receipt[q]
      /\ receipt'[c.request] # Nothing
      /\ receipt'[c.request].uuid = receipt[c.request].uuid
      /\ receipt'[c.request].digest = receipt[c.request].digest
      /\ receipt'[c.request].outcome = outcome
      /\ outcome = receipt[c.request].outcome => receipt'[c.request] = receipt[c.request]
  BY <1>1, <1>2, <1>3, <1>5, DecidedReceipt DEF Inv
<1>7. \A r \in Requests : receipt'[r] = receipt[r] \/ Records(r)
  BY <1>2, <1>6 DEF Records
<1>8. /\ \A r \in Requests : receipt[r] # Nothing => receipt'[r] # Nothing
      /\ BooksMatch' /\ TombstonesWhole' /\ Durably
  BY <1>4, <1>7, RecordsInv
<1>9. Answered(c.request, "not_applied")
  BY <1>6 DEF Decide, Answered, Backed
<1>10. AnswersBacked' /\ answers' \in [Requests -> SUBSET {"retired", "not_applied"}]
  BY <1>1, <1>8, <1>9, AnsweredBacked
<1>11. /\ CallsGrounded'
       /\ pc' \in [Retirers -> Pcs]
       /\ call' \in [Retirers -> Call \cup {Nothing}]
       /\ \A q \in Retirers : pc'[q] = "idle" <=> call'[q] = Nothing
  <2>1. CASE Goes(t, "idle", c)
    BY <1>1, <1>4, <1>8, <2>1, GoesGrounded DEF Pcs
  <2>2. CASE Goes(t, "fence", c)
    BY <1>1, <1>2, <1>4, <1>6, <1>8, <2>2, GoesGrounded DEF Pcs
  <2>3. QED
    BY <2>1, <2>2 DEF Decide
<1>12. TypeOK'
  BY <1>4, <1>6, <1>10, <1>11 DEF Inv, TypeOK
<1>13. QED
  BY <1>4, <1>8, <1>10, <1>11, <1>12, IndexStill DEF Inv

(* What the one query of Neo4j finds, and what it does.                    *)
OutcomeHere(c) ==
    IF Applies(c, Issued(c).outcome) THEN "retired"
    ELSE IF Issued(c).outcome = "pending" THEN "not_applied"
    ELSE Issued(c).outcome

LEMMA BindAndApplyRetires ==
    ASSUME Inv, NEW t \in Retirers, NEW c \in Call, BindAndApply(t, c),
           Mine(c), Applies(c, Issued(c).outcome)
    PROVE  Retires(c) /\ Proceeds(t, c)
<1>1. /\ Issued(c) \in Receipt
      /\ Issued(c).uuid = c.uuid /\ Issued(c).digest = c.content
      /\ Issued(c).outcome = OutcomeOf(c)
  BY IssuedTyped DEF Inv
<1>2. [Issued(c) EXCEPT !.outcome = "retired"] = Recorded(c, "retired")
  BY <1>1 DEF Receipt, Recorded
<1>3. QED
  BY <1>1, <1>2 DEF BindAndApply, Retires

LEMMA BindAndApplyRecords ==
    ASSUME Inv, NEW t \in Retirers, NEW c \in Call, BindAndApply(t, c),
           ~(Mine(c) /\ Applies(c, Issued(c).outcome))
    PROVE  /\ UNCHANGED <<episode, pc, call>>
           /\ receipt' \in [Requests -> Receipt \cup {Nothing}]
           /\ \A r \in Requests : receipt'[r] = receipt[r] \/ Records(r)
           /\ receipt'[c.request] # Nothing
           /\ Mine(c) => receipt'[c.request].outcome = OutcomeHere(c)
<1> DEFINE known == Issued(c)
<1>1. c.request \in Requests
  BY DEF Call
<1>2. /\ known \in Receipt /\ known # Nothing
      /\ known.outcome \in {"pending", "retired", "not_applied"}
      /\ (known.uuid = c.uuid /\ known.digest = c.content) <=> Mine(c)
      /\ receipt[c.request] # Nothing => known = receipt[c.request]
      /\ receipt[c.request] = Nothing => known.outcome = "pending"
  BY IssuedTyped DEF Inv, OutcomeOf
<1>3. /\ UNCHANGED <<episode, pc, call>>
      /\ receipt' = [receipt EXCEPT ![c.request] =
                        IF Mine(c) THEN [known EXCEPT !.outcome = OutcomeHere(c)] ELSE known]
  BY <1>2 DEF BindAndApply, OutcomeHere
<1>4. /\ receipt'[c.request] = IF Mine(c) THEN [known EXCEPT !.outcome = OutcomeHere(c)]
                               ELSE known
      /\ receipt' = [r \in Requests |-> receipt'[r]]
      /\ \A r \in Requests \ {c.request} : receipt'[r] = receipt[r]
  BY <1>1, <1>3 DEF Inv, TypeOK
<1>5. /\ receipt'[c.request] \in Receipt
      /\ receipt'[c.request].uuid = known.uuid /\ receipt'[c.request].digest = known.digest
      /\ receipt'[c.request].outcome = known.outcome
            \/ (known.outcome = "pending" /\ receipt'[c.request].outcome = "not_applied")
      /\ known.outcome # "pending" => receipt'[c.request] = known
      /\ Mine(c) => receipt'[c.request].outcome = OutcomeHere(c)
  <2>1. CASE Mine(c)
    <3>1. receipt'[c.request] = [known EXCEPT !.outcome = OutcomeHere(c)]
      BY <1>4, <2>1
    <3>2. OutcomeHere(c) = IF known.outcome = "pending" THEN "not_applied"
                           ELSE known.outcome
      BY <2>1 DEF OutcomeHere
    <3>3. OutcomeHere(c) \in {"pending", "retired", "not_applied"}
      BY <1>2, <3>2
    <3>4. QED
      BY <1>2, <3>1, <3>2, <3>3 DEF Receipt
  <2>2. CASE ~Mine(c)
    BY <1>2, <1>4, <2>2
  <2>3. QED
    BY <2>1, <2>2
<1>6. /\ receipt' \in [Requests -> Receipt \cup {Nothing}]
      /\ receipt'[c.request] # Nothing
  <2>1. \A r \in Requests : receipt'[r] \in Receipt \cup {Nothing}
    BY <1>4, <1>5 DEF Inv, TypeOK
  <2>2. QED
    BY <1>4, <1>5, <2>1, NothingAssumption
<1>7. \A r \in Requests : receipt'[r] = receipt[r] \/ Records(r)
  BY <1>2, <1>4, <1>5, <1>6 DEF Records
<1>8. QED
  BY <1>3, <1>5, <1>6, <1>7

LEMMA BindAndApplyInv ==
    ASSUME Inv, NEW t \in Retirers, NEW c \in Call, BindAndApply(t, c)
    PROVE  Inv'
<1>1. c.uuid \in Episodes /\ c.content \in Contents /\ c.request \in Requests
  BY DEF Call
<1>2. UNCHANGED <<federated, search, net, writing, page, faults>>
  BY DEF BindAndApply
<1>3. CASE Mine(c) /\ Applies(c, Issued(c).outcome)
  BY <1>2, <1>3, BindAndApplyRetires, ProceedsInv
<1>4. CASE ~(Mine(c) /\ Applies(c, Issued(c).outcome))
  <2>1. /\ UNCHANGED <<episode, pc, call>>
        /\ receipt' \in [Requests -> Receipt \cup {Nothing}]
        /\ \A r \in Requests : receipt'[r] = receipt[r] \/ Records(r)
        /\ receipt'[c.request] # Nothing
        /\ Mine(c) => receipt'[c.request].outcome = OutcomeHere(c)
    BY <1>4, BindAndApplyRecords
  <2>2. /\ \A r \in Requests : receipt[r] # Nothing => receipt'[r] # Nothing
        /\ BooksMatch' /\ TombstonesWhole' /\ Durably
    BY <1>2, <2>1, RecordsInv
  <2>3. (Issued(c).uuid = c.uuid /\ Issued(c).digest = c.content) <=> Mine(c)
    BY IssuedTyped DEF Inv
  <2>4. Answered(c.request, "not_applied")
    BY <1>4, <2>1, <2>3 DEF BindAndApply, OutcomeHere, Answered, Backed
  <2>5. AnswersBacked' /\ answers' \in [Requests -> SUBSET {"retired", "not_applied"}]
    BY <1>1, <2>2, <2>4, AnsweredBacked
  <2>6. CallsGrounded'
    BY <1>2, <2>1, <2>2, ReceiptsKept
  <2>7. TypeOK'
    BY <1>2, <2>1, <2>5 DEF Inv, TypeOK
  <2>8. QED
    BY <1>2, <2>2, <2>5, <2>6, <2>7, IndexStill DEF Inv
<1>5. QED
  BY <1>3, <1>4

(* A step that only moves its request on.                                  *)
LEMMA GoesInv ==
    ASSUME Inv, NEW t \in Retirers, pc[t] # "idle",
           NEW where \in Pcs, Goes(t, where, call[t]),
           where \in {"apply", "decide", "fence", "fencing"} => federated,
           where = "finalize" /\ federated => search[call[t].uuid].ver = TombstoneVersion,
           UNCHANGED <<federated, episode, receipt, search, writing, page, answers>>,
           net' \subseteq Episodes \X Document, faults' \in 0..MaxFaults, DocumentsBlank'
    PROVE  Inv'
<1>1. /\ call[t] \in Call
      /\ receipt'[call[t].request] # Nothing
  BY CallTyped DEF Inv, CallsGrounded
<1>2. /\ CallsGrounded'
      /\ pc' \in [Retirers -> Pcs]
      /\ call' \in [Retirers -> Call \cup {Nothing}]
      /\ \A q \in Retirers : pc'[q] = "idle" <=> call'[q] = Nothing
  BY <1>1, GoesGrounded
<1>3. TypeOK'
  BY <1>2 DEF Inv, TypeOK
<1>4. QED
  BY <1>2, <1>3
     DEF Inv, BooksMatch, ReceiptsMatch, TombstonesWhole, AnswersBacked, Retired, Exists

(* What scrubbing leaves of an episode.                                    *)
Scrubbed(e) == [e EXCEPT !.fenced = TRUE, !.group = NoGroup, !.content = NoContent]

LEMMA ScrubbedType ==
    ASSUME NEW e \in Episode
    PROVE  /\ Scrubbed(e) \in Episode
           /\ Scrubbed(e).deleted = e.deleted /\ Scrubbed(e).fenced = TRUE
           /\ Scrubbed(e).by = e.by /\ Scrubbed(e).digest = e.digest
           /\ Scrubbed(e).group = NoGroup /\ Scrubbed(e).content = NoContent
BY DEF Episode, Scrubbed

LEMMA FenceInv ==
    ASSUME Inv, NEW t \in Retirers, Fence(t)
    PROVE  Inv'
<1>1. federated /\ call[t].uuid \in Episodes
  BY CallTyped DEF Fence, Inv, CallsGrounded
<1>2. [ver |-> TombstoneVersion, content |-> NoContent] \in Document
  BY DEF Document, TombstoneVersion
<1>3. net' \subseteq Episodes \X Document /\ DocumentsBlank'
  BY <1>1, <1>2 DEF Fence, Inv, TypeOK, DocumentsBlank
<1>4. faults' \in 0..MaxFaults
  BY DEF Fence, Inv, TypeOK
<1>5. "fencing" \in Pcs
  BY DEF Pcs
<1>6. QED
  BY <1>1, <1>3, <1>4, <1>5, GoesInv DEF Fence

LEMMA FenceHoldsInv ==
    ASSUME Inv, NEW t \in Retirers, FenceHolds(t)
    PROVE  Inv'
<1>1. call[t].uuid \in Episodes
  BY CallTyped DEF FenceHolds, Inv
<1>2. search[call[t].uuid].ver = TombstoneVersion
  <2>1. search[call[t].uuid] \in Document
    BY <1>1 DEF Inv, TypeOK
  <2>2. search[call[t].uuid].ver >= TombstoneVersion
    BY DEF FenceHolds
  <2>3. QED
    BY <2>1, <2>2 DEF Document, TombstoneVersion
<1>3. /\ net' \subseteq Episodes \X Document /\ faults' \in 0..MaxFaults
      /\ DocumentsBlank'
  BY IndexStill DEF FenceHolds, Inv, TypeOK
<1>4. "finalize" \in Pcs
  BY DEF Pcs
<1>5. QED
  BY <1>2, <1>3, <1>4, GoesInv DEF FenceHolds

LEMMA RetirerFailsInv ==
    ASSUME Inv, NEW t \in Retirers, RetirerFails(t)
    PROVE  Inv'
<1>1. /\ net' \subseteq Episodes \X Document /\ faults' \in 0..MaxFaults
      /\ DocumentsBlank'
  BY IndexStill, RetirementAssumption DEF RetirerFails, Inv, TypeOK
<1>2. "idle" \in Pcs
  BY DEF Pcs
<1>3. QED
  BY <1>1, <1>2, GoesInv DEF RetirerFails

LEMMA FinalizeInv ==
    ASSUME Inv, NEW t \in Retirers, Finalize(t)
    PROVE  Inv'
<1> DEFINE c == call[t]
           found == /\ Bound(c) /\ receipt[c.request].outcome = "retired"
                    /\ Retired(c.uuid) /\ episode[c.uuid].digest = c.content
<1>1. c \in Call /\ c.uuid \in Episodes /\ c.content \in Contents /\ c.request \in Requests
  BY CallTyped DEF Finalize, Inv
<1>2. UNCHANGED <<federated, receipt, search, net, writing, page, faults>>
  BY DEF Finalize
<1>3. /\ receipt[c.request] # Nothing
      /\ federated => search[c.uuid].ver = TombstoneVersion
  BY DEF Finalize, Inv, CallsGrounded
<1>4. CASE ~found
  <2>1. UNCHANGED <<episode, answers>> /\ Goes(t, "idle", c)
    BY <1>4 DEF Finalize
  <2>2. /\ net' \subseteq Episodes \X Document /\ faults' \in 0..MaxFaults
        /\ DocumentsBlank'
    BY <1>2, IndexStill DEF Inv, TypeOK
  <2>3. pc[t] # "idle" /\ "idle" \in Pcs
    BY DEF Finalize, Pcs
  <2>4. QED
    BY <1>2, <2>1, <2>2, <2>3, GoesInv
<1>5. CASE found
  <2>1. /\ episode' = [episode EXCEPT ![c.uuid].fenced = TRUE,
                                      ![c.uuid].group = NoGroup,
                                      ![c.uuid].content = NoContent]
        /\ Told(c.request, "retired")
        /\ Goes(t, "idle", c)
    BY <1>5 DEF Finalize
  <2>2. episode[c.uuid] \in Episode /\ Exists(c.uuid) /\ episode[c.uuid].deleted
    BY <1>1, <1>5, EpisodeTyped DEF Inv, Retired
  <2>3. /\ \A u \in Episodes \ {c.uuid} : episode'[u] = episode[u]
        /\ episode' = [u \in Episodes |-> episode'[u]]
    BY <1>1, <2>1 DEF Inv, TypeOK
  <2>4. episode'[c.uuid] = Scrubbed(episode[c.uuid])
    BY <1>1, <2>1, <2>2 DEF Inv, TypeOK, Episode, Scrubbed
  <2>5. /\ episode'[c.uuid] \in Episode
        /\ episode'[c.uuid].deleted /\ episode'[c.uuid].fenced
        /\ episode'[c.uuid].by = episode[c.uuid].by
        /\ episode'[c.uuid].digest = episode[c.uuid].digest
        /\ episode'[c.uuid].group = NoGroup /\ episode'[c.uuid].content = NoContent
    BY <2>2, <2>4, ScrubbedType
  <2>6. episode'[c.uuid] # Nothing
    BY <2>5, NothingAssumption
  <2>7. episode' \in [Episodes -> Episode \cup {Nothing}]
    <3>1. \A u \in Episodes : episode'[u] \in Episode \cup {Nothing}
      BY <2>3, <2>5 DEF Inv, TypeOK
    <3>2. QED
      BY <2>3, <3>1
  <2>8. ASSUME NEW u \in Episodes
        PROVE  /\ Exists(u) <=> Exists(u)'
               /\ Exists(u) => /\ episode'[u].deleted = episode[u].deleted
                               /\ episode'[u].by = episode[u].by
                               /\ episode'[u].digest = episode[u].digest
                               /\ episode[u].fenced => episode'[u].fenced
    <3>1. CASE u = c.uuid
      BY <1>1, <2>2, <2>5, <2>6, <3>1, EpisodeTyped DEF Exists, Inv
    <3>2. CASE u # c.uuid
      BY <2>3, <3>2 DEF Exists
    <3>3. QED
      BY <3>1, <3>2
  <2>9. BooksMatch'
    <3>1. \A r \in Requests : receipt[r] # Nothing => receipt[r].uuid \in Episodes
      BY ReceiptTyped DEF Inv
    <3>2. \A u \in Episodes : Retired(u)' <=> Retired(u)
      BY <2>8 DEF Retired
    <3>3. ASSUME NEW r \in Requests, receipt[r] # Nothing, receipt[r].outcome = "retired"
          PROVE  /\ Retired(receipt[r].uuid)'
                 /\ episode'[receipt[r].uuid].by = r
                 /\ episode'[receipt[r].uuid].digest = receipt[r].digest
      <4>1. /\ Retired(receipt[r].uuid) /\ episode[receipt[r].uuid].by = r
            /\ episode[receipt[r].uuid].digest = receipt[r].digest
        BY <3>3 DEF Inv, BooksMatch, ReceiptsMatch
      <4>2. /\ episode'[receipt[r].uuid].by = episode[receipt[r].uuid].by
            /\ episode'[receipt[r].uuid].digest = episode[receipt[r].uuid].digest
            /\ episode'[receipt[r].uuid].deleted = episode[receipt[r].uuid].deleted
            /\ episode'[receipt[r].uuid] # Nothing
        BY <2>8, <3>1, <3>3, <4>1 DEF Retired, Exists
      <4>3. QED
        BY <1>2, <4>1, <4>2 DEF Retired, Exists
    <3>4. ASSUME NEW u \in Episodes, Retired(u)
          PROVE  /\ episode'[u].by = episode[u].by /\ episode'[u].by \in Requests
                 /\ receipt[episode[u].by] # Nothing
                 /\ receipt[episode[u].by].outcome = "retired"
                 /\ receipt[episode[u].by].uuid = u
      BY <2>8, <3>4 DEF Retired, Inv, BooksMatch, ReceiptsMatch
    <3>5. QED
      BY <1>2, <3>2, <3>3, <3>4 DEF BooksMatch, ReceiptsMatch
  <2>10. TombstonesWhole'
    <3>1. ASSUME NEW u \in Episodes
          PROVE  /\ Exists(u)' /\ ~episode'[u].deleted =>
                       episode'[u].by = NoRequest /\ ~episode'[u].fenced
                 /\ Exists(u)' /\ episode'[u].fenced =>
                       /\ episode'[u].group = NoGroup /\ episode'[u].content = NoContent
                       /\ federated => search[u].ver = TombstoneVersion
      <4>1. CASE u = c.uuid
        BY <1>3, <2>5, <4>1
      <4>2. CASE u # c.uuid
        BY <2>3, <4>2 DEF Inv, TombstonesWhole, Exists
      <4>3. QED
        BY <4>1, <4>2
    <3>2. QED
      BY <1>2, <3>1 DEF TombstonesWhole
  <2>11. Durably
    BY <1>2, <2>8 DEF Durably
  <2>12. Answered(c.request, "retired")
    <3>1. /\ receipt'[c.request] # Nothing /\ receipt'[c.request].outcome = "retired"
          /\ receipt'[c.request].uuid = c.uuid
      BY <1>2, <1>3, <1>5 DEF Bound
    <3>2. QED
      BY <2>1, <2>5, <2>6, <3>1 DEF Answered, Backed
  <2>13. AnswersBacked' /\ answers' \in [Requests -> SUBSET {"retired", "not_applied"}]
    BY <1>1, <2>11, <2>12, AnsweredBacked
  <2>14. /\ CallsGrounded'
         /\ pc' \in [Retirers -> Pcs]
         /\ call' \in [Retirers -> Call \cup {Nothing}]
         /\ \A q \in Retirers : pc'[q] = "idle" <=> call'[q] = Nothing
    BY <1>1, <1>2, <2>1, GoesGrounded DEF Pcs
  <2>15. TypeOK'
    BY <1>2, <2>7, <2>13, <2>14 DEF Inv, TypeOK
  <2>16. QED
    BY <1>2, <2>9, <2>10, <2>13, <2>14, <2>15, IndexStill DEF Inv
<1>6. QED
  BY <1>4, <1>5
LEMMA StatusInv ==
    ASSUME Inv, NEW r \in Requests, NEW u \in Episodes, Status(r, u)
    PROVE  Inv'
<1> DEFINE outcome == IF federated /\ receipt[r].outcome = "pending" /\ ~Exists(u)
                      THEN "not_applied" ELSE receipt[r].outcome
<1>1. /\ receipt[r] # Nothing /\ receipt[r].uuid = u
      /\ Decided(r, outcome)
      /\ UNCHANGED <<federated, episode, search, net, writing, pc, call, page, faults>>
  BY DEF Status
<1>2. outcome \in {"pending", "retired", "not_applied"}
  BY <1>1, ReceiptTyped DEF Inv
<1>3. /\ receipt' \in [Requests -> Receipt \cup {Nothing}]
      /\ \A q \in Requests \ {r} : receipt'[q] = receipt[q]
      /\ receipt'[r] # Nothing
      /\ receipt'[r].uuid = receipt[r].uuid
      /\ receipt'[r].digest = receipt[r].digest
      /\ receipt'[r].outcome = outcome
      /\ outcome = receipt[r].outcome => receipt'[r] = receipt[r]
  BY <1>1, <1>2, DecidedReceipt DEF Inv
<1>4. \A q \in Requests : receipt'[q] = receipt[q] \/ Records(q)
  BY <1>1, <1>3 DEF Records
<1>5. /\ \A q \in Requests : receipt[q] # Nothing => receipt'[q] # Nothing
      /\ BooksMatch' /\ TombstonesWhole' /\ Durably
  BY <1>1, <1>4, RecordsInv
<1>6. AnswersBacked' /\ answers' \in [Requests -> SUBSET {"retired", "not_applied"}]
  <2>1. CASE outcome = "not_applied" /\ Told(r, outcome)
    <3>1. Answered(r, "not_applied")
      BY <1>3, <2>1 DEF Answered, Backed
    <3>2. QED
      BY <1>5, <3>1, AnsweredBacked
  <2>2. CASE Durable(r, u) /\ Told(r, "retired")
    <3>1. receipt[r].outcome = "retired" /\ Exists(u) /\ episode[u].fenced
      BY <2>2 DEF Durable, Retired
    <3>2. Answered(r, "retired")
      BY <1>1, <1>3, <2>2, <3>1 DEF Answered, Backed, Exists
    <3>3. QED
      BY <1>5, <3>2, AnsweredBacked
  <2>3. CASE UNCHANGED answers
    <3>1. Answered(r, "retired")
      BY <2>3 DEF Answered
    <3>2. QED
      BY <1>5, <3>1, AnsweredBacked
  <2>4. QED
    BY <2>1, <2>2, <2>3 DEF Status
<1>7. CallsGrounded'
  BY <1>1, <1>5, ReceiptsKept
<1>8. TypeOK'
  BY <1>1, <1>3, <1>6 DEF Inv, TypeOK
<1>9. QED
  BY <1>1, <1>5, <1>6, <1>7, <1>8, IndexStill DEF Inv

LEMMA StutterInv ==
    ASSUME Inv, UNCHANGED vars
    PROVE  Inv'
BY DEF vars, Inv, TypeOK, BooksMatch, ReceiptsMatch, TombstonesWhole, DocumentsBlank,
       CallsGrounded, AnswersBacked, Retired, Exists

LEMMA NextInv ==
    ASSUME Inv, [Next]_vars
    PROVE  Inv'
<1>1. CASE \E w \in Writers : Save(w) \/ Index(w) \/ WriterFails(w)
  BY <1>1, SaveInv, IndexInv, WriterFailsInv
<1>2. CASE \E m \in net : Lands(m[1], m[2])
  BY <1>2, LandsInv
<1>3. CASE \E u \in Episodes : Delete(u)
  BY <1>3, DeleteInv
<1>4. CASE SelectPage \/ DeletePage
  BY <1>4, SelectPageInv, DeletePageInv
<1>5. CASE \E t \in Retirers : \E c \in Call : Starts(t, c)
  BY <1>5, BindInv, BindAndApplyInv DEF Starts
<1>6. CASE \E t \in Retirers : RetirerStep(t)
  BY <1>6, ApplyInv, DecideInv, FenceInv, FenceHoldsInv, FinalizeInv DEF RetirerStep
<1>7. CASE \E t \in Retirers : RetirerFails(t)
  BY <1>7, RetirerFailsInv
<1>8. CASE \E r \in Requests : \E u \in Episodes : Status(r, u)
  BY <1>8, StatusInv
<1>9. CASE UNCHANGED vars
  BY <1>9, StutterInv
<1>10. QED
  BY <1>1, <1>2, <1>3, <1>4, <1>5, <1>6, <1>7, <1>8, <1>9 DEF Next

-----------------------------------------------------------------------------
(* What holds in every reachable state.                                    *)

(* The inductive invariant: receipts and tombstones name each other, only  *)
(* tombstones bear a request or a fence, documents of the tombstone's      *)
(* version are blank, a request under way is on record, and what callers   *)
(* were told is backed by both.                                            *)
THEOREM InvHolds == Spec => []Inv
<1>1. Init => Inv
  BY InitInv
<1>2. Inv /\ [Next]_vars => Inv'
  BY NextInv
<1>3. QED
  BY <1>1, <1>2, PTL DEF Spec

(* Receipt and tombstone stand for each other: an episode is retired under *)
(* exactly the request that is on record as having retired it              *)
(* (retire_exact's receipt and the episode's opr_ fields).                 *)
THEOREM ReceiptsAndTombstonesMatch == Spec => []ReceiptsMatch
<1>1. Inv => ReceiptsMatch
  BY DEF Inv, BooksMatch
<1>2. QED
  BY <1>1, InvHolds, PTL

(* However requests are repeated, raced and interrupted, no request is     *)
(* answered both "retired" and "not_applied", and one answered             *)
(* "not_applied" has left no tombstone.                                    *)
THEOREM NoContradictoryAnswers == Spec => []AnswersAgree
<1>1. ASSUME Inv
      PROVE  AnswersAgree
  <2>1. ASSUME NEW r \in Requests
        PROVE  answers[r] # {"retired", "not_applied"}
    BY <1>1 DEF Inv, AnswersBacked
  <2>2. ASSUME NEW r \in Requests, "not_applied" \in answers[r],
               NEW u \in Episodes, Exists(u), episode[u].by = r
        PROVE  FALSE
    <3>1. receipt[r] # Nothing /\ receipt[r].outcome = "not_applied"
      BY <1>1, <2>2 DEF Inv, AnswersBacked
    <3>2. ~Retired(u)
      BY <1>1, <2>2, <3>1 DEF Inv, BooksMatch, ReceiptsMatch
    <3>3. r = NoRequest
      BY <1>1, <2>2, <3>2 DEF Inv, TombstonesWhole, Retired
    <3>4. QED
      BY <3>3, RetirementAssumption
  <2>3. QED
    BY <2>1, <2>2 DEF AnswersAgree
<1>2. QED
  BY <1>1, InvHolds, PTL

(* Once a caller was told "retired", the episode's content is gone from    *)
(* the graph and from the full-text index, and no index request still      *)
(* under way can bring it back (the tombstone document's version).         *)
THEOREM RetiredIsForgotten == Spec => []Forgotten
<1>1. ASSUME Inv
      PROVE  Forgotten
  <2>1. SUFFICES ASSUME NEW r \in Requests, "retired" \in answers[r]
                 PROVE  /\ Retired(receipt[r].uuid)
                        /\ episode[receipt[r].uuid].content = NoContent
                        /\ search[receipt[r].uuid].content = NoContent
                        /\ federated => search[receipt[r].uuid].ver = TombstoneVersion
    BY DEF Forgotten
  <2>2. /\ receipt[r] # Nothing /\ receipt[r].outcome = "retired"
        /\ Exists(receipt[r].uuid) /\ episode[receipt[r].uuid].fenced
    BY <1>1, <2>1 DEF Inv, AnswersBacked
  <2>3. receipt[r].uuid \in Episodes
    BY <1>1, <2>2, ReceiptTyped DEF Inv
  <2>4. Retired(receipt[r].uuid)
    BY <1>1, <2>2 DEF Inv, BooksMatch, ReceiptsMatch
  <2>5. QED
    BY <1>1, <2>2, <2>3, <2>4 DEF Inv, TombstonesWhole, DocumentsBlank
<1>2. QED
  BY <1>1, InvHolds, PTL
-----------------------------------------------------------------------------
(* What no step does.                                                      *)

TombstoneKept(u) ==
    Retired(u) =>
        /\ Retired(u)'
        /\ episode'[u].by = episode[u].by
        /\ episode'[u].digest = episode[u].digest
        /\ episode[u].fenced => episode'[u] = episode[u]

OutcomeKept(r) ==
    receipt[r] # Nothing =>
        /\ receipt'[r] # Nothing
        /\ receipt[r].outcome # "pending" => receipt'[r] = receipt[r]

LEMMA UntombedKept ==
    ASSUME NEW u \in Episodes, Untombed(u)
    PROVE  TombstoneKept(u)
BY DEF Untombed, TombstoneKept, Retired, Exists

LEMMA SaveKeeps ==
    ASSUME Inv, NEW w \in Writers, Save(w)
    PROVE  \A u \in Episodes : TombstoneKept(u)
<1>1. PICK S \in (SUBSET Episodes) \ {{}} :
          \E g \in Groups : \E x \in [S -> Contents] : SavesAs(w, S, g, x)
  BY DEF Save, SavesAs
<1>2. PICK g \in Groups : \E x \in [S -> Contents] : SavesAs(w, S, g, x)
  BY <1>1
<1>3. PICK x \in [S -> Contents] : SavesAs(w, S, g, x)
  BY <1>2
<1>4. \A u \in Episodes : Untombed(u)
  BY <1>3, SavesUntombed
<1>5. QED
  BY <1>4, UntombedKept

(* A request that leaves its mark, on the first attempt or again.          *)
LEMMA RetiresKeeps ==
    ASSUME Inv, NEW c \in Call, Retires(c)
    PROVE  /\ \A u \in Episodes : TombstoneKept(u)
           /\ \A r \in Requests : OutcomeKept(r)
<1>1. c.uuid \in Episodes /\ c.content \in Contents /\ c.request \in Requests
  BY DEF Call
<1>2. Exists(c.uuid) /\ episode' = Tombstoned(c)
  BY DEF Retires, Applies
<1>3. /\ \A u \in Episodes \ {c.uuid} : episode'[u] = episode[u]
      /\ Exists(c.uuid)' /\ episode'[c.uuid].deleted
      /\ episode'[c.uuid] \in Episode \cup {Nothing}
      /\ episode'[c.uuid].by = c.request /\ episode'[c.uuid].digest = c.content
      /\ episode'[c.uuid].fenced = episode[c.uuid].fenced
      /\ episode'[c.uuid].group = episode[c.uuid].group
      /\ episode'[c.uuid].content = episode[c.uuid].content
  BY <1>1, <1>2, TombstonedFacts DEF Inv
<1>4. ASSUME Retired(c.uuid)
      PROVE  episode'[c.uuid] = episode[c.uuid]
  <2>1. /\ episode[c.uuid] \in Episode
        /\ episode[c.uuid].deleted = TRUE
        /\ episode[c.uuid].by = c.request /\ episode[c.uuid].digest = c.content
    BY <1>1, <1>2, <1>4, EpisodeTyped DEF Retires, Applies, Retired, Inv, Episode
  <2>2. episode'[c.uuid] \in Episode /\ episode'[c.uuid].deleted = TRUE
    BY <1>3 DEF Exists, Episode
  <2>3. QED
    BY <1>3, <2>1, <2>2 DEF Episode
<1>5. \A u \in Episodes : TombstoneKept(u)
  BY <1>3, <1>4 DEF TombstoneKept, Retired, Exists
<1>6. \A r \in Requests : OutcomeKept(r)
  BY RetiresInv DEF OutcomeKept, Durably
<1>7. QED
  BY <1>5, <1>6

LEMMA ApplyKeeps ==
    ASSUME Inv, NEW t \in Retirers, Apply(t)
    PROVE  /\ \A u \in Episodes : TombstoneKept(u)
           /\ \A r \in Requests : OutcomeKept(r)
<1> DEFINE c == call[t]
<1>1. c \in Call /\ c.request \in Requests /\ receipt[c.request] # Nothing
  BY CallTyped DEF Apply, Inv, CallsGrounded
<1>2. CASE UNCHANGED <<episode, receipt>>
  BY <1>2 DEF TombstoneKept, OutcomeKept, Retired, Exists
<1>3. CASE /\ Bound(c) /\ Applies(c, receipt[c.request].outcome)
           /\ episode' = Tombstoned(c)
           /\ Decided(c.request, "retired")
  <2>1. Retires(c)
    BY <1>1, <1>3, ApplyRetires DEF Inv, Apply
  <2>2. QED
    BY <1>1, <2>1, RetiresKeeps
<1>4. QED
  BY <1>2, <1>3 DEF Apply

LEMMA DecideKeeps ==
    ASSUME Inv, NEW t \in Retirers, Decide(t)
    PROVE  \A r \in Requests : OutcomeKept(r)
<1> DEFINE c == call[t]
           outcome == IF receipt[c.request].outcome = "pending" THEN "not_applied"
                      ELSE receipt[c.request].outcome
<1>1. c.request \in Requests /\ receipt[c.request] # Nothing
  BY CallTyped DEF Decide, Inv, CallsGrounded
<1>2. outcome \in {"pending", "retired", "not_applied"} /\ Decided(c.request, outcome)
  BY <1>1, ReceiptTyped DEF Inv, Decide
<1>3. QED
  BY <1>1, <1>2, DecidedReceipt DEF Inv, OutcomeKept

LEMMA StatusKeeps ==
    ASSUME Inv, NEW r \in Requests, NEW u \in Episodes, Status(r, u)
    PROVE  \A q \in Requests : OutcomeKept(q)
<1> DEFINE outcome == IF federated /\ receipt[r].outcome = "pending" /\ ~Exists(u)
                      THEN "not_applied" ELSE receipt[r].outcome
<1>1. receipt[r] # Nothing /\ Decided(r, outcome)
  BY DEF Status
<1>2. outcome \in {"pending", "retired", "not_applied"}
  BY <1>1, ReceiptTyped DEF Inv
<1>3. QED
  BY <1>1, <1>2, DecidedReceipt DEF Inv, OutcomeKept

LEMMA BindKeeps ==
    ASSUME Inv, NEW t \in Retirers, NEW c \in Call, Bind(t, c)
    PROVE  \A r \in Requests : OutcomeKept(r)
<1>1. c.request \in Requests
  BY DEF Call
<1>2. Issued(c) # Nothing /\ (receipt[c.request] # Nothing => Issued(c) = receipt[c.request])
  BY IssuedTyped DEF Inv
<1>3. QED
  BY <1>1, <1>2 DEF Bind, OutcomeKept, Inv, TypeOK

LEMMA BindAndApplyKeeps ==
    ASSUME Inv, NEW t \in Retirers, NEW c \in Call, BindAndApply(t, c)
    PROVE  /\ \A u \in Episodes : TombstoneKept(u)
           /\ \A r \in Requests : OutcomeKept(r)
<1>1. CASE Mine(c) /\ Applies(c, Issued(c).outcome)
  BY <1>1, BindAndApplyRetires, RetiresKeeps
<1>2. CASE ~(Mine(c) /\ Applies(c, Issued(c).outcome))
  <2>1. /\ UNCHANGED episode
        /\ \A r \in Requests : receipt'[r] = receipt[r] \/ Records(r)
    BY <1>2, BindAndApplyRecords
  <2>2. QED
    BY <2>1 DEF TombstoneKept, OutcomeKept, Records, Retired, Exists
<1>3. QED
  BY <1>1, <1>2

LEMMA FinalizeKeeps ==
    ASSUME Inv, NEW t \in Retirers, Finalize(t)
    PROVE  \A u \in Episodes : TombstoneKept(u)
<1> DEFINE c == call[t]
<1>1. c.uuid \in Episodes
  BY CallTyped DEF Finalize, Inv
<1>2. CASE UNCHANGED episode
  BY <1>2 DEF TombstoneKept, Retired, Exists
<1>3. CASE /\ Retired(c.uuid)
           /\ episode' = [episode EXCEPT ![c.uuid].fenced = TRUE,
                                         ![c.uuid].group = NoGroup,
                                         ![c.uuid].content = NoContent]
  <2>1. episode[c.uuid] \in Episode /\ Exists(c.uuid) /\ episode[c.uuid].deleted
    BY <1>1, <1>3, EpisodeTyped DEF Inv, Retired
  <2>2. \A u \in Episodes \ {c.uuid} : episode'[u] = episode[u]
    BY <1>1, <1>3 DEF Inv, TypeOK
  <2>3. episode'[c.uuid] = Scrubbed(episode[c.uuid])
    BY <1>1, <1>3, <2>1 DEF Inv, TypeOK, Episode, Scrubbed
  <2>4. /\ episode'[c.uuid] \in Episode /\ episode'[c.uuid].deleted
        /\ episode'[c.uuid].by = episode[c.uuid].by
        /\ episode'[c.uuid].digest = episode[c.uuid].digest
    BY <2>1, <2>3, ScrubbedType
  <2>5. ASSUME episode[c.uuid].fenced
        PROVE  episode'[c.uuid] = episode[c.uuid]
    <3>1. /\ episode[c.uuid].group = NoGroup /\ episode[c.uuid].content = NoContent
          /\ episode[c.uuid].fenced = TRUE
      BY <1>1, <2>1, <2>5 DEF Inv, TombstonesWhole, Episode
    <3>2. /\ episode'[c.uuid].deleted = episode[c.uuid].deleted
          /\ episode'[c.uuid].fenced = TRUE
          /\ episode'[c.uuid].group = NoGroup /\ episode'[c.uuid].content = NoContent
      BY <2>1, <2>3, ScrubbedType
    <3>3. QED
      BY <2>1, <2>4, <3>1, <3>2 DEF Episode
  <2>6. QED
    BY <2>2, <2>4, <2>5, NothingAssumption DEF TombstoneKept, Retired, Exists
<1>4. QED
  BY <1>2, <1>3 DEF Finalize

LEMMA StepKeeps ==
    ASSUME Inv, [Next]_vars
    PROVE  /\ \A u \in Episodes : TombstoneKept(u)
           /\ \A r \in Requests : OutcomeKept(r)
<1> USE DEF OutcomeKept
<1>1. ASSUME NEW w \in Writers, Save(w)
      PROVE  (\A u \in Episodes : TombstoneKept(u)) /\ UNCHANGED receipt
  BY <1>1, SaveKeeps DEF Save
<1>2. ASSUME NEW u \in Episodes, Delete(u)
      PROVE  (\A v \in Episodes : Untombed(v)) /\ UNCHANGED receipt
  BY <1>2 DEF Delete, Untombed, Retired, Inv, TypeOK
<1>3. ASSUME DeletePage
      PROVE  (\A v \in Episodes : Untombed(v)) /\ UNCHANGED receipt
  BY <1>3 DEF DeletePage, Untombed, Inv, TypeOK
<1>4. CASE UNCHANGED <<episode, receipt>>
  BY <1>4 DEF TombstoneKept, Retired, Exists
<1>5. CASE \E w \in Writers : Save(w) \/ Index(w) \/ WriterFails(w)
  BY <1>1, <1>4, <1>5 DEF Index, WriterFails
<1>6. CASE \E m \in net : Lands(m[1], m[2])
  BY <1>4, <1>6 DEF Lands
<1>7. CASE (\E u \in Episodes : Delete(u)) \/ SelectPage \/ DeletePage
  BY <1>2, <1>3, <1>4, <1>7, UntombedKept DEF SelectPage
<1>8. CASE \E t \in Retirers : \E c \in Call : Starts(t, c)
  <2>1. PICK t \in Retirers, c \in Call : Starts(t, c)
    BY <1>8
  <2>2. CASE Bind(t, c)
    BY <2>2, BindKeeps DEF Bind, TombstoneKept, Retired, Exists
  <2>3. CASE BindAndApply(t, c)
    BY <2>3, BindAndApplyKeeps
  <2>4. QED
    BY <2>1, <2>2, <2>3 DEF Starts
<1>9. CASE \E t \in Retirers : RetirerStep(t)
  <2>1. PICK t \in Retirers : RetirerStep(t)
    BY <1>9
  <2>2. CASE Apply(t)
    BY <2>2, ApplyKeeps
  <2>3. CASE Decide(t)
    BY <2>3, DecideKeeps DEF Decide, TombstoneKept, Retired, Exists
  <2>4. CASE Fence(t) \/ FenceHolds(t)
    BY <1>4, <2>4 DEF Fence, FenceHolds
  <2>5. CASE Finalize(t)
    BY <2>5, FinalizeKeeps DEF Finalize
  <2>6. QED
    BY <2>1, <2>2, <2>3, <2>4, <2>5 DEF RetirerStep
<1>10. CASE \E t \in Retirers : RetirerFails(t)
  BY <1>4, <1>10 DEF RetirerFails
<1>11. CASE \E r \in Requests : \E u \in Episodes : Status(r, u)
  BY <1>11, StatusKeeps DEF Status, TombstoneKept, Retired, Exists
<1>12. CASE UNCHANGED vars
  BY <1>4, <1>12 DEF vars
<1>13. QED
  BY <1>5, <1>6, <1>7, <1>8, <1>9, <1>10, <1>11, <1>12 DEF Next

(* A tombstone is touched by its own retirement only, and a complete one   *)
(* by nothing: no writer, deletion or clear gets past the opr_deleted      *)
(* guard, whatever it had read before.                                     *)
THEOREM TombstonesAreKept == Spec => TombstonesStay
<1>1. ASSUME Inv, [Next]_vars
      PROVE  \A u \in Episodes : Retired(u) =>
                /\ Retired(u)'
                /\ episode'[u].by = episode[u].by
                /\ episode'[u].digest = episode[u].digest
                /\ episode[u].fenced => episode'[u] = episode[u]
  BY <1>1, StepKeeps DEF TombstoneKept
<1>2. QED
  BY <1>1, InvHolds, PTL DEF Spec, TombstonesStay

(* What a receipt says of a request that was decided, it says for ever.    *)
THEOREM ReceiptsAreFinal == Spec => OutcomesFinal
<1>1. ASSUME Inv, [Next]_vars
      PROVE  \A r \in Requests :
                receipt[r] # Nothing =>
                  /\ receipt'[r] # Nothing
                  /\ receipt[r].outcome # "pending" => receipt'[r] = receipt[r]
  BY <1>1, StepKeeps DEF OutcomeKept
<1>2. QED
  BY <1>1, InvHolds, PTL DEF Spec, OutcomesFinal
=============================================================================
