-------------------------- MODULE EpisodeRetirement --------------------------
(***************************************************************************)
(* Conditional retirement of an episode: a caller that names an episode by *)
(* its complete identity has it removed for good, once, under a request id *)
(* whose outcome is kept in a durable receipt.  The episode stays as a     *)
(* tombstone every episode writer and every deletion checks; on Neptune    *)
(* the full-text index gets a tombstone document as well, whose version no *)
(* episode document exceeds.                                               *)
(*                                                                         *)
(* Callers repeat requests, requests compete for an episode, servers save, *)
(* delete and clear concurrently, and index writes may land late.  The     *)
(* queries of one server take the episode's write lock first, so a query   *)
(* is one step.  Relationships of the episode are left out.                *)
(***************************************************************************)
EXTENDS Naturals, FiniteSets

CONSTANTS
    Episodes,      \* episode uuids
    Groups,
    OprGroup,      \* the one group retirement is authorized for
    Contents,      \* name, content, source and its description, as one value
    Requests,      \* retirement_request_id values
    Writers,       \* tasks saving episodes
    Retirers,      \* tasks handling a retirement request
    MaxFaults,     \* bound: exceptions and crashes
    NoGroup, NoContent, NoRequest, Nothing

ASSUME RetirementAssumption ==
    /\ OprGroup \in Groups
    /\ NoGroup \notin Groups
    /\ NoContent \notin Contents
    /\ NoRequest \notin Requests
    /\ MaxFaults \in Nat

(* group and content are NoGroup and NoContent in a reservation left by a   *)
(* refused bulk save, and in a scrubbed tombstone ('__opr_deleted__', '');  *)
(* digest and by are those of the retirement.                               *)
Episode == [group : Groups \cup {NoGroup}, content : Contents \cup {NoContent},
            deleted : BOOLEAN, digest : Contents \cup {NoContent},
            by : Requests \cup {NoRequest}, fenced : BOOLEAN]

Receipt == [uuid : Episodes, digest : Contents,
            outcome : {"pending", "retired", "not_applied"}]

Call == [uuid : Episodes, content : Contents, request : Requests]

(* EPISODE_AOSS_WRITE_VERSION; EPISODE_AOSS_TOMBSTONE_VERSION is one more. *)
WriteVersion == 1

TombstoneVersion == 2

Document == [ver : 0..TombstoneVersion, content : Contents \cup {NoContent}]

ASSUME NothingAssumption == Nothing \notin Episode \cup Receipt \cup Call

VARIABLES
    federated, \* TRUE: on Neptune and OpenSearch; FALSE: on Neo4j
    episode,   \* uuid -> Episode, or Nothing
    receipt,   \* request -> Receipt, or Nothing
    search,    \* uuid -> document of the episode_content index
    net,       \* index requests sent: each may land late, twice or never
    writing,   \* writer -> uuids saved in the graph, with what to index
    pc, call,  \* retirer -> where it stands, and its arguments
    page,      \* uuids a clear has selected for deletion
    answers,   \* request -> outcomes callers were told so far
    faults

vars == <<federated, episode, receipt, search, net, writing, pc, call, page, answers, faults>>

Pcs == {"idle", "apply", "decide", "fence", "fencing", "finalize"}

TypeOK ==
    /\ federated \in BOOLEAN
    /\ episode \in [Episodes -> Episode \cup {Nothing}]
    /\ receipt \in [Requests -> Receipt \cup {Nothing}]
    /\ search \in [Episodes -> Document]
    /\ net \subseteq Episodes \X Document
    /\ writing \in [Writers -> [Episodes -> Contents \cup {NoContent}]]
    /\ pc \in [Retirers -> Pcs]
    /\ call \in [Retirers -> Call \cup {Nothing}]
    /\ \A t \in Retirers : pc[t] = "idle" <=> call[t] = Nothing
    /\ page \subseteq Episodes
    /\ answers \in [Requests -> SUBSET {"retired", "not_applied"}]
    /\ faults \in 0..MaxFaults

NothingToIndex == [u \in Episodes |-> NoContent]

Init ==
    /\ federated \in BOOLEAN
    /\ episode = [u \in Episodes |-> Nothing]
    /\ receipt = [r \in Requests |-> Nothing]
    /\ search = [u \in Episodes |-> [ver |-> 0, content |-> NoContent]]
    /\ net = {}
    /\ writing = [w \in Writers |-> NothingToIndex]
    /\ pc = [t \in Retirers |-> "idle"]
    /\ call = [t \in Retirers |-> Nothing]
    /\ page = {}
    /\ answers = [r \in Requests |-> {}]
    /\ faults = 0

Exists(u) == episode[u] # Nothing
Retired(u) == Exists(u) /\ episode[u].deleted

Written(g, x) == [group |-> g, content |-> x, deleted |-> FALSE,
                  digest |-> NoContent, by |-> NoRequest, fenced |-> FALSE]

-----------------------------------------------------------------------------
(* Episode writers.                                                        *)

(* After MERGE and lock: neither a tombstone nor another group's episode.  *)
Writable(u, g) ==
    Exists(u) => ~episode[u].deleted /\ episode[u].group \in {NoGroup, g}

(* save and save_bulk.  A batch is written as a whole or not at all, but   *)
(* the uuids a refused batch merged stay behind as reservations, unless    *)
(* the transaction around it is rolled back (Neo4j only).                  *)
Save(w) ==
    /\ writing[w] = NothingToIndex
    /\ \E S \in (SUBSET Episodes) \ {{}} : \E g \in Groups : \E x \in [S -> Contents] :
          \/ /\ \A u \in S : Writable(u, g)
             /\ episode' = [u \in Episodes |->
                               IF u \in S THEN Written(g, x[u]) ELSE episode[u]]
             /\ writing' = IF federated
                           THEN [writing EXCEPT ![w] =
                                   [u \in Episodes |-> IF u \in S THEN x[u] ELSE NoContent]]
                           ELSE writing
          \/ /\ \E u \in S : ~Writable(u, g)
             /\ episode' = [u \in Episodes |->
                               IF u \in S /\ ~Exists(u) THEN Written(NoGroup, NoContent)
                               ELSE episode[u]]
             /\ UNCHANGED writing
          \/ /\ ~federated /\ \E u \in S : ~Writable(u, g)
             /\ UNCHANGED <<episode, writing>>
    /\ UNCHANGED <<federated, receipt, search, net, pc, call, page, answers, faults>>

(* save_to_aoss of what was saved; its result is ignored.                  *)
Index(w) ==
    /\ writing[w] # NothingToIndex
    /\ net' = net \cup
          {<<u, [ver |-> WriteVersion, content |-> writing[w][u]]>> :
              u \in {v \in Episodes : writing[w][v] # NoContent}}
    /\ writing' = [writing EXCEPT ![w] = NothingToIndex]
    /\ UNCHANGED <<federated, episode, receipt, search, pc, call, page, answers, faults>>

(* The server stops, or the index is out of reach.                         *)
WriterFails(w) ==
    /\ writing[w] # NothingToIndex
    /\ faults < MaxFaults
    /\ faults' = faults + 1
    /\ writing' = [writing EXCEPT ![w] = NothingToIndex]
    /\ UNCHANGED <<federated, episode, receipt, search, net, pc, call, page, answers>>

(* OpenSearch takes a document of an equal version too (external_gte).     *)
Lands(u, doc) ==
    /\ <<u, doc>> \in net
    /\ doc.ver >= search[u].ver
    /\ search' = [search EXCEPT ![u] = doc]
    /\ UNCHANGED <<federated, episode, receipt, net, writing, pc, call, page, answers, faults>>

-----------------------------------------------------------------------------
(* Ordinary deletion.                                                      *)

(* By uuid or by group, from any of the delete routes: one guarded query.  *)
Delete(u) ==
    /\ Exists(u) /\ ~episode[u].deleted
    /\ episode' = [episode EXCEPT ![u] = Nothing]
    /\ page' = page \ {u}
    /\ UNCHANGED <<federated, receipt, search, net, writing, pc, call, answers, faults>>

(* A clear selects a page of node ids ...                                  *)
SelectPage ==
    /\ page = {}
    /\ page' \in SUBSET {u \in Episodes : Exists(u) /\ ~episode[u].deleted}
    /\ UNCHANGED <<federated, episode, receipt, search, net, writing, pc, call, answers, faults>>

(* Deviation: the clear trusts what it selected.                           *)
DeletePageBlindly ==
    /\ page # {}
    /\ episode' = [u \in Episodes |-> IF u \in page THEN Nothing ELSE episode[u]]
    /\ page' = {}
    /\ UNCHANGED <<federated, receipt, search, net, writing, pc, call, answers, faults>>

(* ... and deletes what is no tombstone by then.                           *)
DeletePage ==
    /\ page # {}
    /\ episode' = [u \in Episodes |->
                      IF u \in page /\ ~Retired(u) THEN Nothing ELSE episode[u]]
    /\ page' = {}
    /\ UNCHANGED <<federated, receipt, search, net, writing, pc, call, answers, faults>>

-----------------------------------------------------------------------------
(* Retirement.                                                             *)

Bound(c) ==
    /\ receipt[c.request] # Nothing
    /\ receipt[c.request].uuid = c.uuid
    /\ receipt[c.request].digest = c.content

(* Deviation: a second request may retire a tombstone once more.           *)
AppliesTwice(c, outcome) ==
    /\ Exists(c.uuid)
    /\ LET e == episode[c.uuid]
       IN \/ outcome = "pending" /\ e.group = OprGroup /\ e.content = c.content
          \/ outcome = "retired" /\ e.deleted /\ e.digest = c.content /\ e.by = c.request

(* The episode is just what the caller named, or the caller's own request  *)
(* has retired it already.                                                 *)
Applies(c, outcome) ==
    /\ Exists(c.uuid)
    /\ LET e == episode[c.uuid]
       IN \/ /\ outcome = "pending" /\ ~e.deleted
             /\ e.group = OprGroup /\ e.content = c.content
          \/ outcome = "retired" /\ e.deleted /\ e.digest = c.content /\ e.by = c.request

Tombstoned(c) ==
    [episode EXCEPT ![c.uuid].deleted = TRUE,
                    ![c.uuid].digest = c.content,
                    ![c.uuid].by = c.request]

Goes(t, where, c) ==
    /\ pc' = [pc EXCEPT ![t] = where]
    /\ call' = [call EXCEPT ![t] = IF where = "idle" THEN Nothing ELSE c]

Told(r, outcome) == answers' = [answers EXCEPT ![r] = @ \cup {outcome}]

Decided(r, outcome) == receipt' = [receipt EXCEPT ![r].outcome = outcome]

Fenced(c) == episode[c.uuid].fenced

(* Where a request whose episode is marked goes on: at once to its answer  *)
(* if the tombstone is complete, otherwise to the index, then the scrub.   *)
Proceeds(t, c) ==
    \/ Fenced(c) /\ Goes(t, "idle", c) /\ Told(c.request, "retired")
    \/ /\ ~Fenced(c)
       /\ Goes(t, IF federated THEN "fence" ELSE "finalize", c)
       /\ UNCHANGED answers

(* The receipt of a request: created on first sight, found afterwards.     *)
Issued(c) ==
    IF receipt[c.request] = Nothing
    THEN [uuid |-> c.uuid, digest |-> c.content, outcome |-> "pending"]
    ELSE receipt[c.request]

(* Deviation: a receipt that is already terminal is not taken up again.    *)
BindFresh(t, c) ==
    /\ pc[t] = "idle"
    /\ receipt' = [receipt EXCEPT ![c.request] = Issued(c)]
    /\ \/ /\ Issued(c).uuid # c.uuid \/ Issued(c).digest # c.content
             \/ Issued(c).outcome # "pending"
          /\ UNCHANGED <<pc, call, answers>>
       \/ /\ Issued(c).uuid = c.uuid /\ Issued(c).digest = c.content
          /\ Issued(c).outcome = "pending"
          /\ Goes(t, "apply", c) /\ UNCHANGED answers
    /\ UNCHANGED <<federated, episode, search, net, writing, page, faults>>

(* Neptune, first query: the receipt is created or found.                  *)
Bind(t, c) ==
    /\ pc[t] = "idle"
    /\ receipt' = [receipt EXCEPT ![c.request] = Issued(c)]
    /\ LET mine == Issued(c).uuid = c.uuid /\ Issued(c).digest = c.content
       IN \/ ~mine /\ UNCHANGED <<pc, call, answers>>
          \/ /\ mine /\ Issued(c).outcome = "not_applied"
             /\ Told(c.request, "not_applied") /\ UNCHANGED <<pc, call>>
          \/ /\ mine /\ Issued(c).outcome # "not_applied"
             /\ Goes(t, "apply", c) /\ UNCHANGED answers
    /\ UNCHANGED <<federated, episode, search, net, writing, page, faults>>

(* Second query: compare the identity and leave the tombstone.             *)
Apply(t) ==
    LET c == call[t]
    IN /\ pc[t] = "apply"
       /\ \/ /\ Bound(c) /\ Applies(c, receipt[c.request].outcome)
             /\ episode' = Tombstoned(c)
             /\ Decided(c.request, "retired")
             /\ Proceeds(t, c)
          \/ /\ ~(Bound(c) /\ Applies(c, receipt[c.request].outcome))
             /\ Goes(t, "decide", c)
             /\ UNCHANGED <<episode, receipt, answers>>
       /\ UNCHANGED <<federated, search, net, writing, page, faults>>

(* Third query, when nothing matched: a pending request is turned down     *)
(* for good; one a concurrent repetition has retired goes on.              *)
Decide(t) ==
    LET c == call[t]
        outcome == IF receipt[c.request].outcome = "pending" THEN "not_applied"
                   ELSE receipt[c.request].outcome
    IN /\ pc[t] = "decide"
       /\ Decided(c.request, outcome)
       /\ \/ outcome = "not_applied" /\ Told(c.request, outcome) /\ Goes(t, "idle", c)
          \/ outcome = "retired" /\ Goes(t, "fence", c) /\ UNCHANGED answers
       /\ UNCHANGED <<federated, episode, search, net, writing, page, faults>>

(* Neo4j: one query does all of that.                                      *)
BindAndApply(t, c) ==
    LET known == Issued(c)
        mine == known.uuid = c.uuid /\ known.digest = c.content
        applies == Applies(c, known.outcome)
        outcome == IF applies THEN "retired"
                   ELSE IF known.outcome = "pending" THEN "not_applied"
                   ELSE known.outcome
    IN /\ pc[t] = "idle"
       /\ receipt' = [receipt EXCEPT ![c.request] =
             IF mine THEN [known EXCEPT !.outcome = outcome] ELSE known]
       /\ episode' = IF mine /\ applies THEN Tombstoned(c) ELSE episode
       /\ \/ mine /\ applies /\ Proceeds(t, c)
          \/ /\ mine /\ ~applies /\ outcome = "not_applied"
             /\ Told(c.request, outcome) /\ UNCHANGED <<pc, call>>
          \/ /\ ~mine \/ (~applies /\ outcome = "retired")   \* 409 and 503
             /\ UNCHANGED <<pc, call, answers>>
       /\ UNCHANGED <<federated, search, net, writing, page, faults>>

(* The tombstone document.                                                 *)
Fence(t) ==
    /\ pc[t] = "fence"
    /\ net' = net \cup {<<call[t].uuid, [ver |-> TombstoneVersion, content |-> NoContent]>>}
    /\ Goes(t, "fencing", call[t])
    /\ UNCHANGED <<federated, episode, receipt, search, writing, page, answers, faults>>

(* Deviation: a failed tombstone write passes for a success.               *)
FenceUnchecked(t) ==
    /\ pc[t] = "fencing"
    /\ Goes(t, "finalize", call[t])
    /\ UNCHANGED <<federated, episode, receipt, search, net, writing, page, answers, faults>>

(* save_to_aoss reports the document as indexed or superseded.             *)
FenceHolds(t) ==
    /\ pc[t] = "fencing"
    /\ search[call[t].uuid].ver >= TombstoneVersion
    /\ Goes(t, "finalize", call[t])
    /\ UNCHANGED <<federated, episode, receipt, search, net, writing, page, answers, faults>>

(* The last query scrubs the episode and records that the fence holds; if  *)
(* it matches nothing, the caller gets a 503.                              *)
Finalize(t) ==
    LET c == call[t]
        found == /\ Bound(c) /\ receipt[c.request].outcome = "retired"
                 /\ Retired(c.uuid) /\ episode[c.uuid].digest = c.content
    IN /\ pc[t] = "finalize"
       /\ \/ /\ found
             /\ episode' = [episode EXCEPT ![c.uuid].fenced = TRUE,
                                           ![c.uuid].group = NoGroup,
                                           ![c.uuid].content = NoContent]
             /\ Told(c.request, "retired")
          \/ ~found /\ UNCHANGED <<episode, answers>>
       /\ Goes(t, "idle", c)
       /\ UNCHANGED <<federated, receipt, search, net, writing, page, faults>>

(* Any query or the bulk call raises, or the server stops.                 *)
RetirerFails(t) ==
    /\ pc[t] # "idle"
    /\ faults < MaxFaults
    /\ faults' = faults + 1
    /\ Goes(t, "idle", call[t])
    /\ UNCHANGED <<federated, episode, receipt, search, net, writing, page, answers>>

Durable(r, u) ==
    /\ receipt[r].outcome = "retired"
    /\ Retired(u) /\ episode[u].by = r /\ episode[u].fenced

(* Deviation: a pending request is called off without a trace.             *)
StatusUnrecorded(r, u) ==
    /\ receipt[r] # Nothing /\ receipt[r].uuid = u
    /\ \/ receipt[r].outcome = "not_applied" /\ Told(r, "not_applied")
       \/ receipt[r].outcome = "pending" /\ ~Exists(u) /\ Told(r, "not_applied")
       \/ Durable(r, u) /\ Told(r, "retired")
    /\ UNCHANGED <<federated, episode, receipt, search, net, writing, pc, call, page, faults>>

(* episode_retirement_outcome.  On Neptune it calls off a pending request  *)
(* whose episode is gone.                                                  *)
Status(r, u) ==
    /\ receipt[r] # Nothing /\ receipt[r].uuid = u
    /\ LET outcome == IF federated /\ receipt[r].outcome = "pending" /\ ~Exists(u)
                      THEN "not_applied" ELSE receipt[r].outcome
       IN /\ Decided(r, outcome)
          /\ \/ outcome = "not_applied" /\ Told(r, outcome)
             \/ Durable(r, u) /\ Told(r, "retired")
             \/ outcome # "not_applied" /\ ~Durable(r, u) /\ UNCHANGED answers
    /\ UNCHANGED <<federated, episode, search, net, writing, pc, call, page, faults>>

-----------------------------------------------------------------------------
Starts(t, c) == IF federated THEN Bind(t, c) ELSE BindAndApply(t, c)

RetirerStep(t) ==
    Apply(t) \/ Decide(t) \/ Fence(t) \/ FenceHolds(t) \/ Finalize(t)

Next ==
    \/ \E w \in Writers : Save(w) \/ Index(w) \/ WriterFails(w)
    \/ \E m \in net : Lands(m[1], m[2])
    \/ \E u \in Episodes : Delete(u)
    \/ SelectPage \/ DeletePage
    \/ \E t \in Retirers : \/ \E c \in Call : Starts(t, c)
                           \/ RetirerStep(t)
                           \/ RetirerFails(t)
    \/ \E r \in Requests : \E u \in Episodes : Status(r, u)

Spec == Init /\ [][Next]_vars

(* The caller repeats the very same request while it has no answer, which  *)
(* is what retrieve_episodes_for_reconciliation lists tombstones in        *)
(* progress for; a handler that does not fail goes on, and an index write  *)
(* somebody waits for lands.                                               *)
Repeats(r) ==
    /\ receipt[r] # Nothing /\ answers[r] = {}
    /\ \E t \in Retirers :
          Starts(t, [uuid |-> receipt[r].uuid, content |-> receipt[r].digest,
                     request |-> r])

FenceLands(t) ==
    /\ pc[t] = "fencing"
    /\ Lands(call[t].uuid, [ver |-> TombstoneVersion, content |-> NoContent])

Fairness ==
    /\ \A r \in Requests : SF_vars(Repeats(r))
    /\ \A t \in Retirers : WF_vars(RetirerStep(t)) /\ WF_vars(FenceLands(t))

FairSpec == Spec /\ Fairness

-----------------------------------------------------------------------------
(* Properties.                                                             *)

(* A retired episode is never written, deleted or cleared again: only its  *)
(* own retirement touches it, to scrub it (the opr_deleted guard that all  *)
(* writers and deletions repeat under the episode's lock).                 *)
TombstonesStay ==
    [][\A u \in Episodes : Retired(u) =>
          /\ Retired(u)'
          /\ episode'[u].by = episode[u].by
          /\ episode'[u].digest = episode[u].digest
          /\ episode[u].fenced => episode'[u] = episode[u]]_vars

(* A receipt that says retired or not_applied says so for ever.            *)
OutcomesFinal ==
    [][\A r \in Requests :
          receipt[r] # Nothing =>
            /\ receipt'[r] # Nothing
            /\ receipt[r].outcome # "pending" => receipt'[r] = receipt[r]]_vars

(* However often a request is made, asked about or interrupted, callers    *)
(* are never told both that the episode was retired and that it was not;   *)
(* and "not applied" means the request never touched the episode.          *)
AnswersAgree ==
    \A r \in Requests :
        /\ answers[r] # {"retired", "not_applied"}
        /\ "not_applied" \in answers[r] =>
              \A u \in Episodes : Exists(u) => episode[u].by # r

(* Receipt and tombstone stand for each other: a request is on record as   *)
(* having retired an episode exactly if the tombstone bears its id, so of  *)
(* two requests for one episode at most one succeeds.                      *)
ReceiptsMatch ==
    /\ \A r \in Requests :
          receipt[r] # Nothing /\ receipt[r].outcome = "retired" =>
             /\ Retired(receipt[r].uuid)
             /\ episode[receipt[r].uuid].by = r
             /\ episode[receipt[r].uuid].digest = receipt[r].digest
    /\ \A u \in Episodes : Retired(u) =>
          /\ episode[u].by \in Requests
          /\ receipt[episode[u].by] # Nothing
          /\ receipt[episode[u].by].outcome = "retired"

(* Once a caller was told "retired", the content is gone from graph and    *)
(* full-text index and no write under way brings it back.                  *)
Forgotten ==
    \A r \in Requests : "retired" \in answers[r] =>
        LET u == receipt[r].uuid
        IN /\ Retired(u) /\ episode[u].content = NoContent
           /\ search[u].content = NoContent
           /\ federated => search[u].ver = TombstoneVersion

(* A retirement that took effect is confirmed to its caller in the end,    *)
(* wherever its earlier attempts were interrupted.                         *)
RetirementConfirmed ==
    \A r \in Requests :
        (receipt[r] # Nothing /\ receipt[r].outcome = "retired")
            ~> "retired" \in answers[r]
-----------------------------------------------------------------------------
(* The inductive invariant of the proofs.                                  *)

(* Receipt and tombstone name each other.                                  *)
BooksMatch ==
    /\ ReceiptsMatch
    /\ \A u \in Episodes : Retired(u) => receipt[episode[u].by].uuid = u

(* Only a tombstone bears a request and a fence, and a fenced one is       *)
(* scrubbed, with nothing newer than its document to come.                 *)
TombstonesWhole ==
    \A u \in Episodes :
        /\ Exists(u) /\ ~episode[u].deleted =>
              episode[u].by = NoRequest /\ ~episode[u].fenced
        /\ Exists(u) /\ episode[u].fenced =>
              /\ episode[u].group = NoGroup /\ episode[u].content = NoContent
              /\ federated => search[u].ver = TombstoneVersion

(* Documents of the tombstone's version are empty, and without Neptune     *)
(* there are none at all.                                                  *)
DocumentsBlank ==
    /\ \A u \in Episodes :
          search[u].ver = TombstoneVersion => search[u].content = NoContent
    /\ \A m \in net : m[2].ver = TombstoneVersion => m[2].content = NoContent
    /\ ~federated =>
          /\ net = {}
          /\ \A w \in Writers : writing[w] = NothingToIndex
          /\ \A u \in Episodes : search[u].content = NoContent

(* A request under way has a receipt; it reaches the scrub fenced.         *)
CallsGrounded ==
    \A t \in Retirers :
        /\ pc[t] # "idle" => receipt[call[t].request] # Nothing
        /\ pc[t] \in {"apply", "decide", "fence", "fencing"} => federated
        /\ pc[t] = "finalize" /\ federated =>
              search[call[t].uuid].ver = TombstoneVersion

(* What callers were told is what the receipt says.                        *)
AnswersBacked ==
    \A r \in Requests :
        /\ "not_applied" \in answers[r] =>
              receipt[r] # Nothing /\ receipt[r].outcome = "not_applied"
        /\ "retired" \in answers[r] =>
              /\ receipt[r] # Nothing /\ receipt[r].outcome = "retired"
              /\ Exists(receipt[r].uuid) /\ episode[receipt[r].uuid].fenced

Inv ==
    /\ TypeOK
    /\ BooksMatch
    /\ TombstonesWhole
    /\ DocumentsBlank
    /\ CallsGrounded
    /\ AnswersBacked
=============================================================================
