-------------------------------- MODULE Sagas --------------------------------
(***************************************************************************)
(* Sagas: named, ordered groups of episodes with a running summary.        *)
(* Callers add episodes to the saga of one name, one at a time or in bulk, *)
(* giving the name or a SagaNode they hold, and refresh its summary.       *)
(* Every call works on a copy of the saga node that it reads at one await  *)
(* and writes back, all properties at once, at a later one.                *)
(*                                                                         *)
(* Episodes are new ones whose content is stored.  The summary is          *)
(* represented by the episodes it was made from: what the language model   *)
(* is shown, the existing summary included, counts as covered.             *)
(***************************************************************************)
EXTENDS Naturals, FiniteSets, Sequences

CONSTANTS
    Episodes,   \* uuids of episodes yet to be added
    SagaUuids,  \* uuids a new SagaNode may be given
    Callers,    \* tasks calling add_episode, add_episode_bulk, summarize_saga
    Limit,      \* max_episodes: episodes one summary run takes in
    MaxBulk,    \* bound: episodes of one call
    MaxTime,    \* bound: the clock, and the reference times of episodes
    MaxFaults,  \* bound: calls that raise
    None

Times == 1..MaxTime

VARIABLES
    clock,      \* wall clock (utc_now)
    episode,    \* uuid -> stored Episodic node, or None
    saga,       \* uuid -> stored Saga node, or None
    has,        \* HAS_EPISODE edges
    next,       \* NEXT_EPISODE edges
    pc,         \* where each call stands
    call,       \* the call's arguments: its episodes with their times
    node,       \* the SagaNode a call works on, or the last one it returned
    prev,       \* previous_episode_uuid
    found,      \* the episodes summarize_saga fetched
    faults

stored == <<episode, saga, has, next>>
locals == <<pc, call, node, prev, found>>
vars == <<clock, episode, saga, has, next, pc, call, node, prev, found, faults>>

(* A saga node; at and valid are last_summarized_at and                    *)
(* last_summarized_episode_valid_at, zero standing for None.               *)
Node ==
    [uuid : SagaUuids, first : Episodes \cup {None}, last : Episodes \cup {None},
     covered : SUBSET Episodes, at : 0..MaxTime, valid : 0..MaxTime]

Episode == [valid : Times, created : Times]

(* What _get_or_create_saga returns: uuid, name, group and creation time;  *)
(* every other field of the SagaNode takes its default.                    *)
BareNode(s) ==
    [uuid |-> s, first |-> None, last |-> None, covered |-> {}, at |-> 0, valid |-> 0]

NoCall == [episodes |-> <<>>, times |-> <<>>, now |-> 0, by |-> "name"]

TypeOK ==
    /\ clock \in Times
    /\ episode \in [Episodes -> Episode \cup {None}]
    /\ saga \in [SagaUuids -> Node \cup {None}]
    /\ has \subseteq SagaUuids \X Episodes
    /\ next \subseteq Episodes \X Episodes
    /\ node \in [Callers -> Node \cup {None}]
    /\ prev \in [Callers -> Episodes \cup {None}]
    /\ found \in [Callers -> SUBSET Episodes]
    /\ faults \in 0..MaxFaults

Init ==
    /\ clock = 1
    /\ episode = [e \in Episodes |-> None]
    /\ saga = [s \in SagaUuids |-> None]
    /\ has = {}
    /\ next = {}
    /\ pc = [c \in Callers |-> "idle"]
    /\ call = [c \in Callers |-> NoCall]
    /\ node = [c \in Callers |-> None]
    /\ prev = [c \in Callers |-> None]
    /\ found = [c \in Callers |-> {}]
    /\ faults = 0

Saved == {e \in Episodes : episode[e] # None}
Taken == UNION {{call[c].episodes[i] : i \in DOMAIN call[c].episodes} : c \in Callers}
OfSaga(s) == {e \in Saved : <<s, e>> \in has}

(* Earlier by reference time, then by time of ingestion.                   *)
Earlier(d, e) ==
    \/ episode[d].valid < episode[e].valid
    \/ episode[d].valid = episode[e].valid /\ episode[d].created < episode[e].created

Goto(c, where) == pc' = [pc EXCEPT ![c] = where]

Tick == clock < MaxTime /\ clock' = clock + 1 /\ UNCHANGED <<stored, locals, faults>>

-----------------------------------------------------------------------------
(* add_episode and add_episode_bulk.                                       *)

(* The episodes of a call in the order of their reference times; all get   *)
(* the call's now as created_at.  The caller names the saga, or passes the *)
(* node an earlier summarize_saga of its own returned; it may also say     *)
(* which episode comes before (add_episode only).                          *)
BeginAdd(c) ==
    /\ pc[c] = "idle"
    /\ \E n \in 1..MaxBulk : \E es \in [1..n -> Episodes], ts \in [1..n -> Times] :
          /\ \A i \in 1..n : es[i] \notin Saved \cup Taken
          /\ \A i, j \in 1..n : i < j => es[i] # es[j] /\ ts[i] <= ts[j]
          /\ \E by \in {"name"} \cup {w \in {"node"} : node[c] # None} :
                call' = [call EXCEPT ![c] =
                    [episodes |-> es, times |-> ts, now |-> clock, by |-> by]]
          /\ \E e \in {None} \cup IF n = 1 THEN Saved ELSE {} :
                prev' = [prev EXCEPT ![c] = e]
    /\ Goto(c, "save")
    /\ UNCHANGED <<clock, stored, node, found, faults>>

(* Extraction is over: add_nodes_and_edges_bulk saves the episodes.        *)
SaveEpisodes(c) ==
    /\ pc[c] = "save"
    /\ LET es == call[c].episodes
       IN episode' = [e \in Episodes |->
              IF \E i \in DOMAIN es : es[i] = e
              THEN [valid |-> call[c].times[CHOOSE i \in DOMAIN es : es[i] = e],
                    created |-> call[c].now]
              ELSE episode[e]]
    /\ Goto(c, IF call[c].by = "name" THEN "look" ELSE "previous")
    /\ UNCHANGED <<clock, saga, has, next, call, node, prev, found, faults>>

(* _get_or_create_saga: the first match of the name, or a new saga.        *)
LookUpSaga(c) ==
    /\ pc[c] = "look"
    /\ \/ \E s \in SagaUuids :
             /\ saga[s] # None
             /\ node' = [node EXCEPT ![c] = BareNode(s)]
             /\ Goto(c, "previous")
       \/ /\ \A s \in SagaUuids : saga[s] = None
          /\ Goto(c, "mint")
          /\ UNCHANGED node
    /\ UNCHANGED <<clock, stored, call, prev, found, faults>>

MintSaga(c) ==
    /\ pc[c] = "mint"
    /\ \E s \in SagaUuids :
          /\ saga[s] = None
          /\ saga' = [saga EXCEPT ![s] = BareNode(s)]
          /\ node' = [node EXCEPT ![c] = BareNode(s)]
    /\ Goto(c, "previous")
    /\ UNCHANGED <<clock, episode, has, next, call, prev, found, faults>>

(* _saga_get_previous_episode_uuid, unless the caller knew.                *)
FindPrevious(c) ==
    /\ pc[c] = "previous"
    /\ LET others == OfSaga(node[c].uuid) \ {Head(call[c].episodes)}
           latest == {e \in others : \A d \in others : ~Earlier(e, d)}
       IN \/ prev[c] # None /\ UNCHANGED prev
          \/ prev[c] = None /\ latest = {} /\ UNCHANGED prev
          \/ prev[c] = None /\ \E e \in latest : prev' = [prev EXCEPT ![c] = e]
    /\ Goto(c, "next")
    /\ UNCHANGED <<clock, stored, call, node, found, faults>>

LinkNext(c) ==
    /\ pc[c] = "next"
    /\ next' = next \cup {<<d, Head(call[c].episodes)>> : d \in {prev[c]} \ {None}}
    /\ Goto(c, "has")
    /\ UNCHANGED <<clock, episode, saga, has, call, node, prev, found, faults>>

LinkHas(c) ==
    /\ pc[c] = "has"
    /\ LET e == Head(call[c].episodes)
           n == node[c]
           rest == Tail(call[c].episodes)
       IN /\ has' = has \cup {<<n.uuid, e>>}
          /\ prev' = [prev EXCEPT ![c] = e]
          /\ node' = [node EXCEPT ![c] =
                [n EXCEPT !.first = IF n.first = None THEN e ELSE @, !.last = e]]
          /\ call' = [call EXCEPT ![c].episodes = rest]
          /\ Goto(c, IF rest = <<>> THEN "track" ELSE "next")
    /\ UNCHANGED <<clock, episode, saga, next, found, faults>>

(* SagaNode.save replaces all properties of the stored node.  A node the   *)
(* caller passed stays in its hands, as the call has changed it.           *)
Replaced(n) == saga' = [saga EXCEPT ![n.uuid] = n]

TrackEnds(c) ==
    /\ pc[c] = "track"
    /\ Replaced(node[c])
    /\ Goto(c, "idle")
    /\ call' = [call EXCEPT ![c] = NoCall]
    /\ node' = [node EXCEPT ![c] = IF call[c].by = "name" THEN None ELSE @]
    /\ prev' = [prev EXCEPT ![c] = None]
    /\ UNCHANGED <<clock, episode, has, next, found, faults>>

-----------------------------------------------------------------------------
(* summarize_saga.                                                         *)

ReadSaga(c) ==
    /\ pc[c] = "idle"
    /\ \E s \in SagaUuids :
          saga[s] # None /\ node' = [node EXCEPT ![c] = saga[s]]
    /\ Goto(c, "fetch")
    /\ UNCHANGED <<clock, stored, call, prev, found, faults>>

(* All up to Limit of the episodes S; beyond it, those that no other       *)
(* episode left out should have preceded.                                  *)
Selections(S, Before(_, _)) ==
    {T \in SUBSET S :
        /\ Cardinality(T) = IF Cardinality(S) < Limit THEN Cardinality(S) ELSE Limit
        /\ \A d \in S \ T, e \in T : ~Before(d, e)}

(* Since the last summary, the earliest episodes ingested after it; on the *)
(* first run the latest of all.  With nothing to add the node is returned  *)
(* as it is.                                                               *)
FetchEpisodes(c) ==
    /\ pc[c] = "fetch"
    /\ LET all == OfSaga(node[c].uuid)
           Later(d, e) == Earlier(e, d)
       IN \E S \in IF node[c].at # 0
                   THEN Selections({e \in all : episode[e].created > node[c].at}, Earlier)
                   ELSE Selections(all, Later) :
             /\ found' = [found EXCEPT ![c] = S]
             /\ Goto(c, IF S = {} THEN "idle" ELSE "summarize")
    /\ UNCHANGED <<clock, stored, call, node, prev, faults>>

Latest(S) == CHOOSE t \in {episode[e].valid : e \in S} : \A e \in S : episode[e].valid <= t

(* The language model has answered: the watermarks advance, and the whole  *)
(* node read before the fetch is written back.                             *)
SaveSummary(c) ==
    /\ pc[c] = "summarize"
    /\ LET n == [node[c] EXCEPT !.covered = @ \cup found[c],
                                !.at = clock,
                                !.valid = IF Latest(found[c]) > @ THEN Latest(found[c]) ELSE @]
       IN Replaced(n) /\ node' = [node EXCEPT ![c] = n]
    /\ found' = [found EXCEPT ![c] = {}]
    /\ Goto(c, "idle")
    /\ UNCHANGED <<clock, episode, has, next, call, prev, faults>>

(* A query or a model call raises; what was saved stays.                   *)
Fail(c) ==
    /\ pc[c] # "idle"
    /\ faults < MaxFaults
    /\ faults' = faults + 1
    /\ Goto(c, "idle")
    /\ call' = [call EXCEPT ![c] = NoCall]
    /\ node' = [node EXCEPT ![c] = None]
    /\ prev' = [prev EXCEPT ![c] = None]
    /\ found' = [found EXCEPT ![c] = {}]
    /\ UNCHANGED <<clock, stored>>

-----------------------------------------------------------------------------
Next ==
    \/ Tick
    \/ \E c \in Callers :
          \/ BeginAdd(c) \/ SaveEpisodes(c) \/ LookUpSaga(c) \/ MintSaga(c)
          \/ FindPrevious(c) \/ LinkNext(c) \/ LinkHas(c) \/ TrackEnds(c)
          \/ ReadSaga(c) \/ FetchEpisodes(c) \/ SaveSummary(c)
          \/ Fail(c)

Spec == Init /\ [][Next]_vars

-----------------------------------------------------------------------------
(* The summary of a saga keeps what it covers, and its event-time          *)
(* watermark never regresses (the docstring of summarize_saga): adding an  *)
(* episode to a summarized saga leaves its summary alone.                  *)
SummaryKept ==
    [][\A s \in SagaUuids : saga[s] # None =>
          /\ saga[s].covered \subseteq saga'[s].covered
          /\ saga[s].valid <= saga'[s].valid]_vars
=============================================================================
