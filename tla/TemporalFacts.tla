---------------------------- MODULE TemporalFacts ----------------------------
(***************************************************************************)
(* The timeline of facts (entity edges).  A call - an episode, a batch of  *)
(* episodes, a triplet - extracts facts, resolves each against the facts   *)
(* it finds in the graph, and saves the resolved ones and those they       *)
(* invalidate in one query.  Every extracted fact is resolved on copies of *)
(* its own, as each search builds its own objects; several copies of one   *)
(* fact may therefore be saved by a call, and the last one wins.           *)
(*                                                                         *)
(* Calls of a group follow one another, which is what add_episode asks of  *)
(* its callers and the queues see to; deletions come at any time.          *)
(*                                                                         *)
(* A triplet may bring the uuid of an edge there is, between the same two  *)
(* nodes, to update it; it is resolved like any other fact, and written    *)
(* over the stored edge unless resolution makes something else of it.      *)
(*                                                                         *)
(* The language model decides what is extracted, which facts repeat or     *)
(* contradict which; it is taken to overlook duplicates at will, and to    *)
(* report every contradiction there is, possibly with others.              *)
(***************************************************************************)
EXTENDS Integers, Sequences, FiniteSets

CONSTANTS
    Texts,        \* facts as worded
    Claims,       \* what they mean
    ClaimOf,      \* text -> claim
    Conflicts,    \* pairs of claims that contradict each other
    Times,        \* points of the timeline
    MaxCalls,     \* bound: calls
    MaxFacts,     \* bound: facts extracted by all calls
    MaxDeletions  \* bound: deletions

NoTime == 0

ASSUME FactsAssumption ==
    /\ ClaimOf \in [Texts -> Claims]
    /\ Conflicts \subseteq Claims \X Claims
    /\ \A x, y \in Claims : <<x, y>> \in Conflicts => <<y, x>> \in Conflicts
    /\ \A x \in Claims : <<x, x>> \notin Conflicts
    /\ Times \subseteq Nat \ {NoTime}
    /\ MaxCalls \in Nat /\ MaxFacts \in Nat /\ MaxDeletions \in Nat

(* An edge is created by a call for a text, at most once: repeated texts   *)
(* of a call are collapsed.                                                *)
Uuids == (1..MaxCalls) \X Texts
NoUuid == <<>>
NoEpisode == 0

(* episode: the first that stated it; learnt: the call that worded it, or  *)
(* gave it its times; given: it came with an end, whatever another fact    *)
(* made of it since                                                        *)
Fact ==
    [text : Texts, episode : 0..MaxCalls, learnt : 1..MaxCalls,
     valid : Times \cup {NoTime}, invalid : Times \cup {NoTime},
     expired : BOOLEAN, given : BOOLEAN]

Extracted ==
    [text : Texts, valid : Times \cup {NoTime}, invalid : Times \cup {NoTime}]

VARIABLES
    facts,      \* the stored edges: a function on the uuids in use
    calls,      \* calls begun
    pending,    \* the facts extracted by the call under way
    updating,   \* the edge it brings the uuid of
    seen,       \* the edges it found in the graph
    extracted,  \* facts extracted so far
    deletions,  \* deletions so far
    contested   \* edges of which one call saved two differing copies

vars == <<facts, calls, pending, updating, seen, extracted, deletions, contested>>

Contradict(s, t) == <<ClaimOf[s], ClaimOf[t]>> \in Conflicts

NoFacts == [u \in {} |-> 0]

TypeOK ==
    /\ DOMAIN facts \subseteq Uuids
    /\ \A u \in DOMAIN facts : facts[u] \in Fact
    /\ calls \in 0..MaxCalls
    /\ pending \in Seq(Extracted)
    /\ updating \in Uuids \cup {NoUuid}
    /\ DOMAIN seen \subseteq Uuids
    /\ \A u \in DOMAIN seen : seen[u] \in Fact
    /\ extracted \in 0..MaxFacts
    /\ deletions \in 0..MaxDeletions
    /\ contested \subseteq Uuids

Init ==
    /\ facts = NoFacts
    /\ calls = 0
    /\ pending = <<>>
    /\ updating = NoUuid
    /\ seen = NoFacts
    /\ extracted = 0
    /\ deletions = 0
    /\ contested = {}

-----------------------------------------------------------------------------
(* Resolution of one extracted fact.                                       *)

Precedes(e, f) == e.valid # NoTime /\ f.valid # NoTime /\ e.valid < f.valid

Ended(e, time) == [e EXCEPT !.invalid = time, !.expired = TRUE]

(* Deviation: the candidates are not sorted; any later one ends the fact.  *)
EndsAtAny(later) == {c.valid : c \in later}

(* The candidates are sorted, so the first later one ends the fact.        *)
EndsAt(later) == {c.valid : c \in {d \in later : \A o \in later : d.valid <= o.valid}}

(* The fact e beside what it contradicts: an end it already has expires    *)
(* it; else the first contradictory fact that begins later is its end.     *)
Settled(e, against) ==
    LET later == {c \in against : Precedes(e, c)}
    IN IF e.invalid # NoTime THEN {[e EXCEPT !.expired = TRUE]}
       ELSE IF e.expired \/ later = {} THEN {e}
       ELSE {Ended(e, time) : time \in EndsAt(later)}

(* Deviation: facts whose time is over are ended again.                    *)
InvalidatesOver(e, c) == Precedes(c, e)

(* resolve_edge_contradictions: c is ended by e unless their times are     *)
(* disjoint or c begins no earlier.                                        *)
Invalidates(e, c) ==
    /\ ~(c.invalid # NoTime /\ e.valid # NoTime /\ c.invalid <= e.valid)
    /\ ~(c.valid # NoTime /\ e.invalid # NoTime /\ e.invalid <= c.valid)
    /\ Precedes(c, e)

(* What resolving a fact to the edge u, e yields: the copy to save as      *)
(* resolved, and copies of those facts among K that it ends.               *)
Resolutions(u, e, K) ==
    {[uuid |-> u, edge |-> f,
      ended |-> [c \in {d \in K : Invalidates(f, seen[d])} |-> Ended(seen[c], f.valid)]] :
        f \in Settled(e, {seen[c] : c \in K})}

(* The edge of a triplet that brings a uuid names no episode.              *)
New(n, x) ==
    [text |-> x.text, episode |-> IF updating = NoUuid THEN n ELSE NoEpisode,
     learnt |-> n, valid |-> x.valid, invalid |-> x.invalid, expired |-> FALSE,
     given |-> x.invalid # NoTime]

(* A stored edge that is taken for what the fact repeats keeps its times.  *)
(* Only when the fact brought its very uuid is it asked for times, if it   *)
(* has none (_extract_edge_timestamps); they are any, as those of x are.   *)
Repeated(n, x, v) ==
    IF v = updating /\ seen[v].valid = NoTime /\ seen[v].invalid = NoTime
    THEN [seen[v] EXCEPT !.learnt = n, !.valid = x.valid, !.invalid = x.invalid,
                         !.given = x.invalid # NoTime]
    ELSE seen[v]

(* The fact x of call n.  The search returns a part of what there is, of   *)
(* contradictory facts all.  Nothing found: the fact is new as it stands.  *)
(* A fact worded alike: that edge is kept and nothing compared.  Else the  *)
(* model may name a duplicate, which replaces the new fact with its times, *)
(* and names what contradicts.                                             *)
Resolve(n, x) ==
    LET u == IF updating = NoUuid THEN <<n, x.text>> ELSE updating
        opposed == {v \in DOMAIN seen : Contradict(x.text, seen[v].text)}
        alike == {v \in DOMAIN seen : seen[v].text = x.text}
        same == {v \in DOMAIN seen : ClaimOf[seen[v].text] = ClaimOf[x.text]}
    IN UNION {
         IF found = {} THEN {[uuid |-> u, edge |-> New(n, x), ended |-> NoFacts]}
         ELSE IF found \cap alike # {}
         THEN {[uuid |-> v, edge |-> seen[v], ended |-> NoFacts] : v \in found \cap alike}
         ELSE UNION {
                Resolutions(u, New(n, x), K)
                  \cup UNION {Resolutions(v, Repeated(n, x, v), K) : v \in found \cap same} :
                    K \in {L \in SUBSET found : opposed \subseteq L}} :
         found \in {F \in SUBSET DOMAIN seen : opposed \subseteq F}}

-----------------------------------------------------------------------------
(* Actions.                                                                *)

(* A call extracts facts, no text twice, and reads the graph.  A triplet   *)
(* is one fact, and may come with the uuid of an edge between its nodes; a *)
(* uuid of an edge between others is replaced by a new one.                *)
Begin ==
    /\ pending = <<>>
    /\ calls < MaxCalls
    /\ \E k \in 1..(MaxFacts - extracted) : \E xs \in [1..k -> Extracted] :
          /\ \A i, j \in 1..k : i # j => xs[i].text # xs[j].text
          /\ \A i \in 1..k : xs[i].invalid # NoTime => xs[i].valid < xs[i].invalid
          /\ pending' = xs
          /\ updating' \in {NoUuid} \cup (IF k = 1 THEN DOMAIN facts ELSE {})
          /\ extracted' = extracted + k
    /\ calls' = calls + 1
    /\ seen' = facts
    /\ UNCHANGED <<facts, deletions, contested>>

(* Where among the outcomes there is a copy of u as resolved, as ended.    *)
Resolved(outs, u) == {i \in DOMAIN outs : outs[i].uuid = u}
Ending(outs, u) == {i \in DOMAIN outs : u \in DOMAIN outs[i].ended}

Touched(outs) ==
    UNION {{outs[i].uuid} \cup DOMAIN outs[i].ended : i \in DOMAIN outs}

Copies(outs, u) ==
    {outs[i].edge : i \in Resolved(outs, u)}
        \cup {outs[i].ended[u] : i \in Ending(outs, u)}

LastOf(I) == CHOOSE i \in I : \A j \in I : j <= i

(* Deviation: the invalidated facts are saved before the resolved ones.    *)
SavedFirst(outs, u) ==
    IF Resolved(outs, u) # {} THEN outs[LastOf(Resolved(outs, u))].edge
    ELSE outs[LastOf(Ending(outs, u))].ended[u]

(* All resolved edges are saved, then all invalidated ones, each list in   *)
(* the order of extraction, and the last copy of an edge stays.            *)
Winner(outs, u) ==
    IF Ending(outs, u) # {} THEN outs[LastOf(Ending(outs, u))].ended[u]
    ELSE outs[LastOf(Resolved(outs, u))].edge

(* resolved_edges + invalidated_edges are saved by one query.              *)
Save ==
    /\ pending # <<>>
    /\ \E outs \in [DOMAIN pending ->
                    UNION {Resolve(calls, pending[i]) : i \in DOMAIN pending}] :
          /\ \A i \in DOMAIN pending : outs[i] \in Resolve(calls, pending[i])
          /\ facts' =
               [u \in DOMAIN facts \cup Touched(outs) |->
                  IF u \in Touched(outs) THEN Winner(outs, u) ELSE facts[u]]
          /\ contested' = contested \cup
               {u \in Touched(outs) : Cardinality(Copies(outs, u)) > 1}
    /\ pending' = <<>>
    /\ updating' = NoUuid
    /\ seen' = NoFacts
    /\ UNCHANGED <<calls, extracted, deletions>>

(* The call raises before its query is carried out.                        *)
Fail ==
    /\ pending # <<>>
    /\ pending' = <<>>
    /\ updating' = NoUuid
    /\ seen' = NoFacts
    /\ UNCHANGED <<facts, calls, extracted, deletions, contested>>

(* remove_episode: the edges the episode was the first to state.           *)
RemoveEpisode(n) ==
    /\ deletions < MaxDeletions
    /\ \E u \in DOMAIN facts : facts[u].episode = n
    /\ facts' = [u \in {v \in DOMAIN facts : facts[v].episode # n} |-> facts[u]]
    /\ deletions' = deletions + 1
    /\ UNCHANGED <<calls, pending, updating, seen, extracted, contested>>

Next ==
    \/ Begin \/ Save \/ Fail
    \/ \E n \in 1..MaxCalls : RemoveEpisode(n)

Spec == Init /\ [][Next]_vars

-----------------------------------------------------------------------------
(* Properties.                                                             *)

(* Contradictory facts learnt by different calls whose beginnings are      *)
(* known and differ.                                                       *)
Rivals(u, v) ==
    /\ facts[u].learnt # facts[v].learnt
    /\ Contradict(facts[u].text, facts[v].text)
    /\ Precedes(facts[u], facts[v])

(* Contradictory facts are never both current: whichever order episodes    *)
(* arrive in, and whatever a triplet writes over a stored edge, the one    *)
(* that begins earlier has an end (resolve_extracted_edge ends the new     *)
(* fact or the stored ones, and of several copies of a fact the one with   *)
(* an end is saved last).                                                  *)
CurrentFactsAgree ==
    \A u, v \in DOMAIN facts : Rivals(u, v) => facts[u].invalid # NoTime

(* Moreover the earlier fact ends before the later begins; only a fact     *)
(* learnt after the one it conflicts with keeps a later end, if it came    *)
(* with one.  Facts of which one call saved differing copies are excepted, *)
(* since the last copy need not have the earliest end.                     *)
TimelinesDisjoint ==
    \A u, v \in DOMAIN facts :
        Rivals(u, v) /\ u \notin contested =>
            \/ facts[u].invalid <= facts[v].valid
            \/ facts[v].learnt < facts[u].learnt /\ facts[u].given

(* An end, once imposed or given, is never removed and never moves later,  *)
(* but where a triplet brings the uuid of the very edge and writes its own *)
(* fact over it (add_triplet); no other edge of that call, and none of any *)
(* other, loses its end.                                                   *)
EndsOnlyMoveEarlier ==
    [][\A u \in DOMAIN facts \cap DOMAIN facts' :
         facts[u].invalid # NoTime =>
            \/ u = updating /\ facts'[u].learnt = calls
            \/ /\ facts'[u].invalid # NoTime
               /\ facts'[u].invalid <= facts[u].invalid]_vars
=============================================================================
