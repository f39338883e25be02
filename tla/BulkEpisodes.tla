----------------------------- MODULE BulkEpisodes -----------------------------
(***************************************************************************)
(* add_episode_bulk: which entity the nodes and the facts of a batch of    *)
(* episodes end up on.  Entities extracted from an episode are looked up   *)
(* in the graph; what that leaves is compared within the batch; the facts  *)
(* are pointed to the survivors and compared among themselves; and all     *)
(* survivors are looked up again.  Each round yields a map of uuids that   *)
(* has to be applied to nodes, mentions (episodic edges) and facts alike,  *)
(* for a fact whose endpoint is not saved is dropped by the MATCH of the   *)
(* save query, or makes the call raise.                                    *)
(*                                                                         *)
(* The search and the language model are free to miss or to choose among   *)
(* the stored entities.  How facts compare with stored facts is the        *)
(* subject of TemporalFacts: here the graph has none yet.                  *)
(***************************************************************************)
EXTENDS Naturals, Sequences, FiniteSets, SequencesExt

CONSTANTS
    NEpisodes,   \* episodes of the batch
    Names,       \* normalized names
    Mentionable, \* bound: names the episodes of the batch use
    Resembles,   \* pairs of different names the fuzzy comparison accepts
    Stored,      \* uuids of the entities in the graph
    StoredName,  \* their names
    Wordings,    \* normalized wordings of facts
    MaxEntities, \* bound: entities extracted from the batch
    MaxEdges     \* bound: facts extracted from it

Episodes == 1..NEpisodes

(* Uuids of extracted entities: no name twice in an episode, as            *)
(* _collapse_exact_duplicate_extracted_nodes sees to it.                   *)
ExtractedNodes == Episodes \X Mentionable
Entities == ExtractedNodes \cup Stored

ASSUME BulkAssumption ==
    /\ NEpisodes \in Nat
    /\ Mentionable \subseteq Names /\ IsFiniteSet(Mentionable)
    /\ Resembles \subseteq Names \X Names
    /\ Stored \cap ExtractedNodes = {}
    /\ StoredName \in [Stored -> Names]
    /\ MaxEntities \in Nat /\ MaxEdges \in Nat

(* An extracted fact; where it points to now is kept apart.                *)
Edge == [episode : Episodes, from : Mentionable, to : Mentionable, text : Wordings]

VARIABLES
    phase,     \* what comes next
    found,     \* episode -> its entities: as extracted, then as resolved
    edges,     \* the facts extracted
    ends,      \* fact -> its two endpoints
    rep,       \* compressed_map, once the first lookup is done
    pool,      \* canonical_nodes: entities kept by the comparison
    at,        \* the entity the comparison has come to
    kept,      \* fact -> the fact it is merged into
    mentions,  \* episode -> entities its episodic edges point to
    saved      \* entities saved

bulkVars == <<phase, found, edges, ends, rep, pool, at, kept, mentions, saved>>

Phases == {"extract", "lookup", "compare", "point", "merge", "again", "done"}

BulkTypeOK ==
    /\ phase \in Phases
    /\ found \in [Episodes -> Seq(Entities)]
    /\ edges \subseteq Edge
    /\ ends \in [edges -> Entities \X Entities]
    /\ rep \in [Entities -> Entities]
    /\ pool \subseteq Entities
    /\ at \in Nat
    /\ kept \in [edges -> edges]
    /\ mentions \in [Episodes -> SUBSET Entities]
    /\ saved \subseteq Entities

Nothing == [x \in {} |-> x]

InitBulk ==
    /\ phase = "extract"
    /\ found = [i \in Episodes |-> <<>>]
    /\ edges = {}
    /\ ends = Nothing
    /\ rep = [u \in Entities |-> u]
    /\ pool = {}
    /\ at = 1
    /\ kept = Nothing
    /\ mentions = [i \in Episodes |-> {}]
    /\ saved = {}

NameOf(u) == IF u \in Stored THEN StoredName[u] ELSE u[2]

Members(s) == {s[k] : k \in DOMAIN s}

(* The entities of one episode in any order, and facts between them.       *)
Lists(i) ==
    UNION {{s \in [1..k -> {i} \X Mentionable] : Cardinality(Members(s)) = k} :
           k \in 0..Cardinality(Mentionable)}

Extract ==
    /\ phase = "extract"
    /\ \E lists \in [Episodes -> UNION {Lists(i) : i \in Episodes}] :
          /\ \A i \in Episodes : lists[i] \in Lists(i)
          /\ Cardinality(UNION {Members(lists[i]) : i \in Episodes}) <= MaxEntities
          /\ found' = lists
          /\ \E F \in SUBSET {f \in Edge :
                        {<<f.episode, f.from>>, <<f.episode, f.to>>}
                            \subseteq Members(lists[f.episode]) /\ f.from # f.to} :
                /\ IsFiniteSet(F) /\ Cardinality(F) <= MaxEdges
                /\ edges' = F
                /\ ends' = [f \in F |-> <<<<f.episode, f.from>>, <<f.episode, f.to>>>>]
                /\ kept' = [f \in F |-> f]
    /\ phase' = "lookup"
    /\ UNCHANGED <<rep, pool, at, mentions, saved>>

-----------------------------------------------------------------------------
(* dedupe_nodes_bulk.                                                      *)

(* _build_directed_uuid_map: the class of the source goes to the target's. *)
Unite(map, source, target) ==
    [u \in Entities |-> IF map[u] = map[source] THEN map[target] ELSE map[u]]

(* resolve_extracted_nodes for every episode: each extracted entity stays, *)
(* or is a stored one that was found.                                      *)
Lookup ==
    /\ phase = "lookup"
    /\ \E chosen \in [UNION {Members(found[i]) : i \in Episodes} -> Entities] :
          /\ \A u \in DOMAIN chosen : chosen[u] \in Stored \cup {u}
          /\ found' = [i \in Episodes |->
                [k \in DOMAIN found[i] |-> chosen[found[i][k]]]]
          /\ rep' = [u \in Entities |-> IF u \in DOMAIN chosen THEN chosen[u] ELSE u]
    /\ phase' = "compare"
    /\ UNCHANGED <<edges, ends, pool, at, kept, mentions, saved>>

(* Deviation: a namesake is passed over without recording the pair.        *)
MatchForgotten(u, c) == UNCHANGED rep

Match(u, c) == rep' = Unite(rep, u, c)

(* The next resolved entity is compared with those kept so far: the exact  *)
(* name first, then the fuzzy comparison, which takes one of the best.     *)
Compare ==
    /\ phase = "compare"
    /\ at <= Len(FlattenSeq(found))
    /\ LET u == FlattenSeq(found)[at]
           namesakes == {c \in pool : NameOf(c) = NameOf(u)}
           similar == {c \in pool : <<NameOf(u), NameOf(c)>> \in Resembles}
       IN \/ \E c \in namesakes : Match(u, c) /\ UNCHANGED pool
          \/ /\ namesakes = {}
             /\ \E c \in similar : Match(u, c)
             /\ UNCHANGED pool
          \/ /\ namesakes = {} /\ similar = {}
             /\ pool' = pool \cup {u}
             /\ UNCHANGED rep
    /\ at' = at + 1
    /\ UNCHANGED <<phase, found, edges, ends, kept, mentions, saved>>

(* The entity that stands for u; if it were missing, u would for itself.   *)
Canonical(u) == IF rep[u] \in pool THEN rep[u] ELSE u

(* nodes_by_episode, the mentions built from it, and the first call of     *)
(* resolve_edge_pointers.                                                  *)
Point ==
    /\ phase = "compare"
    /\ at > Len(FlattenSeq(found))
    /\ mentions' = [i \in Episodes |-> {Canonical(u) : u \in Members(found[i])}]
    /\ ends' = [f \in edges |-> <<rep[ends[f][1]], rep[ends[f][2]]>>]
    /\ phase' = "merge"
    /\ UNCHANGED <<found, edges, rep, pool, at, kept, saved>>

-----------------------------------------------------------------------------
(* dedupe_edges_bulk.                                                      *)

(* What f may be reported a duplicate of: facts between the same entities, *)
(* but nothing if one of them is worded alike, for then it is returned as  *)
(* it is, without a list of duplicates.                                    *)
Peers(f) == {g \in edges \ {f} : ends[g] = ends[f]}

Reportable(f) == IF \E g \in Peers(f) : g.text = f.text THEN {} ELSE Peers(f)

(* Whichever duplicates are reported, classes of facts collapse to their   *)
(* least uuid, which may be that of any member.                            *)
Merge ==
    /\ phase = "merge"
    /\ \E into \in [edges -> edges] :
          /\ \A f \in edges : into[into[f]] = into[f] /\ ends[into[f]] = ends[f]
          /\ \A f \in edges : into[f] # f =>
                \E g \in edges :
                    into[g] = into[f] /\ (g \in Reportable(f) \/ f \in Reportable(g))
          /\ kept' = into
    /\ phase' = "again"
    /\ UNCHANGED <<found, edges, ends, rep, pool, at, mentions, saved>>

-----------------------------------------------------------------------------
(* _resolve_nodes_and_edges_bulk and the save.                             *)

(* The pointers of a fact are mapped in place, once for every place the    *)
(* lists of the episodes have it at.                                       *)
Places(f) == Cardinality({g \in edges : kept[g] = f})

Follow(map, u, n) ==
    LET go[k \in 0..n] ==
            IF k = 0 THEN u
            ELSE IF go[k - 1] \in DOMAIN map THEN map[go[k - 1]] ELSE go[k - 1]
    IN go[n]

Repointed(map, f) ==
    <<Follow(map, ends[f][1], Places(f)), Follow(map, ends[f][2], Places(f))>>

Mentioned(map, S) == {map[u] : u \in S}

(* Deviation: only the entities nothing was found for are saved.           *)
UnresolvedOnly(map) == {u \in DOMAIN map : map[u] = u}

Hydrated(map) == {map[u] : u \in DOMAIN map}

(* The second lookup, of the entities the batch agreed on; then everything *)
(* is saved.                                                               *)
LookupAgain ==
    /\ phase = "again"
    /\ LET agreed == UNION {mentions[i] : i \in Episodes}
       IN \E map \in [agreed -> Stored \cup agreed] :
             /\ \A u \in agreed : map[u] \in Stored \cup {u}
             /\ ends' = [f \in edges |->
                   IF kept[f] = f THEN Repointed(map, f) ELSE ends[f]]
             /\ mentions' = [i \in Episodes |-> Mentioned(map, mentions[i])]
             /\ saved' = Hydrated(map)
    /\ phase' = "done"
    /\ UNCHANGED <<found, edges, rep, pool, at, kept>>

NextBulk ==
    \/ Extract \/ Lookup \/ Compare \/ Point \/ Merge \/ LookupAgain

SpecBulk == InitBulk /\ [][NextBulk]_bulkVars

-----------------------------------------------------------------------------
(* Properties.                                                             *)

(* Entities of one name, found in different episodes of the batch, are one *)
(* entity afterwards, whichever way each was resolved before; unless the   *)
(* fuzzy comparison has several names to choose from, which may be at      *)
(* hand for one of them and not yet for the other.                         *)
NamesakesMerged ==
    phase \in {"merge", "again", "done"} =>
        \A i, j \in Episodes : \A u \in Members(found[i]), v \in Members(found[j]) :
            /\ NameOf(u) = NameOf(v)
            /\ \A m, n \in Names : {<<NameOf(u), m>>, <<NameOf(u), n>>} \subseteq Resembles => m = n
            => rep[u] = rep[v]

(* Both endpoints of every fact, and every entity an episode mentions, are *)
(* saved with it, although nodes, mentions and facts are mapped apart, and *)
(* facts shared by several episodes more than once: nothing is dropped by  *)
(* the MATCH of the save query.                                            *)
EndpointsSaved ==
    phase = "done" =>
        /\ \A f \in edges : kept[f] = f => {ends[f][1], ends[f][2]} \subseteq saved
        /\ \A i \in Episodes : mentions[i] \subseteq saved
=============================================================================
