------------------------- MODULE TemporalFacts_proofs -------------------------
(***************************************************************************)
(* Machine-checked proofs on what ingestion makes of facts and entities.   *)
(* First about TemporalFacts, for any texts and what they mean, any        *)
(* contradictions between them, any points in time and any bounds; then    *)
(* about BulkEpisodes, for batches of any size, any names and whatever the *)
(* fuzzy comparison accepts.                                               *)
(***************************************************************************)
EXTENDS TemporalFacts, BulkEpisodes, FiniteSetTheorems, FunctionTheorems,
        SequenceTheorems, WellFoundedInduction, TLAPS

-----------------------------------------------------------------------------
(* The last of some positions, and sets of copies.                         *)

LEMMA LastIsOne ==
    ASSUME NEW n \in Nat, NEW I \in SUBSET (1..n), I # {}
    PROVE  LastOf(I) \in I
<1> DEFINE above(x) == {v \in I : x <= v}
           T == {above(x) : x \in I}
           R == StrictSubsetOrdering(I)
<1>1. IsFiniteSet(I) /\ \A x \in I : x \in Nat
  <2>1. IsFiniteSet(1..n) /\ \A x \in 1..n : x \in Nat
    BY FS_Interval
  <2>2. IsFiniteSet(I)
    BY <2>1, FS_Subset
  <2>3. QED
    BY <2>1, <2>2
<1>2. T \subseteq FiniteSubsetsOf(I) /\ T # {}
  <2>1. \A x \in I : above(x) \in SUBSET I
    OBVIOUS
  <2>2. \A S \in SUBSET I : IsFiniteSet(S)
    BY <1>1, FS_Subset
  <2>3. QED
    BY <2>1, <2>2 DEF FiniteSubsetsOf
<1>3. PICK X \in T : \A Y \in T : <<Y, X>> \notin R
  <2> HIDE DEF T, R
  <2>1. IsWellFoundedOn(R, FiniteSubsetsOf(I))
    BY FS_StrictSubsetOrderingWellFounded DEF R
  <2>2. QED
    BY <1>2, <2>1, WFMin
<1>4. PICK m \in I : X = above(m)
  BY <1>3
<1>5. ASSUME NEW v \in I PROVE v <= m
  <2> SUFFICES ASSUME m < v PROVE FALSE
    BY <1>1
  <2>1. m \in above(m) /\ m \notin above(v)
    BY <1>1
  <2>2. \A w \in I : v <= w => m <= w
    BY <1>1
  <2>3. above(v) \subseteq above(m)
    BY <2>2
  <2>4. <<above(v), above(m)>> \in R
    BY <2>1, <2>3 DEF StrictSubsetOrdering
  <2>5. QED
    BY <1>3, <1>4, <2>4
<1>6. \E i \in I : \A j \in I : j <= i
  BY <1>5
<1>7. QED
  BY <1>6 DEF LastOf

(* The image of a finite set is finite.                                    *)
LEMMA FiniteImage ==
    ASSUME NEW I, IsFiniteSet(I), NEW f, NEW S, S = {f[i] : i \in I}
    PROVE  IsFiniteSet(S)
<1> DEFINE g == [i \in I |-> f[i]]
<1>1. g \in Surjection(I, S)
  BY DEF Surjection
<1>2. QED
  BY <1>1, FS_Surjection

(* Two things in a finite set are two at least.                            *)
LEMMA Single ==
    ASSUME NEW S, IsFiniteSet(S), ~(Cardinality(S) > 1), NEW a \in S, NEW b \in S
    PROVE  a = b
<1> SUFFICES ASSUME a # b PROVE FALSE
  OBVIOUS
<1>1. IsFiniteSet({a}) /\ Cardinality({a}) = 1
  BY FS_Singleton
<1>2. IsFiniteSet({a} \cup {b}) /\ Cardinality({a} \cup {b}) = 2
  <2>1. /\ IsFiniteSet({a} \cup {b})
        /\ Cardinality({a} \cup {b}) =
             IF b \in {a} THEN Cardinality({a}) ELSE Cardinality({a}) + 1
    BY <1>1, FS_AddElement
  <2>2. b \notin {a}
    OBVIOUS
  <2>3. QED
    BY <1>1, <2>1, <2>2
<1>3. {a} \cup {b} \in SUBSET S
  OBVIOUS
<1>4. Cardinality({a} \cup {b}) <= Cardinality(S) /\ Cardinality(S) \in Nat
  BY <1>3, FS_Subset, FS_CardinalityType
<1>5. QED
  BY <1>2, <1>4

-----------------------------------------------------------------------------
(* What resolution makes of one fact.                                      *)

LEMMA FactTypes ==
    ASSUME NEW e \in Fact
    PROVE  e.valid \in Nat /\ e.invalid \in Nat
<1>1. \A t \in Times \cup {NoTime} : t \in Nat
  BY FactsAssumption DEF NoTime
<1>2. QED
  BY <1>1 DEF Fact

(* The copy f of a fact e tells no less: what it says, its beginning and   *)
(* whether it came with an end are kept, its end is not removed and does   *)
(* not move later.                                                         *)
Refines(f, e) ==
    /\ f.text = e.text /\ f.learnt = e.learnt
    /\ f.valid = e.valid /\ f.given = e.given
    /\ f.expired => e.expired \/ f.invalid # NoTime
    /\ e.invalid # NoTime => f.invalid # NoTime /\ f.invalid <= e.invalid

LEMMA EndedFact ==
    ASSUME NEW e \in Fact, NEW f \in Fact, Invalidates(f, e)
    PROVE  /\ Ended(e, f.valid) \in Fact /\ Refines(Ended(e, f.valid), e)
           /\ Ended(e, f.valid).invalid = f.valid /\ f.valid # NoTime
<1>1. f.valid # NoTime /\ e.valid < f.valid
  BY DEF Invalidates, Precedes
<1>2. e.invalid # NoTime => f.valid <= e.invalid
  BY <1>1, FactTypes DEF Invalidates
<1>3. /\ Ended(e, f.valid).valid = e.valid /\ Ended(e, f.valid).given = e.given
      /\ Ended(e, f.valid).text = e.text /\ Ended(e, f.valid).learnt = e.learnt
      /\ Ended(e, f.valid).invalid = f.valid /\ Ended(e, f.valid) \in Fact
  BY DEF Fact, Ended
<1>4. QED
  BY <1>1, <1>2, <1>3 DEF Refines

(* A fact settled beside those it contradicts, one of which begins later,  *)
(* has an end; it is the beginning of the first of these unless the fact   *)
(* came with one.                                                          *)
LEMMA SettledFact ==
    ASSUME NEW e \in Fact, NEW against \in SUBSET Fact, NEW f \in Settled(e, against)
    PROVE  /\ f \in Fact /\ Refines(f, e)
           /\ e.invalid # NoTime => f.invalid = e.invalid
           /\ e.invalid = NoTime /\ f.invalid # NoTime => f.valid < f.invalid
           /\ e.invalid = NoTime /\ ~e.expired =>
                \A c \in against : Precedes(e, c) =>
                    f.invalid # NoTime /\ f.invalid <= c.valid
<1> DEFINE later == {c \in against : Precedes(e, c)}
<1>0. e.valid \in Nat /\ e.invalid \in Nat /\ \A c \in against : c.valid \in Nat
  BY FactTypes
<1>1. CASE e.invalid # NoTime
  <2>1. f = [e EXCEPT !.expired = TRUE]
    BY <1>1 DEF Settled
  <2>2. /\ f \in Fact /\ f.valid = e.valid /\ f.given = e.given /\ f.invalid = e.invalid
        /\ f.text = e.text /\ f.learnt = e.learnt
    BY <2>1 DEF Fact
  <2>3. QED
    BY <1>0, <1>1, <2>2 DEF Refines
<1>2. CASE e.invalid = NoTime /\ (e.expired \/ later = {})
  <2>1. f = e
    BY <1>2 DEF Settled
  <2>2. e.expired \/ \A c \in against : ~Precedes(e, c)
    BY <1>2
  <2>3. QED
    BY <1>2, <2>1, <2>2 DEF Refines
<1>3. CASE e.invalid = NoTime /\ ~e.expired /\ later # {}
  <2>1. PICK time \in EndsAt(later) : f = Ended(e, time)
    BY <1>3 DEF Settled
  <2>2. PICK d \in later : time = d.valid /\ \A o \in later : d.valid <= o.valid
    BY <2>1 DEF EndsAt
  <2>3. d \in Fact /\ time # NoTime /\ e.valid < time
    BY <2>2 DEF Precedes
  <2>4. /\ f \in Fact /\ f.valid = e.valid /\ f.given = e.given /\ f.invalid = time
        /\ f.text = e.text /\ f.learnt = e.learnt
    BY <2>1, <2>2, <2>3 DEF Fact, Ended
  <2>5. \A c \in against : Precedes(e, c) => time <= c.valid
    BY <2>2
  <2>6. QED
    BY <1>3, <2>3, <2>4, <2>5 DEF Refines
<1>4. QED
  BY <1>1, <1>2, <1>3

-----------------------------------------------------------------------------
(* What resolution makes of one extracted fact, among the facts known.     *)

Against(x) == {v \in DOMAIN seen : Contradict(x.text, seen[v].text)}

EndsAmong(r, K) ==
    r.ended = [c \in {d \in K : Invalidates(r.edge, seen[d])} |-> Ended(seen[c], r.edge.valid)]

(* A fact as call n has learnt it, before it is compared with any other.   *)
Fresh(n, x, b) ==
    /\ b \in Fact /\ b.learnt = n /\ ClaimOf[b.text] = ClaimOf[x.text]
    /\ b.valid = x.valid /\ b.invalid = x.invalid
    /\ b.expired = FALSE /\ b.given = (x.invalid # NoTime)

(* An outcome that is such a fact, of a new edge or of the one the call    *)
(* brought the uuid of.                                                    *)
IsNew(n, x, r) ==
    /\ r.uuid = <<n, x.text>> \/ (r.uuid = updating /\ updating \in DOMAIN seen)
    /\ \E b : /\ Fresh(n, x, b)
              /\ \/ r.edge = b /\ Against(x) = {} /\ r.ended = NoFacts
                 \/ \E K \in SUBSET DOMAIN seen :
                       /\ Against(x) \subseteq K
                       /\ r.edge \in Settled(b, {seen[c] : c \in K})
                       /\ EndsAmong(r, K)

(* An outcome that is a stored fact, as it was or with an end.             *)
IsKnown(r) ==
    /\ r.uuid \in DOMAIN seen
    /\ \/ r.edge = seen[r.uuid] /\ r.ended = NoFacts
       \/ \E K \in SUBSET DOMAIN seen :
             /\ r.edge \in Settled(seen[r.uuid], {seen[c] : c \in K})
             /\ EndsAmong(r, K)

(* A fact expires only with an end.                                        *)
Coherent(f) == \A u \in DOMAIN f : f[u].expired => f[u].invalid # NoTime

LEMMA ResolutionsYield ==
    ASSUME NEW u, NEW e, NEW K, NEW r \in Resolutions(u, e, K)
    PROVE  /\ r.uuid = u /\ r.edge \in Settled(e, {seen[c] : c \in K})
           /\ EndsAmong(r, K)
<1>1. PICK f \in Settled(e, {seen[c] : c \in K}) :
        r = [uuid |-> u, edge |-> f,
             ended |-> [c \in {d \in K : Invalidates(f, seen[d])} |-> Ended(seen[c], f.valid)]]
  BY DEF Resolutions
<1>2. r.uuid = u /\ r.edge = f
  BY <1>1
<1>3. r.ended = [c \in {d \in K : Invalidates(f, seen[d])} |-> Ended(seen[c], f.valid)]
  BY <1>1
<1>4. QED
  BY <1>2, <1>3 DEF EndsAmong

LEMMA ResolveYields ==
    ASSUME TypeOK, Coherent(seen), updating # NoUuid => updating \in DOMAIN seen,
           NEW n \in 1..MaxCalls, NEW x \in Extracted, NEW r \in Resolve(n, x)
    PROVE  IsNew(n, x, r) \/ IsKnown(r)
<1> DEFINE u == IF updating = NoUuid THEN <<n, x.text>> ELSE updating
           opposed == {v \in DOMAIN seen : Contradict(x.text, seen[v].text)}
           alike == {v \in DOMAIN seen : seen[v].text = x.text}
           same == {v \in DOMAIN seen : ClaimOf[seen[v].text] = ClaimOf[x.text]}
           branch(known) ==
             IF known = {} THEN {[uuid |-> u, edge |-> New(n, x), ended |-> NoFacts]}
             ELSE IF known \cap alike # {}
             THEN {[uuid |-> v, edge |-> seen[v], ended |-> NoFacts] : v \in known \cap alike}
             ELSE UNION {
                    Resolutions(u, New(n, x), K)
                      \cup UNION {Resolutions(v, Repeated(n, x, v), K) : v \in known \cap same} :
                        K \in {L \in SUBSET known : opposed \subseteq L}}
<1>1. Resolve(n, x) = UNION {branch(known) : known \in {F \in SUBSET DOMAIN seen : opposed \subseteq F}}
  BY Zenon DEF Resolve
<1>2. PICK known \in SUBSET DOMAIN seen : opposed \subseteq known /\ r \in branch(known)
  <2> HIDE DEF branch, opposed
  <2>1. QED
    BY <1>1
<1>3. opposed = Against(x)
  BY DEF Against
<1>4. u = <<n, x.text>> \/ (u = updating /\ updating \in DOMAIN seen)
  OBVIOUS
<1>5. Fresh(n, x, New(n, x))
  <2>1. n \in 0..MaxCalls /\ NoEpisode \in 0..MaxCalls
    BY FactsAssumption DEF NoEpisode
  <2>2. QED
    BY <2>1 DEF Fresh, New, Fact, Extracted
<1>6. ASSUME NEW v \in same
      PROVE  \/ Repeated(n, x, v) = seen[v]
             \/ v = updating /\ Fresh(n, x, Repeated(n, x, v))
  <2>1. PICK e \in Fact : e = seen[v]
    BY DEF TypeOK
  <2>2. CASE ~(v = updating /\ e.valid = NoTime /\ e.invalid = NoTime)
    BY <2>1, <2>2 DEF Repeated
  <2>3. CASE v = updating /\ e.valid = NoTime /\ e.invalid = NoTime
    <3>1. e.expired = FALSE /\ ClaimOf[e.text] = ClaimOf[x.text]
      BY <2>1, <2>3 DEF Coherent, Fact
    <3>2. Repeated(n, x, v) =
            [e EXCEPT !.learnt = n, !.valid = x.valid, !.invalid = x.invalid,
                      !.given = x.invalid # NoTime]
      BY <2>1, <2>3 DEF Repeated
    <3>3. Fresh(n, x, Repeated(n, x, v))
      BY <3>1, <3>2 DEF Fresh, Fact, Extracted
    <3>4. QED
      BY <2>3, <3>3
  <2>4. QED
    BY <2>2, <2>3
<1>7. CASE known = {}
  <2>1. r = [uuid |-> u, edge |-> New(n, x), ended |-> NoFacts]
    BY <1>2, <1>7
  <2>2. r.uuid = u /\ r.edge = New(n, x) /\ r.ended = NoFacts
    BY <2>1
  <2>3. Against(x) = {}
    BY <1>2, <1>3, <1>7
  <2>4. QED
    BY <1>4, <1>5, <2>2, <2>3 DEF IsNew
<1>8. CASE known # {} /\ known \cap alike # {}
  <2>1. PICK v \in known \cap alike : r = [uuid |-> v, edge |-> seen[v], ended |-> NoFacts]
    BY <1>2, <1>8
  <2>2. r.uuid = v /\ r.edge = seen[v] /\ r.ended = NoFacts /\ v \in DOMAIN seen
    BY <2>1
  <2>3. QED
    BY <2>2 DEF IsKnown
<1>9. CASE known # {} /\ known \cap alike = {}
  <2>1. PICK K \in {L \in SUBSET known : opposed \subseteq L} :
          r \in Resolutions(u, New(n, x), K)
                  \cup UNION {Resolutions(v, Repeated(n, x, v), K) : v \in known \cap same}
    BY <1>2, <1>9
  <2>2. K \in SUBSET DOMAIN seen /\ Against(x) \subseteq K
    BY <1>3
  <2>3. ASSUME r \in Resolutions(u, New(n, x), K) PROVE IsNew(n, x, r)
    <3>1. r.uuid = u /\ r.edge \in Settled(New(n, x), {seen[c] : c \in K}) /\ EndsAmong(r, K)
      BY <2>3, ResolutionsYield
    <3>2. QED
      <4> HIDE DEF u
      <4>1. QED
        BY <1>4, <1>5, <2>2, <3>1 DEF IsNew
  <2>4. ASSUME NEW v \in known \cap same, r \in Resolutions(v, Repeated(n, x, v), K)
        PROVE  IsNew(n, x, r) \/ IsKnown(r)
    <3>1. v \in DOMAIN seen /\ v \in same
      OBVIOUS
    <3>2. /\ r.uuid = v /\ r.edge \in Settled(Repeated(n, x, v), {seen[c] : c \in K})
          /\ EndsAmong(r, K)
      BY <2>4, ResolutionsYield
    <3>3. CASE Repeated(n, x, v) = seen[v]
      BY <2>2, <3>1, <3>2, <3>3 DEF IsKnown
    <3>4. CASE v = updating /\ Fresh(n, x, Repeated(n, x, v))
      BY <2>2, <3>1, <3>2, <3>4 DEF IsNew
    <3>5. QED
      BY <1>6, <3>1, <3>3, <3>4
  <2>5. QED
    BY <2>1, <2>3, <2>4
<1>10. QED
  BY <1>7, <1>8, <1>9

(* The facts that an outcome ends.                                         *)
LEMMA OutcomeEnds ==
    ASSUME NEW r, r.ended = NoFacts \/ \E K \in SUBSET DOMAIN seen : EndsAmong(r, K)
    PROVE  \A c \in DOMAIN r.ended :
             /\ c \in DOMAIN seen /\ Invalidates(r.edge, seen[c])
             /\ r.ended[c] = Ended(seen[c], r.edge.valid)
<1>1. CASE r.ended = NoFacts
  BY <1>1 DEF NoFacts
<1>2. ASSUME NEW K \in SUBSET DOMAIN seen, EndsAmong(r, K)
      PROVE  \A c \in DOMAIN r.ended :
               /\ c \in DOMAIN seen /\ Invalidates(r.edge, seen[c])
               /\ r.ended[c] = Ended(seen[c], r.edge.valid)
  BY <1>2 DEF EndsAmong
<1>3. QED
  BY <1>1, <1>2

(* A copy of a fact that was there: no less told.                          *)
LEMMA KnownOutcome ==
    ASSUME TypeOK, NEW r, IsKnown(r)
    PROVE  r.edge \in Fact /\ Refines(r.edge, seen[r.uuid])
<1>1. seen[r.uuid] \in Fact /\ r.uuid \in DOMAIN seen
  BY DEF TypeOK, IsKnown
<1>2. CASE r.edge = seen[r.uuid]
  BY <1>1, <1>2, FactTypes DEF Refines
<1>3. ASSUME NEW K \in SUBSET DOMAIN seen, r.edge \in Settled(seen[r.uuid], {seen[c] : c \in K})
      PROVE  r.edge \in Fact /\ Refines(r.edge, seen[r.uuid])
  <2>1. {seen[c] : c \in K} \in SUBSET Fact
    BY DEF TypeOK
  <2>2. QED
    BY <1>1, <1>3, <2>1, SettledFact
<1>4. QED
  BY <1>2, <1>3 DEF IsKnown

(* A fact that a call learns means what was extracted, and expires only    *)
(* with an end.                                                            *)
LEMMA LearntOutcome ==
    ASSUME TypeOK, NEW n, NEW x, NEW r, IsNew(n, x, r)
    PROVE  /\ r.edge \in Fact /\ r.edge.learnt = n /\ ClaimOf[r.edge.text] = ClaimOf[x.text]
           /\ r.edge.expired => r.edge.invalid # NoTime
<1>1. PICK b :
        /\ Fresh(n, x, b)
        /\ r.edge = b \/ \E K \in SUBSET DOMAIN seen : r.edge \in Settled(b, {seen[c] : c \in K})
  BY DEF IsNew
<1>2. /\ b \in Fact /\ b.expired = FALSE
      /\ b.learnt = n /\ ClaimOf[b.text] = ClaimOf[x.text]
  BY <1>1 DEF Fresh
<1>3. CASE r.edge = b
  BY <1>2, <1>3
<1>4. ASSUME NEW K \in SUBSET DOMAIN seen, r.edge \in Settled(b, {seen[c] : c \in K})
      PROVE  /\ r.edge \in Fact /\ r.edge.learnt = n /\ ClaimOf[r.edge.text] = ClaimOf[x.text]
             /\ r.edge.expired => r.edge.invalid # NoTime
  <2>1. {seen[c] : c \in K} \in SUBSET Fact
    BY DEF TypeOK
  <2>2. r.edge \in Fact /\ Refines(r.edge, b)
    BY <1>2, <1>4, <2>1, SettledFact
  <2>3. QED
    BY <1>2, <2>2 DEF Refines
<1>5. QED
  BY <1>1, <1>3, <1>4

(* A new fact has an end if it contradicts one that begins later; and what *)
(* it contradicts and begins earlier is ended by it, unless it was over.   *)
LEMMA NewOutcome ==
    ASSUME TypeOK, NEW n, NEW x \in Extracted, x.invalid # NoTime => x.valid < x.invalid,
           NEW r, IsNew(n, x, r)
    PROVE  \A v \in Against(x) :
             /\ Precedes(r.edge, seen[v]) =>
                  /\ r.edge.invalid # NoTime
                  /\ r.edge.invalid <= seen[v].valid \/ r.edge.given
             /\ Precedes(seen[v], r.edge) =>
                  \/ v \in DOMAIN r.ended
                  \/ seen[v].invalid # NoTime /\ seen[v].invalid <= r.edge.valid
<1>0. PICK b :
        /\ Fresh(n, x, b)
        /\ \/ r.edge = b /\ Against(x) = {} /\ r.ended = NoFacts
           \/ \E K \in SUBSET DOMAIN seen :
                 /\ Against(x) \subseteq K
                 /\ r.edge \in Settled(b, {seen[c] : c \in K})
                 /\ EndsAmong(r, K)
  BY DEF IsNew
<1>1. /\ b \in Fact /\ b.valid = x.valid /\ b.invalid = x.invalid
      /\ b.expired = FALSE /\ b.given = (x.invalid # NoTime)
      /\ b.learnt = n /\ ClaimOf[b.text] = ClaimOf[x.text]
  BY <1>0 DEF Fresh
<1>2. CASE r.edge = b /\ Against(x) = {}
  BY <1>1, <1>2
<1>3. ASSUME NEW K \in SUBSET DOMAIN seen, Against(x) \subseteq K,
             r.edge \in Settled(b, {seen[c] : c \in K}), EndsAmong(r, K),
             NEW v \in Against(x)
      PROVE  /\ Precedes(r.edge, seen[v]) =>
                  /\ r.edge.invalid # NoTime
                  /\ r.edge.invalid <= seen[v].valid \/ r.edge.given
             /\ Precedes(seen[v], r.edge) =>
                  \/ v \in DOMAIN r.ended
                  \/ seen[v].invalid # NoTime /\ seen[v].invalid <= r.edge.valid
  <2>1. {seen[c] : c \in K} \in SUBSET Fact /\ v \in K /\ seen[v] \in {seen[c] : c \in K}
    BY <1>3 DEF TypeOK
  <2>2. PICK f \in Fact, e \in Fact : f = r.edge /\ e = seen[v]
    BY <1>1, <1>3, <2>1, SettledFact
  <2>3. /\ Refines(f, b)
        /\ x.invalid # NoTime => f.invalid = x.invalid
        /\ x.invalid = NoTime /\ f.invalid # NoTime => f.valid < f.invalid
        /\ x.invalid = NoTime =>
             (Precedes(b, e) => f.invalid # NoTime /\ f.invalid <= e.valid)
    BY <1>1, <1>3, <2>1, <2>2, SettledFact
  <2>4. f.valid = x.valid /\ f.given = (x.invalid # NoTime)
    BY <1>1, <2>3 DEF Refines
  <2>5. Precedes(f, e) => f.invalid # NoTime /\ (f.invalid <= e.valid \/ f.given)
    <3>1. CASE x.invalid # NoTime
      BY <2>3, <2>4, <3>1
    <3>2. CASE x.invalid = NoTime
      BY <1>1, <2>3, <2>4, <3>2 DEF Precedes
    <3>3. QED
      BY <3>1, <3>2
  <2>6. ASSUME Precedes(e, f), ~Invalidates(f, e)
        PROVE  e.invalid # NoTime /\ e.invalid <= f.valid
    <3>1. e.valid \in Nat /\ e.invalid \in Nat /\ f.valid \in Nat /\ f.invalid \in Nat
      BY FactTypes
    <3>2. f.invalid # NoTime => f.valid < f.invalid
      BY <2>3, <2>4
    <3>3. e.valid < f.valid
      BY <2>6 DEF Precedes
    <3>4. ~(f.invalid # NoTime /\ f.invalid <= e.valid)
      BY <3>1, <3>2, <3>3
    <3>5. QED
      BY <2>6, <3>4 DEF Invalidates
  <2>7. Invalidates(f, e) => v \in DOMAIN r.ended
    BY <1>3, <2>1, <2>2 DEF EndsAmong
  <2>8. QED
    BY <2>2, <2>5, <2>6, <2>7
<1>4. QED
  BY <1>0, <1>2, <1>3

-----------------------------------------------------------------------------
(* The inductive invariant.                                                *)

Opposite(f, u, v) ==
    /\ f[u].learnt # f[v].learnt
    /\ Contradict(f[u].text, f[v].text)
    /\ Precedes(f[u], f[v])

(* What the two invariants say of the stored facts holds of any state of   *)
(* them that a call has read, too.                                         *)
Orderly(f) ==
    /\ Coherent(f)
    /\ \A u, v \in DOMAIN f : Opposite(f, u, v) =>
          /\ f[u].invalid # NoTime
          /\ u \notin contested => \/ f[u].invalid <= f[v].valid
                                   \/ f[v].learnt < f[u].learnt /\ f[u].given

(* While a call is at work, the graph is what it read, less what has been  *)
(* deleted since; all of it was created and learnt by earlier calls.       *)
Reading ==
    /\ Orderly(seen)
    /\ 0 < calls /\ \A u \in DOMAIN seen : u[1] < calls /\ seen[u].learnt < calls
    /\ \A u \in DOMAIN facts : u \in DOMAIN seen /\ facts[u] = seen[u]
    /\ updating # NoUuid => updating \in DOMAIN seen
    /\ \A i \in DOMAIN pending :
          pending[i].invalid # NoTime => pending[i].valid < pending[i].invalid

Inv ==
    /\ TypeOK
    /\ \A u \in DOMAIN facts : u[1] <= calls /\ facts[u].learnt <= calls
    /\ Orderly(facts)
    /\ pending # <<>> => Reading

LEMMA UuidTypes ==
    \A u \in Uuids : u[1] \in Nat /\ u[1] <= MaxCalls
BY FactsAssumption DEF Uuids

LEMMA LearntTypes ==
    ASSUME NEW e \in Fact
    PROVE  e.learnt \in Nat /\ e.text \in Texts
BY FactsAssumption DEF Fact

(* Contradiction is mutual.                                                *)
LEMMA Mutual ==
    ASSUME NEW s \in Texts, NEW t \in Texts, Contradict(s, t)
    PROVE  Contradict(t, s)
BY FactsAssumption DEF Contradict

-----------------------------------------------------------------------------
(* Which copy of a fact the save query leaves.                             *)

LEMMA WinnerIsCopy ==
    ASSUME NEW n \in Nat, NEW outs, DOMAIN outs = 1..n, NEW u \in Touched(outs)
    PROVE  /\ Ending(outs, u) # {} =>
                \E i \in Ending(outs, u) : Winner(outs, u) = outs[i].ended[u]
           /\ Ending(outs, u) = {} =>
                \E i \in Resolved(outs, u) : Winner(outs, u) = outs[i].edge
           /\ Winner(outs, u) \in Copies(outs, u)
<1>1. Ending(outs, u) \in SUBSET (1..n) /\ Resolved(outs, u) \in SUBSET (1..n)
  BY DEF Ending, Resolved
<1>2. Ending(outs, u) = {} => Resolved(outs, u) # {}
  BY DEF Touched, Ending, Resolved
<1>3. Ending(outs, u) # {} => LastOf(Ending(outs, u)) \in Ending(outs, u)
  BY <1>1, LastIsOne
<1>4. Resolved(outs, u) # {} => LastOf(Resolved(outs, u)) \in Resolved(outs, u)
  BY <1>1, LastIsOne
<1>5. QED
  BY <1>2, <1>3, <1>4 DEF Winner, Copies

LEMMA CopiesFinite ==
    ASSUME NEW n \in Nat, NEW outs, DOMAIN outs = 1..n, NEW u
    PROVE  IsFiniteSet(Copies(outs, u))
<1> DEFINE f == [i \in 1..n |-> outs[i].edge]
           g == [i \in 1..n |-> outs[i].ended[u]]
           A == {outs[i].edge : i \in Resolved(outs, u)}
           B == {outs[i].ended[u] : i \in Ending(outs, u)}
<1>1. /\ Ending(outs, u) \in SUBSET (1..n) /\ Resolved(outs, u) \in SUBSET (1..n)
      /\ IsFiniteSet(1..n)
  BY FS_Interval DEF Ending, Resolved
<1>2. IsFiniteSet(Ending(outs, u)) /\ IsFiniteSet(Resolved(outs, u))
  BY <1>1, FS_Subset
<1>3. A = {f[i] : i \in Resolved(outs, u)} /\ B = {g[i] : i \in Ending(outs, u)}
  BY <1>1
<1>4. IsFiniteSet(A) /\ IsFiniteSet(B)
  <2> HIDE DEF A, B, f, g
  <2>1. QED
    BY <1>2, <1>3, FiniteImage
<1>5. Copies(outs, u) = A \cup B
  BY DEF Copies
<1>6. QED
  <2> HIDE DEF A, B
  <2>1. QED
    BY <1>4, <1>5, FS_Union

(* What becomes of an edge: it is kept, as it was or with an earlier end,  *)
(* or learnt by this call.                                                 *)
Kept(outs, u, f) ==
    /\ u \in DOMAIN seen /\ f \in Fact /\ Refines(f, seen[u])
    /\ \A i \in Ending(outs, u) :
          /\ f.invalid # NoTime
          /\ Cardinality(Copies(outs, u)) > 1 \/ f.invalid = outs[i].edge.valid

Learnt(outs, u, f) ==
    /\ f \in Fact /\ f.learnt = calls /\ (f.expired => f.invalid # NoTime)
    /\ \E i \in DOMAIN pending :
          IsNew(calls, pending[i], outs[i]) /\ outs[i].uuid = u /\ f = outs[i].edge

(* Every outcome of resolution is one or the other.                        *)
LEMMA Outcome ==
    ASSUME Inv, pending # <<>>, NEW outs, DOMAIN outs = DOMAIN pending,
           \A i \in DOMAIN pending : outs[i] \in Resolve(calls, pending[i]),
           NEW i \in DOMAIN pending
    PROVE  /\ pending[i] \in Extracted /\ outs[i].edge \in Fact
           /\ \/ IsKnown(outs[i]) /\ Refines(outs[i].edge, seen[outs[i].uuid])
              \/ /\ IsNew(calls, pending[i], outs[i]) /\ outs[i].edge.learnt = calls
                 /\ outs[i].edge.expired => outs[i].edge.invalid # NoTime
           /\ \A c \in DOMAIN outs[i].ended :
                /\ c \in DOMAIN seen /\ Invalidates(outs[i].edge, seen[c])
                /\ outs[i].ended[c] = Ended(seen[c], outs[i].edge.valid)
<1>1. TypeOK /\ Reading /\ Coherent(seen) /\ calls \in 1..MaxCalls
  <2>1. TypeOK /\ Reading
    BY DEF Inv
  <2>2. calls \in 1..MaxCalls
    BY <2>1, FactsAssumption DEF TypeOK, Reading
  <2>3. QED
    BY <2>1, <2>2 DEF Reading, Orderly
<1>2. pending[i] \in Extracted
  <2>1. PICK n \in Nat : DOMAIN pending = 1..n
    BY <1>1 DEF TypeOK
  <2>2. QED
    BY <1>1, <2>1, ElementOfSeq DEF TypeOK
<1>3. IsNew(calls, pending[i], outs[i]) \/ IsKnown(outs[i])
  BY <1>1, <1>2, ResolveYields DEF Reading
<1>4. CASE IsKnown(outs[i])
  <2>1. outs[i].edge \in Fact /\ Refines(outs[i].edge, seen[outs[i].uuid])
    BY <1>1, <1>4, KnownOutcome
  <2>2. outs[i].ended = NoFacts \/ \E K \in SUBSET DOMAIN seen : EndsAmong(outs[i], K)
    BY <1>4 DEF IsKnown
  <2>3. QED
    BY <1>2, <1>4, <2>1, <2>2, OutcomeEnds
<1>5. CASE IsNew(calls, pending[i], outs[i])
  <2>1. /\ outs[i].edge \in Fact /\ outs[i].edge.learnt = calls
        /\ outs[i].edge.expired => outs[i].edge.invalid # NoTime
    BY <1>1, <1>5, LearntOutcome
  <2>2. outs[i].ended = NoFacts \/ \E K \in SUBSET DOMAIN seen : EndsAmong(outs[i], K)
    BY <1>5 DEF IsNew
  <2>3. QED
    BY <1>2, <1>5, <2>1, <2>2, OutcomeEnds
<1>6. QED
  BY <1>3, <1>4, <1>5

LEMMA WinnerKeptOrLearnt ==
    ASSUME Inv, pending # <<>>, NEW outs, DOMAIN outs = DOMAIN pending,
           \A i \in DOMAIN pending : outs[i] \in Resolve(calls, pending[i]),
           NEW u \in Touched(outs)
    PROVE  Kept(outs, u, Winner(outs, u)) \/ Learnt(outs, u, Winner(outs, u))
<1>1. PICK n \in Nat : DOMAIN pending = 1..n
  BY DEF Inv, TypeOK
<1>2. ASSUME NEW i \in Ending(outs, u)
      PROVE  /\ u \in DOMAIN seen
             /\ outs[i].ended[u] \in Fact /\ Refines(outs[i].ended[u], seen[u])
             /\ outs[i].ended[u].invalid = outs[i].edge.valid
             /\ outs[i].ended[u].invalid # NoTime
  <2>1. i \in DOMAIN pending /\ u \in DOMAIN outs[i].ended
    BY DEF Ending
  <2>2. /\ outs[i].edge \in Fact /\ u \in DOMAIN seen /\ Invalidates(outs[i].edge, seen[u])
        /\ outs[i].ended[u] = Ended(seen[u], outs[i].edge.valid)
    BY <2>1, Outcome
  <2>3. PICK f \in Fact, e \in Fact : f = outs[i].edge /\ e = seen[u]
    BY <2>2 DEF Inv, TypeOK
  <2>4. QED
    BY <2>2, <2>3, EndedFact
<1>3. /\ Ending(outs, u) # {} =>
           \E i \in Ending(outs, u) : Winner(outs, u) = outs[i].ended[u]
      /\ Ending(outs, u) = {} =>
           \E i \in Resolved(outs, u) : Winner(outs, u) = outs[i].edge
      /\ Winner(outs, u) \in Copies(outs, u)
  BY <1>1, WinnerIsCopy
<1>4. CASE Ending(outs, u) # {}
  <2>1. /\ u \in DOMAIN seen /\ Winner(outs, u) \in Fact /\ Refines(Winner(outs, u), seen[u])
        /\ Winner(outs, u).invalid # NoTime
    BY <1>2, <1>3, <1>4
  <2>2. ASSUME NEW i \in Ending(outs, u), ~(Cardinality(Copies(outs, u)) > 1)
        PROVE  Winner(outs, u) = outs[i].ended[u]
    <3>1. outs[i].ended[u] \in Copies(outs, u)
      BY DEF Copies
    <3>2. IsFiniteSet(Copies(outs, u))
      BY <1>1, CopiesFinite
    <3>3. QED
      BY <1>3, <2>2, <3>1, <3>2, Single
  <2>3. QED
    BY <1>2, <2>1, <2>2 DEF Kept
<1>5. CASE Ending(outs, u) = {}
  <2>1. PICK i \in Resolved(outs, u) : Winner(outs, u) = outs[i].edge
    BY <1>3, <1>5
  <2>2. i \in DOMAIN pending /\ outs[i].uuid = u
    BY <2>1 DEF Resolved
  <2>3. CASE IsKnown(outs[i]) /\ Refines(outs[i].edge, seen[outs[i].uuid])
    BY <1>5, <2>1, <2>2, <2>3, Outcome DEF Kept, IsKnown
  <2>4. CASE /\ IsNew(calls, pending[i], outs[i]) /\ outs[i].edge.learnt = calls
             /\ outs[i].edge.expired => outs[i].edge.invalid # NoTime
    BY <2>1, <2>2, <2>4, Outcome DEF Learnt
  <2>5. QED
    BY <2>2, <2>3, <2>4, Outcome
<1>6. QED
  BY <1>4, <1>5

-----------------------------------------------------------------------------
(* The save query.                                                         *)

Saves(outs) ==
    /\ DOMAIN outs = DOMAIN pending
    /\ \A i \in DOMAIN pending : outs[i] \in Resolve(calls, pending[i])
    /\ DOMAIN facts' = DOMAIN facts \cup Touched(outs)
    /\ \A u \in DOMAIN facts' :
          facts'[u] = IF u \in Touched(outs) THEN Winner(outs, u) ELSE facts[u]
    /\ contested' = contested \cup
          {u \in Touched(outs) : Cardinality(Copies(outs, u)) > 1}

LEMMA SaveSaves ==
    ASSUME Save
    PROVE  \E outs : Saves(outs)
<1>1. PICK outs \in [DOMAIN pending -> UNION {Resolve(calls, pending[i]) : i \in DOMAIN pending}] :
        /\ \A i \in DOMAIN pending : outs[i] \in Resolve(calls, pending[i])
        /\ facts' =
             [u \in DOMAIN facts \cup Touched(outs) |->
                IF u \in Touched(outs) THEN Winner(outs, u) ELSE facts[u]]
        /\ contested' = contested \cup
             {u \in Touched(outs) : Cardinality(Copies(outs, u)) > 1}
  BY Zenon DEF Save
<1>2. DOMAIN outs = DOMAIN pending
  BY <1>1
<1>3. Saves(outs)
  BY <1>1, <1>2 DEF Saves
<1>4. QED
  BY <1>3

LEMMA SavedKeptOrLearnt ==
    ASSUME Inv, pending # <<>>, NEW outs, Saves(outs), NEW u \in DOMAIN facts'
    PROVE  /\ Kept(outs, u, facts'[u]) \/ Learnt(outs, u, facts'[u])
           /\ Ending(outs, u) # {} /\ Cardinality(Copies(outs, u)) > 1 => u \in contested'
<1>1. CASE u \in Touched(outs)
  <2>1. facts'[u] = Winner(outs, u)
    BY <1>1 DEF Saves
  <2>2. Cardinality(Copies(outs, u)) > 1 => u \in contested'
    BY <1>1 DEF Saves
  <2>3. DOMAIN outs = DOMAIN pending /\ \A i \in DOMAIN pending : outs[i] \in Resolve(calls, pending[i])
    BY DEF Saves
  <2>4. QED
    BY <1>1, <2>1, <2>2, <2>3, WinnerKeptOrLearnt
<1>2. CASE u \notin Touched(outs)
  <2>1. u \in DOMAIN facts /\ facts'[u] = facts[u]
    BY <1>2 DEF Saves
  <2>2. u \in DOMAIN seen /\ facts'[u] = seen[u] /\ seen[u] \in Fact
    BY <2>1 DEF Inv, Reading, TypeOK
  <2>3. Refines(seen[u], seen[u])
    BY <2>2, FactTypes DEF Refines
  <2>4. Ending(outs, u) = {}
    BY <1>2 DEF Ending, Touched
  <2>5. QED
    BY <2>2, <2>3, <2>4 DEF Kept
<1>3. QED
  BY <1>1, <1>2

(* A fact that is learnt and those that it contradicts.                    *)
LEMMA SavedAgainst ==
    ASSUME Inv, pending # <<>>, NEW outs, Saves(outs), NEW u, NEW f, Learnt(outs, u, f),
           NEW v \in DOMAIN seen, Contradict(f.text, seen[v].text)
    PROVE  /\ Precedes(f, seen[v]) =>
                f.invalid # NoTime /\ (f.invalid <= seen[v].valid \/ f.given)
           /\ Precedes(seen[v], f) =>
                \/ \E i \in Ending(outs, v) : outs[i].edge = f
                \/ seen[v].invalid # NoTime /\ seen[v].invalid <= f.valid
<1>1. PICK i \in DOMAIN pending : IsNew(calls, pending[i], outs[i]) /\ f = outs[i].edge
  BY DEF Learnt
<1>2. TypeOK /\ (pending[i].invalid # NoTime => pending[i].valid < pending[i].invalid)
  BY DEF Inv, Reading
<1>3. pending[i] \in Extracted
  BY Outcome DEF Saves
<1>4. ClaimOf[f.text] = ClaimOf[pending[i].text]
  BY <1>1, <1>2, LearntOutcome
<1>5. v \in Against(pending[i])
  BY <1>4 DEF Against, Contradict
<1>6. /\ Precedes(outs[i].edge, seen[v]) =>
           /\ outs[i].edge.invalid # NoTime
           /\ outs[i].edge.invalid <= seen[v].valid \/ outs[i].edge.given
      /\ Precedes(seen[v], outs[i].edge) =>
           \/ v \in DOMAIN outs[i].ended
           \/ seen[v].invalid # NoTime /\ seen[v].invalid <= outs[i].edge.valid
  BY <1>1, <1>2, <1>3, <1>5, NewOutcome
<1>7. v \in DOMAIN outs[i].ended => i \in Ending(outs, v)
  BY DEF Saves, Ending
<1>8. QED
  BY <1>1, <1>6, <1>7

LEMMA SavedOrderly ==
    ASSUME Inv, pending # <<>>, NEW outs, Saves(outs),
           NEW u \in DOMAIN facts', NEW v \in DOMAIN facts', Opposite(facts', u, v)
    PROVE  /\ facts'[u].invalid # NoTime
           /\ u \notin contested' =>
                \/ facts'[u].invalid <= facts'[v].valid
                \/ facts'[v].learnt < facts'[u].learnt /\ facts'[u].given
<1> DEFINE f == facts'[u]
           g == facts'[v]
           d == seen[u]
           e == seen[v]
<1>0. /\ TypeOK /\ Reading /\ contested \subseteq contested'
      /\ f.learnt # g.learnt /\ Contradict(f.text, g.text) /\ Precedes(f, g)
  BY DEF Inv, Saves, Opposite
<1>1. f \in Fact /\ g \in Fact /\ (\A w \in DOMAIN seen : seen[w] \in Fact)
  BY <1>0, SavedKeptOrLearnt DEF Kept, Learnt, TypeOK
<1> HIDE DEF f, g, d, e
<1>2. CASE Kept(outs, u, f) /\ Kept(outs, v, g)
  <2>1. /\ u \in DOMAIN seen /\ v \in DOMAIN seen /\ d \in Fact /\ e \in Fact
        /\ Refines(f, d) /\ Refines(g, e)
    BY <1>1, <1>2 DEF Kept, d, e
  <2>2. d.learnt # e.learnt /\ Contradict(d.text, e.text) /\ Precedes(d, e)
    BY <1>0, <2>1 DEF Precedes, Refines
  <2>3. /\ d.invalid # NoTime
        /\ u \notin contested => d.invalid <= e.valid \/ (e.learnt < d.learnt /\ d.given)
    BY <1>0, <2>1, <2>2 DEF Reading, Orderly, Opposite, d, e
  <2>4. /\ f.invalid # NoTime /\ f.invalid <= d.invalid /\ f.given = d.given
        /\ g.valid = e.valid /\ f.learnt = d.learnt /\ g.learnt = e.learnt
    BY <2>1, <2>3 DEF Refines
  <2>5. f.invalid \in Nat /\ d.invalid \in Nat /\ e.valid \in Nat
    BY <1>1, <2>1, FactTypes
  <2>6. d.invalid <= e.valid => f.invalid <= g.valid
    BY <2>4, <2>5
  <2>7. QED
    BY <1>0, <2>3, <2>4, <2>6 DEF f, g
<1>3. CASE Learnt(outs, u, f) /\ Kept(outs, v, g)
  <2>1. v \in DOMAIN seen /\ e \in Fact /\ Refines(g, e) /\ f.learnt = calls /\ e.learnt < calls
    BY <1>0, <1>1, <1>3 DEF Kept, Learnt, Reading, e
  <2>2. Precedes(f, e) /\ g.valid = e.valid /\ g.learnt = e.learnt /\ Contradict(f.text, e.text)
    BY <1>0, <2>1 DEF Precedes, Refines
  <2>3. f.invalid # NoTime /\ (f.invalid <= e.valid \/ f.given)
    BY <1>3, <2>1, <2>2, SavedAgainst DEF e
  <2>4. QED
    BY <2>1, <2>2, <2>3 DEF f, g
<1>4. CASE Kept(outs, u, f) /\ Learnt(outs, v, g)
  <2>1. u \in DOMAIN seen /\ d \in Fact /\ Refines(f, d)
    BY <1>1, <1>4 DEF Kept, d
  <2>2. Precedes(d, g) /\ Contradict(g.text, d.text)
    <3>1. Precedes(d, g) /\ Contradict(d.text, g.text)
      BY <1>0, <2>1 DEF Precedes, Refines
    <3>2. d.text \in Texts /\ g.text \in Texts
      BY <1>1, <2>1, LearntTypes
    <3>3. QED
      BY <3>1, <3>2, Mutual
  <2>3. \/ \E i \in Ending(outs, u) : outs[i].edge = g
        \/ d.invalid # NoTime /\ d.invalid <= g.valid
    BY <1>4, <2>1, <2>2, SavedAgainst DEF d
  <2>4. f.invalid \in Nat /\ d.invalid \in Nat /\ g.valid \in Nat
    BY <1>1, <2>1, FactTypes
  <2>5. ASSUME NEW i \in Ending(outs, u), outs[i].edge = g
        PROVE  f.invalid # NoTime /\ (u \in contested' \/ f.invalid = g.valid)
    BY <1>4, <2>5, SavedKeptOrLearnt DEF Kept
  <2>6. CASE \E i \in Ending(outs, u) : outs[i].edge = g
    BY <2>4, <2>5, <2>6 DEF f, g
  <2>7. CASE d.invalid # NoTime /\ d.invalid <= g.valid
    <3>1. f.invalid # NoTime /\ f.invalid <= d.invalid
      BY <2>1, <2>7 DEF Refines
    <3>2. QED
      BY <2>4, <2>7, <3>1 DEF f, g
  <2>8. QED
    BY <2>3, <2>6, <2>7
<1>5. CASE Learnt(outs, u, f) /\ Learnt(outs, v, g)
  BY <1>0, <1>5 DEF Learnt
<1>6. QED
  <2>1. Kept(outs, u, f) \/ Learnt(outs, u, f)
    BY SavedKeptOrLearnt DEF f
  <2>2. Kept(outs, v, g) \/ Learnt(outs, v, g)
    BY SavedKeptOrLearnt DEF g
  <2>3. QED
    BY <1>2, <1>3, <1>4, <1>5, <2>1, <2>2

(* An edge that is learnt has a uuid of this call, or the one it brought.  *)
LEMMA LearntUuid ==
    ASSUME Inv, pending # <<>>, NEW outs, Saves(outs), NEW u, NEW f, Learnt(outs, u, f)
    PROVE  /\ u \in Uuids /\ u[1] <= calls
           /\ u \in DOMAIN seen => u = updating
<1>1. PICK i \in DOMAIN pending : IsNew(calls, pending[i], outs[i]) /\ outs[i].uuid = u
  BY DEF Learnt
<1>2. pending[i] \in Extracted
  BY Outcome DEF Saves
<1>3. TypeOK /\ Reading /\ calls \in 1..MaxCalls
  BY FactsAssumption DEF Inv, TypeOK, Reading
<1>4. CASE u = <<calls, pending[i].text>>
  <2>1. u \in Uuids /\ u[1] = calls
    BY <1>2, <1>3, <1>4 DEF Uuids, Extracted
  <2>2. u \notin DOMAIN seen
    BY <1>3, <2>1 DEF Reading
  <2>3. QED
    BY <1>3, <2>1, <2>2
<1>5. CASE u = updating /\ updating \in DOMAIN seen
  <2>1. u \in Uuids /\ u[1] < calls
    BY <1>3, <1>5 DEF TypeOK, Reading
  <2>2. QED
    BY <1>3, <1>5, <2>1, UuidTypes
<1>6. QED
  BY <1>1, <1>4, <1>5 DEF IsNew

LEMMA SaveInv ==
    ASSUME Inv, Save
    PROVE  Inv'
<1>1. /\ pending # <<>> /\ pending' = <<>> /\ seen' = NoFacts /\ updating' = NoUuid
      /\ UNCHANGED <<calls, extracted, deletions>>
  BY DEF Save
<1>2. PICK outs : Saves(outs)
  BY SaveSaves
<1>3. TypeOK /\ Reading /\ calls \in Nat
  BY <1>1 DEF Inv, TypeOK
<1>4. ASSUME NEW u \in DOMAIN facts'
      PROVE  /\ u \in Uuids /\ facts'[u] \in Fact /\ u[1] <= calls /\ facts'[u].learnt <= calls
             /\ facts'[u].expired => facts'[u].invalid # NoTime
  <2>1. CASE Kept(outs, u, facts'[u])
    <3>1. PICK e \in Fact : e = seen[u] /\ u \in DOMAIN seen /\ u \in Uuids
      BY <1>3, <2>1 DEF Kept, TypeOK
    <3>2. facts'[u] \in Fact /\ Refines(facts'[u], e)
      BY <2>1, <3>1 DEF Kept
    <3>3. u[1] < calls /\ e.learnt < calls /\ (e.expired => e.invalid # NoTime)
      BY <1>3, <3>1 DEF Reading, Orderly, Coherent
    <3>4. e.learnt \in Nat /\ u[1] \in Nat
      BY <3>1, LearntTypes, UuidTypes
    <3>5. QED
      BY <1>3, <3>1, <3>2, <3>3, <3>4 DEF Refines
  <2>2. CASE Learnt(outs, u, facts'[u])
    BY <1>1, <1>2, <1>3, <2>2, LearntUuid DEF Learnt
  <2>3. QED
    BY <1>1, <1>2, <2>1, <2>2, SavedKeptOrLearnt
<1>5. contested' \subseteq Uuids
  <2>1. Touched(outs) \subseteq DOMAIN facts'
    BY <1>2 DEF Saves
  <2>2. QED
    BY <1>2, <1>3, <1>4, <2>1 DEF Saves, TypeOK
<1>6. TypeOK'
  BY <1>1, <1>3, <1>4, <1>5 DEF TypeOK, NoFacts
<1>7. Orderly(facts)'
  BY <1>1, <1>2, <1>4, SavedOrderly DEF Orderly, Coherent, Opposite, Contradict, Precedes
<1>8. QED
  BY <1>1, <1>4, <1>6, <1>7 DEF Inv

-----------------------------------------------------------------------------
(* The other steps.                                                        *)

LEMMA BeginInv ==
    ASSUME Inv, Begin
    PROVE  Inv'
<1>1. PICK k \in 1..(MaxFacts - extracted) : \E xs \in [1..k -> Extracted] :
        /\ \A i \in 1..k : xs[i].invalid # NoTime => xs[i].valid < xs[i].invalid
        /\ pending' = xs
        /\ updating' \in {NoUuid} \cup (IF k = 1 THEN DOMAIN facts ELSE {})
        /\ extracted' = extracted + k
  BY DEF Begin
<1>2. /\ calls < MaxCalls /\ calls' = calls + 1 /\ seen' = facts
      /\ UNCHANGED <<facts, deletions, contested>>
  BY DEF Begin
<1>3. TypeOK /\ calls \in Nat /\ extracted \in Nat /\ k \in Nat
  BY DEF Inv, TypeOK
<1>4. /\ pending' \in [1..k -> Extracted] /\ extracted' = extracted + k
      /\ updating' \in {NoUuid} \cup DOMAIN facts
      /\ \A i \in 1..k : pending'[i].invalid # NoTime => pending'[i].valid < pending'[i].invalid
  BY <1>1
<1>5. pending' \in Seq(Extracted) /\ DOMAIN pending' = 1..k
  BY <1>3, <1>4, SeqDef
<1>6. TypeOK'
  BY <1>2, <1>3, <1>4, <1>5, FactsAssumption DEF TypeOK
<1>7. \A u \in DOMAIN facts : /\ u[1] <= calls /\ u[1] \in Nat
                              /\ facts[u].learnt <= calls /\ facts[u].learnt \in Nat
  BY <1>3, UuidTypes, LearntTypes DEF Inv, TypeOK
<1>8. Orderly(facts)' /\ Orderly(seen)'
  BY <1>2 DEF Inv, Orderly, Coherent, Opposite, Contradict, Precedes
<1>9. Reading'
  BY <1>2, <1>3, <1>4, <1>5, <1>7, <1>8 DEF Reading
<1>10. QED
  BY <1>2, <1>3, <1>6, <1>7, <1>8, <1>9 DEF Inv

LEMMA FailInv ==
    ASSUME Inv, Fail
    PROVE  Inv'
<1>1. /\ pending' = <<>> /\ seen' = NoFacts /\ updating' = NoUuid
      /\ UNCHANGED <<facts, calls, extracted, deletions, contested>>
  BY DEF Fail
<1>2. TypeOK'
  BY <1>1 DEF Inv, TypeOK, NoFacts
<1>3. Orderly(facts)'
  BY <1>1 DEF Inv, Orderly, Coherent, Opposite, Contradict, Precedes
<1>4. QED
  BY <1>1, <1>2, <1>3 DEF Inv

(* What is left after a deletion is as orderly as it was, and still what   *)
(* the call under way has read.                                            *)
LEMMA RemoveEpisodeInv ==
    ASSUME Inv, NEW n \in 1..MaxCalls, RemoveEpisode(n)
    PROVE  Inv'
<1>1. /\ DOMAIN facts' \subseteq DOMAIN facts
      /\ \A u \in DOMAIN facts' : facts'[u] = facts[u]
      /\ deletions < MaxDeletions /\ deletions' = deletions + 1
      /\ UNCHANGED <<calls, pending, updating, seen, extracted, contested>>
  BY DEF RemoveEpisode
<1>2. TypeOK'
  BY <1>1, FactsAssumption DEF Inv, TypeOK
<1>3. Orderly(facts)'
  BY <1>1 DEF Inv, Orderly, Coherent, Opposite, Contradict, Precedes
<1>4. Orderly(seen)' <=> Orderly(seen)
  BY <1>1 DEF Orderly, Coherent, Opposite, Contradict, Precedes
<1>5. Reading => Reading'
  BY <1>1, <1>4 DEF Reading
<1>6. QED
  BY <1>1, <1>2, <1>3, <1>5 DEF Inv

-----------------------------------------------------------------------------
(* The theorems.                                                           *)

LEMMA InitInv == Init => Inv
<1> SUFFICES ASSUME Init PROVE Inv
  OBVIOUS
<1>1. DOMAIN facts = {} /\ DOMAIN seen = {} /\ pending = <<>>
  BY DEF Init, NoFacts
<1>2. TypeOK
  BY <1>1, FactsAssumption, EmptySeq DEF Init, TypeOK
<1>3. QED
  BY <1>1, <1>2 DEF Inv, Orderly, Coherent

LEMMA NextInv == Inv /\ [Next]_vars => Inv'
<1> SUFFICES ASSUME Inv, [Next]_vars PROVE Inv'
  OBVIOUS
<1>1. CASE Begin
  BY <1>1, BeginInv
<1>2. CASE Save
  BY <1>2, SaveInv
<1>3. CASE Fail
  BY <1>3, FailInv
<1>4. ASSUME NEW n \in 1..MaxCalls, RemoveEpisode(n) PROVE Inv'
  BY <1>4, RemoveEpisodeInv
<1>5. CASE UNCHANGED vars
  BY <1>5 DEF vars, Inv, TypeOK, Reading, Orderly, Coherent, Opposite, Contradict, Precedes
<1>6. QED
  BY <1>1, <1>2, <1>3, <1>4, <1>5 DEF Next

(* The inductive invariant holds in every reachable state.                 *)
THEOREM InvHolds == Spec => []Inv
<1>1. Init => Inv
  BY InitInv
<1>2. Inv /\ [Next]_vars => Inv'
  BY NextInv
<1>3. QED
  BY <1>1, <1>2, PTL DEF Spec

(* Every variable keeps its type.                                          *)
THEOREM TypeCorrect == Spec => []TypeOK
BY InvHolds, PTL DEF Inv

(* Of two contradictory facts of different calls the one that begins       *)
(* earlier has an end, in whatever order the calls came, whatever each of  *)
(* them known, ended, repeated or saved in several copies.                 *)
THEOREM CurrentAgree == Spec => []CurrentFactsAgree
<1>1. Inv => CurrentFactsAgree
  BY DEF Inv, Orderly, Opposite, CurrentFactsAgree, Rivals
<1>2. QED
  BY <1>1, InvHolds, PTL

(* Its end is no later than the beginning of the other, unless its own     *)
(* text gave a later one and it was learnt second.                         *)
THEOREM Timelines == Spec => []TimelinesDisjoint
<1>1. Inv => TimelinesDisjoint
  BY DEF Inv, Orderly, Opposite, TimelinesDisjoint, Rivals
<1>2. QED
  BY <1>1, InvHolds, PTL

(* No call removes the end of an edge or moves it to a later time, but for *)
(* a triplet that writes its fact over the edge whose uuid it brought.     *)
THEOREM EndsMoveEarlier == Spec => EndsOnlyMoveEarlier
<1>1. ASSUME Inv, [Next]_vars, NEW u \in DOMAIN facts \cap DOMAIN facts',
             facts[u].invalid # NoTime
      PROVE  \/ u = updating /\ facts'[u].learnt = calls
             \/ facts'[u].invalid # NoTime /\ facts'[u].invalid <= facts[u].invalid
  <2>1. facts[u] \in Fact /\ facts[u].invalid \in Nat
    BY <1>1, FactTypes DEF Inv, TypeOK
  <2>2. CASE Save
    <3>1. PICK outs : Saves(outs)
      BY <2>2, SaveSaves
    <3>2. pending # <<>> /\ u \in DOMAIN seen /\ facts[u] = seen[u]
      BY <1>1, <2>2 DEF Save, Inv, Reading
    <3>3. CASE Kept(outs, u, facts'[u])
      BY <1>1, <3>2, <3>3 DEF Kept, Refines
    <3>4. CASE Learnt(outs, u, facts'[u])
      <4>1. u = updating
        BY <1>1, <3>1, <3>2, <3>4, LearntUuid
      <4>2. QED
        BY <3>4, <4>1 DEF Learnt
    <3>5. QED
      BY <1>1, <3>1, <3>2, <3>3, <3>4, SavedKeptOrLearnt
  <2>3. CASE ~Save
    <3>1. facts'[u] = facts[u]
      BY <1>1, <2>3 DEF Next, Begin, Fail, RemoveEpisode, vars
    <3>2. QED
      BY <1>1, <2>1, <3>1
  <2>4. QED
    BY <2>2, <2>3
<1>2. Inv /\ [Next]_vars =>
        [\A u \in DOMAIN facts \cap DOMAIN facts' :
           facts[u].invalid # NoTime =>
              \/ u = updating /\ facts'[u].learnt = calls
              \/ /\ facts'[u].invalid # NoTime
                 /\ facts'[u].invalid <= facts[u].invalid]_vars
  BY <1>1
<1>3. QED
  BY <1>2, InvHolds, PTL DEF Spec, EndsOnlyMoveEarlier

-----------------------------------------------------------------------------
(* A batch of episodes, whose facts and entities are merged among          *)
(* themselves: proofs about BulkEpisodes.                                  *)

(* A set of numbers with 0 and every successor is all of them.             *)
LEMMA Successors ==
    ASSUME NEW T, 0 \in T, \A n \in Nat : n \in T => n + 1 \in T
    PROVE  Nat \subseteq T
<1>1. SUFFICES ASSUME Nat \ T # {} PROVE FALSE
  OBVIOUS
<1>2. PICK x \in Nat \ T : \A y \in Nat \ T : ~(<<y, x>> \in OpToRel(<, Nat))
  <2>1. Nat \ T \subseteq Nat
    OBVIOUS
  <2>2. QED
    BY <1>1, <2>1, WFMin, NatLessThanWellFounded
<1>3. x # 0 /\ x - 1 \in Nat /\ x - 1 < x /\ (x - 1) + 1 = x
  OBVIOUS
<1>4. x - 1 \in T
  BY <1>2, <1>3 DEF OpToRel
<1>5. x \in T
  BY <1>3, <1>4
<1>6. QED
  BY <1>5


LEMMA Concatenated ==
    ASSUME NEW S, NEW a \in Seq(S), NEW b \in Seq(S)
    PROVE  a \o b \in Seq(S) /\ Members(a \o b) = Members(a) \cup Members(b)
<1>1. /\ a \o b \in Seq(S) /\ Len(a \o b) = Len(a) + Len(b)
      /\ Len(a) \in Nat /\ Len(b) \in Nat
      /\ DOMAIN a = 1..Len(a) /\ DOMAIN b = 1..Len(b) /\ DOMAIN (a \o b) = 1..Len(a \o b)
  BY ConcatProperties, LenProperties
<1>2. \A i \in 1..Len(a) + Len(b) :
         (a \o b)[i] = IF i <= Len(a) THEN a[i] ELSE b[i - Len(a)]
  BY <1>1, ConcatProperties
<1>3. \A i \in 1..Len(a) : i \in DOMAIN (a \o b) /\ (a \o b)[i] = a[i]
  BY <1>1, <1>2
<1>4. \A i \in 1..Len(b) : Len(a) + i \in DOMAIN (a \o b) /\ (a \o b)[Len(a) + i] = b[i]
  <2> TAKE i \in 1..Len(b)
  <2>1. Len(a) + i \in 1..Len(a) + Len(b) /\ ~(Len(a) + i <= Len(a)) /\ Len(a) + i - Len(a) = i
    BY <1>1
  <2>2. QED
    BY <1>1, <1>2, <2>1
<1>5. \A i \in DOMAIN (a \o b) : (a \o b)[i] \in Members(a) \cup Members(b)
  <2> TAKE i \in DOMAIN (a \o b)
  <2>1. CASE i <= Len(a)
    BY <1>1, <1>2, <2>1 DEF Members
  <2>2. CASE ~(i <= Len(a))
    <3>1. i - Len(a) \in 1..Len(b)
      BY <1>1, <2>2
    <3>2. QED
      BY <1>1, <1>2, <2>2, <3>1 DEF Members
  <2>3. QED
    BY <2>1, <2>2
<1>6. \A x \in Members(a) \cup Members(b) : x \in Members(a \o b)
  BY <1>1, <1>3, <1>4 DEF Members
<1>7. QED
  BY <1>1, <1>5, <1>6 DEF Members

(* Lists put one after the other hold what they held.                      *)
LEMMA Flattened ==
    ASSUME NEW S, NEW n \in Nat, NEW ss \in [1..n -> Seq(S)]
    PROVE  /\ FlattenSeq(ss) \in Seq(S)
           /\ Members(FlattenSeq(ss)) = UNION {Members(ss[i]) : i \in 1..n}
<1> DEFINE Fits(f, m) == f = [i \in 1..m |-> IF i = 1 THEN ss[i] ELSE f[i - 1] \o ss[i]]
           Holds(f, m) == /\ f[m] \in Seq(S)
                          /\ Members(f[m]) = UNION {Members(ss[i]) : i \in 1..m}
<1>1. CASE n = 0
  <2>1. ss = <<>> /\ Len(ss) = 0
    BY <1>1
  <2>2. FlattenSeq(ss) = <<>>
    BY <2>1 DEF FlattenSeq
  <2>3. QED
    BY <1>1, <2>2 DEF Members
<1>2. ASSUME NEW f, NEW m \in 1..n, Fits(f, m)
      PROVE  \A k \in 1..m : Holds(f, k)
  <2> DEFINE T == {k \in Nat : k \in 1..m => Holds(f, k)}
  <2>1. ASSUME NEW k \in Nat, k \in T, k + 1 \in 1..m PROVE Holds(f, k + 1)
    <3>1. CASE k = 0
      <4>1. f[1] = ss[1] /\ ss[1] \in Seq(S) /\ 1..1 = {1}
        BY <1>2, <2>1, <3>1
      <4>2. QED
        BY <4>1, <3>1
    <3>2. CASE k # 0
      <4>1. k \in 1..m /\ k + 1 \in 1..n /\ (k + 1) - 1 = k /\ k + 1 # 1
        BY <2>1, <3>2
      <4>2. f[k + 1] = f[k] \o ss[k + 1] /\ ss[k + 1] \in Seq(S)
        BY <1>2, <2>1, <4>1
      <4>3. Holds(f, k)
        BY <2>1, <4>1
      <4>4. Members(f[k + 1]) = Members(f[k]) \cup Members(ss[k + 1]) /\ f[k + 1] \in Seq(S)
        BY <4>2, <4>3, Concatenated
      <4>5. 1..(k + 1) = (1..k) \cup {k + 1}
        BY <4>1
      <4>6. QED
        BY <4>3, <4>4, <4>5
    <3>3. QED
      BY <3>1, <3>2
  <2>2. 0 \in T /\ \A k \in Nat : k \in T => k + 1 \in T
    <3> HIDE DEF Holds
    <3>1. QED
      BY <2>1
  <2>3. Nat \subseteq T
    <3> HIDE DEF T
    <3>1. QED
      BY <2>2, Successors
  <2>4. QED
    <3> HIDE DEF Holds
    <3>1. QED
      BY <2>3
<1>3. ASSUME NEW m \in Nat, m + 1 \in 1..n, m = 0 \/ \E f : Fits(f, m)
      PROVE  \E f : Fits(f, m + 1)
  <2>1. CASE m = 0
    <3> DEFINE h == [i \in 1..1 |-> ss[i]]
    <3>1. Fits(h, m + 1)
      BY <2>1
    <3>2. QED
      <4> HIDE DEF h, Fits
      <4>1. QED
        BY <3>1
  <2>2. CASE m # 0
    <3>1. PICK f : Fits(f, m)
      BY <1>3, <2>2
    <3> DEFINE g == [i \in 1..(m + 1) |-> IF i = m + 1 THEN f[m] \o ss[m + 1] ELSE f[i]]
    <3>2. ASSUME NEW i \in 1..(m + 1)
          PROVE  g[i] = IF i = 1 THEN ss[i] ELSE g[i - 1] \o ss[i]
      <4>1. CASE i = m + 1
        <5>1. g[m] = f[m] /\ i # 1 /\ i - 1 = m
          BY <4>1, <2>2
        <5>2. QED
          BY <5>1, <4>1
      <4>2. CASE i # m + 1
        <5>1. i \in 1..m /\ g[i] = f[i]
          BY <4>2
        <5>2. i # 1 => i - 1 \in 1..m /\ g[i - 1] = f[i - 1]
          BY <5>1
        <5>3. f[i] = IF i = 1 THEN ss[i] ELSE f[i - 1] \o ss[i]
          BY <3>1, <5>1
        <5>4. QED
          BY <5>1, <5>2, <5>3
      <4>3. QED
        BY <4>1, <4>2
    <3>3. Fits(g, m + 1)
      <4>1. g = [i \in 1..(m + 1) |-> g[i]]
        OBVIOUS
      <4> HIDE DEF g
      <4>2. QED
        BY <3>2, <4>1
    <3>4. QED
      BY <3>3
  <2>3. QED
    BY <2>1, <2>2
<1>4. CASE n # 0
  <2> DEFINE T == {m \in Nat : m \in 1..n => \E f : Fits(f, m)}
  <2>1. 0 \in T /\ \A m \in Nat : m \in T => m + 1 \in T
    <3> HIDE DEF Fits
    <3>1. 0 \in T
      OBVIOUS
    <3>2. ASSUME NEW m \in Nat, m \in T PROVE m + 1 \in T
      <4>1. m + 1 \in 1..n => m = 0 \/ m \in 1..n
        OBVIOUS
      <4>2. m \in 1..n => \E f : Fits(f, m)
        BY <3>2
      <4>3. m + 1 \in 1..n => \E f : Fits(f, m + 1)
        BY <4>1, <4>2, <1>3
      <4>4. QED
        BY <4>3
    <3>3. QED
      BY <3>1, <3>2
  <2>2. Nat \subseteq T
    <3> HIDE DEF T
    <3>1. QED
      BY <2>1, Successors
  <2>3. \E f : Fits(f, n)
    <3> HIDE DEF Fits
    <3>1. n \in 1..n
      BY <1>4
    <3>2. QED
      BY <2>2, <3>1
  <2> DEFINE F == CHOOSE f : Fits(f, n)
  <2>4. Fits(F, n)
    <3> HIDE DEF Fits
    <3>1. QED
      BY <2>3
  <2>5. Len(ss) = n
    OBVIOUS
  <2>6. FlattenSeq(ss) = F[n]
    BY <2>5, <1>4 DEF FlattenSeq
  <2>7. n \in 1..n
    BY <1>4
  <2>8. Holds(F, n)
    <3> HIDE DEF F, Holds, Fits
    <3>1. QED
      BY <2>4, <2>7, <1>2
  <2>9. QED
    <3> HIDE DEF F
    <3>1. QED
      BY <2>6, <2>8
<1>5. QED
  BY <1>1, <1>4
-----------------------------------------------------------------------------
(* The invariant.                                                          *)

All == UNION {Members(found[i]) : i \in Episodes}
Flat == FlattenSeq(found)
Compared == {Flat[k] : k \in 1..(at - 1)}

(* An entity that was compared is one with the entity kept of its name; or *)
(* none is kept of its name, and it is one with a kept one of like name.   *)
Placed(u) ==
    \/ \E c \in pool : NameOf(c) = NameOf(u) /\ rep[u] = rep[c]
    \/ /\ \A d \in pool : NameOf(d) # NameOf(u)
       /\ \E c \in pool : /\ <<NameOf(u), NameOf(c)>> \in Resembles
                          /\ rep[u] = rep[c]

(* No two names are kept twice, what stands for a kept entity is kept, and *)
(* an entity not compared yet stands for itself.                           *)
PoolSound ==
    /\ pool \subseteq Compared
    /\ \A c, d \in pool : NameOf(c) = NameOf(d) => c = d
    /\ \A c \in pool : rep[c] \in pool
    /\ \A u \in Compared : Placed(u)
    /\ \A u \in All : u \notin Compared => rep[u] = u

(* Both ends of a fact are one with a resolved entity.                     *)
EndsResolved ==
    \A f \in edges : \E u, v \in All : rep[ends[f][1]] = rep[u] /\ rep[ends[f][2]] = rep[v]

EndsMentioned ==
    \A f \in edges :
        {ends[f][1], ends[f][2]} \subseteq UNION {mentions[i] : i \in Episodes}

BulkInv ==
    /\ BulkTypeOK /\ IsFiniteSet(edges)
    /\ phase \in {"extract", "lookup"} =>
          rep = [u \in Entities |-> u] /\ pool = {} /\ at = 1
    /\ phase = "lookup" =>
          /\ All \subseteq ExtractedNodes
          /\ \A f \in edges : {ends[f][1], ends[f][2]} \subseteq All
    /\ phase = "compare" => at \in 1..(Len(Flat) + 1) /\ PoolSound /\ EndsResolved
    /\ phase \in {"merge", "again"} => EndsMentioned
    /\ NamesakesMerged /\ EndpointsSaved

-----------------------------------------------------------------------------
(* What the definitions say.                                               *)

LEMMA FlatHolds ==
    ASSUME BulkAssumption, found \in [Episodes -> Seq(Entities)]
    PROVE  /\ Flat \in Seq(Entities) /\ Len(Flat) \in Nat
           /\ All = {Flat[k] : k \in 1..Len(Flat)}
           /\ All \subseteq Entities
<1>1. NEpisodes \in Nat /\ Episodes = 1..NEpisodes
  BY DEF BulkAssumption, Episodes
<1>2. Flat \in Seq(Entities) /\ Members(Flat) = All
  BY <1>1, Flattened DEF Flat, All
<1>3. Len(Flat) \in Nat /\ DOMAIN Flat = 1..Len(Flat) /\ \A k \in 1..Len(Flat) : Flat[k] \in Entities
  BY <1>2, LenProperties, ElementOfSeq
<1>4. QED
  BY <1>2, <1>3 DEF Members

LEMMA NamesKnown ==
    ASSUME BulkAssumption, NEW u \in Entities
    PROVE  NameOf(u) \in Names
BY DEF BulkAssumption, Entities, ExtractedNodes, NameOf

(* The list of an episode holds entities of that episode.                  *)
LEMMA ListsHold ==
    ASSUME BulkAssumption, NEW i \in Episodes, NEW s \in Lists(i)
    PROVE  s \in Seq(ExtractedNodes) /\ Members(s) \subseteq ExtractedNodes
<1>1. Cardinality(Mentionable) \in Nat
  BY FS_CardinalityType DEF BulkAssumption
<1>2. PICK k \in 0..Cardinality(Mentionable) : s \in [1..k -> {i} \X Mentionable]
  BY DEF Lists
<1>3. {i} \X Mentionable \subseteq ExtractedNodes
  BY DEF ExtractedNodes
<1>4. k \in Nat /\ s \in [1..k -> ExtractedNodes]
  BY <1>1, <1>2, <1>3
<1>5. QED
  BY <1>4 DEF Members

-----------------------------------------------------------------------------
(* Extraction and the first lookup.                                        *)

LEMMA ExtractInv ==
    ASSUME BulkAssumption, BulkInv, Extract
    PROVE  BulkInv'
<1>1. PICK lists \in [Episodes -> UNION {Lists(i) : i \in Episodes}] :
          /\ \A i \in Episodes : lists[i] \in Lists(i)
          /\ found' = lists
          /\ \E F \in SUBSET {f \in Edge :
                        {<<f.episode, f.from>>, <<f.episode, f.to>>}
                            \subseteq Members(lists[f.episode]) /\ f.from # f.to} :
                /\ IsFiniteSet(F)
                /\ edges' = F
                /\ ends' = [f \in F |-> <<<<f.episode, f.from>>, <<f.episode, f.to>>>>]
                /\ kept' = [f \in F |-> f]
  BY DEF Extract
<1>2. /\ phase = "extract" /\ phase' = "lookup"
      /\ UNCHANGED <<rep, pool, at, mentions, saved>>
  BY DEF Extract
<1>3. PICK F \in SUBSET {f \in Edge :
                  {<<f.episode, f.from>>, <<f.episode, f.to>>}
                      \subseteq Members(lists[f.episode]) /\ f.from # f.to} :
          /\ IsFiniteSet(F)
          /\ edges' = F
          /\ ends' = [f \in F |-> <<<<f.episode, f.from>>, <<f.episode, f.to>>>>]
          /\ kept' = [f \in F |-> f]
  BY <1>1
<1>4. \A i \in Episodes :
         lists[i] \in Seq(ExtractedNodes) /\ Members(lists[i]) \subseteq ExtractedNodes
  BY <1>1, ListsHold
<1>5. ExtractedNodes \subseteq Entities /\ Seq(ExtractedNodes) \subseteq Seq(Entities)
  BY DEF Entities
<1>6. found' \in [Episodes -> Seq(Entities)]
  BY <1>1, <1>4, <1>5
<1>7. All' \subseteq ExtractedNodes
  BY <1>1, <1>4 DEF All
<1>8. \A f \in edges' : /\ f \in Edge
                        /\ ends'[f] = <<<<f.episode, f.from>>, <<f.episode, f.to>>>>
                        /\ {ends'[f][1], ends'[f][2]} \subseteq All'
  <2> TAKE f \in edges'
  <2>1. f \in Edge /\ f.episode \in Episodes
    BY <1>3 DEF Edge
  <2>2. ends'[f] = <<<<f.episode, f.from>>, <<f.episode, f.to>>>>
    BY <1>3
  <2>3. {<<f.episode, f.from>>, <<f.episode, f.to>>} \subseteq Members(found'[f.episode])
    BY <1>1, <1>3
  <2>4. QED
    BY <2>1, <2>2, <2>3 DEF All
<1>9. \A f \in edges' : ends'[f] \in Entities \X Entities
  BY <1>5, <1>7, <1>8
<1>10. BulkTypeOK'
  <2>1. edges' \subseteq Edge /\ kept' \in [edges' -> edges']
    BY <1>3
  <2>2. ends' \in [edges' -> Entities \X Entities]
    BY <1>3, <1>9
  <2>3. QED
    BY <1>2, <1>6, <2>1, <2>2 DEF BulkTypeOK, BulkInv, Phases
<1>11. IsFiniteSet(edges')
  BY <1>3
<1>12. QED
  BY <1>2, <1>7, <1>8, <1>10, <1>11 DEF BulkInv, NamesakesMerged, EndpointsSaved

LEMMA LookupInv ==
    ASSUME BulkAssumption, BulkInv, Lookup
    PROVE  BulkInv'
<1>1. PICK chosen \in [UNION {Members(found[i]) : i \in Episodes} -> Entities] :
          /\ \A u \in DOMAIN chosen : chosen[u] \in Stored \cup {u}
          /\ found' = [i \in Episodes |->
                [k \in DOMAIN found[i] |-> chosen[found[i][k]]]]
          /\ rep' = [u \in Entities |-> IF u \in DOMAIN chosen THEN chosen[u] ELSE u]
  BY DEF Lookup
<1>2. /\ phase = "lookup" /\ phase' = "compare"
      /\ UNCHANGED <<edges, ends, pool, at, kept, mentions, saved>>
  BY DEF Lookup
<1>3. /\ BulkTypeOK /\ IsFiniteSet(edges)
      /\ rep = [u \in Entities |-> u] /\ pool = {} /\ at = 1
      /\ All \subseteq ExtractedNodes
      /\ \A f \in edges : {ends[f][1], ends[f][2]} \subseteq All
  BY <1>2 DEF BulkInv
<1>4. DOMAIN chosen = All
  BY <1>1 DEF All
<1>5. /\ \A i \in Episodes : found[i] \in Seq(Entities)
      /\ \A i \in Episodes : \A k \in DOMAIN found[i] : found[i][k] \in All
  BY <1>3 DEF BulkTypeOK, All, Members
<1>6. found' \in [Episodes -> Seq(Entities)]
  <2>1. ASSUME NEW i \in Episodes
        PROVE  [k \in DOMAIN found[i] |-> chosen[found[i][k]]] \in Seq(Entities)
    <3>1. DOMAIN found[i] = 1..Len(found[i]) /\ Len(found[i]) \in Nat
      BY <1>5, LenProperties
    <3>2. \A k \in DOMAIN found[i] : chosen[found[i][k]] \in Entities
      BY <1>1, <1>4, <1>5
    <3>3. QED
      BY <3>1, <3>2
  <2>2. QED
    BY <1>1, <2>1
<1>7. /\ rep' \in [Entities -> Entities]
      /\ \A u \in All : u \in Entities /\ rep'[u] = chosen[u]
  BY <1>1, <1>3, <1>4 DEF Entities
<1>8. \A u \in All' : \E v \in All : u = chosen[v]
  <2> TAKE u \in All'
  <2>1. PICK i \in Episodes : u \in Members(found'[i])
    BY DEF All
  <2>2. PICK k \in DOMAIN found[i] : u = chosen[found[i][k]]
    BY <1>1, <2>1 DEF Members
  <2>3. QED
    BY <2>2, <1>5
<1>9. \A v \in All : chosen[v] \in All'
  BY <1>1 DEF All, Members
<1>10. \A u \in All' : u \in Entities /\ rep'[u] = u
  <2> TAKE u \in All'
  <2>1. PICK v \in All : u = chosen[v]
    BY <1>8
  <2>2. CASE u = v
    BY <2>1, <2>2, <1>7
  <2>3. CASE u \in Stored
    BY <1>1, <1>3, <1>4, <2>3 DEF BulkAssumption, Entities
  <2>4. QED
    BY <1>1, <1>4, <2>1, <2>2, <2>3
<1>11. BulkTypeOK'
  BY <1>2, <1>3, <1>6, <1>7 DEF BulkTypeOK, Phases
<1>12. Flat' \in Seq(Entities) /\ Len(Flat') \in Nat
  <2>1. found' \in [1..NEpisodes -> Seq(Entities)] /\ NEpisodes \in Nat
    BY <1>6 DEF BulkAssumption, Episodes
  <2>2. FlattenSeq(found') \in Seq(Entities)
    BY <2>1, Flattened
  <2>3. QED
    BY <2>2 DEF Flat
<1>13. EndsResolved'
  <2> SUFFICES ASSUME NEW f \in edges
               PROVE  \E u, v \in All' : rep'[ends[f][1]] = rep'[u] /\ rep'[ends[f][2]] = rep'[v]
    BY <1>2 DEF EndsResolved
  <2>1. ends[f][1] \in All /\ ends[f][2] \in All
    BY <1>3
  <2>2. rep'[ends[f][1]] = rep'[chosen[ends[f][1]]] /\ rep'[ends[f][2]] = rep'[chosen[ends[f][2]]]
    BY <2>1, <1>7, <1>9, <1>10
  <2>3. QED
    BY <2>1, <2>2, <1>9
<1>14. PoolSound'
  BY <1>2, <1>3, <1>10 DEF PoolSound, Compared
<1>15. QED
  BY <1>2, <1>3, <1>11, <1>12, <1>13, <1>14
     DEF BulkInv, NamesakesMerged, EndpointsSaved
-----------------------------------------------------------------------------
(* The comparison within the batch.                                        *)

LEMMA UniteMerges ==
    ASSUME rep \in [Entities -> Entities], NEW u \in Entities, NEW c \in Entities
    PROVE  /\ Unite(rep, u, c) \in [Entities -> Entities]
           /\ \A x \in Entities :
                 Unite(rep, u, c)[x] = IF rep[x] = rep[u] THEN rep[c] ELSE rep[x]
BY DEF Unite

(* The entity the comparison has come to.                                  *)
LEMMA NextCompared ==
    ASSUME BulkAssumption, BulkInv, phase = "compare", at <= Len(Flat)
    PROVE  /\ Flat[at] \in All /\ Flat[at] \in Entities
           /\ at' = at + 1 /\ found' = found => Compared' = Compared \cup {Flat[at]}
           /\ Compared \subseteq All
           /\ at + 1 \in 1..(Len(Flat) + 1)
<1>1. /\ Len(Flat) \in Nat /\ All = {Flat[k] : k \in 1..Len(Flat)} /\ All \subseteq Entities
  BY FlatHolds DEF BulkInv, BulkTypeOK
<1>2. at \in 1..Len(Flat) /\ at + 1 \in 1..(Len(Flat) + 1)
  BY <1>1 DEF BulkInv
<1>3. 1..(at - 1) \subseteq 1..Len(Flat) /\ 1..((at + 1) - 1) = (1..(at - 1)) \cup {at}
  BY <1>1, <1>2
<1>4. found' = found => Flat' = Flat
  BY DEF Flat
<1>5. at' = at + 1 /\ found' = found => Compared' = Compared \cup {Flat[at]}
  BY <1>3, <1>4 DEF Compared
<1>6. QED
  BY <1>1, <1>2, <1>3, <1>5 DEF Compared

(* One of the entities compared is matched with one that was kept: all     *)
(* that holds of the others keeps holding.                                 *)
LEMMA MatchSound ==
    ASSUME BulkAssumption, BulkInv, phase = "compare", at <= Len(Flat),
           NEW c \in pool, rep' = Unite(rep, Flat[at], c),
           \/ NameOf(c) = NameOf(Flat[at])
           \/ /\ \A d \in pool : NameOf(d) # NameOf(Flat[at])
              /\ <<NameOf(Flat[at]), NameOf(c)>> \in Resembles,
           at' = at + 1, UNCHANGED <<found, pool>>
    PROVE  PoolSound'
<1>0. PICK u : u = Flat[at]
  OBVIOUS
<1>1. /\ u \in All /\ u \in Entities /\ Compared' = Compared \cup {u}
      /\ Compared \subseteq All /\ All \subseteq Entities
      /\ All' = All
  BY <1>0, NextCompared, FlatHolds DEF BulkInv, BulkTypeOK, All
<1>2. PoolSound /\ rep \in [Entities -> Entities] /\ pool \subseteq Entities
  BY DEF BulkInv, BulkTypeOK
<1>3. \A x \in Entities : rep'[x] = IF rep[x] = rep[u] THEN rep[c] ELSE rep[x]
  <2>1. c \in Entities /\ rep' = Unite(rep, u, c)
    BY <1>0, <1>2
  <2>2. QED
    BY <1>1, <1>2, <2>1, UniteMerges
<1>4. \A x \in Compared : Placed(x)'
  <2> TAKE x \in Compared
  <2>1. x \in Entities /\ \A d \in pool : d \in Entities
    BY <1>1, <1>2
  <2>2. \A d \in pool : rep[x] = rep[d] => rep'[x] = rep'[d]
    BY <1>3, <2>1
  <2>3. Placed(x)
    BY <1>2 DEF PoolSound
  <2>4. QED
    BY <2>2, <2>3 DEF Placed
<1>5. Placed(u)'
  <2>1. rep'[u] = rep[c] /\ rep'[c] = rep[c]
    BY <1>1, <1>2, <1>3
  <2>2. QED
    BY <2>1, <1>0 DEF Placed
<1>6. \A d \in pool : rep'[d] \in pool
  <2>1. \A d \in pool : rep[d] \in pool /\ d \in Entities
    BY <1>2 DEF PoolSound
  <2>2. QED
    BY <2>1, <1>3
<1>7. ASSUME NEW w \in All, w \notin Compared' PROVE rep'[w] = w
  <2>1. w \notin Compared /\ w # u /\ rep[w] = w /\ w \in Entities
    BY <1>1, <1>2, <1>7 DEF PoolSound
  <2>2. CASE u \in Compared
    <3>1. rep[u] \in pool
      <4>1. Placed(u)
        BY <2>2, <1>2 DEF PoolSound
      <4>2. QED
        BY <4>1, <1>2 DEF Placed, PoolSound
    <3>2. rep[u] # w
      BY <3>1, <2>1, <1>2 DEF PoolSound
    <3>3. QED
      BY <2>1, <3>2, <1>3
  <2>3. CASE u \notin Compared
    <3>1. rep[u] = u
      BY <1>1, <1>2, <2>3 DEF PoolSound
    <3>2. QED
      BY <2>1, <3>1, <1>3
  <2>4. QED
    BY <2>2, <2>3
<1>8. QED
  BY <1>1, <1>2, <1>4, <1>5, <1>6, <1>7 DEF PoolSound

(* One that nothing was kept for is kept itself.                           *)
LEMMA KeepSound ==
    ASSUME BulkAssumption, BulkInv, phase = "compare", at <= Len(Flat),
           \A d \in pool : /\ NameOf(d) # NameOf(Flat[at])
                           /\ <<NameOf(Flat[at]), NameOf(d)>> \notin Resembles,
           pool' = pool \cup {Flat[at]}, at' = at + 1, UNCHANGED <<found, rep>>
    PROVE  PoolSound'
<1>0. PICK u : u = Flat[at]
  OBVIOUS
<1>1. /\ u \in All /\ Compared' = Compared \cup {u} /\ All' = All
  BY <1>0, NextCompared DEF All
<1>2. PoolSound
  BY DEF BulkInv
<1>3. /\ pool' = pool \cup {u}
      /\ \A d \in pool : /\ NameOf(d) # NameOf(u)
                         /\ <<NameOf(u), NameOf(d)>> \notin Resembles
  BY <1>0
<1>4. u \notin Compared
  <2>1. ~Placed(u)
    BY <1>3 DEF Placed
  <2>2. QED
    BY <2>1, <1>2 DEF PoolSound
<1>5. rep[u] = u
  BY <1>1, <1>2, <1>4 DEF PoolSound
<1>6. ASSUME NEW x \in Compared PROVE Placed(x)'
  <2>1. Placed(x)
    BY <1>2 DEF PoolSound
  <2>2. CASE \E c \in pool : NameOf(c) = NameOf(x) /\ rep[x] = rep[c]
    BY <2>2, <1>3 DEF Placed
  <2>3. CASE /\ \A d \in pool : NameOf(d) # NameOf(x)
             /\ \E c \in pool : /\ <<NameOf(x), NameOf(c)>> \in Resembles
                                /\ rep[x] = rep[c]
    <3>1. NameOf(u) # NameOf(x)
      BY <2>3, <1>3
    <3>2. QED
      BY <2>3, <3>1, <1>3 DEF Placed
  <2>4. QED
    BY <2>1, <2>2, <2>3 DEF Placed
<1>7. Placed(u)'
  BY <1>3 DEF Placed
<1>8. /\ \A c, d \in pool' : NameOf(c) = NameOf(d) => c = d
      /\ \A c \in pool' : rep'[c] \in pool'
      /\ pool' \subseteq Compared'
  BY <1>1, <1>2, <1>3, <1>5 DEF PoolSound
<1>9. \A w \in All' : w \notin Compared' => rep'[w] = w
  BY <1>1, <1>2 DEF PoolSound
<1>10. QED
  BY <1>1, <1>6, <1>7, <1>8, <1>9 DEF PoolSound

LEMMA CompareInv ==
    ASSUME BulkAssumption, BulkInv, Compare
    PROVE  BulkInv'
<1>0. PICK u : u = Flat[at]
  OBVIOUS
<1>1. /\ phase = "compare" /\ at <= Len(Flat) /\ at' = at + 1
      /\ UNCHANGED <<phase, found, edges, ends, kept, mentions, saved>>
      /\ \/ \E c \in pool : /\ NameOf(c) = NameOf(u)
                            /\ rep' = Unite(rep, u, c) /\ pool' = pool
         \/ /\ \A d \in pool : NameOf(d) # NameOf(u)
            /\ \E c \in pool : /\ <<NameOf(u), NameOf(c)>> \in Resembles
                               /\ rep' = Unite(rep, u, c)
            /\ pool' = pool
         \/ /\ \A d \in pool : /\ NameOf(d) # NameOf(u)
                               /\ <<NameOf(u), NameOf(d)>> \notin Resembles
            /\ pool' = pool \cup {u} /\ rep' = rep
  BY <1>0 DEF Compare, Match, Flat
<1>2. /\ BulkTypeOK /\ IsFiniteSet(edges) /\ EndsResolved
      /\ All \subseteq Entities /\ u \in Entities
      /\ at + 1 \in 1..(Len(Flat) + 1)
  BY <1>0, <1>1, FlatHolds, NextCompared DEF BulkInv, BulkTypeOK
<1>3. All' = All /\ Flat' = Flat
  BY <1>1 DEF All, Flat
<1>4. /\ rep' \in [Entities -> Entities] /\ pool' \subseteq Entities
      /\ \A x, y \in Entities : rep[x] = rep[y] => rep'[x] = rep'[y]
  <2>1. CASE rep' = rep
    BY <1>1, <1>2, <2>1 DEF BulkTypeOK
  <2>2. ASSUME NEW c \in pool, rep' = Unite(rep, u, c), pool' = pool
        PROVE  /\ rep' \in [Entities -> Entities] /\ pool' \subseteq Entities
               /\ \A x, y \in Entities : rep[x] = rep[y] => rep'[x] = rep'[y]
    <3>1. /\ c \in Entities /\ u \in Entities
          /\ rep \in [Entities -> Entities] /\ pool \subseteq Entities
      BY <1>2 DEF BulkTypeOK
    <3>2. /\ Unite(rep, u, c) \in [Entities -> Entities]
          /\ \A x \in Entities :
                Unite(rep, u, c)[x] = IF rep[x] = rep[u] THEN rep[c] ELSE rep[x]
      BY <3>1, UniteMerges
    <3>3. QED
      BY <2>2, <3>1, <3>2
  <2>3. QED
    BY <1>1, <2>1, <2>2
<1>5. PoolSound'
  BY <1>0, <1>1, MatchSound, KeepSound
<1>6. BulkTypeOK'
  BY <1>1, <1>2, <1>4 DEF BulkTypeOK
<1>7. EndsResolved'
  <2> SUFFICES ASSUME NEW f \in edges
               PROVE  \E x, y \in All : rep'[ends[f][1]] = rep'[x] /\ rep'[ends[f][2]] = rep'[y]
    BY <1>1, <1>3 DEF EndsResolved
  <2>1. PICK x, y \in All : rep[ends[f][1]] = rep[x] /\ rep[ends[f][2]] = rep[y]
    BY <1>2 DEF EndsResolved
  <2>2. ends[f][1] \in Entities /\ ends[f][2] \in Entities
    BY <1>2 DEF BulkTypeOK
  <2>3. QED
    BY <1>2, <1>4, <2>1, <2>2
<1>8. QED
  BY <1>1, <1>2, <1>3, <1>5, <1>6, <1>7
     DEF BulkInv, NamesakesMerged, EndpointsSaved

-----------------------------------------------------------------------------
(* Pointing facts and mentions to what was kept, and merging the facts.    *)

LEMMA PointInv ==
    ASSUME BulkAssumption, BulkInv, Point
    PROVE  BulkInv'
<1>1. /\ phase = "compare" /\ at > Len(Flat) /\ phase' = "merge"
      /\ mentions' = [i \in Episodes |-> {Canonical(u) : u \in Members(found[i])}]
      /\ ends' = [f \in edges |-> <<rep[ends[f][1]], rep[ends[f][2]]>>]
      /\ UNCHANGED <<found, edges, rep, pool, at, kept, saved>>
  BY DEF Point, Flat
<1>2. /\ BulkTypeOK /\ IsFiniteSet(edges) /\ PoolSound /\ EndsResolved
      /\ at \in 1..(Len(Flat) + 1)
  BY <1>1 DEF BulkInv
<1>3. All \subseteq Entities /\ Len(Flat) \in Nat /\ All = {Flat[k] : k \in 1..Len(Flat)}
  BY <1>2, FlatHolds DEF BulkTypeOK
<1>4. Compared = All
  <2>1. at - 1 = Len(Flat)
    BY <1>1, <1>2, <1>3
  <2>2. QED
    BY <1>3, <2>1 DEF Compared
<1>5. \A u \in All : Placed(u) /\ rep[u] \in pool
  BY <1>2, <1>4 DEF PoolSound, Placed
<1>6. \A u \in All : Canonical(u) = rep[u] /\ rep[u] \in Entities
  BY <1>2, <1>5 DEF Canonical, BulkTypeOK
<1>7. \A u \in All : rep[u] \in UNION {mentions'[i] : i \in Episodes}
  <2> TAKE u \in All
  <2>1. PICK i \in Episodes : u \in Members(found[i])
    BY DEF All
  <2>2. Canonical(u) \in mentions'[i]
    BY <1>1, <2>1
  <2>3. QED
    BY <1>6, <2>2
<1>8. EndsMentioned'
  <2> SUFFICES ASSUME NEW f \in edges
               PROVE  {rep[ends[f][1]], rep[ends[f][2]]} \subseteq
                         UNION {mentions'[i] : i \in Episodes}
    BY <1>1 DEF EndsMentioned
  <2>1. PICK x, y \in All : rep[ends[f][1]] = rep[x] /\ rep[ends[f][2]] = rep[y]
    BY <1>2 DEF EndsResolved
  <2>2. QED
    BY <1>7, <2>1
<1>9. BulkTypeOK'
  <2>1. \A i \in Episodes : mentions'[i] \subseteq Entities
    <3> TAKE i \in Episodes
    <3>1. \A u \in Members(found[i]) : Canonical(u) \in Entities
      BY <1>6 DEF All
    <3>2. QED
      BY <1>1, <3>1
  <2>2. \A f \in edges : ends[f][1] \in Entities /\ ends[f][2] \in Entities
    BY <1>2 DEF BulkTypeOK
  <2>3. ends' \in [edges -> Entities \X Entities]
    BY <1>1, <1>2, <2>2 DEF BulkTypeOK
  <2>4. mentions' \in [Episodes -> SUBSET Entities]
    BY <1>1, <2>1
  <2>5. QED
    BY <1>1, <1>2, <2>3, <2>4 DEF BulkTypeOK, Phases
<1>10. NamesakesMerged'
  <2> SUFFICES ASSUME NEW i \in Episodes, NEW j \in Episodes,
                      NEW u \in Members(found[i]), NEW v \in Members(found[j]),
                      NameOf(u) = NameOf(v),
                      \A m, n \in Names :
                         {<<NameOf(u), m>>, <<NameOf(u), n>>} \subseteq Resembles => m = n
               PROVE  rep[u] = rep[v]
    BY <1>1 DEF NamesakesMerged
  <2>1. Placed(u) /\ Placed(v)
    BY <1>5 DEF All
  <2>2. \A c \in pool : c \in Entities /\ NameOf(c) \in Names
    BY <1>2, NamesKnown DEF BulkTypeOK
  <2>3. \A c, d \in pool : NameOf(c) = NameOf(d) => c = d
    BY <1>2 DEF PoolSound
  <2>4. CASE \E c \in pool : NameOf(c) = NameOf(u)
    BY <2>1, <2>3, <2>4 DEF Placed
  <2>5. CASE \A c \in pool : NameOf(c) # NameOf(u)
    <3>1. PICK c \in pool : <<NameOf(u), NameOf(c)>> \in Resembles /\ rep[u] = rep[c]
      BY <2>1, <2>5 DEF Placed
    <3>2. PICK d \in pool : <<NameOf(u), NameOf(d)>> \in Resembles /\ rep[v] = rep[d]
      BY <2>1, <2>5 DEF Placed
    <3>3. c = d
      BY <2>2, <2>3, <3>1, <3>2
    <3>4. QED
      BY <3>1, <3>2, <3>3
  <2>6. QED
    BY <2>4, <2>5
<1>11. QED
  BY <1>1, <1>2, <1>8, <1>9, <1>10 DEF BulkInv, EndpointsSaved

LEMMA MergeInv ==
    ASSUME BulkInv, Merge
    PROVE  BulkInv'
<1>1. /\ phase = "merge" /\ phase' = "again" /\ kept' \in [edges -> edges]
      /\ UNCHANGED <<found, edges, ends, rep, pool, at, mentions, saved>>
  BY DEF Merge
<1>2. BulkTypeOK'
  BY <1>1 DEF BulkInv, BulkTypeOK, Phases
<1>3. QED
  BY <1>1, <1>2 DEF BulkInv, EndsMentioned, NamesakesMerged, EndpointsSaved
-----------------------------------------------------------------------------
(* The second lookup.                                                      *)

(* However often a pointer is mapped, once at least, it ends at an entity  *)
(* of the map's range.                                                     *)
LEMMA FollowArrives ==
    ASSUME NEW A, NEW map \in [A -> Entities], NEW u \in A, NEW n \in Nat, n # 0
    PROVE  Follow(map, u, n) \in {map[x] : x \in A}
<1> DEFINE Hop(x) == IF x \in A THEN map[x] ELSE x
           Fits(f, m) == f = [k \in 0..m |-> IF k = 0 THEN u ELSE Hop(f[k - 1])]
           R == {map[x] : x \in A}
<1>1. ASSUME NEW m \in Nat, \E f : Fits(f, m) PROVE \E f : Fits(f, m + 1)
  <2>1. PICK f : Fits(f, m)
    BY <1>1
  <2> DEFINE g == [k \in 0..(m + 1) |-> IF k = m + 1 THEN Hop(f[m]) ELSE f[k]]
  <2>2. ASSUME NEW k \in 0..(m + 1)
        PROVE  g[k] = IF k = 0 THEN u ELSE Hop(g[k - 1])
    <3> HIDE DEF Hop
    <3>1. CASE k = m + 1
      <4>1. g[m] = f[m] /\ k # 0 /\ k - 1 = m
        BY <3>1
      <4>2. QED
        BY <4>1, <3>1
    <3>2. CASE k # m + 1
      <4>1. k \in 0..m /\ g[k] = f[k]
        BY <3>2
      <4>2. k # 0 => k - 1 \in 0..m /\ g[k - 1] = f[k - 1]
        BY <4>1
      <4>3. f[k] = IF k = 0 THEN u ELSE Hop(f[k - 1])
        BY <2>1, <4>1
      <4>4. QED
        BY <4>1, <4>2, <4>3
    <3>3. QED
      BY <3>1, <3>2
  <2>3. Fits(g, m + 1)
    <3>1. g = [k \in 0..(m + 1) |-> g[k]]
      OBVIOUS
    <3> HIDE DEF g, Hop
    <3>2. QED
      BY <2>2, <3>1
  <2>4. QED
    <3> HIDE DEF Fits, g
    <3>1. QED
      BY <2>3
<1>2. \E f : Fits(f, n)
  <2> DEFINE T == {m \in Nat : \E f : Fits(f, m)}
  <2>1. 0 \in T
    <3> DEFINE h == [k \in 0..0 |-> u]
    <3>1. Fits(h, 0)
      OBVIOUS
    <3>2. QED
      <4> HIDE DEF Fits, h
      <4>1. QED
        BY <3>1
  <2>2. \A m \in Nat : m \in T => m + 1 \in T
    <3> HIDE DEF Fits
    <3>1. QED
      BY <1>1
  <2>3. Nat \subseteq T
    <3> HIDE DEF T
    <3>1. QED
      BY <2>1, <2>2, Successors
  <2>4. QED
    <3> HIDE DEF Fits
    <3>1. QED
      BY <2>3
<1> DEFINE go == CHOOSE f : Fits(f, n)
<1>3. Fits(go, n)
  <2> HIDE DEF Fits
  <2>1. QED
    BY <1>2
<1>4. Follow(map, u, n) = go[n]
  BY DEF Follow
<1> HIDE DEF go
<1>5. go[0] = u /\ \A k \in 0..n : k # 0 => go[k] = Hop(go[k - 1])
  <2> HIDE DEF Hop
  <2>1. QED
    BY <1>3
<1>6. \A x \in R : Hop(x) \in R
  OBVIOUS
<1> DEFINE T == {k \in Nat : k + 1 \in 1..n => go[k + 1] \in R}
<1>7. 0 \in T
  BY <1>5
<1>8. ASSUME NEW k \in Nat, k \in T PROVE k + 1 \in T
  <2> HIDE DEF Hop, R
  <2>1. SUFFICES ASSUME (k + 1) + 1 \in 1..n PROVE go[(k + 1) + 1] \in R
    OBVIOUS
  <2>2. k + 1 \in 1..n /\ (k + 1) + 1 \in 0..n /\ (k + 1) + 1 # 0 /\ ((k + 1) + 1) - 1 = k + 1
    BY <2>1
  <2>3. go[(k + 1) + 1] = Hop(go[k + 1]) /\ go[k + 1] \in R
    BY <1>5, <1>8, <2>2
  <2>4. QED
    BY <1>6, <2>3
<1>9. Nat \subseteq T
  <2> HIDE DEF T
  <2>1. QED
    BY <1>7, <1>8, Successors
<1>10. go[n] \in R
  <2> HIDE DEF R
  <2>1. n - 1 \in Nat /\ (n - 1) + 1 = n /\ n \in 1..n
    OBVIOUS
  <2>2. QED
    BY <1>9, <2>1
<1>11. QED
  BY <1>4, <1>10

LEMMA LookupAgainInv ==
    ASSUME BulkAssumption, BulkInv, LookupAgain
    PROVE  BulkInv'
<1> DEFINE agreed == UNION {mentions[i] : i \in Episodes}
<1>1. PICK map \in [agreed -> Stored \cup agreed] :
          /\ \A u \in agreed : map[u] \in Stored \cup {u}
          /\ ends' = [f \in edges |->
                IF kept[f] = f THEN Repointed(map, f) ELSE ends[f]]
          /\ mentions' = [i \in Episodes |-> Mentioned(map, mentions[i])]
          /\ saved' = Hydrated(map)
  BY DEF LookupAgain
<1>2. /\ phase = "again" /\ phase' = "done"
      /\ UNCHANGED <<found, edges, rep, pool, at, kept>>
  BY DEF LookupAgain
<1>3. /\ BulkTypeOK /\ IsFiniteSet(edges)
      /\ \A f \in edges : ends[f][1] \in agreed /\ ends[f][2] \in agreed
  BY <1>2 DEF BulkInv, EndsMentioned
<1>4. agreed \subseteq Entities /\ Stored \subseteq Entities
  BY <1>3 DEF BulkTypeOK, Entities
<1>5. map \in [agreed -> Entities] /\ DOMAIN map = agreed
  BY <1>1, <1>4
<1> HIDE DEF agreed
<1>6. saved' = {map[u] : u \in agreed} /\ saved' \subseteq Entities
  BY <1>1, <1>5 DEF Hydrated
<1>7. ASSUME NEW f \in edges, kept[f] = f
      PROVE  ends'[f][1] \in saved' /\ ends'[f][2] \in saved' /\ ends'[f] \in Entities \X Entities
  <2>1. /\ Places(f) \in Nat /\ Places(f) # 0
    <3>1. /\ {g \in edges : kept[g] = f} \subseteq edges /\ f \in {g \in edges : kept[g] = f}
          /\ IsFiniteSet({g \in edges : kept[g] = f})
      BY <1>3, <1>7, FS_Subset
    <3>2. Places(f) = Cardinality({g \in edges : kept[g] = f})
      BY DEF Places
    <3>3. QED
      BY <3>1, <3>2, FS_CardinalityType, FS_EmptySet
  <2>2. /\ Follow(map, ends[f][1], Places(f)) \in saved'
        /\ Follow(map, ends[f][2], Places(f)) \in saved'
    BY <1>3, <1>5, <1>6, <2>1, FollowArrives
  <2>3. ends'[f] = <<Follow(map, ends[f][1], Places(f)),
                     Follow(map, ends[f][2], Places(f))>>
    BY <1>1, <1>7 DEF Repointed
  <2>4. QED
    BY <1>6, <2>2, <2>3
<1>8. \A i \in Episodes : mentions'[i] \subseteq saved'
  <2> TAKE i \in Episodes
  <2>1. mentions[i] \subseteq agreed /\ mentions'[i] = {map[u] : u \in mentions[i]}
    BY <1>1 DEF agreed, Mentioned
  <2>2. QED
    BY <1>6, <2>1
<1>9. BulkTypeOK'
  <2>1. ends' \in [edges -> Entities \X Entities]
    <3>1. \A f \in edges : ends'[f] \in Entities \X Entities
      <4> TAKE f \in edges
      <4>1. kept[f] # f => ends'[f] = ends[f] /\ ends[f] \in Entities \X Entities
        BY <1>1, <1>3 DEF BulkTypeOK
      <4>2. QED
        BY <4>1, <1>7
    <3>2. QED
      BY <1>1, <3>1
  <2>2. mentions' \in [Episodes -> SUBSET Entities]
    BY <1>1, <1>6, <1>8
  <2>3. QED
    BY <1>2, <1>3, <1>6, <2>1, <2>2 DEF BulkTypeOK, Phases
<1>10. EndpointsSaved'
  BY <1>2, <1>7, <1>8 DEF EndpointsSaved
<1>11. NamesakesMerged'
  BY <1>2 DEF BulkInv, NamesakesMerged
<1>12. QED
  BY <1>2, <1>3, <1>9, <1>10, <1>11 DEF BulkInv

-----------------------------------------------------------------------------
(* The theorems.                                                           *)

LEMMA BulkInit == ASSUME BulkAssumption PROVE InitBulk => BulkInv
<1> SUFFICES ASSUME InitBulk PROVE BulkInv
  OBVIOUS
<1>1. Entities = ExtractedNodes \cup Stored
  BY DEF Entities
<1>2. BulkTypeOK
  BY DEF InitBulk, BulkTypeOK, Phases, Nothing
<1>3. IsFiniteSet(edges)
  BY FS_EmptySet DEF InitBulk
<1>4. QED
  BY <1>2, <1>3 DEF InitBulk, BulkInv, NamesakesMerged, EndpointsSaved

LEMMA BulkNext == ASSUME BulkAssumption PROVE BulkInv /\ [NextBulk]_bulkVars => BulkInv'
<1> SUFFICES ASSUME BulkInv, [NextBulk]_bulkVars PROVE BulkInv'
  OBVIOUS
<1>1. CASE UNCHANGED bulkVars
  <2>1. UNCHANGED <<phase, found, edges, ends, rep, pool, at, kept, mentions, saved>>
    BY <1>1 DEF bulkVars
  <2>2. BulkTypeOK'
    BY <2>1 DEF BulkInv, BulkTypeOK
  <2>3. Flat' = Flat /\ All' = All /\ Compared' = Compared
    BY <2>1 DEF Flat, All, Compared
  <2>4. \A u : Placed(u)' = Placed(u)
    BY <2>1 DEF Placed
  <2>5. PoolSound' = PoolSound
    BY <2>1, <2>3, <2>4 DEF PoolSound
  <2>6. EndsResolved' = EndsResolved /\ EndsMentioned' = EndsMentioned
    BY <2>1, <2>3 DEF EndsResolved, EndsMentioned
  <2>7. NamesakesMerged' /\ EndpointsSaved'
    BY <2>1 DEF BulkInv, NamesakesMerged, EndpointsSaved
  <2>8. QED
    BY <2>1, <2>2, <2>3, <2>5, <2>6, <2>7 DEF BulkInv
<1>2. CASE NextBulk
  BY <1>2, ExtractInv, LookupInv, CompareInv, PointInv, MergeInv, LookupAgainInv DEF NextBulk
<1>3. QED
  BY <1>1, <1>2

(* The invariant holds of every batch.                                     *)
THEOREM BulkInvHolds == ASSUME BulkAssumption PROVE SpecBulk => []BulkInv
<1>1. InitBulk => BulkInv
  BY BulkInit
<1>2. BulkInv /\ [NextBulk]_bulkVars => BulkInv'
  BY BulkNext
<1>3. QED
  BY <1>1, <1>2, PTL DEF SpecBulk

(* Entities of one name, found in different episodes of a batch, become    *)
(* one, whichever way each was resolved and in whatever order they come,   *)
(* if the fuzzy comparison accepts the name for one other name at most.    *)
THEOREM NamesakesBecomeOne == ASSUME BulkAssumption PROVE SpecBulk => []NamesakesMerged
<1>1. BulkInv => NamesakesMerged
  BY DEF BulkInv
<1>2. QED
  BY <1>1, BulkInvHolds, PTL

(* Both endpoints of every fact and every entity mentioned are saved with  *)
(* the batch, although they are mapped apart, and some of them repeatedly. *)
THEOREM EndpointsAreSaved == ASSUME BulkAssumption PROVE SpecBulk => []EndpointsSaved
<1>1. BulkInv => EndpointsSaved
  BY DEF BulkInv
<1>2. QED
  BY <1>1, BulkInvHolds, PTL
=============================================================================
