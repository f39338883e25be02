------------------------- MODULE IngestWorker_proofs -------------------------
(***************************************************************************)
(* Machine-checked proofs about IngestWorker, for any requests, any batch  *)
(* sizes and any capacity of the queue.                                    *)
(***************************************************************************)
EXTENDS IngestWorker, SequenceTheorems, FiniteSetTheorems, TLAPS

-----------------------------------------------------------------------------
(* Queues without repetitions.                                             *)

LEMMA QueueCount ==
    ASSUME NEW T, NEW s \in Seq(T), IsInjective(s)
    PROVE  IsFiniteSet(ToSet(s)) /\ Cardinality(ToSet(s)) = Len(s)
<1>1. Len(s) \in Nat /\ DOMAIN s = 1..Len(s)
  OBVIOUS
<1>2. s \in [1..Len(s) -> ToSet(s)]
  BY <1>1 DEF ToSet
<1>3. s \in Bijection(1..Len(s), ToSet(s))
  BY <1>1, <1>2 DEF Bijection, Injection, Surjection, IsInjective, ToSet
<1>4. ExistsBijection(1..Len(s), ToSet(s))
  BY <1>3 DEF ExistsBijection
<1>5. IsFiniteSet(1..Len(s)) /\ Cardinality(1..Len(s)) = Len(s)
  BY <1>1, FS_Interval
<1>6. QED
  BY <1>4, <1>5, FS_Bijection

LEMMA QueuePut ==
    ASSUME NEW T, NEW s \in Seq(T), NEW t \in Seq(T), IsInjective(s), IsInjective(t),
           ToSet(s) \cap ToSet(t) = {}
    PROVE  /\ s \o t \in Seq(T) /\ Len(s \o t) = Len(s) + Len(t)
           /\ IsInjective(s \o t)
           /\ ToSet(s \o t) = ToSet(s) \cup ToSet(t)
<1> DEFINE c == s \o t
<1>1. /\ c \in Seq(T) /\ Len(c) = Len(s) + Len(t)
      /\ \A i \in 1..Len(s) + Len(t) : c[i] = IF i <= Len(s) THEN s[i] ELSE t[i - Len(s)]
  BY ConcatProperties
<1>2. /\ Len(s) \in Nat /\ DOMAIN s = 1..Len(s)
      /\ Len(t) \in Nat /\ DOMAIN t = 1..Len(t)
      /\ DOMAIN c = 1..Len(s) + Len(t)
  BY <1>1
<1>3. \A i \in DOMAIN c :
          \/ i \in DOMAIN s /\ c[i] = s[i]
          \/ i - Len(s) \in DOMAIN t /\ c[i] = t[i - Len(s)]
  BY <1>1, <1>2
<1>4. (\A i \in DOMAIN s : s[i] \in ToSet(s)) /\ \A i \in DOMAIN t : t[i] \in ToSet(t)
  BY DEF ToSet
<1>5. ASSUME NEW i \in DOMAIN c, NEW j \in DOMAIN c, c[i] = c[j]
      PROVE  i = j
  <2>1. i \in Nat /\ j \in Nat
    BY <1>2
  <2>2. CASE i \in DOMAIN s /\ c[i] = s[i] /\ j \in DOMAIN s /\ c[j] = s[j]
    BY <1>5, <2>2 DEF IsInjective
  <2>3. CASE /\ i - Len(s) \in DOMAIN t /\ c[i] = t[i - Len(s)]
             /\ j - Len(s) \in DOMAIN t /\ c[j] = t[j - Len(s)]
    <3>1. i - Len(s) = j - Len(s)
      BY <1>5, <2>3 DEF IsInjective
    <3>2. QED
      BY <1>2, <2>1, <3>1
  <2>4. QED
    BY <1>3, <1>4, <1>5, <2>2, <2>3
<1>6. IsInjective(c)
  BY <1>5 DEF IsInjective
<1>7. \A x \in ToSet(c) : x \in ToSet(s) \cup ToSet(t)
  BY <1>3, <1>4 DEF ToSet
<1>8. \A x \in ToSet(s) : x \in ToSet(c)
  <2>1. \A i \in DOMAIN s : i \in DOMAIN c /\ c[i] = s[i]
    BY <1>1, <1>2
  <2>2. QED
    BY <2>1 DEF ToSet
<1>9. \A x \in ToSet(t) : x \in ToSet(c)
  <2>1. \A i \in DOMAIN t : i + Len(s) \in DOMAIN c /\ c[i + Len(s)] = t[i]
    BY <1>1, <1>2
  <2>2. QED
    BY <2>1 DEF ToSet
<1>10. ToSet(c) = ToSet(s) \cup ToSet(t)
  BY <1>7, <1>8, <1>9
<1>11. QED
  BY <1>1, <1>6, <1>10

LEMMA QueueTake ==
    ASSUME NEW T, NEW s \in Seq(T), IsInjective(s), s # <<>>
    PROVE  /\ Head(s) \in T /\ Tail(s) \in Seq(T) /\ Len(Tail(s)) = Len(s) - 1
           /\ IsInjective(Tail(s))
           /\ Head(s) \notin ToSet(Tail(s))
           /\ ToSet(s) = {Head(s)} \cup ToSet(Tail(s))
<1>1. /\ Len(s) \in Nat \ {0} /\ DOMAIN s = 1..Len(s) /\ Head(s) = s[1]
      /\ Head(s) \in T /\ Tail(s) \in Seq(T) /\ Len(Tail(s)) = Len(s) - 1
      /\ \A i \in 1..Len(Tail(s)) : Tail(s)[i] = s[i + 1]
  BY HeadTailProperties
<1>2. DOMAIN Tail(s) = 1..Len(s) - 1
  BY <1>1
<1>3. \A i \in DOMAIN Tail(s) : i + 1 \in DOMAIN s /\ i + 1 # 1 /\ Tail(s)[i] = s[i + 1]
  BY <1>1, <1>2
<1>4. IsInjective(Tail(s))
  <2> SUFFICES ASSUME NEW i \in DOMAIN Tail(s), NEW j \in DOMAIN Tail(s),
                      Tail(s)[i] = Tail(s)[j]
               PROVE  i = j
    BY DEF IsInjective
  <2>1. i + 1 = j + 1
    BY <1>3 DEF IsInjective
  <2>2. QED
    BY <1>2, <2>1
<1>5. Head(s) \notin ToSet(Tail(s))
  <2> SUFFICES ASSUME NEW i \in DOMAIN Tail(s) PROVE Tail(s)[i] # Head(s)
    BY DEF ToSet
  <2>1. 1 \in DOMAIN s
    BY <1>1
  <2>2. QED
    BY <1>1, <1>3, <2>1 DEF IsInjective
<1>6. \A x \in ToSet(s) : x \in {Head(s)} \cup ToSet(Tail(s))
  <2> SUFFICES ASSUME NEW i \in DOMAIN s, i # 1 PROVE s[i] \in ToSet(Tail(s))
    BY <1>1 DEF ToSet
  <2>1. i - 1 \in DOMAIN Tail(s) /\ (i - 1) + 1 = i
    BY <1>1, <1>2
  <2>2. Tail(s)[i - 1] = s[i]
    BY <1>3, <2>1
  <2>3. QED
    BY <2>1, <2>2 DEF ToSet
<1>7. \A x \in {Head(s)} \cup ToSet(Tail(s)) : x \in ToSet(s)
  BY <1>1, <1>3 DEF ToSet
<1>8. QED
  BY <1>1, <1>4, <1>5, <1>6, <1>7
-----------------------------------------------------------------------------
(* The inductive invariant.                                                *)

(* A job is in one place: waiting, in flight, or with one of three ends.   *)
Apart ==
    /\ Waiting \cap running = {} /\ Waiting \cap settled = {}
    /\ Waiting \cap interrupted = {} /\ Waiting \cap discarded = {}
    /\ running \cap settled = {} /\ running \cap interrupted = {}
    /\ running \cap discarded = {} /\ settled \cap interrupted = {}
    /\ settled \cap discarded = {} /\ interrupted \cap discarded = {}

JobsInv ==
    /\ queue \in Seq(Jobs) /\ Len(queue) <= Capacity /\ IsInjective(queue)
    /\ running = {} \/ \E j \in Jobs : running = {j}
    /\ settled \subseteq Jobs /\ interrupted \subseteq Jobs /\ discarded \subseteq Jobs
    /\ IsFiniteSet(settled) /\ IsFiniteSet(interrupted) /\ IsFiniteSet(discarded)
    /\ Apart
    /\ unfinished = Outstanding

(* What stop() has to answer for.                                          *)
Lost == Waiting \cup running \cup interrupted \cup discarded

(* Nothing is interrupted or discarded before stop() has waited in vain;   *)
(* from then on, no job is added to those its answer covers.               *)
ShutdownInv ==
    /\ stopper # "idle" => draining = TRUE
    /\ stopper \in {"idle", "joining"} =>
         /\ cancelling = FALSE /\ interrupted = {} /\ discarded = {}
         /\ unresolved = 0
    /\ stopper = "closing" => Lost = {}
    /\ stopper \in {"cancelling", "returned"} => Cardinality(Lost) <= unresolved

Admitted == UNION {JobsOf(r) : r \in {s \in Requests : request[s] = "accepted"}}

ControlInv ==
    /\ accepting \in BOOLEAN /\ draining \in BOOLEAN /\ cancelling \in BOOLEAN
    /\ worker \in {"get", "run", "exited", "gone"}
    /\ worker = "run" <=> running # {}
    /\ request \in [Requests ->
           {"new", "owning", "accepted", "full", "closed", "conflict"}]
    /\ stopper \in {"idle", "joining", "cancelling", "closing", "returned"}
    /\ unresolved \in 0..(Capacity + 1)

Inv ==
    /\ JobsInv
    /\ ControlInv
    /\ AcceptedJobs = Admitted
    /\ ShutdownInv

-----------------------------------------------------------------------------
(* Counting jobs.                                                          *)

LEMMA JobCounts ==
    ASSUME JobsInv
    PROVE  /\ Waiting \subseteq Jobs /\ IsFiniteSet(Waiting)
           /\ Cardinality(Waiting) = Len(queue) /\ Len(queue) \in Nat
           /\ running \subseteq Jobs /\ IsFiniteSet(running)
           /\ Cardinality(running) \in {0, 1}
           /\ running # {} => Cardinality(running) = 1
           /\ running = {} <=> Cardinality(running) = 0
           /\ IsFiniteSet(Lost) /\ Cardinality(Lost) \in Nat
<1>1. queue \in Seq(Jobs) /\ IsInjective(queue)
  BY DEF JobsInv
<1>2. Waiting \subseteq Jobs
  BY <1>1 DEF Waiting, ToSet
<1>3. IsFiniteSet(Waiting) /\ Cardinality(Waiting) = Len(queue)
  BY <1>1, QueueCount DEF Waiting
<1>4. /\ running \subseteq Jobs /\ IsFiniteSet(running)
      /\ running = {} => Cardinality(running) = 0
      /\ running # {} => Cardinality(running) = 1
  BY FS_EmptySet, FS_Singleton DEF JobsInv
<1>5. IsFiniteSet(Waiting \cup running)
  BY <1>3, <1>4, FS_Union
<1>6. IsFiniteSet((Waiting \cup running) \cup interrupted)
  BY <1>5, FS_Union DEF JobsInv
<1>7. IsFiniteSet(((Waiting \cup running) \cup interrupted) \cup discarded)
  BY <1>6, FS_Union DEF JobsInv
<1>8. IsFiniteSet(Lost) /\ Cardinality(Lost) \in Nat
  BY <1>7, FS_CardinalityType DEF Lost
<1>9. QED
  BY <1>1, <1>2, <1>3, <1>4, <1>8

(* The jobs outstanding are those waiting or in flight.                    *)
LEMMA OutstandingCounts ==
    ASSUME JobsInv
    PROVE  /\ Outstanding = Cardinality(Waiting \cup running)
           /\ Outstanding \in 0..(Capacity + 1)
           /\ Outstanding = 0 => Waiting = {} /\ running = {}
<1>1. /\ IsFiniteSet(Waiting) /\ IsFiniteSet(running)
      /\ Cardinality(Waiting) = Len(queue) /\ Len(queue) \in Nat
      /\ Cardinality(running) \in {0, 1}
      /\ running = {} <=> Cardinality(running) = 0
  BY JobCounts
<1>2. Waiting \cap running = {} /\ Len(queue) <= Capacity /\ Capacity \in Nat
  BY IngestAssumption DEF JobsInv, Apart
<1>3. Cardinality(Waiting \cup running)
        = Cardinality(Waiting) + Cardinality(running) - Cardinality(Waiting \cap running)
  BY <1>1, FS_Union
<1>4. Cardinality(Waiting \cap running) = 0
  BY <1>2, FS_EmptySet
<1>5. Cardinality(Waiting) = 0 => Waiting = {}
  BY <1>1, FS_EmptySet
<1>6. QED
  BY <1>1, <1>2, <1>3, <1>4, <1>5 DEF Outstanding

(* Steps that leave the jobs where they are.                               *)
LEMMA SameJobs ==
    ASSUME JobsInv, UNCHANGED <<queue, unfinished, running, settled, interrupted, discarded>>
    PROVE  JobsInv' /\ AcceptedJobs' = AcceptedJobs /\ Lost' = Lost
BY DEF JobsInv, Apart, Outstanding, AcceptedJobs, Lost, Waiting

(* The job at the head goes to work.                                       *)
LEMMA TakeJobs ==
    ASSUME JobsInv, running = {}, queue # <<>>,
           running' = {Head(queue)}, queue' = Tail(queue),
           UNCHANGED <<unfinished, settled, interrupted, discarded>>
    PROVE  JobsInv' /\ AcceptedJobs' = AcceptedJobs /\ Lost' = Lost
<1>1. /\ Head(queue) \in Jobs /\ queue' \in Seq(Jobs) /\ Len(queue') = Len(queue) - 1
      /\ IsInjective(queue') /\ Head(queue) \notin Waiting'
      /\ Waiting = {Head(queue)} \cup Waiting'
  BY QueueTake DEF JobsInv, Waiting
<1>2. Len(queue) \in Nat /\ Len(queue) <= Capacity /\ Capacity \in Nat
  BY JobCounts, IngestAssumption DEF JobsInv
<1>3. Cardinality(running) = 0 /\ Cardinality(running') = 1
  BY FS_EmptySet, FS_Singleton
<1>4. Apart'
  BY <1>1 DEF JobsInv, Apart
<1>5. Outstanding' = Outstanding
  BY <1>1, <1>2, <1>3 DEF Outstanding
<1>6. JobsInv'
  BY <1>1, <1>2, <1>4, <1>5 DEF JobsInv
<1>7. QED
  BY <1>1, <1>6 DEF AcceptedJobs, Lost

(* The job in flight ends, by itself or by the cancellation of the worker. *)
LEMMA EndJobs ==
    ASSUME JobsInv, running # {}, Leaves, UNCHANGED discarded,
           \/ settled' = settled \cup running /\ UNCHANGED interrupted
           \/ interrupted' = interrupted \cup running /\ UNCHANGED settled
    PROVE  JobsInv' /\ AcceptedJobs' = AcceptedJobs /\ Lost' \subseteq Lost
<1>1. running' = {} /\ unfinished' = unfinished - 1 /\ queue' = queue /\ Waiting' = Waiting
  BY DEF Leaves, Waiting
<1>2. /\ Len(queue) \in Nat /\ Cardinality(running) = 1 /\ running \subseteq Jobs
      /\ IsFiniteSet(running)
  BY JobCounts
<1>3. Cardinality(running') = 0
  BY <1>1, FS_EmptySet
<1>4. unfinished' = Outstanding'
  BY <1>1, <1>2, <1>3 DEF JobsInv, Outstanding
<1>5. IsFiniteSet(settled') /\ IsFiniteSet(interrupted')
  <2>1. IsFiniteSet(settled) /\ IsFiniteSet(interrupted)
    BY DEF JobsInv
  <2>2. IsFiniteSet(settled \cup running) /\ IsFiniteSet(interrupted \cup running)
    BY <1>2, <2>1, FS_Union
  <2>3. QED
    BY <2>1, <2>2
<1>6. Apart'
  BY <1>1 DEF JobsInv, Apart
<1>7. JobsInv'
  BY <1>1, <1>2, <1>4, <1>5, <1>6 DEF JobsInv
<1>8. QED
  BY <1>1, <1>7 DEF AcceptedJobs, Lost

(* What waits is dropped.                                                  *)
LEMMA DiscardJobs ==
    ASSUME JobsInv, Discards, UNCHANGED <<running, settled, interrupted>>
    PROVE  JobsInv' /\ AcceptedJobs' = AcceptedJobs /\ Lost' = Lost
<1>1. /\ discarded' = discarded \cup Waiting
      /\ queue' = <<>> /\ unfinished' = unfinished - Len(queue)
  BY DEF Discards
<1>2. /\ Waiting \subseteq Jobs /\ IsFiniteSet(Waiting) /\ Len(queue) \in Nat
      /\ Cardinality(running) \in {0, 1}
  BY JobCounts
<1>3. Waiting' = {}
  BY <1>1 DEF Waiting, ToSet
<1>4. /\ queue' \in Seq(Jobs) /\ Len(queue') = 0 /\ Len(queue') <= Capacity
      /\ IsInjective(queue')
  BY <1>1, IngestAssumption DEF IsInjective
<1>5. unfinished' = Outstanding'
  BY <1>1, <1>2, <1>4 DEF JobsInv, Outstanding
<1>6. IsFiniteSet(discarded')
  BY <1>1, <1>2, FS_Union DEF JobsInv
<1>7. Apart'
  BY <1>1, <1>3 DEF JobsInv, Apart
<1>8. JobsInv'
  BY <1>1, <1>2, <1>4, <1>5, <1>6, <1>7 DEF JobsInv
<1>9. QED
  BY <1>1, <1>3, <1>8 DEF AcceptedJobs, Lost

(* A batch that fits enters the queue, each message once.                  *)
LEMMA PutJobs ==
    ASSUME JobsInv, NEW r \in Requests, JobsOf(r) \cap AcceptedJobs = {},
           Len(queue) + Size[r] <= Capacity, Put(Batch(r)),
           UNCHANGED <<running, settled, interrupted, discarded>>
    PROVE  JobsInv' /\ AcceptedJobs' = AcceptedJobs \cup JobsOf(r)
<1>1. Size[r] \in Nat
  BY IngestAssumption
<1>2. \A i \in 1..Size[r] : <<r, i>> \in Jobs
  BY DEF Jobs, JobsOf
<1>3. Batch(r) \in [1..Size[r] -> Jobs]
  BY <1>2 DEF Batch
<1>4. Batch(r) \in Seq(Jobs) /\ Len(Batch(r)) = Size[r]
  BY <1>1, <1>3, IsASeq
<1>5. DOMAIN Batch(r) = 1..Size[r] /\ \A i \in 1..Size[r] : Batch(r)[i] = <<r, i>>
  BY DEF Batch
<1>6. IsInjective(Batch(r))
  BY <1>5 DEF IsInjective
<1>7. ToSet(Batch(r)) = JobsOf(r)
  BY <1>5 DEF ToSet, JobsOf
<1>8. Waiting \cap ToSet(Batch(r)) = {}
  BY <1>7 DEF AcceptedJobs
<1>9. queue' = queue \o Batch(r) /\ unfinished' = unfinished + Size[r]
  BY <1>4 DEF Put
<1>10. /\ queue' \in Seq(Jobs) /\ Len(queue') = Len(queue) + Size[r]
       /\ IsInjective(queue') /\ Waiting' = Waiting \cup JobsOf(r)
  BY <1>4, <1>6, <1>7, <1>8, <1>9, QueuePut DEF JobsInv, Waiting
<1>11. Len(queue) \in Nat /\ Cardinality(running) \in {0, 1}
  BY JobCounts
<1>12. unfinished' = Outstanding'
  BY <1>1, <1>9, <1>10, <1>11 DEF JobsInv, Outstanding
<1>13. Apart'
  BY <1>10 DEF JobsInv, Apart, AcceptedJobs
<1>14. JobsInv'
  BY <1>10, <1>12, <1>13 DEF JobsInv
<1>15. QED
  BY <1>10, <1>14 DEF AcceptedJobs

(* The jobs of a request that was not accepted are nowhere.                *)
LEMMA NotYetAdmitted ==
    ASSUME Inv, NEW r \in Requests, request[r] # "accepted"
    PROVE  JobsOf(r) \cap AcceptedJobs = {}
BY DEF Inv, Admitted, JobsOf

(* Fewer jobs to answer for.                                               *)
LEMMA FewerLost ==
    ASSUME JobsInv, Lost' \subseteq Lost
    PROVE  Cardinality(Lost') \in Nat /\ Cardinality(Lost') <= Cardinality(Lost)
<1>1. IsFiniteSet(Lost)
  BY JobCounts
<1>2. PICK T \in SUBSET Lost : T = Lost'
  OBVIOUS
<1>3. IsFiniteSet(T) /\ Cardinality(T) <= Cardinality(Lost)
  BY <1>1, FS_Subset
<1>4. QED
  BY <1>2, <1>3, FS_CardinalityType

-----------------------------------------------------------------------------
(* The steps.                                                              *)

LEMMA InitInv == Init => Inv
<1> SUFFICES ASSUME Init PROVE Inv
  OBVIOUS
<1>1. /\ queue = <<>> /\ unfinished = 0 /\ running = {}
      /\ accepting = TRUE /\ draining = FALSE
      /\ worker = "get" /\ cancelling = FALSE
      /\ request = [r \in Requests |-> "new"]
      /\ stopper = "idle" /\ unresolved = 0
      /\ settled = {} /\ interrupted = {} /\ discarded = {}
  BY DEF Init
<1>2. Capacity \in Nat
  BY IngestAssumption
<1>3. Waiting = {} /\ Len(queue) = 0 /\ queue \in Seq(Jobs) /\ IsInjective(queue)
  BY <1>1 DEF Waiting, ToSet, IsInjective
<1>4. JobsInv
  <2>1. IsFiniteSet({}) /\ Cardinality(running) = 0
    BY <1>1, FS_EmptySet
  <2>2. Apart
    BY <1>1 DEF Apart
  <2>3. unfinished = Outstanding
    BY <1>1, <1>3, <2>1 DEF Outstanding
  <2>4. QED
    BY <1>1, <1>2, <1>3, <2>1, <2>2, <2>3, IngestAssumption DEF JobsInv
<1>5. ControlInv
  <2>1. /\ accepting \in BOOLEAN /\ draining \in BOOLEAN /\ cancelling \in BOOLEAN
    BY <1>1, Zenon
  <2>2. unresolved \in 0..(Capacity + 1)
    BY <1>1, <1>2
  <2>3. request \in [Requests ->
            {"new", "owning", "accepted", "full", "closed", "conflict"}]
    BY <1>1
  <2>4. worker = "run" <=> running # {}
    BY <1>1
  <2>5. QED
    BY <1>1, <2>1, <2>2, <2>3, <2>4 DEF ControlInv
<1>6. AcceptedJobs = {} /\ Admitted = {}
  BY <1>1, <1>3 DEF AcceptedJobs, Admitted
<1>7. QED
  BY <1>1, <1>4, <1>5, <1>6 DEF Inv, ShutdownInv

(* The answers a request gets without entering the queue.                  *)
LEMMA AnswerInv ==
    ASSUME Inv, NEW r \in Requests, request[r] # "accepted",
           NEW answer \in {"new", "owning", "full", "closed", "conflict"},
           Answers(r, answer),
           UNCHANGED <<queue, unfinished, running, accepting, draining, worker, cancelling,
                       stopper, unresolved, settled, interrupted, discarded>>
    PROVE  Inv'
<1>1. JobsInv' /\ AcceptedJobs' = AcceptedJobs /\ Lost' = Lost
  BY SameJobs DEF Inv
<1>2. request' = [request EXCEPT ![r] = answer]
  BY DEF Answers
<1>3. ControlInv'
  BY <1>2 DEF Inv, ControlInv
<1>4. {s \in Requests : request'[s] = "accepted"} = {s \in Requests : request[s] = "accepted"}
  BY <1>2 DEF Inv, ControlInv
<1>5. Admitted' = Admitted
  BY <1>4 DEF Admitted
<1>6. ShutdownInv'
  BY <1>1 DEF Inv, ShutdownInv
<1>7. QED
  BY <1>1, <1>3, <1>5, <1>6 DEF Inv

LEMMA RequestInv ==
    ASSUME Inv, NEW r \in Requests, Arrive(r) \/ Conflict(r) \/ Decide(r) \/ Retry(r)
    PROVE  Inv'
<1>1. request[r] \in {"new", "owning", "full"}
  BY DEF Arrive, Conflict, Decide, Retry
<1>2. /\ UNCHANGED <<running, accepting, draining, worker, cancelling, stopper, unresolved,
                     settled, interrupted, discarded>>
  BY DEF Arrive, Conflict, Decide, Retry, jobs, shutdown, fates
<1>3. CASE Arrive(r)
  <2>1. PICK answer \in {"owning", "closed"} : Answers(r, answer) /\ UNCHANGED jobs
    BY <1>3 DEF Arrive
  <2>2. QED
    BY <1>1, <1>2, <2>1, AnswerInv DEF jobs
<1>4. CASE Conflict(r) \/ Retry(r)
  <2>1. PICK answer \in {"conflict", "new"} : Answers(r, answer) /\ UNCHANGED jobs
    BY <1>4 DEF Conflict, Retry
  <2>2. QED
    BY <1>1, <1>2, <2>1, AnswerInv DEF jobs
<1>5. CASE Decide(r)
  <2>1. Admit(r)
    BY <1>5 DEF Decide
  <2>2. CASE /\ Answers(r, "closed") \/ Answers(r, "full")
             /\ UNCHANGED <<queue, unfinished>>
    BY <1>1, <1>2, <2>2, AnswerInv
  <2>3. CASE /\ Accepting /\ Len(queue) + Size[r] <= Capacity
             /\ Put(Batch(r)) /\ Answers(r, "accepted")
    <3>1. JobsOf(r) \cap AcceptedJobs = {}
      BY <1>1, NotYetAdmitted
    <3>2. JobsInv' /\ AcceptedJobs' = AcceptedJobs \cup JobsOf(r)
      BY <1>2, <2>3, <3>1, PutJobs DEF Inv
    <3>3. request' = [request EXCEPT ![r] = "accepted"]
      BY <2>3 DEF Answers
    <3>4. ControlInv'
      BY <1>2, <3>3 DEF Inv, ControlInv
    <3>5. {s \in Requests : request'[s] = "accepted"}
            = {s \in Requests : request[s] = "accepted"} \cup {r}
      BY <3>3 DEF Inv, ControlInv
    <3>6. Admitted' = Admitted \cup JobsOf(r)
      BY <3>5 DEF Admitted
    <3>7. stopper = "idle"
      BY <2>3 DEF Inv, ShutdownInv, ControlInv, Accepting
    <3>8. ShutdownInv'
      BY <1>2, <3>7 DEF Inv, ShutdownInv
    <3>9. QED
      BY <3>2, <3>4, <3>6, <3>8 DEF Inv
  <2>4. QED
    BY <2>1, <2>2, <2>3 DEF Admit
<1>6. QED
  BY <1>3, <1>4, <1>5

(* Steps of the worker while nobody, or somebody, waits for it to stop.    *)
LEMMA WorkerStep ==
    ASSUME Inv, JobsInv', AcceptedJobs' = AcceptedJobs, Lost' \subseteq Lost,
           worker' \in {"get", "run", "exited", "gone"}, worker' = "run" <=> running' # {},
           accepting' \in BOOLEAN, cancelling' \in BOOLEAN, cancelling' => cancelling,
           stopper \in {"idle", "joining"} => interrupted' = {},
           UNCHANGED <<draining, request, stopper, unresolved, discarded>>
    PROVE  Inv'
<1>1. ControlInv'
  BY DEF Inv, ControlInv
<1>2. Admitted' = Admitted
  BY DEF Admitted
<1>3. Cardinality(Lost') \in Nat /\ Cardinality(Lost') <= Cardinality(Lost)
  BY FewerLost DEF Inv
<1>4. Cardinality(Lost) \in Nat /\ unresolved \in Nat
  BY JobCounts DEF Inv, ControlInv
<1>5. ShutdownInv'
  BY <1>3, <1>4 DEF Inv, ShutdownInv
<1>6. QED
  BY <1>1, <1>2, <1>5 DEF Inv

LEMMA WorkerInv ==
    ASSUME Inv, Job \/ JobCancelled \/ Loop
    PROVE  Inv'
<1>1. UNCHANGED <<draining, request, stopper, unresolved, discarded>>
  BY DEF Job, JobEnds, JobEndsWorker, JobSuppresses, JobCancelled, Loop, Take,
         WorkerCancelled, LogWorkerExit, Leaves, jobs, shutdown, fates
<1>2. JobsInv /\ ControlInv /\ ShutdownInv
  BY DEF Inv
<1>3. CASE JobEnds \/ JobEndsWorker
  <2>1. /\ worker = "run" /\ ~cancelling /\ Leaves
        /\ worker' \in {"get", "exited"} /\ settled' = settled \cup running
        /\ UNCHANGED <<accepting, cancelling, interrupted>>
    BY <1>3 DEF JobEnds, JobEndsWorker
  <2>2. running # {} /\ running' = {}
    BY <1>2, <2>1 DEF ControlInv, Leaves
  <2>3. JobsInv' /\ AcceptedJobs' = AcceptedJobs /\ Lost' \subseteq Lost
    BY <1>1, <1>2, <2>1, <2>2, EndJobs
  <2>4. QED
    BY <1>1, <1>2, <2>1, <2>2, <2>3, WorkerStep DEF ControlInv, ShutdownInv
<1>4. CASE JobCancelled
  <2>1. /\ worker = "run" /\ cancelling /\ Leaves
        /\ worker' = "exited" /\ cancelling' = FALSE
        /\ interrupted' = interrupted \cup running
        /\ UNCHANGED <<accepting, settled>>
    BY <1>4 DEF JobCancelled
  <2>2. running # {} /\ running' = {} /\ stopper \notin {"idle", "joining"}
    BY <1>2, <2>1 DEF ControlInv, ShutdownInv, Leaves
  <2>3. JobsInv' /\ AcceptedJobs' = AcceptedJobs /\ Lost' \subseteq Lost
    BY <1>1, <1>2, <2>1, <2>2, EndJobs
  <2>4. QED
    BY <1>1, <1>2, <2>1, <2>2, <2>3, WorkerStep DEF ControlInv
<1>5. CASE JobSuppresses \/ WorkerCancelled \/ LogWorkerExit
  <2>1. /\ UNCHANGED <<queue, unfinished, running, settled, interrupted>>
        /\ worker' \in {"get", "run", "exited", "gone"}
        /\ worker' = "run" <=> worker = "run"
        /\ accepting' \in BOOLEAN /\ cancelling' \in BOOLEAN
        /\ cancelling' => cancelling
    <3>1. CASE JobSuppresses \/ WorkerCancelled
      <4>1. accepting' = accepting
        BY <3>1 DEF JobSuppresses, WorkerCancelled
      <4>2. cancelling' = FALSE
        BY <3>1 DEF JobSuppresses, WorkerCancelled
      <4>3. accepting' \in BOOLEAN /\ cancelling' \in BOOLEAN /\ (cancelling' => cancelling)
        BY <1>2, <4>1, <4>2, Zenon DEF ControlInv
      <4>4. QED
        BY <1>2, <3>1, <4>3 DEF JobSuppresses, WorkerCancelled, jobs, fates, ControlInv
    <3>2. CASE LogWorkerExit
      <4>1. accepting' = FALSE
        BY <3>2 DEF LogWorkerExit
      <4>2. cancelling' = cancelling
        BY <3>2 DEF LogWorkerExit
      <4>3. accepting' \in BOOLEAN /\ cancelling' \in BOOLEAN /\ (cancelling' => cancelling)
        BY <1>2, <4>1, <4>2, Zenon DEF ControlInv
      <4>4. QED
        BY <1>2, <3>2, <4>3 DEF LogWorkerExit, jobs, fates, ControlInv
    <3>3. QED
      BY <1>5, <3>1, <3>2
  <2>2. JobsInv' /\ AcceptedJobs' = AcceptedJobs /\ Lost' = Lost
    BY <1>1, <1>2, <2>1, SameJobs
  <2>3. QED
    BY <1>1, <1>2, <2>1, <2>2, WorkerStep DEF ControlInv, ShutdownInv
<1>6. CASE Take
  <2>1. /\ worker = "get" /\ queue # <<>>
        /\ running' = {Head(queue)} /\ queue' = Tail(queue) /\ worker' = "run"
        /\ UNCHANGED <<unfinished, accepting, cancelling, settled, interrupted>>
    BY <1>6 DEF Take, fates
  <2>2. running = {} /\ running' # {}
    BY <1>2, <2>1 DEF ControlInv
  <2>3. JobsInv' /\ AcceptedJobs' = AcceptedJobs /\ Lost' = Lost
    BY <1>1, <1>2, <2>1, <2>2, TakeJobs
  <2>4. QED
    BY <1>1, <1>2, <2>1, <2>2, <2>3, WorkerStep DEF ControlInv, ShutdownInv
<1>7. QED
  BY <1>3, <1>4, <1>5, <1>6 DEF Job, Loop

(* Steps of stop(): the jobs stay where they are or are discarded.         *)
LEMMA StopStep ==
    ASSUME Inv, UNCHANGED <<running, worker, request, settled, interrupted>>,
           Discards \/ UNCHANGED <<queue, unfinished, discarded>>,
           accepting' \in BOOLEAN, draining' = TRUE, cancelling' \in BOOLEAN,
           stopper' \in {"joining", "cancelling", "closing", "returned"},
           unresolved' \in 0..(Capacity + 1),
           stopper' = "joining" => /\ cancelling' = FALSE /\ interrupted = {} /\ discarded' = {}
                                   /\ unresolved' = 0,
           stopper' = "closing" => Lost = {},
           stopper' \in {"cancelling", "returned"} => Cardinality(Lost) <= unresolved'
    PROVE  Inv'
<1>1. JobsInv' /\ AcceptedJobs' = AcceptedJobs /\ Lost' = Lost
  BY SameJobs, DiscardJobs DEF Inv
<1>2. ControlInv'
  BY DEF Inv, ControlInv
<1>3. Admitted' = Admitted
  BY DEF Admitted
<1>4. ShutdownInv'
  BY <1>1 DEF Inv, ShutdownInv
<1>5. QED
  BY <1>1, <1>2, <1>3, <1>4 DEF Inv

LEMMA StopInv ==
    ASSUME Inv, Stop
    PROVE  Inv'
<1>1. /\ stopper = "idle" /\ accepting' = FALSE /\ draining' = TRUE
      /\ UNCHANGED <<running, worker, cancelling, request, settled, interrupted>>
  BY DEF Stop
<1>2. cancelling = FALSE /\ interrupted = {} /\ discarded = {} /\ JobsInv
  BY <1>1 DEF Inv, ShutdownInv
<1>3. CASE /\ stopper' = "joining" /\ unresolved' = 0
           /\ UNCHANGED <<queue, unfinished, discarded>>
  <2>1. UNCHANGED <<running, worker, request, settled, interrupted>>
    BY <1>1
  <2>2. Discards \/ UNCHANGED <<queue, unfinished, discarded>>
    BY <1>3
  <2>3. accepting' \in BOOLEAN
    BY <1>1
  <2>4. draining' = TRUE
    BY <1>1
  <2>5. cancelling' = FALSE
    BY <1>1, <1>2
  <2>6. cancelling' \in BOOLEAN
    BY <2>5
  <2>7. stopper' = "joining" /\ unresolved' = 0 /\ unresolved' \in 0..(Capacity + 1)
    BY <1>3, IngestAssumption
  <2>8. interrupted = {} /\ discarded' = {}
    BY <1>2, <1>3
  <2>9. QED
    BY <2>1, <2>2, <2>3, <2>4, <2>5, <2>6, <2>7, <2>8, StopStep
<1>4. CASE stopper' = "returned" /\ unresolved' = Outstanding /\ Discards
  <2>1. Lost = Waiting \cup running
    BY <1>2 DEF Lost
  <2>2. Cardinality(Lost) = Outstanding /\ Outstanding \in 0..(Capacity + 1)
    BY <1>2, <2>1, OutstandingCounts
  <2>3. UNCHANGED <<running, worker, request, settled, interrupted>>
    BY <1>1
  <2>4. Discards \/ UNCHANGED <<queue, unfinished, discarded>>
    BY <1>4
  <2>5. accepting' \in BOOLEAN
    BY <1>1
  <2>6. draining' = TRUE
    BY <1>1
  <2>7. cancelling' = FALSE
    BY <1>1, <1>2
  <2>8. cancelling' \in BOOLEAN
    BY <2>7
  <2>9. stopper' = "returned" /\ unresolved' \in 0..(Capacity + 1)
    BY <1>4, <2>2
  <2>10. Cardinality(Lost) <= unresolved'
    BY <1>4, <2>2
  <2>11. QED
    BY <2>3, <2>4, <2>5, <2>6, <2>8, <2>9, <2>10, StopStep
<1>5. QED
  BY <1>3, <1>4 DEF Stop

LEMMA JoinedInv ==
    ASSUME Inv, Joined
    PROVE  Inv'
<1>1. /\ stopper = "joining" /\ unfinished = 0
      /\ stopper' \in {"returned", "closing"} /\ cancelling' \in {cancelling, TRUE}
      /\ UNCHANGED <<queue, unfinished, running, accepting, draining, worker, request,
                     unresolved, settled, interrupted, discarded>>
  BY DEF Joined, jobs, fates
<1>2. /\ JobsInv /\ interrupted = {} /\ discarded = {} /\ unresolved = 0 /\ draining = TRUE
      /\ unfinished = Outstanding
  BY <1>1 DEF Inv, ShutdownInv, JobsInv
<1>3. Lost = {}
  BY <1>1, <1>2, OutstandingCounts DEF Lost
<1>4. Cardinality(Lost) = 0
  BY <1>3, FS_EmptySet
<1>5. accepting \in BOOLEAN /\ cancelling' \in BOOLEAN /\ unresolved' \in 0..(Capacity + 1)
  BY <1>1 DEF Inv, ControlInv
<1>6. UNCHANGED <<running, worker, request, settled, interrupted>>
  BY <1>1
<1>7. Discards \/ UNCHANGED <<queue, unfinished, discarded>>
  BY <1>1
<1>8. accepting' \in BOOLEAN
  BY <1>1, <1>5
<1>9. draining' = TRUE
  BY <1>1, <1>2
<1>10. stopper' \in {"closing", "returned"}
  BY <1>1
<1>11. Cardinality(Lost) <= unresolved'
  BY <1>1, <1>2, <1>4
<1>12. QED
  BY <1>3, <1>5, <1>6, <1>7, <1>8, <1>9, <1>10, <1>11, StopStep

LEMMA DrainTimesOutInv ==
    ASSUME Inv, DrainTimesOut
    PROVE  Inv'
<1>1. /\ stopper = "joining" /\ unresolved' = Outstanding
      /\ stopper' \in {"returned", "cancelling"} /\ cancelling' \in {cancelling, TRUE}
      /\ Discards \/ UNCHANGED <<queue, unfinished, discarded>>
      /\ UNCHANGED <<running, accepting, draining, worker, request, settled, interrupted>>
  BY DEF DrainTimesOut
<1>2. JobsInv /\ interrupted = {} /\ discarded = {} /\ draining = TRUE
  BY <1>1 DEF Inv, ShutdownInv
<1>3. Lost = Waiting \cup running
  BY <1>2 DEF Lost
<1>4. Cardinality(Lost) = Outstanding /\ Outstanding \in 0..(Capacity + 1)
  BY <1>2, <1>3, OutstandingCounts
<1>5. accepting \in BOOLEAN /\ cancelling' \in BOOLEAN
  BY <1>1 DEF Inv, ControlInv
<1>6. UNCHANGED <<running, worker, request, settled, interrupted>>
  BY <1>1
<1>7. Discards \/ UNCHANGED <<queue, unfinished, discarded>>
  BY <1>1
<1>8. accepting' \in BOOLEAN
  BY <1>1, <1>5
<1>9. draining' = TRUE
  BY <1>1, <1>2
<1>10. cancelling' \in BOOLEAN
  BY <1>1, <1>5
<1>11. stopper' \in {"returned", "cancelling"} /\ unresolved' \in 0..(Capacity + 1)
  BY <1>1, <1>4
<1>12. Cardinality(Lost) <= unresolved'
  BY <1>1, <1>4
<1>13. QED
  BY <1>6, <1>7, <1>8, <1>9, <1>10, <1>11, <1>12, StopStep

LEMMA ReturnsInv ==
    ASSUME Inv, WorkerStopped \/ GraceEnds
    PROVE  Inv'
<1>1. /\ stopper \in {"cancelling", "closing"} /\ stopper' = "returned"
      /\ cancelling' \in {cancelling, TRUE}
      /\ Discards \/ UNCHANGED <<queue, unfinished, discarded>>
      /\ UNCHANGED <<running, accepting, draining, worker, request, unresolved, settled,
                     interrupted>>
  BY DEF WorkerStopped, GraceEnds, Returns
<1>2. draining = TRUE /\ accepting \in BOOLEAN /\ cancelling' \in BOOLEAN
      /\ unresolved' \in 0..(Capacity + 1)
  BY <1>1 DEF Inv, ControlInv, ShutdownInv
<1>3. Cardinality(Lost) <= unresolved'
  <2>1. CASE stopper = "closing"
    <3>1. Cardinality(Lost) = 0
      BY <2>1, FS_EmptySet DEF Inv, ShutdownInv
    <3>2. QED
      BY <1>2, <3>1
  <2>2. CASE stopper = "cancelling"
    BY <1>1, <2>2 DEF Inv, ShutdownInv
  <2>3. QED
    BY <1>1, <2>1, <2>2
<1>4. QED
  BY <1>1, <1>2, <1>3, StopStep

LEMMA NextInv == Inv /\ [Next]_vars => Inv'
<1> SUFFICES ASSUME Inv, [Next]_vars PROVE Inv'
  OBVIOUS
<1>1. CASE UNCHANGED vars
  <2>1. UNCHANGED <<queue, unfinished, running, accepting, draining, worker, cancelling,
                    request, stopper, unresolved, settled, interrupted, discarded>>
    BY <1>1 DEF vars, jobs, shutdown, fates
  <2>2. JobsInv' /\ AcceptedJobs' = AcceptedJobs /\ Lost' = Lost
    BY <2>1, SameJobs DEF Inv
  <2>3. ControlInv' /\ ShutdownInv' /\ Admitted' = Admitted
    BY <2>1, <2>2 DEF Inv, ControlInv, ShutdownInv, Admitted
  <2>4. QED
    BY <2>2, <2>3 DEF Inv
<1>2. QED
  BY <1>1, RequestInv, WorkerInv, StopInv, JoinedInv, DrainTimesOutInv, ReturnsInv
     DEF Next, Stopping

-----------------------------------------------------------------------------
(* The theorems.                                                           *)

(* The inductive invariant holds throughout.                               *)
THEOREM InvHolds == Spec => []Inv
BY InitInv, NextInv, PTL DEF Spec

(* The types; the queue never holds more than its maxsize, so that the     *)
(* put_nowait of a batch that was let in cannot fail half-way.             *)
THEOREM TypesHold == Spec => []TypeOK
<1>1. Inv => TypeOK
  <2> SUFFICES ASSUME Inv PROVE TypeOK
    OBVIOUS
  <2>1. running \subseteq Jobs /\ Cardinality(running) \in {0, 1}
    BY JobCounts DEF Inv
  <2>2. unfinished \in 0..(Capacity + 1)
    BY OutstandingCounts DEF Inv, JobsInv
  <2>3. accepting \in BOOLEAN /\ draining \in BOOLEAN /\ cancelling \in BOOLEAN
    BY Zenon DEF Inv, ControlInv
  <2>4. QED
    BY <2>1, <2>2, <2>3 DEF Inv, JobsInv, ControlInv, TypeOK
<1>2. QED
  BY InvHolds, <1>1, PTL

(* asyncio's count of unfinished jobs is the number of jobs waiting or in  *)
(* flight, however earlier jobs ended, so queue.join() in stop() means     *)
(* that everything accepted is done.                                       *)
THEOREM JoinMeansDone == Spec => []UnfinishedExact
<1>1. Inv => UnfinishedExact
  BY DEF Inv, JobsInv, UnfinishedExact
<1>2. QED
  BY InvHolds, <1>1, PTL

LEMMA DisjointUnion ==
    ASSUME NEW S, NEW T, IsFiniteSet(S), IsFiniteSet(T), S \cap T = {}
    PROVE  /\ IsFiniteSet(S \cup T)
           /\ Cardinality(S \cup T) = Cardinality(S) + Cardinality(T)
<1>1. Cardinality(S \cap T) = 0
  BY FS_EmptySet
<1>2. Cardinality(S) \in Nat /\ Cardinality(T) \in Nat
  BY FS_CardinalityType
<1>3. /\ IsFiniteSet(S \cup T)
      /\ Cardinality(S \cup T) = Cardinality(S) + Cardinality(T) - Cardinality(S \cap T)
  BY FS_Union
<1>4. QED
  BY <1>1, <1>2, <1>3

(* The jobs in the server's hands are exactly those of the batches it      *)
(* accepted, whole, and each is in one place: waiting, in flight, settled, *)
(* interrupted or discarded, once.                                         *)
THEOREM WholeBatches == Spec => []BatchesWhole
<1>1. Inv => BatchesWhole
  <2> SUFFICES ASSUME Inv PROVE BatchesWhole
    OBVIOUS
  <2>1. /\ IsFiniteSet(Waiting) /\ Cardinality(Waiting) = Len(queue)
        /\ IsFiniteSet(running) /\ IsFiniteSet(settled)
        /\ IsFiniteSet(interrupted) /\ IsFiniteSet(discarded)
        /\ Apart
    BY JobCounts DEF Inv, JobsInv
  <2> DEFINE two == Waiting \cup running
             three == two \cup settled
             four == three \cup interrupted
  <2>2. two \cap settled = {} /\ three \cap interrupted = {} /\ four \cap discarded = {}
    BY <2>1 DEF Apart
  <2>3. IsFiniteSet(two) /\ Cardinality(two) = Len(queue) + Cardinality(running)
    BY <2>1, DisjointUnion DEF Apart
  <2>4. /\ IsFiniteSet(three)
        /\ Cardinality(three) = Cardinality(two) + Cardinality(settled)
    <3> HIDE DEF two
    <3>1. QED
      BY <2>1, <2>2, <2>3, DisjointUnion
  <2>5. /\ IsFiniteSet(four)
        /\ Cardinality(four) = Cardinality(three) + Cardinality(interrupted)
    <3> HIDE DEF three
    <3>1. QED
      BY <2>1, <2>2, <2>4, DisjointUnion
  <2>6. Cardinality(four \cup discarded) = Cardinality(four) + Cardinality(discarded)
    <3> HIDE DEF four
    <3>1. QED
      BY <2>1, <2>2, <2>5, DisjointUnion
  <2>7. four \cup discarded = AcceptedJobs
    BY DEF AcceptedJobs
  <2>8. Cardinality(AcceptedJobs) = Len(queue) + Cardinality(running) + Cardinality(settled)
                                      + Cardinality(interrupted) + Cardinality(discarded)
    <3> HIDE DEF four, three, two
    <3>1. QED
      BY <2>3, <2>4, <2>5, <2>6, <2>7
  <2>9. QED
    BY <2>8 DEF Inv, BatchesWhole, Admitted
<1>2. QED
  BY InvHolds, <1>1, PTL

(* The number stop() answers covers every job that it discarded,           *)
(* interrupted or left running, whatever the jobs did with cancellation.   *)
THEOREM HonestShutdown == Spec => []ShutdownHonest
<1>1. Inv => ShutdownHonest
  BY DEF Inv, ShutdownInv, ShutdownHonest, Lost
<1>2. QED
  BY InvHolds, <1>1, PTL
=============================================================================
