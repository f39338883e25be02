----------------------- MODULE CapacityLimiter_proofs -----------------------
(***************************************************************************)
(* Machine-checked proofs about CapacityLimiter, for any number of calls,  *)
(* any capacities and queue lengths, and any number of thread phases.      *)
(***************************************************************************)
EXTENDS CapacityLimiter, SequenceTheorems, FiniteSetTheorems, TLAPS

(* The slots add up.  Only finitely many calls ever hold one, though there *)
(* may be infinitely many calls.                                           *)
Counted ==
    /\ available \in Nat
    /\ IsFiniteSet(InTransit) /\ IsFiniteSet(owner) /\ IsFiniteSet(returning)
    /\ available + Cardinality(InTransit) + Cardinality(owner)
                 + Cardinality(returning) = Capacity[mode]

(* Where the slot of a call is, by where the call stands: a call that      *)
(* queues has none and no thread, one that goes on owns a lease that has   *)
(* not been told to release, and a running thread is backed by a slot that *)
(* is about to be held, is held, or is the one its search keeps.           *)
CallAt(c) ==
    /\ grant[c] # "none" => pc[c] \in {"waiting", "unwinding"}
    /\ pc[c] \in {"waiting", "unwinding"} =>
         thread[c] = "none" /\ c \notin owner /\ c \notin returning
    /\ ~(c \in owner /\ c \in returning)
    /\ pc[c] = "ready" => thread[c] # "running"
    /\ pc[c] \in {"ready", "hold", "release"} => c \in owner /\ c \notin requested
    /\ pc[c] = "phase" /\ mode = "pipeline" => c \in owner /\ c \notin requested
    /\ pc[c] = "hold" => mode # "search"
    /\ pc[c] = "release" => mode = "mutation"
    /\ pc[c] = "cancelled" => mode = "pipeline"
    /\ thread[c] = "running" =>
         c \in owner /\ (pc[c] = "hold" \/ c \in held \/ mode = "search")

Inv ==
    /\ TypeOK
    /\ Counted
    /\ NoLostWakeup
    /\ \A c \in Calls : CallAt(c)

-----------------------------------------------------------------------------
(* What the steps leave alone.                                             *)

LEMMA CapacityTypes == \A m \in Modes : Capacity[m] \in Nat /\ Capacity[m] > 0 /\ MaxWaiters[m] \in Nat
BY LimiterAssumption

(* A call is as it was.                                                    *)
Still(x) ==
    /\ grant'[x] = grant[x] /\ pc'[x] = pc[x] /\ thread'[x] = thread[x]
    /\ x \in owner' <=> x \in owner
    /\ x \in requested' <=> x \in requested
    /\ x \in held' <=> x \in held
    /\ x \in returning' <=> x \in returning

LEMMA StillAt ==
    ASSUME NEW x \in Calls, CallAt(x), Still(x), mode' = mode
    PROVE  CallAt(x)'
BY DEF CallAt, Still

LEMMA AvailableTyped ==
    ASSUME Counted', mode' \in Modes
    PROVE  available' \in 0..Capacity[mode']
<1>1. /\ available' \in Nat
      /\ Cardinality(InTransit') \in Nat /\ Cardinality(owner') \in Nat
      /\ Cardinality(returning') \in Nat
      /\ available' + Cardinality(InTransit') + Cardinality(owner')
                    + Cardinality(returning') = Capacity[mode']
  BY FS_CardinalityType DEF Counted
<1>2. Capacity[mode'] \in Nat
  BY CapacityTypes
<1>3. QED
  BY <1>1, <1>2

(* Steps of one call that leave the limiter to itself.                     *)
LEMMA QuietStep ==
    ASSUME Inv, NEW c \in Calls, UNCHANGED <<mode, available, waiters, grant>>,
           Counted', pc' \in [Calls -> Pcs],
           thread' \in [Calls -> {"none", "running", "done"}],
           phases' \in [Calls -> 0..MaxPhases],
           owner' \subseteq Calls, returning' \subseteq Calls,
           held' \subseteq owner', requested' \subseteq owner',
           \A x \in Calls \ {c} : Still(x),
           CallAt(c)'
    PROVE  Inv'
<1>1. TypeOK' /\ NoLostWakeup'
  BY DEF Inv, TypeOK, NoLostWakeup
<1>2. \A x \in Calls : CallAt(x)'
  BY StillAt DEF Inv
<1>3. QED
  BY <1>1, <1>2 DEF Inv

LEMMA CountedSame ==
    ASSUME Counted, UNCHANGED <<mode, available, owner, returning>>, InTransit' = InTransit
    PROVE  Counted'
BY DEF Counted

-----------------------------------------------------------------------------
(* The limiter.                                                            *)

LEMMA InitInv == Init => Inv
<1> SUFFICES ASSUME Init PROVE Inv
  OBVIOUS
<1>1. /\ mode \in Modes /\ available = Capacity[mode] /\ waiters = <<>>
      /\ grant = [c \in Calls |-> "none"] /\ pc = [c \in Calls |-> "idle"]
      /\ owner = {} /\ requested = {} /\ held = {} /\ returning = {}
      /\ thread = [c \in Calls |-> "none"] /\ phases = [c \in Calls |-> 0]
  BY DEF Init
<1>2. Capacity[mode] \in Nat /\ MaxWaiters[mode] \in Nat
  BY <1>1, CapacityTypes
<1>3. TypeOK
  BY <1>1, <1>2, LimiterAssumption DEF TypeOK, Pcs
<1>4. InTransit = {}
  BY <1>1 DEF InTransit
<1>5. Counted
  BY <1>1, <1>2, <1>4, FS_EmptySet DEF Counted
<1>6. NoLostWakeup /\ \A c \in Calls : CallAt(c)
  BY <1>1 DEF NoLostWakeup, CallAt
<1>7. QED
  BY <1>3, <1>5, <1>6 DEF Inv

(* A free slot is taken.                                                   *)
LEMMA AcquireFreeInv ==
    ASSUME Inv, NEW c \in Calls, Acquire(c), available > 0
    PROVE  Inv'
<1>1. /\ pc[c] = "idle" /\ thread[c] = "none" /\ c \notin owner /\ c \notin returning
      /\ available' = available - 1
      /\ owner' = owner \cup {c} /\ pc' = [pc EXCEPT ![c] = "ready"]
      /\ phases' = [phases EXCEPT ![c] = 0]
      /\ UNCHANGED <<mode, waiters, grant, requested, held, returning, thread>>
  BY DEF Acquire, Rested, Opens, Goto, Inv, TypeOK
<1>2. /\ available \in Nat /\ IsFiniteSet(owner)
      /\ Cardinality(owner) \in Nat /\ Cardinality(InTransit) \in Nat
      /\ Cardinality(returning) \in Nat
  BY FS_CardinalityType DEF Inv, Counted
<1>3. IsFiniteSet(owner') /\ Cardinality(owner') = Cardinality(owner) + 1
  BY <1>1, <1>2, FS_AddElement
<1>4. InTransit' = InTransit
  BY <1>1 DEF InTransit
<1>5. Counted'
  BY <1>1, <1>2, <1>3, <1>4 DEF Inv, Counted
<1>6. TypeOK'
  BY <1>1, <1>5, AvailableTyped, LimiterAssumption DEF Inv, TypeOK, Pcs
<1>7. CallAt(c)'
  BY <1>1 DEF Inv, TypeOK, CallAt
<1>8. \A x \in Calls : CallAt(x)'
  BY <1>1, <1>7, StillAt DEF Still, Inv, TypeOK
<1>9. NoLostWakeup'
  BY <1>1 DEF Inv, NoLostWakeup
<1>10. QED
  BY <1>5, <1>6, <1>8, <1>9 DEF Inv

(* A call joins the queue.                                                 *)
LEMMA AcquireQueuedInv ==
    ASSUME Inv, NEW c \in Calls, Acquire(c), ~(available > 0)
    PROVE  Inv'
<1>1. /\ pc[c] = "idle" /\ thread[c] = "none" /\ c \notin owner /\ c \notin returning
      /\ available = 0 /\ Len(waiters) < MaxWaiters[mode]
      /\ waiters' = Append(waiters, c)
      /\ grant' = [grant EXCEPT ![c] = "pending"]
      /\ pc' = [pc EXCEPT ![c] = "waiting"]
      /\ phases' = [phases EXCEPT ![c] = 0]
      /\ UNCHANGED <<mode, available, owner, requested, held, returning, thread>>
  BY DEF Acquire, Rested, Opens, Goto, Inv, TypeOK
<1>2. grant[c] = "none"
  BY <1>1 DEF Inv, CallAt
<1>3. InTransit' = InTransit
  BY <1>1, <1>2 DEF Inv, TypeOK, InTransit
<1>4. Counted'
  BY <1>1, <1>3, CountedSame DEF Inv
<1>5. waiters' \in Seq(Calls) /\ Len(waiters') = Len(waiters) + 1
  BY <1>1 DEF Inv, TypeOK
<1>6. Len(waiters) \in Nat /\ MaxWaiters[mode] \in Nat
  BY CapacityTypes DEF Inv, TypeOK
<1>7. TypeOK'
  BY <1>1, <1>5, <1>6, LimiterAssumption DEF Inv, TypeOK, Pcs
<1>8. CallAt(c)'
  BY <1>1 DEF Inv, TypeOK, CallAt
<1>9. \A x \in Calls : CallAt(x)'
  BY <1>1, <1>8, StillAt DEF Still, Inv, TypeOK
<1>10. QED
  BY <1>1, <1>4, <1>7, <1>9 DEF Inv, NoLostWakeup

(* A granted slot passes from the waiter to its lease.                     *)
LEMMA ResumeInv ==
    ASSUME Inv, NEW c \in Calls, Resume(c)
    PROVE  Inv'
<1>1. /\ pc[c] = "waiting" /\ grant[c] = "granted"
      /\ grant' = [grant EXCEPT ![c] = "none"]
      /\ owner' = owner \cup {c} /\ pc' = [pc EXCEPT ![c] = "ready"]
      /\ UNCHANGED <<mode, available, waiters, requested, held, returning, thread, phases>>
  BY DEF Resume, Opens, Goto
<1>2. c \notin owner /\ c \notin returning /\ thread[c] = "none"
  BY <1>1 DEF Inv, CallAt
<1>3. InTransit' = InTransit \ {c} /\ c \in InTransit
  BY <1>1 DEF Inv, TypeOK, InTransit
<1>4. /\ available \in Nat /\ IsFiniteSet(owner) /\ IsFiniteSet(InTransit)
      /\ Cardinality(owner) \in Nat /\ Cardinality(InTransit) \in Nat
      /\ Cardinality(returning) \in Nat
  BY FS_CardinalityType DEF Inv, Counted
<1>5. IsFiniteSet(owner') /\ Cardinality(owner') = Cardinality(owner) + 1
  BY <1>1, <1>2, <1>4, FS_AddElement
<1>6. IsFiniteSet(InTransit') /\ Cardinality(InTransit') = Cardinality(InTransit) - 1
  BY <1>3, <1>4, FS_RemoveElement
<1>7. Counted'
  BY <1>1, <1>4, <1>5, <1>6 DEF Inv, Counted
<1>8. TypeOK'
  BY <1>1 DEF Inv, TypeOK, Pcs
<1>9. CallAt(c)'
  BY <1>1, <1>2 DEF Inv, TypeOK, CallAt
<1>10. \A x \in Calls : CallAt(x)'
  BY <1>1, <1>9, StillAt DEF Still, Inv, TypeOK
<1>11. QED
  BY <1>1, <1>7, <1>8, <1>10 DEF Inv, NoLostWakeup

LEMMA CancelWaiterInv ==
    ASSUME Inv, NEW c \in Calls, CancelWaiting(c) \/ CancelWaiter(c)
    PROVE  Inv'
<1>1. /\ pc[c] \in {"waiting", "unwinding"}
      /\ pc' \in {pc, [pc EXCEPT ![c] = "unwinding"]}
      /\ \/ UNCHANGED grant
         \/ grant[c] = "pending" /\ grant' = [grant EXCEPT ![c] = "cancelled"]
      /\ pc'[c] = "unwinding" /\ \A x \in Calls \ {c} : pc'[x] = pc[x]
      /\ UNCHANGED <<mode, available, waiters, owner, requested, held, returning, thread,
                     phases>>
  BY DEF CancelWaiting, CancelWaiter, Goto, limiter, lease, Inv, TypeOK
<1>2. InTransit' = InTransit
  BY <1>1 DEF Inv, TypeOK, InTransit
<1>3. Counted'
  BY <1>1, <1>2, CountedSame DEF Inv
<1>4. TypeOK'
  BY <1>1 DEF Inv, TypeOK, Pcs
<1>5. CallAt(c)'
  BY <1>1 DEF Inv, TypeOK, CallAt
<1>6. \A x \in Calls : CallAt(x)'
  BY <1>1, <1>5, StillAt DEF Still, Inv, TypeOK
<1>7. QED
  BY <1>1, <1>3, <1>4, <1>6 DEF Inv, NoLostWakeup

(* A waiter that leaves the queue makes it no longer.                      *)
LEMMA LeavesQueue ==
    ASSUME Inv, NEW c \in Calls, Leaves(c)
    PROVE  /\ waiters' \in Seq(Calls) /\ Len(waiters') <= MaxWaiters[mode]
           /\ waiters = <<>> => waiters' = <<>>
<1>1. /\ waiters \in Seq(Calls) /\ Len(waiters) \in Nat
      /\ Len(waiters) <= MaxWaiters[mode] /\ MaxWaiters[mode] \in Nat
  BY CapacityTypes DEF Inv, TypeOK
<1>2. CASE UNCHANGED waiters
  BY <1>1, <1>2
<1>3. ASSUME NEW i \in DOMAIN waiters, waiters' = RemoveAt(waiters, i)
      PROVE  /\ waiters' \in Seq(Calls) /\ Len(waiters') = Len(waiters) - 1
             /\ waiters # <<>>
  <2>1. i \in 1..Len(waiters)
    BY <1>1, <1>3
  <2>2. /\ SubSeq(waiters, 1, i - 1) \in Seq(Calls)
        /\ Len(SubSeq(waiters, 1, i - 1)) = i - 1
    BY <1>1, <2>1
  <2>3. /\ SubSeq(waiters, i + 1, Len(waiters)) \in Seq(Calls)
        /\ Len(SubSeq(waiters, i + 1, Len(waiters))) = Len(waiters) - i
    BY <1>1, <2>1
  <2>4. PICK before, after \in Seq(Calls) :
            /\ waiters' = before \o after
            /\ Len(before) = i - 1 /\ Len(after) = Len(waiters) - i
    BY <1>3, <2>2, <2>3 DEF RemoveAt
  <2>5. waiters' \in Seq(Calls) /\ Len(waiters') = Len(before) + Len(after)
    BY <2>4, ConcatProperties
  <2>6. QED
    BY <1>1, <2>1, <2>4, <2>5
<1>4. QED
  BY <1>1, <1>2, <1>3 DEF Leaves

(* A cancelled call leaves the queue, or gives its grant back.             *)
LEMMA UnwindInv ==
    ASSUME Inv, NEW c \in Calls, Unwind(c)
    PROVE  Inv'
<1>1. /\ pc[c] = "unwinding"
      /\ grant' = [grant EXCEPT ![c] = "none"] /\ pc' = [pc EXCEPT ![c] = "idle"]
      /\ UNCHANGED <<mode, available, owner, requested, held, thread, phases>>
  BY DEF Unwind, Goto
<1>2. c \notin owner /\ c \notin returning /\ thread[c] = "none"
  BY <1>1 DEF Inv, CallAt
<1>3. CASE grant[c] # "granted" /\ Leaves(c) /\ UNCHANGED returning
  <2>1. InTransit' = InTransit
    BY <1>1, <1>3 DEF Inv, TypeOK, InTransit
  <2>2. Counted'
    BY <1>1, <1>3, <2>1, CountedSame DEF Inv
  <2>3. /\ waiters' \in Seq(Calls) /\ Len(waiters') <= MaxWaiters[mode]
        /\ waiters = <<>> => waiters' = <<>>
    BY <1>3, LeavesQueue
  <2>4. TypeOK'
    BY <1>1, <1>3, <2>3 DEF Inv, TypeOK, Pcs
  <2>5. CallAt(c)'
    BY <1>1, <1>2, <1>3 DEF Inv, TypeOK, CallAt
  <2>6. \A x \in Calls : CallAt(x)'
    BY <1>1, <1>3, <2>5, StillAt DEF Still, Inv, TypeOK
  <2>7. QED
    BY <1>1, <2>2, <2>3, <2>4, <2>6 DEF Inv, NoLostWakeup
<1>4. CASE grant[c] = "granted" /\ returning' = returning \cup {c} /\ UNCHANGED waiters
  <2>1. InTransit' = InTransit \ {c} /\ c \in InTransit
    BY <1>1, <1>4 DEF Inv, TypeOK, InTransit
  <2>2. /\ available \in Nat /\ IsFiniteSet(returning) /\ IsFiniteSet(InTransit)
        /\ Cardinality(owner) \in Nat /\ Cardinality(InTransit) \in Nat
        /\ Cardinality(returning) \in Nat
    BY FS_CardinalityType DEF Inv, Counted
  <2>3. IsFiniteSet(returning') /\ Cardinality(returning') = Cardinality(returning) + 1
    BY <1>2, <1>4, <2>2, FS_AddElement
  <2>4. IsFiniteSet(InTransit') /\ Cardinality(InTransit') = Cardinality(InTransit) - 1
    BY <2>1, <2>2, FS_RemoveElement
  <2>5. Counted'
    BY <1>1, <2>2, <2>3, <2>4 DEF Inv, Counted
  <2>6. TypeOK'
    BY <1>1, <1>4 DEF Inv, TypeOK, Pcs
  <2>7. CallAt(c)'
    BY <1>1, <1>2, <1>4 DEF Inv, TypeOK, CallAt
  <2>8. \A x \in Calls : CallAt(x)'
    BY <1>1, <1>4, <2>7, StillAt DEF Still, Inv, TypeOK
  <2>9. QED
    BY <1>1, <1>4, <2>5, <2>6, <2>8 DEF Inv, NoLostWakeup
<1>5. QED
  BY <1>3, <1>4 DEF Unwind

(* A returned slot goes to a waiter or becomes free.                       *)
LEMMA ReleaseInv ==
    ASSUME Inv, NEW c \in Calls, Release(c)
    PROVE  Inv'
<1>1. /\ c \in returning /\ returning' = returning \ {c}
      /\ UNCHANGED <<mode, pc, owner, requested, held, thread, phases>>
  BY DEF Release
<1>2. /\ available \in Nat /\ IsFiniteSet(returning) /\ IsFiniteSet(InTransit)
      /\ Cardinality(owner) \in Nat /\ Cardinality(InTransit) \in Nat
      /\ Cardinality(returning) \in Nat
  BY FS_CardinalityType DEF Inv, Counted
<1>3. IsFiniteSet(returning') /\ Cardinality(returning') = Cardinality(returning) - 1
  BY <1>1, <1>2, FS_RemoveElement
<1>4. /\ waiters \in Seq(Calls) /\ Len(waiters) \in Nat
      /\ Len(waiters) <= MaxWaiters[mode] /\ MaxWaiters[mode] \in Nat
  BY CapacityTypes DEF Inv, TypeOK
<1>5. ASSUME NEW i \in DOMAIN waiters, grant[waiters[i]] = "pending",
             grant' = [grant EXCEPT ![waiters[i]] = "granted"],
             waiters' = SubSeq(waiters, i + 1, Len(waiters)),
             UNCHANGED available
      PROVE  Inv'
  <2>1. i \in 1..Len(waiters) /\ waiters # <<>>
    BY <1>4, <1>5
  <2>2. PICK w \in Calls : w = waiters[i]
    BY <1>4, <2>1
  <2>3. pc[w] \in {"waiting", "unwinding"}
    BY <1>5, <2>2 DEF Inv, CallAt
  <2>4. InTransit' = InTransit \cup {w} /\ w \notin InTransit
    BY <1>5, <2>2 DEF Inv, TypeOK, InTransit
  <2>5. IsFiniteSet(InTransit') /\ Cardinality(InTransit') = Cardinality(InTransit) + 1
    BY <1>2, <2>4, FS_AddElement
  <2>6. Counted'
    BY <1>1, <1>2, <1>3, <1>5, <2>5 DEF Inv, Counted
  <2>7. waiters' \in Seq(Calls) /\ Len(waiters') <= Len(waiters) /\ Len(waiters') \in Nat
    BY <1>4, <1>5, <2>1
  <2>8. TypeOK'
    <3>1. grant' \in [Calls -> {"none", "pending", "granted", "cancelled"}]
      BY <1>5, <2>2 DEF Inv, TypeOK
    <3>2. waiters' \in Seq(Calls) /\ Len(waiters') <= MaxWaiters[mode]
      BY <1>4, <2>7
    <3>3. QED
      BY <1>1, <1>5, <3>1, <3>2 DEF Inv, TypeOK
  <2>9. available = 0
    BY <1>2, <2>1 DEF Inv, NoLostWakeup
  <2>10. ASSUME NEW x \in Calls PROVE CallAt(x)'
    <3>1. CASE x = w
      BY <1>1, <1>5, <2>2, <2>3, <3>1 DEF Inv, TypeOK, CallAt
    <3>2. CASE x # w
      BY <1>1, <1>5, <2>2, <3>2 DEF Inv, TypeOK, CallAt
    <3>3. QED
      BY <3>1, <3>2
  <2>11. QED
    BY <1>5, <2>6, <2>8, <2>9, <2>10 DEF Inv, NoLostWakeup
<1>6. CASE waiters' = <<>> /\ available' = available + 1 /\ UNCHANGED grant
  <2>1. InTransit' = InTransit
    BY <1>6 DEF InTransit
  <2>2. Counted'
    BY <1>1, <1>2, <1>3, <1>6, <2>1 DEF Inv, Counted
  <2>3. TypeOK'
    BY <1>1, <1>4, <1>6, <2>2, AvailableTyped DEF Inv, TypeOK
  <2>4. \A x \in Calls : CallAt(x)'
    BY <1>1, <1>6 DEF Inv, CallAt
  <2>5. QED
    BY <1>6, <2>2, <2>3, <2>4 DEF Inv, NoLostWakeup
<1>7. QED
  BY <1>5, <1>6 DEF Release

-----------------------------------------------------------------------------
(* The lease.                                                              *)

(* What a release of the lease does, whether it is deferred, takes effect  *)
(* or comes too late.                                                      *)
LEMMA LetsGoEffect ==
    ASSUME Inv, NEW c \in Calls, LetsGo(c), UNCHANGED <<mode, available, grant>>
    PROVE  /\ Counted'
           /\ held' = held
           /\ owner' \subseteq Calls /\ returning' \subseteq Calls
           /\ held' \subseteq owner' /\ requested' \subseteq owner'
           /\ \A x \in Calls \ {c} : /\ x \in owner' <=> x \in owner
                                     /\ x \in requested' <=> x \in requested
                                     /\ x \in returning' <=> x \in returning
           /\ ~(c \in owner' /\ c \in returning')
           /\ c \in held => c \in owner'
           /\ c \in returning' => c \in owner \/ c \in returning
<1>1. InTransit' = InTransit
  BY DEF InTransit
<1>2. /\ held \subseteq owner /\ requested \subseteq owner
      /\ owner \subseteq Calls /\ returning \subseteq Calls
      /\ ~(c \in owner /\ c \in returning)
  BY DEF Inv, TypeOK, CallAt
<1>3. CASE /\ c \in owner /\ c \notin held
           /\ requested' = requested \ {c} /\ owner' = owner \ {c}
           /\ returning' = returning \cup {c}
           /\ UNCHANGED held
  <2>1. /\ available \in Nat /\ IsFiniteSet(returning) /\ IsFiniteSet(owner)
        /\ Cardinality(owner) \in Nat /\ Cardinality(InTransit) \in Nat
        /\ Cardinality(returning) \in Nat
    BY FS_CardinalityType DEF Inv, Counted
  <2>2. IsFiniteSet(returning') /\ Cardinality(returning') = Cardinality(returning) + 1
    BY <1>2, <1>3, <2>1, FS_AddElement
  <2>3. IsFiniteSet(owner') /\ Cardinality(owner') = Cardinality(owner) - 1
    BY <1>3, <2>1, FS_RemoveElement
  <2>4. Counted'
    BY <1>1, <2>1, <2>2, <2>3 DEF Inv, Counted
  <2>5. QED
    BY <1>2, <1>3, <2>4
<1>4. CASE /\ c \in held /\ requested' = requested \cup {c}
           /\ UNCHANGED <<owner, held, returning>>
  <2>1. Counted'
    BY <1>1, <1>4, CountedSame DEF Inv
  <2>2. QED
    BY <1>2, <1>4, <2>1
<1>5. CASE c \notin owner /\ UNCHANGED lease
  <2>1. UNCHANGED <<owner, requested, held, returning>>
    BY <1>5 DEF lease
  <2>2. Counted'
    BY <1>1, <2>1, CountedSame DEF Inv
  <2>3. QED
    BY <1>2, <1>5, <2>1, <2>2
<1>6. QED
  BY <1>3, <1>4, <1>5 DEF LetsGo

(* The end of the thread lets a deferred release take effect.              *)
LEMMA FinishHoldInv ==
    ASSUME Inv, NEW c \in Calls, FinishHold(c)
    PROVE  Inv'
<1>1. /\ thread[c] = "done" /\ c \in held
      /\ held' = held \ {c} /\ thread' = [thread EXCEPT ![c] = "none"]
      /\ UNCHANGED <<mode, available, waiters, grant, pc, phases>>
  BY DEF FinishHold, limiter
<1>2. /\ held \subseteq owner /\ requested \subseteq owner /\ c \in owner
      /\ owner \subseteq Calls /\ returning \subseteq Calls
      /\ c \notin returning
  BY <1>1 DEF Inv, TypeOK, CallAt
<1>3. InTransit' = InTransit
  BY <1>1 DEF InTransit
<1>4. thread' \in [Calls -> {"none", "running", "done"}]
  BY <1>1 DEF Inv, TypeOK
<1>5. CASE /\ c \in requested
           /\ requested' = requested \ {c} /\ owner' = owner \ {c}
           /\ returning' = returning \cup {c}
  <2>1. /\ available \in Nat /\ IsFiniteSet(returning) /\ IsFiniteSet(owner)
        /\ Cardinality(owner) \in Nat /\ Cardinality(InTransit) \in Nat
        /\ Cardinality(returning) \in Nat
    BY FS_CardinalityType DEF Inv, Counted
  <2>2. IsFiniteSet(returning') /\ Cardinality(returning') = Cardinality(returning) + 1
    BY <1>2, <1>5, <2>1, FS_AddElement
  <2>3. IsFiniteSet(owner') /\ Cardinality(owner') = Cardinality(owner) - 1
    BY <1>2, <1>5, <2>1, FS_RemoveElement
  <2>4. Counted'
    BY <1>1, <1>3, <2>1, <2>2, <2>3 DEF Inv, Counted
  <2>5. CallAt(c)'
    BY <1>1, <1>2, <1>5 DEF Inv, TypeOK, CallAt
  <2>6. \A x \in Calls \ {c} : Still(x)
    BY <1>1, <1>5 DEF Still, Inv, TypeOK
  <2>7. held' \subseteq owner' /\ requested' \subseteq owner'
        /\ owner' \subseteq Calls /\ returning' \subseteq Calls
    BY <1>1, <1>2, <1>5
  <2>8. pc' \in [Calls -> Pcs] /\ phases' \in [Calls -> 0..MaxPhases]
    BY <1>1 DEF Inv, TypeOK
  <2>9. QED
    BY <1>1, <1>4, <2>4, <2>5, <2>6, <2>7, <2>8, QuietStep
<1>6. CASE c \notin requested /\ UNCHANGED <<owner, requested, returning>>
  <2>1. Counted'
    BY <1>1, <1>3, <1>6, CountedSame DEF Inv
  <2>2. CallAt(c)'
    BY <1>1, <1>2, <1>6 DEF Inv, TypeOK, CallAt
  <2>3. \A x \in Calls \ {c} : Still(x)
    BY <1>1, <1>6 DEF Still, Inv, TypeOK
  <2>4. held' \subseteq owner' /\ requested' \subseteq owner'
        /\ owner' \subseteq Calls /\ returning' \subseteq Calls
    BY <1>1, <1>2, <1>6
  <2>5. pc' \in [Calls -> Pcs] /\ phases' \in [Calls -> 0..MaxPhases]
    BY <1>1 DEF Inv, TypeOK
  <2>6. QED
    BY <1>1, <1>4, <2>1, <2>2, <2>3, <2>4, <2>5, QuietStep
<1>7. QED
  BY <1>5, <1>6 DEF FinishHold

-----------------------------------------------------------------------------
(* The users.                                                              *)

LEMMA SubmitInv ==
    ASSUME Inv, NEW c \in Calls, Submit(c)
    PROVE  Inv'
<1>1. /\ pc[c] = "ready" /\ thread[c] = "none"
      /\ mode = "pipeline" => phases[c] < MaxPhases
      /\ thread' = [thread EXCEPT ![c] = "running"]
      /\ phases' = [phases EXCEPT ![c] = IF mode = "pipeline" THEN @ + 1 ELSE @]
      /\ pc' = [pc EXCEPT ![c] = IF mode = "search" THEN "phase" ELSE "hold"]
      /\ UNCHANGED <<mode, available, waiters, grant, owner, requested, held, returning>>
  BY DEF Submit, Goto, limiter, lease
<1>2. InTransit' = InTransit
  BY <1>1 DEF InTransit
<1>3. Counted'
  BY <1>1, <1>2, CountedSame DEF Inv
<1>4. phases' \in [Calls -> 0..MaxPhases]
  BY <1>1, LimiterAssumption DEF Inv, TypeOK
<1>5. pc' \in [Calls -> Pcs] /\ thread' \in [Calls -> {"none", "running", "done"}]
  BY <1>1 DEF Inv, TypeOK, Pcs
<1>6. CallAt(c)'
  BY <1>1 DEF Inv, TypeOK, CallAt
<1>7. \A x \in Calls \ {c} : Still(x)
  BY <1>1 DEF Still, Inv, TypeOK
<1>8. /\ owner' \subseteq Calls /\ returning' \subseteq Calls
      /\ held' \subseteq owner' /\ requested' \subseteq owner'
  BY <1>1 DEF Inv, TypeOK
<1>9. QED
  BY <1>1, <1>3, <1>4, <1>5, <1>6, <1>7, <1>8, QuietStep

LEMMA ThreadEndsInv ==
    ASSUME Inv, NEW c \in Calls, ThreadEnds(c)
    PROVE  Inv'
<1>1. /\ thread[c] = "running" /\ thread' = [thread EXCEPT ![c] = "done"]
      /\ UNCHANGED <<mode, available, waiters, grant, pc, owner, requested, held, returning,
                     phases>>
  BY DEF ThreadEnds, limiter, lease
<1>2. InTransit' = InTransit
  BY <1>1 DEF InTransit
<1>3. Counted'
  BY <1>1, <1>2, CountedSame DEF Inv
<1>4. /\ pc' \in [Calls -> Pcs] /\ thread' \in [Calls -> {"none", "running", "done"}]
      /\ phases' \in [Calls -> 0..MaxPhases]
      /\ owner' \subseteq Calls /\ returning' \subseteq Calls
      /\ held' \subseteq owner' /\ requested' \subseteq owner'
  BY <1>1 DEF Inv, TypeOK
<1>5. CallAt(c)'
  BY <1>1 DEF Inv, TypeOK, CallAt
<1>6. \A x \in Calls \ {c} : Still(x)
  BY <1>1 DEF Still, Inv, TypeOK
<1>7. QED
  BY <1>1, <1>3, <1>4, <1>5, <1>6, QuietStep

LEMMA HoldInv ==
    ASSUME Inv, NEW c \in Calls, Hold(c)
    PROVE  Inv'
<1>1. /\ pc[c] = "hold" /\ held' = held \cup {c}
      /\ pc' = [pc EXCEPT ![c] = IF mode = "mutation" THEN "release" ELSE "phase"]
      /\ UNCHANGED <<mode, available, waiters, grant, owner, requested, returning, thread,
                     phases>>
  BY DEF Hold, Goto, limiter
<1>2. c \in owner /\ c \notin requested
  BY <1>1 DEF Inv, CallAt
<1>3. InTransit' = InTransit
  BY <1>1 DEF InTransit
<1>4. Counted'
  BY <1>1, <1>3, CountedSame DEF Inv
<1>5. /\ pc' \in [Calls -> Pcs] /\ thread' \in [Calls -> {"none", "running", "done"}]
      /\ phases' \in [Calls -> 0..MaxPhases]
      /\ owner' \subseteq Calls /\ returning' \subseteq Calls
      /\ held' \subseteq owner' /\ requested' \subseteq owner'
  BY <1>1, <1>2 DEF Inv, TypeOK, Pcs
<1>6. CallAt(c)'
  BY <1>1, <1>2 DEF Inv, TypeOK, CallAt
<1>7. \A x \in Calls \ {c} : Still(x)
  BY <1>1 DEF Still, Inv, TypeOK
<1>8. QED
  BY <1>1, <1>4, <1>5, <1>6, <1>7, QuietStep

(* Every place that releases a lease: at none of them does a thread run    *)
(* whose lease would not defer the release.                                *)
LEMMA LetsGoInv ==
    ASSUME Inv, NEW c \in Calls, LetsGo(c), NEW where \in {"phase", "idle", "cancelled"},
           pc' = [pc EXCEPT ![c] = where],
           \/ UNCHANGED thread
           \/ thread[c] = "done" /\ thread' = [thread EXCEPT ![c] = "none"],
           pc[c] \notin {"waiting", "unwinding"},
           where = "phase" => mode = "mutation",
           where = "cancelled" => mode = "pipeline",
           thread'[c] = "running" => c \in held,
           UNCHANGED <<mode, available, waiters, grant, phases>>
    PROVE  Inv'
<1>1. /\ Counted' /\ held' = held
      /\ owner' \subseteq Calls /\ returning' \subseteq Calls
      /\ held' \subseteq owner' /\ requested' \subseteq owner'
      /\ \A x \in Calls \ {c} : /\ x \in owner' <=> x \in owner
                                /\ x \in requested' <=> x \in requested
                                /\ x \in returning' <=> x \in returning
      /\ ~(c \in owner' /\ c \in returning')
      /\ c \in held => c \in owner'
  BY LetsGoEffect
<1>2. /\ pc' \in [Calls -> Pcs] /\ thread' \in [Calls -> {"none", "running", "done"}]
      /\ phases' \in [Calls -> 0..MaxPhases]
  BY DEF Inv, TypeOK, Pcs
<1>3. pc'[c] = where /\ grant[c] = "none"
  BY DEF Inv, TypeOK, CallAt
<1>4. CallAt(c)'
  BY <1>1, <1>3 DEF CallAt
<1>5. \A x \in Calls \ {c} : Still(x)
  BY <1>1 DEF Still, Inv, TypeOK
<1>6. QED
  BY <1>1, <1>2, <1>4, <1>5, QuietStep

(* A task goes on, or ends, and keeps its lease.                           *)
LEMMA KeepsInv ==
    ASSUME Inv, NEW c \in Calls, pc[c] = "phase", NEW where \in {"idle", "ready"},
           pc' = [pc EXCEPT ![c] = where],
           where = "ready" => mode = "pipeline" /\ thread[c] # "running",
           UNCHANGED <<mode, available, waiters, grant, owner, requested, held, returning,
                       thread, phases>>
    PROVE  Inv'
<1>1. InTransit' = InTransit
  BY DEF InTransit
<1>2. Counted'
  BY <1>1, CountedSame DEF Inv
<1>3. /\ pc' \in [Calls -> Pcs] /\ thread' \in [Calls -> {"none", "running", "done"}]
      /\ phases' \in [Calls -> 0..MaxPhases]
      /\ owner' \subseteq Calls /\ returning' \subseteq Calls
      /\ held' \subseteq owner' /\ requested' \subseteq owner'
  BY DEF Inv, TypeOK, Pcs
<1>4. CallAt(c)'
  BY DEF Inv, TypeOK, CallAt
<1>5. \A x \in Calls \ {c} : Still(x)
  BY DEF Still, Inv, TypeOK
<1>6. QED
  BY <1>2, <1>3, <1>4, <1>5, QuietStep

LEMMA RequestReleaseInv ==
    ASSUME Inv, NEW c \in Calls, RequestRelease(c)
    PROVE  Inv'
<1>1. /\ pc[c] = "release" /\ LetsGo(c) /\ pc' = [pc EXCEPT ![c] = "phase"]
      /\ UNCHANGED <<mode, available, waiters, grant, thread, phases>>
  BY DEF RequestRelease, Goto, limiter
<1>2. mode = "mutation" /\ (thread[c] = "running" => c \in held)
  BY <1>1 DEF Inv, CallAt
<1>3. QED
  BY <1>1, <1>2, LetsGoInv

LEMMA PhaseEndsInv ==
    ASSUME Inv, NEW c \in Calls, PhaseEnds(c)
    PROVE  Inv'
<1>1. pc[c] = "phase" /\ UNCHANGED <<mode, available, waiters, grant, phases>>
  BY DEF PhaseEnds, limiter
<1>2. CASE mode = "mutation" /\ Goto(c, "idle") /\ UNCHANGED <<lease, thread>>
  BY <1>1, <1>2, KeepsInv DEF Goto, lease
<1>3. CASE /\ mode = "search" /\ thread[c] = "done"
           /\ LetsGo(c) /\ Goto(c, "idle") /\ thread' = [thread EXCEPT ![c] = "none"]
  <2>1. thread'[c] = "none"
    BY <1>3 DEF Inv, TypeOK
  <2>2. QED
    BY <1>1, <1>3, <2>1, LetsGoInv DEF Goto
<1>4. CASE /\ mode = "pipeline" /\ thread[c] # "running"
           /\ Goto(c, "ready") /\ UNCHANGED <<lease, thread>>
  BY <1>1, <1>4, KeepsInv DEF Goto, lease
<1>5. QED
  BY <1>2, <1>3, <1>4 DEF PhaseEnds

LEMMA PipelineEndsInv ==
    ASSUME Inv, NEW c \in Calls, PipelineEnds(c)
    PROVE  Inv'
<1>1. /\ pc[c] = "ready" /\ LetsGo(c) /\ pc' = [pc EXCEPT ![c] = "idle"]
      /\ UNCHANGED <<mode, available, waiters, grant, thread, phases>>
  BY DEF PipelineEnds, Goto, limiter
<1>2. thread[c] # "running"
  BY <1>1 DEF Inv, CallAt
<1>3. QED
  BY <1>1, <1>2, LetsGoInv

LEMMA CancelRunningInv ==
    ASSUME Inv, NEW c \in Calls, CancelRunning(c)
    PROVE  Inv'
<1>1. UNCHANGED <<mode, available, waiters, grant, thread, phases>>
  BY DEF CancelRunning, limiter
<1>2. CASE pc[c] = "phase" /\ Goto(c, "idle") /\ UNCHANGED lease
  BY <1>1, <1>2, KeepsInv DEF Goto, lease
<1>3. CASE /\ mode = "pipeline" /\ pc[c] \in {"ready", "phase"}
           /\ LetsGo(c) /\ Goto(c, "cancelled")
  <2>1. thread[c] = "running" => c \in held
    BY <1>3 DEF Inv, CallAt
  <2>2. QED
    BY <1>1, <1>3, <2>1, LetsGoInv DEF Goto
<1>4. QED
  BY <1>2, <1>3 DEF CancelRunning

LEMMA OperationUnwindsInv ==
    ASSUME Inv, NEW c \in Calls, OperationUnwinds(c)
    PROVE  Inv'
<1>1. /\ pc[c] = "cancelled" /\ LetsGo(c) /\ pc' = [pc EXCEPT ![c] = "idle"]
      /\ UNCHANGED <<mode, available, waiters, grant, thread, phases>>
  BY DEF OperationUnwinds, Goto, limiter
<1>2. thread[c] = "running" => c \in held
  BY <1>1 DEF Inv, CallAt
<1>3. QED
  BY <1>1, <1>2, LetsGoInv

LEMMA FinishDetachedInv ==
    ASSUME Inv, NEW c \in Calls, FinishDetached(c)
    PROVE  Inv'
<1>1. /\ pc[c] = "idle" /\ thread[c] = "done" /\ LetsGo(c)
      /\ thread' = [thread EXCEPT ![c] = "none"]
      /\ UNCHANGED <<mode, available, waiters, grant, pc, phases>>
  BY DEF FinishDetached, limiter
<1>2. pc' = [pc EXCEPT ![c] = "idle"] /\ thread'[c] = "none"
  BY <1>1 DEF Inv, TypeOK
<1>3. QED
  BY <1>1, <1>2, LetsGoInv

LEMMA NextInv == Inv /\ [Next]_vars => Inv'
<1> SUFFICES ASSUME Inv, [Next]_vars PROVE Inv'
  OBVIOUS
<1>1. CASE UNCHANGED vars
  <2>1. UNCHANGED <<mode, available, waiters, grant, pc, owner, requested, held, returning,
                    thread, phases>>
    BY <1>1 DEF vars, limiter, lease
  <2>2. InTransit' = InTransit
    BY <2>1 DEF InTransit
  <2>3. QED
    BY <2>1, <2>2 DEF Inv, TypeOK, Counted, NoLostWakeup, CallAt
<1>2. ASSUME NEW c \in Calls, Acquire(c) \/ Cancels(c) \/ Progress(c)
      PROVE  Inv'
  BY <1>2, AcquireFreeInv, AcquireQueuedInv, ResumeInv, CancelWaiterInv, UnwindInv,
     ReleaseInv, FinishHoldInv, SubmitInv, ThreadEndsInv, HoldInv, RequestReleaseInv,
     PhaseEndsInv, PipelineEndsInv, CancelRunningInv, OperationUnwindsInv,
     FinishDetachedInv
     DEF Cancels, Progress
<1>3. QED
  BY <1>1, <1>2 DEF Next

-----------------------------------------------------------------------------
(* The theorems.                                                           *)

(* The inductive invariant holds throughout.                               *)
THEOREM InvHolds == Spec => []Inv
BY InitInv, NextInv, PTL DEF Spec

(* Every slot of the limiter is free, granted, leased or on its way back,  *)
(* exactly once, and none is free while somebody queues: no cancellation   *)
(* of acquire, repeated release of a lease or late end of a thread loses   *)
(* one or makes one up.                                                    *)
THEOREM SlotsAddUp == Spec => []SlotsConserved
<1>1. Inv => SlotsConserved
  BY DEF Inv, Counted, SlotsConserved
<1>2. QED
  BY InvHolds, <1>1, PTL

(* There are never more threads at work than slots, the threads of         *)
(* cancelled tasks included: a lease is kept until its thread has ended    *)
(* (hold_until_complete and the callbacks of finished threads).            *)
THEOREM ThreadsWithinCapacity == Spec => []ThreadsBounded
<1>1. Inv => ThreadsBounded
  <2> SUFFICES ASSUME Inv PROVE ThreadsBounded
    OBVIOUS
  <2> DEFINE running == {c \in Calls : thread[c] = "running"}
  <2>1. running \subseteq owner
    BY DEF Inv, CallAt
  <2>2. IsFiniteSet(owner)
    BY DEF Inv, Counted
  <2>3. IsFiniteSet(running) /\ Cardinality(running) <= Cardinality(owner)
    BY <2>1, <2>2, FS_Subset
  <2>4. /\ available \in Nat /\ Cardinality(owner) \in Nat /\ Cardinality(InTransit) \in Nat
        /\ Cardinality(returning) \in Nat /\ Cardinality(running) \in Nat
        /\ Capacity[mode] \in Nat
    BY <2>3, FS_CardinalityType, CapacityTypes DEF Inv, TypeOK, Counted
  <2>5. Cardinality(owner) <= Capacity[mode]
    BY <2>4 DEF Inv, Counted
  <2>6. QED
    BY <2>3, <2>4, <2>5 DEF ThreadsBounded
<1>2. QED
  BY InvHolds, <1>1, PTL
=============================================================================
