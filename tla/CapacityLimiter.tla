--------------------------- MODULE CapacityLimiter ---------------------------
(***************************************************************************)
(* The cancellation-safe admission in front of blocking work that runs on  *)
(* threads: AsyncCapacityLimiter hands out a fixed number of slots to      *)
(* asyncio tasks of any event loop, first come first served, with a        *)
(* bounded number of waiters; an AsyncCapacityLease keeps its slot until   *)
(* the thread it was used for has really finished, because cancelling a    *)
(* task does not stop its thread.                                          *)
(*                                                                         *)
(* A step is what runs under one of the locks, or on the event loop up to  *)
(* the next await; threads and other loops interleave anywhere between.    *)
(***************************************************************************)
EXTENDS Naturals, FiniteSets, Sequences, SequencesExt

CONSTANTS
    Calls,        \* tasks using the limiter, each over and over
    Capacity,     \* of each of the three limiters of a process
    MaxWaiters,
    MaxPhases     \* bound: thread phases of one pipeline

(* Index mutations, index searches and Neptune similarity pipelines have   *)
(* a limiter each, sized by settings of its own.                           *)
Modes == {"mutation", "search", "pipeline"}

ASSUME LimiterAssumption ==
    /\ Capacity \in [Modes -> Nat \ {0}]
    /\ MaxWaiters \in [Modes -> Nat]
    /\ MaxPhases \in Nat

VARIABLES
    mode,        \* which of the limiters the behaviour is about
    available,   \* free slots
    waiters,     \* queue of waiting calls, cancelled ones included
    grant,       \* the future a waiting call waits for
    pc,          \* where the task stands
    owner,       \* calls with a lease that has not returned its slot
    requested,   \* those whose lease was told to release
    held,        \* those whose lease waits for a thread
    thread,      \* the thread of a call
    returning,   \* calls whose slot is on its way back to the limiter
    phases       \* thread phases the pipeline has started

limiter == <<available, waiters, grant>>
lease == <<owner, requested, held, returning>>
vars == <<mode, limiter, pc, lease, thread, phases>>

Pcs == {"idle", "waiting", "unwinding", "ready", "hold", "release", "phase", "cancelled"}

TypeOK ==
    /\ mode \in Modes
    /\ available \in 0..Capacity[mode]
    /\ waiters \in Seq(Calls) /\ Len(waiters) <= MaxWaiters[mode]
    /\ grant \in [Calls -> {"none", "pending", "granted", "cancelled"}]
    /\ pc \in [Calls -> Pcs]
    /\ held \subseteq owner /\ requested \subseteq owner
    /\ owner \subseteq Calls /\ returning \subseteq Calls
    /\ thread \in [Calls -> {"none", "running", "done"}]
    /\ phases \in [Calls -> 0..MaxPhases]

Init ==
    /\ mode \in Modes
    /\ available = Capacity[mode]
    /\ waiters = <<>>
    /\ grant = [c \in Calls |-> "none"]
    /\ pc = [c \in Calls |-> "idle"]
    /\ owner = {} /\ requested = {} /\ held = {} /\ returning = {}
    /\ thread = [c \in Calls |-> "none"]
    /\ phases = [c \in Calls |-> 0]

Goto(c, where) == pc' = [pc EXCEPT ![c] = where]

-----------------------------------------------------------------------------
(* The limiter.                                                            *)

Opens(c) == owner' = owner \cup {c}

(* A call starts afresh once nothing of its last one is left.              *)
Rested(c) ==
    pc[c] = "idle" /\ thread[c] = "none" /\ c \notin owner \cup returning

(* acquire; with the wait queue full it raises at once.                    *)
Acquire(c) ==
    /\ Rested(c)
    /\ \/ /\ available > 0
          /\ available' = available - 1
          /\ Opens(c) /\ Goto(c, "ready")
          /\ UNCHANGED <<waiters, grant>>
       \/ /\ available = 0 /\ Len(waiters) < MaxWaiters[mode]
          /\ waiters' = Append(waiters, c)
          /\ grant' = [grant EXCEPT ![c] = "pending"]
          /\ Goto(c, "waiting")
          /\ UNCHANGED <<available, owner>>
    /\ phases' = [phases EXCEPT ![c] = 0]
    /\ UNCHANGED <<mode, requested, held, returning, thread>>

(* The granted future wakes its task.                                      *)
Resume(c) ==
    /\ pc[c] = "waiting" /\ grant[c] = "granted"
    /\ grant' = [grant EXCEPT ![c] = "none"]
    /\ Opens(c) /\ Goto(c, "ready")
    /\ UNCHANGED <<mode, available, waiters, requested, held, returning, thread, phases>>

(* The task is cancelled, granted or not.                                  *)
CancelWaiting(c) ==
    /\ pc[c] = "waiting"
    /\ Goto(c, "unwinding")
    /\ UNCHANGED <<mode, limiter, lease, thread, phases>>

(* The cancellation of the asyncio future reaches the waiter, on the loop. *)
CancelWaiter(c) ==
    /\ pc[c] = "unwinding" /\ grant[c] = "pending"
    /\ grant' = [grant EXCEPT ![c] = "cancelled"]
    /\ UNCHANGED <<mode, available, waiters, pc, lease, thread, phases>>

(* The waiter is popped, unless a release has popped it already.           *)
Leaves(c) ==
    \/ \E i \in DOMAIN waiters : waiters[i] = c /\ waiters' = RemoveAt(waiters, i)
    \/ (\A i \in DOMAIN waiters : waiters[i] # c) /\ UNCHANGED waiters

(* Deviation: a grant that arrived during cancellation is dropped.         *)
UnwindAndForget(c) ==
    /\ pc[c] = "unwinding"
    /\ grant' = [grant EXCEPT ![c] = "none"]
    /\ Leaves(c)
    /\ Goto(c, "idle")
    /\ UNCHANGED <<mode, available, lease, thread, phases>>

(* The handler of acquire: leave the queue, or give the grant back.        *)
Unwind(c) ==
    /\ pc[c] = "unwinding"
    /\ grant' = [grant EXCEPT ![c] = "none"]
    /\ \/ /\ grant[c] # "granted"
          /\ Leaves(c)
          /\ UNCHANGED returning
       \/ /\ grant[c] = "granted"
          /\ returning' = returning \cup {c}
          /\ UNCHANGED waiters
    /\ Goto(c, "idle")
    /\ UNCHANGED <<mode, available, owner, requested, held, thread, phases>>

(* release: the slot goes to the first waiter that is not cancelled, past  *)
(* those that are; it becomes free only if there is none.                  *)
Release(c) ==
    /\ c \in returning
    /\ returning' = returning \ {c}
    /\ \/ \E i \in DOMAIN waiters :
             /\ grant[waiters[i]] = "pending"
             /\ \A j \in 1..(i - 1) : grant[waiters[j]] # "pending"
             /\ grant' = [grant EXCEPT ![waiters[i]] = "granted"]
             /\ waiters' = SubSeq(waiters, i + 1, Len(waiters))
             /\ UNCHANGED available
       \/ /\ \A i \in DOMAIN waiters : grant[waiters[i]] # "pending"
          /\ waiters' = <<>>
          /\ available' = available + 1
          /\ UNCHANGED grant
    /\ UNCHANGED <<mode, pc, owner, requested, held, thread, phases>>

-----------------------------------------------------------------------------
(* The lease.                                                              *)

(* Deviations: a release does not wait for the hold, or counts each time.  *)
LetsGoEarly(c) ==
    /\ requested' = requested \ {c} /\ owner' = owner \ {c}
    /\ returning' = returning \cup {c}
    /\ held' = held \ {c}

LetsGoAgain(c) ==
    IF c \in held
    THEN requested' = requested \cup {c} /\ UNCHANGED <<owner, held, returning>>
    ELSE /\ requested' = requested \ {c} /\ owner' = owner \ {c}
         /\ returning' = returning \cup {c}
         /\ UNCHANGED held

(* AsyncCapacityLease.release: idempotent, deferred while a thread holds.  *)
LetsGo(c) ==
    \/ /\ c \in owner /\ c \notin held
       /\ requested' = requested \ {c} /\ owner' = owner \ {c}
       /\ returning' = returning \cup {c}
       /\ UNCHANGED held
    \/ c \in held /\ requested' = requested \cup {c} /\ UNCHANGED <<owner, held, returning>>
    \/ c \notin owner /\ UNCHANGED lease

(* The callback of a finished thread that holds the lease.                 *)
FinishHold(c) ==
    /\ thread[c] = "done" /\ c \in held
    /\ held' = held \ {c}
    /\ thread' = [thread EXCEPT ![c] = "none"]
    /\ \/ /\ c \in requested
          /\ requested' = requested \ {c} /\ owner' = owner \ {c}
          /\ returning' = returning \cup {c}
       \/ c \notin requested /\ UNCHANGED <<owner, requested, returning>>
    /\ UNCHANGED <<mode, limiter, pc, phases>>

-----------------------------------------------------------------------------
(* The users: AOSS mutations, AOSS searches, similarity pipelines.         *)

(* Blocking work is submitted to a thread pool.  A pipeline does this      *)
(* several times under one lease.                                          *)
Submit(c) ==
    /\ pc[c] = "ready" /\ thread[c] = "none"
    /\ mode = "pipeline" => phases[c] < MaxPhases
    /\ thread' = [thread EXCEPT ![c] = "running"]
    /\ phases' = [phases EXCEPT ![c] = IF mode = "pipeline" THEN @ + 1 ELSE @]
    /\ Goto(c, IF mode = "search" THEN "phase" ELSE "hold")
    /\ UNCHANGED <<mode, limiter, lease>>

ThreadEnds(c) ==
    /\ thread[c] = "running"
    /\ thread' = [thread EXCEPT ![c] = "done"]
    /\ UNCHANGED <<mode, limiter, pc, lease, phases>>

(* hold_until_complete, although the thread may have ended already.        *)
Hold(c) ==
    /\ pc[c] = "hold"
    /\ held' = held \cup {c}
    /\ Goto(c, IF mode = "mutation" THEN "release" ELSE "phase")
    /\ UNCHANGED <<mode, limiter, owner, requested, returning, thread, phases>>

(* A mutation asks for its release before it awaits the thread.            *)
RequestRelease(c) ==
    /\ pc[c] = "release"
    /\ LetsGo(c)
    /\ Goto(c, "phase")
    /\ UNCHANGED <<mode, limiter, thread, phases>>

(* The awaited thread is done.                                             *)
PhaseEnds(c) ==
    /\ pc[c] = "phase"
    /\ \/ mode = "mutation" /\ thread[c] # "running"
          /\ Goto(c, "idle") /\ UNCHANGED <<lease, thread>>
       \/ mode = "search" /\ thread[c] = "done"
          /\ LetsGo(c) /\ Goto(c, "idle") /\ thread' = [thread EXCEPT ![c] = "none"]
       \/ mode = "pipeline" /\ thread[c] # "running"
          /\ Goto(c, "ready") /\ UNCHANGED <<lease, thread>>
    /\ UNCHANGED <<mode, limiter, phases>>

PipelineEnds(c) ==
    /\ mode = "pipeline" /\ pc[c] = "ready"
    /\ LetsGo(c) /\ Goto(c, "idle")
    /\ UNCHANGED <<mode, limiter, thread, phases>>

(* Cancellation while a thread runs, which goes on.  A pipeline marks its  *)
(* lease at once and lets its operation unwind, which releases it again.   *)
CancelRunning(c) ==
    /\ \/ mode # "pipeline" /\ pc[c] = "phase" /\ Goto(c, "idle") /\ UNCHANGED lease
       \/ /\ mode = "pipeline" /\ pc[c] \in {"ready", "phase"}
          /\ LetsGo(c) /\ Goto(c, "cancelled")
    /\ UNCHANGED <<mode, limiter, thread, phases>>

OperationUnwinds(c) ==
    /\ pc[c] = "cancelled"
    /\ LetsGo(c) /\ Goto(c, "idle")
    /\ UNCHANGED <<mode, limiter, thread, phases>>

(* _finish_detached_aoss_query: the thread of a cancelled search ended.    *)
FinishDetached(c) ==
    /\ mode = "search" /\ pc[c] = "idle" /\ thread[c] = "done"
    /\ LetsGo(c)
    /\ thread' = [thread EXCEPT ![c] = "none"]
    /\ UNCHANGED <<mode, limiter, pc, phases>>

-----------------------------------------------------------------------------
Cancels(c) == CancelWaiting(c) \/ CancelRunning(c)

Progress(c) ==
    \/ Resume(c) \/ CancelWaiter(c) \/ Unwind(c) \/ Release(c)
    \/ Submit(c) \/ ThreadEnds(c) \/ Hold(c) \/ FinishHold(c) \/ RequestRelease(c)
    \/ PhaseEnds(c) \/ PipelineEnds(c) \/ OperationUnwinds(c) \/ FinishDetached(c)

Next == \E c \in Calls : Acquire(c) \/ Cancels(c) \/ Progress(c)

Spec == Init /\ [][Next]_vars

(* Event loops keep running, and blocking calls end: their clients have    *)
(* timeouts.  Nobody has to call acquire, or cancel.                       *)
FairSpec == Spec /\ \A c \in Calls : WF_vars(Progress(c))

-----------------------------------------------------------------------------
(* Properties.                                                             *)

(* A grant nobody has taken up yet.                                        *)
InTransit == {c \in Calls : grant[c] = "granted"}

(* No slot is free while somebody queues for it, so a newcomer never       *)
(* overtakes the queue.                                                    *)
NoLostWakeup == available > 0 => waiters = <<>>

(* No slot is lost or made up, whatever is cancelled when, including a     *)
(* grant that meets the cancellation of its waiter, repeated releases and  *)
(* threads that outlive their task; and none is kept from who waits.       *)
SlotsConserved ==
    /\ NoLostWakeup
    /\ available + Cardinality(InTransit) + Cardinality(owner)
                 + Cardinality(returning) = Capacity[mode]

(* What the limiter is for: there are never more threads at work than      *)
(* slots, those of cancelled tasks included.                               *)
ThreadsBounded == Cardinality({c \in Calls : thread[c] = "running"}) <= Capacity[mode]

(* Whoever waits is served, or was cancelled.                              *)
WaitersServed == \A c \in Calls : pc[c] = "waiting" ~> pc[c] # "waiting"
=============================================================================
