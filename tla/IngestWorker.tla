---------------------------- MODULE IngestWorker ----------------------------
(***************************************************************************)
(* The ingestion queue of the server: POST /messages admits whole batches  *)
(* to a bounded queue in memory, one worker runs the jobs one after the    *)
(* other, and at shutdown stop() closes admission, drains what it can in a *)
(* bounded time, and tells how many accepted jobs it could not confirm.    *)
(*                                                                         *)
(* Everything runs on one event loop: a step is what happens between two   *)
(* awaits.  A job may fail, raise CancelledError of its own accord, never  *)
(* end, or suppress the cancellation shutdown asks for.                    *)
(***************************************************************************)
EXTENDS Naturals, Sequences, FiniteSets, SequencesExt

CONSTANTS
    Requests,    \* calls of POST /messages
    Size,        \* the number of messages of each
    Capacity     \* the queue's maxsize

ASSUME IngestAssumption ==
    /\ Size \in [Requests -> Nat]
    /\ Capacity \in Nat \ {0}

VARIABLES
    queue,        \* jobs waiting
    unfinished,   \* asyncio.Queue's count of jobs without task_done
    running,      \* the job in flight, if any
    accepting,    \* the admission flag
    draining,
    worker,       \* "get", "run", "exited" (callback due), "gone"
    cancelling,   \* a cancellation of the worker is on its way
    request,      \* where each request stands, or its answer
    stopper,      \* where stop() stands
    unresolved,   \* what stop() answers
    settled,      \* jobs that ended by themselves
    interrupted,  \* jobs ended by the cancellation of the worker
    discarded     \* jobs dropped from the queue by stop()

jobs == <<queue, unfinished, running>>
fates == <<settled, interrupted, discarded>>
shutdown == <<stopper, unresolved>>
vars == <<jobs, accepting, draining, worker, cancelling, request, shutdown, fates>>

JobsOf(r) == {<<r, i>> : i \in 1..Size[r]}
Jobs == UNION {JobsOf(r) : r \in Requests}

(* The jobs of a request in the order of its messages.                     *)
Batch(r) == [i \in 1..Size[r] |-> <<r, i>>]

Waiting == ToSet(queue)
AcceptedJobs == Waiting \cup running \cup settled \cup interrupted \cup discarded

WorkerDone == worker \in {"exited", "gone"}

(* AsyncWorker.accepting.                                                  *)
Accepting == accepting /\ ~draining /\ ~WorkerDone

(* AsyncWorker._outstanding_jobs.                                          *)
OutstandingOfQueue == Len(queue)   \* deviation: forgets the job in flight
Outstanding == Len(queue) + Cardinality(running)

(* The state after configure and start of the lifespan.                    *)
Init ==
    /\ queue = <<>> /\ unfinished = 0 /\ running = {}
    /\ accepting = TRUE /\ draining = FALSE
    /\ worker = "get" /\ cancelling = FALSE
    /\ request = [r \in Requests |-> "new"]
    /\ stopper = "idle" /\ unresolved = 0
    /\ settled = {} /\ interrupted = {} /\ discarded = {}

-----------------------------------------------------------------------------
(* POST /messages.                                                         *)

Answers(r, answer) == request' = [request EXCEPT ![r] = answer]

(* The first look at admission, before the ownership checks.               *)
Arrive(r) ==
    /\ request[r] = "new"
    /\ Answers(r, IF Accepting THEN "owning" ELSE "closed")
    /\ UNCHANGED <<jobs, accepting, draining, worker, cancelling, shutdown, fates>>

(* A uuid of the batch belongs to another group: 409.                      *)
Conflict(r) ==
    /\ request[r] = "owning"
    /\ Answers(r, "conflict")
    /\ UNCHANGED <<jobs, accepting, draining, worker, cancelling, shutdown, fates>>

Put(s) ==
    /\ queue' = queue \o s
    /\ unfinished' = unfinished + Len(s)

(* Deviation: messages are taken while they fit.                           *)
AdmitWhatFits(r) ==
    \/ ~Accepting /\ Answers(r, "closed") /\ UNCHANGED <<queue, unfinished>>
    \/ /\ Accepting /\ Len(queue) + Size[r] > Capacity
       /\ Put(SubSeq(Batch(r), 1, Capacity - Len(queue))) /\ Answers(r, "full")
    \/ /\ Accepting /\ Len(queue) + Size[r] <= Capacity
       /\ Put(Batch(r)) /\ Answers(r, "accepted")

(* After the ownership checks admission is looked at again; the batch      *)
(* enters whole or not at all, in the same step.                           *)
Admit(r) ==
    \/ ~Accepting /\ Answers(r, "closed") /\ UNCHANGED <<queue, unfinished>>
    \/ /\ Accepting /\ Len(queue) + Size[r] > Capacity
       /\ Answers(r, "full") /\ UNCHANGED <<queue, unfinished>>
    \/ /\ Accepting /\ Len(queue) + Size[r] <= Capacity
       /\ Put(Batch(r)) /\ Answers(r, "accepted")

Decide(r) ==
    /\ request[r] = "owning"
    /\ Admit(r)
    /\ UNCHANGED <<running, accepting, draining, worker, cancelling, shutdown, fates>>

(* A producer that was told "full" sends the same batch again.             *)
Retry(r) ==
    /\ request[r] = "full"
    /\ Answers(r, "new")
    /\ UNCHANGED <<jobs, accepting, draining, worker, cancelling, shutdown, fates>>

-----------------------------------------------------------------------------
(* The worker.                                                             *)

Take ==
    /\ worker = "get" /\ ~cancelling
    /\ queue # <<>>
    /\ running' = {Head(queue)} /\ queue' = Tail(queue)
    /\ worker' = "run"
    /\ UNCHANGED <<unfinished, accepting, draining, cancelling, request, shutdown, fates>>

(* The finally of the loop: the job is no longer in flight, task_done.     *)
LeavesUncounted ==   \* deviation: no task_done for this job
    running' = {} /\ UNCHANGED <<queue, unfinished>>
Leaves ==
    /\ running' = {} /\ unfinished' = unfinished - 1
    /\ UNCHANGED queue

(* The job returns, or raises an Exception, which is logged.               *)
JobEnds ==
    /\ worker = "run" /\ ~cancelling
    /\ Leaves
    /\ worker' = "get"
    /\ settled' = settled \cup running
    /\ UNCHANGED <<accepting, draining, cancelling, request, shutdown, interrupted, discarded>>

(* The job raises CancelledError of its own accord: the loop ends.         *)
JobEndsWorker ==
    /\ worker = "run" /\ ~cancelling
    /\ Leaves
    /\ worker' = "exited"
    /\ settled' = settled \cup running
    /\ UNCHANGED <<accepting, draining, cancelling, request, shutdown, interrupted, discarded>>

(* The requested cancellation reaches the job, which lets it pass...       *)
JobCancelled ==
    /\ worker = "run" /\ cancelling
    /\ Leaves
    /\ worker' = "exited" /\ cancelling' = FALSE
    /\ interrupted' = interrupted \cup running
    /\ UNCHANGED <<accepting, draining, request, shutdown, settled, discarded>>

(* ...or suppresses it and goes on.                                        *)
JobSuppresses ==
    /\ worker = "run" /\ cancelling
    /\ cancelling' = FALSE
    /\ UNCHANGED <<jobs, accepting, draining, worker, request, shutdown, fates>>

(* It reaches the worker between two jobs.                                 *)
WorkerCancelled ==
    /\ worker = "get" /\ cancelling
    /\ worker' = "exited" /\ cancelling' = FALSE
    /\ UNCHANGED <<jobs, accepting, draining, request, shutdown, fates>>

(* _log_worker_exit, the callback of the finished task.                    *)
LogWorkerExit ==
    /\ worker = "exited"
    /\ worker' = "gone" /\ accepting' = FALSE
    /\ UNCHANGED <<jobs, draining, cancelling, request, shutdown, fates>>

-----------------------------------------------------------------------------
(* stop().                                                                 *)

(* _discard_queued_jobs, in the same step as what follows it.              *)
Discards ==
    /\ discarded' = discarded \cup Waiting
    /\ queue' = <<>> /\ unfinished' = unfinished - Len(queue)

(* begin_drain; without a worker there is nothing to wait for.             *)
Stop ==
    /\ stopper = "idle"
    /\ accepting' = FALSE /\ draining' = TRUE
    /\ \/ /\ ~WorkerDone
          /\ stopper' = "joining" /\ unresolved' = 0
          /\ UNCHANGED <<queue, unfinished, discarded>>
       \/ /\ WorkerDone
          /\ stopper' = "returned" /\ unresolved' = Outstanding
          /\ Discards
    /\ UNCHANGED <<running, worker, cancelling, request, settled, interrupted>>

(* queue.join() returned in time: the worker is cancelled, 0 is answered.  *)
Joined ==
    /\ stopper = "joining" /\ unfinished = 0
    /\ \/ WorkerDone /\ stopper' = "returned" /\ UNCHANGED cancelling
       \/ ~WorkerDone /\ stopper' = "closing" /\ cancelling' = TRUE
    /\ UNCHANGED <<jobs, accepting, draining, worker, request, unresolved, fates>>

(* It did not: the jobs outstanding now are the answer.                    *)
DrainTimesOut ==
    /\ stopper = "joining"
    /\ unresolved' = Outstanding
    /\ \/ /\ WorkerDone
          /\ stopper' = "returned" /\ Discards
          /\ UNCHANGED cancelling
       \/ /\ ~WorkerDone
          /\ stopper' = "cancelling" /\ cancelling' = TRUE
          /\ UNCHANGED <<queue, unfinished, discarded>>
    /\ UNCHANGED <<running, accepting, draining, worker, request, settled, interrupted>>

(* What stop() does when _cancel_worker returns.                           *)
Returns ==
    /\ stopper' = "returned"
    /\ \/ stopper = "cancelling" /\ Discards
       \/ stopper = "closing" /\ UNCHANGED <<queue, unfinished, discarded>>
    /\ UNCHANGED <<running, accepting, draining, worker, request, unresolved,
                   settled, interrupted>>

WorkerStopped ==
    /\ stopper \in {"cancelling", "closing"} /\ WorkerDone
    /\ Returns
    /\ UNCHANGED cancelling

(* The grace is over: one more request, and no more waiting for the job.   *)
GraceRepeats ==   \* deviation: waits again
    /\ stopper \in {"cancelling", "closing"} /\ ~WorkerDone
    /\ cancelling' = TRUE
    /\ UNCHANGED <<jobs, accepting, draining, worker, request, shutdown, fates>>
GraceEnds ==
    /\ stopper \in {"cancelling", "closing"} /\ ~WorkerDone
    /\ Returns
    /\ cancelling' = TRUE

-----------------------------------------------------------------------------
Job == JobEnds \/ JobEndsWorker \/ JobSuppresses

Loop == Take \/ WorkerCancelled \/ LogWorkerExit

Stopping == Joined \/ DrainTimesOut \/ WorkerStopped \/ GraceEnds

Next ==
    \/ \E r \in Requests : Arrive(r) \/ Conflict(r) \/ Decide(r) \/ Retry(r)
    \/ Job \/ JobCancelled \/ Loop
    \/ Stop \/ Stopping

Spec == Init /\ [][Next]_vars

(* The event loop runs and its timers fire; jobs owe nobody anything.      *)
FairSpec == Spec /\ WF_vars(Loop) /\ WF_vars(Stopping)

-----------------------------------------------------------------------------
(* Properties.                                                             *)

(* Types, and the capacity of the queue: put_nowait never finds it full    *)
(* after the check for the whole batch ("should be unreachable").          *)
TypeOK ==
    /\ queue \in Seq(Jobs) /\ Len(queue) <= Capacity
    /\ unfinished \in 0..(Capacity + 1)
    /\ running \subseteq Jobs /\ Cardinality(running) <= 1
    /\ accepting \in BOOLEAN /\ draining \in BOOLEAN /\ cancelling \in BOOLEAN
    /\ worker \in {"get", "run", "exited", "gone"}
    /\ request \in [Requests ->
           {"new", "owning", "accepted", "full", "closed", "conflict"}]
    /\ stopper \in {"idle", "joining", "cancelling", "closing", "returned"}
    /\ unresolved \in 0..(Capacity + 1)
    /\ settled \subseteq Jobs /\ interrupted \subseteq Jobs /\ discarded \subseteq Jobs

(* queue.join() means what stop() takes it for: the count asyncio keeps is *)
(* the jobs waiting or in flight, however the jobs before them ended.      *)
UnfinishedExact == unfinished = Outstanding

(* A batch enters whole, if and only if its producer was told so, and a    *)
(* producer that retries a refused batch never has a message twice: a job  *)
(* is in one place only.                                                   *)
BatchesWhole ==
    /\ AcceptedJobs = UNION {JobsOf(r) : r \in {s \in Requests : request[s] = "accepted"}}
    /\ Len(queue) + Cardinality(running) + Cardinality(settled)
         + Cardinality(interrupted) + Cardinality(discarded)
       = Cardinality(AcceptedJobs)

(* What stop() answers covers every job that it discarded, interrupted or  *)
(* left running, whatever a job did with its cancellation: an answer of 0  *)
(* means that every accepted job has ended by itself.                      *)
ShutdownHonest ==
    stopper = "returned" =>
        Cardinality(Waiting \cup running \cup interrupted \cup discarded) <= unresolved

(* stop() returns, although a job may run for ever and suppress every      *)
(* cancellation.                                                           *)
StopReturns == draining ~> stopper = "returned"
=============================================================================
