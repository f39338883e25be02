---------------------------- MODULE QueueService ----------------------------
(***************************************************************************)
(* The episode queues of the MCP server: one queue and one worker task per *)
(* group, so that the episodes of a group are processed one at a time, and *)
(* a bounded shutdown that tells its caller whether the graph client the   *)
(* jobs share may be closed.                                               *)
(*                                                                         *)
(* Everything runs on one event loop: a step is what happens between two   *)
(* awaits.  A job may fail, never end, or suppress a cancellation; those   *)
(* in SelfCancelling may also raise CancelledError of their own accord.    *)
(***************************************************************************)
EXTENDS Naturals, Sequences, FiniteSets, SequencesExt

CONSTANTS
    Groups, Episodes, Workers,
    GroupOf,          \* the group each episode is added to
    SelfCancelling,   \* episodes whose job may raise CancelledError
    None

ASSUME QueueAssumption ==
    /\ GroupOf \in [Episodes -> Groups]
    /\ SelfCancelling \subseteq Episodes
    /\ None \notin Workers \cup Episodes

VARIABLES
    queue,        \* the queue of each group
    unfinished,   \* its count of jobs without task_done
    registered,   \* _worker_tasks: the worker task of each group
    task,         \* each worker task: its state
    group,        \* the group it was created for
    job,          \* the episode it processes
    cancelling,   \* tasks with a cancellation on its way
    accepting,    \* _accepting_tasks
    client,       \* the graph client: "open", "dropped" by the service, "closed"
    stopper,      \* where shutdown stands
    awaited,      \* the tasks it waits for
    stopped,      \* its answer
    added,        \* history: episodes added to each group, in order
    started       \* history: episodes started for each group, in order

tasks == <<registered, task, group, job, cancelling>>
shutdown == <<stopper, awaited, stopped>>
vars == <<queue, unfinished, tasks, accepting, client, shutdown, added, started>>

Init ==
    /\ queue = [g \in Groups |-> <<>>]
    /\ unfinished = [g \in Groups |-> 0]
    /\ registered = [g \in Groups |-> None]
    /\ task = [w \in Workers |-> "none"]
    /\ group = [w \in Workers |-> CHOOSE g \in Groups : TRUE]   \* set by Creates
    /\ job = [w \in Workers |-> None]
    /\ cancelling = {}
    /\ accepting = TRUE /\ client = "open"
    /\ stopper = "idle" /\ awaited = {} /\ stopped = FALSE
    /\ added = [g \in Groups |-> <<>>]
    /\ started = [g \in Groups |-> <<>>]

Alive(w) == task[w] \in {"new", "get", "run"}

-----------------------------------------------------------------------------
(* add_episode and add_episode_task: one step, put() on a queue without a  *)
(* bound does not suspend.                                                 *)

Enqueues(e) ==
    LET g == GroupOf[e] IN
    /\ queue' = [queue EXCEPT ![g] = Append(@, e)]
    /\ unfinished' = [unfinished EXCEPT ![g] = @ + 1]
    /\ added' = [added EXCEPT ![g] = Append(@, e)]

Creates(w, g) ==
    /\ registered' = [registered EXCEPT ![g] = w]
    /\ task' = [task EXCEPT ![w] = "new"]
    /\ group' = [group EXCEPT ![w] = g]

NeedsWorker(g) == registered[g] \notin {w \in Workers : task[w] # "done"}

AddUnchecked(e) ==   \* deviation: works during a shutdown as before
    LET g == GroupOf[e] IN
    /\ \A i \in DOMAIN added[g] : added[g][i] # e
    /\ client = "open"
    /\ Enqueues(e)
    /\ \/ ~NeedsWorker(g) /\ UNCHANGED <<registered, task, group>>
       \/ NeedsWorker(g) /\ \E w \in Workers : task[w] = "none" /\ Creates(w, g)
    /\ UNCHANGED <<job, cancelling, accepting, client, shutdown, started>>

AddEpisode(e) ==
    LET g == GroupOf[e] IN
    /\ \A i \in DOMAIN added[g] : added[g][i] # e
    /\ client = "open" /\ accepting
    /\ Enqueues(e)
    /\ \/ ~NeedsWorker(g) /\ UNCHANGED <<registered, task, group>>
       \/ NeedsWorker(g) /\ \E w \in Workers : task[w] = "none" /\ Creates(w, g)
    /\ UNCHANGED <<job, cancelling, accepting, client, shutdown, started>>

-----------------------------------------------------------------------------
(* _process_episode_queue.                                                 *)

(* The finally of the task: it leaves the register if it is still in it.   *)
Ends(w) ==
    /\ task' = [task EXCEPT ![w] = "done"]
    /\ registered' =
          [g \in Groups |-> IF g = group[w] /\ registered[g] = w THEN None ELSE registered[g]]

Take(w) ==
    /\ task[w] \in {"new", "get"} /\ w \notin cancelling
    /\ queue[group[w]] # <<>>
    /\ task' = [task EXCEPT ![w] = "run"]
    /\ job' = [job EXCEPT ![w] = Head(queue[group[w]])]
    /\ queue' = [queue EXCEPT ![group[w]] = Tail(@)]
    /\ started' = [started EXCEPT ![group[w]] = Append(@, Head(queue[group[w]]))]
    /\ UNCHANGED <<unfinished, registered, group, cancelling, accepting, client, shutdown, added>>

(* Deviation: task_done is forgotten.                                      *)
TaskUncounted(w) == job' = [job EXCEPT ![w] = None] /\ UNCHANGED unfinished
TaskDone(w) ==
    /\ job' = [job EXCEPT ![w] = None]
    /\ unfinished' = [unfinished EXCEPT ![group[w]] = @ - 1]

FailureEndsWorker(w) ==   \* deviation: an Exception ends the loop
    /\ task[w] = "run" /\ w \notin cancelling
    /\ TaskDone(w) /\ Ends(w)
    /\ UNCHANGED <<queue, group, cancelling, accepting, client, shutdown, added, started>>

(* The job returns or raises an Exception, which is logged.                *)
JobEnds(w) ==
    /\ task[w] = "run" /\ w \notin cancelling
    /\ TaskDone(w)
    /\ task' = [task EXCEPT ![w] = "get"]
    /\ UNCHANGED <<queue, registered, group, cancelling, accepting, client, shutdown,
                   added, started>>

(* The job raises CancelledError although nobody cancelled the worker.     *)
JobEndsWorker(w) ==
    /\ task[w] = "run" /\ w \notin cancelling /\ job[w] \in SelfCancelling
    /\ TaskDone(w) /\ Ends(w)
    /\ UNCHANGED <<queue, group, cancelling, accepting, client, shutdown, added, started>>

(* The requested cancellation arrives; a task that has not run yet ends    *)
(* without its finally.                                                    *)
Cancelled(w) ==
    /\ w \in cancelling
    /\ cancelling' = cancelling \ {w}
    /\ \/ task[w] = "run" /\ TaskDone(w) /\ Ends(w)
       \/ task[w] = "get" /\ Ends(w) /\ UNCHANGED <<job, unfinished>>
       \/ /\ task[w] = "new" /\ task' = [task EXCEPT ![w] = "done"]
          /\ UNCHANGED <<registered, job, unfinished>>
    /\ UNCHANGED <<queue, group, accepting, client, shutdown, added, started>>

(* The job suppresses it.                                                  *)
Suppresses(w) ==
    /\ w \in cancelling /\ task[w] = "run"
    /\ cancelling' = cancelling \ {w}
    /\ UNCHANGED <<queue, unfinished, registered, task, group, job, accepting, client,
                   shutdown, added, started>>

-----------------------------------------------------------------------------
(* shutdown, then the close of the graph client by run_mcp_server.         *)

Shutdown ==
    /\ stopper = "idle"
    /\ accepting' = FALSE
    /\ stopper' = "joining"
    /\ UNCHANGED <<queue, unfinished, tasks, client, awaited, stopped, added, started>>

Registered == {registered[g] : g \in Groups} \ {None}

(* The drain ends, with every queue joined or by its timeout, and every    *)
(* worker registered now is cancelled.                                     *)
DrainEnds ==
    /\ stopper = "joining"
    /\ awaited' = Registered
    /\ cancelling' = cancelling \cup {w \in Registered : task[w] # "done"}
    /\ stopper' = "cancelling"
    /\ UNCHANGED <<queue, unfinished, registered, task, group, job, accepting, client,
                   stopped, added, started>>

Pending == {w \in awaited : Alive(w)}

(* All of them are done, or the grace is over: those left get one more     *)
(* request.  The queues are emptied and the client is let go.              *)
DetachAwaiting ==   \* deviation: waits for the last of them
    /\ stopper = "cancelling" /\ Pending = {}
    /\ stopped' = (Pending = {}) /\ stopper' = "returned"
    /\ queue' = [g \in Groups |-> <<>>]
    /\ unfinished' = [g \in Groups |-> unfinished[g] - Len(queue[g])]
    /\ registered' = [g \in Groups |-> None]
    /\ client' = "dropped"
    /\ UNCHANGED <<cancelling, task, group, job, accepting, awaited, added, started>>
Detach ==
    /\ stopper = "cancelling"
    /\ stopped' = (Pending = {}) /\ stopper' = "returned"
    /\ cancelling' = cancelling \cup Pending
    /\ queue' = [g \in Groups |-> <<>>]
    /\ unfinished' = [g \in Groups |-> unfinished[g] - Len(queue[g])]
    /\ registered' = [g \in Groups |-> None]
    /\ client' = "dropped"
    /\ UNCHANGED <<task, group, job, accepting, awaited, added, started>>

(* GraphitiService.shutdown(close_client=stopped).                         *)
CloseClient ==
    /\ stopper = "returned" /\ client = "dropped" /\ stopped
    /\ client' = "closed"
    /\ UNCHANGED <<queue, unfinished, tasks, accepting, shutdown, added, started>>

-----------------------------------------------------------------------------
Turn(w) == Take(w) \/ Cancelled(w)

Next ==
    \/ \E e \in Episodes : AddEpisode(e)
    \/ \E w \in Workers : Turn(w) \/ JobEnds(w) \/ JobEndsWorker(w) \/ Suppresses(w)
    \/ Shutdown \/ DrainEnds \/ Detach \/ CloseClient

Spec == Init /\ [][Next]_vars

(* The event loop runs and its timers fire; jobs owe nobody anything.      *)
FairSpec ==
    /\ Spec
    /\ \A w \in Workers : WF_vars(Take(w))
    /\ WF_vars(DrainEnds) /\ WF_vars(Detach)

-----------------------------------------------------------------------------
(* Properties.                                                             *)

TypeOK ==
    /\ queue \in [Groups -> Seq(Episodes)]
    /\ unfinished \in [Groups -> 0..Cardinality(Episodes)]
    /\ registered \in [Groups -> Workers \cup {None}]
    /\ task \in [Workers -> {"none", "new", "get", "run", "done"}]
    /\ group \in [Workers -> Groups]
    /\ job \in [Workers -> Episodes \cup {None}]
    /\ cancelling \subseteq Workers /\ awaited \subseteq Workers
    /\ accepting \in BOOLEAN /\ stopped \in BOOLEAN
    /\ client \in {"open", "dropped", "closed"}
    /\ stopper \in {"idle", "joining", "cancelling", "returned"}
    /\ added \in [Groups -> Seq(Episodes)] /\ started \in [Groups -> Seq(Episodes)]

(* The episodes of a group are processed one at a time: two workers of one *)
(* group are never alive together, whenever episodes are added, and        *)
(* however the worker before ended.                                        *)
OneWorkerPerGroup ==
    \A v, w \in Workers : Alive(v) /\ Alive(w) /\ group[v] = group[w] => v = w

(* They start one at a time in the order they were added, and queue.join() *)
(* counts those waiting or being processed, and no other.                  *)
InOrder ==
    /\ OneWorkerPerGroup
    /\ \A g \in Groups :
           /\ stopper # "returned" => added[g] = started[g] \o queue[g]
           /\ unfinished[g] =
                 Len(queue[g]) + Cardinality({w \in Workers : group[w] = g /\ task[w] = "run"})

(* The graph client is closed only when no job uses it or ever will, and   *)
(* no job starts with the client gone.                                     *)
ClientOutlivesJobs ==
    client # "open" =>
        /\ \A w \in Workers : task[w] # "run" \/ (client = "dropped" /\ ~stopped)
        /\ \A g \in Groups : queue[g] = <<>>

(* shutdown returns whatever the jobs do.                                  *)
ShutdownReturns == stopper = "joining" ~> stopper = "returned"

(* If jobs end, every episode added is started, unless a shutdown comes    *)
(* first or a job of the group may have taken its worker down with a       *)
(* CancelledError: a job that merely fails does not hold up those behind.  *)
JobsEnd == \A w \in Workers : WF_vars(JobEnds(w))

Started(e) == \E i \in DOMAIN started[GroupOf[e]] : started[GroupOf[e]][i] = e

EpisodesStart ==
    JobsEnd =>
        \A e \in Episodes :
            (\E i \in DOMAIN queue[GroupOf[e]] : queue[GroupOf[e]][i] = e)
                ~> \/ stopper # "idle"
                   \/ Started(e)
                   \/ \E d \in SelfCancelling : GroupOf[d] = GroupOf[e] /\ Started(d)
=============================================================================
