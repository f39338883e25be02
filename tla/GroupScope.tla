------------------------------ MODULE GroupScope ------------------------------
(***************************************************************************)
(* How the MCP server routes concurrent calls to the databases of their    *)
(* groups over FalkorDB, where every group is a graph database of its own. *)
(* All calls share one Graphiti client.  The driver of a group is made     *)
(* once, by a task that waits for the indices to be built, and is cached;  *)
(* a call works on a shallow copy of the client bound to that driver.      *)
(*                                                                         *)
(* A step is what an event loop runs between two awaits.  A task that      *)
(* finishes, the callback that evicts it if it failed, and the callers     *)
(* that wake up for its result are separate steps, so others may come in   *)
(* between.                                                                *)
(***************************************************************************)
EXTENDS Naturals, FiniteSets

CONSTANTS
    Callers,      \* concurrent requests and queue workers
    GroupIds,       \* group_id values
    Base,         \* the base driver's default_group_id, one of Groups
    Tasks,        \* bound: initialization tasks that can be created
    MaxFailures,  \* bound: initializations that raise or are cancelled
    Nil

ASSUME ScopeAssumption ==
    /\ Base \in GroupIds
    /\ Nil \notin GroupIds /\ Nil \notin Tasks
    /\ MaxFailures \in Nat

(* Each group has its database; it is named here by its group.             *)
Databases == GroupIds

VARIABLES
    cache,     \* group -> its initialization task, if cached
    progress,      \* task -> state
    owner,     \* task -> the group it is for
    unseen,    \* finished tasks whose callback has not run yet
    pc,        \* where each caller stands
    target,     \* caller -> the group of its call
    waits,   \* caller -> the task it waits for
    copied,    \* callers that work on a copy of the client
    driver,    \* client object -> database of its driver
    clients,   \* client object -> database of its clients.driver
    touched,   \* caller -> databases its call has read or written
    failures

scopeVars == <<cache, progress, owner, unseen, pc, target, waits, copied, driver, clients,
          touched, failures>>

taskVars == <<progress, owner, unseen, failures>>
objectVars == <<copied, driver, clients, touched>>

(* Client objects: the shared one, and a copy for each caller.             *)
Shared == Nil
Objects == Callers \cup {Shared}

TaskStates == {"unused", "queued", "building", "ready", "failed"}
CallerPcs == {"idle", "waiting", "obtained", "called", "working"}

ScopeTypeOK ==
    /\ cache \in [GroupIds -> Tasks \cup {Nil}]
    /\ progress \in [Tasks -> TaskStates]
    /\ owner \in [Tasks -> GroupIds \cup {Nil}]
    /\ unseen \in SUBSET Tasks
    /\ pc \in [Callers -> CallerPcs]
    /\ target \in [Callers -> GroupIds \cup {Nil}]
    /\ waits \in [Callers -> Tasks \cup {Nil}]
    /\ copied \in SUBSET Callers
    /\ driver \in [Objects -> Databases]
    /\ clients \in [Objects -> Databases]
    /\ touched \in [Callers -> SUBSET Databases]
    /\ failures \in 0..MaxFailures

InitScope ==
    /\ cache = [g \in GroupIds |-> Nil]
    /\ progress = [t \in Tasks |-> "unused"]
    /\ owner = [t \in Tasks |-> Nil]
    /\ unseen = {}
    /\ pc = [c \in Callers |-> "idle"]
    /\ target = [c \in Callers |-> Nil]
    /\ waits = [c \in Callers |-> Nil]
    /\ copied = {}
    /\ driver = [o \in Objects |-> Base]
    /\ clients = [o \in Objects |-> Base]
    /\ touched = [c \in Callers |-> {}]
    /\ failures = 0

Goto(c, where) == pc' = [pc EXCEPT ![c] = where]

UnderWay(t) == progress[t] \in {"queued", "building"}

-----------------------------------------------------------------------------
(* driver_for_group.                                                       *)

(* Deviation: whatever task is cached for the group is dropped.            *)
DropsAny(g, t) == cache' = [cache EXCEPT ![g] = Nil]

(* A caller that met a failure drops the task it waited for, not another   *)
(* one that has been cached since.                                         *)
Drops(g, t) ==
    cache' = IF cache[g] = t THEN [cache EXCEPT ![g] = Nil] ELSE cache

(* The default group is served by the base driver.                         *)
AskBase(c) ==
    /\ pc[c] = "idle"
    /\ target' = [target EXCEPT ![c] = Base]
    /\ Goto(c, "obtained")
    /\ UNCHANGED <<cache, taskVars, waits, objectVars>>

(* No task is cached: one is created and cached before anything is awaited *)
AskFirst(c, g) ==
    /\ pc[c] = "idle"
    /\ g # Base
    /\ cache[g] = Nil
    /\ \E t \in Tasks :
          /\ progress[t] = "unused"
          /\ progress' = [progress EXCEPT ![t] = "queued"]
          /\ owner' = [owner EXCEPT ![t] = g]
          /\ cache' = [cache EXCEPT ![g] = t]
          /\ waits' = [waits EXCEPT ![c] = t]
    /\ target' = [target EXCEPT ![c] = g]
    /\ Goto(c, "waiting")
    /\ UNCHANGED <<unseen, failures, objectVars>>

(* A cached task is joined.  If it has finished the result is there at     *)
(* once, be it a failure whose eviction is still to come.                  *)
AskCached(c, g) ==
    /\ pc[c] = "idle"
    /\ g # Base
    /\ LET t == cache[g]
       IN /\ t # Nil
          /\ \/ /\ UnderWay(t)
                /\ target' = [target EXCEPT ![c] = g]
                /\ waits' = [waits EXCEPT ![c] = t]
                /\ Goto(c, "waiting")
                /\ UNCHANGED cache
             \/ /\ progress[t] = "ready"
                /\ target' = [target EXCEPT ![c] = g]
                /\ Goto(c, "obtained")
                /\ UNCHANGED <<cache, waits>>
             \/ /\ progress[t] = "failed"
                /\ Drops(g, t)
                /\ UNCHANGED <<pc, target, waits>>
    /\ UNCHANGED <<taskVars, objectVars>>

Leaves(c) ==
    /\ target' = [target EXCEPT ![c] = Nil]
    /\ waits' = [waits EXCEPT ![c] = Nil]
    /\ Goto(c, "idle")

(* The caller wakes up, after the callback that was there before it.       *)
Obtain(c) ==
    /\ pc[c] = "waiting"
    /\ progress[waits[c]] = "ready"
    /\ waits[c] \notin unseen
    /\ waits' = [waits EXCEPT ![c] = Nil]
    /\ Goto(c, "obtained")
    /\ UNCHANGED <<cache, taskVars, target, objectVars>>

MeetFailure(c) ==
    /\ pc[c] = "waiting"
    /\ progress[waits[c]] = "failed"
    /\ waits[c] \notin unseen
    /\ Drops(target[c], waits[c])
    /\ Leaves(c)
    /\ UNCHANGED <<taskVars, objectVars>>

(* The task is shielded: it goes on without the caller.                    *)
Abandoned(t) == UNCHANGED progress

(* The caller is cancelled while it waits.                                 *)
CancelWaiting(c) ==
    /\ pc[c] = "waiting"
    /\ UnderWay(waits[c])
    /\ Abandoned(waits[c])
    /\ Leaves(c)
    /\ UNCHANGED <<cache, owner, unseen, failures, objectVars>>

-----------------------------------------------------------------------------
(* The initialization task.                                                *)

(* Deviation: the lock is not released when a build raises.                *)
LockKept == \A t \in Tasks : progress[t] \notin {"building", "failed"}

(* The clones share a connection, so a lock admits one build at a time.    *)
LockFree == \A t \in Tasks : progress[t] # "building"

Build(t) ==
    /\ progress[t] = "queued"
    /\ LockFree
    /\ progress' = [progress EXCEPT ![t] = "building"]
    /\ UNCHANGED <<cache, owner, unseen, failures, pc, target, waits, objectVars>>

Built(t) ==
    /\ progress[t] = "building"
    /\ progress' = [progress EXCEPT ![t] = "ready"]
    /\ unseen' = unseen \cup {t}
    /\ UNCHANGED <<cache, owner, failures, pc, target, waits, objectVars>>

(* Cloning or building raises, or the task is cancelled.                   *)
BuildFails(t) ==
    /\ UnderWay(t)
    /\ failures < MaxFailures
    /\ failures' = failures + 1
    /\ progress' = [progress EXCEPT ![t] = "failed"]
    /\ unseen' = unseen \cup {t}
    /\ UNCHANGED <<cache, owner, pc, target, waits, objectVars>>

(* _evict_failed_group_driver.                                             *)
Callback(t) ==
    /\ t \in unseen
    /\ unseen' = unseen \ {t}
    /\ IF progress[t] = "failed" THEN Drops(owner[t], t) ELSE UNCHANGED cache
    /\ UNCHANGED <<progress, owner, failures, pc, target, waits, objectVars>>

-----------------------------------------------------------------------------
(* A call on the client for its group.                                     *)

(* Deviation: the shared client is used as it is.                          *)
ScopeShared(c) ==
    /\ copied' = copied
    /\ UNCHANGED <<driver, clients>>

(* graphiti_for_group: every surface of the copy is bound to the group.    *)
Scope(c) ==
    /\ copied' = copied \cup {c}
    /\ driver' = [driver EXCEPT ![c] = target[c]]
    /\ clients' = [clients EXCEPT ![c] = target[c]]

Client(c) == IF c \in copied THEN c ELSE Shared

TakeScope(c) ==
    /\ pc[c] = "obtained"
    /\ Scope(c)
    /\ Goto(c, "called")
    /\ UNCHANGED <<cache, taskVars, target, waits, touched>>

(* add_episode binds the client it is called on to the group, unless it is *)
(* bound to it already; the default group is passed as None and does not.  *)
Enter(c) ==
    /\ pc[c] = "called"
    /\ LET o == Client(c)
       IN IF target[c] # Base /\ driver[o] # target[c]
          THEN /\ driver' = [driver EXCEPT ![o] = target[c]]
               /\ clients' = [clients EXCEPT ![o] = target[c]]
          ELSE UNCHANGED <<driver, clients>>
    /\ Goto(c, "working")
    /\ UNCHANGED <<cache, taskVars, target, waits, copied, touched>>

(* A search goes through the clients, a read or a save through the driver. *)
Work(c) ==
    /\ pc[c] = "working"
    /\ \E db \in {driver[Client(c)], clients[Client(c)]} :
          touched' = [touched EXCEPT ![c] = @ \cup {db}]
    /\ UNCHANGED <<cache, taskVars, pc, target, waits, copied, driver, clients>>

(* The call returns, raises or is cancelled, and the copy is dropped.      *)
Return(c) ==
    /\ pc[c] \in {"called", "working"}
    /\ Leaves(c)
    /\ copied' = copied \ {c}
    /\ driver' = [driver EXCEPT ![c] = Base]
    /\ clients' = [clients EXCEPT ![c] = Base]
    /\ touched' = [touched EXCEPT ![c] = {}]
    /\ UNCHANGED <<cache, taskVars>>

-----------------------------------------------------------------------------
TaskStep(t) == Build(t) \/ Built(t) \/ Callback(t)

Wake(c) == Obtain(c) \/ MeetFailure(c)

NextScope ==
    \/ \E c \in Callers :
          \/ AskBase(c)
          \/ \E g \in GroupIds : AskFirst(c, g) \/ AskCached(c, g)
          \/ Wake(c) \/ CancelWaiting(c)
          \/ TakeScope(c) \/ Enter(c) \/ Work(c) \/ Return(c)
    \/ \E t \in Tasks : TaskStep(t) \/ BuildFails(t)

SpecScope == InitScope /\ [][NextScope]_scopeVars

(* The event loop runs what is ready, and index builds end.                *)
Fairness ==
    /\ \A t \in Tasks : WF_scopeVars(Build(t)) /\ WF_scopeVars(Built(t)) /\ WF_scopeVars(Callback(t))
    /\ \A c \in Callers : WF_scopeVars(Wake(c))

FairSpecScope == SpecScope /\ Fairness

-----------------------------------------------------------------------------
(* Properties.                                                             *)

(* Whatever other groups are served at the same time, a call reads and     *)
(* writes the database of its own group only (graphiti_for_group copies    *)
(* the client, as add_episode binds the one it is called on).              *)
RoutedToOwnGroup == \A c \in Callers : touched[c] \subseteq {target[c]}

(* A group has one driver: a task under way or one that succeeded, never   *)
(* two, whichever failed tasks their callers and callbacks drop.           *)
OneDriverPerGroup ==
    \A s, t \in Tasks :
        /\ progress[s] \in {"queued", "building", "ready"}
        /\ progress[t] \in {"queued", "building", "ready"}
        /\ owner[s] = owner[t]
        => s = t

(* Who waits for a driver is answered, although other waiters are          *)
(* cancelled and initializations fail.                                     *)
WaitersAnswered == \A c \in Callers : pc[c] = "waiting" ~> pc[c] # "waiting"
=============================================================================
