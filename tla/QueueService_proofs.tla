------------------------ MODULE QueueService_proofs ------------------------
(***************************************************************************)
(* Machine-checked proofs about the MCP server's concurrency.  First about *)
(* QueueService, for any groups, episodes and worker tasks, and any choice *)
(* of the jobs that cancel themselves; then about GroupScope, which routes *)
(* the jobs and the requests to the databases of their groups.             *)
(***************************************************************************)
EXTENDS QueueService, GroupScope, Integers, SequenceTheorems, FiniteSetTheorems, TLAPS

-----------------------------------------------------------------------------
(* Queues and what has left them.                                          *)

LEMMA TakeFromQueue ==
    ASSUME NEW T, NEW s \in Seq(T), NEW q \in Seq(T), q # <<>>
    PROVE  /\ Append(s, Head(q)) \o Tail(q) = s \o q
           /\ Head(q) \in T /\ Tail(q) \in Seq(T) /\ Len(Tail(q)) = Len(q) - 1
<1>1. /\ Head(q) \in T /\ Tail(q) \in Seq(T) /\ Len(Tail(q)) = Len(q) - 1
      /\ q = <<Head(q)>> \o Tail(q)
  BY HeadTailProperties
<1>2. Append(s, Head(q)) = s \o <<Head(q)>>
  BY <1>1, AppendIsConcat
<1>3. (s \o <<Head(q)>>) \o Tail(q) = s \o (<<Head(q)>> \o Tail(q))
  BY <1>1, ConcatAssociative
<1>4. QED
  BY <1>1, <1>2, <1>3

-----------------------------------------------------------------------------
(* The inductive invariant.                                                *)

Types ==
    /\ queue \in [Groups -> Seq(Episodes)]
    /\ unfinished \in [Groups -> Int]
    /\ registered \in [Groups -> Workers \cup {None}]
    /\ task \in [Workers -> {"none", "new", "get", "run", "done"}]
    /\ group = [w \in Workers |-> group[w]]
    /\ job \in [Workers -> Episodes \cup {None}]
    /\ cancelling \subseteq Workers /\ awaited \subseteq Workers
    /\ client \in {"open", "dropped", "closed"}
    /\ stopper \in {"idle", "joining", "cancelling", "returned"}
    /\ added \in [Groups -> Seq(Episodes)] /\ started \in [Groups -> Seq(Episodes)]

Flags == accepting \in BOOLEAN /\ stopped \in BOOLEAN

(* A worker that is alive is the registered one of its group, until        *)
(* shutdown empties the register, and shutdown waits for all that are.     *)
WorkersInv ==
    /\ \A w \in Workers : task[w] # "none" => group[w] \in Groups
    /\ OneWorkerPerGroup
    /\ stopper # "returned" => \A w \in Workers : Alive(w) => registered[group[w]] = w
    /\ stopper = "cancelling" => \A w \in Workers : Alive(w) => w \in awaited

Running(g) == {w \in Workers : group[w] = g /\ task[w] = "run"}

QueuesInv ==
    \A g \in Groups :
        /\ stopper # "returned" => added[g] = started[g] \o queue[g]
        /\ stopper = "returned" => queue[g] = <<>>
        /\ unfinished[g] = Len(queue[g]) + Cardinality(Running(g))

ShutdownInv ==
    /\ accepting = TRUE => stopper = "idle"
    /\ client = "open" <=> stopper # "returned"
    /\ client = "closed" => stopped = TRUE
    /\ stopper = "returned" /\ stopped = TRUE => \A w \in Workers : task[w] # "run"

Inv == Types /\ Flags /\ WorkersInv /\ QueuesInv /\ ShutdownInv

-----------------------------------------------------------------------------
(* Workers.                                                                *)

(* With one worker per group, a group has a job running or it has not.     *)
LEMMA RunsAlone ==
    ASSUME Inv, NEW w \in Workers, Alive(w)
    PROVE  /\ group[w] \in Groups
           /\ task[w] = "run" => Running(group[w]) = {w}
           /\ task[w] # "run" => Running(group[w]) = {}
BY DEF Inv, Types, WorkersInv, OneWorkerPerGroup, Alive, Running

LEMMA CountRunning ==
    ASSUME NEW w
    PROVE  Cardinality({w}) = 1 /\ Cardinality({}) = 0
BY FS_EmptySet, FS_Singleton

LEMMA RunningCount ==
    ASSUME Inv, NEW g \in Groups
    PROVE  Cardinality(Running(g)) \in Nat
<1>1. Running(g) = {} \/ \E w \in Workers : Running(g) = {w}
  BY DEF Inv, WorkersInv, OneWorkerPerGroup, Running, Alive
<1>2. QED
  BY <1>1, CountRunning, FS_EmptySet

(* Steps after which nobody is alive who was not, and the register still   *)
(* names those who are.                                                    *)
LEMMA WorkersKept ==
    ASSUME Inv, UNCHANGED <<group, awaited, stopper>>,
           \A v \in Workers : task'[v] # "none" => task[v] # "none",
           \A v \in Workers : Alive(v)' =>
               Alive(v) /\ \A g \in Groups : registered[g] = v => registered'[g] = v
    PROVE  WorkersInv'
<1>1. \A v \in Workers : Alive(v)' => group[v] \in Groups
  BY DEF Inv, WorkersInv, Alive
<1>2. OneWorkerPerGroup'
  BY DEF Inv, WorkersInv, OneWorkerPerGroup
<1>3. QED
  BY <1>1, <1>2 DEF Inv, WorkersInv

(* A worker that leaves: the register no longer names it.                  *)
LEMMA EndsRegister ==
    ASSUME Types, NEW w \in Workers, Ends(w)
    PROVE  /\ task' = [task EXCEPT ![w] = "done"]
           /\ registered' \in [Groups -> Workers \cup {None}]
           /\ \A v \in Workers \ {w} : \A g \in Groups :
                  registered[g] = v => registered'[g] = v
BY QueueAssumption DEF Types, Ends

(* The job of a worker is over, the worker goes on or not.                 *)
LEMMA JobOver ==
    ASSUME Inv, NEW w \in Workers, task[w] = "run", TaskDone(w),
           NEW s \in {"get", "done"}, task' = [task EXCEPT ![w] = s],
           registered' \in [Groups -> Workers \cup {None}],
           s = "get" => registered' = registered,
           \A v \in Workers \ {w} : \A g \in Groups : registered[g] = v => registered'[g] = v,
           cancelling' \subseteq Workers,
           UNCHANGED <<queue, group, accepting, client, stopper, awaited, stopped, added, started>>
    PROVE  Inv'
<1>1. /\ group[w] \in Groups /\ Running(group[w]) = {w}
  BY RunsAlone DEF Alive
<1>2. unfinished' = [unfinished EXCEPT ![group[w]] = @ - 1] /\ job' = [job EXCEPT ![w] = None]
  BY DEF TaskDone
<1>3. Types'
  BY <1>1, <1>2 DEF Inv, Types
<1>4. Flags'
  BY Zenon DEF Inv, Flags
<1>5. \A v \in Workers : Alive(v)' => Alive(v) /\ (v # w \/ s = "get")
  BY DEF Inv, Types, Alive
<1>6. WorkersInv'
  BY <1>5, WorkersKept DEF Inv, Types
<1>7. \A g \in Groups : Running(g)' = Running(g) \ {w}
  BY DEF Inv, Types, Running
<1>8. QueuesInv'
  <2> SUFFICES ASSUME NEW g \in Groups PROVE unfinished'[g] = Len(queue[g]) + Cardinality(Running(g)')
    BY DEF Inv, QueuesInv
  <2>1. CASE g = group[w]
    <3>1. Running(g) = {w} /\ Running(g)' = {}
      BY <1>1, <1>7, <2>1
    <3>2. Cardinality(Running(g)) = 1 /\ Cardinality(Running(g)') = 0
      BY <3>1, CountRunning
    <3>3. Len(queue[g]) \in Nat /\ unfinished'[g] = unfinished[g] - 1
      BY <1>2, <2>1 DEF Inv, Types
    <3>4. unfinished[g] = Len(queue[g]) + Cardinality(Running(g))
      BY DEF Inv, QueuesInv
    <3>5. QED
      BY <3>2, <3>3, <3>4
  <2>2. CASE g # group[w]
    <3>1. w \notin Running(g)
      BY <2>2 DEF Running
    <3>2. Running(g)' = Running(g)
      BY <1>7, <3>1
    <3>3. unfinished'[g] = unfinished[g]
      BY <1>2, <2>2 DEF Inv, Types
    <3>4. unfinished[g] = Len(queue[g]) + Cardinality(Running(g))
      BY DEF Inv, QueuesInv
    <3>5. QED
      BY <3>2, <3>3, <3>4
  <2>3. QED
    BY <2>1, <2>2
<1>9. ShutdownInv'
  BY DEF Inv, Types, ShutdownInv
<1>10. QED
  BY <1>3, <1>4, <1>6, <1>8, <1>9 DEF Inv

(* A worker without a job ends, or only its cancellation changes.          *)
LEMMA IdleEnds ==
    ASSUME Inv, NEW w \in Workers,
           \/ task[w] \in {"new", "get"} /\ task' = [task EXCEPT ![w] = "done"]
           \/ task' = task,
           registered' \in [Groups -> Workers \cup {None}],
           \A v \in Workers : v # w \/ task' = task =>
               \A g \in Groups : registered[g] = v => registered'[g] = v,
           cancelling' \subseteq Workers,
           UNCHANGED <<queue, unfinished, group, job, accepting, client, stopper, awaited,
                       stopped, added, started>>
    PROVE  Inv'
<1>1. Types' /\ (\A g \in Groups : Running(g)' = Running(g))
  BY DEF Inv, Types, Running
<1>2. Flags'
  BY Zenon DEF Inv, Flags
<1>3. WorkersInv'
  <2>1. \A v \in Workers : Alive(v)' => Alive(v) /\ (v # w \/ task' = task)
    BY DEF Inv, Types, Alive
  <2>2. QED
    BY <2>1, WorkersKept DEF Inv, Types
<1>4. QueuesInv'
  BY <1>1 DEF Inv, QueuesInv
<1>5. ShutdownInv'
  BY DEF Inv, Types, ShutdownInv
<1>6. QED
  BY <1>1, <1>2, <1>3, <1>4, <1>5 DEF Inv

-----------------------------------------------------------------------------
(* The steps.                                                              *)

LEMMA InitInv == Init => Inv
<1> SUFFICES ASSUME Init PROVE Inv
  OBVIOUS
<1>1. Types
  BY DEF Init, Types
<1>2. accepting = TRUE /\ stopped = FALSE
  BY DEF Init
<1>3. Flags
  BY <1>2, Zenon DEF Flags
<1>4. \A g \in Groups : Running(g) = {}
  BY DEF Init, Running
<1>5. QueuesInv
  <2> SUFFICES ASSUME NEW g \in Groups
               PROVE  /\ added[g] = started[g] \o queue[g]
                      /\ unfinished[g] = Len(queue[g]) + Cardinality(Running(g))
    BY DEF Init, QueuesInv
  <2>1. queue[g] = <<>> /\ added[g] = <<>> /\ started[g] = <<>> /\ unfinished[g] = 0
    BY DEF Init
  <2>2. Cardinality(Running(g)) = 0
    BY <1>4, FS_EmptySet
  <2>3. <<>> \in Seq(Episodes) /\ Len(queue[g]) = 0
    BY <2>1
  <2>4. added[g] = started[g] \o queue[g]
    BY <2>1, <2>3, ConcatEmptySeq
  <2>5. QED
    BY <2>1, <2>2, <2>3, <2>4
<1>6. WorkersInv
  BY DEF Init, WorkersInv, OneWorkerPerGroup, Alive
<1>7. ShutdownInv
  BY DEF Init, ShutdownInv
<1>8. QED
  BY <1>1, <1>3, <1>5, <1>6, <1>7 DEF Inv

LEMMA AddEpisodeInv ==
    ASSUME Inv, NEW e \in Episodes, AddEpisode(e)
    PROVE  Inv'
<1> DEFINE g == GroupOf[e]
<1>1. g \in Groups
  BY QueueAssumption
<1>2. /\ client = "open" /\ accepting = TRUE
      /\ queue' = [queue EXCEPT ![g] = Append(@, e)]
      /\ unfinished' = [unfinished EXCEPT ![g] = @ + 1]
      /\ added' = [added EXCEPT ![g] = Append(@, e)]
      /\ UNCHANGED <<job, cancelling, accepting, client, stopper, awaited, stopped, started>>
  BY DEF AddEpisode, Enqueues, shutdown, Inv, Flags
<1>3. stopper = "idle"
  BY <1>2 DEF Inv, ShutdownInv
<1>4. \/ UNCHANGED <<registered, task, group>>
      \/ NeedsWorker(g) /\ \E w \in Workers : task[w] = "none" /\ Creates(w, g)
  BY DEF AddEpisode
<1>5. Types'
  <2>1. /\ queue' \in [Groups -> Seq(Episodes)] /\ unfinished' \in [Groups -> Int]
        /\ added' \in [Groups -> Seq(Episodes)]
    BY <1>1, <1>2 DEF Inv, Types
  <2>2. CASE UNCHANGED <<registered, task, group>>
    BY <1>2, <2>1, <2>2 DEF Inv, Types
  <2>3. CASE \E w \in Workers : Creates(w, g)
    <3>1. PICK w \in Workers : Creates(w, g)
      BY <2>3
    <3>2. /\ registered' \in [Groups -> Workers \cup {None}]
          /\ task' \in [Workers -> {"none", "new", "get", "run", "done"}]
      BY <1>1, <3>1 DEF Inv, Types, Creates
    <3>3. group' = [v \in Workers |-> IF v = w THEN g ELSE group[v]]
      BY <3>1 DEF Inv, Types, Creates
    <3>4. group' = [v \in Workers |-> group'[v]]
      BY <3>3
    <3>5. QED
      BY <1>2, <2>1, <3>2, <3>4 DEF Inv, Types
  <2>4. QED
    BY <1>4, <2>2, <2>3
<1>6. Flags'
  BY <1>2, Zenon DEF Inv, Flags
<1>7. WorkersInv' /\ \A h \in Groups : Running(h)' = Running(h)
  <2>1. CASE UNCHANGED <<registered, task, group>>
    BY <1>2, <2>1, WorkersKept DEF Running, Alive
  <2>2. CASE NeedsWorker(g) /\ \E w \in Workers : task[w] = "none" /\ Creates(w, g)
    <3>1. PICK w \in Workers : task[w] = "none" /\ Creates(w, g)
      BY <2>2
    <3>2. /\ registered' = [registered EXCEPT ![g] = w]
          /\ task' = [task EXCEPT ![w] = "new"]
          /\ group' = [group EXCEPT ![w] = g]
      BY <3>1 DEF Creates
    <3>3. \A v \in Workers : Alive(v) => v # w /\ group[v] # g
      BY <1>3, <2>2, <3>1 DEF Inv, Types, WorkersInv, NeedsWorker, Alive
    <3>4. \A v \in Workers : v # w => task'[v] = task[v] /\ group'[v] = group[v]
      BY <3>2 DEF Inv, Types
    <3>5. task'[w] = "new" /\ group'[w] = g /\ registered'[g] = w
      BY <1>1, <3>2 DEF Inv, Types
    <3>6. OneWorkerPerGroup'
      BY <3>3, <3>4, <3>5 DEF Inv, WorkersInv, OneWorkerPerGroup, Alive
    <3>7. \A v \in Workers : Alive(v)' => registered'[group'[v]] = v
      BY <1>1, <1>3, <3>2, <3>3, <3>4, <3>5 DEF Inv, Types, WorkersInv, Alive
    <3>8. WorkersInv'
      BY <1>1, <1>2, <1>3, <3>4, <3>5, <3>6, <3>7 DEF Inv, WorkersInv
    <3>9. \A h \in Groups : Running(h)' = Running(h)
      BY <3>1, <3>4, <3>5 DEF Running
    <3>10. QED
      BY <3>8, <3>9
  <2>3. QED
    BY <1>4, <2>1, <2>2
<1>8. QueuesInv'
  <2> SUFFICES ASSUME NEW h \in Groups
               PROVE  /\ added'[h] = started[h] \o queue'[h]
                      /\ unfinished'[h] = Len(queue'[h]) + Cardinality(Running(h)')
    BY <1>2, <1>3 DEF QueuesInv
  <2>1. /\ added[h] = started[h] \o queue[h]
        /\ unfinished[h] = Len(queue[h]) + Cardinality(Running(h))
        /\ queue[h] \in Seq(Episodes) /\ started[h] \in Seq(Episodes)
    BY <1>3 DEF Inv, Types, QueuesInv
  <2>2. CASE h = g
    <3>1. /\ queue'[h] = Append(queue[h], e) /\ added'[h] = Append(added[h], e)
          /\ unfinished'[h] = unfinished[h] + 1
      BY <1>1, <1>2, <2>2 DEF Inv, Types
    <3>2. Len(queue'[h]) = Len(queue[h]) + 1
      BY <2>1, <3>1
    <3>3. added'[h] = started[h] \o queue'[h]
      <4>1. \A s \in Seq(Episodes), q \in Seq(Episodes) : Append(s \o q, e) = s \o Append(q, e)
        OBVIOUS
      <4>2. QED
        BY <2>1, <3>1, <4>1
    <3>4. Cardinality(Running(h)) = unfinished[h] - Len(queue[h])
      BY <2>1, RunningCount
    <3>5. Len(queue[h]) \in Nat /\ unfinished[h] \in Int /\ Running(h)' = Running(h)
      BY <1>7, <2>1 DEF Inv, Types
    <3>6. unfinished'[h] = Len(queue'[h]) + Cardinality(Running(h)')
      BY <3>1, <3>2, <3>4, <3>5
    <3>7. QED
      BY <3>3, <3>6
  <2>3. CASE h # g
    <3>1. queue'[h] = queue[h] /\ added'[h] = added[h] /\ unfinished'[h] = unfinished[h]
      BY <1>2, <2>3 DEF Inv, Types
    <3>2. QED
      BY <1>7, <2>1, <3>1
  <2>4. QED
    BY <2>2, <2>3
<1>9. ShutdownInv'
  BY <1>2, <1>3 DEF Inv, ShutdownInv
<1>10. QED
  BY <1>5, <1>6, <1>7, <1>8, <1>9 DEF Inv

LEMMA TakeInv ==
    ASSUME Inv, NEW w \in Workers, Take(w)
    PROVE  Inv'
<1> DEFINE g == group[w]
<1>1. /\ task[w] \in {"new", "get"} /\ queue[g] # <<>>
      /\ task' = [task EXCEPT ![w] = "run"]
      /\ job' = [job EXCEPT ![w] = Head(queue[g])]
      /\ queue' = [queue EXCEPT ![g] = Tail(@)]
      /\ started' = [started EXCEPT ![g] = Append(@, Head(queue[g]))]
      /\ UNCHANGED <<unfinished, registered, group, cancelling, accepting, client, stopper,
                     awaited, stopped, added>>
  BY DEF Take, shutdown
<1>2. g \in Groups /\ Running(g) = {}
  BY <1>1, RunsAlone DEF Alive
<1>3. stopper # "returned"
  BY <1>1, <1>2 DEF Inv, QueuesInv
<1>4. queue[g] \in Seq(Episodes) /\ started[g] \in Seq(Episodes)
  BY <1>2 DEF Inv, Types
<1>5. /\ Append(started[g], Head(queue[g])) \o Tail(queue[g]) = started[g] \o queue[g]
      /\ Head(queue[g]) \in Episodes /\ Tail(queue[g]) \in Seq(Episodes)
      /\ Len(Tail(queue[g])) = Len(queue[g]) - 1
  BY <1>1, <1>4, TakeFromQueue
<1>6. Append(started[g], Head(queue[g])) \in Seq(Episodes)
  BY <1>4, <1>5
<1>7. Types'
  BY <1>1, <1>2, <1>5, <1>6 DEF Inv, Types
<1>8. Flags'
  BY <1>1, Zenon DEF Inv, Flags
<1>9. WorkersInv'
  <2>1. \A v \in Workers : (Alive(v)' => Alive(v)) /\ (task'[v] # "none" => task[v] # "none")
    BY <1>1 DEF Inv, Types, Alive
  <2>2. QED
    BY <1>1, <2>1, WorkersKept
<1>10. QueuesInv'
  <2> SUFFICES ASSUME NEW h \in Groups
               PROVE  /\ added[h] = started'[h] \o queue'[h]
                      /\ unfinished[h] = Len(queue'[h]) + Cardinality(Running(h)')
    BY <1>1, <1>3 DEF QueuesInv
  <2>1. /\ added[h] = started[h] \o queue[h]
        /\ unfinished[h] = Len(queue[h]) + Cardinality(Running(h))
    BY <1>3 DEF Inv, QueuesInv
  <2>2. CASE h = g
    <3>1. /\ queue'[h] = Tail(queue[h]) /\ started'[h] = Append(started[h], Head(queue[h]))
      BY <1>1, <1>2, <2>2 DEF Inv, Types
    <3>2. Running(h)' = {w}
      BY <1>1, <1>2, <2>2 DEF Inv, Types, Running
    <3>3. Cardinality(Running(h)) = 0 /\ Cardinality(Running(h)') = 1
      BY <1>2, <2>2, <3>2, CountRunning
    <3>4. Len(queue[h]) \in Nat
      BY <1>4, <2>2
    <3>5. added[h] = started'[h] \o queue'[h]
      BY <1>5, <2>1, <2>2, <3>1
    <3>6. Len(queue'[h]) = Len(queue[h]) - 1
      BY <1>5, <2>2, <3>1
    <3>7. unfinished[h] = Len(queue'[h]) + Cardinality(Running(h)')
      BY <2>1, <3>3, <3>4, <3>6
    <3>8. QED
      BY <3>5, <3>7
  <2>3. CASE h # g
    <3>1. queue'[h] = queue[h] /\ started'[h] = started[h] /\ Running(h)' = Running(h)
      BY <1>1, <2>3 DEF Inv, Types, Running
    <3>2. QED
      BY <2>1, <3>1
  <2>4. QED
    BY <2>2, <2>3
<1>11. ShutdownInv'
  BY <1>1, <1>3 DEF Inv, ShutdownInv
<1>12. QED
  BY <1>7, <1>8, <1>9, <1>10, <1>11 DEF Inv

LEMMA JobInv ==
    ASSUME Inv, NEW w \in Workers, JobEnds(w) \/ JobEndsWorker(w)
    PROVE  Inv'
<1>1. /\ task[w] = "run" /\ TaskDone(w)
      /\ UNCHANGED <<queue, group, cancelling, accepting, client, stopper, awaited, stopped,
                     added, started>>
  BY DEF JobEnds, JobEndsWorker, shutdown
<1>2. Types
  BY DEF Inv
<1>3. CASE JobEnds(w)
  <2>1. task' = [task EXCEPT ![w] = "get"] /\ registered' = registered
    BY <1>3 DEF JobEnds
  <2>2. QED
    BY <1>1, <1>2, <2>1, JobOver DEF Types
<1>4. CASE JobEndsWorker(w)
  <2>1. Ends(w)
    BY <1>4 DEF JobEndsWorker
  <2>2. QED
    BY <1>1, <1>2, <2>1, EndsRegister, JobOver DEF Types
<1>5. QED
  BY <1>3, <1>4

LEMMA CancelledInv ==
    ASSUME Inv, NEW w \in Workers, Cancelled(w) \/ Suppresses(w)
    PROVE  Inv'
<1>1. /\ cancelling' = cancelling \ {w}
      /\ UNCHANGED <<queue, group, accepting, client, stopper, awaited, stopped, added, started>>
  BY DEF Cancelled, Suppresses, shutdown
<1>2. Types
  BY DEF Inv
<1>3. CASE task[w] = "run" /\ TaskDone(w) /\ Ends(w)
  BY <1>1, <1>2, <1>3, EndsRegister, JobOver DEF Types
<1>4. CASE task[w] = "get" /\ Ends(w) /\ UNCHANGED <<job, unfinished>>
  <2>1. /\ task' = [task EXCEPT ![w] = "done"]
        /\ registered' \in [Groups -> Workers \cup {None}]
        /\ \A v \in Workers \ {w} : \A g \in Groups :
               registered[g] = v => registered'[g] = v
    BY <1>2, <1>4, EndsRegister
  <2>2. task' # task
    BY <1>2, <1>4, <2>1 DEF Types
  <2>3. cancelling' \subseteq Workers
    BY <1>1, <1>2 DEF Types
  <2>4. QED
    BY <1>1, <1>4, <2>1, <2>2, <2>3, IdleEnds
<1>5. CASE /\ task[w] = "new" /\ task' = [task EXCEPT ![w] = "done"]
           /\ UNCHANGED <<registered, job, unfinished>>
  BY <1>1, <1>2, <1>5, IdleEnds DEF Types
<1>6. CASE Suppresses(w)
  <2>1. UNCHANGED <<unfinished, registered, task, job>>
    BY <1>6 DEF Suppresses
  <2>2. QED
    BY <1>1, <1>2, <2>1, IdleEnds DEF Types
<1>7. QED
  BY <1>3, <1>4, <1>5, <1>6 DEF Cancelled

LEMMA ShutdownStepInv ==
    ASSUME Inv, Shutdown
    PROVE  Inv'
<1>1. /\ stopper = "idle" /\ accepting' = FALSE /\ stopper' = "joining"
      /\ UNCHANGED <<queue, unfinished, registered, task, group, job, cancelling, client,
                     awaited, stopped, added, started>>
  BY DEF Shutdown, tasks
<1>2. Types'
  BY <1>1 DEF Inv, Types
<1>3. Flags'
  BY <1>1, Zenon DEF Inv, Flags
<1>4. WorkersInv'
  BY <1>1 DEF Inv, WorkersInv, OneWorkerPerGroup, Alive
<1>5. QueuesInv'
  BY <1>1 DEF Inv, QueuesInv, Running
<1>6. ShutdownInv'
  BY <1>1 DEF Inv, ShutdownInv
<1>7. QED
  BY <1>2, <1>3, <1>4, <1>5, <1>6 DEF Inv

(* Every worker alive at the end of the drain is one it waits for.         *)
LEMMA DrainEndsInv ==
    ASSUME Inv, DrainEnds
    PROVE  Inv'
<1>1. /\ stopper = "joining" /\ stopper' = "cancelling" /\ awaited' = Registered
      /\ cancelling' = cancelling \cup {w \in Registered : task[w] # "done"}
      /\ UNCHANGED <<queue, unfinished, registered, task, group, job, accepting, client,
                     stopped, added, started>>
  BY DEF DrainEnds
<1>2. Registered \subseteq Workers
  BY DEF Inv, Types, Registered
<1>3. Types'
  BY <1>1, <1>2 DEF Inv, Types
<1>4. Flags'
  BY <1>1, Zenon DEF Inv, Flags
<1>5. ASSUME NEW w \in Workers, Alive(w) PROVE w \in Registered
  <2>1. group[w] \in Groups /\ registered[group[w]] = w /\ w # None
    BY <1>1, <1>5, QueueAssumption DEF Inv, WorkersInv, Alive
  <2>2. QED
    BY <2>1 DEF Registered
<1>6. WorkersInv'
  BY <1>1, <1>5 DEF Inv, WorkersInv, OneWorkerPerGroup, Alive
<1>7. QueuesInv'
  BY <1>1 DEF Inv, QueuesInv, Running
<1>8. ShutdownInv'
  BY <1>1 DEF Inv, ShutdownInv
<1>9. QED
  BY <1>3, <1>4, <1>6, <1>7, <1>8 DEF Inv

LEMMA DetachInv ==
    ASSUME Inv, Detach
    PROVE  Inv'
<1>1. /\ stopper = "cancelling" /\ stopper' = "returned"
      /\ stopped' = (Pending = {})
      /\ cancelling' = cancelling \cup Pending
      /\ queue' = [g \in Groups |-> <<>>]
      /\ unfinished' = [g \in Groups |-> unfinished[g] - Len(queue[g])]
      /\ registered' = [g \in Groups |-> None]
      /\ client' = "dropped"
      /\ UNCHANGED <<task, group, job, accepting, awaited, added, started>>
  BY DEF Detach
<1>2. Pending \subseteq Workers
  BY DEF Inv, Types, Pending
<1>3. \A g \in Groups : Len(queue[g]) \in Nat /\ unfinished[g] \in Int
  BY DEF Inv, Types
<1>4. Types'
  BY <1>1, <1>2, <1>3 DEF Inv, Types
<1>5. Flags'
  <2>1. stopped' \in BOOLEAN
    BY <1>1, Zenon
  <2>2. QED
    BY <1>1, <2>1, Zenon DEF Inv, Flags
<1>6. WorkersInv'
  BY <1>1 DEF Inv, WorkersInv, OneWorkerPerGroup, Alive
<1>7. QueuesInv'
  <2> SUFFICES ASSUME NEW g \in Groups
               PROVE  queue'[g] = <<>> /\ unfinished'[g] = Len(queue'[g]) + Cardinality(Running(g)')
    BY <1>1 DEF QueuesInv
  <2>1. Running(g)' = Running(g)
    BY <1>1 DEF Running
  <2>2. Cardinality(Running(g)) \in Nat
    BY RunningCount
  <2>3. unfinished[g] = Len(queue[g]) + Cardinality(Running(g))
    BY DEF Inv, QueuesInv
  <2>4. queue'[g] = <<>> /\ unfinished'[g] = unfinished[g] - Len(queue[g])
    BY <1>1
  <2>5. QED
    BY <1>3, <2>1, <2>2, <2>3, <2>4
<1>8. ASSUME stopped' = TRUE, NEW w \in Workers PROVE task[w] # "run"
  <2>1. Pending = {}
    BY <1>1, <1>8
  <2>2. Alive(w) => w \in awaited
    BY <1>1 DEF Inv, WorkersInv
  <2>3. QED
    BY <2>1, <2>2 DEF Pending, Alive
<1>9. ShutdownInv'
  BY <1>1, <1>8 DEF Inv, ShutdownInv
<1>10. QED
  BY <1>4, <1>5, <1>6, <1>7, <1>9 DEF Inv

LEMMA CloseClientInv ==
    ASSUME Inv, CloseClient
    PROVE  Inv'
<1>1. /\ stopper = "returned" /\ client' = "closed"
      /\ UNCHANGED <<queue, unfinished, registered, task, group, job, cancelling, accepting,
                     stopper, awaited, stopped, added, started>>
  BY DEF CloseClient, tasks, shutdown
<1>2. stopped = TRUE
  BY DEF CloseClient, Inv, Flags
<1>3. Types'
  BY <1>1 DEF Inv, Types
<1>4. Flags'
  BY <1>1, Zenon DEF Inv, Flags
<1>5. WorkersInv'
  BY <1>1 DEF Inv, WorkersInv, OneWorkerPerGroup, Alive
<1>6. QueuesInv'
  BY <1>1 DEF Inv, QueuesInv, Running
<1>7. ShutdownInv'
  BY <1>1, <1>2 DEF Inv, ShutdownInv
<1>8. QED
  BY <1>3, <1>4, <1>5, <1>6, <1>7 DEF Inv

LEMMA StutterInv ==
    ASSUME Inv, UNCHANGED vars
    PROVE  Inv'
<1>1. UNCHANGED <<queue, unfinished, registered, task, group, job, cancelling, accepting,
                  client, stopper, awaited, stopped, added, started>>
  BY DEF vars, tasks, shutdown
<1>2. QED
  BY <1>1 DEF Inv, Types, Flags, WorkersInv, OneWorkerPerGroup, Alive, QueuesInv, Running,
              ShutdownInv

LEMMA NextInv == Inv /\ [Next]_vars => Inv'
<1> SUFFICES ASSUME Inv, [Next]_vars PROVE Inv'
  OBVIOUS
<1>1. CASE \E e \in Episodes : AddEpisode(e)
  BY <1>1, AddEpisodeInv
<1>2. CASE \E w \in Workers : Turn(w) \/ JobEnds(w) \/ JobEndsWorker(w) \/ Suppresses(w)
  BY <1>2, TakeInv, JobInv, CancelledInv DEF Turn
<1>3. CASE Shutdown \/ DrainEnds \/ Detach \/ CloseClient
  BY <1>3, ShutdownStepInv, DrainEndsInv, DetachInv, CloseClientInv
<1>4. CASE UNCHANGED vars
  BY <1>4, StutterInv
<1>5. QED
  BY <1>1, <1>2, <1>3, <1>4 DEF Next

-----------------------------------------------------------------------------
(* The theorems.                                                           *)

(* The inductive invariant holds throughout.                               *)
THEOREM InvHolds == Spec => []Inv
BY InitInv, NextInv, PTL DEF Spec

(* The episodes of a group are processed one at a time and start in the    *)
(* order they were added, and asyncio's count of a queue is what waits in  *)
(* it or is being processed, so that queue.join() means what it seems to.  *)
THEOREM EpisodesInOrder == Spec => []InOrder
<1>1. Inv => InOrder
  BY DEF Inv, WorkersInv, QueuesInv, InOrder, Running
<1>2. QED
  BY InvHolds, <1>1, PTL

(* The graph client is closed only when no job uses it, and none can start *)
(* once the service has let it go.                                         *)
THEOREM ClientClosedLast == Spec => []ClientOutlivesJobs
<1>1. Inv => ClientOutlivesJobs
  <2> SUFFICES ASSUME Inv, client # "open" PROVE ClientOutlivesJobs
    BY DEF ClientOutlivesJobs
  <2>1. stopper = "returned" /\ \A g \in Groups : queue[g] = <<>>
    BY DEF Inv, ShutdownInv, QueuesInv
  <2>2. CASE stopped = TRUE
    BY <2>1, <2>2 DEF Inv, ShutdownInv, ClientOutlivesJobs
  <2>3. CASE stopped = FALSE
    <3>1. client = "dropped"
      BY <2>3 DEF Inv, Types, ShutdownInv
    <3>2. QED
      BY <2>1, <2>3, <3>1 DEF ClientOutlivesJobs
  <2>4. QED
    BY <2>2, <2>3 DEF Inv, Flags
<1>2. QED
  BY InvHolds, <1>1, PTL

-----------------------------------------------------------------------------
(* The databases of the groups that the queues and the requests work on:   *)
(* proofs about GroupScope, for any number of callers, groups and          *)
(* initialization tasks, and any number of failures.                       *)

(* A task whose driver may still be handed out.                            *)
Viable(t) == progress[t] \in {"queued", "building", "ready"}

(* From the moment it owns a copy until it returns, a call works on that   *)
(* copy, and the copy is bound to its group; before and after, it has      *)
(* touched nothing.                                                        *)
BoundAt(c) ==
    /\ pc[c] \in {"called", "working"} =>
         c \in copied /\ driver[c] = target[c] /\ clients[c] = target[c]
    /\ pc[c] # "working" => touched[c] = {}
    /\ pc[c] # "idle" => target[c] \in GroupIds
    /\ pc[c] = "waiting" => waits[c] \in Tasks
    /\ touched[c] \subseteq {target[c]}

(* A task that has not failed is the one cached for its group.             *)
CachedAt(t) == Viable(t) => owner[t] \in GroupIds /\ cache[owner[t]] = t

ScopeInv ==
    /\ ScopeTypeOK
    /\ \A c \in Callers : BoundAt(c)
    /\ \A t \in Tasks : CachedAt(t)

-----------------------------------------------------------------------------
(* What the steps leave alone.                                             *)

LEMMA ScopeInit == ASSUME ScopeAssumption PROVE InitScope => ScopeInv
BY DEF ScopeAssumption, InitScope, ScopeInv, ScopeTypeOK, BoundAt, CachedAt,
       Viable, TaskStates, CallerPcs, Objects, Databases

LEMMA BoundSame ==
    ASSUME NEW c \in Callers, BoundAt(c),
           pc'[c] = pc[c], target'[c] = target[c], waits'[c] = waits[c], touched'[c] = touched[c],
           driver'[c] = driver[c], clients'[c] = clients[c],
           c \in copied => c \in copied'
    PROVE  BoundAt(c)'
BY DEF BoundAt

LEMMA CachedSame ==
    ASSUME ScopeAssumption, ScopeInv, UNCHANGED <<cache, progress, owner>>
    PROVE  \A t \in Tasks : CachedAt(t)'
BY DEF ScopeInv, CachedAt, Viable

(* Dropping a task that failed takes no other group's driver away.         *)
LEMMA DropsCached ==
    ASSUME ScopeAssumption, ScopeInv,
           NEW g, NEW x \in Tasks, progress[x] = "failed", Drops(g, x),
           UNCHANGED <<progress, owner>>
    PROVE  /\ cache' \in [GroupIds -> Tasks \cup {Nil}]
           /\ \A t \in Tasks : CachedAt(t)'
<1>1. cache' \in [GroupIds -> Tasks \cup {Nil}]
  BY DEF Drops, ScopeInv, ScopeTypeOK
<1>2. ASSUME NEW t \in Tasks, Viable(t)
      PROVE  cache'[owner[t]] = t
  <2>1. owner[t] \in GroupIds /\ cache[owner[t]] = t /\ t # x
    BY <1>2 DEF ScopeInv, CachedAt, Viable
  <2>2. QED
    BY <2>1 DEF Drops, ScopeInv, ScopeTypeOK
<1>3. QED
  BY <1>1, <1>2 DEF ScopeInv, CachedAt, Viable

-----------------------------------------------------------------------------
(* Asking for a driver.                                                    *)

LEMMA AskBaseInv ==
    ASSUME ScopeAssumption, ScopeInv, NEW c \in Callers, AskBase(c)
    PROVE  ScopeInv'
<1>1. /\ pc[c] = "idle"
      /\ target' = [target EXCEPT ![c] = Base] /\ pc' = [pc EXCEPT ![c] = "obtained"]
      /\ UNCHANGED <<cache, progress, owner, unseen, failures, waits, copied, driver,
                     clients, touched>>
  BY DEF AskBase, Goto, taskVars, objectVars
<1>2. ScopeTypeOK'
  BY <1>1 DEF ScopeAssumption, ScopeInv, ScopeTypeOK, CallerPcs
<1>3. ASSUME NEW x \in Callers PROVE BoundAt(x)'
  <2>1. CASE x = c
    BY <1>1, <2>1 DEF ScopeAssumption, ScopeInv, ScopeTypeOK, BoundAt
  <2>2. CASE x # c
    BY <1>1, <2>2, BoundSame DEF ScopeInv, ScopeTypeOK
  <2>3. QED
    BY <2>1, <2>2
<1>4. QED
  BY <1>1, <1>2, <1>3, CachedSame DEF ScopeInv

LEMMA AskFirstInv ==
    ASSUME ScopeAssumption, ScopeInv,
           NEW c \in Callers, NEW g \in GroupIds, AskFirst(c, g)
    PROVE  ScopeInv'
<1>1. /\ pc[c] = "idle" /\ cache[g] = Nil
      /\ target' = [target EXCEPT ![c] = g] /\ pc' = [pc EXCEPT ![c] = "waiting"]
      /\ UNCHANGED <<unseen, failures, copied, driver, clients, touched>>
  BY DEF AskFirst, Goto, objectVars
<1>2. PICK t \in Tasks :
          /\ progress[t] = "unused"
          /\ progress' = [progress EXCEPT ![t] = "queued"]
          /\ owner' = [owner EXCEPT ![t] = g]
          /\ cache' = [cache EXCEPT ![g] = t]
          /\ waits' = [waits EXCEPT ![c] = t]
  BY DEF AskFirst
<1>3. ScopeTypeOK'
  BY <1>1, <1>2 DEF ScopeInv, ScopeTypeOK, CallerPcs, TaskStates
<1>4. ASSUME NEW x \in Callers PROVE BoundAt(x)'
  <2>1. CASE x = c
    BY <1>1, <1>2, <2>1 DEF ScopeInv, ScopeTypeOK, BoundAt
  <2>2. CASE x # c
    BY <1>1, <1>2, <2>2, BoundSame DEF ScopeInv, ScopeTypeOK
  <2>3. QED
    BY <2>1, <2>2
<1>5. ASSUME NEW s \in Tasks PROVE CachedAt(s)'
  <2>1. CASE s = t
    BY <1>2, <2>1 DEF ScopeInv, ScopeTypeOK, CachedAt
  <2>2. CASE s # t
    <3>1. progress'[s] = progress[s] /\ owner'[s] = owner[s]
      BY <1>2, <2>2 DEF ScopeInv, ScopeTypeOK
    <3>2. Viable(s) => cache[owner[s]] = s /\ owner[s] \in GroupIds \ {g}
      BY <1>1 DEF ScopeAssumption, ScopeInv, CachedAt
    <3>3. QED
      BY <1>2, <3>1, <3>2 DEF ScopeInv, ScopeTypeOK, CachedAt, Viable
  <2>3. QED
    BY <2>1, <2>2
<1>6. QED
  BY <1>3, <1>4, <1>5 DEF ScopeInv

LEMMA AskCachedInv ==
    ASSUME ScopeAssumption, ScopeInv,
           NEW c \in Callers, NEW g \in GroupIds, AskCached(c, g)
    PROVE  ScopeInv'
<1>1. /\ pc[c] = "idle" /\ cache[g] \in Tasks
      /\ UNCHANGED <<progress, owner, unseen, failures, copied, driver, clients, touched>>
  BY DEF AskCached, taskVars, objectVars, ScopeInv, ScopeTypeOK
<1>2. CASE /\ target' = [target EXCEPT ![c] = g]
           /\ \/ /\ waits' = [waits EXCEPT ![c] = cache[g]]
                 /\ Goto(c, "waiting")
              \/ UNCHANGED waits /\ Goto(c, "obtained")
           /\ UNCHANGED cache
  <2>1. ScopeTypeOK'
    BY <1>1, <1>2 DEF ScopeInv, ScopeTypeOK, CallerPcs, Goto
  <2>2. ASSUME NEW x \in Callers PROVE BoundAt(x)'
    <3>1. CASE x = c
      BY <1>1, <1>2, <3>1 DEF ScopeInv, ScopeTypeOK, BoundAt, Goto
    <3>2. CASE x # c
      BY <1>1, <1>2, <3>2, BoundSame DEF ScopeInv, ScopeTypeOK, Goto
    <3>3. QED
      BY <3>1, <3>2
  <2>3. QED
    BY <1>1, <1>2, <2>1, <2>2, CachedSame DEF ScopeInv
<1>3. CASE /\ progress[cache[g]] = "failed" /\ Drops(g, cache[g])
           /\ UNCHANGED <<pc, target, waits>>
  <2>1. cache' \in [GroupIds -> Tasks \cup {Nil}] /\ \A t \in Tasks : CachedAt(t)'
    BY <1>1, <1>3, DropsCached
  <2>2. QED
    BY <1>1, <1>3, <2>1, BoundSame DEF ScopeInv, ScopeTypeOK
<1>4. QED
  BY <1>2, <1>3 DEF AskCached

(* A caller that is gone has touched nothing.                              *)
LEMMA LeavesInv ==
    ASSUME ScopeAssumption, ScopeInv,
           NEW c \in Callers, pc[c] = "waiting", Leaves(c),
           UNCHANGED <<copied, driver, clients, touched>>
    PROVE  /\ \A x \in Callers : BoundAt(x)'
           /\ target' \in [Callers -> GroupIds \cup {Nil}]
           /\ waits' \in [Callers -> Tasks \cup {Nil}]
           /\ pc' \in [Callers -> CallerPcs]
<1>1. ASSUME NEW x \in Callers PROVE BoundAt(x)'
  <2>1. CASE x = c
    BY <2>1 DEF ScopeInv, ScopeTypeOK, BoundAt, Leaves, Goto
  <2>2. CASE x # c
    BY <2>2, BoundSame DEF ScopeInv, ScopeTypeOK, Leaves, Goto
  <2>3. QED
    BY <2>1, <2>2
<1>2. QED
  BY <1>1 DEF ScopeInv, ScopeTypeOK, Leaves, Goto, CallerPcs

LEMMA WakeInv ==
    ASSUME ScopeAssumption, ScopeInv,
           NEW c \in Callers, Wake(c) \/ CancelWaiting(c)
    PROVE  ScopeInv'
<1>1. CASE Obtain(c)
  <2>1. /\ pc[c] = "waiting"
        /\ waits' = [waits EXCEPT ![c] = Nil]
        /\ pc' = [pc EXCEPT ![c] = "obtained"]
        /\ UNCHANGED <<cache, progress, owner, unseen, failures, target, copied, driver,
                       clients, touched>>
    BY <1>1 DEF Obtain, Goto, taskVars, objectVars
  <2>2. ScopeTypeOK'
    BY <2>1 DEF ScopeInv, ScopeTypeOK, CallerPcs
  <2>3. ASSUME NEW x \in Callers PROVE BoundAt(x)'
    <3>1. CASE x = c
      BY <2>1, <3>1 DEF ScopeInv, ScopeTypeOK, BoundAt
    <3>2. CASE x # c
      BY <2>1, <3>2, BoundSame DEF ScopeInv, ScopeTypeOK
    <3>3. QED
      BY <3>1, <3>2
  <2>4. QED
    BY <2>1, <2>2, <2>3, CachedSame DEF ScopeInv
<1>2. CASE MeetFailure(c)
  <2>1. /\ pc[c] = "waiting" /\ progress[waits[c]] = "failed"
        /\ Drops(target[c], waits[c]) /\ Leaves(c)
        /\ UNCHANGED <<progress, owner, unseen, failures, copied, driver, clients, touched>>
    BY <1>2 DEF MeetFailure, taskVars, objectVars
  <2>2. waits[c] \in Tasks
    BY <2>1 DEF ScopeInv, BoundAt
  <2>3. cache' \in [GroupIds -> Tasks \cup {Nil}] /\ \A t \in Tasks : CachedAt(t)'
    BY <2>1, <2>2, DropsCached
  <2>4. QED
    BY <2>1, <2>3, LeavesInv DEF ScopeInv, ScopeTypeOK
<1>3. CASE CancelWaiting(c)
  <2>1. /\ pc[c] = "waiting" /\ Leaves(c)
        /\ UNCHANGED <<cache, progress, owner, unseen, failures, copied, driver, clients, touched>>
    BY <1>3 DEF CancelWaiting, Abandoned, objectVars
  <2>2. QED
    BY <2>1, LeavesInv, CachedSame DEF ScopeInv, ScopeTypeOK
<1>4. QED
  BY <1>1, <1>2, <1>3 DEF Wake

-----------------------------------------------------------------------------
(* The tasks.                                                              *)

LEMMA CallersSame ==
    ASSUME ScopeAssumption, ScopeInv,
           UNCHANGED <<pc, target, waits, copied, driver, clients, touched>>
    PROVE  \A c \in Callers : BoundAt(c)'
BY DEF ScopeInv, BoundAt

LEMMA TaskInv ==
    ASSUME ScopeAssumption, ScopeInv,
           NEW t \in Tasks, TaskStep(t) \/ BuildFails(t)
    PROVE  ScopeInv'
<1>1. UNCHANGED <<pc, target, waits, copied, driver, clients, touched, owner>>
  BY DEF TaskStep, Build, Built, BuildFails,
         Callback, objectVars
<1>2. \A c \in Callers : BoundAt(c)'
  BY <1>1, CallersSame
<1>3. CASE Build(t) \/ Built(t) \/ BuildFails(t)
  <2>1. PICK s \in {"building", "ready", "failed"} : progress' = [progress EXCEPT ![t] = s]
    BY <1>3 DEF Build, Built, BuildFails
  <2>2. /\ UNCHANGED cache
        /\ failures' = failures \/ (failures < MaxFailures /\ failures' = failures + 1)
    BY <1>3 DEF Build, Built, BuildFails
  <2>3. Viable(t)
    BY <1>3 DEF Build, Built, BuildFails, UnderWay, Viable
  <2>4. unseen' \in SUBSET Tasks
    BY <1>3 DEF Build, Built, BuildFails, ScopeInv, ScopeTypeOK
  <2>5. failures' \in 0..MaxFailures
    BY <2>2 DEF ScopeAssumption, ScopeInv, ScopeTypeOK
  <2>6. ScopeTypeOK'
    BY <1>1, <2>1, <2>2, <2>4, <2>5 DEF ScopeInv, ScopeTypeOK, TaskStates
  <2>7. \A x \in Tasks : CachedAt(x)'
    BY <1>1, <2>1, <2>2, <2>3 DEF ScopeInv, ScopeTypeOK, CachedAt, Viable
  <2>8. QED
    BY <1>2, <2>6, <2>7 DEF ScopeInv
<1>4. CASE Callback(t)
  <2>1. /\ unseen' = unseen \ {t} /\ UNCHANGED <<progress, failures>>
        /\ IF progress[t] = "failed" THEN Drops(owner[t], t) ELSE UNCHANGED cache
    BY <1>4 DEF Callback
  <2>2. cache' \in [GroupIds -> Tasks \cup {Nil}] /\ \A x \in Tasks : CachedAt(x)'
    <3>1. CASE progress[t] = "failed"
      BY <1>1, <2>1, <3>1, DropsCached
    <3>2. CASE progress[t] # "failed"
      BY <1>1, <2>1, <3>2, CachedSame DEF ScopeInv, ScopeTypeOK
    <3>3. QED
      BY <3>1, <3>2
  <2>3. ScopeTypeOK'
    BY <1>1, <2>1, <2>2 DEF ScopeInv, ScopeTypeOK
  <2>4. QED
    BY <1>2, <2>2, <2>3 DEF ScopeInv
<1>5. QED
  BY <1>3, <1>4 DEF TaskStep

-----------------------------------------------------------------------------
(* The calls.                                                              *)

LEMMA CallInv ==
    ASSUME ScopeAssumption, ScopeInv, NEW c \in Callers,
           TakeScope(c) \/ Enter(c) \/ Work(c) \/ Return(c)
    PROVE  ScopeInv'
<1>1. UNCHANGED <<cache, progress, owner, unseen, failures>>
  BY DEF TakeScope, Enter, Work, Return, taskVars
<1>2. \A t \in Tasks : CachedAt(t)'
  BY <1>1, CachedSame
<1>3. CASE TakeScope(c)
  <2>1. /\ pc[c] = "obtained" /\ target[c] \in GroupIds
        /\ copied' = copied \cup {c}
        /\ driver' = [driver EXCEPT ![c] = target[c]]
        /\ clients' = [clients EXCEPT ![c] = target[c]]
        /\ pc' = [pc EXCEPT ![c] = "called"]
        /\ UNCHANGED <<target, waits, touched>>
    BY <1>3 DEF TakeScope, Scope, Goto, ScopeInv, BoundAt
  <2>2. ScopeTypeOK'
    BY <1>1, <2>1
       DEF ScopeInv, ScopeTypeOK, CallerPcs, Objects, Databases
  <2>3. ASSUME NEW x \in Callers PROVE BoundAt(x)'
    <3>1. CASE x = c
      BY <2>1, <3>1 DEF ScopeInv, ScopeTypeOK, BoundAt, Objects
    <3>2. CASE x # c
      BY <2>1, <3>2, BoundSame DEF ScopeInv, ScopeTypeOK, Objects
    <3>3. QED
      BY <3>1, <3>2
  <2>4. QED
    BY <1>2, <2>2, <2>3 DEF ScopeInv
<1>4. CASE Enter(c)
  <2>1. pc[c] = "called" /\ Client(c) = c /\ driver[c] = target[c]
    BY <1>4 DEF Enter, Client, ScopeInv, BoundAt
  <2>2. /\ UNCHANGED <<driver, clients, target, waits, copied, touched>>
        /\ pc' = [pc EXCEPT ![c] = "working"]
    BY <1>4, <2>1 DEF Enter, Goto
  <2>3. ScopeTypeOK'
    BY <1>1, <2>2 DEF ScopeInv, ScopeTypeOK, CallerPcs
  <2>4. ASSUME NEW x \in Callers PROVE BoundAt(x)'
    BY <2>1, <2>2 DEF ScopeInv, ScopeTypeOK, BoundAt
  <2>5. QED
    BY <1>2, <2>3, <2>4 DEF ScopeInv
<1>5. CASE Work(c)
  <2>1. /\ pc[c] = "working" /\ Client(c) = c /\ target[c] \in GroupIds
        /\ driver[c] = target[c] /\ clients[c] = target[c]
    BY <1>5 DEF Work, Client, ScopeInv, BoundAt
  <2>2. /\ touched' = [touched EXCEPT ![c] = @ \cup {target[c]}]
        /\ UNCHANGED <<pc, target, waits, copied, driver, clients>>
    BY <1>5, <2>1 DEF Work
  <2>3. ScopeTypeOK'
    BY <1>1, <2>1, <2>2 DEF ScopeInv, ScopeTypeOK, Databases
  <2>4. ASSUME NEW x \in Callers PROVE BoundAt(x)'
    BY <2>1, <2>2 DEF ScopeInv, ScopeTypeOK, BoundAt
  <2>5. QED
    BY <1>2, <2>3, <2>4 DEF ScopeInv
<1>6. CASE Return(c)
  <2>1. /\ target' = [target EXCEPT ![c] = Nil]
        /\ waits' = [waits EXCEPT ![c] = Nil]
        /\ pc' = [pc EXCEPT ![c] = "idle"]
        /\ copied' = copied \ {c}
        /\ driver' = [driver EXCEPT ![c] = Base]
        /\ clients' = [clients EXCEPT ![c] = Base]
        /\ touched' = [touched EXCEPT ![c] = {}]
    BY <1>6 DEF Return, Leaves, Goto
  <2>2. ScopeTypeOK'
    BY <1>1, <2>1
       DEF ScopeAssumption, ScopeInv, ScopeTypeOK, CallerPcs,
           Objects, Databases
  <2>3. ASSUME NEW x \in Callers PROVE BoundAt(x)'
    <3>1. CASE x = c
      BY <2>1, <3>1 DEF ScopeInv, ScopeTypeOK, BoundAt, Objects
    <3>2. CASE x # c
      BY <2>1, <3>2, BoundSame DEF ScopeInv, ScopeTypeOK, Objects
    <3>3. QED
      BY <3>1, <3>2
  <2>4. QED
    BY <1>2, <2>2, <2>3 DEF ScopeInv
<1>7. QED
  BY <1>3, <1>4, <1>5, <1>6

LEMMA ScopeNext ==
    ASSUME ScopeAssumption
    PROVE  ScopeInv /\ [NextScope]_scopeVars => ScopeInv'
<1> SUFFICES ASSUME ScopeInv, [NextScope]_scopeVars PROVE ScopeInv'
  OBVIOUS
<1>1. CASE UNCHANGED scopeVars
  BY <1>1 DEF scopeVars, ScopeInv, ScopeTypeOK, BoundAt, CachedAt, Viable
<1>2. CASE NextScope
  BY <1>2, AskBaseInv, AskFirstInv, AskCachedInv, WakeInv, CallInv, TaskInv
     DEF NextScope, TaskStep
<1>3. QED
  BY <1>1, <1>2

-----------------------------------------------------------------------------
(* The theorems.                                                           *)

(* The inductive invariant holds throughout.                               *)
THEOREM ScopeInvHolds == ASSUME ScopeAssumption PROVE SpecScope => []ScopeInv
<1>1. InitScope => ScopeInv
  BY ScopeInit
<1>2. ScopeInv /\ [NextScope]_scopeVars => ScopeInv'
  BY ScopeNext
<1>3. QED
  BY <1>1, <1>2, PTL DEF SpecScope

(* However many groups are served at the same time, and whichever calls    *)
(* are cancelled, a call reads and writes the database of its own group    *)
(* only: graphiti_for_group gives it a client nobody else rebinds.         *)
THEOREM RoutingCorrect ==
    ASSUME ScopeAssumption
    PROVE  SpecScope => []RoutedToOwnGroup
<1>1. ScopeInv => RoutedToOwnGroup
  BY DEF ScopeInv, BoundAt, RoutedToOwnGroup
<1>2. QED
  BY ScopeInvHolds, <1>1, PTL

(* A group never has two initialization tasks that are under way or have   *)
(* succeeded, although callers and callbacks drop failed ones at any time  *)
(* (driver_for_group caches the task before it awaits anything, and the    *)
(* task is only dropped by those who know it failed).                      *)
THEOREM OneDriver ==
    ASSUME ScopeAssumption
    PROVE  SpecScope => []OneDriverPerGroup
<1>1. ScopeInv => OneDriverPerGroup
  BY DEF ScopeInv, CachedAt, Viable, OneDriverPerGroup
<1>2. QED
  BY ScopeInvHolds, <1>1, PTL
=============================================================================
