---------------------------- MODULE PropertyGraph ----------------------------
(***************************************************************************)
(* What a graph store promises its clients: one graph of nodes, each in    *)
(* one group, and of edges between nodes that exist.  A write takes effect *)
(* at once and as a whole.  An episode stays in its group while it exists; *)
(* once retired it never changes again.                                    *)
(***************************************************************************)
EXTENDS Naturals

CONSTANTS
    Uuids, Edges,  \* an edge is a record with fields from and to
    Episodes,      \* the uuids of episodes
    Groups

VARIABLES
    status,  \* uuid -> absent, live or retired
    home,    \* uuid -> group, of a live node
    joined   \* the edges

graph == <<status, home, joined>>

Known == {u \in Uuids : status[u] # "absent"}

Ends(e) == {e.from, e.to}

WellFormed == UNION {Ends(e) : e \in joined} \subseteq Known

Init ==
    /\ status \in [Uuids -> {"absent", "live", "retired"}]
    /\ home \in [Uuids -> Groups \cup {"none"}]
    /\ \A u \in Uuids : home[u] \in Groups <=> status[u] = "live"
    /\ joined \in SUBSET Edges
    /\ WellFormed

(* What a read sees: live nodes of some groups, edges, and the nodes that  *)
(* 1 .. n edges of R lead to.                                              *)
Together(u, v) == home[u] = home[v]
Joined(E) == joined \cap E
Present(S, G) == {u \in S : status[u] = "live" /\ home[u] \in G}

Near(S, R, n) ==
    LET links == Joined(R)
        N[i \in 0 .. n] ==
            IF i = 0 THEN {} ELSE {e.to : e \in {f \in links : f.from \in S \cup N[i - 1]}}
    IN  N[n]

(* The nodes a step changes.                                               *)
Changed == {u \in Uuids : status'[u] # status[u] \/ home'[u] # home[u]}

(* Nodes C are written into one group, and edges may come with them.       *)
Write(C) ==
    /\ \A u \in C :
          /\ status[u] # "retired" /\ status'[u] = "live"
          /\ u \in Episodes => status[u] = "absent"
    /\ \E g \in Groups : \A u \in C : home'[u] = g
    /\ joined \subseteq joined' /\ joined' \subseteq Edges

(* Live nodes C go, and every edge of theirs with them.                    *)
Remove(C) ==
    /\ \A u \in C : status[u] = "live" /\ status'[u] = "absent" /\ home'[u] = "none"
    /\ joined' = {e \in joined : Ends(e) \cap C = {}}

Relate ==
    /\ joined \subseteq joined' /\ joined' \subseteq Edges
    /\ UNCHANGED <<status, home>>

Unrelate == joined' \subseteq joined /\ UNCHANGED <<status, home>>

Retire(u) ==
    /\ u \in Episodes /\ status[u] = "live"
    /\ status' = [status EXCEPT ![u] = "retired"]
    /\ home' = [home EXCEPT ![u] = "none"]
    /\ UNCHANGED joined

Next ==
    /\ \/ LET C == Changed IN Write(C) \/ Remove(C)
       \/ Relate
       \/ Unrelate
       \/ \E u \in Episodes : Retire(u)
    /\ WellFormed'

Spec == Init /\ [][Next]_graph
=============================================================================
