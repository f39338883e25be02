-------------------------- MODULE MaterializedView --------------------------
(***************************************************************************)
(* What the vector index promises to be: a materialized view of a source   *)
(* of truth that is maintained outside the source's transactions.  The     *)
(* view of a key may lag only while the key is marked stale; the mark is   *)
(* durable, and it is taken away only when view and source agree.          *)
(***************************************************************************)
CONSTANTS
    Keys,
    Values,
    None      \* nothing to show for the key

VARIABLES source, view, stale

vars == <<source, view, stale>>

TypeOK ==
    /\ source \in [Keys -> Values \cup {None}]
    /\ view \in [Keys -> Values \cup {None}]
    /\ stale \in SUBSET Keys

Init ==
    /\ source = [k \in Keys |-> None]
    /\ view = [k \in Keys |-> None]
    /\ stale = {}

(* The source of some keys changes, or is confirmed under a new version;   *)
(* in the same atomic step they are marked.                                *)
Change(S) ==
    /\ source' \in [Keys -> Values \cup {None}]
    /\ \A k \in Keys \ S : source'[k] = source[k]
    /\ stale' = stale \cup S
    /\ UNCHANGED view

(* A write reaches the view, possibly an old one: only stale keys move.    *)
Refresh(k) ==
    /\ k \in stale
    /\ \E v \in Values \cup {None} : view' = [view EXCEPT ![k] = v]
    /\ UNCHANGED <<source, stale>>

(* Marks are removed where, and only where, the view has caught up.        *)
Settle(S) ==
    /\ \A k \in S : view[k] = source[k]
    /\ stale' = stale \ S
    /\ UNCHANGED <<source, view>>

Next ==
    \/ \E S \in SUBSET Keys : Change(S) \/ Settle(S)
    \/ \E k \in Keys : Refresh(k)

Spec == Init /\ [][Next]_vars
=============================================================================
