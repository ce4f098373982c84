----------------------------- MODULE AddressTable -----------------------------
(***************************************************************************)
(* What addressmap.h promises of the logical-to-physical address map: a    *)
(* table from logical to physical addresses.  An assignment changes one    *)
(* entry at one instant.  A lookup is a call that other threads may run    *)
(* beside: at one instant between its call and its return it takes the     *)
(* entry of its key, or Unassigned when the key has none.                  *)
(***************************************************************************)

CONSTANTS
    Logical,     \* the logical addresses
    Physical,    \* the physical addresses an object may be mapped to
    Readers,     \* the threads that call obl_address_lookup
    Unassigned   \* OBL_PHYSICAL_UNASSIGNED

VARIABLES
    table,       \* [Logical -> Physical \cup {Unassigned}]
    lookup       \* per reader: the phase of its call, its key and its answer

vars == <<table, lookup>>

\* A reader between two calls.
Ready == [phase |-> "ready"]
Called(l) == [phase |-> "called", logical |-> l]
Answered(l, p) == [phase |-> "answered", logical |-> l, physical |-> p]

Init ==
    /\ table = [l \in Logical |-> Unassigned]
    /\ lookup = [r \in Readers |-> Ready]

Assign(l, p) ==
    /\ table' = [table EXCEPT ![l] = p]
    /\ UNCHANGED lookup

Call(r, l) ==
    /\ lookup[r] = Ready
    /\ lookup' = [lookup EXCEPT ![r] = Called(l)]
    /\ UNCHANGED table

Answer(r, l) ==
    /\ lookup[r] = Called(l)
    /\ lookup' = [lookup EXCEPT ![r] = Answered(l, table[l])]
    /\ UNCHANGED table

Return(r) ==
    /\ lookup[r].phase = "answered"
    /\ lookup' = [lookup EXCEPT ![r] = Ready]
    /\ UNCHANGED table

Next ==
    \/ \E l \in Logical, p \in Physical : Assign(l, p)
    \/ \E r \in Readers, l \in Logical : Call(r, l) \/ Answer(r, l)
    \/ \E r \in Readers : Return(r)

Spec == Init /\ [][Next]_vars
===============================================================================
