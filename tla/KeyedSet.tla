------------------------------ MODULE KeyedSet --------------------------------
(***************************************************************************)
(* What set.h promises of an obl_set: at most one object for each key.     *)
(* Inserting an object takes the place of the one with its key, removing   *)
(* one drops whatever has its key, and both leave the other keys alone.    *)
(***************************************************************************)
CONSTANTS Keys, Objects, NoObject

VARIABLE contents   \* [Keys -> Objects \cup {NoObject}]

Init == contents = [k \in Keys |-> NoObject]

Insert(k, o) == contents' = [contents EXCEPT ![k] = o]

Remove(k) == contents' = [contents EXCEPT ![k] = NoObject]

\* The whole set is destroyed.
Destroy == contents' = [k \in Keys |-> NoObject]

Next ==
    \/ \E k \in Keys : Remove(k) \/ \E o \in Objects : Insert(k, o)
    \/ Destroy

Spec == Init /\ [][Next]_contents
===============================================================================
