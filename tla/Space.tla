-------------------------------- MODULE Space ---------------------------------
(***************************************************************************)
(* The words of a database as commits give them away (allocator.c,         *)
(* _obl_assign_addresses, _create_treepage, _grow_database): each object   *)
(* takes the next words, the content grows once when the object does not   *)
(* fit, and then come the pages the address map needs for it, for which    *)
(* nothing grows.                                                          *)
(***************************************************************************)
EXTENDS Integers

CONSTANTS
    FirstFree,  \* the first word after what was stored before
    FirstSize,  \* the words of the content before
    PageSize,   \* the words of a page of the address map
    Growth,     \* the words a file grows by
    MaxPages,   \* bound: how many pages one assignment creates
    MaxObject   \* bound: the words of the largest object

ASSUME SpaceAssumption ==
    /\ FirstFree \in Nat /\ FirstSize \in Nat /\ FirstFree <= FirstSize
    /\ PageSize \in Nat \ {0} /\ MaxPages \in Nat
    /\ Growth \in Nat /\ MaxObject \in Nat

VARIABLES
    content_size,    \* the words of the content
    next_physical,   \* the allocator's counter
    extents,         \* the words given to objects: <<first, one past the last>>
    pages            \* the words given to pages

space == <<content_size, next_physical, extents, pages>>

SpaceInit ==
    /\ content_size = FirstSize /\ next_physical = FirstFree
    /\ extents = {} /\ pages = {}

\* Mutant: an object that starts inside is taken to fit.
GrownByStart(end) == IF next_physical >= content_size THEN content_size + Growth ELSE content_size

Grown(end) == IF end >= content_size THEN content_size + Growth ELSE content_size

NewPages(first, count) ==
    {<<first + i * PageSize, first + (i + 1) * PageSize>> : i \in 0 .. count - 1}

\* Mutant: the counter moves past the object only.
PlaceForgetsPages(size, count) ==
    LET end == next_physical + size
    IN  /\ extents' = extents \cup {<<next_physical, end>>}
        /\ content_size' = Grown(end)
        /\ pages' = pages \cup NewPages(end, count)
        /\ next_physical' = end

\* _obl_assign_addresses of an object of this size, whose logical address needs
\* so many new pages.
Place(size, count) ==
    LET end == next_physical + size
    IN  /\ extents' = extents \cup {<<next_physical, end>>}
        /\ content_size' = Grown(end)
        /\ pages' = pages \cup NewPages(end, count)
        /\ next_physical' = end + count * PageSize

SpaceNext == \E size \in 1 .. MaxObject, count \in 0 .. MaxPages : Place(size, count)

SpaceSpec == SpaceInit /\ [][SpaceNext]_space
-------------------------------------------------------------------------------
(***************************************************************************)
(* No two objects or pages share a word, and the next words to be given    *)
(* are past all of them: what is written of one is never written over by   *)
(* another, whatever sizes and pages came before.                          *)
(***************************************************************************)
Apart(x, y) == x[2] <= y[1] \/ y[2] <= x[1]

Disjoint ==
    /\ \A x, y \in extents \cup pages : x = y \/ Apart(x, y)
    /\ \A x \in extents \cup pages : x[2] <= next_physical

(***************************************************************************)
(* Every object lies in the content, though the content grows once for an  *)
(* object whatever pages were put past its end before: it must grow by     *)
(* more than the pages of one assignment and the largest object.  A page   *)
(* itself may lie past the end.                                            *)
(***************************************************************************)
EnoughGrowth == Growth >= MaxPages * PageSize + MaxObject

ObjectsInside ==
    EnoughGrowth => \A x \in extents : x[2] <= content_size

(***************************************************************************)
(* The inductive invariant behind these two: what was given lies before    *)
(* the counter, and the counter is past the content by the pages of one    *)
(* assignment at most.                                                     *)
(***************************************************************************)
SpaceTypeOK ==
    /\ content_size \in Nat /\ next_physical \in Nat
    /\ extents \subseteq Nat \X Nat /\ pages \subseteq Nat \X Nat

NearlyInside ==
    EnoughGrowth => next_physical <= content_size + MaxPages * PageSize

SpaceInv == SpaceTypeOK /\ Disjoint /\ NearlyInside /\ ObjectsInside
===============================================================================
