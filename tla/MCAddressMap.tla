----------------------------- MODULE MCAddressMap -----------------------------
(***************************************************************************)
(* The address map on three levels of two-entry pages: some addresses of   *)
(* the three-digit space, so that an assignment may need no growth, one    *)
(* page or two, and a branch may be shared or not.                         *)
(***************************************************************************)
EXTENDS AddressMap

\* The digits of n in base ChunkSize.
DigitsOf(n) == [h \in Heights |-> (n \div ChunkSize ^ h) % ChunkSize]

MCLogical == {DigitsOf(n) : n \in {1, 2, 3, 6}}
===============================================================================
