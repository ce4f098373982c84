---------------------------- MODULE MCTransactions ----------------------------
(***************************************************************************)
(* Sessions and transactions for a few threads, sessions and objects.      *)
(***************************************************************************)
EXTENDS Transactions

\* Every thread may call with every session.
MCAllUse == [t \in Threads |-> Sessions]

\* One session is shared by two threads, the other is the view of one of them.
CONSTANTS t1, t2, s1, s2
MCOneShared == [t \in Threads |-> IF t = t1 THEN {s1, s2} ELSE {s2}]
===============================================================================
