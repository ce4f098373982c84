----------------------------- MODULE MCLifetimes ------------------------------
(***************************************************************************)
(* Two threads where waits block, one where they do not.                   *)
(***************************************************************************)
EXTENDS Lifetimes

CONSTANTS t1, t2

MCPrograms ==
    [blocking : {FALSE}, threads : {{t1}}, careful : BOOLEAN]
    \cup [blocking : {TRUE}, threads : {{t1, t2}}, careful : BOOLEAN]
===============================================================================
