---------------------------- MODULE MCAtomicFile ----------------------------
(***************************************************************************)
(* Instances of AtomicFile: who makes which call.                          *)
(***************************************************************************)
EXTENDS AtomicFile

CONSTANTS loop, cron, w1, w2, w3

\* Two processes; the first makes two calls.
MCOwner == [c \in Calls |-> IF c = w3 THEN cron ELSE loop]
=============================================================================
