---------------------------- MODULE MessageStream ----------------------------
(***************************************************************************)
(* What a user of http_parser is promised of its callbacks: messages come  *)
(* one after the other, each with its headers before its body; the bytes   *)
(* of a body, or of each of its chunks, are handed over exactly as many as *)
(* were announced, and a message or a chunk is not complete before that.   *)
(***************************************************************************)
EXTENDS Naturals

VARIABLES phase, \* the part of a message that comes next
          owed   \* bytes announced and not yet handed over

vars == <<phase, owed>>

Init == phase = "idle" /\ owed = 0

Begin == phase = "idle" /\ phase' = "head" /\ UNCHANGED owed

\* The headers are through: a length is announced, or chunks are going to be.
Body == phase = "head" /\ phase' = "body" /\ owed' \in Nat

Chunk == phase = "body" /\ owed = 0 /\ owed' \in Nat /\ UNCHANGED phase

HandOver == phase = "body" /\ owed' \in 0..owed /\ UNCHANGED phase

\* A message is complete; it may have had no body.
Complete == phase # "idle" /\ owed = 0 /\ phase' = "idle" /\ UNCHANGED owed

Next == Begin \/ Body \/ Chunk \/ HandOver \/ Complete

Spec == Init /\ [][Next]_vars
=============================================================================
