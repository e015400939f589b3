------------------------------- MODULE MCProxy -------------------------------
(***************************************************************************)
(* Small instances of Proxy for TLC.                                       *)
(***************************************************************************)
EXTENDS Proxy

CONSTANTS u1, u2

\* No operator of Proxy chooses among urls: they are interchangeable.
UrlSymmetry == Permutations({u1, u2})
=============================================================================
