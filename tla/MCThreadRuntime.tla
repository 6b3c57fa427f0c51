--------------------------- MODULE MCThreadRuntime ---------------------------
(***************************************************************************)
(* Instances of ThreadRuntime for TLC: a coordinator p, a child and a      *)
(* relay.                                                                  *)
(***************************************************************************)
EXTENDS ThreadRuntime

CONSTANTS p, c1, r1

MCOneChild == {c1}
MCOneRelay == {r1}
=============================================================================
