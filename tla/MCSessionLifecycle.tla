------------------------- MODULE MCSessionLifecycle --------------------------
(***************************************************************************)
(* A small instance of SessionLifecycle: two sessions, so that the pool    *)
(* has two threads at most besides the main thread, and either session can *)
(* do without the help of the other.                                       *)
(***************************************************************************)
EXTENDS SessionLifecycle

CONSTANTS s1, s2
=============================================================================
