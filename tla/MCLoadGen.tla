------------------------------- MODULE MCLoadGen -------------------------------
(* Two workers and two paths; three series in requests of two, so that a cycle  *)
(* takes two requests and the second of them runs into the next cycle.          *)
EXTENDS LoadGen
==============================================================================
