--------------------------- MODULE MCEventStream ---------------------------
(* Instances of EventStream for TLC: a creator and a second writer, one     *)
(* connection.                                                              *)
EXTENDS EventStream

CONSTANTS w1, w2, c1
=============================================================================
