---------------------------- MODULE MCReceiveHTTP ----------------------------
(* Two requests for one slot, and bodies on both sides of every limit: of *)
(* the size on the wire, of the size announced, and of what can be decoded. *)
(* The limit is the largest one that does not overflow.                     *)
EXTENDS ReceiveHTTP

Body(wire, decoded, form) == [wire |-> wire, decoded |-> decoded, form |-> form]

MCBodies ==
  { Body(2, 2, "ok"), Body(1, 2, "bad_data"), Body(1, 0, "empty"), Body(0, 0, "bad_length"),
    Body(3, 2, "ok"), Body(2, 3, "ok"), Body(1, 1, "broken"),
    Body(2, 2, "bad_snappy"), Body(2, 1, "bad_protobuf") }
==============================================================================
