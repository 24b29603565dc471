---------------------------- MODULE MCNetServer ----------------------------
(* NetServer on payloads whose bytes look like headers, one above the limit. *)
EXTENDS NetServer

MCPackets == {<<>>, <<0, 1>>, <<0, 0, 0>>}
=============================================================================
