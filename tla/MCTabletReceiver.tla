-------------------------- MODULE MCTabletReceiver --------------------------
(* The receiver with a codec of two input buffers. *)
EXTENDS TabletReceiver

CONSTANTS b1, b2
MCBuffers == {b1, b2}
=============================================================================
