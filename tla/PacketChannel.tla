--------------------------- MODULE PacketChannel ---------------------------
(***************************************************************************)
(* What the length-prefixed TCP transport between the Windows sender and   *)
(* the tablet promises, independently of how bytes are cut into send() and *)
(* recv() calls: on each connection the packets handed to OnPacket are, in *)
(* order and without gaps or repeats, the packets the sender framed.  A    *)
(* packet above the size limit is a barrier: neither it nor anything       *)
(* behind it on the same connection is ever delivered.                     *)
(***************************************************************************)
EXTENDS Naturals, Sequences

CONSTANTS Conns,      \* connections, in the order the sender opens them
          Packets,    \* packet payloads
          MaxPacket   \* largest payload the receiver accepts

VARIABLES sent,       \* sent[c]: payloads framed on connection c, in order
          delivered   \* delivered[c]: payloads handed to OnPacket

chan == <<sent, delivered>>

Init == /\ sent = [c \in Conns |-> <<>>]
        /\ delivered = [c \in Conns |-> <<>>]

Send(c, p) == /\ sent' = [sent EXCEPT ![c] = Append(@, p)]
              /\ UNCHANGED delivered

Deliver(c) ==
  LET next == Len(delivered[c]) + 1
  IN  /\ next \in DOMAIN sent[c]
      /\ Len(sent[c][next]) =< MaxPacket
      /\ delivered' = [delivered EXCEPT ![c] = Append(@, sent[c][next])]
      /\ UNCHANGED sent

Next == \E c \in Conns : Deliver(c) \/ \E p \in Packets : Send(c, p)

Spec == Init /\ [][Next]_chan
=============================================================================
