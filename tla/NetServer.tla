----------------------------- MODULE NetServer -----------------------------
(***************************************************************************)
(* The tablet's TCP server (net_server.cpp) together with the sending end  *)
(* of its connections (TcpClient and the [4-byte big-endian length]        *)
(* [payload] framing of subscreen_sender.cpp).                             *)
(*                                                                         *)
(* Threads: the server thread (Run, ClientLoop), the JS thread (Start,     *)
(* Stop) and the sender.  A byte is a number in 0..255, a payload a        *)
(* sequence of bytes.  TCP hands over any non-empty part of what was sent, *)
(* in order; a reset loses what is under way, an orderly close does not.   *)
(* The callbacks are atomic here; TabletReceiver models what they do.      *)
(***************************************************************************)
EXTENDS Naturals, Sequences

LOCAL INSTANCE SequencesExt

CONSTANTS Packets,     \* payloads the sender may send
          MaxPacket,   \* MAX_PACKET_SIZE
          Chunk,       \* READ_CHUNK, the size of one recv
          MaxConns,    \* bound: connections opened in a behaviour
          MaxSends     \* bound: packets framed in a behaviour

ASSUME NetAssumption ==
  /\ MaxPacket \in Nat
  /\ Chunk \in Nat \ {0}
  /\ MaxConns \in Nat
  /\ MaxSends \in Nat
  /\ Packets \subseteq Seq(0..255)

Conns == 1..MaxConns
Byte == 0..255

VARIABLES
  cur,        \* the sender's current connection, 0 when it has none yet
  out,        \* bytes of the running SendAll call not yet given to TCP
  wire,       \* wire[c]: bytes in the TCP connection c
  link,       \* link[c]: "none", "open", "fin", "reset" or "closed"
  sent,       \* history, sent[c]: payloads framed on connection c
  js,         \* JS thread: "stopped", "running", "stopping", "joining"
  running,    \* running_
  stopByte,   \* the stop pipe is readable
  pc,         \* server thread: "none", "listen", "client", "parse", "trim",
              \* "leave" (ClientLoop returned), "exit" (Run returned)
  serving,    \* the accepted connection, 0 when none
  buf,        \* ClientLoop's buf
  pos,        \* ClientLoop's pos: bytes of buf already handed on
  delivered   \* history, delivered[c]: payloads handed to OnPacket

sender == <<cur, out, sent>>
control == <<js, running, stopByte>>
vars == <<cur, out, wire, link, sent, js, running, stopByte, pc, serving,
          buf, pos, delivered>>

Init ==
  /\ cur = 0 /\ out = <<>>
  /\ wire = [c \in Conns |-> <<>>]
  /\ link = [c \in Conns |-> "none"]
  /\ sent = [c \in Conns |-> <<>>]
  /\ delivered = [c \in Conns |-> <<>>]
  /\ js = "stopped" /\ running = FALSE /\ stopByte = FALSE
  /\ pc = "none" /\ serving = 0 /\ buf = <<>> /\ pos = 0

-----------------------------------------------------------------------------
(* The sender: one connection at a time, one SendAll at a time.            *)

HeaderSize == 4

\* The four length bytes the sender puts before a payload of n bytes.
Header(n) == << (n \div 16777216) % 256, (n \div 65536) % 256,
                (n \div 256) % 256, n % 256 >>

\* TcpClient::Connect: it closes the connection it still had.  Without a
\* listening socket the connection is refused.
Connect ==
  /\ cur < MaxConns
  /\ cur # 0 => link[cur] \in {"fin", "reset", "closed"}
  /\ js # "stopped"
  /\ cur' = cur + 1
  /\ out' = <<>>
  /\ link' = [link EXCEPT ![cur + 1] = "open"]
  /\ UNCHANGED <<wire, sent, js, running, stopByte, pc, serving, buf, pos, delivered>>

\* The hello and every access unit: header, then payload.
SendPacket(p) ==
  /\ cur # 0 /\ link[cur] = "open" /\ out = <<>>
  /\ Len(FlattenSeq(sent)) < MaxSends
  /\ out' = Header(Len(p)) \o p
  /\ sent' = [sent EXCEPT ![cur] = Append(@, p)]
  /\ UNCHANGED <<cur, wire, link, js, running, stopByte, pc, serving, buf, pos, delivered>>

\* One send() of the SendAll loop accepts the next n bytes.
SendSome(n) ==
  /\ cur # 0 /\ link[cur] = "open" /\ n \in 1..Len(out)
  /\ wire' = [wire EXCEPT ![cur] = @ \o SubSeq(out, 1, n)]
  /\ out' = SubSeq(out, n + 1, Len(out))
  /\ UNCHANGED <<cur, link, sent, js, running, stopByte, pc, serving, buf, pos, delivered>>

\* TcpClient::Close at the end of a round, perhaps in the middle of a packet.
CloseClient ==
  /\ cur # 0 /\ link[cur] = "open"
  /\ link' = [link EXCEPT ![cur] = "fin"]
  /\ out' = <<>>
  /\ UNCHANGED <<cur, wire, sent, js, running, stopByte, pc, serving, buf, pos, delivered>>

\* The cable is pulled or the forwarding breaks: bytes under way are lost.
Reset ==
  /\ cur # 0 /\ link[cur] \in {"open", "fin"}
  /\ link' = [link EXCEPT ![cur] = "reset"]
  /\ wire' = [wire EXCEPT ![cur] = <<>>]
  /\ out' = <<>>
  /\ UNCHANGED <<cur, sent, js, running, stopByte, pc, serving, buf, pos, delivered>>

-----------------------------------------------------------------------------
(* The JS thread.                                                          *)

Start ==
  /\ js = "stopped" /\ ~running
  /\ js' = "running" /\ running' = TRUE /\ pc' = "listen"
  /\ UNCHANGED <<cur, out, sent, wire, link, stopByte, serving, buf, pos, delivered>>

\* running_.exchange(false) ...
StopFlag ==
  /\ js = "running"
  /\ js' = "stopping" /\ running' = FALSE
  /\ UNCHANGED <<cur, out, sent, wire, link, stopByte, pc, serving, buf, pos, delivered>>

\* ... the byte into the pipe ...
StopWake ==
  /\ js = "stopping"
  /\ js' = "joining" /\ stopByte' = TRUE
  /\ UNCHANGED <<cur, out, sent, wire, link, running, pc, serving, buf, pos, delivered>>

\* Closing the listening socket drops the connections nobody accepted.
Dropped == [c \in Conns |-> IF link[c] = "none" THEN "none" ELSE "closed"]

\* Slip: the thread is not joined.
StopJoinNoJoin ==
  /\ js = "joining" /\ js' = "stopped" /\ stopByte' = FALSE
  /\ UNCHANGED <<cur, out, sent, wire, link, running, pc, serving, buf, pos, delivered>>

\* ... join, then the listening socket and the pipe are closed.
StopJoin ==
  /\ js = "joining" /\ pc = "exit"
  /\ js' = "stopped" /\ stopByte' = FALSE /\ pc' = "none"
  /\ link' = Dropped
  /\ wire' = [c \in Conns |-> <<>>]
  /\ out' = <<>>
  /\ UNCHANGED <<cur, sent, running, serving, buf, pos, delivered>>

-----------------------------------------------------------------------------
(* The server thread.                                                      *)

\* poll, accept the oldest waiting connection, onState(true).
Accept(c) ==
  /\ pc = "listen" /\ running /\ ~stopByte
  /\ link[c] \in {"open", "fin", "reset"}
  /\ \A d \in Conns : d < c => link[d] = "closed"
  /\ pc' = "client" /\ serving' = c
  /\ buf' = <<>> /\ pos' = 0
  /\ UNCHANGED <<cur, out, sent, wire, link, js, running, stopByte, delivered>>

\* Run leaves its loop.
ExitRun ==
  /\ pc = "listen" /\ (~running \/ stopByte)
  /\ pc' = "exit"
  /\ UNCHANGED <<cur, out, sent, wire, link, js, running, stopByte, serving, buf, pos, delivered>>

\* One recv appends a chunk to buf; the parse loop starts at the front.
Recv(n) ==
  /\ pc = "client" /\ running /\ ~stopByte
  /\ link[serving] \in {"open", "fin"}
  /\ n \in 1..Len(wire[serving]) /\ n =< Chunk
  /\ buf' = buf \o SubSeq(wire[serving], 1, n)
  /\ wire' = [wire EXCEPT ![serving] = SubSeq(@, n + 1, Len(@))]
  /\ pos' = 0 /\ pc' = "parse"
  /\ UNCHANGED <<cur, out, sent, link, js, running, stopByte, serving, delivered>>

\* Slip: POLLERR and POLLHUP are not looked at.
LeaveClientNoErr ==
  /\ pc = "client"
  /\ \/ ~running \/ stopByte
     \/ (link[serving] = "fin" /\ wire[serving] = <<>>)
  /\ pc' = "leave"
  /\ UNCHANGED <<cur, out, sent, wire, link, js, running, stopByte, serving, buf, pos, delivered>>

\* ClientLoop breaks: stop request, POLLERR/POLLHUP, or recv returning 0.
LeaveClient ==
  /\ pc = "client"
  /\ \/ ~running \/ stopByte
     \/ link[serving] = "reset"
     \/ (link[serving] = "fin" /\ wire[serving] = <<>>)
  /\ pc' = "leave"
  /\ UNCHANGED <<cur, out, sent, wire, link, js, running, stopByte, serving, buf, pos, delivered>>

HasHeader == pos + HeaderSize =< Len(buf)
PacketLen == buf[pos + 1] * 16777216 + buf[pos + 2] * 65536
             + buf[pos + 3] * 256 + buf[pos + 4]
\* Slip: no limit.
TooLongNever == FALSE

TooLong == PacketLen > MaxPacket
\* Slip: a packet that ends the buffer waits for more.
CompleteStrict == pos + HeaderSize + PacketLen < Len(buf)

Complete == pos + HeaderSize + PacketLen =< Len(buf)

Incomplete == HasHeader => (~TooLong /\ ~Complete)

\* Slip: pos goes on by the payload, not by the header.
DeliverPacketNoHeader ==
  /\ pc = "parse" /\ HasHeader /\ ~TooLong /\ Complete
  /\ LET payload == SubSeq(buf, pos + HeaderSize + 1, pos + HeaderSize + PacketLen)
     IN  delivered' = [delivered EXCEPT ![serving] = Append(@, payload)]
  /\ pos' = pos + PacketLen
  /\ UNCHANGED <<cur, out, sent, wire, link, js, running, stopByte, pc, serving, buf>>

\* One turn of the parse loop that hands a packet to onPacket.
DeliverPacket ==
  /\ pc = "parse" /\ HasHeader /\ ~TooLong /\ Complete
  /\ LET payload == SubSeq(buf, pos + HeaderSize + 1, pos + HeaderSize + PacketLen)
     IN  delivered' = [delivered EXCEPT ![serving] = Append(@, payload)]
  /\ pos' = pos + HeaderSize + PacketLen
  /\ UNCHANGED <<cur, out, sent, wire, link, js, running, stopByte, pc, serving, buf>>

\* A length above the limit: ClientLoop returns at once.
ProtocolError ==
  /\ pc = "parse" /\ HasHeader /\ TooLong
  /\ pc' = "leave"
  /\ UNCHANGED <<cur, out, sent, wire, link, js, running, stopByte, serving, buf, pos, delivered>>

\* No complete packet is left: what was handed on is erased.
Trim ==
  /\ pc = "parse" /\ Incomplete
  /\ buf' = SubSeq(buf, pos + 1, Len(buf))
  /\ pos' = 0 /\ pc' = "trim"
  /\ UNCHANGED <<cur, out, sent, wire, link, js, running, stopByte, serving, delivered>>

\* The guard against a runaway buffer, then the next poll.
CheckOverrun ==
  /\ pc = "trim"
  /\ pc' = IF Len(buf) > MaxPacket + HeaderSize THEN "leave" ELSE "client"
  /\ UNCHANGED <<cur, out, sent, wire, link, js, running, stopByte, serving, buf, pos, delivered>>

\* ClientLoop has returned: close(clientFd), onState(false), next round of Run.
CloseServed ==
  /\ pc = "leave"
  /\ link' = [link EXCEPT ![serving] = "closed"]
  /\ wire' = [wire EXCEPT ![serving] = <<>>]
  /\ out' = IF serving = cur THEN <<>> ELSE out
  /\ pc' = "listen" /\ serving' = 0 /\ buf' = <<>> /\ pos' = 0
  /\ UNCHANGED <<cur, sent, js, running, stopByte, delivered>>

-----------------------------------------------------------------------------
Sender == \/ Connect \/ CloseClient \/ Reset
          \/ \E p \in Packets : SendPacket(p)
          \/ \E n \in 1..Len(out) : SendSome(n)

Server == \/ \E c \in Conns : Accept(c)
          \/ ExitRun \/ LeaveClient
          \/ \E n \in 1..Chunk : Recv(n)
          \/ DeliverPacket \/ ProtocolError \/ Trim \/ CheckOverrun
          \/ CloseServed

Next == Sender \/ Server \/ Start \/ StopFlag \/ StopWake \/ StopJoin

\* The server thread runs whenever it can (its poll times out after 500 ms,
\* so a cleared running_ is always seen); SendAll keeps sending; Stop, once
\* begun, carries on.  Nothing forces the user to start or stop, nor the
\* sender to connect, to send or to close.
Fairness == /\ WF_vars(Server)
            /\ WF_vars(\E n \in 1..Len(out) : SendSome(n))
            /\ WF_vars(StopWake) /\ WF_vars(StopJoin)

Spec == Init /\ [][Next]_vars /\ Fairness

-----------------------------------------------------------------------------
TypeOK ==
  /\ cur \in 0..MaxConns /\ out \in Seq(Byte)
  /\ wire \in [Conns -> Seq(Byte)]
  /\ link \in [Conns -> {"none", "open", "fin", "reset", "closed"}]
  /\ sent \in [Conns -> Seq(Packets)]
  /\ delivered \in [Conns -> Seq(Seq(Byte))]
  /\ js \in {"stopped", "running", "stopping", "joining"}
  /\ running \in BOOLEAN /\ stopByte \in BOOLEAN
  /\ pc \in {"none", "listen", "client", "parse", "trim", "leave", "exit"}
  /\ serving \in 0..MaxConns
  /\ buf \in Seq(Byte) /\ pos \in 0..Len(buf)

\* Whatever the cuts TCP makes in the byte stream, and across closes, resets
\* and restarts of the server, ClientLoop hands over per connection exactly
\* the framed packets, in order, and none at or behind an oversized one.
Channel == INSTANCE PacketChannel
             WITH Conns <- Conns, Packets <- Packets, MaxPacket <- MaxPacket,
                  sent <- sent, delivered <- delivered
ChannelPromise == Channel!Spec

\* What is left in buf after the parse loop is less than one maximal packet
\* with its header: the runaway guard of ClientLoop never fires.
NoRunaway == pc \in {"trim", "client"} => Len(buf) < MaxPacket + HeaderSize

\* Once NetServer::Stop has returned no packet reaches OnPacket until the
\* next Start: the server thread is gone, not only told to go.
NoCallbackAfterStop == [][js = "stopped" => delivered' = delivered]_vars

\* Once the served connection is reset or closed by the peer, the server
\* stops serving it ("after a disconnect it returns to listening").
BackToListening ==
  \A c \in Conns : (serving = c /\ link[c] \in {"fin", "reset"}) ~> serving # c

\* A legal packet with only legal packets before it reaches OnPacket, however
\* it is chunked, unless the connection ends first or the server stops.
PacketArrives ==
  \A c \in Conns, k \in 1..MaxSends :
    (/\ k \in DOMAIN sent[c] /\ serving = c
     /\ \A i \in 1..k : Len(sent[c][i]) =< MaxPacket)
    ~> (k =< Len(delivered[c]) \/ link[c] # "open" \/ ~running)

=============================================================================
