--------------------------- MODULE NetServerProofs ---------------------------
(* Proofs about NetServer for every set of payloads, every size limit and  *)
(* every way TCP may cut the byte stream.                                  *)
EXTENDS NetServer, SequenceTheorems, TLAPS

LEMMA Part ==
  ASSUME NEW s \in Seq(Byte), NEW m \in Nat \ {0}, NEW n \in 0..Len(s)
  PROVE  /\ SubSeq(s, m, n) \in Seq(Byte)
         /\ Len(SubSeq(s, m, n)) = IF m =< n THEN n - m + 1 ELSE 0
<1>1. \A i \in m..n : s[i] \in Byte
  BY LenProperties, ElementOfSeq
<1>. QED BY <1>1, SubSeqProperties

LEMMA HeaderBytes ==
  ASSUME NEW n \in Nat
  PROVE  Header(n) \in Seq(Byte) /\ Len(Header(n)) = HeaderSize
<1>1. /\ (n \div 16777216) % 256 \in Byte /\ (n \div 65536) % 256 \in Byte
      /\ (n \div 256) % 256 \in Byte /\ n % 256 \in Byte
  BY SMT DEF Byte
<1> HIDE DEF Byte
<1>. QED BY SMT, <1>1 DEF Header, HeaderSize

\* The four bytes after pos.
LEMMA FirstFour ==
  ASSUME HasHeader, pos \in Nat, buf \in Seq(Byte)
  PROVE  /\ \A i \in 1..4 : buf[pos + i] \in Byte
         /\ \A i \in 1..4 : SubSeq(buf, pos + 1, pos + HeaderSize)[i] = buf[pos + i]
<1>1. /\ Len(buf) \in Nat /\ pos + 4 =< Len(buf)
  BY LenProperties DEF HasHeader, HeaderSize
<1>2. \A i \in pos + 1..pos + 4 : buf[i] \in Byte
  BY <1>1, ElementOfSeq
<1>3. \A i \in 1..(pos + 4) - (pos + 1) + 1 :
        SubSeq(buf, pos + 1, pos + 4)[i] = buf[(pos + 1) + i - 1]
  BY <1>2, SubSeqProperties
<1>. QED BY <1>2, <1>3 DEF HeaderSize

LEMMA BytesReadBack ==
  ASSUME NEW n \in Nat, HasHeader, pos \in Nat, buf \in Seq(Byte),
         SubSeq(buf, pos + 1, pos + HeaderSize) = Header(n)
  PROVE  /\ buf[pos + 1] = Header(n)[1] /\ buf[pos + 2] = Header(n)[2]
         /\ buf[pos + 3] = Header(n)[3] /\ buf[pos + 4] = Header(n)[4]
<1>1. \A i \in 1..4 : buf[pos + i] = Header(n)[i]
  BY FirstFour
<1>. QED BY <1>1

\* The length fits into four bytes.
Fits(n) == n \div 16777216 < 256

\* The receiver reads the length the sender wrote, for every payload below
\* 4 GB: the four bytes are put together in the order they were taken apart.
THEOREM LengthRoundTrip ==
  ASSUME NEW n \in Nat, Fits(n),
         HasHeader, pos \in Nat, buf \in Seq(Byte),
         SubSeq(buf, pos + 1, pos + HeaderSize) = Header(n)
  PROVE  PacketLen = n
<1>1. /\ buf[pos + 1] = Header(n)[1] /\ buf[pos + 2] = Header(n)[2]
      /\ buf[pos + 3] = Header(n)[3] /\ buf[pos + 4] = Header(n)[4]
  BY BytesReadBack
<1> DEFINE a == n \div 256  b == n \div 65536  c == n \div 16777216
<1>2. /\ buf[pos + 1] = c % 256 /\ buf[pos + 2] = b % 256
      /\ buf[pos + 3] = a % 256 /\ buf[pos + 4] = n % 256
  BY SMT, <1>1 DEF Header
<1>3. /\ n % 256 = n - 256 * a /\ a % 256 = a - 256 * b
      /\ b % 256 = b - 256 * c /\ c % 256 = c
  BY SMT DEF Fits
<1>4. a \in Nat /\ b \in Nat /\ c \in Nat
  BY SMT
<1> HIDE DEF a, b, c
<1>. QED BY SMT, <1>2, <1>3, <1>4 DEF PacketLen

-----------------------------------------------------------------------------
(* Stop.                                                                    *)

\* There is a server thread only between Start and the end of Stop.
NoThread == js = "stopped" => pc = "none"

\* Once Stop has returned no packet is handed on, for any payloads, limit and
\* number of connections.
THEOREM QuietAfterStop == Spec => NoCallbackAfterStop
<1>1. Init => NoThread
  BY DEF Init, NoThread
<1>2. NoThread /\ [Next]_vars => NoThread'
  <2> SUFFICES ASSUME NoThread, [Next]_vars PROVE NoThread'
    OBVIOUS
  <2> USE DEF NoThread
  <2>1. CASE Sender
    BY <2>1 DEF Sender, Connect, SendPacket, SendSome, CloseClient, Reset
  <2>2. CASE Start \/ StopFlag \/ StopWake \/ StopJoin
    BY <2>2 DEF Start, StopFlag, StopWake, StopJoin
  <2>3. CASE Server
    BY <2>3 DEF Server, Accept, ExitRun, LeaveClient, Recv, DeliverPacket,
                ProtocolError, Trim, CheckOverrun, CloseServed
  <2>4. CASE UNCHANGED vars
    BY <2>4 DEF vars
  <2>. QED BY <2>1, <2>2, <2>3, <2>4 DEF Next
<1>3. NoThread /\ [Next]_vars => [js = "stopped" => delivered' = delivered]_vars
  <2> SUFFICES ASSUME NoThread, [Next]_vars, js = "stopped" PROVE delivered' = delivered
    OBVIOUS
  <2>1. CASE Sender
    BY <2>1 DEF Sender, Connect, SendPacket, SendSome, CloseClient, Reset
  <2>2. CASE Start \/ StopFlag \/ StopWake \/ StopJoin
    BY <2>2 DEF Start, StopFlag, StopWake, StopJoin
  <2>3. CASE Server
    BY <2>3 DEF NoThread, Server, Accept, ExitRun, LeaveClient, Recv, DeliverPacket,
                ProtocolError, Trim, CheckOverrun, CloseServed
  <2>4. CASE UNCHANGED vars
    BY <2>4 DEF vars
  <2>. QED BY <2>1, <2>2, <2>3, <2>4 DEF Next
<1>. QED BY <1>1, <1>2, <1>3, PTL DEF Spec, NoCallbackAfterStop

-----------------------------------------------------------------------------
(* Type correctness.                                                        *)

\* TypeOK, and there is a connection whenever the thread serves one.
TypeInv ==
  /\ TypeOK
  /\ pc \in {"client", "parse", "trim", "leave"} => serving \in Conns

LEMMA LengthIsNat ==
  ASSUME TypeOK, HasHeader
  PROVE  PacketLen \in Nat
<1>1. pos \in Nat /\ buf \in Seq(Byte)
  BY LenProperties DEF TypeOK
<1>2. \A i \in 1..4 : buf[pos + i] \in Byte
  BY <1>1, FirstFour
<1>3. /\ buf[pos + 1] \in Byte /\ buf[pos + 2] \in Byte
      /\ buf[pos + 3] \in Byte /\ buf[pos + 4] \in Byte
  <2> HIDE DEF Byte
  <2>1. 1 \in 1..4 /\ 2 \in 1..4 /\ 3 \in 1..4 /\ 4 \in 1..4
    OBVIOUS
  <2>. QED BY Zenon, <1>2, <2>1
<1> DEFINE a == buf[pos + 1]  b == buf[pos + 2]  c == buf[pos + 3]  d == buf[pos + 4]
<1>4. a \in Nat /\ b \in Nat /\ c \in Nat /\ d \in Nat
  <2>1. \A e \in Byte : e \in Nat
    BY DEF Byte
  <2>. QED BY Zenon, <1>3, <2>1
<1>5. PacketLen = a * 16777216 + b * 65536 + c * 256 + d
  BY SMT DEF PacketLen
<1> HIDE DEF a, b, c, d
<1>. QED BY SMT, <1>4, <1>5

LEMMA SenderTypes == TypeInv /\ Sender => TypeInv'
<1> SUFFICES ASSUME TypeInv, Sender PROVE TypeInv'
  OBVIOUS
<1> USE NetAssumption DEF TypeInv, TypeOK, Conns
<1> HIDE DEF Byte
<1>1. CASE Connect
  BY <1>1, EmptySeq DEF Connect, NetAssumption
<1>2. ASSUME NEW p \in Packets, SendPacket(p) PROVE TypeInv'
  <2>1. p \in Seq(Byte) /\ Len(p) \in Nat
    BY LenProperties DEF NetAssumption, Byte
  <2>2. out' \in Seq(Byte)
    BY <1>2, <2>1, HeaderBytes, ConcatProperties DEF SendPacket
  <2>3. sent' \in [Conns -> Seq(Packets)]
    <3>1. \A s \in Seq(Packets) : Append(s, p) \in Seq(Packets)
      BY AppendProperties
    <3>. QED BY <1>2, <3>1 DEF SendPacket
  <2>4. UNCHANGED <<cur, wire, link, js, running, stopByte, pc, serving, buf, pos, delivered>>
    BY <1>2 DEF SendPacket
  <2>. QED BY Zenon, <2>2, <2>3, <2>4
<1>3. ASSUME NEW n \in 1..Len(out), SendSome(n) PROVE TypeInv'
  <2>1. /\ Len(out) \in Nat /\ n + 1 \in Nat \ {0} /\ n \in 0..Len(out)
    BY LenProperties
  <2>2. SubSeq(out, 1, n) \in Seq(Byte) /\ SubSeq(out, n + 1, Len(out)) \in Seq(Byte)
    BY <2>1, Part
  <2>3. \A c \in Conns : wire[c] \o SubSeq(out, 1, n) \in Seq(Byte)
    BY <2>2, ConcatProperties
  <2>4. /\ out' = SubSeq(out, n + 1, Len(out))
        /\ wire' = [wire EXCEPT ![cur] = @ \o SubSeq(out, 1, n)]
        /\ UNCHANGED <<cur, link, sent, js, running, stopByte, pc, serving, buf, pos, delivered>>
    BY Zenon, <1>3 DEF SendSome
  <2>5. wire' \in [Conns -> Seq(Byte)]
    BY <2>3, <2>4
  <2>6. out' \in Seq(Byte)
    BY Zenon, <2>2, <2>4
  <2>. QED BY Zenon, <2>4, <2>5, <2>6
<1>4. CASE CloseClient
  BY <1>4, EmptySeq DEF CloseClient
<1>5. CASE Reset
  BY <1>5, EmptySeq DEF Reset
<1>. QED BY <1>1, <1>2, <1>3, <1>4, <1>5 DEF Sender

LEMMA ServerTypes == TypeInv /\ Server => TypeInv'
<1> SUFFICES ASSUME TypeInv, Server PROVE TypeInv'
  OBVIOUS
<1> USE NetAssumption DEF TypeInv, TypeOK, Conns
<1>0. Len(buf) \in Nat /\ pos \in Nat /\ pos =< Len(buf)
  BY LenProperties
<1> HIDE DEF Byte
<1>1. ASSUME NEW c \in Conns, Accept(c) PROVE TypeInv'
  BY <1>1, EmptySeq DEF Accept
<1>2. CASE ExitRun \/ LeaveClient \/ ProtocolError \/ CheckOverrun
  <2>1. /\ UNCHANGED <<cur, out, sent, wire, link, js, running, stopByte, serving, buf, pos,
                       delivered>>
        /\ pc' \in {"exit", "leave", "client"} /\ (pc' # "exit" => serving \in Conns)
    BY Zenon, <1>2 DEF ExitRun, LeaveClient, ProtocolError, CheckOverrun
  <2>2. pc' \in {"none", "listen", "client", "parse", "trim", "leave", "exit"}
    BY <2>1
  <2>. QED BY Zenon, <2>1, <2>2
<1>3. ASSUME NEW n \in 1..Chunk, Recv(n) PROVE TypeInv'
  <2> DEFINE w == wire[serving]
  <2>1. serving \in Conns /\ w \in Seq(Byte) /\ n \in 1..Len(w) /\ Len(w) \in Nat
    BY <1>3, LenProperties DEF Recv
  <2>2. SubSeq(w, 1, n) \in Seq(Byte) /\ SubSeq(w, n + 1, Len(w)) \in Seq(Byte)
    <3> HIDE DEF w
    <3>1. n \in 0..Len(w) /\ n + 1 \in Nat \ {0} /\ Len(w) \in 0..Len(w)
      BY <2>1
    <3>. QED BY <2>1, <3>1, Part
  <2>3. buf' \in Seq(Byte) /\ Len(buf') \in Nat
    <3>1. buf' = buf \o SubSeq(w, 1, n)
      BY Zenon, <1>3 DEF Recv
    <3> HIDE DEF w
    <3>. QED BY <2>2, <3>1, ConcatProperties, LenProperties
  <2>4. wire' \in [Conns -> Seq(Byte)]
    BY <1>3, <2>2 DEF Recv
  <2>5. /\ pos' \in 0..Len(buf') /\ pc' = "parse" /\ serving' \in Conns
        /\ UNCHANGED <<cur, out, sent, link, js, running, stopByte, serving, delivered>>
    BY <1>3, <2>1, <2>3 DEF Recv
  <2>6. serving' \in 0..MaxConns
    BY <2>5
  <2>. QED BY Zenon, <2>3, <2>4, <2>5, <2>6
<1>4. CASE DeliverPacket
  <2>1. PacketLen \in Nat
    BY <1>4, LengthIsNat DEF DeliverPacket
  <2>2. pos + HeaderSize + PacketLen \in 0..Len(buf) /\ pos + HeaderSize + 1 \in Nat \ {0}
    BY <1>0, <1>4, <2>1 DEF DeliverPacket, Complete, HeaderSize
  <2>3. SubSeq(buf, pos + HeaderSize + 1, pos + HeaderSize + PacketLen) \in Seq(Byte)
    BY <2>2, Part
  <2>4. delivered' \in [Conns -> Seq(Seq(Byte))]
    <3>1. \A c \in Conns :
            Append(delivered[c],
                   SubSeq(buf, pos + HeaderSize + 1, pos + HeaderSize + PacketLen))
              \in Seq(Seq(Byte))
      BY <2>3, AppendProperties
    <3>. QED BY <1>4, <3>1 DEF DeliverPacket
  <2>. QED BY <1>4, <2>2, <2>4 DEF DeliverPacket
<1>5. CASE Trim
  <2>1. pos + 1 \in Nat \ {0} /\ Len(buf) \in 0..Len(buf)
    BY <1>0
  <2>2. buf' \in Seq(Byte) /\ Len(buf') \in Nat
    BY <1>5, <2>1, Part, LenProperties DEF Trim
  <2>. QED BY <1>5, <2>2 DEF Trim
<1>6. CASE CloseServed
  BY <1>6, EmptySeq DEF CloseServed
<1>. QED BY <1>1, <1>2, <1>3, <1>4, <1>5, <1>6 DEF Server

LEMMA TypeInductive ==
  /\ Init => TypeInv
  /\ TypeInv /\ [Next]_vars => TypeInv'
<1>1. ASSUME Init PROVE TypeInv
  <2>1. buf = <<>> /\ out = <<>> /\ pos = 0 /\ <<>> \in Seq(Byte) /\ Len(<<>>) = 0
    BY <1>1, EmptySeq DEF Init
  <2>2. buf \in Seq(Byte) /\ out \in Seq(Byte) /\ pos \in 0..Len(buf)
    BY <2>1
  <2>3. wire \in [Conns -> Seq(Byte)] /\ sent \in [Conns -> Seq(Packets)]
    BY <1>1, EmptySeq DEF Init
  <2>4. delivered \in [Conns -> Seq(Seq(Byte))]
    BY <1>1, EmptySeq DEF Init
  <2>5. cur \in 0..MaxConns /\ serving \in 0..MaxConns
    BY <1>1, NetAssumption DEF Init, NetAssumption
  <2>6. /\ link \in [Conns -> {"none", "open", "fin", "reset", "closed"}]
        /\ js = "stopped" /\ running = FALSE /\ stopByte = FALSE /\ pc = "none"
    BY <1>1 DEF Init
  <2>. QED BY <2>2, <2>3, <2>4, <2>5, <2>6 DEF TypeInv, TypeOK
<1>2. ASSUME TypeInv, [Next]_vars PROVE TypeInv'
  <2> HIDE DEF Byte
  <2>1. CASE Sender
    BY <1>2, <2>1, SenderTypes
  <2>2. CASE Server
    BY <1>2, <2>2, ServerTypes
  <2>3. CASE Start \/ StopFlag \/ StopWake
    BY <1>2, <2>3 DEF Start, StopFlag, StopWake, TypeInv, TypeOK
  <2>4. CASE StopJoin
    BY <1>2, <2>4, EmptySeq DEF StopJoin, Dropped, TypeInv, TypeOK
  <2>5. CASE UNCHANGED vars
    BY <1>2, <2>5 DEF vars, TypeInv, TypeOK
  <2>. QED BY <1>2, <2>1, <2>2, <2>3, <2>4, <2>5 DEF Next
<1>. QED BY <1>1, <1>2

\* Every variable of the server keeps its type: in particular pos never leaves
\* the buffer, so the parse loop never reads past what was received.
THEOREM TypeCorrect == Spec => []TypeOK
<1>1. TypeInv => TypeOK
  BY DEF TypeInv
<1>. QED BY <1>1, TypeInductive, PTL DEF Spec

-----------------------------------------------------------------------------
\* The buffer's guard never fires, for any limit and any way of cutting the
\* stream: an incomplete packet and its header are all that stays behind.
THEOREM BufferStaysSmall == Spec => []NoRunaway
<1>1. Init => NoRunaway
  BY DEF Init, NoRunaway
<1>2. ASSUME TypeInv, NoRunaway, [Next]_vars PROVE NoRunaway'
  <2> USE DEF NoRunaway
  <2>1. CASE Sender
    BY <1>2, <2>1 DEF Sender, Connect, SendPacket, SendSome, CloseClient, Reset
  <2>2. CASE Start \/ StopFlag \/ StopWake \/ StopJoin
    BY <1>2, <2>2 DEF Start, StopFlag, StopWake, StopJoin
  <2>3. ASSUME NEW c \in Conns, Accept(c) PROVE NoRunaway'
    BY <2>3, NetAssumption DEF Accept, NetAssumption, HeaderSize
  <2>4. CASE Trim
    <3>1. Len(buf) \in Nat /\ pos \in Nat /\ pos =< Len(buf) /\ buf \in Seq(Byte)
      BY <1>2, LenProperties DEF TypeInv, TypeOK
    <3>2. Len(buf) - pos < MaxPacket + HeaderSize
      <4>1. CASE HasHeader
        <5>1. PacketLen \in Nat
          BY <1>2, <4>1, LengthIsNat DEF TypeInv
        <5>2. PacketLen =< MaxPacket /\ ~(pos + HeaderSize + PacketLen =< Len(buf))
          BY <2>4, <4>1, <5>1, NetAssumption
          DEF Trim, Incomplete, TooLong, Complete, NetAssumption
        <5>. QED BY <3>1, <5>1, <5>2, NetAssumption DEF HeaderSize, NetAssumption
      <4>2. CASE ~HasHeader
        BY <3>1, <4>2, NetAssumption DEF HasHeader, HeaderSize, NetAssumption
      <4>. QED BY <4>1, <4>2
    <3>3. Len(SubSeq(buf, pos + 1, Len(buf))) = Len(buf) - pos
      <4>1. pos + 1 \in Nat \ {0} /\ Len(buf) \in 0..Len(buf)
        BY <3>1
      <4>2. Len(SubSeq(buf, pos + 1, Len(buf)))
              = IF pos + 1 =< Len(buf) THEN Len(buf) - (pos + 1) + 1 ELSE 0
        BY <3>1, <4>1, Part
      <4>. QED BY <3>1, <4>2
    <3>. QED BY <2>4, <3>2, <3>3 DEF Trim
  <2>5. CASE ExitRun \/ LeaveClient \/ DeliverPacket \/ ProtocolError \/ CheckOverrun
    BY <1>2, <2>5 DEF ExitRun, LeaveClient, DeliverPacket, ProtocolError, CheckOverrun
  <2>6. ASSUME NEW n \in 1..Chunk, Recv(n) PROVE NoRunaway'
    BY <2>6 DEF Recv
  <2>7. CASE CloseServed
    BY <2>7 DEF CloseServed
  <2>8. CASE UNCHANGED vars
    BY <1>2, <2>8 DEF vars
  <2>. QED BY <1>2, <2>1, <2>2, <2>3, <2>4, <2>5, <2>6, <2>7, <2>8 DEF Next, Server
<1>. QED BY <1>1, <1>2, TypeInductive, PTL DEF Spec
-----------------------------------------------------------------------------
(* The framing: the bytes of a connection that are not parsed yet continue *)
(* the framed packets right behind those handed on.  A sum over packets    *)
(* would be recursive; instead off[i] is where the i-th frame ends in the  *)
(* stream S of all bytes framed on the connection.                         *)

Frame(p) == Header(Len(p)) \o p

Laid(ps, off, S) ==
  /\ off[0] = 0 /\ Len(S) = off[Len(ps)]
  /\ \A i \in 1..Len(ps) :
       /\ off[i] = off[i - 1] + Len(Frame(ps[i])) /\ off[i] =< Len(S)
       /\ \A j \in 1..Len(Frame(ps[i])) : S[off[i - 1] + j] = Frame(ps[i])[j]

\* The bytes r follow in S after the first d, up to its end if whole.
Lies(r, S, d, whole) ==
  /\ d + Len(r) =< Len(S)
  /\ \A j \in 1..Len(r) : r[j] = S[d + j]
  /\ whole => d + Len(r) = Len(S)

\* Of the packets ps, k are handed on and r is what follows, perhaps cut short.
Follows(ps, k, r, whole) ==
  \E off \in [0..Len(ps) -> Nat], S \in Seq(Byte) :
    Laid(ps, off, S) /\ k \in 0..Len(ps) /\ Lies(r, S, off[k], whole)

LEMMA FrameBytes ==
  ASSUME NEW p \in Seq(Byte)
  PROVE  /\ Frame(p) \in Seq(Byte) /\ Len(Frame(p)) = HeaderSize + Len(p)
         /\ \A j \in 1..HeaderSize : Frame(p)[j] = Header(Len(p))[j]
         /\ \A j \in 1..Len(p) : Frame(p)[HeaderSize + j] = p[j]
<1> HIDE DEF Byte
<1>1. Len(p) \in Nat
  BY LenProperties
<1>2. Header(Len(p)) \in Seq(Byte) /\ Len(Header(Len(p))) = HeaderSize
  BY <1>1, HeaderBytes
<1> DEFINE h == Header(Len(p))
<1>3. h \in Seq(Byte) /\ Len(h) = HeaderSize
  BY <1>2
<1> HIDE DEF h
<1>4. /\ h \o p \in Seq(Byte) /\ Len(h \o p) = Len(h) + Len(p)
      /\ \A i \in 1..Len(h) + Len(p) : (h \o p)[i] = IF i =< Len(h) THEN h[i] ELSE p[i - Len(h)]
  BY <1>3, ConcatProperties
<1>5. \A j \in 1..HeaderSize : (h \o p)[j] = h[j]
  BY <1>1, <1>3, <1>4 DEF HeaderSize
<1>6. \A j \in 1..Len(p) : (h \o p)[HeaderSize + j] = p[j]
  BY <1>1, <1>3, <1>4 DEF HeaderSize
<1>7. Frame(p) = h \o p
  BY DEF Frame, h
<1>. QED BY <1>3, <1>4, <1>5, <1>6, <1>7 DEF h

\* Nothing sent, nothing handed on.
LEMMA FollowsNothing == \A whole \in BOOLEAN : Follows(<<>>, 0, <<>>, whole)
<1> SUFFICES ASSUME NEW whole \in BOOLEAN PROVE Follows(<<>>, 0, <<>>, whole)
  OBVIOUS
<1> DEFINE off == [i \in 0..0 |-> 0]
<1>1. off \in [0..Len(<<>>) -> Nat] /\ off[0] = 0 /\ <<>> \in Seq(Byte)
  OBVIOUS
<1>2. Laid(<<>>, off, <<>>) /\ Lies(<<>>, <<>>, off[0], whole)
  BY <1>1 DEF Laid, Lies
<1>. QED BY <1>1, <1>2 DEF Follows

\* Bytes may be lost from the end.
LEMMA FollowsLess ==
  ASSUME NEW ps, Len(ps) \in Nat, NEW k, NEW x \in Seq(Byte), NEW y \in Seq(Byte),
         NEW whole, Follows(ps, k, x \o y, whole)
  PROVE  Follows(ps, k, x, FALSE)
<1> HIDE DEF Byte
<1>1. PICK off \in [0..Len(ps) -> Nat], S \in Seq(Byte) :
        Laid(ps, off, S) /\ k \in 0..Len(ps) /\ Lies(x \o y, S, off[k], whole)
  BY DEF Follows
<1>2. /\ Len(x \o y) = Len(x) + Len(y) /\ Len(x) \in Nat /\ Len(y) \in Nat
      /\ \A j \in 1..Len(x) : (x \o y)[j] = x[j]
  BY ConcatProperties, LenProperties
<1>3. off[k] \in Nat /\ Len(S) \in Nat
  BY <1>1, LenProperties
<1>4. off[k] + Len(x) =< Len(S)
  BY <1>1, <1>2, <1>3 DEF Lies
<1>5. \A j \in 1..Len(x) : x[j] = S[off[k] + j]
  <2> SUFFICES ASSUME NEW j \in 1..Len(x) PROVE x[j] = S[off[k] + j]
    OBVIOUS
  <2>1. j \in 1..Len(x \o y)
    BY <1>2
  <2>2. (x \o y)[j] = S[off[k] + j]
    BY <1>1, <2>1 DEF Lies
  <2>. QED BY <1>2, <2>2
<1>6. Lies(x, S, off[k], FALSE)
  BY <1>4, <1>5 DEF Lies
<1>. QED BY <1>1, <1>6 DEF Follows

LEMMA FollowsEmpty ==
  ASSUME NEW ps, Len(ps) \in Nat, NEW k, NEW r \in Seq(Byte), NEW whole,
         Follows(ps, k, r, whole)
  PROVE  Follows(ps, k, <<>>, FALSE) /\ Follows(ps, k, r, FALSE)
<1> HIDE DEF Byte
<1>1. <<>> \in Seq(Byte) /\ <<>> \o r = r /\ r \o <<>> = r
  BY EmptySeq, ConcatEmptySeq
<1>2. Follows(ps, k, <<>> \o r, whole) /\ Follows(ps, k, r \o <<>>, whole)
  BY <1>1
<1>3. Follows(ps, k, <<>>, FALSE)
  BY <1>1, <1>2, FollowsLess
<1>. QED BY <1>1, <1>2, <1>3, FollowsLess

\* The next packet is framed behind all the others.
LEMMA FollowsSend ==
  ASSUME NEW ps \in Seq(Packets), NEW k, NEW r \in Seq(Byte), NEW p \in Packets,
         p \in Seq(Byte), \A i \in 1..Len(ps) : ps[i] \in Seq(Byte), Follows(ps, k, r, TRUE)
  PROVE  Follows(Append(ps, p), k, r \o Frame(p), TRUE)
<1> HIDE DEF Byte
<1>1. PICK off \in [0..Len(ps) -> Nat], S \in Seq(Byte) :
        Laid(ps, off, S) /\ k \in 0..Len(ps) /\ Lies(r, S, off[k], TRUE)
  BY DEF Follows
<1> DEFINE f == Frame(p)  n == Len(ps)  T == S \o f  qs == Append(ps, p)
           ends == [i \in 0..n + 1 |-> IF i =< n THEN off[i] ELSE Len(T)]
<1>2. f \in Seq(Byte) /\ Len(f) \in Nat /\ n \in Nat /\ Len(S) \in Nat /\ Len(r) \in Nat
  BY FrameBytes, LenProperties
<1>3. /\ T \in Seq(Byte) /\ Len(T) = Len(S) + Len(f)
      /\ \A j \in 1..Len(S) : T[j] = S[j]
      /\ \A j \in 1..Len(f) : T[Len(S) + j] = f[j]
  <2> HIDE DEF f
  <2>1. \A j \in 1..Len(S) + Len(f) : T[j] = IF j =< Len(S) THEN S[j] ELSE f[j - Len(S)]
    BY <1>2, ConcatProperties
  <2>2. \A j \in 1..Len(f) : Len(S) + j \in 1..Len(S) + Len(f) /\ ~(Len(S) + j =< Len(S))
                             /\ (Len(S) + j) - Len(S) = j
    BY <1>2
  <2>. QED BY <1>2, <2>1, <2>2, ConcatProperties
<1>4. Len(qs) = n + 1 /\ qs[n + 1] = p /\ \A i \in 1..n : qs[i] = ps[i]
  BY <1>2, AppendProperties
<1>5. /\ ends \in [0..Len(qs) -> Nat]
      /\ \A i \in 0..n : ends[i] = off[i]
      /\ ends[n + 1] = Len(T)
  <2>1. Len(T) \in Nat
    BY <1>2, <1>3
  <2> HIDE DEF T
  <2>2. ends \in [0..n + 1 -> Nat]
    BY <1>2, <2>1
  <2>3. (\A i \in 0..n : ends[i] = off[i]) /\ ends[n + 1] = Len(T)
    BY <1>2
  <2>. QED BY <1>4, <2>2, <2>3
<1> HIDE DEF f, T, qs, ends
<1>0. n = Len(ps) /\ f = Frame(p) /\ qs = Append(ps, p) /\ T = S \o f
  BY DEF f, qs, T
<1> HIDE DEF n
<1>6. Laid(qs, ends, T)
  <2>1. ends[0] = 0 /\ Len(T) = ends[Len(qs)]
    BY <1>0, <1>1, <1>2, <1>4, <1>5 DEF Laid
  <2>2. ASSUME NEW i \in 1..Len(qs)
        PROVE  /\ ends[i] = ends[i - 1] + Len(Frame(qs[i])) /\ ends[i] =< Len(T)
               /\ \A j \in 1..Len(Frame(qs[i])) : T[ends[i - 1] + j] = Frame(qs[i])[j]
    <3>1. CASE i \in 1..n
      <4>1. /\ ends[i] = off[i] /\ ends[i - 1] = off[i - 1] /\ qs[i] = ps[i]
            /\ off[i] \in Nat /\ off[i - 1] \in Nat
        <5>1. i \in 0..n /\ i - 1 \in 0..n
          BY <1>2, <3>1
        <5>. QED BY <1>0, <1>4, <1>5, <3>1, <5>1
      <4>2. /\ off[i] = off[i - 1] + Len(Frame(ps[i])) /\ off[i] =< Len(S)
            /\ \A j \in 1..Len(Frame(ps[i])) : S[off[i - 1] + j] = Frame(ps[i])[j]
        BY <1>0, <1>1, <3>1 DEF Laid
      <4>3. Len(Frame(ps[i])) \in Nat
        BY <1>0, <3>1, FrameBytes, LenProperties
      <4>4. \A j \in 1..Len(Frame(ps[i])) : off[i - 1] + j \in 1..Len(S)
        <5> DEFINE a == off[i - 1]  b == Len(Frame(ps[i]))
        <5>1. a \in Nat /\ b \in Nat /\ Len(S) \in Nat /\ a + b =< Len(S)
          BY <1>2, <4>1, <4>2, <4>3
        <5> HIDE DEF a, b
        <5>2. \A j \in 1..b : a + j \in 1..Len(S)
          BY <5>1
        <5>. QED BY <5>2 DEF a, b
      <4>5. ends[i] =< Len(T)
        BY <1>2, <1>3, <4>1, <4>2
      <4>6. \A j \in 1..Len(Frame(qs[i])) : T[ends[i - 1] + j] = Frame(qs[i])[j]
        <5> SUFFICES ASSUME NEW j \in 1..Len(Frame(ps[i]))
                     PROVE  T[off[i - 1] + j] = Frame(ps[i])[j]
          BY <4>1
        <5>1. off[i - 1] + j \in 1..Len(S)
          BY <4>4
        <5>2. T[off[i - 1] + j] = S[off[i - 1] + j]
          BY <1>3, <5>1
        <5>. QED BY <4>2, <5>2
      <4>. QED BY <4>1, <4>2, <4>5, <4>6
    <3>2. CASE i = n + 1
      <4>1. /\ ends[i] = Len(T) /\ ends[i - 1] = off[n] /\ qs[i] = p
        <5>1. i - 1 = n /\ n \in 0..n
          BY <1>2, <3>2
        <5>. QED BY <1>4, <1>5, <3>2, <5>1
      <4>2. off[n] = Len(S)
        BY <1>0, <1>1 DEF Laid
      <4>3. Len(Frame(qs[i])) = Len(f) /\ Frame(qs[i]) = f
        BY <1>0, <4>1
      <4>4. ends[i] = ends[i - 1] + Len(Frame(qs[i])) /\ ends[i] =< Len(T)
        BY <1>2, <1>3, <4>1, <4>2, <4>3
      <4>5. \A j \in 1..Len(Frame(qs[i])) : T[ends[i - 1] + j] = Frame(qs[i])[j]
        BY <1>3, <4>1, <4>2, <4>3
      <4>. QED BY <4>4, <4>5
    <3>3. i \in 1..n \/ i = n + 1
      BY <1>2, <1>4
    <3>. QED BY <3>1, <3>2, <3>3
  <2>. QED BY <2>1, <2>2 DEF Laid
<1>7. k \in 0..Len(qs) /\ ends[k] = off[k] /\ off[k] \in Nat
  <2>1. k \in 0..n /\ off[k] \in Nat
    BY <1>0, <1>1
  <2>. QED BY <1>2, <1>4, <1>5, <2>1
<1>8. Lies(r \o f, T, off[k], TRUE)
  <2> DEFINE d == off[k]  a == Len(r)  b == Len(f)  e == Len(S)
  <2>0. d \in Nat /\ a \in Nat /\ b \in Nat /\ e \in Nat /\ Len(T) = e + b
    BY <1>2, <1>3, <1>7
  <2>1. d + a = e /\ \A j \in 1..a : r[j] = S[d + j]
    BY <1>1 DEF Lies
  <2>2. /\ Len(r \o f) = a + b
        /\ \A j \in 1..a + b : (r \o f)[j] = IF j =< a THEN r[j] ELSE f[j - a]
    BY <1>2, ConcatProperties
  <2>3. /\ \A j \in 1..e : T[j] = S[j]
        /\ \A j \in 1..b : T[e + j] = f[j]
    BY <1>3
  <2> HIDE DEF d, a, b, e
  <2>4. ASSUME NEW j \in 1..a + b PROVE (r \o f)[j] = T[d + j]
    <3>1. CASE j =< a
      <4>1. d + j \in 1..e /\ j \in 1..a
        BY <2>0, <2>1, <3>1
      <4>. QED BY <2>1, <2>2, <2>3, <3>1, <4>1
    <3>2. CASE ~(j =< a)
      <4>1. j - a \in 1..b /\ d + j = e + (j - a)
        BY <2>0, <2>1, <3>2
      <4>2. T[e + (j - a)] = f[j - a]
        BY <2>3, <4>1
      <4>. QED BY <2>2, <3>2, <4>1, <4>2
    <3>. QED BY <3>1, <3>2
  <2>5. d + Len(r \o f) = Len(T) /\ Len(T) =< Len(T)
    BY <2>0, <2>1, <2>2
  <2>6. \A j \in 1..Len(r \o f) : (r \o f)[j] = T[d + j]
    BY <2>2, <2>4
  <2>7. Lies(r \o f, T, d, TRUE)
    BY <2>5, <2>6 DEF Lies
  <2>. QED BY <2>7 DEF d
<1>9. Lies(r \o f, T, ends[k], TRUE)
  BY <1>7, <1>8
<1>10. Follows(qs, k, r \o f, TRUE)
  BY <1>3, <1>5, <1>6, <1>7, <1>9 DEF Follows
<1>. QED BY <1>0, <1>10

Bytewise(ps, x, y) ==
  /\ Len(ps) \in Nat /\ \A i \in 1..Len(ps) : ps[i] \in Seq(Byte)
  /\ x \in Seq(Byte) /\ y \in Seq(Byte)

\* What follows starts with the header of the next packet.
LEMMA FollowsHeader ==
  ASSUME NEW ps, NEW k, NEW x, NEW y, NEW whole, Bytewise(ps, x, y),
         Follows(ps, k, x \o y, whole), HeaderSize =< Len(x)
  PROVE  /\ k \in Nat /\ k + 1 \in 1..Len(ps)
         /\ \A j \in 1..HeaderSize : x[j] = Header(Len(ps[k + 1]))[j]
<1> HIDE DEF Byte
<1> USE DEF Bytewise
<1>1. PICK off \in [0..Len(ps) -> Nat], S \in Seq(Byte) :
        Laid(ps, off, S) /\ k \in 0..Len(ps) /\ Lies(x \o y, S, off[k], whole)
  BY DEF Follows
<1> DEFINE d == off[k]  r == x \o y
<1>2. /\ Len(r) = Len(x) + Len(y) /\ Len(x) \in Nat /\ Len(y) \in Nat
      /\ \A j \in 1..Len(x) : r[j] = x[j]
  BY ConcatProperties, LenProperties
<1>3. /\ d \in Nat /\ d + Len(r) =< Len(S) /\ Len(S) = off[Len(ps)] /\ Len(S) \in Nat
      /\ \A j \in 1..Len(r) : r[j] = S[d + j]
  BY <1>1, LenProperties DEF Lies, Laid
<1>4. k # Len(ps)
  <2>1. k = Len(ps) => d = Len(S)
    BY <1>3
  <2> HIDE DEF d, r
  <2>. QED BY <1>2, <1>3, <2>1 DEF HeaderSize
<1>5. k \in Nat /\ k + 1 \in 1..Len(ps) /\ (k + 1) - 1 = k
  BY <1>1, <1>4
<1>6. \A j \in 1..Len(Frame(ps[k + 1])) : S[d + j] = Frame(ps[k + 1])[j]
  BY <1>1, <1>5 DEF Laid
<1>7. /\ Len(Frame(ps[k + 1])) = HeaderSize + Len(ps[k + 1]) /\ Len(ps[k + 1]) \in Nat
      /\ \A j \in 1..HeaderSize : Frame(ps[k + 1])[j] = Header(Len(ps[k + 1]))[j]
  BY <1>5, FrameBytes, LenProperties
<1> HIDE DEF d, r
<1>8. ASSUME NEW j \in 1..HeaderSize PROVE x[j] = Header(Len(ps[k + 1]))[j]
  <2>1. /\ j \in 1..Len(x) /\ j \in 1..Len(r)
        /\ j \in 1..Len(Frame(ps[k + 1]))
    <3> DEFINE lx == Len(x)  ly == Len(y)  m == Len(ps[k + 1])
    <3>1. /\ lx \in Nat /\ ly \in Nat /\ m \in Nat /\ 4 =< lx /\ Len(r) = lx + ly
          /\ Len(Frame(ps[k + 1])) = 4 + m /\ j \in 1..4
      BY <1>2, <1>7 DEF HeaderSize
    <3> HIDE DEF lx, ly, m
    <3>2. j \in 1..lx /\ j \in 1..lx + ly /\ j \in 1..4 + m
      BY <3>1
    <3>. QED BY Zenon, <3>1, <3>2 DEF lx
  <2>. QED BY <1>2, <1>3, <1>6, <1>7, <2>1
<1>. QED BY <1>5, <1>8

\* Concatenation, in the form the steps below use.
LEMMA Joined ==
  \A x, y \in Seq(Byte) :
    /\ x \o y \in Seq(Byte) /\ Len(x \o y) = Len(x) + Len(y)
    /\ \A j \in 1..Len(x) + Len(y) : (x \o y)[j] = IF j =< Len(x) THEN x[j] ELSE y[j - Len(x)]
<1> HIDE DEF Byte
<1>. QED BY ConcatProperties

\* z is what x holds behind a header and n bytes.
Behind(x, z, n) ==
  /\ Len(x) = HeaderSize + n + Len(z)
  /\ \A j \in 1..Len(z) : z[j] = x[HeaderSize + n + j]

\* Behind the header lies the packet, and behind the packet z what follows it.
LEMMA FollowsDeliver ==
  ASSUME NEW ps, NEW k, NEW x, NEW y, NEW z, NEW whole, Bytewise(ps, x, y),
         k \in Nat, k + 1 \in 1..Len(ps), z \in Seq(Byte),
         Follows(ps, k, x \o y, whole), Behind(x, z, Len(ps[k + 1]))
  PROVE  /\ \A j \in 1..Len(ps[k + 1]) : x[HeaderSize + j] = ps[k + 1][j]
         /\ Follows(ps, k + 1, z \o y, whole)
<1> HIDE DEF Byte
<1> USE DEF Bytewise
<1>1. PICK off \in [0..Len(ps) -> Nat], S \in Seq(Byte) :
        Laid(ps, off, S) /\ k \in 0..Len(ps) /\ Lies(x \o y, S, off[k], whole)
  BY DEF Follows
<1> DEFINE d == off[k]  r == x \o y  e == off[k + 1]  t == z \o y
           lx == Len(x)  ly == Len(y)  lz == Len(z)  n == Len(ps[k + 1])
<1>2. /\ lx \in Nat /\ ly \in Nat /\ lz \in Nat /\ n \in Nat
      /\ Len(r) = lx + ly /\ Len(t) = lz + ly /\ t \in Seq(Byte)
      /\ \A j \in 1..lx + ly : r[j] = IF j =< lx THEN x[j] ELSE y[j - lx]
      /\ \A j \in 1..lz + ly : t[j] = IF j =< lz THEN z[j] ELSE y[j - lz]
  <2>1. lx \in Nat /\ ly \in Nat /\ lz \in Nat /\ n \in Nat
    BY LenProperties
  <2>2. /\ Len(r) = lx + ly
        /\ \A j \in 1..lx + ly : r[j] = IF j =< lx THEN x[j] ELSE y[j - lx]
    BY Zenon, Joined
  <2>3. /\ Len(t) = lz + ly /\ t \in Seq(Byte)
        /\ \A j \in 1..lz + ly : t[j] = IF j =< lz THEN z[j] ELSE y[j - lz]
    BY Zenon, Joined
  <2>. QED BY <2>1, <2>2, <2>3
<1>3. /\ d \in Nat /\ d + Len(r) =< Len(S) /\ Len(S) \in Nat
      /\ whole => d + Len(r) = Len(S)
      /\ \A j \in 1..Len(r) : r[j] = S[d + j]
  BY <1>1, LenProperties DEF Lies
<1>4. (k + 1) - 1 = k
  OBVIOUS
<1>5. /\ e = d + Len(Frame(ps[k + 1]))
      /\ \A j \in 1..Len(Frame(ps[k + 1])) : S[d + j] = Frame(ps[k + 1])[j]
  BY <1>1, <1>4 DEF Laid
<1>6. /\ Len(Frame(ps[k + 1])) = HeaderSize + n
      /\ \A j \in 1..n : Frame(ps[k + 1])[HeaderSize + j] = ps[k + 1][j]
  BY FrameBytes
<1>7. lx = HeaderSize + n + lz /\ \A j \in 1..lz : z[j] = x[HeaderSize + n + j]
  BY DEF Behind
<1> HIDE DEF d, r, e, t, lx, ly, lz, n
<1>8. ASSUME NEW j \in 1..n PROVE x[HeaderSize + j] = ps[k + 1][j]
  <2>1. /\ HeaderSize + j \in 1..lx + ly /\ HeaderSize + j =< lx
        /\ HeaderSize + j \in 1..HeaderSize + n
    BY <1>2, <1>7 DEF HeaderSize
  <2>2. r[HeaderSize + j] = x[HeaderSize + j]
    BY <1>2, <2>1
  <2>3. r[HeaderSize + j] = S[d + (HeaderSize + j)]
    BY <1>2, <1>3, <2>1
  <2>4. S[d + (HeaderSize + j)] = ps[k + 1][j]
    BY <1>5, <1>6, <2>1
  <2>. QED BY <2>2, <2>3, <2>4
<1>9. ASSUME NEW j \in 1..lz + ly PROVE t[j] = S[e + j]
  <2> DEFINE i == HeaderSize + n + j
  <2>1. i \in 1..lx + ly /\ e + j = d + i
    <3>1. /\ lx \in Nat /\ ly \in Nat /\ lz \in Nat /\ d \in Nat
          /\ e = d + (4 + n) /\ lx = 4 + n + lz /\ i = 4 + n + j
      BY <1>2, <1>3, <1>5, <1>6, <1>7 DEF HeaderSize
    <3> HIDE DEF i
    <3>. QED BY <1>2, <3>1
  <2>2. r[i] = S[d + i]
    BY <1>2, <1>3, <2>1
  <2>3. t[j] = r[i]
    <3>1. CASE j =< lz
      <4>1. i =< lx /\ j \in 1..lz
        <5>1. lx = 4 + n + lz /\ i = 4 + n + j
          BY <1>7 DEF HeaderSize
        <5> HIDE DEF i
        <5>. QED BY <1>2, <3>1, <5>1
      <4>. QED BY <1>2, <1>7, <2>1, <3>1, <4>1
    <3>2. CASE ~(j =< lz)
      <4>1. ~(i =< lx) /\ i - lx = j - lz
        <5>1. /\ lx \in Nat /\ lz \in Nat
              /\ lx = 4 + n + lz /\ i = 4 + n + j
          BY <1>2, <1>7 DEF HeaderSize
        <5>2. lx \in Nat /\ lz \in Nat /\ n \in Nat /\ j \in Nat
          BY <1>2
        <5> HIDE DEF i
        <5>. QED BY <3>2, <5>1, <5>2
      <4>. QED BY <1>2, <2>1, <3>2, <4>1
    <3>. QED BY <3>1, <3>2
  <2> HIDE DEF i
  <2>. QED BY <2>1, <2>2, <2>3
<1>10. Lies(t, S, e, whole)
  <2>1. e + Len(t) = d + Len(r)
    <3>1. /\ lx \in Nat /\ ly \in Nat /\ lz \in Nat /\ d \in Nat
          /\ e = d + (4 + n) /\ lx = 4 + n + lz
          /\ Len(t) = lz + ly /\ Len(r) = lx + ly
      BY <1>2, <1>3, <1>5, <1>6, <1>7 DEF HeaderSize
    <3>. QED BY <1>2, <3>1
  <2>. QED BY <1>2, <1>3, <1>9, <2>1 DEF Lies
<1>11. k + 1 \in 0..Len(ps)
  OBVIOUS
<1>12. Follows(ps, k + 1, t, whole)
  BY <1>1, <1>10, <1>11 DEF Follows, e
<1>. QED BY <1>8, <1>12 DEF t, n

-----------------------------------------------------------------------------
(* The bytes of each connection on their way: in the receiver's buffer, in *)
(* the connection, in the running SendAll.                                 *)

unread == [c \in Conns |-> IF serving = c THEN SubSeq(buf, pos + 1, Len(buf)) ELSE <<>>]
unsent == [c \in Conns |-> IF cur = c THEN out ELSE <<>>]
pending == [c \in Conns |-> unread[c] \o (wire[c] \o unsent[c])]

\* Where the server thread is, and what connections not opened yet hold.
Shape ==
  /\ NoThread
  /\ pc \in {"none", "listen", "exit"} => serving = 0
  /\ pc \in {"client", "trim"} => pos = 0
  /\ serving =< cur
  /\ \A c \in Conns : c > cur =>
       sent[c] = <<>> /\ delivered[c] = <<>> /\ wire[c] = <<>> /\ link[c] = "none"

\* On every connection the bytes under way continue the packets handed on.
Framed ==
  \A c \in Conns :
    Follows(sent[c], Len(delivered[c]), pending[c], c = cur /\ link[c] = "open")

LEMMA Associative == \A x, y, z \in Seq(Byte) : (x \o y) \o z = x \o (y \o z)
<1> HIDE DEF Byte
<1>. QED BY ConcatAssociative

\* Type correctness is all it takes.
LEMMA ShapeInductive ==
  /\ Init => Shape
  /\ TypeInv /\ Shape /\ [Next]_vars => Shape'
<1>1. Init => Shape
  BY NetAssumption DEF Init, Shape, NoThread, Conns, NetAssumption
<1>2. ASSUME TypeInv, Shape, [Next]_vars PROVE Shape'
  <2> USE <1>2, NetAssumption DEF Shape, NoThread
  <2>0. /\ cur \in Nat /\ serving \in Nat /\ \A c \in Conns : c \in Nat
        /\ \A c \in Conns : c > cur => c # cur /\ c # serving
        /\ wire \in [Conns -> Seq(Byte)] /\ link \in [Conns -> {"none", "open", "fin", "reset", "closed"}]
        /\ sent \in [Conns -> Seq(Packets)] /\ delivered \in [Conns -> Seq(Seq(Byte))]
    <3>1. cur \in 0..MaxConns /\ serving \in 0..MaxConns
      BY DEF TypeInv, TypeOK
    <3>2. cur \in Nat /\ serving \in Nat /\ \A c \in Conns : c \in Nat
      BY <3>1 DEF Conns
    <3>3. \A c \in Conns : c > cur => c # cur /\ c # serving
      BY <3>2
    <3>4. /\ wire \in [Conns -> Seq(Byte)]
          /\ link \in [Conns -> {"none", "open", "fin", "reset", "closed"}]
          /\ sent \in [Conns -> Seq(Packets)] /\ delivered \in [Conns -> Seq(Seq(Byte))]
      BY Zenon DEF TypeInv, TypeOK
    <3>. QED BY Zenon, <3>2, <3>3, <3>4
  <2> HIDE DEF Byte, Conns
  <2>1. CASE Connect
    <3>1. \A c \in Conns : c > cur + 1 => c > cur /\ c # cur + 1
      BY <2>0
    <3>2. serving =< cur + 1
      BY <2>0
    <3>. QED BY <2>0, <2>1, <3>1, <3>2 DEF Connect
  <2>2. ASSUME NEW p \in Packets, SendPacket(p) PROVE Shape'
    BY <2>0, <2>2 DEF SendPacket
  <2>3. ASSUME NEW n \in 1..Len(out), SendSome(n) PROVE Shape'
    BY <2>0, <2>3 DEF SendSome
  <2>4. CASE CloseClient \/ Reset
    BY <2>0, <2>4 DEF CloseClient, Reset
  <2>5. CASE Start \/ StopFlag \/ StopWake
    BY <2>5 DEF Start, StopFlag, StopWake
  <2>6. CASE StopJoin
    BY <2>0, <2>6 DEF StopJoin, Dropped
  <2>7. ASSUME NEW c \in Conns, Accept(c) PROVE Shape'
    <3>1. link[c] # "none"
      BY <2>7 DEF Accept
    <3>2. c =< cur
      BY <2>0, <3>1
    <3>. QED BY <2>7, <3>2 DEF Accept
  <2>8. CASE ExitRun \/ LeaveClient \/ ProtocolError \/ CheckOverrun
    BY <2>8 DEF ExitRun, LeaveClient, ProtocolError, CheckOverrun
  <2>9. ASSUME NEW n \in 1..Chunk, Recv(n) PROVE Shape'
    BY <2>0, <2>9 DEF Recv
  <2>10. CASE DeliverPacket
    BY <2>0, <2>10 DEF DeliverPacket
  <2>11. CASE Trim
    BY <2>11 DEF Trim
  <2>12. CASE CloseServed
    BY <2>0, <2>12 DEF CloseServed
  <2>13. CASE UNCHANGED vars
    BY <2>13 DEF vars
  <2>. QED BY <2>1, <2>2, <2>3, <2>4, <2>5, <2>6, <2>7, <2>8, <2>9, <2>10, <2>11,
              <2>12, <2>13 DEF Next, Sender, Server
<1>. QED BY <1>1, <1>2

\* The bytes under way are bytes, and so are the payloads.
LEMMA BytesUnderWay ==
  ASSUME TypeInv
  PROVE  /\ \A c \in Conns : /\ unread[c] \in Seq(Byte) /\ wire[c] \in Seq(Byte)
                             /\ unsent[c] \in Seq(Byte) /\ pending[c] \in Seq(Byte)
                             /\ pending[c] = unread[c] \o (wire[c] \o unsent[c])
                             /\ Len(sent[c]) \in Nat /\ sent[c] \in Seq(Packets)
                             /\ Len(delivered[c]) \in Nat
                             /\ \A i \in 1..Len(sent[c]) : sent[c][i] \in Seq(Byte)
         /\ \A p \in Packets : p \in Seq(Byte) /\ Len(p) \in Nat
<1>1. \A p \in Packets : p \in Seq(Byte)
  BY NetAssumption DEF NetAssumption, Byte
<1> HIDE DEF Byte
<1>2. Len(buf) \in Nat /\ pos \in Nat /\ buf \in Seq(Byte) /\ out \in Seq(Byte)
  BY LenProperties DEF TypeInv, TypeOK
<1>3. SubSeq(buf, pos + 1, Len(buf)) \in Seq(Byte)
  <2>1. pos + 1 \in Nat \ {0} /\ Len(buf) \in 0..Len(buf)
    BY <1>2
  <2>. QED BY <1>2, <2>1, Part
<1>4. ASSUME NEW c \in Conns
      PROVE  /\ unread[c] \in Seq(Byte) /\ wire[c] \in Seq(Byte)
             /\ unsent[c] \in Seq(Byte) /\ pending[c] \in Seq(Byte)
             /\ pending[c] = unread[c] \o (wire[c] \o unsent[c])
             /\ Len(sent[c]) \in Nat /\ sent[c] \in Seq(Packets)
             /\ Len(delivered[c]) \in Nat
             /\ \A i \in 1..Len(sent[c]) : sent[c][i] \in Seq(Byte)
  <2>1. unread[c] \in Seq(Byte) /\ unsent[c] \in Seq(Byte)
    BY <1>2, <1>3, EmptySeq DEF unread, unsent
  <2>2. /\ wire[c] \in Seq(Byte) /\ sent[c] \in Seq(Packets)
        /\ delivered[c] \in Seq(Seq(Byte))
    BY DEF TypeInv, TypeOK
  <2>3. pending[c] = unread[c] \o (wire[c] \o unsent[c])
    BY DEF pending
  <2>4. pending[c] \in Seq(Byte)
    BY <2>1, <2>2, <2>3, Joined
  <2>5. Len(sent[c]) \in Nat /\ Len(delivered[c]) \in Nat
    BY <2>2, LenProperties
  <2>6. \A i \in 1..Len(sent[c]) : sent[c][i] \in Packets
    BY <2>2, ElementOfSeq
  <2>. QED BY <1>1, <2>1, <2>2, <2>3, <2>4, <2>5, <2>6
<1>5. \A p \in Packets : Len(p) \in Nat
  BY <1>1, LenProperties
<1>. QED BY <1>1, <1>4, <1>5

\* Who stays with the last bytes stays with them also when that is not asked.
LEMMA FollowsWeaker ==
  ASSUME NEW ps, Len(ps) \in Nat, NEW k, NEW r \in Seq(Byte), NEW w \in BOOLEAN,
         NEW v \in BOOLEAN, Follows(ps, k, r, w), v => w
  PROVE  Follows(ps, k, r, v)
<1>1. CASE v
  <2>1. v = w
    BY <1>1
  <2>. QED BY <2>1
<1>2. CASE ~v
  <2>1. v = FALSE
    BY <1>2
  <2>. QED BY <2>1, FollowsEmpty
<1>. QED BY <1>1, <1>2

\* Bytes that only change place, from the sender to the connection and from
\* there into the buffer, are still the same bytes.
LEMMA FramedMoves ==
  ASSUME TypeInv, Framed, TypeInv', sent' = sent, delivered' = delivered, pending' = pending,
         \A c \in Conns : (c = cur /\ link[c] = "open")' => c = cur /\ link[c] = "open"
  PROVE  Framed'
<1> SUFFICES ASSUME NEW c \in Conns
             PROVE  Follows(sent[c], Len(delivered[c]), pending[c],
                            c = cur' /\ link'[c] = "open")
  BY DEF Framed
<1> DEFINE w == c = cur /\ link[c] = "open"  v == c = cur' /\ link'[c] = "open"
<1>1. Follows(sent[c], Len(delivered[c]), pending[c], w) /\ (v => w)
  BY DEF Framed
<1>2. w \in BOOLEAN /\ v \in BOOLEAN
  OBVIOUS
<1>3. Len(sent[c]) \in Nat /\ pending[c] \in Seq(Byte)
  BY BytesUnderWay
<1> HIDE DEF w, v, Byte
<1>4. Follows(sent[c], Len(delivered[c]), pending[c], v)
  BY <1>1, <1>2, <1>3, FollowsWeaker
<1>. QED BY <1>4 DEF v

\* Some of the last bytes of connections are lost, which are then not open.
LEMMA FramedLoses ==
  ASSUME TypeInv, Framed, sent' = sent, delivered' = delivered,
         \A c \in Conns :
           \/ pending'[c] = pending[c] /\ (c = cur' /\ link'[c] = "open"
                                            => c = cur /\ link[c] = "open")
           \/ /\ ~(c = cur' /\ link'[c] = "open")
              /\ \E y \in Seq(Byte) : pending'[c] \in Seq(Byte) /\ pending[c] = pending'[c] \o y
  PROVE  Framed'
<1> SUFFICES ASSUME NEW c \in Conns
             PROVE  Follows(sent[c], Len(delivered[c]), pending'[c],
                            c = cur' /\ link'[c] = "open")
  BY DEF Framed
<1> DEFINE w == c = cur /\ link[c] = "open"  v == c = cur' /\ link'[c] = "open"
           r == pending'[c]
<1>1. Follows(sent[c], Len(delivered[c]), pending[c], w)
  BY DEF Framed
<1>2. w \in BOOLEAN /\ v \in BOOLEAN
  OBVIOUS
<1>3. Len(sent[c]) \in Nat /\ pending[c] \in Seq(Byte)
  BY BytesUnderWay
<1>4. \/ r = pending[c] /\ (v => w)
      \/ ~v /\ \E y \in Seq(Byte) : r \in Seq(Byte) /\ pending[c] = r \o y
  OBVIOUS
<1> HIDE DEF w, v, r, Byte
<1>5. CASE r = pending[c] /\ (v => w)
  BY <1>1, <1>2, <1>3, <1>5, FollowsWeaker DEF v, r
<1>6. CASE ~v /\ \E y \in Seq(Byte) : r \in Seq(Byte) /\ pending[c] = r \o y
  <2>1. PICK y \in Seq(Byte) : r \in Seq(Byte) /\ pending[c] = r \o y
    BY <1>6
  <2>2. Follows(sent[c], Len(delivered[c]), r \o y, w)
    BY <1>1, <2>1
  <2>3. Follows(sent[c], Len(delivered[c]), r, FALSE)
    BY <1>3, <2>1, <2>2, FollowsLess
  <2>4. v = FALSE
    BY <1>2, <1>6
  <2>. QED BY <2>3, <2>4 DEF v, r
<1>. QED BY <1>4, <1>5, <1>6

\* The actions one by one.  send(), recv() and the erasing of what was handed
\* on move bytes along.
LEMMA FramedSendSome ==
  ASSUME TypeInv, Framed, TypeInv', NEW n \in 1..Len(out), SendSome(n)
  PROVE  Framed'
<1> HIDE DEF Byte
<1>1. out \in Seq(Byte) /\ Len(out) \in Nat /\ n \in Nat /\ n =< Len(out) /\ cur \in Conns
  <2>1. out \in Seq(Byte)
    BY DEF TypeInv, TypeOK
  <2>2. cur \in Conns
    BY NetAssumption DEF SendSome, TypeInv, TypeOK, Conns, NetAssumption
  <2>. QED BY <2>1, <2>2, LenProperties
<1> DEFINE a == SubSeq(out, 1, n)  b == SubSeq(out, n + 1, Len(out))
<1>2. a \in Seq(Byte) /\ b \in Seq(Byte)
  <2>1. 1 \in Nat \ {0} /\ n + 1 \in Nat \ {0} /\ n \in 0..Len(out) /\ Len(out) \in 0..Len(out)
    BY <1>1
  <2>. QED BY <1>1, <2>1, Part
<1>3. a \o b = out
  <2>1. 1 \in 1..Len(out) + 1 /\ n \in 1 - 1..Len(out) /\ Len(out) \in n..Len(out)
    BY <1>1
  <2>2. a \o b = SubSeq(out, 1, Len(out))
    BY <1>1, <2>1, ConcatAdjacentSubSeq
  <2>. QED BY <1>1, <2>2, SubSeqFull
<1>4. /\ out' = b /\ wire' = [wire EXCEPT ![cur] = @ \o a]
      /\ UNCHANGED <<cur, link, sent, serving, buf, pos, delivered>>
  BY DEF SendSome
<1> HIDE DEF a, b
<1>5. unread' = unread
  BY <1>4 DEF unread
<1>6. wire \in [Conns -> Seq(Byte)]
  BY DEF TypeInv, TypeOK
<1>7. ASSUME NEW c \in Conns PROVE wire'[c] \o unsent'[c] = wire[c] \o unsent[c]
  <2>1. CASE c = cur
    <3>1. wire'[c] = wire[c] \o a /\ unsent'[c] = b /\ unsent[c] = out
      BY <1>4, <1>6, <2>1 DEF unsent
    <3>2. wire[c] \in Seq(Byte)
      BY <1>6
    <3>3. (wire[c] \o a) \o b = wire[c] \o (a \o b)
      BY Zenon, <1>2, <3>2, Associative
    <3>. QED BY <1>3, <3>1, <3>3
  <2>2. CASE c # cur
    BY <1>4, <1>6, <2>2 DEF unsent
  <2>. QED BY <2>1, <2>2
<1>8. pending' = pending
  BY <1>5, <1>7 DEF pending
<1>. QED BY <1>4, <1>8, FramedMoves

LEMMA FramedRecv ==
  ASSUME TypeInv, Shape, Framed, TypeInv', NEW n \in 1..Chunk, Recv(n)
  PROVE  Framed'
<1> HIDE DEF Byte
<1>1. /\ serving \in Conns /\ buf \in Seq(Byte) /\ pos = 0
      /\ wire \in [Conns -> Seq(Byte)] /\ wire[serving] \in Seq(Byte)
  BY Zenon DEF Recv, TypeInv, TypeOK, Shape
<1> DEFINE w == wire[serving]  a == SubSeq(w, 1, n)  b == SubSeq(w, n + 1, Len(w))
<1>2. Len(w) \in Nat /\ n \in Nat /\ n =< Len(w) /\ 1 =< n
  BY <1>1, LenProperties DEF Recv
<1>3. /\ buf' = buf \o a /\ wire' = [wire EXCEPT ![serving] = b] /\ pos' = 0
      /\ UNCHANGED <<cur, link, sent, serving, out, delivered>>
  BY DEF Recv
<1>4. w \in Seq(Byte)
  BY <1>1
<1> HIDE DEF w
<1>5. a \in Seq(Byte) /\ b \in Seq(Byte)
  <2>1. 1 \in Nat \ {0} /\ n + 1 \in Nat \ {0} /\ n \in 0..Len(w) /\ Len(w) \in 0..Len(w)
    BY <1>2
  <2>. QED BY <1>4, <2>1, Part
<1>6. a \o b = w
  <2>1. 1 \in 1..Len(w) + 1 /\ n \in 1 - 1..Len(w) /\ Len(w) \in n..Len(w)
    BY <1>2
  <2>2. a \o b = SubSeq(w, 1, Len(w))
    BY <1>4, <2>1, ConcatAdjacentSubSeq
  <2>. QED BY <1>4, <2>2, SubSeqFull
<1> HIDE DEF a, b
<1>7. unread[serving] = buf /\ unread'[serving] = buf \o a
  <2>1. buf \o a \in Seq(Byte)
    BY <1>1, <1>5, Joined
  <2>2. SubSeq(buf, 1, Len(buf)) = buf /\ SubSeq(buf \o a, 1, Len(buf \o a)) = buf \o a
    BY <1>1, <2>1, SubSeqFull
  <2>3. 0 + 1 = 1
    OBVIOUS
  <2>. QED BY <1>1, <1>3, <2>2, <2>3 DEF unread
<1>8. unsent' = unsent
  BY <1>3 DEF unsent
<1>9. ASSUME NEW c \in Conns
      PROVE  unread'[c] \o (wire'[c] \o unsent[c]) = unread[c] \o (wire[c] \o unsent[c])
  <2>1. CASE c = serving
    <3> DEFINE u == unsent[c]
    <3>1. u \in Seq(Byte)
      BY BytesUnderWay
    <3>2. wire'[c] = b /\ wire[c] = w
      BY <1>1, <1>3, <2>1 DEF w
    <3> HIDE DEF u
    <3>3. w \o u = a \o (b \o u) /\ b \o u \in Seq(Byte)
      <4>1. (a \o b) \o u = a \o (b \o u)
        BY Zenon, <1>5, <3>1, Associative
      <4>2. b \o u \in Seq(Byte)
        BY <1>5, <3>1, Joined
      <4>. QED BY Zenon, <1>6, <4>1, <4>2
    <3>4. (buf \o a) \o (b \o u) = buf \o (a \o (b \o u))
      BY Zenon, <1>1, <1>5, <3>3, Associative
    <3>5. unread'[c] \o (wire'[c] \o u) = unread[c] \o (wire[c] \o u)
      BY <1>7, <2>1, <3>2, <3>3, <3>4
    <3>. QED BY <3>5 DEF u
  <2>2. CASE c # serving
    <3>1. wire'[c] = wire[c]
      BY <1>1, <1>3, <2>2
    <3>2. unread'[c] = unread[c]
      BY <1>3, <2>2 DEF unread
    <3>. QED BY <3>1, <3>2
  <2>. QED BY <2>1, <2>2
<1>10. pending' = pending
  BY <1>8, <1>9 DEF pending
<1>. QED BY <1>3, <1>10, FramedMoves

LEMMA FramedTrim ==
  ASSUME TypeInv, Framed, TypeInv', Trim
  PROVE  Framed'
<1> HIDE DEF Byte
<1>1. /\ buf' = SubSeq(buf, pos + 1, Len(buf)) /\ pos' = 0
      /\ UNCHANGED <<cur, link, sent, serving, out, wire, delivered>>
  BY DEF Trim
<1>2. buf' \in Seq(Byte)
  BY DEF TypeInv, TypeOK
<1>3. SubSeq(buf', 1, Len(buf')) = buf'
  BY <1>2, SubSeqFull
<1>4. 0 + 1 = 1
  OBVIOUS
<1>5. unread' = unread
  BY <1>1, <1>3, <1>4 DEF unread
<1>6. pending' = pending
  BY <1>1, <1>5 DEF pending, unsent
<1>. QED BY <1>1, <1>6, FramedMoves

LEMMA NothingToAdd == \A x \in Seq(Byte) : <<>> \in Seq(Byte) /\ <<>> \o x = x /\ x \o <<>> = x
<1> HIDE DEF Byte
<1>. QED BY EmptySeq, ConcatEmptySeq

LEMMA FramedAccept ==
  ASSUME TypeInv, Shape, Framed, TypeInv', NEW c \in Conns, Accept(c)
  PROVE  Framed'
<1>1. /\ serving = 0 /\ serving' = c /\ buf' = <<>> /\ pos' = 0
      /\ UNCHANGED <<cur, link, sent, out, wire, delivered>>
  BY DEF Accept, Shape
<1>2. ASSUME NEW d \in Conns PROVE unread'[d] = <<>> /\ unread[d] = <<>>
  <2>1. d # 0
    BY NetAssumption DEF Conns, NetAssumption
  <2>2. SubSeq(<<>>, 0 + 1, Len(<<>>)) = <<>>
    OBVIOUS
  <2>. QED BY <1>1, <2>1, <2>2 DEF unread
<1>3. pending' = pending
  BY <1>1, <1>2 DEF pending, unsent
<1>. QED BY <1>1, <1>3, FramedMoves

\* A reset, a close on either side and the end of Stop lose the last bytes.
LEMMA FramedReset ==
  ASSUME TypeInv, Framed, TypeInv', Reset
  PROVE  Framed'
<1> HIDE DEF Byte, Conns
<1>1. /\ link' = [link EXCEPT ![cur] = "reset"] /\ wire' = [wire EXCEPT ![cur] = <<>>]
      /\ out' = <<>> /\ UNCHANGED <<cur, sent, serving, buf, pos, delivered>>
  BY DEF Reset
<1>2. /\ wire \in [Conns -> Seq(Byte)]
      /\ link \in [Conns -> {"none", "open", "fin", "reset", "closed"}]
  BY DEF TypeInv, TypeOK
<1>3. ASSUME NEW c \in Conns
      PROVE  \/ pending'[c] = pending[c] /\ (c = cur' /\ link'[c] = "open"
                                              => c = cur /\ link[c] = "open")
             \/ /\ ~(c = cur' /\ link'[c] = "open")
                /\ \E y \in Seq(Byte) : pending'[c] \in Seq(Byte) /\ pending[c] = pending'[c] \o y
  <2>1. CASE c = cur
    <3>1. wire'[c] = <<>> /\ unsent'[c] = <<>> /\ link'[c] # "open" /\ unread'[c] = unread[c]
      BY <1>1, <1>2, <2>1 DEF unsent, unread
    <3>2. /\ unread[c] \in Seq(Byte) /\ wire[c] \o unsent[c] \in Seq(Byte)
          /\ pending[c] = unread[c] \o (wire[c] \o unsent[c])
      BY BytesUnderWay, Joined
    <3>3. <<>> \o <<>> = <<>> /\ unread[c] \o <<>> = unread[c]
      BY <3>2, NothingToAdd
    <3>4. pending'[c] = unread'[c] \o (wire'[c] \o unsent'[c])
      BY DEF pending
    <3>5. pending'[c] = unread[c]
      BY Zenon, <3>1, <3>3, <3>4
    <3>. QED BY <3>1, <3>2, <3>5
  <2>2. CASE c # cur
    BY <1>1, <1>2, <2>2 DEF pending, unread, unsent
  <2>. QED BY <2>1, <2>2
<1>. QED BY <1>1, <1>3, FramedLoses

LEMMA FramedClose ==
  ASSUME TypeInv, Framed, TypeInv', CloseClient
  PROVE  Framed'
<1> HIDE DEF Byte, Conns
<1>1. /\ link' = [link EXCEPT ![cur] = "fin"]
      /\ out' = <<>> /\ UNCHANGED <<cur, sent, wire, serving, buf, pos, delivered>>
  BY DEF CloseClient
<1>2. link \in [Conns -> {"none", "open", "fin", "reset", "closed"}]
  BY DEF TypeInv, TypeOK
<1>3. ASSUME NEW c \in Conns
      PROVE  \/ pending'[c] = pending[c] /\ (c = cur' /\ link'[c] = "open"
                                              => c = cur /\ link[c] = "open")
             \/ /\ ~(c = cur' /\ link'[c] = "open")
                /\ \E y \in Seq(Byte) : pending'[c] \in Seq(Byte) /\ pending[c] = pending'[c] \o y
  <2>1. CASE c = cur
    <3>1. unsent'[c] = <<>> /\ link'[c] # "open" /\ unread'[c] = unread[c] /\ wire'[c] = wire[c]
      BY <1>1, <1>2, <2>1 DEF unsent, unread
    <3>2. /\ unread[c] \in Seq(Byte) /\ wire[c] \in Seq(Byte) /\ unsent[c] \in Seq(Byte)
          /\ unread[c] \o wire[c] \in Seq(Byte)
          /\ pending[c] = unread[c] \o (wire[c] \o unsent[c])
      BY BytesUnderWay, Joined
    <3>3. pending[c] = (unread[c] \o wire[c]) \o unsent[c] /\ wire[c] \o <<>> = wire[c]
      BY Zenon, <3>2, Associative, NothingToAdd
    <3>4. pending'[c] = unread'[c] \o (wire'[c] \o unsent'[c])
      BY DEF pending
    <3>5. pending'[c] = unread[c] \o wire[c]
      BY Zenon, <3>1, <3>3, <3>4
    <3>. QED BY <3>1, <3>2, <3>3, <3>5
  <2>2. CASE c # cur
    BY <1>1, <1>2, <2>2 DEF pending, unread, unsent
  <2>. QED BY <2>1, <2>2
<1>. QED BY <1>1, <1>3, FramedLoses

LEMMA FramedCloseServed ==
  ASSUME TypeInv, Framed, TypeInv', CloseServed
  PROVE  Framed'
<1>0. serving \in Conns /\ \A c \in Conns : c # 0
  BY NetAssumption DEF CloseServed, TypeInv, Conns, NetAssumption
<1> HIDE DEF Byte, Conns
<1>1. /\ link' = [link EXCEPT ![serving] = "closed"]
      /\ wire' = [wire EXCEPT ![serving] = <<>>] /\ serving' = 0
      /\ out' = IF serving = cur THEN <<>> ELSE out
      /\ UNCHANGED <<cur, sent, delivered>>
  BY DEF CloseServed
<1>2. /\ wire \in [Conns -> Seq(Byte)]
      /\ link \in [Conns -> {"none", "open", "fin", "reset", "closed"}]
  BY DEF TypeInv, TypeOK
<1>3. ASSUME NEW c \in Conns
      PROVE  \/ pending'[c] = pending[c] /\ (c = cur' /\ link'[c] = "open"
                                              => c = cur /\ link[c] = "open")
             \/ /\ ~(c = cur' /\ link'[c] = "open")
                /\ \E y \in Seq(Byte) : pending'[c] \in Seq(Byte) /\ pending[c] = pending'[c] \o y
  <2>0. unread'[c] = <<>>
    BY <1>0, <1>1 DEF unread
  <2>1. CASE c = serving
    <3>1. wire'[c] = <<>> /\ unsent'[c] = <<>> /\ link'[c] # "open"
      BY <1>1, <1>2, <2>1 DEF unsent
    <3>2. pending[c] \in Seq(Byte)
      BY BytesUnderWay
    <3>3. <<>> \o <<>> = <<>> /\ <<>> \o pending[c] = pending[c] /\ <<>> \in Seq(Byte)
      BY <3>2, NothingToAdd
    <3>4. pending'[c] = unread'[c] \o (wire'[c] \o unsent'[c])
      BY DEF pending
    <3>5. pending'[c] = <<>>
      BY Zenon, <2>0, <3>1, <3>3, <3>4
    <3>. QED BY <3>1, <3>2, <3>3, <3>5
  <2>2. CASE c # serving
    <3>1. unread[c] = <<>> /\ wire'[c] = wire[c] /\ link'[c] = link[c] /\ unsent'[c] = unsent[c]
      BY <1>1, <1>2, <2>2 DEF unread, unsent
    <3>2. /\ pending[c] = unread[c] \o (wire[c] \o unsent[c])
          /\ pending'[c] = unread'[c] \o (wire'[c] \o unsent'[c])
      BY DEF pending
    <3>3. pending'[c] = pending[c]
      BY Zenon, <2>0, <3>1, <3>2
    <3>. QED BY Zenon, <1>1, <3>1, <3>3
  <2>. QED BY <2>1, <2>2
<1>. QED BY <1>1, <1>3, FramedLoses

LEMMA FramedStopJoin ==
  ASSUME TypeInv, Shape, Framed, TypeInv', StopJoin
  PROVE  Framed'
<1>0. \A c \in Conns : c # 0
  BY NetAssumption DEF Conns, NetAssumption
<1> HIDE DEF Byte, Conns
<1>1. /\ link' = Dropped /\ wire' = [c \in Conns |-> <<>>] /\ serving' = 0
      /\ out' = <<>> /\ UNCHANGED <<cur, sent, delivered>>
  BY DEF StopJoin, Shape
<1>3. ASSUME NEW c \in Conns
      PROVE  /\ ~(c = cur' /\ link'[c] = "open")
             /\ \E y \in Seq(Byte) : pending'[c] \in Seq(Byte) /\ pending[c] = pending'[c] \o y
  <2>1. wire'[c] = <<>> /\ unsent'[c] = <<>> /\ link'[c] # "open" /\ unread'[c] = <<>>
    BY <1>0, <1>1 DEF unsent, unread, Dropped
  <2>2. pending[c] \in Seq(Byte)
    BY BytesUnderWay
  <2>3. <<>> \o <<>> = <<>> /\ <<>> \o pending[c] = pending[c] /\ <<>> \in Seq(Byte)
    BY <2>2, NothingToAdd
  <2>4. pending'[c] = unread'[c] \o (wire'[c] \o unsent'[c])
    BY DEF pending
  <2>5. pending'[c] = <<>>
    BY Zenon, <2>1, <2>3, <2>4
  <2>. QED BY <2>1, <2>2, <2>3, <2>5
<1>. QED BY <1>1, <1>3, FramedLoses

LEMMA FramedConnect ==
  ASSUME TypeInv, Shape, Framed, TypeInv', Connect
  PROVE  Framed'
<1>0. /\ cur \in Nat /\ cur + 1 \in Conns /\ cur + 1 # cur
      /\ serving \in Nat /\ serving # cur + 1
      /\ \A c \in Conns : c \in Nat /\ (c = cur + 1 => c > cur)
  BY NetAssumption DEF Connect, Shape, TypeInv, TypeOK, Conns, NetAssumption
<1> HIDE DEF Byte, Conns
<1>1. /\ link' = [link EXCEPT ![cur + 1] = "open"] /\ out' = <<>> /\ cur' = cur + 1
      /\ cur # 0 => link[cur] # "open"
      /\ UNCHANGED <<sent, wire, serving, buf, pos, delivered>>
  BY DEF Connect
<1>2. link \in [Conns -> {"none", "open", "fin", "reset", "closed"}]
  BY DEF TypeInv, TypeOK
<1>3. ASSUME NEW c \in Conns
      PROVE  Follows(sent'[c], Len(delivered'[c]), pending'[c], c = cur' /\ link'[c] = "open")
  <2>1. CASE c = cur + 1
    <3>1. /\ sent'[c] = <<>> /\ delivered'[c] = <<>> /\ wire'[c] = <<>>
          /\ unread'[c] = <<>> /\ unsent'[c] = <<>> /\ Len(<<>>) = 0
      BY <1>0, <1>1, <2>1 DEF Shape, unread, unsent
    <3>2. <<>> \o <<>> = <<>>
      BY NothingToAdd, <3>1, BytesUnderWay
    <3>3. pending'[c] = <<>>
      BY <3>1, <3>2 DEF pending
    <3>. QED BY <3>1, <3>3, FollowsNothing
  <2>2. CASE c # cur + 1
    <3> DEFINE w == c = cur /\ link[c] = "open"
    <3>1. /\ unread[c] \in Seq(Byte) /\ wire[c] \in Seq(Byte) /\ unsent[c] \in Seq(Byte)
          /\ unread[c] \o wire[c] \in Seq(Byte) /\ Len(sent[c]) \in Nat
          /\ pending[c] = unread[c] \o (wire[c] \o unsent[c])
      BY BytesUnderWay, Joined
    <3>2. pending[c] = (unread[c] \o wire[c]) \o unsent[c] /\ wire[c] \o <<>> = wire[c]
      <4>1. (unread[c] \o wire[c]) \o unsent[c] = unread[c] \o (wire[c] \o unsent[c])
        BY Zenon, <3>1, Associative
      <4>. QED BY Zenon, <3>1, <4>1, NothingToAdd
    <3>3. unsent'[c] = <<>> /\ unread'[c] = unread[c] /\ wire'[c] = wire[c]
      BY <1>1, <2>2 DEF unsent, unread
    <3>4. pending'[c] = unread'[c] \o (wire'[c] \o unsent'[c])
      BY DEF pending
    <3>5. pending'[c] = unread[c] \o wire[c]
      BY Zenon, <3>2, <3>3, <3>4
    <3>6. Follows(sent[c], Len(delivered[c]), (unread[c] \o wire[c]) \o unsent[c], w)
      BY <3>2 DEF Framed
    <3> HIDE DEF w
    <3>7. Follows(sent[c], Len(delivered[c]), unread[c] \o wire[c], FALSE)
      BY <3>1, <3>6, FollowsLess
    <3>8. (c = cur' /\ link'[c] = "open") = FALSE
      BY <1>1, <2>2
    <3>. QED BY <1>1, <3>5, <3>7, <3>8
  <2>. QED BY <2>1, <2>2
<1>. QED BY <1>3 DEF Framed

\* SendAll has finished, so the new frame lies right behind the last one.
LEMMA FramedSendPacket ==
  ASSUME TypeInv, Framed, NEW p \in Packets, SendPacket(p)
  PROVE  Framed'
<1>0. cur \in Conns
  BY NetAssumption DEF SendPacket, TypeInv, TypeOK, Conns, NetAssumption
<1> HIDE DEF Byte, Conns
<1>1. /\ out = <<>> /\ out' = Frame(p) /\ link[cur] = "open"
      /\ sent' = [sent EXCEPT ![cur] = Append(@, p)]
      /\ UNCHANGED <<cur, link, wire, serving, buf, pos, delivered>>
  BY DEF SendPacket, Frame
<1>2. sent \in [Conns -> Seq(Packets)]
  BY DEF TypeInv, TypeOK
<1>3. p \in Seq(Byte) /\ Frame(p) \in Seq(Byte)
  BY BytesUnderWay, FrameBytes
<1>4. ASSUME NEW c \in Conns
      PROVE  Follows(sent'[c], Len(delivered'[c]), pending'[c], c = cur' /\ link'[c] = "open")
  <2>0. /\ unread[c] \in Seq(Byte) /\ wire[c] \in Seq(Byte) /\ sent[c] \in Seq(Packets)
        /\ unread[c] \o wire[c] \in Seq(Byte) /\ pending[c] \in Seq(Byte)
        /\ \A i \in 1..Len(sent[c]) : sent[c][i] \in Seq(Byte)
        /\ pending[c] = unread[c] \o (wire[c] \o unsent[c])
    BY BytesUnderWay, Joined
  <2>1. unread'[c] = unread[c] /\ wire'[c] = wire[c]
    BY <1>1 DEF unread
  <2>2. pending'[c] = unread'[c] \o (wire'[c] \o unsent'[c])
    BY DEF pending
  <2>3. CASE c = cur
    <3>1. unsent[c] = <<>> /\ unsent'[c] = Frame(p)
      BY <1>1, <2>3 DEF unsent
    <3>2. wire[c] \o <<>> = wire[c]
      BY <2>0, NothingToAdd
    <3>3. pending[c] = unread[c] \o wire[c]
      BY Zenon, <2>0, <3>1, <3>2
    <3>4. pending'[c] = (unread[c] \o wire[c]) \o Frame(p)
      <4>1. (unread[c] \o wire[c]) \o Frame(p) = unread[c] \o (wire[c] \o Frame(p))
        <5>1. unread[c] \in Seq(Byte) /\ wire[c] \in Seq(Byte) /\ Frame(p) \in Seq(Byte)
          BY Zenon, <1>3, <2>0
        <5>. QED BY Zenon, <5>1, Associative
      <4>. QED BY Zenon, <2>1, <2>2, <3>1, <4>1
    <3>5. (c = cur /\ link[c] = "open") = TRUE /\ (c = cur' /\ link'[c] = "open") = TRUE
      BY <1>1, <2>3
    <3>6. Follows(sent[c], Len(delivered[c]), pending[c], TRUE)
      BY <3>5 DEF Framed
    <3>7. Follows(Append(sent[c], p), Len(delivered[c]), pending[c] \o Frame(p), TRUE)
      BY <1>3, <2>0, <3>6, FollowsSend
    <3>8. sent'[c] = Append(sent[c], p) /\ delivered'[c] = delivered[c]
      BY <1>1, <1>2, <2>3
    <3>. QED BY Zenon, <3>3, <3>4, <3>5, <3>7, <3>8
  <2>4. CASE c # cur
    <3>1. unsent[c] = <<>> /\ unsent'[c] = <<>> /\ sent'[c] = sent[c] /\ delivered'[c] = delivered[c]
      BY <1>1, <1>2, <2>4 DEF unsent
    <3>2. pending'[c] = pending[c]
      BY <2>0, <2>1, <2>2, <3>1
    <3>3. (c = cur' /\ link'[c] = "open") = (c = cur /\ link[c] = "open")
      BY <1>1
    <3>. QED BY <3>1, <3>2, <3>3 DEF Framed
  <2>. QED BY <2>3, <2>4
<1>. QED BY <1>4 DEF Framed

Payload == SubSeq(buf, pos + HeaderSize + 1, pos + HeaderSize + PacketLen)

\* What the parse loop takes for a packet is the next one of the connection.
LEMMA NextPacket ==
  ASSUME \A p \in Packets : Fits(Len(p)), TypeInv, Framed, DeliverPacket
  PROVE  LET k == Len(delivered[serving]) + 1
         IN  /\ k \in 1..Len(sent[serving]) /\ Len(delivered[serving]) \in Nat
             /\ Len(sent[serving][k]) = PacketLen /\ Payload = sent[serving][k]
             /\ Follows(sent[serving], k,
                        SubSeq(buf, pos + HeaderSize + PacketLen + 1, Len(buf))
                          \o (wire[serving] \o unsent[serving]),
                        serving = cur /\ link[serving] = "open")
<1> DEFINE c == serving  ps == sent[c]  k == Len(delivered[c])
           w == c = cur /\ link[c] = "open"
           x == SubSeq(buf, pos + 1, Len(buf))  y == wire[c] \o unsent[c]
           z == SubSeq(buf, pos + HeaderSize + PacketLen + 1, Len(buf))
<1>0. c \in Conns
  BY DEF DeliverPacket, TypeInv
<1>p. PacketLen \in Nat /\ HasHeader
  BY LengthIsNat DEF TypeInv, DeliverPacket
<1> DEFINE n == PacketLen  l == Len(buf)
<1> HIDE DEF Byte
<1>1. l \in Nat /\ pos \in Nat /\ buf \in Seq(Byte) /\ n \in Nat /\ pos + HeaderSize + n =< l
  BY <1>p, LenProperties DEF TypeInv, TypeOK, DeliverPacket, Complete
<1>2. \A i \in 1..l : buf[i] \in Byte
  BY <1>1, ElementOfSeq
<1> HIDE DEF n, l
<1>3. /\ x \in Seq(Byte) /\ Len(x) = l - pos
      /\ \A i \in 1..l - pos : x[i] = buf[pos + i]
  <2>1. \A i \in pos + 1..l : buf[i] \in Byte
    BY <1>1, <1>2
  <2>2. /\ SubSeq(buf, pos + 1, l) \in Seq(Byte)
        /\ Len(SubSeq(buf, pos + 1, l)) = IF pos + 1 =< l THEN l - (pos + 1) + 1 ELSE 0
        /\ \A i \in 1..l - (pos + 1) + 1 : SubSeq(buf, pos + 1, l)[i] = buf[pos + 1 + i - 1]
    BY <1>1, <2>1, SubSeqProperties
  <2>3. x = SubSeq(buf, pos + 1, l)
    BY DEF l
  <2> HIDE DEF x
  <2>4. l - (pos + 1) + 1 = l - pos /\ \A i \in 1..l - pos : pos + 1 + i - 1 = pos + i
    BY <1>1
  <2>5. Len(x) = l - pos
    BY <1>1, <2>2, <2>3 DEF HeaderSize
  <2>. QED BY <2>2, <2>3, <2>4, <2>5
<1>4. /\ z \in Seq(Byte) /\ Len(z) = l - (pos + HeaderSize + n)
      /\ \A i \in 1..Len(z) : z[i] = buf[pos + HeaderSize + n + i]
  <2> DEFINE m == pos + HeaderSize + n
  <2>1. m \in Nat /\ m =< l
    BY <1>1 DEF HeaderSize
  <2>2. z = SubSeq(buf, m + 1, l)
    BY DEF l, n
  <2> HIDE DEF m, z
  <2>3. \A i \in m + 1..l : buf[i] \in Byte
    BY <1>2, <2>1
  <2>4. /\ SubSeq(buf, m + 1, l) \in Seq(Byte)
        /\ Len(SubSeq(buf, m + 1, l)) = IF m + 1 =< l THEN l - (m + 1) + 1 ELSE 0
        /\ \A i \in 1..l - (m + 1) + 1 : SubSeq(buf, m + 1, l)[i] = buf[m + 1 + i - 1]
    BY <1>1, <2>1, <2>3, SubSeqProperties
  <2>5. l - (m + 1) + 1 = l - m /\ \A i \in 1..l - m : m + 1 + i - 1 = m + i
    BY <1>1, <2>1
  <2>6. Len(z) = l - m
    BY <1>1, <2>1, <2>2, <2>4
  <2>7. \A i \in 1..l - m : z[i] = buf[m + i]
    BY <2>2, <2>4, <2>5
  <2>. QED BY <2>2, <2>4, <2>6, <2>7 DEF m
<1>5. /\ y \in Seq(Byte) /\ ps \in Seq(Packets) /\ Len(ps) \in Nat /\ k \in Nat
      /\ \A i \in 1..Len(ps) : ps[i] \in Seq(Byte)
      /\ pending[c] = unread[c] \o y
  BY <1>0, BytesUnderWay, Joined
<1>6. unread[c] = x
  BY <1>0 DEF unread
<1>7. Follows(ps, k, x \o y, w)
  BY <1>0, <1>5, <1>6 DEF Framed
<1>5b. Bytewise(ps, x, y)
  BY <1>3, <1>5 DEF Bytewise
<1> HIDE DEF x, y, z, w, ps, k, c
<1>8. HeaderSize =< Len(x)
  BY <1>1, <1>3 DEF HeaderSize
<1>9. /\ k + 1 \in 1..Len(ps)
      /\ \A j \in 1..HeaderSize : x[j] = Header(Len(ps[k + 1]))[j]
  BY <1>5b, <1>7, <1>8, FollowsHeader
<1>10. ps[k + 1] \in Packets
  BY <1>5, <1>9, ElementOfSeq
<1>11. Len(ps[k + 1]) \in Nat /\ Fits(Len(ps[k + 1])) /\ ps[k + 1] \in Seq(Byte)
  BY <1>10, BytesUnderWay
<1>12. n = Len(ps[k + 1])
  <2> DEFINE h == SubSeq(buf, pos + 1, pos + HeaderSize)  g == Header(Len(ps[k + 1]))
  <2>1. g \in Seq(Byte) /\ Len(g) = 4
    BY <1>11, HeaderBytes DEF HeaderSize
  <2>2. h \in Seq(Byte) /\ Len(h) = 4
    <3>1. pos + 1 \in Nat \ {0} /\ pos + HeaderSize \in 0..Len(buf)
      BY <1>1 DEF l, HeaderSize
    <3> DEFINE a == pos + 1  b == pos + HeaderSize
    <3>2. a \in Nat \ {0} /\ b \in 0..Len(buf) /\ h = SubSeq(buf, a, b)
          /\ a =< b /\ b - a + 1 = 4
      BY <1>1, <3>1 DEF HeaderSize
    <3> HIDE DEF a, b, h
    <3>3. SubSeq(buf, a, b) \in Seq(Byte) /\ Len(SubSeq(buf, a, b)) = IF a =< b THEN b - a + 1 ELSE 0
      BY <1>1, <3>2, Part
    <3>. QED BY <3>2, <3>3
  <2>3. \A i \in 1..4 : h[i] = buf[pos + i]
    BY <1>p, <1>1, FirstFour
  <2>4. \A i \in 1..4 : x[i] = buf[pos + i] /\ x[i] = g[i]
    <3> HIDE DEF g
    <3>1. \A i \in 1..4 : i \in 1..l - pos
      BY <1>1 DEF HeaderSize
    <3>2. \A i \in 1..4 : x[i] = g[i]
      BY <1>9 DEF HeaderSize, g
    <3>. QED BY <1>3, <3>1, <3>2
  <2> HIDE DEF g, h
  <2>5. h = g
    BY <2>1, <2>2, <2>3, <2>4, SeqEqual
  <2>. QED BY <1>p, <1>1, <1>11, <2>5, LengthRoundTrip DEF g, h, n
<1>13. Behind(x, z, n)
  <2>1. Len(x) = HeaderSize + n + Len(z)
    BY <1>1, <1>3, <1>4 DEF HeaderSize
  <2>2. \A j \in 1..Len(z) :
          /\ HeaderSize + n + j \in 1..l - pos
          /\ pos + (HeaderSize + n + j) = pos + HeaderSize + n + j
    BY <1>1, <1>4 DEF HeaderSize
  <2>. QED BY <1>3, <1>4, <2>1, <2>2 DEF Behind
<1>14. /\ \A j \in 1..n : x[HeaderSize + j] = ps[k + 1][j]
       /\ Follows(ps, k + 1, z \o y, w)
  <2>1. k \in Nat /\ z \in Seq(Byte) /\ k + 1 \in 1..Len(ps) /\ Behind(x, z, Len(ps[k + 1]))
    BY <1>4, <1>5, <1>9, <1>12, <1>13
  <2>2. /\ \A j \in 1..Len(ps[k + 1]) : x[HeaderSize + j] = ps[k + 1][j]
        /\ Follows(ps, k + 1, z \o y, w)
    BY <1>5b, <1>7, <2>1, FollowsDeliver
  <2>. QED BY <1>12, <2>2
<1>15. Payload = ps[k + 1]
  <2> DEFINE m == pos + HeaderSize  e == m + n
  <2>1. m \in Nat /\ e \in Nat /\ m =< e /\ e =< l
    BY <1>1 DEF HeaderSize
  <2>2. Payload = SubSeq(buf, m + 1, e)
    BY DEF Payload, n
  <2>3. \A j \in 1..n : HeaderSize + j \in 1..l - pos /\ pos + (HeaderSize + j) = m + j
    BY <1>1 DEF HeaderSize
  <2>4. e = m + n
    OBVIOUS
  <2> HIDE DEF m, e
  <2>5. m + 1 \in Int /\ e \in Int /\ \A i \in m + 1..e : buf[i] \in Byte
    BY <1>1, <1>2, <2>1
  <2>6. /\ SubSeq(buf, m + 1, e) \in Seq(Byte)
        /\ Len(SubSeq(buf, m + 1, e)) = IF m + 1 =< e THEN e - (m + 1) + 1 ELSE 0
        /\ \A i \in 1..e - (m + 1) + 1 : SubSeq(buf, m + 1, e)[i] = buf[m + 1 + i - 1]
    BY <2>5, SubSeqProperties
  <2>7. e - (m + 1) + 1 = n /\ \A j \in 1..n : m + 1 + j - 1 = m + j
    BY <1>1, <2>1, <2>4
  <2>8. Len(Payload) = n
    BY <1>1, <2>1, <2>2, <2>4, <2>6
  <2>9. \A j \in 1..n : Payload[j] = buf[m + j]
    BY <2>2, <2>6, <2>7
  <2>10. \A j \in 1..n : ps[k + 1][j] = buf[m + j]
    BY <1>3, <1>14, <2>3
  <2>11. \A j \in 1..Len(Payload) : Payload[j] = ps[k + 1][j]
    BY <2>8, <2>9, <2>10
  <2>12. Payload \in Seq(Byte) /\ Len(Payload) = Len(ps[k + 1])
    BY Zenon, <1>12, <2>2, <2>6, <2>8
  <2>. QED BY Zenon, <1>11, <2>11, <2>12, SeqEqual
<1>. QED BY <1>5, <1>9, <1>12, <1>14, <1>15 DEF c, ps, k, w, y, z, n

LEMMA FramedDeliver ==
  ASSUME \A p \in Packets : Fits(Len(p)), TypeInv, Framed, DeliverPacket
  PROVE  Framed'
<1> HIDE DEF Byte, Conns
<1>1. /\ delivered' = [delivered EXCEPT ![serving] = Append(@, Payload)]
      /\ pos' = pos + HeaderSize + PacketLen
      /\ UNCHANGED <<cur, out, sent, wire, link, serving, buf>>
  BY DEF DeliverPacket, Payload
<1>2. serving \in Conns /\ delivered \in [Conns -> Seq(Seq(Byte))]
  BY DEF DeliverPacket, TypeInv, TypeOK
<1> DEFINE k == Len(delivered[serving]) + 1
           z == SubSeq(buf, pos + HeaderSize + PacketLen + 1, Len(buf))
<1>3. /\ k \in 1..Len(sent[serving]) /\ Len(delivered[serving]) \in Nat
      /\ Payload = sent[serving][k]
      /\ Follows(sent[serving], k, z \o (wire[serving] \o unsent[serving]),
                 serving = cur /\ link[serving] = "open")
  BY NextPacket
<1>4. Payload \in Seq(Byte)
  BY <1>2, <1>3, BytesUnderWay
<1>5. Len(delivered'[serving]) = k
  <2>1. delivered[serving] \in Seq(Seq(Byte))
    BY <1>2
  <2>2. Len(Append(delivered[serving], Payload)) = k
    BY <1>4, <2>1, AppendProperties
  <2>. QED BY <1>1, <1>2, <2>2
<1>6. ASSUME NEW c \in Conns
      PROVE  Follows(sent'[c], Len(delivered'[c]), pending'[c], c = cur' /\ link'[c] = "open")
  <2>1. CASE c = serving
    <3>1. unread'[c] = z /\ wire'[c] = wire[c] /\ unsent'[c] = unsent[c]
      BY Zenon, <1>1, <2>1 DEF unread, unsent
    <3>2. pending'[c] = z \o (wire[c] \o unsent[c])
      BY <3>1 DEF pending
    <3> HIDE DEF k, z
    <3>. QED BY Zenon, <1>1, <1>3, <1>5, <2>1, <3>2
  <2>2. CASE c # serving
    <3>1. unread'[c] = unread[c] /\ unsent'[c] = unsent[c] /\ delivered'[c] = delivered[c]
      BY Zenon, <1>1, <1>2, <2>2 DEF unread, unsent
    <3>2. pending'[c] = pending[c]
      BY <1>1, <3>1 DEF pending
    <3>. QED BY Zenon, <1>1, <3>1, <3>2 DEF Framed
  <2>. QED BY <2>1, <2>2
<1>. QED BY <1>6 DEF Framed

LEMMA FramedInductive ==
  ASSUME \A p \in Packets : Fits(Len(p))
  PROVE  /\ Init => Framed
         /\ TypeInv /\ Shape /\ Framed /\ [Next]_vars => Framed'
<1>1. ASSUME Init PROVE Framed
  <2>1. ASSUME NEW c \in Conns
        PROVE  Follows(sent[c], Len(delivered[c]), pending[c], c = cur /\ link[c] = "open")
    <3>1. /\ sent[c] = <<>> /\ delivered[c] = <<>> /\ wire[c] = <<>>
          /\ serving = 0 /\ out = <<>> /\ Len(<<>>) = 0 /\ c # 0
      BY <1>1, NetAssumption DEF Init, Conns, NetAssumption
    <3>2. unread[c] = <<>> /\ unsent[c] = <<>>
      BY <3>1 DEF unread, unsent
    <3>3. pending[c] = <<>>
      BY <3>1, <3>2 DEF pending
    <3>4. (c = cur /\ link[c] = "open") \in BOOLEAN
      OBVIOUS
    <3>. QED BY Zenon, <3>1, <3>3, <3>4, FollowsNothing
  <2>. QED BY <2>1 DEF Framed
<1>2. ASSUME TypeInv, Shape, Framed, [Next]_vars PROVE Framed'
  <2>0. TypeInv'
    BY <1>2, TypeInductive
  <2>1. CASE Connect
    BY <1>2, <2>0, <2>1, FramedConnect
  <2>2. CASE \E p \in Packets : SendPacket(p)
    BY <1>2, <2>2, FramedSendPacket
  <2>3. CASE \E n \in 1..Len(out) : SendSome(n)
    BY <1>2, <2>0, <2>3, FramedSendSome
  <2>4. CASE CloseClient
    BY <1>2, <2>0, <2>4, FramedClose
  <2>5. CASE Reset
    BY <1>2, <2>0, <2>5, FramedReset
  <2>6. CASE StopJoin
    BY <1>2, <2>0, <2>6, FramedStopJoin
  <2>7. CASE \E c \in Conns : Accept(c)
    BY <1>2, <2>0, <2>7, FramedAccept
  <2>8. CASE \E n \in 1..Chunk : Recv(n)
    BY <1>2, <2>0, <2>8, FramedRecv
  <2>9. CASE DeliverPacket
    BY <1>2, <2>9, FramedDeliver
  <2>10. CASE Trim
    BY <1>2, <2>0, <2>10, FramedTrim
  <2>11. CASE CloseServed
    BY <1>2, <2>0, <2>11, FramedCloseServed
  <2>12. CASE \/ Start \/ StopFlag \/ StopWake \/ ExitRun \/ LeaveClient
              \/ ProtocolError \/ CheckOverrun \/ UNCHANGED vars
    <3>1. UNCHANGED <<cur, out, sent, wire, link, serving, buf, pos, delivered>>
      BY <2>12 DEF Start, StopFlag, StopWake, ExitRun, LeaveClient, ProtocolError,
                   CheckOverrun, vars
    <3>2. pending' = pending
      BY <3>1 DEF pending, unread, unsent
    <3>. QED BY <1>2, <2>0, <3>1, <3>2, FramedMoves
  <2>. QED BY <1>2, <2>1, <2>2, <2>3, <2>4, <2>5, <2>6, <2>7, <2>8, <2>9, <2>10,
              <2>11, <2>12 DEF Next, Sender, Server
<1>. QED BY <1>1, <1>2

\* The server and the sender's framing implement the channel of packets, for
\* every set of payloads below 4 GB, every limit, every number of connections
\* and every way TCP cuts and loses bytes: what reaches OnPacket is, packet by
\* packet, what was sent, and nothing oversized or behind it.
THEOREM ImplementsChannel ==
  ASSUME \A p \in Packets : Fits(Len(p))
  PROVE  Spec => ChannelPromise
<1>1. Init => Channel!Init
  BY DEF Init, Channel!Init
<1>2. TypeInv /\ Framed /\ [Next]_vars => [Channel!Next]_(Channel!chan)
  <2> SUFFICES ASSUME TypeInv, Framed, [Next]_vars
               PROVE  Channel!Next \/ UNCHANGED <<sent, delivered>>
    BY DEF Channel!chan
  <2>1. ASSUME NEW p \in Packets, SendPacket(p) PROVE Channel!Next
    <3>1. cur \in Conns
      BY <2>1, NetAssumption DEF SendPacket, TypeInv, TypeOK, Conns, NetAssumption
    <3>2. Channel!Send(cur, p)
      BY <2>1 DEF SendPacket, Channel!Send
    <3>. QED BY <3>1, <3>2 DEF Channel!Next
  <2>2. CASE DeliverPacket
    <3> DEFINE k == Len(delivered[serving]) + 1
    <3>1. serving \in Conns /\ sent \in [Conns -> Seq(Packets)]
      BY <2>2 DEF DeliverPacket, TypeInv, TypeOK
    <3>2. /\ k \in 1..Len(sent[serving]) /\ Len(sent[serving][k]) = PacketLen
          /\ Payload = sent[serving][k]
      BY <2>2, NextPacket
    <3>3. k \in DOMAIN sent[serving]
      BY <3>1, <3>2, LenProperties
    <3>4. Len(sent[serving][k]) =< MaxPacket
      <4>1. PacketLen \in Nat
        BY <2>2, LengthIsNat DEF TypeInv, DeliverPacket
      <4>2. ~(PacketLen > MaxPacket) /\ MaxPacket \in Nat
        BY <2>2, NetAssumption DEF DeliverPacket, TooLong, NetAssumption
      <4> HIDE DEF k
      <4>3. PacketLen =< MaxPacket
        BY <4>1, <4>2
      <4>. QED BY <3>2, <4>3
    <3>5. /\ delivered' = [delivered EXCEPT ![serving] = Append(@, sent[serving][k])]
          /\ UNCHANGED sent
      BY <2>2, <3>2 DEF DeliverPacket, Payload
    <3>6. Channel!Deliver(serving)
      BY <3>3, <3>4, <3>5 DEF Channel!Deliver
    <3>. QED BY <3>1, <3>6 DEF Channel!Next
  <2>3. ASSUME ~(\E p \in Packets : SendPacket(p)), ~DeliverPacket
        PROVE  UNCHANGED <<sent, delivered>>
    BY <2>3 DEF Next, Sender, Server, Connect, SendSome, CloseClient, Reset, Start, StopFlag,
                StopWake, StopJoin, Accept, ExitRun, LeaveClient, Recv, ProtocolError, Trim,
                CheckOverrun, CloseServed, vars
  <2>. QED BY <2>1, <2>2, <2>3
<1>3. /\ Init => TypeInv
      /\ TypeInv /\ [Next]_vars => TypeInv'
  BY TypeInductive
<1>4. /\ Init => Shape
      /\ TypeInv /\ Shape /\ [Next]_vars => Shape'
  BY ShapeInductive
<1>5. /\ Init => Framed
      /\ TypeInv /\ Shape /\ Framed /\ [Next]_vars => Framed'
  BY FramedInductive
<1>. QED BY <1>1, <1>2, <1>3, <1>4, <1>5, PTL DEF Spec, ChannelPromise, Channel!Spec
=============================================================================
