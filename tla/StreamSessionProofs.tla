------------------------ MODULE StreamSessionProofs ------------------------
(* Proofs about StreamSession and StreamSetup.  For every order of the     *)
(* steps of a session's threads the feed target is alive and every stream  *)
(* starts fresh; for every desktop, list of encoders and access unit the   *)
(* virtual display is shown, every encoder is tried and every key frame is *)
(* complete.                                                               *)
EXTENDS StreamSession, StreamSetup, SequenceTheorems, WellFoundedInduction, TLAPS

\* The encoder exists from Create to DestroyEnd and has a thread just then;
\* the target is set in between, and what the capture thread has read under
\* g_feedMtx is still the target, as ClearFeedTarget waits for the mutex.
Lifetime ==
  /\ alive <=> encT # "none"
  /\ alive => main \in {"target", "stream", "untarget", "destroy", "join"}
  /\ main \in {"target", "stream", "untarget", "destroy", "join"} => alive
  /\ target => main \in {"stream", "untarget"}
  /\ aim => target /\ cap = "feed"

LEMMA FlagsInductive ==
  /\ Init => FlagsOK
  /\ FlagsOK /\ [Next]_vars => FlagsOK'
<1>1. Init => FlagsOK
  BY DEF Init, FlagsOK
<1>2. ASSUME FlagsOK, [Next]_vars PROVE FlagsOK'
  <2> USE <1>2 DEF FlagsOK, Goto, flags, encoder, capture, net
  <2>1. CASE LoopCheck \/ DurationOver \/ Connect \/ ConnectFail \/ SendHello \/ HelloFail
    BY <2>1 DEF LoopCheck, DurationOver, Connect, ConnectFail, SendHello, HelloFail
  <2>2. CASE Create \/ CreateFail
    BY <2>2 DEF Create, CreateFail
  <2>3. CASE SetFeedTarget \/ StreamOver \/ SessionExpires \/ ClearFeedTarget
    <3>1. CASE SetFeedTarget
      BY <3>1 DEF SetFeedTarget
    <3>2. CASE StreamOver
      BY <3>2 DEF StreamOver
    <3>3. CASE SessionExpires
      BY <3>3 DEF SessionExpires
    <3>4. CASE ClearFeedTarget
      BY <3>4 DEF ClearFeedTarget
    <3>. QED BY <2>3, <3>1, <3>2, <3>3, <3>4
  <2>4. CASE DestroyBegin \/ DestroyEnd \/ CloseTcp
    <3>1. CASE DestroyBegin
      BY <3>1 DEF DestroyBegin
    <3>2. CASE DestroyEnd
      BY <3>2 DEF DestroyEnd
    <3>3. CASE CloseTcp
      BY <3>3 DEF CloseTcp
    <3>. QED BY <2>4, <3>1, <3>2, <3>3
  <2>5. CASE TellCapture \/ JoinCapture \/ StopRequest
    <3>1. CASE TellCapture
      BY <3>1 DEF TellCapture
    <3>2. CASE JoinCapture
      BY <3>2 DEF JoinCapture
    <3>3. CASE StopRequest
      BY <3>3 DEF StopRequest
    <3>. QED BY <2>5, <3>1, <3>2, <3>3
  <2>6. CASE CapTick \/ CapNoFrame \/ CapLock \/ CapFeed \/ CapExit \/ CapDies \/ ModeChanges
    <3>1. CASE CapTick
      BY <3>1 DEF CapTick
    <3>2. CASE CapNoFrame \/ CapLock
      BY <3>2 DEF CapNoFrame, CapLock
    <3>3. CASE CapFeed
      BY <3>3 DEF CapFeed
    <3>4. CASE CapExit
      BY <3>4 DEF CapExit
    <3>5. CASE CapDies
      BY <3>5 DEF CapDies
    <3>6. CASE ModeChanges
      BY <3>6 DEF ModeChanges
    <3>. QED BY <2>6, <3>1, <3>2, <3>3, <3>4, <3>5, <3>6
  <2>7. CASE EncTake \/ EncSend \/ EncSendFail \/ EncError \/ EncExit
    <3>1. CASE EncTake
      BY <3>1 DEF EncTake
    <3>2. CASE EncSend
      BY <3>2 DEF EncSend
    <3>3. CASE EncSendFail
      BY <3>3 DEF EncSendFail
    <3>4. CASE EncError
      BY <3>4 DEF EncError
    <3>5. CASE EncExit
      BY <3>5 DEF EncExit
    <3>. QED BY <2>7, <3>1, <3>2, <3>3, <3>4, <3>5
  <2>8. CASE Peer
    BY <2>8 DEF Peer, PeerLost, PeerChanges
  <2>9. CASE UNCHANGED vars
    BY <2>9 DEF vars
  <2>. QED BY <2>1, <2>2, <2>3, <2>4, <2>5, <2>6, <2>7, <2>8, <2>9
           DEF Next, MainThread, CapThread, EncThread
<1>. QED BY <1>1, <1>2

LEMMA TypeInductive ==
  /\ Init => TypeOK
  /\ TypeOK /\ [Next]_vars => TypeOK'
<1>1. Init => TypeOK
  <2>1. <<>> \in Seq(0..3) /\ Len(<<>>) = 0
    OBVIOUS
  <2>. QED BY <2>1, FlagsInductive DEF Init, TypeOK
<1>2. ASSUME TypeOK, [Next]_vars PROVE TypeOK'
  <2>0. FlagsOK'
    BY <1>2, FlagsInductive DEF TypeOK
  <2> USE <1>2, <2>0 DEF TypeOK, Goto, flags, encoder, capture, net
  <2>1. CASE LoopCheck \/ DurationOver \/ ConnectFail \/ HelloFail
    BY <2>1 DEF LoopCheck, DurationOver, ConnectFail, HelloFail
  <2>2. CASE Connect \/ SendHello
    <3>1. /\ <<>> \in Seq(0..3) /\ Len(<<>>) =< 3
          /\ <<0>> \in Seq(0..3) /\ Len(<<0>>) =< 3
      OBVIOUS
    <3>2. sentOn' = <<>> \/ sentOn' = <<0>>
      BY <2>2 DEF Connect, SendHello
    <3>3. main' \in {"hello", "create"} /\ tcp' \in {"open", tcp}
      BY <2>2 DEF Connect, SendHello
    <3>4. UNCHANGED <<peer, encT, unit, cap>>
      BY <2>2 DEF Connect, SendHello
    <3>. QED BY <3>1, <3>2, <3>3, <3>4
  <2>3. CASE Create \/ CreateFail
    BY <2>3 DEF Create, CreateFail
  <2>4. CASE SetFeedTarget \/ StreamOver \/ SessionExpires \/ ClearFeedTarget
    BY <2>4 DEF SetFeedTarget, StreamOver, SessionExpires, ClearFeedTarget
  <2>5. CASE DestroyBegin \/ DestroyEnd \/ CloseTcp
    BY <2>5 DEF DestroyBegin, DestroyEnd, CloseTcp
  <2>6. CASE TellCapture \/ JoinCapture \/ StopRequest
    BY <2>6 DEF TellCapture, JoinCapture, StopRequest
  <2>7. CASE CapTick \/ CapNoFrame \/ CapLock \/ CapFeed \/ CapExit \/ CapDies \/ ModeChanges
    BY <2>7 DEF CapTick, CapNoFrame, CapLock, CapFeed, CapExit, CapDies, ModeChanges
  <2>8. CASE EncTake \/ EncSendFail \/ EncError \/ EncExit
    BY <2>8 DEF EncTake, EncSendFail, EncError, EncExit
  <2>9. CASE EncSend
    <3>1. CASE Len(sentOn) < 3
      <4>1. /\ Append(sentOn, unit) \in Seq(0..3)
            /\ Len(Append(sentOn, unit)) = Len(sentOn) + 1
        BY sentOn \in Seq(0..3), unit \in 0..3
      <4>2. Len(sentOn) \in Nat
        BY sentOn \in Seq(0..3)
      <4>. QED BY <2>9, <3>1, <4>1, <4>2 DEF EncSend
    <3>2. CASE ~(Len(sentOn) < 3)
      BY <2>9, <3>2 DEF EncSend
    <3>. QED BY <3>1, <3>2
  <2>10. CASE Peer
    BY <2>10 DEF Peer, PeerLost, PeerChanges
  <2>11. CASE UNCHANGED vars
    BY <2>11 DEF vars
  <2>. QED BY <2>1, <2>2, <2>3, <2>4, <2>5, <2>6, <2>7, <2>8, <2>9, <2>10, <2>11
           DEF Next, MainThread, CapThread, EncThread
<1>. QED BY <1>1, <1>2

LEMMA LifetimeInductive ==
  /\ Init => Lifetime
  /\ TypeOK /\ Lifetime /\ [Next]_vars => Lifetime'
<1>1. Init => Lifetime
  BY DEF Init, Lifetime
<1>2. ASSUME TypeOK, Lifetime, [Next]_vars PROVE Lifetime'
  <2> USE <1>2 DEF TypeOK, FlagsOK, Lifetime, Goto, flags, encoder, capture, net
  <2>1. CASE LoopCheck \/ DurationOver \/ Connect \/ ConnectFail \/ SendHello \/ HelloFail
    BY <2>1 DEF LoopCheck, DurationOver, Connect, ConnectFail, SendHello, HelloFail
  <2>2. CASE Create \/ CreateFail
    BY <2>2 DEF Create, CreateFail
  <2>3. CASE SetFeedTarget \/ StreamOver \/ SessionExpires
    BY <2>3 DEF SetFeedTarget, StreamOver, SessionExpires
  <2>4. CASE ClearFeedTarget
    <3>1. ~aim
      BY <2>4 DEF ClearFeedTarget
    <3>. QED BY <2>4, <3>1 DEF ClearFeedTarget
  <2>5. CASE DestroyBegin \/ DestroyEnd \/ CloseTcp
    BY <2>5 DEF DestroyBegin, DestroyEnd, CloseTcp
  <2>6. CASE TellCapture \/ JoinCapture \/ StopRequest
    BY <2>6 DEF TellCapture, JoinCapture, StopRequest
  <2>7. CASE CapTick \/ CapNoFrame \/ CapLock \/ CapFeed \/ CapExit \/ CapDies \/ ModeChanges
    BY <2>7 DEF CapTick, CapNoFrame, CapLock, CapFeed, CapExit, CapDies, ModeChanges
  <2>8. CASE EncTake \/ EncSend \/ EncSendFail \/ EncError \/ EncExit
    BY <2>8 DEF EncTake, EncSend, EncSendFail, EncError, EncExit
  <2>9. CASE Peer
    BY <2>9 DEF Peer, PeerLost, PeerChanges
  <2>10. CASE UNCHANGED vars
    BY <2>10 DEF vars
  <2>. QED BY <2>1, <2>2, <2>3, <2>4, <2>5, <2>6, <2>7, <2>8, <2>9, <2>10
           DEF Next, MainThread, CapThread, EncThread
<1>. QED BY <1>1, <1>2

\* In every reachable state each variable has its type, and the encoder
\* object exists exactly as long as it has a thread.
THEOREM TypeCorrect == Spec => []TypeOK
<1>1. Init => TypeOK /\ Lifetime
  BY TypeInductive, LifetimeInductive
<1>2. TypeOK /\ Lifetime /\ [Next]_vars => (TypeOK /\ Lifetime)'
  BY TypeInductive, LifetimeInductive
<1>. QED BY <1>1, <1>2, PTL DEF Spec

\* The capture thread never follows a pointer to an encoder that has been
\* destroyed: SetFeedTarget and FeedGlobal exclude each other by g_feedMtx.
THEOREM FeedTargetAliveAlways == Spec => []FeedTargetAlive
<1>1. Init => TypeOK /\ Lifetime
  BY TypeInductive, LifetimeInductive
<1>2. TypeOK /\ Lifetime /\ [Next]_vars => (TypeOK /\ Lifetime)'
  BY TypeInductive, LifetimeInductive
<1>3. Lifetime => FeedTargetAlive
  BY DEF Lifetime, FeedTargetAlive
<1>. QED BY <1>1, <1>2, <1>3, PTL DEF Spec

-----------------------------------------------------------------------------
\* Where the sent packets stand relative to the encoder's last unit: the
\* hello is sent before Create, and on a connection that is still open the
\* idle encoder has sent its last unit, the sending one all before it.
Position ==
  /\ StreamsStartFresh
  /\ main = "hello" => sentOn = <<>>
  /\ main = "create" => sentOn = <<0>>
  /\ encT = "idle" /\ tcp = "open" => Len(sentOn) = IF unit < 3 THEN unit + 1 ELSE 3
  /\ encT = "sending" /\ tcp = "open" => Len(sentOn) = unit

LEMMA PositionInductive ==
  /\ Init => Position
  /\ TypeOK /\ Lifetime /\ Position /\ [Next]_vars => Position'
<1>1. Init => Position
  BY DEF Init, Position, StreamsStartFresh
<1>2. ASSUME TypeOK, Lifetime, Position, [Next]_vars PROVE Position'
  <2> USE <1>2 DEF TypeOK, Lifetime, Position, StreamsStartFresh, Goto,
                   flags, encoder, capture, net
  <2>1. CASE LoopCheck \/ DurationOver \/ ConnectFail \/ HelloFail
    BY <2>1 DEF LoopCheck, DurationOver, ConnectFail, HelloFail
  <2>2. CASE Connect
    <3>1. ~alive /\ encT = "none"
      BY <2>2 DEF Connect
    <3>. QED BY <2>2, <3>1 DEF Connect
  <2>3. CASE SendHello
    <3>1. ~alive /\ encT = "none"
      BY <2>3 DEF SendHello
    <3>. QED BY <2>3, <3>1 DEF SendHello
  <2>4. CASE Create
    BY <2>4 DEF Create
  <2>5. CASE CreateFail
    BY <2>5 DEF CreateFail
  <2>6. CASE SetFeedTarget \/ StreamOver \/ SessionExpires \/ ClearFeedTarget
    BY <2>6 DEF SetFeedTarget, StreamOver, SessionExpires, ClearFeedTarget
  <2>7. CASE DestroyBegin \/ DestroyEnd \/ CloseTcp
    BY <2>7 DEF DestroyBegin, DestroyEnd, CloseTcp
  <2>8. CASE TellCapture \/ JoinCapture \/ StopRequest
    BY <2>8 DEF TellCapture, JoinCapture, StopRequest
  <2>9. CASE CapTick \/ CapNoFrame \/ CapLock \/ CapFeed \/ CapExit \/ CapDies \/ ModeChanges
    BY <2>9 DEF CapTick, CapNoFrame, CapLock, CapFeed, CapExit, CapDies, ModeChanges
  <2>10. CASE EncTake \/ EncSendFail \/ EncError \/ EncExit
    <3>1. CASE EncTake
      <4>1. /\ UNCHANGED <<main, tcp, sentOn>>
            /\ encT = "idle" /\ encT' = "sending"
            /\ unit' = IF unit < 3 THEN unit + 1 ELSE unit
        BY <3>1 DEF EncTake
      <4>2. encT' = "sending" /\ tcp' = "open" => Len(sentOn') = unit'
        BY <4>1, unit \in 0..3
      <4>. QED BY <4>1, <4>2
    <3>2. CASE EncSendFail \/ EncError \/ EncExit
      BY <3>2 DEF EncSendFail, EncError, EncExit
    <3>. QED BY <2>10, <3>1, <3>2
  <2>11. CASE EncSend
    <3>1. Len(sentOn) = unit /\ unit \in 0..3
      BY <2>11 DEF EncSend
    <3>2. CASE unit < 3
      <4>1. sentOn' = Append(sentOn, unit)
        BY <2>11, <3>1, <3>2 DEF EncSend
      <4>2. /\ Len(sentOn') = unit + 1
            /\ DOMAIN sentOn' = 1..(unit + 1)
            /\ sentOn'[unit + 1] = unit
            /\ \A i \in 1..unit : sentOn'[i] = sentOn[i]
        BY <3>1, <4>1, sentOn \in Seq(0..3)
      <4>3. DOMAIN sentOn = 1..unit
        BY <3>1, sentOn \in Seq(0..3)
      <4>4. StreamsStartFresh'
        BY <3>1, <4>2, <4>3
      <4>5. UNCHANGED <<main, unit, tcp>> /\ encT' = "idle" /\ alive
        BY <2>11 DEF EncSend
      <4>. QED BY <3>1, <3>2, <4>2, <4>4, <4>5
    <3>3. CASE unit = 3
      BY <2>11, <3>1, <3>3 DEF EncSend
    <3>. QED BY <3>1, <3>2, <3>3
  <2>12. CASE Peer
    BY <2>12 DEF Peer, PeerLost, PeerChanges
  <2>13. CASE UNCHANGED vars
    BY <2>13 DEF vars
  <2>. QED BY <2>1, <2>2, <2>3, <2>4, <2>5, <2>6, <2>7, <2>8, <2>9, <2>10, <2>11,
              <2>12, <2>13
           DEF Next, MainThread, CapThread, EncThread
<1>. QED BY <1>1, <1>2

\* Whatever breaks and is built again, what a connection carries is the
\* hello, then one encoder's units from its first one on, none missing.
THEOREM FreshAlways == Spec => []StreamsStartFresh
<1>1. Init => TypeOK /\ Lifetime /\ Position
  BY TypeInductive, LifetimeInductive, PositionInductive
<1>2. TypeOK /\ Lifetime /\ Position /\ [Next]_vars => (TypeOK /\ Lifetime /\ Position)'
  BY TypeInductive, LifetimeInductive, PositionInductive
<1>3. Position => StreamsStartFresh
  BY DEF Position
<1>. QED BY <1>1, <1>2, <1>3, PTL DEF Spec

-----------------------------------------------------------------------------
(* StreamSetup: the output, its size and the encoder.                      *)

\* A set of naturals has a least element.
LEMMA LeastNat ==
  ASSUME NEW S \in SUBSET Nat, S # {}
  PROVE  \E x \in S : \A y \in S : x =< y
<1> DEFINE Less == {ss \in Nat \X Nat : ss[1] < ss[2]}
<1>1. IsWellFoundedOn(Less, Nat)
  BY NatLessThanWellFounded, Zenon DEF OpToRel
<1>2. \E x \in S : \A y \in S : ~(<<y, x>> \in Less)
  <2> HIDE DEF Less
  <2>. QED BY <1>1, WFMin, Zenon
<1>3. PICK x \in S : \A y \in S : ~(<<y, x>> \in Less)
  BY <1>2
<1>4. ASSUME NEW y \in S PROVE x =< y
  <2>1. x \in Nat /\ y \in Nat /\ <<y, x>> \notin Less
    BY <1>3
  <2>. QED BY <2>1
<1>. QED BY <1>4, Zenon

\* Induction on the naturals, for a set.
LEMMA AllNat ==
  ASSUME NEW S \in SUBSET Nat, 0 \in S, \A n \in S : n + 1 \in S
  PROVE  S = Nat
<1> SUFFICES ASSUME Nat \ S # {} PROVE FALSE
  OBVIOUS
<1>1. PICK m \in Nat \ S : \A n \in Nat \ S : m =< n
  <2> DEFINE T == Nat \ S
  <2>1. T \in SUBSET Nat /\ T # {}
    OBVIOUS
  <2> HIDE DEF T
  <2>2. \E m \in T : \A n \in T : m =< n
    BY <2>1, LeastNat
  <2>. QED BY <2>2 DEF T
<1>2. m - 1 \in Nat /\ m - 1 \in S
  BY <1>1
<1>. QED BY <1>1, <1>2

\* Nothing is captured before Init; an index that was taken and is still right
\* is that of the virtual display.
Looked ==
  /\ stage \in {"start", "index"} => sel = NoOutput /\ desk \in Desks
  /\ stage = "index" /\ kind \in {"watch", "vdd"} /\ ~moved
       => index \in Nat /\ index + 1 \in Attached /\ desk[index + 1].name = Virtual

LEMMA Positions ==
  ASSUME NEW d \in Desks
  PROVE  \A i \in DOMAIN d : i \in Nat \ {0}
<1> DEFINE O == Outputs
<1>1. d \in Seq(O)
  BY SetupAssumption, Zenon DEF SetupAssumption
<1> HIDE DEF O
<1>. QED BY <1>1

LEMMA FirstOfOne ==
  ASSUME NEW i \in Nat PROVE First({i}) = i
BY DEF First

LEMMA LookedInductive ==
  /\ SetupInit => Looked /\ ShowsVirtual
  /\ Looked /\ ShowsVirtual /\ [SetupNext]_setupVars => (Looked /\ ShowsVirtual)'
<1>1. SetupInit => Looked /\ ShowsVirtual
  BY Zenon DEF SetupInit, Looked, ShowsVirtual
<1>2. ASSUME Looked, ShowsVirtual, [SetupNext]_setupVars PROVE (Looked /\ ShowsVirtual)'
  <2> USE <1>2
  <2>1. CASE TakeIndex
    <3>1. /\ UNCHANGED <<kind, desk, moved, source, sel>> /\ stage' = "index" /\ stage = "start"
          /\ desk \in Desks /\ sel = NoOutput
      BY <2>1 DEF TakeIndex, Looked
    <3>2. ASSUME kind # "mirror"
          PROVE  index' \in Nat /\ index' + 1 \in Attached /\ desk[index' + 1].name = Virtual
      <4>1. PICK i \in Attached : desk[i].name = Virtual /\ index' = i - 1
        BY <2>1, <3>2 DEF TakeIndex
      <4>2. i \in Nat \ {0}
        BY <3>1, Positions DEF Attached
      <4>3. index' \in Nat /\ index' + 1 = i
        BY <4>1, <4>2
      <4>. QED BY <4>1, <4>3
    <3>3. Attached' = Attached
      BY <3>1 DEF Attached
    <3>. QED BY <3>1, <3>2, <3>3 DEF Looked, ShowsVirtual
  <2>2. CASE Rearrange
    BY <2>2 DEF Rearrange, Looked, ShowsVirtual
  <2>3. CASE CaptureInit
    <3>1. /\ stage = "index" /\ stage' \in {"failed", "captured"} /\ desk \in Desks
          /\ UNCHANGED <<kind, desk, index, moved, source>>
          /\ sel' = sel \/ (Choice # {} /\ sel' = desk[First(Choice)])
          /\ sel = NoOutput
      BY <2>3 DEF CaptureInit, Looked
    <3>2. ASSUME Choice # {}, kind \in {"watch", "vdd"}, ~moved, kind = "watch" => source = {}
          PROVE  desk[First(Choice)].name = Virtual
      <4>1. SourceGiven = {}
        BY <3>2 DEF SourceGiven
      <4>2. index \in Nat /\ index + 1 \in Attached /\ desk[index + 1].name = Virtual
        BY <3>1, <3>2 DEF Looked
      <4>3. Choice = {index + 1}
        BY <4>1, <4>2 DEF Choice
      <4>4. First(Choice) = index + 1
        BY <4>2, <4>3, FirstOfOne
      <4>. QED BY <4>2, <4>4
    <3>. QED BY <3>1, <3>2 DEF Looked, ShowsVirtual
  <2>4. CASE CreateEncoder
    BY <2>4 DEF CreateEncoder, Looked, ShowsVirtual
  <2>5. CASE Try
    <3>1. UNCHANGED output /\ stage' \in {"trying", "running", "failed"}
      BY <2>5 DEF Try
    <3>. QED BY <3>1 DEF Looked, ShowsVirtual, output, choosing, Attached
  <2>6. CASE Process
    BY <2>6 DEF Process, Looked, ShowsVirtual, output, choosing, Attached
  <2>7. CASE UNCHANGED setupVars
    BY <2>7 DEF setupVars, Looked, ShowsVirtual, output, choosing, Attached
  <2>. QED BY <2>1, <2>2, <2>3, <2>4, <2>5, <2>6, <2>7 DEF SetupNext
<1>. QED BY <1>1, <1>2

\* The size streamed is even unless it is that of the output itself.
SizeFits == stage \in {"captured", "trying", "running"} \/ listed # <<>> =>
  EvenSize \/ size \in {<<sel.w, sel.h>>, <<sel.h, sel.w>>}

\* Every encoder listed is among those to try, and those before the candidate
\* have been tried on memory too.
Tried ==
  /\ stage \in {"start", "index", "captured", "running"} => listed = <<>>
  /\ stage = "trying" => listed # <<>>
  /\ listed # <<>> =>
       /\ \A i \in DOMAIN listed : \E k \in 1 .. Len(tries) : tries[k] = listed[i]
       /\ Len(tries) \in Nat
       /\ at[1] \in 1 .. Len(tries) /\ at = <<at[1], at[2]>> /\ at[2] \in {"texture", "memory"}
       /\ \A k \in 1 .. at[1] - 1 : ~Works(tries[k], "memory")
       /\ stage = "failed" => at[1] = Len(tries) /\ ~Works(tries[at[1]], "memory")

LEMMA Evens ==
  ASSUME NEW n \in Nat
  PROVE  Even(n) \in Nat /\ Even(n) % 2 = 0
BY DEF Even

LEMMA FitIsEven ==
  ASSUME NEW n \in Nat, NEW limit \in Nat
  PROVE  Fit(n, limit) \in Nat /\ Fit(n, limit) % 2 = 0
BY Evens DEF Fit

LEMMA SizeOfIsEven ==
  ASSUME NEW w \in Nat, NEW h \in Nat, NEW want \in Nat \X Nat, NEW scale
  PROVE  LET s == SizeOf(w, h, want, scale)
         IN  (s[1] % 2 = 0 /\ s[2] % 2 = 0) \/ s = <<w, h>>
<1>1. CASE Fits(want, w, h)
  <2>1. want[1] \in Nat /\ want[2] \in Nat
    OBVIOUS
  <2>. QED BY <1>1, <2>1, FitIsEven DEF SizeOf
<1>2. CASE ~Fits(want, w, h) /\ scale \in {2, 4} /\ Divides(scale, w, h)
  BY <1>2 DEF SizeOf, Divides
<1>3. CASE ~Fits(want, w, h) /\ ~(scale \in {2, 4} /\ Divides(scale, w, h))
  BY <1>3 DEF SizeOf
<1>. QED BY <1>1, <1>2, <1>3

LEMMA OutputOfDesk ==
  ASSUME NEW d \in Desks, NEW i \in DOMAIN d
  PROVE  d[i].w \in Nat /\ d[i].h \in Nat
<1> DEFINE O == Outputs
<1>1. d \in Seq(O)
  BY SetupAssumption, Zenon DEF SetupAssumption
<1>2. d[i] \in O
  <2> HIDE DEF O
  <2>. QED BY <1>1
<1>. QED BY <1>2 DEF Outputs

LEMMA FirstIsOne ==
  ASSUME NEW S \in SUBSET Nat, S # {}
  PROVE  First(S) \in S
<1>1. \E i \in S : \A j \in S : i =< j
  BY LeastNat
<1>. QED BY <1>1 DEF First

LEMMA SizeInductive ==
  /\ SetupInit => SizeFits
  /\ SizeFits /\ Tried /\ (stage = "index" => desk \in Desks) /\ [SetupNext]_setupVars => SizeFits'
<1>1. SetupInit => SizeFits
  BY DEF SetupInit, SizeFits
<1>2. ASSUME SizeFits, Tried, stage = "index" => desk \in Desks, [SetupNext]_setupVars
      PROVE  SizeFits'
  <2> USE <1>2
  <2>1. CASE TakeIndex \/ Rearrange
    <3>1. stage' = "index" /\ listed' = <<>>
      BY <2>1 DEF TakeIndex, Rearrange, Tried, creating
    <3>. QED BY <3>1 DEF SizeFits
  <2>2. CASE CaptureInit
    <3>1. listed' = <<>> /\ stage = "index" /\ desk \in Desks
      BY <2>2 DEF CaptureInit, Tried, creating
    <3>2. ASSUME stage' = "captured"
          PROVE  \/ size'[1] % 2 = 0 /\ size'[2] % 2 = 0
                 \/ size' \in {<<sel'.w, sel'.h>>, <<sel'.h, sel'.w>>}
      <4>1. /\ sel' = desk[First(Choice)]
            /\ \E want \in SizeArgs, scale \in Scales :
                 size' = IF sel'.turned THEN SizeOf(sel'.h, sel'.w, want, scale)
                         ELSE SizeOf(sel'.w, sel'.h, want, scale)
            /\ Choice # {}
        BY <2>2, <3>2 DEF CaptureInit
      <4>2. PICK want \in SizeArgs, scale \in Scales :
                 size' = IF sel'.turned THEN SizeOf(sel'.h, sel'.w, want, scale)
                         ELSE SizeOf(sel'.w, sel'.h, want, scale)
        BY <4>1
      <4>3. want \in Nat \X Nat
        BY SetupAssumption DEF SetupAssumption
      <4>4. sel'.w \in Nat /\ sel'.h \in Nat
        <5>1. Choice \in SUBSET DOMAIN desk
          BY DEF Choice, Attached
        <5>2. Choice \in SUBSET Nat
          BY <3>1, <5>1, Positions
        <5>3. First(Choice) \in DOMAIN desk
          BY <4>1, <5>1, <5>2, FirstIsOne
        <5>. QED BY <3>1, <4>1, <5>3, OutputOfDesk
      <4>. QED BY <4>2, <4>3, <4>4, SizeOfIsEven
    <3>3. stage' \in {"failed", "captured"}
      BY <2>2 DEF CaptureInit
    <3>. QED BY <3>1, <3>2, <3>3 DEF SizeFits, EvenSize
  <2>3. CASE CreateEncoder
    BY <2>3 DEF CreateEncoder, SizeFits, EvenSize
  <2>4. CASE Try
    <3>1. UNCHANGED <<sel, size>> /\ stage = "trying"
      BY <2>4 DEF Try, output
    <3>. QED BY <3>1 DEF SizeFits, EvenSize
  <2>5. CASE Process \/ UNCHANGED setupVars
    <3>1. UNCHANGED <<sel, size, stage, listed>>
      BY <2>5 DEF Process, setupVars, output, creating
    <3>. QED BY <3>1 DEF SizeFits, EvenSize
  <2>. QED BY <2>1, <2>2, <2>3, <2>4, <2>5 DEF SetupNext
<1>. QED BY <1>1, <1>2

LEMMA NoneWorks ==
  ASSUME NEW c PROVE Works(c, "memory") <=> EvenSize /\ "memory" \in c.takes
BY DEF Works, TypesTaken, PoolFails, Device

LEMMA TriedInductive ==
  /\ SetupInit => Tried
  /\ Tried /\ [SetupNext]_setupVars => Tried'
<1>1. SetupInit => Tried
  BY DEF SetupInit, Tried
<1>2. ASSUME Tried, [SetupNext]_setupVars PROVE Tried'
  <2> USE <1>2
  <2>1. CASE TakeIndex \/ Rearrange \/ CaptureInit
    <3>1. listed' = <<>> /\ stage' \in {"index", "captured", "failed"}
      BY <2>1 DEF TakeIndex, Rearrange, CaptureInit, Tried, creating
    <3>. QED BY <3>1 DEF Tried
  <2>2. CASE CreateEncoder
    <3>1. PICK cs \in UNION {[1 .. n -> Encoders] : n \in 1 .. MaxEncoders}, sysmem \in BOOLEAN :
            /\ listed' = cs
            /\ \E p \in Orders(cs) : tries' = [k \in DOMAIN p |-> cs[p[k]]]
            /\ at' = FirstPath(tries', 1, sysmem)
      BY <2>2 DEF CreateEncoder
    <3>2. PICK n \in 1 .. MaxEncoders : cs \in [1 .. n -> Encoders]
      OBVIOUS
    <3>3. n \in Nat \ {0} /\ DOMAIN cs = 1 .. n
      <4>1. MaxEncoders \in Nat
        BY SetupAssumption DEF SetupAssumption
      <4>. QED BY <3>2, <4>1
    <3>4. PICK p \in Orders(cs) : tries' = [k \in DOMAIN p |-> cs[p[k]]]
      BY <3>1
    <3>5. p \in [1 .. n -> 1 .. n] /\ \A i \in 1 .. n : \E k \in 1 .. n : p[k] = i
      BY <3>3, <3>4 DEF Orders, Surjection
    <3>6. DOMAIN tries' = 1 .. n /\ \A k \in 1 .. n : tries'[k] = cs[p[k]]
      BY <3>4, <3>5
    <3>7. Len(tries') = n
      <4>1. tries' = [k \in 1 .. n |-> cs[p[k]]]
        BY <3>4, <3>5
      <4>. QED BY <3>3, <4>1
    <3>8. \A i \in DOMAIN listed' : \E k \in 1 .. n : tries'[k] = listed'[i]
      <4>1. listed' = cs
        BY <3>1
      <4>2. ASSUME NEW i \in 1 .. n PROVE \E k \in 1 .. n : tries'[k] = cs[i]
        <5>1. PICK k \in 1 .. n : p[k] = i
          BY <3>5
        <5>. QED BY <3>6, <5>1
      <4>. QED BY <3>3, <4>1, <4>2
    <3>9. at'[1] = 1 /\ at' = <<at'[1], at'[2]>> /\ at'[2] \in {"texture", "memory"}
      BY <3>1 DEF FirstPath
    <3>10. listed' # <<>>
      BY <3>1, <3>3
    <3>11. stage' = "trying"
      BY <2>2 DEF CreateEncoder
    <3>. QED BY <3>3, <3>7, <3>8, <3>9, <3>10, <3>11 DEF Tried
  <2>3. CASE Try
    <3> DEFINE i == at[1]
    <3>1. /\ stage = "trying" /\ listed # <<>> /\ size' = size
          /\ i \in 1 .. Len(tries) /\ Len(tries) \in Nat
          /\ at = <<i, at[2]>> /\ at[2] \in {"texture", "memory"}
          /\ \A k \in 1 .. i - 1 : ~Works(tries[k], "memory")
      BY <2>3 DEF Try, Tried, output
    <3>2. \A c : Works(c, "memory")' <=> Works(c, "memory")
      BY <3>1 DEF Works, TypesTaken, PoolFails, Device, EvenSize
    <3>3. CASE Works(tries[i], at[2])
      <4>1. stage' = "running" /\ listed' = <<>>
        BY <2>3, <3>3 DEF Try
      <4>. QED BY <4>1 DEF Tried
    <3>4. CASE ~Works(tries[i], at[2])
      <4> HIDE DEF i
      <4>1. /\ \/ at[2] = "texture" /\ at' = <<i, "memory">> /\ stage' = stage
               \/ /\ at[2] = "memory" /\ i < Len(tries)
                  /\ at' = FirstPath(tries, i + 1, banned) /\ stage' = stage
               \/ at[2] = "memory" /\ i = Len(tries) /\ at' = at /\ stage' = "failed"
            /\ UNCHANGED <<listed, tries>>
        BY <2>3, <3>4 DEF Try, i
      <4>2. CASE at[2] = "texture"
        <5>1. at' = <<i, "memory">> /\ stage' = "trying"
          BY <3>1, <4>1, <4>2
        <5>2. at'[1] = i /\ at'[2] = "memory"
          BY <5>1
        <5>. QED BY <3>1, <3>2, <4>1, <5>1, <5>2 DEF Tried
      <4>3. CASE at[2] = "memory" /\ stage' = "trying"
        <5>1. i < Len(tries) /\ at' = FirstPath(tries, i + 1, banned)
          BY <4>1, <4>3
        <5>2. at'[1] = i + 1 /\ at' = <<at'[1], at'[2]>> /\ at'[2] \in {"texture", "memory"}
          BY <5>1 DEF FirstPath
        <5>3. ~Works(tries[i], "memory")
          BY <3>4, <4>3
        <5>4. \A k \in 1 .. i : ~Works(tries[k], "memory")
          BY <3>1, <5>3
        <5>. QED BY <3>1, <3>2, <4>1, <4>3, <5>1, <5>2, <5>4 DEF Tried
      <4>4. CASE at[2] = "memory" /\ stage' = "failed"
        <5>1. i = Len(tries) /\ at' = at
          BY <3>1, <4>1, <4>4
        <5>. QED BY <3>1, <3>2, <3>4, <4>1, <4>4, <5>1 DEF Tried, i
      <4>. QED BY <3>1, <4>1, <4>2, <4>3, <4>4
    <3>. QED BY <3>3, <3>4
  <2>4. CASE Process \/ UNCHANGED setupVars
    <3>1. UNCHANGED <<size, stage, creating>>
      BY <2>4 DEF Process, setupVars, output
    <3>. QED BY <3>1 DEF Tried, creating, Works, TypesTaken, PoolFails, Device, EvenSize
  <2>. QED BY <2>1, <2>2, <2>3, <2>4 DEF SetupNext
<1>. QED BY <1>1, <1>2

\* In plug-and-play mode and with --vdd the display that was made for the
\* tablet is the one captured, wherever it comes in the list of outputs and
\* however many of them are not attached.
THEOREM TabletIsShown == SetupSpec => []ShowsVirtual
<1>1. SetupInit => Looked /\ ShowsVirtual
  BY LookedInductive
<1>2. Looked /\ ShowsVirtual /\ [SetupNext]_setupVars => (Looked /\ ShowsVirtual)'
  BY LookedInductive
<1>. QED BY <1>1, <1>2, PTL DEF SetupSpec

\* The encoder's creation fails only when no encoder takes frames from memory,
\* or for the odd size of a desktop that is streamed as it is: no order of
\* preferences, path or failure on the way leaves a candidate out.
THEOREM EveryEncoderTried == SetupSpec => []NoEncoderLeftOut
<1> DEFINE IInv == Looked /\ ShowsVirtual /\ SizeFits /\ Tried
<1>1. SetupInit => IInv
  BY LookedInductive, SizeInductive, TriedInductive
<1>2. IInv /\ [SetupNext]_setupVars => IInv'
  <2>1. Looked => (stage = "index" => desk \in Desks)
    BY DEF Looked
  <2>. QED BY <2>1, LookedInductive, SizeInductive, TriedInductive
<1>3. IInv => NoEncoderLeftOut
  <2> SUFFICES ASSUME SizeFits, Tried, stage = "failed", listed # <<>>, EvenSize
               PROVE  \A i \in DOMAIN listed : "memory" \notin listed[i].takes
    BY DEF NoEncoderLeftOut, SizeFits
  <2>1. \A k \in 1 .. Len(tries) : ~Works(tries[k], "memory")
    BY DEF Tried
  <2>. QED BY <2>1, NoneWorks DEF Tried
<1>. QED BY <1>1, <1>2, <1>3, PTL DEF SetupSpec

-----------------------------------------------------------------------------
(* The bytes of an access unit.                                            *)

\* UpTo obeys its equations.
LEMMA UpToExists ==
  ASSUME NEW u, NEW N \in Nat, N = Len(u)
  PROVE  UpTo(u) = [n \in 0 .. N |-> IF n = 0 THEN <<>> ELSE UpTo(u)[n - 1] \o NalBytes(u[n])]
<1> DEFINE Cat(a, n) == a \o NalBytes(u[n])
           Solves(f, m) == f = [n \in 0 .. m |-> IF n = 0 THEN <<>> ELSE Cat(f[n - 1], n)]
           S == {m \in Nat : \E f : Solves(f, m)}
<1> HIDE DEF Cat
<1>1. 0 \in S
  <2> DEFINE f == [n \in 0 .. 0 |-> <<>>]
  <2>1. Solves(f, 0)
    OBVIOUS
  <2>. QED BY <2>1
<1>2. ASSUME NEW m \in S PROVE m + 1 \in S
  <2>1. PICK f : Solves(f, m)
    OBVIOUS
  <2> DEFINE g == [n \in 0 .. m + 1 |-> IF n =< m THEN f[n] ELSE Cat(f[m], m + 1)]
  <2>2. ASSUME NEW n \in 0 .. m + 1
        PROVE  g[n] = IF n = 0 THEN <<>> ELSE Cat(g[n - 1], n)
    <3>1. CASE n = 0
      BY <2>1, <3>1
    <3>2. CASE n \in 1 .. m
      <4>1. n - 1 \in 0 .. m /\ n \in 0 .. m /\ n # 0
        BY <3>2
      <4>2. g[n] = f[n] /\ g[n - 1] = f[n - 1]
        BY <4>1
      <4>. QED BY <2>1, <4>1, <4>2
    <3>3. CASE n = m + 1
      <4>1. g[n] = Cat(f[m], m + 1) /\ g[n - 1] = f[m] /\ n # 0
        BY <3>3
      <4>. QED BY <3>3, <4>1
    <3>. QED BY <3>1, <3>2, <3>3
  <2>3. Solves(g, m + 1)
    BY <2>2
  <2>4. m + 1 \in Nat
    OBVIOUS
  <2> HIDE DEF Solves, g
  <2>. QED BY <2>3, <2>4 DEF S
<1>3. S = Nat
  <2> HIDE DEF S
  <2>1. S \in SUBSET Nat
    BY DEF S
  <2>. QED BY <1>1, <1>2, <2>1, AllNat
<1>4. \E f : Solves(f, N)
  BY <1>3
<1>5. \E f : f = [n \in 0 .. Len(u) |-> IF n = 0 THEN <<>> ELSE f[n - 1] \o NalBytes(u[n])]
  BY <1>4 DEF Cat
<1>. QED BY <1>5, Zenon DEF UpTo

CodeLen(nal) == IF nal.long THEN 4 ELSE 3

LEMMA Joined ==
  ASSUME NEW s \in Seq(Nat), NEW t \in Seq(Nat)
  PROVE  /\ s \o t \in Seq(Nat) /\ Len(s) \in Nat /\ Len(t) \in Nat
         /\ Len(s \o t) = Len(s) + Len(t)
         /\ \A j \in 1 .. Len(s) : (s \o t)[j] = s[j]
         /\ \A j \in 1 .. Len(t) : (s \o t)[Len(s) + j] = t[j]
BY ConcatProperties, LenProperties

\* The bytes of one unit: zeros, a one, then what the unit holds.
LEMMA NalShape ==
  ASSUME NEW nal \in NalUnits
  PROVE  /\ Payload(nal) \in Seq(Nat) /\ Len(Payload(nal)) >= 1 /\ Payload(nal)[1] = nal.type
         /\ NalBytes(nal) \in Seq(Nat)
         /\ Len(NalBytes(nal)) = CodeLen(nal) + Len(Payload(nal))
         /\ \A j \in 1 .. CodeLen(nal) - 1 : NalBytes(nal)[j] = 0
         /\ NalBytes(nal)[CodeLen(nal)] = 1
         /\ \A j \in 1 .. Len(Payload(nal)) : NalBytes(nal)[CodeLen(nal) + j] = Payload(nal)[j]
<1>1. nal.long \in BOOLEAN /\ nal.type \in Nat /\ nal.data \in Seq(Nat)
  BY DEF NalUnits
<1>2. Payload(nal) \in Seq(Nat) /\ Len(Payload(nal)) >= 1 /\ Payload(nal)[1] = nal.type
  BY <1>1 DEF Payload
<1> DEFINE code == IF nal.long THEN <<0, 0, 0, 1>> ELSE <<0, 0, 1>>
<1>3. /\ code \in Seq(Nat) /\ Len(code) = CodeLen(nal) /\ code[CodeLen(nal)] = 1
      /\ \A j \in 1 .. CodeLen(nal) - 1 : code[j] = 0
  BY DEF CodeLen
<1>4. NalBytes(nal) = code \o Payload(nal)
  BY DEF NalBytes
<1>5. CodeLen(nal) \in Nat /\ CodeLen(nal) >= 1
  BY DEF CodeLen
<1> HIDE DEF code
<1>6. /\ NalBytes(nal) \in Seq(Nat)
      /\ Len(NalBytes(nal)) = Len(code) + Len(Payload(nal))
      /\ \A j \in 1 .. Len(code) : NalBytes(nal)[j] = code[j]
      /\ \A j \in 1 .. Len(Payload(nal)) : NalBytes(nal)[Len(code) + j] = Payload(nal)[j]
  <2> DEFINE p == Payload(nal)
  <2>1. p \in Seq(Nat) /\ code \in Seq(Nat) /\ NalBytes(nal) = code \o p
    BY <1>2, <1>3, <1>4
  <2> HIDE DEF p
  <2>2. /\ code \o p \in Seq(Nat) /\ Len(code \o p) = Len(code) + Len(p)
        /\ \A j \in 1 .. Len(code) : (code \o p)[j] = code[j]
        /\ \A j \in 1 .. Len(p) : (code \o p)[Len(code) + j] = p[j]
    BY <2>1, Joined, Zenon
  <2>. QED BY <2>1, <2>2, Zenon DEF p
<1>7. \A j \in 1 .. CodeLen(nal) - 1 : NalBytes(nal)[j] = 0
  BY <1>3, <1>5, <1>6
<1>8. NalBytes(nal)[CodeLen(nal)] = 1
  BY <1>3, <1>5, <1>6
<1>. QED BY <1>2, <1>3, <1>6, <1>7, <1>8

\* Where the units end in their bytes, and what is between.
Laid(u, au, end) ==
  /\ au \in Seq(Nat)
  /\ end \in [0 .. Len(u) -> Nat] /\ end[0] = 0 /\ end[Len(u)] = Len(au)
  /\ \A k \in 1 .. Len(u) : end[k] = end[k - 1] + Len(NalBytes(u[k]))
  /\ \A k, l \in 0 .. Len(u) : k =< l => end[k] =< end[l]
  /\ \A k \in 1 .. Len(u) : \A j \in 1 .. Len(NalBytes(u[k])) :
       au[end[k - 1] + j] = NalBytes(u[k])[j]

LEMMA LaidOut ==
  ASSUME NEW u \in Seq(NalUnits)
  PROVE  \E end : Laid(u, Bytes(u), end)
<1> DEFINE N == Len(u)
           part(n) == UpTo(u)[n]
           end(n) == Len(part(n))
           Right(n) ==
             /\ part(n) \in Seq(Nat)
             /\ \A k \in 0 .. n : end(k) \in Nat /\ end(k) =< end(n)
             /\ \A k \in 1 .. n : end(k) = end(k - 1) + Len(NalBytes(u[k]))
             /\ \A k, l \in 0 .. n : k =< l => end(k) =< end(l)
             /\ \A k \in 1 .. n : \A j \in 1 .. Len(NalBytes(u[k])) :
                  part(n)[end(k - 1) + j] = NalBytes(u[k])[j]
           S == {n \in Nat : n =< N => Right(n)}
<1>1. N \in Nat /\ part(0) = <<>> /\ \A n \in 1 .. N : part(n) = part(n - 1) \o NalBytes(u[n])
  <2>1. N \in Nat
    OBVIOUS
  <2>2. UpTo(u) = [n \in 0 .. N |-> IF n = 0 THEN <<>> ELSE UpTo(u)[n - 1] \o NalBytes(u[n])]
    BY <2>1, UpToExists
  <2>3. part(0) = <<>>
    BY <2>1, <2>2
  <2>4. ASSUME NEW n \in 1 .. N PROVE part(n) = part(n - 1) \o NalBytes(u[n])
    <3>1. n \in 0 .. N /\ n # 0
      BY <2>1
    <3>. QED BY <2>2, <3>1
  <2>. QED BY <2>1, <2>3, <2>4
<1>2. \A n \in 1 .. N : NalBytes(u[n]) \in Seq(Nat) /\ Len(NalBytes(u[n])) \in Nat
  <2> SUFFICES ASSUME NEW n \in 1 .. N PROVE NalBytes(u[n]) \in Seq(Nat)
    BY LenProperties
  <2>1. u[n] \in NalUnits
    BY <1>1
  <2>. QED BY <2>1, NalShape
<1>3. Right(0)
  <2>1. part(0) \in Seq(Nat) /\ end(0) = 0
    BY <1>1
  <2> HIDE DEF part
  <2>. QED BY <2>1
<1>4. ASSUME NEW n \in Nat, n + 1 =< N, Right(n) PROVE Right(n + 1)
  <2> DEFINE m == n + 1
             x == NalBytes(u[m])
  <2>0. m \in 1 .. N /\ m - 1 = n /\ m \in Nat
    <3> HIDE DEF Right, N
    <3>. QED BY <1>1, <1>4
  <2>1. part(m) = part(n) \o x /\ part(n) \in Seq(Nat) /\ x \in Seq(Nat) /\ Len(x) \in Nat
    BY <1>1, <1>2, <1>4, <2>0
  <2> HIDE DEF x, part, m
  <2>2. /\ part(m) \in Seq(Nat) /\ end(m) = end(n) + Len(x) /\ end(n) \in Nat
        /\ \A j \in 1 .. end(n) : part(m)[j] = part(n)[j]
        /\ \A j \in 1 .. Len(x) : part(m)[end(n) + j] = x[j]
    BY <2>1, Joined
  <2>3. \A k \in 0 .. n : end(k) \in Nat /\ end(k) =< end(n)
    BY <1>4
  <2>4. \A k \in 0 .. m : end(k) \in Nat /\ end(k) =< end(m)
    <3> SUFFICES ASSUME NEW k \in 0 .. m PROVE end(k) \in Nat /\ end(k) =< end(m)
      OBVIOUS
    <3> HIDE DEF end
    <3>1. CASE k \in 0 .. n
      BY <2>1, <2>2, <2>3, <3>1
    <3>2. CASE k = m
      BY <2>1, <2>2, <3>2
    <3>. QED BY <2>0, <3>1, <3>2
  <2>5. \A k \in 1 .. m : end(k) = end(k - 1) + Len(NalBytes(u[k]))
    <3> SUFFICES ASSUME NEW k \in 1 .. m PROVE end(k) = end(k - 1) + Len(NalBytes(u[k]))
      OBVIOUS
    <3>1. CASE k \in 1 .. n
      BY <1>4, <3>1
    <3>2. CASE k = m
      BY <2>0, <2>2, <3>2 DEF x
    <3>. QED BY <2>0, <3>1, <3>2
  <2>6. \A k, l \in 0 .. m : k =< l => end(k) =< end(l)
    <3> SUFFICES ASSUME NEW k \in 0 .. m, NEW l \in 0 .. m, k =< l PROVE end(k) =< end(l)
      OBVIOUS
    <3>1. CASE l \in 0 .. n
      <4>1. k \in 0 .. n
        BY <2>0, <3>1
      <4>. QED BY <1>4, <3>1, <4>1
    <3>2. CASE l = m
      BY <2>4, <3>2
    <3>. QED BY <2>0, <3>1, <3>2
  <2>7. \A k \in 1 .. m : \A j \in 1 .. Len(NalBytes(u[k])) :
           part(m)[end(k - 1) + j] = NalBytes(u[k])[j]
    <3> SUFFICES ASSUME NEW k \in 1 .. m, NEW j \in 1 .. Len(NalBytes(u[k]))
                 PROVE  part(m)[end(k - 1) + j] = NalBytes(u[k])[j]
      OBVIOUS
    <3>1. CASE k \in 1 .. n
      <4>1. part(n)[end(k - 1) + j] = NalBytes(u[k])[j]
        BY <1>4, <3>1
      <4>2. end(k) = end(k - 1) + Len(NalBytes(u[k])) /\ end(k) =< end(n) /\ end(k) \in Nat
            /\ end(k - 1) \in Nat
        <5>1. k - 1 \in 0 .. n /\ k \in 0 .. n
          BY <3>1
        <5>. QED BY <1>4, <2>3, <3>1, <5>1
      <4>3. k \in 1 .. N
        BY <1>1, <2>0, <3>1
      <4>4. Len(NalBytes(u[k])) \in Nat
        BY <1>2, <4>3
      <4>5. end(k - 1) + j \in 1 .. end(n)
        <5>1. end(n) \in Nat
          BY <2>2
        <5> HIDE DEF end
        <5>. QED BY <4>2, <4>4, <5>1
      <4>. QED BY <2>2, <4>1, <4>5
    <3>2. CASE k = m
      BY <2>0, <2>2, <3>2 DEF x
    <3>. QED BY <2>0, <3>1, <3>2
  <2> HIDE DEF end
  <2>. QED BY <2>2, <2>4, <2>5, <2>6, <2>7 DEF m
<1>5. S = Nat
  <2>1. 0 \in S
    BY <1>3
  <2>2. ASSUME NEW n \in S PROVE n + 1 \in S
    <3>1. n \in Nat /\ n + 1 \in Nat
      OBVIOUS
    <3>2. ASSUME n + 1 =< N PROVE Right(n + 1)
      <4>1. n =< N
        BY <1>1, <3>1, <3>2
      <4>2. Right(n)
        <5> HIDE DEF Right
        <5>. QED BY <4>1
      <4> HIDE DEF Right
      <4>. QED BY <1>4, <3>1, <3>2, <4>2
    <3> HIDE DEF Right
    <3>. QED BY <3>1, <3>2
  <2>3. S \in SUBSET Nat
    OBVIOUS
  <2> HIDE DEF S
  <2>. QED BY <2>1, <2>2, <2>3, AllNat
<1>6. Right(N)
  <2> HIDE DEF Right
  <2>. QED BY <1>1, <1>5
<1> DEFINE f == [n \in 0 .. N |-> end(n)]
<1>7. Laid(u, Bytes(u), f)
  <2>1. Bytes(u) = part(N)
    BY DEF Bytes
  <2>2. f \in [0 .. N -> Nat] /\ \A n \in 0 .. N : f[n] = end(n)
    BY <1>6
  <2>3. f[0] = 0 /\ f[N] = Len(Bytes(u))
    BY <1>1, <2>1, <2>2
  <2>4. \A k \in 1 .. N : k - 1 \in 0 .. N /\ k \in 0 .. N
    BY <1>1
  <2> HIDE DEF f, end, part
  <2>. QED BY <1>6, <2>1, <2>2, <2>3, <2>4 DEF Laid
<1>. QED BY <1>7

-----------------------------------------------------------------------------
(* Start codes.                                                            *)

LEMMA Code3Bytes ==
  ASSUME NEW au \in Seq(Nat), NEW i \in Nat \ {0}
  PROVE  Code3(au, i) <=> i + 2 =< Len(au) /\ au[i] = 0 /\ au[i + 1] = 0 /\ au[i + 2] = 1
<1> SUFFICES ASSUME i + 2 =< Len(au)
             PROVE  SubSeq(au, i, i + 2) = <<0, 0, 1>>
                      <=> au[i] = 0 /\ au[i + 1] = 0 /\ au[i + 2] = 1
  BY DEF Code3
<1> DEFINE s == SubSeq(au, i, i + 2)
<1>1. Len(au) \in Nat /\ \A j \in i .. i + 2 : au[j] \in Nat
  BY LenProperties, ElementOfSeq
<1>2. s \in Seq(Nat) /\ Len(s) = 3 /\ \A j \in 1 .. 3 : s[j] = au[i + j - 1]
  BY <1>1, SubSeqProperties
<1> HIDE DEF s
<1>3. s[1] = au[i] /\ s[2] = au[i + 1] /\ s[3] = au[i + 2]
  BY <1>2
<1>4. ASSUME s = <<0, 0, 1>> PROVE s[1] = 0 /\ s[2] = 0 /\ s[3] = 1
  BY <1>4
<1>5. ASSUME s[1] = 0, s[2] = 0, s[3] = 1 PROVE s = <<0, 0, 1>>
  <2> DEFINE t == <<0, 0, 1>>
  <2>1. t \in Seq(Nat) /\ Len(t) = 3 /\ \A j \in 1 .. 3 : s[j] = t[j]
    BY <1>5
  <2> HIDE DEF t
  <2>2. s = t
    BY <1>2, <2>1, SeqEqual
  <2>. QED BY <2>2 DEF t
<1>6. s = <<0, 0, 1>> <=> au[i] = 0 /\ au[i + 1] = 0 /\ au[i + 2] = 1
  BY <1>3, <1>4, <1>5
<1>. QED BY <1>6 DEF s

LEMMA Code4Bytes ==
  ASSUME NEW au \in Seq(Nat), NEW i \in Nat \ {0}
  PROVE  Code4(au, i) <=> /\ i + 3 =< Len(au)
                          /\ au[i] = 0 /\ au[i + 1] = 0 /\ au[i + 2] = 0 /\ au[i + 3] = 1
<1> SUFFICES ASSUME i + 3 =< Len(au)
             PROVE  SubSeq(au, i, i + 3) = <<0, 0, 0, 1>>
                      <=> au[i] = 0 /\ au[i + 1] = 0 /\ au[i + 2] = 0 /\ au[i + 3] = 1
  BY DEF Code4
<1> DEFINE s == SubSeq(au, i, i + 3)
<1>1. Len(au) \in Nat /\ \A j \in i .. i + 3 : au[j] \in Nat
  BY LenProperties, ElementOfSeq
<1>2. s \in Seq(Nat) /\ Len(s) = 4 /\ \A j \in 1 .. 4 : s[j] = au[i + j - 1]
  BY <1>1, SubSeqProperties
<1> HIDE DEF s
<1>3. s[1] = au[i] /\ s[2] = au[i + 1] /\ s[3] = au[i + 2] /\ s[4] = au[i + 3]
  BY <1>2
<1>4. ASSUME s = <<0, 0, 0, 1>> PROVE s[1] = 0 /\ s[2] = 0 /\ s[3] = 0 /\ s[4] = 1
  BY <1>4
<1>5. ASSUME s[1] = 0, s[2] = 0, s[3] = 0, s[4] = 1 PROVE s = <<0, 0, 0, 1>>
  <2> DEFINE t == <<0, 0, 0, 1>>
  <2>1. t \in Seq(Nat) /\ Len(t) = 4 /\ \A j \in 1 .. 4 : s[j] = t[j]
    BY <1>5
  <2> HIDE DEF t
  <2>2. s = t
    BY <1>2, <2>1, SeqEqual
  <2>. QED BY <2>2 DEF t
<1>6. s = <<0, 0, 0, 1>> <=> au[i] = 0 /\ au[i + 1] = 0 /\ au[i + 2] = 0 /\ au[i + 3] = 1
  BY <1>3, <1>4, <1>5
<1>. QED BY <1>6 DEF s

\* Where the short start code of a unit begins; a long one begins a byte before.
Begin(u, end, k) == end[k - 1] + (IF u[k].long THEN 2 ELSE 1)

\* What is found between Begin and end.
Framed(u, au, end, k) ==
  LET b == Begin(u, end, k)
      e == end[k]
      p == Payload(u[k])
  IN /\ b \in Nat /\ e \in Nat /\ end[k - 1] \in Nat /\ Len(p) \in Nat
     /\ b >= 1 /\ b + 3 =< e /\ e =< Len(au) /\ e = b + 2 + Len(p)
     /\ au[b] = 0 /\ au[b + 1] = 0 /\ au[b + 2] = 1 /\ au[b + 3] = u[k].type
     /\ u[k].long => b = end[k - 1] + 2 /\ au[b - 1] = 0
     /\ ~u[k].long => b = end[k - 1] + 1
     /\ \A j \in 1 .. Len(p) : au[b + 2 + j] = p[j]
     /\ au[e] # 0
     /\ \A i \in b + 3 .. e - 2 : ~(au[i] = 0 /\ au[i + 1] = 0 /\ au[i + 2] \in {0, 1})

Sound(u) == u \in Seq(NalUnits) /\ \A k \in 1 .. Len(u) : Escaped(u[k])

LEMMA UnitFramed ==
  ASSUME NEW u, Sound(u), NEW au, NEW end, Laid(u, au, end), NEW k \in 1 .. Len(u)
  PROVE  Framed(u, au, end, k)
<1> DEFINE b == Begin(u, end, k)
           e == end[k]
           p == Payload(u[k])
           x == NalBytes(u[k])
           a == end[k - 1]
           h == CodeLen(u[k])
<1>1. u \in Seq(NalUnits) /\ Len(u) \in Nat /\ u[k] \in NalUnits /\ Escaped(u[k])
  BY LenProperties, ElementOfSeq DEF Sound
<1>2. /\ p \in Seq(Nat) /\ Len(p) >= 1 /\ p[1] = u[k].type
      /\ Len(x) = h + Len(p)
      /\ \A j \in 1 .. h - 1 : x[j] = 0
      /\ x[h] = 1
      /\ \A j \in 1 .. Len(p) : x[h + j] = p[j]
  BY <1>1, NalShape
<1>3. k - 1 \in 0 .. Len(u) /\ k \in 0 .. Len(u) /\ Len(u) \in 0 .. Len(u) /\ k =< Len(u)
  BY <1>1
<1>4. /\ a \in Nat /\ e \in Nat /\ e =< Len(au) /\ e = a + Len(x)
      /\ \A j \in 1 .. Len(x) : au[a + j] = x[j]
  BY <1>3 DEF Laid
<1>5. u[k].long \in BOOLEAN /\ Len(p) \in Nat
  BY <1>1, <1>2, LenProperties DEF NalUnits
<1>6. /\ p[Len(p)] # 0
      /\ \A i \in 1 .. Len(p) - 2 : ~(p[i] = 0 /\ p[i + 1] = 0 /\ p[i + 2] \in {0, 1})
  BY <1>1 DEF Escaped
<1>7. h = (IF u[k].long THEN 4 ELSE 3) /\ b = a + (IF u[k].long THEN 2 ELSE 1)
  BY DEF CodeLen, Begin
<1> HIDE DEF b, e, p, x, a, h
<1>8. b \in Nat /\ b >= 1 /\ b + 2 = a + h /\ e = b + 2 + Len(p) /\ b + 3 =< e
  BY <1>2, <1>4, <1>5, <1>7
<1>9. \A j \in 1 .. Len(p) : au[b + 2 + j] = p[j]
  <2> SUFFICES ASSUME NEW j \in 1 .. Len(p) PROVE au[b + 2 + j] = p[j]
    OBVIOUS
  <2>1. h + j \in 1 .. Len(x) /\ b + 2 + j = a + (h + j)
    BY <1>2, <1>4, <1>5, <1>7, <1>8
  <2>2. au[a + (h + j)] = x[h + j]
    BY <1>4, <2>1
  <2>. QED BY <1>2, <2>1, <2>2
<1>10. au[b] = 0 /\ au[b + 1] = 0 /\ au[b + 2] = 1 /\ (u[k].long => au[b - 1] = 0)
  <2>1. \A j \in 1 .. h : au[a + j] = x[j]
    BY <1>2, <1>4, <1>5, <1>7
  <2>2. CASE u[k].long
    <3>1. au[a + 1] = 0 /\ au[a + 2] = 0 /\ au[a + 3] = 0 /\ au[a + 4] = 1
      BY <1>2, <1>7, <2>1, <2>2
    <3>2. b - 1 = a + 1 /\ b = a + 2 /\ b + 1 = a + 3 /\ b + 2 = a + 4
      <4>1. b = a + 2 /\ a \in Nat
        BY <1>4, <1>7, <2>2
      <4>. QED BY <4>1
    <3>. QED BY <3>1, <3>2
  <2>3. CASE ~u[k].long
    <3>1. au[a + 1] = 0 /\ au[a + 2] = 0 /\ au[a + 3] = 1
      BY <1>2, <1>7, <2>1, <2>3
    <3>2. b = a + 1 /\ b + 1 = a + 2 /\ b + 2 = a + 3
      BY <1>4, <1>7, <2>3
    <3>. QED BY <2>3, <3>1, <3>2
  <2>. QED BY <2>2, <2>3
<1>11. au[b + 3] = u[k].type /\ au[e] # 0
  <2>1. au[b + 2 + 1] = p[1] /\ au[b + 2 + Len(p)] = p[Len(p)]
    BY <1>2, <1>5, <1>9
  <2>. QED BY <1>2, <1>6, <1>8, <2>1
<1>12. ASSUME NEW i \in b + 3 .. e - 2
       PROVE  ~(au[i] = 0 /\ au[i + 1] = 0 /\ au[i + 2] \in {0, 1})
  <2> DEFINE j == i - b - 2
  <2>1. /\ j \in 1 .. Len(p) - 2 /\ j \in 1 .. Len(p) /\ j + 1 \in 1 .. Len(p)
        /\ j + 2 \in 1 .. Len(p)
        /\ i = b + 2 + j /\ i + 1 = b + 2 + (j + 1) /\ i + 2 = b + 2 + (j + 2)
    BY <1>4, <1>5, <1>8
  <2> HIDE DEF j
  <2>2. au[i] = p[j] /\ au[i + 1] = p[j + 1] /\ au[i + 2] = p[j + 2]
    BY <1>9, <2>1
  <2>. QED BY <1>6, <2>1, <2>2
<1>13. (u[k].long => b = a + 2) /\ (~u[k].long => b = a + 1)
  BY <1>7
<1>. QED BY <1>4, <1>5, <1>8, <1>9, <1>10, <1>11, <1>12, <1>13 DEF Framed, b, e, p, a

LEMMA Ascending ==
  ASSUME NEW u, Sound(u), NEW au, NEW end, Laid(u, au, end),
         NEW k \in 1 .. Len(u), NEW l \in 1 .. Len(u), k < l
  PROVE  end[k] =< end[l - 1] /\ end[k] < Begin(u, end, l)
<1>1. Len(u) \in Nat
  BY LenProperties DEF Sound
<1>2. k \in 0 .. Len(u) /\ l - 1 \in 0 .. Len(u) /\ k =< l - 1
  BY <1>1
<1>3. end[k] =< end[l - 1]
  BY <1>2 DEF Laid
<1>4. Begin(u, end, l) \in Nat /\ end[k] \in Nat /\ end[l - 1] \in Nat
      /\ Begin(u, end, l) > end[l - 1]
  <2>1. Framed(u, au, end, k) /\ Framed(u, au, end, l)
    BY UnitFramed
  <2>2. /\ Begin(u, end, l) \in Nat /\ end[k] \in Nat /\ end[l - 1] \in Nat
        /\ u[l].long => Begin(u, end, l) = end[l - 1] + 2
        /\ ~u[l].long => Begin(u, end, l) = end[l - 1] + 1
    BY <2>1 DEF Framed
  <2>. QED BY <2>2
<1>. QED BY <1>3, <1>4

\* Every byte is in one of the units.
LEMMA InAUnit ==
  ASSUME NEW u, Sound(u), NEW au, NEW end, Laid(u, au, end), NEW i \in 1 .. Len(au)
  PROVE  \E k \in 1 .. Len(u) : end[k - 1] < i /\ i =< end[k]
<1>1. Len(u) \in Nat /\ Len(au) \in Nat
  BY LenProperties DEF Sound, Laid
<1> DEFINE S == {k \in 0 .. Len(u) : i =< end[k]}
<1>2. Len(u) \in S /\ S \in SUBSET Nat /\ 0 \notin S
  BY <1>1 DEF Laid
<1>3. PICK k \in S : \A l \in S : k =< l
  <2> HIDE DEF S
  <2>. QED BY <1>2, LeastNat
<1>4. k \in 1 .. Len(u) /\ k - 1 \in 0 .. Len(u) /\ k - 1 \notin S
  BY <1>1, <1>2, <1>3
<1>5. end[k - 1] \in Nat /\ end[k] \in Nat
  BY <1>4 DEF Laid
<1>6. end[k - 1] < i
  BY <1>4, <1>5
<1>. QED BY <1>3, <1>4, <1>6

\* The start codes found are those the units begin with, and no others.
LEMMA CodesAre ==
  ASSUME NEW u, Sound(u), NEW au, NEW end, Laid(u, au, end), NEW i \in 1 .. Len(au)
  PROVE  /\ Code3(au, i) <=> \E k \in 1 .. Len(u) : i = Begin(u, end, k)
         /\ Code4(au, i) <=> \E k \in 1 .. Len(u) : u[k].long /\ i = Begin(u, end, k) - 1
<1>1. au \in Seq(Nat) /\ Len(au) \in Nat /\ i \in Nat \ {0}
  BY LenProperties DEF Laid
<1>2. ASSUME NEW k \in 1 .. Len(u), i = Begin(u, end, k) PROVE Code3(au, i)
  <2>1. Framed(u, au, end, k)
    BY UnitFramed
  <2>2. i + 2 =< Len(au) /\ au[i] = 0 /\ au[i + 1] = 0 /\ au[i + 2] = 1
    BY <1>1, <1>2, <2>1 DEF Framed
  <2>. QED BY <1>1, <2>2, Code3Bytes
<1>3. ASSUME NEW k \in 1 .. Len(u), u[k].long, i = Begin(u, end, k) - 1 PROVE Code4(au, i)
  <2>1. Framed(u, au, end, k)
    BY UnitFramed
  <2> DEFINE b == Begin(u, end, k)
  <2>2. /\ b \in Nat /\ b + 3 =< Len(au)
        /\ au[b - 1] = 0 /\ au[b] = 0 /\ au[b + 1] = 0 /\ au[b + 2] = 1
    BY <1>1, <1>3, <2>1 DEF Framed
  <2>0. i = b - 1
    BY <1>3
  <2> HIDE DEF b
  <2>3. i + 1 = b /\ i + 2 = b + 1 /\ i + 3 = b + 2
    BY <2>0, <2>2
  <2>4. i + 3 =< Len(au) /\ au[i] = 0 /\ au[i + 1] = 0 /\ au[i + 2] = 0 /\ au[i + 3] = 1
    BY <1>1, <2>0, <2>2, <2>3
  <2>. QED BY <1>1, <2>4, Code4Bytes
<1>4. PICK k \in 1 .. Len(u) : end[k - 1] < i /\ i =< end[k]
  BY InAUnit
<1> DEFINE b == Begin(u, end, k)
           e == end[k]
<1>5. /\ b \in Nat /\ e \in Nat /\ end[k - 1] \in Nat /\ b >= 1 /\ b + 3 =< e /\ e =< Len(au)
      /\ au[b] = 0 /\ au[b + 1] = 0 /\ au[b + 2] = 1
      /\ u[k].long => b = end[k - 1] + 2 /\ au[b - 1] = 0
      /\ ~u[k].long => b = end[k - 1] + 1
      /\ au[e] # 0
      /\ \A j \in b + 3 .. e - 2 : ~(au[j] = 0 /\ au[j + 1] = 0 /\ au[j + 2] \in {0, 1})
  <2>1. Framed(u, au, end, k)
    BY UnitFramed
  <2>. QED BY <2>1, Zenon DEF Framed
<1> HIDE DEF b, e
<1>6. ASSUME au[i] = 0, au[i + 1] = 0, au[i + 2] \in {0, 1}
      PROVE  i = b \/ (u[k].long /\ i = b - 1)
  <2>1. CASE i < b
    <3>1. i \in Nat /\ b \in Nat /\ end[k - 1] \in Nat /\ end[k - 1] < i
      BY <1>1, <1>4, <1>5
    <3>2. CASE u[k].long
      <4>1. b = end[k - 1] + 2
        BY <1>5, <3>2
      <4>. QED BY <2>1, <3>1, <3>2, <4>1
    <3>3. CASE ~u[k].long
      <4>1. b = end[k - 1] + 1
        BY <1>5, <3>3
      <4>. QED BY <2>1, <3>1, <4>1
    <3>. QED BY <3>2, <3>3
  <2>2. CASE i = b + 1
    <3>1. i + 1 = b + 2
      BY <1>5, <2>2
    <3>. QED BY <1>5, <1>6, <3>1
  <2>3. CASE i = b + 2
    BY <1>5, <1>6, <2>3
  <2>4. CASE i >= b + 3 /\ i =< e - 2
    <3>1. i \in b + 3 .. e - 2
      BY <1>1, <1>5, <2>4
    <3>. QED BY <1>5, <1>6, <3>1
  <2>5. CASE i = e - 1
    <3>1. i + 1 = e
      BY <1>5, <2>5
    <3>. QED BY <1>5, <1>6, <3>1
  <2>6. CASE i = e
    BY <1>5, <1>6, <2>6
  <2>7. i =< e
    BY <1>4 DEF e
  <2>8. i < b \/ i = b \/ i = b + 1 \/ i = b + 2 \/ (i >= b + 3 /\ i =< e - 2) \/ i = e - 1 \/ i = e
    <3>1. i \in Nat /\ b \in Nat /\ e \in Nat
      BY <1>1, <1>5
    <3>. QED BY <2>7, <3>1
  <2>. QED BY <2>1, <2>2, <2>3, <2>4, <2>5, <2>6, <2>8
<1>7. ASSUME Code3(au, i) PROVE i = b
  <2>1. au[i] = 0 /\ au[i + 1] = 0 /\ au[i + 2] = 1
    BY <1>1, <1>7, Code3Bytes
  <2>2. CASE u[k].long /\ i = b - 1
    <3>1. i + 2 = b + 1
      BY <1>5, <2>2
    <3>. QED BY <1>5, <2>1, <3>1
  <2>. QED BY <1>6, <2>1, <2>2
<1>8. ASSUME Code4(au, i) PROVE u[k].long /\ i = b - 1
  <2>1. au[i] = 0 /\ au[i + 1] = 0 /\ au[i + 2] = 0
    BY <1>1, <1>8, Code4Bytes
  <2>2. i # b
    BY <1>5, <2>1
  <2>. QED BY <1>6, <2>1, <2>2
<1>. QED BY <1>2, <1>3, <1>7, <1>8 DEF b

\* A number that is the least of a set is what CHOOSE finds.
LEMMA TheLeast ==
  ASSUME NEW S \in SUBSET Nat, NEW m \in S, \A n \in S : m =< n
  PROVE  (CHOOSE n \in S : \A k \in S : n =< k) = m
<1> DEFINE c == CHOOSE n \in S : \A k \in S : n =< k
<1>1. c \in S /\ \A k \in S : c =< k
  OBVIOUS
<1> HIDE DEF c
<1>2. c \in Nat /\ m \in Nat /\ c =< m /\ m =< c
  BY <1>1
<1>3. c = m
  BY <1>2
<1>. QED BY <1>3 DEF c

LEMMA NalEndAt ==
  ASSUME NEW u, Sound(u), NEW au, NEW end, Laid(u, au, end), NEW k \in 1 .. Len(u)
  PROVE  /\ NalEnd(au, Begin(u, end, k)) = end[k]
         /\ u[k].long => NalEnd(au, Begin(u, end, k) - 1) = Begin(u, end, k) - 1
<1> DEFINE b(l) == Begin(u, end, l)
           Code(n) == Code3(au, n) \/ Code4(au, n)
           stops == {n \in b(k) + 1 .. Len(au) : Code(n)}
           stops1 == {n \in b(k) - 1 + 1 .. Len(au) : Code(n)}
<1>1. /\ Len(u) \in Nat /\ Len(au) \in Nat
      /\ \A l \in 1 .. Len(u) : /\ b(l) \in Nat /\ b(l) >= 1 /\ b(l) + 3 =< end[l]
                                /\ end[l] =< Len(au)
                                /\ end[l] \in Nat /\ end[l - 1] \in Nat
                                /\ u[l].long => b(l) = end[l - 1] + 2
                                /\ ~u[l].long => b(l) = end[l - 1] + 1
                                /\ end[l - 1] + 1 =< b(l)
                                /\ u[l].long => end[l - 1] + 1 =< b(l) - 1
  <2>1. Len(u) \in Nat /\ Len(au) \in Nat
    BY LenProperties DEF Sound, Laid
  <2>2. \A l \in 1 .. Len(u) : Framed(u, au, end, l)
    BY UnitFramed
  <2> SUFFICES ASSUME NEW l \in 1 .. Len(u)
               PROVE  /\ b(l) \in Nat /\ b(l) >= 1 /\ b(l) + 3 =< end[l] /\ end[l] =< Len(au)
                      /\ end[l] \in Nat /\ end[l - 1] \in Nat
                      /\ u[l].long => b(l) = end[l - 1] + 2
                      /\ ~u[l].long => b(l) = end[l - 1] + 1
                      /\ end[l - 1] + 1 =< b(l)
                      /\ u[l].long => end[l - 1] + 1 =< b(l) - 1
    BY <2>1
  <2>3. /\ b(l) \in Nat /\ b(l) >= 1 /\ b(l) + 3 =< end[l] /\ end[l] =< Len(au)
        /\ end[l] \in Nat /\ end[l - 1] \in Nat
        /\ u[l].long => b(l) = end[l - 1] + 2
        /\ ~u[l].long => b(l) = end[l - 1] + 1
    BY <2>2 DEF Framed
  <2> HIDE DEF b
  <2>4. CASE u[l].long
    <3>1. b(l) = end[l - 1] + 2
      BY <2>3, <2>4
    <3>2. end[l - 1] + 1 =< b(l) /\ end[l - 1] + 1 =< b(l) - 1
      BY <2>3, <3>1
    <3>. QED BY <2>3, <2>4, <3>2
  <2>5. CASE ~u[l].long
    <3>1. b(l) = end[l - 1] + 1
      BY <2>3, <2>5
    <3>2. end[l - 1] + 1 =< b(l)
      BY <2>3, <3>1
    <3>. QED BY <2>3, <2>5, <3>2
  <2>. QED BY <2>4, <2>5
<1> HIDE DEF b
<1>2. ASSUME NEW n \in 1 .. Len(au)
      PROVE  Code(n) <=> \E l \in 1 .. Len(u) : n = b(l) \/ (u[l].long /\ n = b(l) - 1)
  BY CodesAre DEF b
<1>3. \A n \in stops : n \in 1 .. Len(au) /\ n > b(k)
  BY <1>1
<1>4. stops \in SUBSET Nat /\ stops1 \in SUBSET Nat
  BY <1>1
<1>5. ASSUME NEW n \in stops
      PROVE  \E l \in 1 .. Len(u) : l > k /\ n >= end[l - 1] + 1
  <2>1. PICK l \in 1 .. Len(u) : n = b(l) \/ (u[l].long /\ n = b(l) - 1)
    BY <1>2, <1>3
  <2>2. l > k
    <3>1. CASE l = k
      BY <1>1, <1>3, <2>1, <3>1
    <3>2. CASE l < k
      <4>1. end[l] < b(k)
        BY <3>2, Ascending DEF b
      <4>2. /\ b(l) \in Nat /\ b(l) + 3 =< end[l] /\ end[l] \in Nat
            /\ b(k) \in Nat /\ n \in Nat /\ n > b(k)
        BY <1>1, <1>3
      <4>3. n =< b(l)
        BY <2>1, <4>2
      <4>. QED BY <4>1, <4>2, <4>3
    <3>. QED BY <1>1, <3>1, <3>2
  <2>3. n >= end[l - 1] + 1
    <3>1. /\ b(l) \in Nat /\ end[l - 1] \in Nat /\ n \in Nat
          /\ end[l - 1] + 1 =< b(l)
          /\ u[l].long => end[l - 1] + 1 =< b(l) - 1
      BY <1>1, <1>3
    <3>. QED BY <2>1, <3>1
  <2>. QED BY <2>2, <2>3
<1>6. NalEnd(au, b(k)) = IF stops = {} THEN Len(au)
                         ELSE (CHOOSE n \in stops : \A m \in stops : n =< m) - 1
  BY DEF NalEnd
<1>7. NalEnd(au, b(k) - 1) = IF stops1 = {} THEN Len(au)
                             ELSE (CHOOSE n \in stops1 : \A m \in stops1 : n =< m) - 1
  BY DEF NalEnd
<1>8. ASSUME k = Len(u) PROVE NalEnd(au, b(k)) = end[k]
  <2>1. stops = {}
    <3> SUFFICES ASSUME NEW n \in stops PROVE FALSE
      OBVIOUS
    <3> HIDE DEF stops
    <3>. QED BY <1>1, <1>5, <1>8
  <2>2. end[k] = Len(au)
    BY <1>8 DEF Laid
  <2>. QED BY <1>6, <2>1, <2>2
<1>9. ASSUME k < Len(u) PROVE NalEnd(au, b(k)) = end[k]
  <2>1. k + 1 \in 1 .. Len(u) /\ (k + 1) - 1 = k
    BY <1>1, <1>9
  <2>2. end[k] + 1 \in stops
    <3>1. /\ b(k + 1) \in Nat /\ end[k] \in Nat /\ b(k) \in Nat
          /\ b(k) + 3 =< end[k] /\ b(k + 1) + 3 =< Len(au)
          /\ u[k + 1].long => b(k + 1) = end[k] + 2
          /\ ~u[k + 1].long => b(k + 1) = end[k] + 1
          /\ end[k] + 1 =< b(k + 1)
      <4>1. /\ b(k + 1) \in Nat /\ b(k + 1) + 3 =< end[k + 1] /\ end[k + 1] =< Len(au)
            /\ end[k + 1] \in Nat
            /\ u[k + 1].long => b(k + 1) = end[(k + 1) - 1] + 2
            /\ ~u[k + 1].long => b(k + 1) = end[(k + 1) - 1] + 1
            /\ end[(k + 1) - 1] + 1 =< b(k + 1)
        BY <1>1, <2>1
      <4>. QED BY <1>1, <2>1, <4>1
    <3>2. end[k] + 1 = b(k + 1) \/ (u[k + 1].long /\ end[k] + 1 = b(k + 1) - 1)
      <4>1. CASE u[k + 1].long
        <5>1. b(k + 1) = end[k] + 2
          BY <3>1, <4>1
        <5>. QED BY <3>1, <4>1, <5>1
      <4>2. CASE ~u[k + 1].long
        BY <3>1, <4>2
      <4>. QED BY <4>1, <4>2
    <3>3. end[k] + 1 \in b(k) + 1 .. Len(au) /\ end[k] + 1 \in 1 .. Len(au)
      <4>1. end[k] + 1 =< b(k + 1) /\ Len(au) \in Nat
        BY <1>1, <3>1
      <4>2. end[k] + 1 =< Len(au) /\ b(k) + 1 =< end[k] + 1 /\ end[k] + 1 >= 1
        BY <3>1, <4>1
      <4>. QED BY <3>1, <4>1, <4>2
    <3>. QED BY <1>2, <2>1, <3>2, <3>3
  <2>3. ASSUME NEW n \in stops PROVE end[k] + 1 =< n
    <3>1. PICK l \in 1 .. Len(u) : l > k /\ n >= end[l - 1] + 1
      BY <1>5
    <3>2. end[k] =< end[l - 1]
      BY <3>1, Ascending
    <3>3. n \in Nat /\ end[k] \in Nat /\ end[l - 1] \in Nat
      BY <1>1, <1>4
    <3>. QED BY <3>1, <3>2, <3>3
  <2>4. (CHOOSE n \in stops : \A m \in stops : n =< m) = end[k] + 1
    <3> HIDE DEF stops
    <3>. QED BY <1>4, <2>2, <2>3, TheLeast
  <2>5. stops # {} /\ end[k] \in Nat
    BY <1>1, <2>2
  <2>6. (end[k] + 1) - 1 = end[k]
    BY <2>5
  <2> HIDE DEF stops
  <2>. QED BY <1>6, <2>4, <2>5, <2>6, Zenon
<1>10. ASSUME u[k].long PROVE NalEnd(au, b(k) - 1) = b(k) - 1
  <2>1. b(k) \in Nat /\ b(k) >= 1 /\ b(k) =< Len(au)
    <3>1. /\ b(k) \in Nat /\ b(k) >= 1 /\ b(k) + 3 =< end[k] /\ end[k] =< Len(au)
          /\ end[k] \in Nat /\ Len(au) \in Nat
      BY <1>1
    <3>. QED BY <3>1
  <2>2. b(k) \in stops1
    <3>1. b(k) \in 1 .. Len(au) /\ b(k) \in b(k) - 1 + 1 .. Len(au)
      BY <1>1, <2>1
    <3>. QED BY <1>2, <3>1
  <2>3. \A n \in stops1 : b(k) =< n
    BY <1>1, <2>1
  <2>4. (CHOOSE n \in stops1 : \A m \in stops1 : n =< m) = b(k)
    <3> HIDE DEF stops1
    <3>. QED BY <1>4, <2>2, <2>3, TheLeast
  <2>5. stops1 # {}
    BY <2>2
  <2> HIDE DEF stops1
  <2>. QED BY <1>7, <2>4, <2>5
<1>11. NalEnd(au, b(k)) = end[k]
  BY <1>1, <1>8, <1>9
<1>. QED BY <1>10, <1>11 DEF b

\* The scan finds every unit with its short start code, to its last byte.
LEMMA NalsAre ==
  ASSUME NEW u, Sound(u), NEW au, NEW end, Laid(u, au, end)
  PROVE  Nals(au) = {[type |-> u[k].type, from |-> Begin(u, end, k), to |-> end[k]]
                       : k \in 1 .. Len(u)}
<1> DEFINE b(k) == Begin(u, end, k)
           N == 1 .. Len(u)
           skip(i) == IF Code3(au, i) THEN 3 ELSE 4
           codes == {i \in 1 .. Len(au) - 3 : Code3(au, i) \/ Code4(au, i)}
           kept == {j \in codes : NalEnd(au, j) >= j + skip(j)}
           nal(i) == [type |-> au[i + skip(i)], from |-> i, to |-> NalEnd(au, i)]
           wanted(k) == [type |-> u[k].type, from |-> b(k), to |-> end[k]]
<1>1. Nals(au) = {nal(i) : i \in kept}
  BY DEF Nals
<1>2. ASSUME NEW k \in N
      PROVE  b(k) \in kept /\ nal(b(k)) = wanted(k)
  <2>1. /\ b(k) \in Nat /\ b(k) >= 1 /\ b(k) + 3 =< end[k] /\ end[k] =< Len(au)
        /\ end[k] \in Nat /\ au[b(k) + 3] = u[k].type
    BY UnitFramed DEF Framed
  <2>2. Len(au) \in Nat
    BY LenProperties DEF Laid
  <2>3. b(k) \in 1 .. Len(au) /\ b(k) \in 1 .. Len(au) - 3
    <3> HIDE DEF b
    <3>. QED BY <2>1, <2>2
  <2>4. Code3(au, b(k))
    BY <2>3, CodesAre
  <2>5. NalEnd(au, b(k)) = end[k]
    BY NalEndAt
  <2>6. skip(b(k)) = 3
    BY <2>4
  <2> HIDE DEF b
  <2>. QED BY <2>1, <2>3, <2>4, <2>5, <2>6
<1>3. ASSUME NEW i \in kept PROVE \E k \in N : i = b(k)
  <2>1. Len(au) \in Nat
    BY LenProperties DEF Laid
  <2>2. /\ i \in 1 .. Len(au) /\ i \in Nat /\ (Code3(au, i) \/ Code4(au, i))
        /\ NalEnd(au, i) >= i + skip(i)
    BY <2>1
  <2>3. CASE Code3(au, i)
    BY <2>2, <2>3, CodesAre
  <2>4. CASE Code4(au, i)
    <3>1. PICK k \in N : u[k].long /\ i = b(k) - 1
      BY <2>2, <2>4, CodesAre
    <3>2. NalEnd(au, i) = i
      BY <3>1, NalEndAt
    <3>3. skip(i) \in {3, 4}
      OBVIOUS
    <3> HIDE DEF skip
    <3>. QED BY <2>2, <3>2, <3>3
  <2>. QED BY <2>2, <2>3, <2>4
<1> HIDE DEF kept, nal, b
<1>4. {nal(i) : i \in kept} = {wanted(k) : k \in N}
  <2>1. ASSUME NEW i \in kept PROVE \E k \in N : nal(i) = wanted(k)
    <3>1. PICK k \in N : i = b(k)
      BY <1>3
    <3> HIDE DEF wanted
    <3>. QED BY <1>2, <3>1
  <2>2. ASSUME NEW k \in N PROVE \E i \in kept : nal(i) = wanted(k)
    <3> HIDE DEF wanted
    <3>. QED BY <1>2
  <2> HIDE DEF wanted
  <2>. QED BY <2>1, <2>2
<1>. QED BY <1>1, <1>4 DEF b

Shorten(nal) == [nal EXCEPT !.long = FALSE]

LEMMA ShortBytes ==
  ASSUME NEW nal \in NalUnits
  PROVE  /\ Shorten(nal) \in NalUnits /\ Shorten(nal).long = FALSE
         /\ Payload(Shorten(nal)) = Payload(nal)
BY DEF Shorten, NalUnits, Payload

\* What is kept of a unit is the unit with a short start code.
LEMMA KeptBytes ==
  ASSUME NEW u, Sound(u), NEW au, NEW end, Laid(u, au, end), NEW k \in 1 .. Len(u)
  PROVE  SubSeq(au, Begin(u, end, k), end[k]) = NalBytes(Shorten(u[k]))
<1> DEFINE b == Begin(u, end, k)
           e == end[k]
           p == Payload(u[k])
           s == SubSeq(au, b, e)
           x == NalBytes(Shorten(u[k]))
<1>1. /\ b \in Nat /\ e \in Nat /\ b >= 1 /\ e =< Len(au) /\ e = b + 2 + Len(p) /\ Len(p) \in Nat
      /\ au[b] = 0 /\ au[b + 1] = 0 /\ au[b + 2] = 1
      /\ \A j \in 1 .. Len(p) : au[b + 2 + j] = p[j]
  BY UnitFramed DEF Framed
<1>2. u[k] \in NalUnits /\ au \in Seq(Nat) /\ Len(au) \in Nat
  BY ElementOfSeq, LenProperties DEF Sound, Laid
<1>3. /\ x \in Seq(Nat) /\ Len(x) = 3 + Len(p)
      /\ x[1] = 0 /\ x[2] = 0 /\ x[3] = 1
      /\ \A j \in 1 .. Len(p) : x[3 + j] = p[j]
  <2> DEFINE m == Shorten(u[k])
  <2>1. m \in NalUnits /\ CodeLen(m) = 3 /\ Payload(m) = p
    BY <1>2, ShortBytes DEF CodeLen
  <2> HIDE DEF m
  <2>2. /\ NalBytes(m) \in Seq(Nat) /\ Len(NalBytes(m)) = 3 + Len(p)
        /\ \A j \in 1 .. 2 : NalBytes(m)[j] = 0
        /\ NalBytes(m)[3] = 1
        /\ \A j \in 1 .. Len(p) : NalBytes(m)[3 + j] = p[j]
    <3>1. /\ NalBytes(m) \in Seq(Nat) /\ Len(NalBytes(m)) = CodeLen(m) + Len(Payload(m))
          /\ \A j \in 1 .. CodeLen(m) - 1 : NalBytes(m)[j] = 0
          /\ NalBytes(m)[CodeLen(m)] = 1
          /\ \A j \in 1 .. Len(Payload(m)) : NalBytes(m)[CodeLen(m) + j] = Payload(m)[j]
      BY <2>1, NalShape, Zenon
    <3>2. 3 - 1 = 2
      OBVIOUS
    <3>. QED BY <2>1, <3>1, <3>2, Zenon
  <2>3. 1 \in 1 .. 2 /\ 2 \in 1 .. 2
    OBVIOUS
  <2>. QED BY <2>2, <2>3 DEF m
<1> HIDE DEF b, e, p, x
<1>4. s \in Seq(Nat) /\ Len(s) = 3 + Len(p) /\ \A j \in 1 .. 3 + Len(p) : s[j] = au[b + j - 1]
  <2>1. \A j \in b .. e : au[j] \in Nat
    <3> SUFFICES ASSUME NEW j \in b .. e PROVE au[j] \in Nat
      OBVIOUS
    <3>1. j \in 1 .. Len(au)
      BY <1>1, <1>2
    <3>. QED BY <1>2, <3>1, ElementOfSeq
  <2>2. /\ s \in Seq(Nat) /\ Len(s) = (IF b =< e THEN e - b + 1 ELSE 0)
        /\ \A j \in 1 .. e - b + 1 : s[j] = au[b + j - 1]
    BY <1>1, <2>1, SubSeqProperties
  <2>3. b =< e /\ e - b + 1 = 3 + Len(p)
    BY <1>1
  <2>. QED BY <2>2, <2>3
<1> HIDE DEF s
<1>5. ASSUME NEW j \in 1 .. 3 + Len(p) PROVE s[j] = x[j]
  <2>1. s[j] = au[b + j - 1]
    BY <1>4
  <2>2. CASE j = 1
    <3>1. b + j - 1 = b
      BY <1>1, <2>2
    <3>. QED BY <1>1, <1>3, <2>1, <2>2, <3>1
  <2>3. CASE j = 2
    <3>1. b + j - 1 = b + 1
      BY <1>1, <2>3
    <3>. QED BY <1>1, <1>3, <2>1, <2>3, <3>1
  <2>4. CASE j = 3
    <3>1. b + j - 1 = b + 2
      BY <1>1, <2>4
    <3>. QED BY <1>1, <1>3, <2>1, <2>4, <3>1
  <2>5. CASE j > 3
    <3> DEFINE i == j - 3
    <3>1. i \in 1 .. Len(p) /\ j = 3 + i /\ b + j - 1 = b + 2 + i
      BY <1>1, <2>5
    <3> HIDE DEF i
    <3>2. x[3 + i] = p[i] /\ au[b + 2 + i] = p[i]
      BY <1>1, <1>3, <3>1
    <3>. QED BY <2>1, <3>1, <3>2
  <2>. QED BY <2>2, <2>3, <2>4, <2>5
<1>6. s = x
  BY <1>3, <1>4, <1>5, SeqEqual
<1>. QED BY <1>6 DEF s, x, b, e

-----------------------------------------------------------------------------
(* Parameter sets.                                                         *)

LEMMA GreatestNat ==
  ASSUME NEW N \in Nat, NEW S \in SUBSET (1 .. N), S # {}
  PROVE  \E m \in S : \A k \in S : k =< m
<1> DEFINE T == {N - k : k \in S}
<1>1. T \in SUBSET Nat /\ T # {}
  <2>1. \A k \in S : N - k \in Nat
    OBVIOUS
  <2>2. \E k \in S : TRUE
    OBVIOUS
  <2>. QED BY <2>1, <2>2
<1>2. PICK t \in T : \A n \in T : t =< n
  <2> HIDE DEF T
  <2>. QED BY <1>1, LeastNat
<1>3. PICK m \in S : t = N - m
  BY <1>2
<1>4. ASSUME NEW k \in S PROVE k =< m
  <2>1. N - m =< N - k
    BY <1>2, <1>3
  <2>. QED BY <2>1
<1>. QED BY <1>4, Zenon

\* l is the last unit of a type.
IsLast(u, type, l) ==
  /\ l \in 1 .. Len(u) /\ u[l].type = type
  /\ \A k \in 1 .. Len(u) : u[k].type = type => k =< l

LEMMA LastExists ==
  ASSUME NEW u, Sound(u), NEW type, NEW k \in 1 .. Len(u), u[k].type = type
  PROVE  \E l : IsLast(u, type, l)
<1> DEFINE S == {i \in 1 .. Len(u) : u[i].type = type}
<1>1. Len(u) \in Nat /\ S \in SUBSET (1 .. Len(u)) /\ S # {}
  BY LenProperties DEF Sound
<1>2. PICK l \in S : \A i \in S : i =< l
  <2> HIDE DEF S
  <2>. QED BY <1>1, GreatestNat
<1>. QED BY <1>2 DEF IsLast

LEMMA LastOfIs ==
  ASSUME NEW u, Sound(u), NEW type, NEW old
  PROVE  /\ (\A k \in 1 .. Len(u) : u[k].type # type) => LastOf(u, type, old) = old
         /\ \A l : IsLast(u, type, l) => LastOf(u, type, old) = <<u[l]>>
<1>1. DOMAIN u = 1 .. Len(u) /\ Len(u) \in Nat
  BY LenProperties DEF Sound
<1>2. ASSUME \A k \in 1 .. Len(u) : u[k].type # type PROVE LastOf(u, type, old) = old
  BY <1>1, <1>2 DEF LastOf
<1>3. ASSUME NEW l, IsLast(u, type, l) PROVE LastOf(u, type, old) = <<u[l]>>
  <2> DEFINE is == {i \in DOMAIN u : u[i].type = type}
             c == CHOOSE i \in is : \A j \in is : j =< i
  <2>1. l \in is /\ \A j \in is : j =< l
    BY <1>1, <1>3 DEF IsLast
  <2>2. c \in is /\ \A j \in is : j =< c
    <3> HIDE DEF is
    <3>. QED BY <2>1
  <2>3. c = l
    <3>1. c \in Nat /\ l \in Nat /\ c =< l /\ l =< c
      BY <1>1, <2>1, <2>2
    <3> HIDE DEF c
    <3>. QED BY <3>1
  <2>4. LastOf(u, type, old) = IF is = {} THEN old ELSE <<u[c]>>
    BY DEF LastOf
  <2>5. is # {}
    BY <2>1
  <2> HIDE DEF is, c
  <2>. QED BY <2>3, <2>4, <2>5
<1>. QED BY <1>2, <1>3

LEMMA HasIs ==
  ASSUME NEW u, Sound(u), NEW type
  PROVE  Has(Nals(Bytes(u)), type) <=> \E k \in 1 .. Len(u) : u[k].type = type
<1>1. u \in Seq(NalUnits)
  BY DEF Sound
<1>2. PICK end : Laid(u, Bytes(u), end)
  BY <1>1, LaidOut
<1>3. Nals(Bytes(u)) = {[type |-> u[k].type, from |-> Begin(u, end, k), to |-> end[k]]
                          : k \in 1 .. Len(u)}
  BY <1>2, NalsAre
<1> DEFINE nal(k) == [type |-> u[k].type, from |-> Begin(u, end, k), to |-> end[k]]
<1>4. \A k \in 1 .. Len(u) : nal(k).type = u[k].type
  OBVIOUS
<1>5. Nals(Bytes(u)) = {nal(k) : k \in 1 .. Len(u)}
  BY <1>3
<1> HIDE DEF nal
<1>. QED BY <1>4, <1>5 DEF Has

LEMMA KeptIs ==
  ASSUME NEW u, Sound(u), NEW type, NEW old
  PROVE  LET kept == Kept(Bytes(u), Nals(Bytes(u)), type, old)
         IN  /\ (\A k \in 1 .. Len(u) : u[k].type # type) => kept = old
             /\ \A l : IsLast(u, type, l) => kept = NalBytes(Shorten(u[l]))
<1>1. u \in Seq(NalUnits) /\ Len(u) \in Nat
  BY LenProperties DEF Sound
<1>2. PICK end : Laid(u, Bytes(u), end)
  BY <1>1, LaidOut
<1> DEFINE au == Bytes(u)
           nal(k) == [type |-> u[k].type, from |-> Begin(u, end, k), to |-> end[k]]
           found == {n \in Nals(au) : n.type = type}
           last == CHOOSE n \in found : \A k \in found : k.from =< n.from
<1>3. Nals(au) = {nal(k) : k \in 1 .. Len(u)}
  BY <1>2, NalsAre
<1>4. Kept(au, Nals(au), type, old) = IF found = {} THEN old ELSE SubSeq(au, last.from, last.to)
  BY DEF Kept
<1>5. ASSUME \A k \in 1 .. Len(u) : u[k].type # type PROVE found = {}
  BY <1>3, <1>5
<1>6. ASSUME NEW l, IsLast(u, type, l) PROVE found # {} /\ last = nal(l)
  <2>1. l \in 1 .. Len(u) /\ nal(l) \in found
    BY <1>3, <1>6 DEF IsLast
  <2>2. ASSUME NEW n \in found
        PROVE  \E k \in 1 .. Len(u) : n = nal(k) /\ k =< l
    <3>1. PICK k \in 1 .. Len(u) : n = nal(k)
      BY <1>3
    <3>2. u[k].type = type
      BY <3>1
    <3>. QED BY <1>6, <3>1, <3>2 DEF IsLast
  <2>3. ASSUME NEW k \in 1 .. Len(u), k < l PROVE Begin(u, end, k) < Begin(u, end, l)
    <3>1. Framed(u, au, end, k) /\ Framed(u, au, end, l)
      BY <1>2, <2>1, UnitFramed
    <3>2. end[k] < Begin(u, end, l)
      BY <1>2, <2>1, <2>3, Ascending
    <3>3. /\ Begin(u, end, k) + 3 =< end[k] /\ Begin(u, end, k) \in Nat /\ end[k] \in Nat
          /\ Begin(u, end, l) \in Nat
      BY <3>1 DEF Framed
    <3>. QED BY <3>2, <3>3
  <2>4. Begin(u, end, l) \in Nat
    <3>1. Framed(u, au, end, l)
      BY <1>2, <2>1, UnitFramed
    <3>. QED BY <3>1 DEF Framed
  <2>5. \A n \in found : n.from =< nal(l).from
    <3> SUFFICES ASSUME NEW n \in found PROVE n.from =< Begin(u, end, l)
      OBVIOUS
    <3> HIDE DEF found
    <3>1. PICK k \in 1 .. Len(u) : n = nal(k) /\ k =< l
      BY <2>2
    <3>2. n.from = Begin(u, end, k)
      BY <3>1
    <3>3. CASE k = l
      BY <2>4, <3>2, <3>3
    <3>4. CASE k < l
      <4>1. Begin(u, end, k) < Begin(u, end, l) /\ Framed(u, au, end, k)
        BY <1>2, <2>3, <3>4, UnitFramed
      <4>2. Begin(u, end, k) \in Nat
        BY <4>1 DEF Framed
      <4>. QED BY <2>4, <3>2, <4>1, <4>2
    <3>. QED BY <1>1, <2>1, <3>1, <3>3, <3>4
  <2>6. last \in found /\ \A n \in found : n.from =< last.from
    <3> HIDE DEF found
    <3>. QED BY <2>1, <2>5
  <2> HIDE DEF found, last
  <2>7. PICK k \in 1 .. Len(u) : last = nal(k) /\ k =< l
    BY <2>2, <2>6
  <2>8. ~(k < l)
    <3> SUFFICES ASSUME k < l PROVE FALSE
      OBVIOUS
    <3>1. Begin(u, end, k) < Begin(u, end, l) /\ Framed(u, au, end, k)
      BY <1>2, <2>3, UnitFramed
    <3>2. Begin(u, end, k) \in Nat
      BY <3>1 DEF Framed
    <3>3. Begin(u, end, l) =< Begin(u, end, k)
      BY <2>1, <2>6, <2>7
    <3>. QED BY <2>4, <3>1, <3>2, <3>3
  <2>9. k = l
    BY <1>1, <2>1, <2>7, <2>8
  <2>. QED BY <2>1, <2>7, <2>9
<1>7. ASSUME NEW l, IsLast(u, type, l)
      PROVE  Kept(au, Nals(au), type, old) = NalBytes(Shorten(u[l]))
  <2>1. l \in 1 .. Len(u)
    BY <1>7 DEF IsLast
  <2>2. found # {} /\ last.from = Begin(u, end, l) /\ last.to = end[l]
    <3>1. found # {} /\ last = nal(l)
      BY <1>6, <1>7
    <3> HIDE DEF found, last
    <3>. QED BY <3>1
  <2> HIDE DEF found, last
  <2>3. SubSeq(au, Begin(u, end, l), end[l]) = NalBytes(Shorten(u[l]))
    BY <1>2, <2>1, KeptBytes
  <2> HIDE DEF au
  <2>. QED BY <1>4, <2>2, <2>3
<1>. QED BY <1>4, <1>5, <1>7

LEMMA EmptyBytes == Bytes(<<>>) = <<>> /\ Short(<<>>) = <<>>
<1>1. UpTo(<<>>) = [n \in 0 .. 0 |-> IF n = 0 THEN <<>> ELSE UpTo(<<>>)[n - 1] \o NalBytes(<<>>[n])]
  BY UpToExists
<1>2. UpTo(<<>>)[0] = <<>>
  BY <1>1
<1>. QED BY <1>2 DEF Bytes, Short

LEMMA OneNal ==
  ASSUME NEW a \in NalUnits
  PROVE  Bytes(Short(<<a>>)) = NalBytes(Shorten(a))
<1> DEFINE v == Short(<<a>>)
<1>1. Len(v) = 1 /\ v[1] = Shorten(a)
  <2> DEFINE w == <<a>>
  <2>1. DOMAIN w = 1 .. 1 /\ w[1] = a
    OBVIOUS
  <2> HIDE DEF w
  <2>2. v = [i \in 1 .. 1 |-> Shorten(w[i])]
    BY <2>1 DEF Short, Shorten, w
  <2> HIDE DEF v
  <2>. QED BY <2>1, <2>2
<1> HIDE DEF v
<1>2. UpTo(v) = [n \in 0 .. 1 |-> IF n = 0 THEN <<>> ELSE UpTo(v)[n - 1] \o NalBytes(v[n])]
  BY <1>1, UpToExists
<1>3. UpTo(v)[0] = <<>> /\ UpTo(v)[1] = UpTo(v)[0] \o NalBytes(v[1])
  BY <1>2
<1>4. NalBytes(Shorten(a)) \in Seq(Nat)
  BY ShortBytes, NalShape
<1>5. UpTo(v)[1] = NalBytes(Shorten(a))
  BY <1>1, <1>3, <1>4, ConcatEmptySeq
<1>. QED BY <1>1, <1>5 DEF Bytes, v

LEMMA TwoNals ==
  ASSUME NEW a \in NalUnits, NEW c \in NalUnits
  PROVE  Bytes(Short(<<a>> \o <<c>>)) = NalBytes(Shorten(a)) \o NalBytes(Shorten(c))
<1> DEFINE v == Short(<<a>> \o <<c>>)
<1>1. Len(v) = 2 /\ v[1] = Shorten(a) /\ v[2] = Shorten(c)
  <2> DEFINE w == <<a>> \o <<c>>
  <2>1. DOMAIN w = 1 .. 2 /\ w[1] = a /\ w[2] = c
    OBVIOUS
  <2> HIDE DEF w
  <2>2. v = [i \in 1 .. 2 |-> Shorten(w[i])]
    BY <2>1 DEF Short, Shorten, w
  <2> HIDE DEF v
  <2>. QED BY <2>1, <2>2
<1> HIDE DEF v
<1>2. UpTo(v) = [n \in 0 .. 2 |-> IF n = 0 THEN <<>> ELSE UpTo(v)[n - 1] \o NalBytes(v[n])]
  BY <1>1, UpToExists
<1>3. /\ UpTo(v)[0] = <<>> /\ UpTo(v)[1] = UpTo(v)[0] \o NalBytes(v[1])
      /\ UpTo(v)[2] = UpTo(v)[1] \o NalBytes(v[2])
  <2>1. /\ 0 \in 0 .. 2 /\ 1 \in 0 .. 2 /\ 2 \in 0 .. 2 /\ 1 - 1 = 0 /\ 2 - 1 = 1
        /\ 1 # 0 /\ 2 # 0
    OBVIOUS
  <2>. QED BY <1>2, <2>1, Zenon
<1>4. NalBytes(Shorten(a)) \in Seq(Nat)
  BY ShortBytes, NalShape
<1>5. UpTo(v)[1] = NalBytes(Shorten(a))
  BY <1>1, <1>3, <1>4, ConcatEmptySeq
<1>. QED BY <1>1, <1>3, <1>5 DEF Bytes, v

\* The fixer holds the bytes of the parameter set made last, with a short code.
Holds(bytes, set) ==
  \/ set = <<>> /\ bytes = <<>>
  \/ \E n \in NalUnits : set = <<n>> /\ bytes = NalBytes(Shorten(n))

FixerHolds == Holds(sps, told.sps) /\ Holds(pps, told.pps)

LEMMA NalNotEmpty ==
  ASSUME NEW n \in NalUnits PROVE NalBytes(Shorten(n)) # <<>> /\ NalBytes(Shorten(n)) \in Seq(Nat)
<1>1. Shorten(n) \in NalUnits
  BY ShortBytes
<1> DEFINE m == Shorten(n)
           p == Payload(m)
           x == NalBytes(m)
<1>2. /\ p \in Seq(Nat) /\ Len(p) >= 1 /\ x \in Seq(Nat) /\ Len(x) = CodeLen(m) + Len(p)
  BY <1>1, NalShape, Zenon
<1>3. CodeLen(m) \in Nat
  BY DEF CodeLen
<1> HIDE DEF m, p, x
<1>4. Len(p) \in Nat
  BY <1>2
<1>5. Len(x) # 0
  BY <1>2, <1>3, <1>4
<1>. QED BY <1>2, <1>5 DEF x, m

LEMMA HoldsOn ==
  ASSUME NEW u, Sound(u), NEW type, NEW set, NEW bytes, Holds(bytes, set)
  PROVE  Holds(Kept(Bytes(u), Nals(Bytes(u)), type, bytes), LastOf(u, type, set))
<1>1. CASE \A k \in 1 .. Len(u) : u[k].type # type
  <2>1. Kept(Bytes(u), Nals(Bytes(u)), type, bytes) = bytes
    BY <1>1, KeptIs
  <2>2. LastOf(u, type, set) = set
    BY <1>1, LastOfIs
  <2>. QED BY <2>1, <2>2
<1>2. CASE \E k \in 1 .. Len(u) : u[k].type = type
  <2>1. PICK l : IsLast(u, type, l)
    BY <1>2, LastExists
  <2>2. /\ Kept(Bytes(u), Nals(Bytes(u)), type, bytes) = NalBytes(Shorten(u[l]))
        /\ LastOf(u, type, set) = <<u[l]>>
    BY <2>1, KeptIs, LastOfIs
  <2>3. u[l] \in NalUnits
    <3>1. u \in Seq(NalUnits) /\ l \in 1 .. Len(u)
      BY <2>1 DEF Sound, IsLast
    <3>. QED BY <3>1, ElementOfSeq
  <2>. QED BY <2>2, <2>3, Zenon DEF Holds
<1>. QED BY <1>1, <1>2

LEMMA SetsInFront ==
  ASSUME NEW s, NEW p, NEW setS, NEW setP, Holds(s, setS), Holds(p, setP)
  PROVE  /\ setS # <<>> <=> s # <<>>
         /\ setP # <<>> <=> p # <<>>
         /\ setS # <<>> /\ setP # <<>> => Bytes(Short(setS \o setP)) = s \o p
<1>1. (setS # <<>> <=> s # <<>>) /\ (setP # <<>> <=> p # <<>>)
  <2>1. ASSUME NEW b, NEW set, Holds(b, set) PROVE set # <<>> <=> b # <<>>
    <3>1. ASSUME NEW n \in NalUnits, set = <<n>>, b = NalBytes(Shorten(n))
          PROVE  set # <<>> /\ b # <<>>
      BY <3>1, NalNotEmpty
    <3>. QED BY <2>1, <3>1 DEF Holds
  <2>. QED BY <2>1
<1>2. ASSUME setS # <<>>, setP # <<>> PROVE Bytes(Short(setS \o setP)) = s \o p
  <2>1. PICK a \in NalUnits : setS = <<a>> /\ s = NalBytes(Shorten(a))
    BY <1>2 DEF Holds
  <2>2. PICK c \in NalUnits : setP = <<c>> /\ p = NalBytes(Shorten(c))
    BY <1>2 DEF Holds
  <2>. QED BY <2>1, <2>2, TwoNals
<1>. QED BY <1>1, <1>2

LEMMA UnitsSound ==
  ASSUME NEW u \in Units PROVE Sound(u) /\ DOMAIN u = 1 .. Len(u)
<1>1. u \in Seq(NalUnits) /\ \A i \in DOMAIN u : Escaped(u[i])
  BY UnitAssumption, Zenon DEF UnitAssumption
<1>2. DOMAIN u = 1 .. Len(u)
  BY <1>1, LenProperties
<1>. QED BY <1>1, <1>2 DEF Sound

LEMMA FixerInductive ==
  /\ SetupInit => FixerHolds /\ KeyFramesComplete
  /\ FixerHolds /\ KeyFramesComplete /\ [SetupNext]_setupVars => (FixerHolds /\ KeyFramesComplete)'
<1>1. SetupInit => FixerHolds /\ KeyFramesComplete
  BY DEF SetupInit, FixerHolds, Holds, KeyFramesComplete
<1>2. ASSUME FixerHolds, KeyFramesComplete, [SetupNext]_setupVars
      PROVE  (FixerHolds /\ KeyFramesComplete)'
  <2>1. ASSUME UNCHANGED fixer PROVE (FixerHolds /\ KeyFramesComplete)'
    <3>1. UNCHANGED <<sps, pps, made, out, told>>
      BY <2>1 DEF fixer
    <3>2. FixerHolds'
      BY <1>2, <3>1 DEF FixerHolds, Holds
    <3>3. (Complete(made) <=> Complete(made)')
      BY <3>1 DEF Complete
    <3>4. KeyFramesComplete'
      BY <1>2, <3>1, <3>3 DEF KeyFramesComplete
    <3>. QED BY <3>2, <3>4
  <2>2. CASE TakeIndex \/ Rearrange \/ CaptureInit \/ Try \/ UNCHANGED setupVars
    <3>1. UNCHANGED fixer
      BY <2>2 DEF TakeIndex, Rearrange, CaptureInit, Try, setupVars
    <3>. QED BY <2>1, <3>1
  <2>3. CASE CreateEncoder
    <3>1. /\ sps' = <<>> /\ pps' = <<>> /\ made' = <<>> /\ told' = [sps |-> <<>>, pps |-> <<>>]
      BY <2>3 DEF CreateEncoder
    <3>. QED BY <3>1 DEF FixerHolds, Holds, KeyFramesComplete
  <2>4. CASE Process
    <3> DEFINE u == made'
               au == Bytes(u)
    <3>1. /\ u \in Units
          /\ sps' = Kept(UnitBytes[u], UnitNals[u], Sps, sps)
          /\ pps' = Kept(UnitBytes[u], UnitNals[u], Pps, pps)
          /\ out' = Fixed(UnitBytes[u], UnitNals[u], sps', pps')
          /\ told' = [sps |-> LastOf(u, Sps, told.sps), pps |-> LastOf(u, Pps, told.pps)]
      BY <2>4 DEF Process
    <3>2. UnitBytes[u] = au /\ UnitNals[u] = Nals(au) /\ UnitBytes' = UnitBytes
      BY <3>1 DEF UnitBytes, UnitNals
    <3>3. Sound(u) /\ DOMAIN u = 1 .. Len(u)
      BY <3>1, UnitsSound
    <3> HIDE DEF u
    <3>4. /\ told'.sps = LastOf(u, Sps, told.sps) /\ told'.pps = LastOf(u, Pps, told.pps)
      BY <3>1
    <3>5. Holds(sps', told'.sps) /\ Holds(pps', told'.pps)
      BY <1>2, <3>1, <3>2, <3>3, <3>4, HoldsOn, Zenon DEF FixerHolds
    <3>6. FixerHolds'
      BY <3>5 DEF FixerHolds, Holds
    <3>7. /\ told'.sps # <<>> <=> sps' # <<>>
          /\ told'.pps # <<>> <=> pps' # <<>>
          /\ told'.sps # <<>> /\ told'.pps # <<>>
               => Bytes(Short(told'.sps \o told'.pps)) = sps' \o pps'
      BY <3>5, SetsInFront, Zenon
    <3>8. /\ Has(Nals(au), Idr) <=> \E i \in DOMAIN u : u[i].type = Idr
          /\ Has(Nals(au), Sps) <=> \E i \in DOMAIN u : u[i].type = Sps
      BY <3>3, HasIs, Zenon
    <3>9. Complete(made)' <=>
            Has(Nals(au), Idr) /\ ~Has(Nals(au), Sps) /\ sps' # <<>> /\ pps' # <<>>
      BY <3>7, <3>8 DEF Complete, u
    <3>10. out' = IF Complete(made)' THEN sps' \o pps' \o au ELSE au
      BY <3>1, <3>2, <3>9 DEF Fixed
    <3>11. Complete(made)' => Bytes(Short(told'.sps \o told'.pps)) = sps' \o pps'
      BY <3>7, <3>9
    <3>12. UnitBytes[made]' = au
      BY <3>2 DEF u
    <3>13. KeyFramesComplete'
      BY <3>10, <3>11, <3>12 DEF KeyFramesComplete
    <3>. QED BY <3>6, <3>13
  <2>. QED BY <1>2, <2>2, <2>3, <2>4 DEF SetupNext
<1>. QED BY <1>1, <1>2

\* Behind every key frame's parameter sets: for any units, of any number and
\* length and with either start code, in which no start code is hidden, what
\* is handed on begins with the SPS and PPS made last if they were missing,
\* and is the unit itself otherwise.
THEOREM KeyFramesAreComplete == SetupSpec => []KeyFramesComplete
<1> DEFINE IInv == FixerHolds /\ KeyFramesComplete
<1>1. SetupInit => IInv
  BY FixerInductive
<1>2. IInv /\ [SetupNext]_setupVars => IInv'
  BY FixerInductive
<1>. QED BY <1>1, <1>2, PTL DEF SetupSpec

-----------------------------------------------------------------------------
(* Types.                                                                  *)

LEMMA SizeOfInNat ==
  ASSUME NEW w \in Nat, NEW h \in Nat, NEW want \in Nat \X Nat, NEW scale
  PROVE  SizeOf(w, h, want, scale) \in Nat \X Nat
<1>1. want[1] \in Nat /\ want[2] \in Nat
  OBVIOUS
<1>2. Fit(want[1], w) \in Nat /\ Fit(want[2], h) \in Nat
  BY <1>1, FitIsEven
<1>3. scale \in {2, 4} => w \div scale \in Nat /\ h \div scale \in Nat
  OBVIOUS
<1>. QED BY <1>2, <1>3 DEF SizeOf

LEMMA SelectedTypes ==
  ASSUME desk \in Desks, stage = "index", CaptureInit, size \in Nat \X Nat,
         sel \in Outputs \cup {NoOutput}
  PROVE  sel' \in Outputs \cup {NoOutput} /\ size' \in Nat \X Nat
<1> DEFINE O == Outputs
<1>1. desk \in Seq(O)
  BY SetupAssumption, Zenon DEF SetupAssumption
<1>2. CASE Choice = {}
  BY <1>2 DEF CaptureInit
<1>3. CASE Choice # {}
  <2>1. Choice \in SUBSET DOMAIN desk
    BY DEF Choice, Attached
  <2>2. Choice \in SUBSET Nat
    BY <2>1, Positions
  <2>3. First(Choice) \in DOMAIN desk
    BY <1>3, <2>1, <2>2, FirstIsOne
  <2>4. sel' = desk[First(Choice)]
    BY <1>3 DEF CaptureInit
  <2>5. sel' \in O
    <3> HIDE DEF O
    <3>. QED BY <1>1, <2>3, <2>4
  <2>6. sel'.w \in Nat /\ sel'.h \in Nat
    BY <2>3, <2>4, OutputOfDesk
  <2>7. size' \in Nat \X Nat
    <3>1. CASE UNCHANGED size
      BY <3>1
    <3>2. ASSUME NEW want \in SizeArgs, NEW scale \in Scales,
                 size' = IF sel'.turned THEN SizeOf(sel'.h, sel'.w, want, scale)
                         ELSE SizeOf(sel'.w, sel'.h, want, scale)
          PROVE  size' \in Nat \X Nat
      <4>1. want \in Nat \X Nat
        BY SetupAssumption DEF SetupAssumption
      <4>. QED BY <2>6, <3>2, <4>1, SizeOfInNat
    <3>. QED BY <1>3, <3>1, <3>2 DEF CaptureInit
  <2>. QED BY <2>5, <2>7
<1>. QED BY <1>2, <1>3

LEMMA BytesInNat ==
  ASSUME NEW u, Sound(u) PROVE Bytes(u) \in Seq(Nat)
<1>1. \E end : Laid(u, Bytes(u), end)
  BY LaidOut DEF Sound
<1>. QED BY <1>1 DEF Laid

LEMMA HeldTypes ==
  ASSUME NEW bytes, NEW set, Holds(bytes, set)
  PROVE  bytes \in Seq(Nat) /\ set \in Seq(NalUnits)
<1>1. CASE set = <<>> /\ bytes = <<>>
  BY <1>1
<1>2. ASSUME NEW n \in NalUnits, set = <<n>>, bytes = NalBytes(Shorten(n))
      PROVE  bytes \in Seq(Nat) /\ set \in Seq(NalUnits)
  BY <1>2, NalNotEmpty
<1>. QED BY <1>1, <1>2 DEF Holds

LEMMA SetupTypeInductive ==
  /\ SetupInit => SetupTypeOK
  /\ SetupTypeOK /\ Looked /\ Tried /\ FixerHolds' /\ [SetupNext]_setupVars => SetupTypeOK'
<1>1. SetupInit => SetupTypeOK
  <2> SUFFICES ASSUME SetupInit PROVE SetupTypeOK
    OBVIOUS
  <2>1. /\ index \in Int /\ size \in Nat \X Nat
        /\ listed \in Seq(Encoders) /\ tries \in Seq(Encoders)
        /\ at \in (0 .. Len(tries)) \X {"texture", "memory"}
        /\ sps \in Seq(Nat) /\ pps \in Seq(Nat) /\ out \in Seq(Nat)
        /\ told \in [sps : Seq(NalUnits), pps : Seq(NalUnits)]
    BY DEF SetupInit
  <2>. QED BY <2>1, Zenon DEF SetupInit, SetupTypeOK
<1>2. ASSUME SetupTypeOK, Looked, Tried, FixerHolds', [SetupNext]_setupVars PROVE SetupTypeOK'
  <2> USE <1>2
  <2>1. CASE TakeIndex
    <3>1. desk \in Desks /\ stage' = "index"
      BY <2>1 DEF TakeIndex, Looked
    <3>2. index' \in Int
      <4>1. CASE kind = "mirror"
        BY <2>1, <4>1 DEF TakeIndex, SetupTypeOK
      <4>2. CASE kind # "mirror"
        <5>1. PICK i \in Attached : index' = i - 1
          BY <2>1, <4>2 DEF TakeIndex
        <5>2. i \in Nat \ {0}
          BY <3>1, Positions DEF Attached
        <5>. QED BY <5>1, <5>2
      <4>. QED BY <4>1, <4>2
    <3>. QED BY <2>1, <3>1, <3>2, Zenon DEF TakeIndex, SetupTypeOK, creating, fixer
  <2>2. CASE Rearrange
    BY <2>2, Zenon DEF Rearrange, SetupTypeOK, creating, fixer
  <2>3. CASE CaptureInit
    <3>1. stage = "index" /\ desk \in Desks
      BY <2>3 DEF CaptureInit, Looked
    <3>2. sel' \in Outputs \cup {NoOutput} /\ size' \in Nat \X Nat
      BY <2>3, <3>1, SelectedTypes DEF SetupTypeOK
    <3>3. stage' \in {"captured", "failed"}
      BY <2>3 DEF CaptureInit
    <3>. QED BY <2>3, <3>2, <3>3, Zenon DEF CaptureInit, SetupTypeOK, creating, fixer
  <2>4. CASE CreateEncoder
    <3>1. PICK cs \in UNION {[1 .. n -> Encoders] : n \in 1 .. MaxEncoders}, sysmem \in BOOLEAN :
            /\ listed' = cs
            /\ \E p \in Orders(cs) : tries' = [k \in DOMAIN p |-> cs[p[k]]]
            /\ at' = FirstPath(tries', 1, sysmem)
            /\ banned' = sysmem
      BY <2>4 DEF CreateEncoder
    <3>2. PICK n \in 1 .. MaxEncoders : cs \in [1 .. n -> Encoders]
      OBVIOUS
    <3>3. n \in Nat \ {0} /\ DOMAIN cs = 1 .. n
      <4>1. MaxEncoders \in Nat
        BY SetupAssumption DEF SetupAssumption
      <4>. QED BY <3>2, <4>1
    <3>4. PICK p \in Orders(cs) : tries' = [k \in DOMAIN p |-> cs[p[k]]]
      BY <3>1
    <3>5. p \in [1 .. n -> 1 .. n]
      BY <3>3, <3>4 DEF Orders, Surjection
    <3>6. cs \in Seq(Encoders)
      BY <3>2, <3>3
    <3>7. tries' \in Seq(Encoders) /\ Len(tries') = n
      <4>1. tries' = [k \in 1 .. n |-> cs[p[k]]]
        BY <3>4, <3>5
      <4>2. \A k \in 1 .. n : cs[p[k]] \in Encoders
        BY <3>2, <3>5
      <4>. QED BY <3>3, <4>1, <4>2
    <3>8. at' \in (0 .. Len(tries')) \X {"texture", "memory"}
      BY <3>1, <3>3, <3>7 DEF FirstPath
    <3>9. /\ sps' \in Seq(Nat) /\ pps' \in Seq(Nat) /\ out' \in Seq(Nat) /\ made' = <<>>
          /\ told' \in [sps : Seq(NalUnits), pps : Seq(NalUnits)] /\ index' \in Int
      BY <2>4 DEF CreateEncoder
    <3>10. /\ stage' = "trying" /\ kind' = "none" /\ desk' = <<>> /\ moved' = FALSE /\ source' = {}
           /\ UNCHANGED <<sel, size>>
      BY <2>4 DEF CreateEncoder
    <3>. QED BY <3>1, <3>6, <3>7, <3>8, <3>9, <3>10, Zenon DEF SetupTypeOK
  <2>5. CASE Try
    <3> DEFINE i == at[1]
               c == tries[i]
    <3>1. /\ i \in 1 .. Len(tries) /\ Len(tries) \in Nat
          /\ stage = "trying" /\ UNCHANGED <<output, fixer>>
      BY <2>5 DEF Try, Tried
    <3>2. CASE Works(c, at[2])
      <4>1. /\ stage' = "running" /\ listed' = <<>> /\ tries' = <<>> /\ at' = <<0, "memory">>
            /\ ~banned'
        BY <2>5, <3>2 DEF Try
      <4>2. /\ listed' \in Seq(Encoders) /\ tries' \in Seq(Encoders)
            /\ at' \in (0 .. Len(tries')) \X {"texture", "memory"}
        BY <4>1
      <4>. QED BY <2>5, <3>1, <3>2, <4>1, <4>2, Zenon DEF Try, SetupTypeOK, output, choosing, fixer
    <3>3. CASE ~Works(c, at[2])
      <4>1. /\ banned' = (banned \/ PoolFails(c, at[2]))
            /\ \/ at' = <<i, "memory">> /\ stage' = stage
               \/ i < Len(tries) /\ at' = FirstPath(tries, i + 1, banned) /\ stage' = stage
               \/ at' = at /\ stage' = "failed"
            /\ UNCHANGED <<listed, tries>>
        BY <2>5, <3>3 DEF Try
      <4>2. banned' \in BOOLEAN
        BY <4>1 DEF SetupTypeOK, PoolFails, TypesTaken, Device
      <4> HIDE DEF i, c
      <4>3. at' \in (0 .. Len(tries')) \X {"texture", "memory"}
        BY <3>1, <4>1 DEF SetupTypeOK, FirstPath
      <4>4. stage' \in {"trying", "failed"}
        BY <3>1, <4>1
      <4>. QED BY <3>1, <4>1, <4>2, <4>3, <4>4, Zenon DEF SetupTypeOK, output, choosing, fixer
    <3>. QED BY <3>2, <3>3
  <2>6. CASE Process
    <3> DEFINE u == made'
    <3>1. /\ u \in Units /\ out' = Fixed(UnitBytes[u], UnitNals[u], sps', pps')
          /\ told' = [sps |-> LastOf(u, Sps, told.sps), pps |-> LastOf(u, Pps, told.pps)]
          /\ UNCHANGED <<stage, output, creating>>
      BY <2>6 DEF Process
    <3>2. Sound(u) /\ UnitBytes[u] = Bytes(u)
      BY <3>1, UnitsSound DEF UnitBytes
    <3> HIDE DEF u
    <3>3. Bytes(u) \in Seq(Nat)
      BY <3>2, BytesInNat
    <3>4. Holds(sps', told'.sps) /\ Holds(pps', told'.pps)
      BY DEF FixerHolds, Holds
    <3>5. /\ sps' \in Seq(Nat) /\ pps' \in Seq(Nat)
          /\ told'.sps \in Seq(NalUnits) /\ told'.pps \in Seq(NalUnits)
      BY <3>4, HeldTypes
    <3>6. out' \in Seq(Nat)
      BY <3>1, <3>2, <3>3, <3>5 DEF Fixed
    <3>7. told' \in [sps : Seq(NalUnits), pps : Seq(NalUnits)]
      BY <3>1, <3>5
    <3>. QED BY <3>1, <3>5, <3>6, <3>7, Zenon DEF SetupTypeOK, output, choosing, creating, u
  <2>7. CASE UNCHANGED setupVars
    BY <2>7, Zenon DEF setupVars, SetupTypeOK, output, choosing, creating, fixer
  <2>. QED BY <2>1, <2>2, <2>3, <2>4, <2>5, <2>6, <2>7 DEF SetupNext
<1>. QED BY <1>1, <1>2

\* The state of the set-up keeps its types: what is captured is an output, the
\* size streamed a pair of naturals, what is handed on a sequence of bytes.
THEOREM SetupTypeCorrect == SetupSpec => []SetupTypeOK
<1> DEFINE IInv == /\ Looked /\ ShowsVirtual /\ Tried
                   /\ FixerHolds /\ KeyFramesComplete /\ SetupTypeOK
<1>1. SetupInit => IInv
  BY LookedInductive, TriedInductive, FixerInductive, SetupTypeInductive
<1>2. IInv /\ [SetupNext]_setupVars => IInv'
  BY LookedInductive, TriedInductive, FixerInductive, SetupTypeInductive
<1>. QED BY <1>1, <1>2, PTL DEF SetupSpec

=============================================================================
