------------------------ MODULE TabletReceiverProofs ------------------------
(* Proofs about the decoder under any client, about the receiver, which is  *)
(* one, and about the page's status: for every set of input buffers and any *)
(* number of access units, connections, surfaces and statuses.              *)
EXTENDS TabletReceiver, ReceiverStatus, FiniteSetTheorems, TLAPS

\* DTypeOK with what the pump holds while it is filling a buffer.
DTypeInv ==
  /\ DTypeOK
  /\ pump = "fill" => hand.index \in Buffers /\ hand.frame \in 1..MaxFeeds

LEMMA DTypeInductive ==
  /\ DInit => DTypeInv
  /\ DTypeInv /\ [DNext]_dvars => DTypeInv'
<1> USE DecoderAssumption DEF DecoderAssumption
<1>1. DInit => DTypeInv
  <2> SUFFICES ASSUME DInit PROVE DTypeInv
    OBVIOUS
  <2>1. /\ frames \in Seq(1..MaxFeeds) /\ inputs \in Seq(Buffers)
        /\ pushed \in Seq(1..MaxFeeds) /\ fed \in 0..MaxFeeds
    BY DEF DInit
  <2>2. hand \in [index : Buffers \cup {"none"}, frame : 0..MaxFeeds]
    BY DEF DInit, NoHand
  <2>. QED BY <2>1, <2>2 DEF DInit, DTypeInv, DTypeOK
<1>2. ASSUME DTypeInv, [DNext]_dvars PROVE DTypeInv'
  <2> USE <1>2 DEF DTypeInv, DTypeOK, Notified
  <2>1. CASE DStart
    <3>1. /\ <<>> \in Seq(1..MaxFeeds) /\ <<>> \in Seq(Buffers)
          /\ NoHand \in [index : Buffers \cup {"none"}, frame : 0..MaxFeeds]
      BY DEF NoHand
    <3>. QED BY <2>1, <3>1 DEF DStart
  <2>2. CASE DStartFail
    BY <2>2 DEF DStartFail, dvars
  <2>3. CASE Feed
    <3>1. frames' \in Seq(1..MaxFeeds)
      <4>1. fed + 1 \in 1..MaxFeeds
        BY <2>3 DEF Feed
      <4>2. CASE Len(frames) >= MaxQueued
        <5>1. frames # <<>>
          BY <4>2 DEF MaxQueued
        <5>2. Tail(frames) \in Seq(1..MaxFeeds)
          BY <5>1, frames \in Seq(1..MaxFeeds)
        <5>. QED BY <2>3, <4>1, <4>2, <5>2 DEF Feed
      <4>3. CASE ~(Len(frames) >= MaxQueued)
        BY <2>3, <4>1, <4>3 DEF Feed
      <4>. QED BY <4>2, <4>3
    <3>. QED BY <2>3, <3>1 DEF Feed, MtxFree
  <2>4. CASE StopFlag
    BY <2>4 DEF StopFlag
  <2>5. CASE StopNotify
    BY <2>5 DEF StopNotify
  <2>6. CASE StopJoin
    BY <2>6 DEF StopJoin
  <2>7. ASSUME NEW b \in Buffers, NeedInput(b) PROVE DTypeInv'
    BY <2>7 DEF NeedInput
  <2>8. CASE PumpLock \/ PumpIdle \/ PumpBlock \/ PumpExit
    BY <2>8 DEF PumpLock, PumpIdle, PumpBlock, PumpExit
  <2>9. CASE PumpTake
    <3>1. /\ inputs # <<>> /\ frames # <<>>
          /\ inputs \in Seq(Buffers) /\ frames \in Seq(1..MaxFeeds)
      BY <2>9 DEF PumpTake, HasWork
    <3>2. Head(inputs) \in Buffers /\ Tail(inputs) \in Seq(Buffers)
      BY <3>1
    <3>3. Head(frames) \in 1..MaxFeeds /\ Tail(frames) \in Seq(1..MaxFeeds)
      <4> DEFINE Unit == 1..MaxFeeds
      <4>1. frames \in Seq(Unit)
        BY <3>1
      <4> HIDE DEF Unit
      <4>2. Len(frames) \in Nat \ {0}
        BY <3>1, <4>1
      <4>3. Head(frames) \in Unit /\ Tail(frames) \in Seq(Unit)
        BY <3>1, <4>1, <4>2
      <4>. QED BY <4>3 DEF Unit
    <3>4. hand'.index = Head(inputs) /\ hand'.frame = Head(frames)
      BY <2>9 DEF PumpTake
    <3>5. hand' \in [index : Buffers \cup {"none"}, frame : 0..MaxFeeds]
      BY <2>9, <3>2, <3>3 DEF PumpTake
    <3>. QED BY <2>9, <3>2, <3>3, <3>4, <3>5 DEF PumpTake
  <2>10. ASSUME NEW fits \in BOOLEAN, PumpFill(fits) PROVE DTypeInv'
    <3>1. NoHand \in [index : Buffers \cup {"none"}, frame : 0..MaxFeeds]
      BY DEF NoHand
    <3>2. hand.frame \in 1..MaxFeeds /\ hand.index \in Buffers
      BY <2>10 DEF PumpFill
    <3>3. pushed' \in Seq(1..MaxFeeds)
      <4>1. Append(pushed, hand.frame) \in Seq(1..MaxFeeds)
        BY <3>2, pushed \in Seq(1..MaxFeeds)
      <4>. QED BY <2>10, <4>1 DEF PumpFill
    <3>. QED BY <2>10, <3>1, <3>2, <3>3 DEF PumpFill
  <2>11. CASE UNCHANGED dvars
    BY <2>11 DEF dvars
  <2>. QED
    BY <2>1, <2>2, <2>3, <2>4, <2>5, <2>6, <2>7, <2>8, <2>9, <2>10, <2>11
    DEF DNext, StopStep, Codec, Pump
<1>. QED BY <1>1, <1>2

\* Every variable of the decoder keeps its type: in particular the pump only
\* ever gives buffers of the codec back to it.
THEOREM DTypeCorrect == DSpec => []DTypeOK
<1>1. DTypeInv => DTypeOK
  BY DEF DTypeInv
<1>. QED BY <1>1, DTypeInductive, PTL DEF DSpec

-----------------------------------------------------------------------------
(* Stop and the pump.                                                       *)

\* Whatever the order of Start, Stop and the pump's steps, the codec is only
\* destroyed when the pump is gone.
THEOREM CodecOutlives == DSpec => []CodecOutlivesPump
<1>1. DInit => CodecOutlivesPump
  BY DEF DInit, CodecOutlivesPump
<1>2. CodecOutlivesPump /\ [DNext]_dvars => CodecOutlivesPump'
  <2> SUFFICES ASSUME CodecOutlivesPump, [DNext]_dvars PROVE CodecOutlivesPump'
    OBVIOUS
  <2> USE DEF CodecOutlivesPump, Notified
  <2>1. CASE DStart \/ DStartFail \/ Feed
    BY <2>1 DEF DStart, DStartFail, Feed, dvars
  <2>2. CASE StopFlag \/ StopStep
    BY <2>2 DEF StopFlag, StopStep, StopNotify, StopJoin
  <2>3. CASE Codec
    BY <2>3 DEF Codec, NeedInput
  <2>4. CASE Pump
    BY <2>4 DEF Pump, PumpLock, PumpIdle, PumpBlock, PumpExit, PumpTake, PumpFill
  <2>5. CASE UNCHANGED dvars
    BY <2>5 DEF dvars
  <2>. QED BY <2>1, <2>2, <2>3, <2>4, <2>5 DEF DNext
<1>. QED BY <1>1, <1>2, PTL DEF DSpec

-----------------------------------------------------------------------------
(* The order of access units.                                               *)

\* The units pushed, the one in the pump's hands and the queued one carry
\* growing numbers, and the queued one is the last that was fed.
Line ==
  /\ OnlyNewestWaits
  /\ PushedInOrder
  /\ \A i \in DOMAIN pushed :
       /\ pushed[i] =< fed
       /\ pump = "fill" => pushed[i] < hand.frame
       /\ frames # <<>> => pushed[i] < fed
  /\ pump = "fill" => hand.frame =< fed
  /\ (pump = "fill" /\ frames # <<>>) => hand.frame < fed

LEMMA LineInductive == DTypeInv /\ Line /\ [DNext]_dvars => Line'
<1> SUFFICES ASSUME DTypeInv, Line, [DNext]_dvars PROVE Line'
  OBVIOUS
<1>0. MaxFeeds \in Nat
  BY DecoderAssumption DEF DecoderAssumption
<1> USE <1>0 DEF DTypeInv, DTypeOK, Line, OnlyNewestWaits, PushedInOrder, Notified
<1>1. CASE DStart
  BY <1>1 DEF DStart
<1>2. CASE DStartFail \/ UNCHANGED dvars
  BY <1>2 DEF DStartFail, dvars
<1>3. CASE Feed
  <2>1. frames' = <<fed + 1>>
    <3>1. CASE frames = <<>>
      BY <1>3, <3>1 DEF Feed, MaxQueued
    <3>2. CASE frames # <<>>
      <4>1. frames = <<fed>>
        BY <3>2
      <4>2. Len(frames) = 1 /\ Tail(frames) = <<>>
        BY <4>1
      <4>3. frames' = Append(<<>>, fed + 1)
        <5>1. (IF Len(frames) >= MaxQueued THEN Tail(frames) ELSE frames) = <<>>
          BY <4>2 DEF MaxQueued
        <5>. QED BY <1>3, <5>1 DEF Feed
      <4>. QED BY <4>3
    <3>. QED BY <3>1, <3>2
  <2>2. fed' = fed + 1 /\ pushed' = pushed /\ hand' = hand /\ (pump' = "fill" <=> pump = "fill")
    BY <1>3 DEF Feed
  <2>3. fed \in Nat /\ \A i \in DOMAIN pushed : pushed[i] \in Nat /\ pushed[i] < fed'
    <3>1. fed \in Nat /\ pushed \in Seq(Nat)
      OBVIOUS
    <3>2. \A i \in DOMAIN pushed : pushed[i] \in Nat /\ pushed[i] =< fed
      BY <3>1
    <3>. QED BY <2>2, <3>1, <3>2
  <2>4. pump = "fill" => hand.frame < fed'
    BY <2>2
  <2>5. OnlyNewestWaits' /\ PushedInOrder'
    BY <2>1, <2>2
  <2>. QED BY <2>2, <2>3, <2>4, <2>5
<1>4. CASE StopFlag \/ StopNotify
  BY <1>4 DEF StopFlag, StopNotify
<1>5. CASE StopJoin
  BY <1>5 DEF StopJoin
<1>6. CASE Codec
  BY <1>6 DEF Codec, NeedInput
<1>7. CASE PumpLock \/ PumpIdle \/ PumpBlock \/ PumpExit
  BY <1>7 DEF PumpLock, PumpIdle, PumpBlock, PumpExit
<1>8. CASE PumpTake
  <2>1. frames = <<fed>>
    BY <1>8 DEF PumpTake, HasWork
  <2>2. hand'.frame = fed /\ frames' = <<>> /\ UNCHANGED <<fed, pushed>>
    BY <1>8, <2>1 DEF PumpTake
  <2>. QED BY <2>1, <2>2
<1>9. ASSUME NEW fits \in BOOLEAN, PumpFill(fits) PROVE Line'
  <2>1. CASE fits
    <3>1. pushed' = Append(pushed, hand.frame) /\ UNCHANGED <<fed, frames>> /\ pump' = "lock"
      BY <1>9, <2>1 DEF PumpFill
    <3>2. /\ DOMAIN pushed' = 1..Len(pushed) + 1 /\ DOMAIN pushed = 1..Len(pushed)
          /\ pushed'[Len(pushed) + 1] = hand.frame
          /\ \A i \in 1..Len(pushed) : pushed'[i] = pushed[i] /\ pushed[i] < hand.frame
          /\ Len(pushed) \in Nat
      BY <1>9, <3>1 DEF PumpFill
    <3>3. hand.frame =< fed /\ (frames # <<>> => hand.frame < fed)
      BY <1>9 DEF PumpFill
    <3>4. PushedInOrder'
      <4> SUFFICES ASSUME NEW i \in DOMAIN pushed', NEW j \in DOMAIN pushed', i < j
                   PROVE  pushed'[i] < pushed'[j]
        OBVIOUS
      <4>1. i \in 1..Len(pushed)
        BY <3>2
      <4>2. CASE j = Len(pushed) + 1
        BY <3>2, <4>1, <4>2
      <4>3. CASE j \in 1..Len(pushed)
        BY <3>2, <4>1, <4>3
      <4>. QED BY <3>2, <4>2, <4>3
    <3>5. \A i \in DOMAIN pushed' : pushed'[i] \in Nat /\ pushed'[i] =< hand.frame
      BY <3>2
    <3>6. fed \in Nat /\ hand.frame \in Nat
      OBVIOUS
    <3>7. \A i \in DOMAIN pushed' :
            pushed'[i] =< fed' /\ (frames' # <<>> => pushed'[i] < fed')
      <4>1. fed' = fed /\ frames' = frames
        BY <3>1
      <4> SUFFICES ASSUME NEW i \in DOMAIN pushed'
                   PROVE  pushed'[i] =< fed /\ (frames # <<>> => pushed'[i] < fed)
        BY <4>1
      <4> DEFINE x == pushed'[i]  y == hand.frame
      <4>2. x \in Nat /\ y \in Nat /\ fed \in Nat /\ x =< y /\ y =< fed
        BY <3>3, <3>5, <3>6
      <4>3. frames # <<>> => y < fed
        BY <3>3
      <4> HIDE DEF x, y
      <4>4. x =< fed /\ (frames # <<>> => x < fed)
        BY <4>2, <4>3
      <4>. QED BY <4>4 DEF x
    <3>. QED BY <3>1, <3>4, <3>7
  <2>2. CASE ~fits
    BY <1>9, <2>2 DEF PumpFill
  <2>. QED BY <2>1, <2>2
<1>. QED
  BY <1>1, <1>2, <1>3, <1>4, <1>5, <1>6, <1>7, <1>8, <1>9 DEF DNext, StopStep, Pump

\* "Only the newest frame is ever decoded", for any codec and any timing: what
\* waits for the codec is the access unit fed last.
THEOREM NewestOnly == DSpec => []OnlyNewestWaits
<1>1. DInit => Line
  BY DEF DInit, Line, OnlyNewestWaits, PushedInOrder
<1>2. Line => OnlyNewestWaits
  BY DEF Line
<1>. QED BY <1>1, <1>2, DTypeInductive, LineInductive, PTL DEF DSpec

\* Units reach one codec in the order they were fed, none twice, whatever is
\* dropped on the way.
THEOREM UnitsPushedInOrder == DSpec => []PushedInOrder
<1>1. DInit => Line
  BY DEF DInit, Line, OnlyNewestWaits, PushedInOrder
<1>2. Line => PushedInOrder
  BY DEF Line
<1>. QED BY <1>1, <1>2, DTypeInductive, LineInductive, PTL DEF DSpec

-----------------------------------------------------------------------------
(* Input buffers.                                                           *)

\* Where the buffers are, without counting: those that wait are different,
\* none is in two places, and none is missing.
Placed ==
  /\ \A i, j \in DOMAIN inputs : inputs[i] = inputs[j] => i = j
  /\ \A i \in DOMAIN inputs : inputs[i] \notin atCodec /\ inputs[i] # hand.index
  /\ hand.index \notin atCodec
  /\ \A b \in Buffers :
       b \in atCodec \/ b = hand.index \/ \E i \in DOMAIN inputs : inputs[i] = b
  /\ hand.index # "none" => pump = "fill"

LEMMA PlacedInductive ==
  DTypeInv /\ (codec = "started" => Placed) /\ [DNext]_dvars
    => (codec' = "started" => Placed')
<1> SUFFICES ASSUME DTypeInv, codec = "started" => Placed, [DNext]_dvars, codec' = "started"
             PROVE  Placed'
  OBVIOUS
<1>0. /\ inputs \in Seq(Buffers) /\ atCodec \subseteq Buffers /\ "none" \notin Buffers
      /\ pump = "fill" => hand.index \in Buffers
  BY DecoderAssumption DEF DecoderAssumption, DTypeInv, DTypeOK
<1>1. CASE DStart
  BY <1>0, <1>1 DEF DStart, NoHand, Placed
<1>2. CASE DStartFail \/ UNCHANGED dvars
  BY <1>2 DEF DStartFail, dvars, Placed
<1>3. CASE Feed
  BY <1>3 DEF Feed, Notified, Placed
<1>4. CASE StopFlag
  BY <1>4 DEF StopFlag, Placed
<1>5. CASE StopNotify
  BY <1>5 DEF StopNotify, Notified, Placed
<1>6. CASE StopJoin
  BY <1>6 DEF StopJoin
<1>7. ASSUME NEW b \in Buffers, NeedInput(b) PROVE Placed'
  <2>1. /\ Placed /\ b \in atCodec /\ atCodec' = atCodec \ {b} /\ hand' = hand
        /\ (pump = "fill" => pump' = "fill")
    BY <1>7 DEF NeedInput, Notified
  <2> DEFINE n == Len(inputs)
  <2>2. /\ n \in Nat /\ DOMAIN inputs = 1..n
        /\ DOMAIN inputs' = 1..n + 1 /\ inputs'[n + 1] = b
        /\ \A i \in 1..n : inputs'[i] = inputs[i]
    BY <1>0, <1>7 DEF NeedInput
  <2> HIDE DEF n
  <2>3. \A i \in 1..n : inputs[i] # b /\ inputs[i] \notin atCodec /\ inputs[i] # hand.index
    BY <2>1, <2>2 DEF Placed
  <2>4. ASSUME NEW i \in 1..n + 1, NEW j \in 1..n + 1, inputs'[i] = inputs'[j] PROVE i = j
    <3>1. CASE i = n + 1 \/ j = n + 1
      BY <2>2, <2>3, <2>4, <3>1
    <3>2. CASE i \in 1..n /\ j \in 1..n
      BY <2>1, <2>2, <2>4, <3>2 DEF Placed
    <3>. QED BY <2>2, <3>1, <3>2
  <2>5. ASSUME NEW i \in 1..n + 1 PROVE inputs'[i] \notin atCodec' /\ inputs'[i] # hand'.index
    <3>1. CASE i = n + 1
      BY <2>1, <2>2, <3>1 DEF Placed
    <3>2. CASE i \in 1..n
      BY <2>1, <2>2, <2>3, <3>2
    <3>. QED BY <2>2, <3>1, <3>2
  <2>6. ASSUME NEW c \in Buffers, c \notin atCodec', c # hand'.index
        PROVE  \E i \in 1..n + 1 : inputs'[i] = c
    <3>1. CASE c = b
      BY <2>2, <3>1
    <3>2. CASE c # b
      <4>1. PICK i \in 1..n : inputs[i] = c
        BY <2>1, <2>2, <2>6, <3>2 DEF Placed
      <4>2. i \in 1..n + 1 /\ inputs'[i] = c
        BY <2>2, <4>1
      <4>. QED BY <4>2
    <3>. QED BY <3>1, <3>2
  <2>7. \A c \in Buffers :
          c \in atCodec' \/ c = hand'.index \/ \E i \in DOMAIN inputs' : inputs'[i] = c
    BY <2>2, <2>6
  <2>8. hand'.index \notin atCodec' /\ (hand'.index # "none" => pump' = "fill")
    BY <2>1 DEF Placed
  <2>. QED BY <2>2, <2>4, <2>5, <2>7, <2>8 DEF Placed
<1>8. CASE PumpLock \/ PumpIdle \/ PumpBlock \/ PumpExit
  BY <1>8 DEF PumpLock, PumpIdle, PumpBlock, PumpExit, Placed
<1>9. CASE PumpTake
  <2>1. /\ Placed /\ hand.index = "none" /\ inputs # <<>>
        /\ hand'.index = Head(inputs) /\ inputs' = Tail(inputs) /\ atCodec' = atCodec
        /\ pump' = "fill"
    BY <1>9 DEF PumpTake, HasWork, Placed
  <2> DEFINE n == Len(inputs)
  <2>2. /\ n \in Nat \ {0} /\ DOMAIN inputs = 1..n /\ DOMAIN inputs' = 1..n - 1
        /\ hand'.index = inputs[1]
        /\ \A i \in 1..n - 1 : inputs'[i] = inputs[i + 1]
    BY <1>0, <2>1
  <2> HIDE DEF n
  <2>3. \A i \in 1..n - 1 : i + 1 \in 1..n /\ i + 1 # 1
    BY <2>2
  <2>4. \A i, j \in 1..n - 1 : inputs'[i] = inputs'[j] => i = j
    BY <2>1, <2>2, <2>3 DEF Placed
  <2>5. \A i \in 1..n - 1 : inputs'[i] \notin atCodec' /\ inputs'[i] # hand'.index
    BY <2>1, <2>2, <2>3 DEF Placed
  <2>6. hand'.index \notin atCodec'
    <3>1. 1 \in DOMAIN inputs
      BY <2>2
    <3>. QED BY <2>1, <2>2, <3>1 DEF Placed
  <2>7. ASSUME NEW c \in Buffers, c \notin atCodec', c # hand'.index
        PROVE  \E i \in 1..n - 1 : inputs'[i] = c
    <3>1. PICK i \in 1..n : inputs[i] = c
      <4>1. c # "none"
        BY <1>0
      <4>. QED BY <2>1, <2>2, <2>7, <4>1 DEF Placed
    <3>2. i - 1 \in 1..n - 1 /\ inputs'[i - 1] = c
      <4>1. i # 1
        BY <2>2, <2>7, <3>1
      <4>2. i - 1 \in 1..n - 1 /\ (i - 1) + 1 = i
        BY <2>2, <4>1
      <4>. QED BY <2>2, <3>1, <4>2
    <3>. QED BY <3>2
  <2>8. \A c \in Buffers :
          c \in atCodec' \/ c = hand'.index \/ \E i \in DOMAIN inputs' : inputs'[i] = c
    BY <2>2, <2>7
  <2>. QED BY <2>1, <2>2, <2>4, <2>5, <2>6, <2>8 DEF Placed
<1>10. ASSUME NEW fits \in BOOLEAN, PumpFill(fits) PROVE Placed'
  <2>1. /\ Placed /\ inputs' = inputs /\ hand'.index = "none"
        /\ atCodec' = atCodec \cup {hand.index} /\ hand.index \in Buffers
    BY <1>0, <1>10 DEF PumpFill, NoHand
  <2>2. \A i \in DOMAIN inputs : inputs[i] \in Buffers
    BY <1>0
  <2>. QED BY <1>0, <2>1, <2>2 DEF Placed
<1>. QED BY <1>1, <1>2, <1>3, <1>4, <1>5, <1>6, <1>7, <1>8, <1>9, <1>10
         DEF DNext, StopStep, Codec, Pump

\* Whatever codec callbacks, pump and Stop do to each other: no input buffer
\* is lost and none is in two places.
THEOREM BuffersAccounted == DSpec => []BuffersInOnePlace
<1> DEFINE IInv == DTypeInv /\ (codec = "started" => Placed)
<1>1. DInit => IInv
  BY DTypeInductive DEF DInit
<1>2. IInv /\ [DNext]_dvars => IInv'
  BY DTypeInductive, PlacedInductive
<1>3. ASSUME IInv PROVE BuffersInOnePlace
  <2> SUFFICES ASSUME codec = "started", NEW b \in Buffers
               PROVE  (IF b \in atCodec THEN 1 ELSE 0)
                        + Cardinality({i \in DOMAIN inputs : inputs[i] = b})
                        + (IF hand.index = b THEN 1 ELSE 0) = 1
    BY DEF BuffersInOnePlace
  <2> USE <1>3 DEF Placed
  <2>1. CASE \E i \in DOMAIN inputs : inputs[i] = b
    <3>1. PICK i \in DOMAIN inputs : inputs[i] = b
      BY <2>1
    <3>2. {k \in DOMAIN inputs : inputs[k] = b} = {i}
      BY <3>1
    <3>3. Cardinality({k \in DOMAIN inputs : inputs[k] = b}) = 1
      BY <3>2, FS_Singleton
    <3>4. b \notin atCodec /\ hand.index # b
      BY <3>1
    <3>. QED BY <3>3, <3>4
  <2>2. CASE ~ \E i \in DOMAIN inputs : inputs[i] = b
    <3>1. {k \in DOMAIN inputs : inputs[k] = b} = {}
      BY <2>2
    <3>2. Cardinality({k \in DOMAIN inputs : inputs[k] = b}) = 0
      BY <3>1, FS_EmptySet
    <3>3. b \in atCodec \/ hand.index = b
      BY <2>2
    <3>4. ~(b \in atCodec /\ hand.index = b)
      OBVIOUS
    <3>. QED BY <3>2, <3>3, <3>4
  <2>. QED BY <2>1, <2>2
<1>. QED BY <1>1, <1>2, <1>3, PTL DEF DSpec

-----------------------------------------------------------------------------
(* The receiver.                                                            *)

\* Server thread and JS thread together use the decoder one call at a time,
\* as its specification wants it: the receiver implements it.
THEOREM ServesDecoder == Spec => DSpec
<1>1. Init => DInit
  BY DEF Init
<1>2. [Next]_vars => [DNext]_dvars
  <2> SUFFICES ASSUME [Next]_vars, dvars' # dvars PROVE DNext
    OBVIOUS
  <2>1. CASE Hello \/ OnSurfaceCreated
    BY <2>1 DEF Hello, OnSurfaceCreated, StartDecoderLocked, DNext
  <2>2. CASE FramePacket
    BY <2>2 DEF FramePacket, DNext
  <2>3. CASE ClientDown \/ OnSurfaceDestroyed \/ JsStopDecoder
    BY <2>3 DEF ClientDown, OnSurfaceDestroyed, JsStopDecoder, DNext
  <2>4. CASE DecoderStep
    BY <2>4 DEF DecoderStep, DNext
  <2>5. CASE ClientUp \/ IgnorePacket \/ ClientDownDone \/ ServerExit \/ ClientGone
               \/ OnSurfaceDestroyedDone \/ JsStatsJoined \/ JsStopServer \/ JsServerJoined
               \/ JsStopDone \/ StatsEnd
    BY <2>5 DEF ClientUp, IgnorePacket, ClientDownDone, ServerExit, ClientGone,
                OnSurfaceDestroyedDone, JsStatsJoined, JsStopServer, JsServerJoined,
                JsStopDone, StatsEnd
  <2>6. CASE Accept \/ PacketIn \/ SurfaceCreating \/ SurfaceDestroying \/ JsStart \/ JsStop
    BY <2>6 DEF Accept, PacketIn, SurfaceCreating, SurfaceDestroying, JsStart, JsStop
  <2>7. CASE UNCHANGED vars
    BY <2>7 DEF vars
  <2>. QED BY <2>1, <2>2, <2>3, <2>4, <2>5, <2>6, <2>7
           DEF Next, ServerThread, JsThread, Environment
<1>. QED BY <1>1, <1>2, PTL DEF Spec, DSpec

\* The steps of the decoder's own threads, and of Stop, for the receiver.
Quiet ==
  /\ UNCHANGED <<running, mtx, pvars, svars, jvars, tvars>>
  /\ \/ UNCHANGED <<client, codec>>
     \/ client = "notify" /\ client' = "join" /\ codec' = codec
     \/ client = "join" /\ client' = "idle" /\ codec' = "null"

LEMMA DecoderMoves == DecoderStep => Quiet
<1> SUFFICES ASSUME DecoderStep PROVE Quiet
  OBVIOUS
<1> USE DEF DecoderStep, Quiet
<1>1. CASE Pump
  BY <1>1 DEF Pump, PumpLock, PumpIdle, PumpBlock, PumpExit, PumpTake, PumpFill
<1>2. CASE Codec
  BY <1>2 DEF Codec, NeedInput
<1>3. CASE StopStep
  BY <1>3 DEF StopStep, StopNotify, StopJoin
<1>. QED BY <1>1, <1>2, <1>3

\* Flags, places and numbers of the receiver.
ReceiverFlags == gotHello \in BOOLEAN /\ serverRun \in BOOLEAN /\ statsRun \in BOOLEAN

ReceiverTypes ==
  /\ mtx \in {"free", "server", "js"}
  /\ stream \in 0..MaxConns /\ window \in 0..MaxSurfaces
  /\ dec \in [window : 0..MaxSurfaces, conn : 0..MaxConns]
  /\ sv \in {"none", "listen", "up", "client", "packet", "down", "stopDecoder", "exit"}
  /\ conn \in 0..MaxConns
  /\ ui \in {"idle", "create", "destroy", "destroying",
             "stats", "server", "join", "lock", "decoder"}
  /\ surfaces \in 0..MaxSurfaces /\ stats \in {"none", "run"}

LEMMA ReceiverFlagsKept ==
  /\ Init => ReceiverFlags
  /\ ReceiverFlags /\ [Next]_vars => ReceiverFlags'
<1>1. Init => ReceiverFlags
  BY DEF Init, DInit, ReceiverFlags
<1>2. ASSUME ReceiverFlags, [Next]_vars PROVE ReceiverFlags'
  <2> USE <1>2 DEF ReceiverFlags, HasDecoder, pvars, svars, jvars, tvars
  <2>1. CASE Accept \/ ClientUp \/ PacketIn
    BY <2>1 DEF Accept, ClientUp, PacketIn
  <2>2. CASE Hello
    BY <2>2 DEF Hello
  <2>3. CASE IgnorePacket
    BY <2>3 DEF IgnorePacket
  <2>4. CASE FramePacket
    BY <2>4 DEF FramePacket
  <2>5. CASE ClientGone
    BY <2>5 DEF ClientGone
  <2>6. CASE ClientDown
    BY <2>6 DEF ClientDown
  <2>7. CASE ClientDownDone
    BY <2>7 DEF ClientDownDone
  <2>8. CASE ServerExit
    BY <2>8 DEF ServerExit
  <2>9. CASE SurfaceCreating
    BY <2>9 DEF SurfaceCreating
  <2>10. CASE OnSurfaceCreated
    BY <2>10 DEF OnSurfaceCreated
  <2>11. CASE SurfaceDestroying
    BY <2>11 DEF SurfaceDestroying
  <2>12. CASE OnSurfaceDestroyed
    BY <2>12 DEF OnSurfaceDestroyed
  <2>13. CASE OnSurfaceDestroyedDone
    BY <2>13 DEF OnSurfaceDestroyedDone
  <2>14. CASE JsStart \/ JsStop
    BY <2>14 DEF JsStart, JsStop
  <2>15. CASE JsStatsJoined \/ JsStopServer \/ JsServerJoined
    BY <2>15 DEF JsStatsJoined, JsStopServer, JsServerJoined
  <2>16. CASE JsStopDecoder
    BY <2>16 DEF JsStopDecoder
  <2>17. CASE JsStopDone
    BY <2>17 DEF JsStopDone
  <2>18. CASE StatsEnd
    BY <2>18 DEF StatsEnd
  <2>19. CASE DecoderStep
    BY <2>19 DEF DecoderStep
  <2>20. CASE UNCHANGED vars
    BY <2>20 DEF vars
  <2>. QED BY <2>1, <2>2, <2>3, <2>4, <2>5, <2>6, <2>7, <2>8, <2>9, <2>10,
              <2>11, <2>12, <2>13, <2>14, <2>15, <2>16, <2>17, <2>18, <2>19, <2>20
           DEF Next, ServerThread, JsThread, Environment
<1>. QED BY <1>1, <1>2

LEMMA ReceiverPlaces ==
  /\ Init => ReceiverTypes
  /\ ReceiverTypes /\ [Next]_vars => ReceiverTypes'
<1> USE ReceiverAssumption DEF ReceiverAssumption, NoDec
<1>1. Init => ReceiverTypes
  BY DEF Init, DInit, ReceiverTypes
<1>2. ASSUME ReceiverTypes, [Next]_vars PROVE ReceiverTypes'
  <2> USE <1>2 DEF ReceiverTypes, HasDecoder, pvars, svars, jvars, tvars
  <2>1. CASE Accept \/ ClientUp \/ PacketIn
    BY <2>1 DEF Accept, ClientUp, PacketIn
  <2>2. CASE Hello
    BY <2>2 DEF Hello, StartDecoderLocked
  <2>3. CASE IgnorePacket
    BY <2>3 DEF IgnorePacket
  <2>4. CASE FramePacket
    BY <2>4 DEF FramePacket
  <2>5. CASE ClientGone
    BY <2>5 DEF ClientGone
  <2>6. CASE ClientDown
    BY <2>6 DEF ClientDown
  <2>7. CASE ClientDownDone
    BY <2>7 DEF ClientDownDone
  <2>8. CASE ServerExit
    BY <2>8 DEF ServerExit
  <2>9. CASE SurfaceCreating
    BY <2>9 DEF SurfaceCreating
  <2>10. CASE OnSurfaceCreated
    BY <2>10 DEF OnSurfaceCreated, StartDecoderLocked
  <2>11. CASE SurfaceDestroying
    BY <2>11 DEF SurfaceDestroying
  <2>12. CASE OnSurfaceDestroyed
    BY <2>12 DEF OnSurfaceDestroyed
  <2>13. CASE OnSurfaceDestroyedDone
    BY <2>13 DEF OnSurfaceDestroyedDone
  <2>14. CASE JsStart \/ JsStop
    BY <2>14 DEF JsStart, JsStop
  <2>15. CASE JsStatsJoined \/ JsStopServer \/ JsServerJoined
    BY <2>15 DEF JsStatsJoined, JsStopServer, JsServerJoined
  <2>16. CASE JsStopDecoder
    BY <2>16 DEF JsStopDecoder
  <2>17. CASE JsStopDone
    BY <2>17 DEF JsStopDone
  <2>18. CASE StatsEnd
    BY <2>18 DEF StatsEnd
  <2>19. CASE DecoderStep
    BY <2>19 DEF DecoderStep
  <2>20. CASE UNCHANGED vars
    BY <2>20 DEF vars
  <2>. QED BY <2>1, <2>2, <2>3, <2>4, <2>5, <2>6, <2>7, <2>8, <2>9, <2>10,
              <2>11, <2>12, <2>13, <2>14, <2>15, <2>16, <2>17, <2>18, <2>19, <2>20
           DEF Next, ServerThread, JsThread, Environment
<1>. QED BY <1>1, <1>2

\* Every variable of the receiver keeps its type.
THEOREM TypeCorrect == Spec => []TypeOK
<1>1. Init => ReceiverFlags /\ ReceiverTypes
  BY ReceiverFlagsKept, ReceiverPlaces
<1>2. ReceiverFlags /\ ReceiverTypes /\ [Next]_vars => ReceiverFlags' /\ ReceiverTypes'
  BY ReceiverFlagsKept, ReceiverPlaces
<1>3. DTypeOK /\ ReceiverFlags /\ ReceiverTypes => TypeOK
  BY DEF ReceiverFlags, ReceiverTypes, TypeOK
<1>. QED BY <1>1, <1>2, <1>3, ServesDecoder, DTypeCorrect, PTL DEF Spec

-----------------------------------------------------------------------------
(* The decoder's surface and connection.                                    *)

\* There is a codec as long as running_ is set or somebody is in Stop, who
\* holds the mutex all the time.
Stages ==
  /\ running \in BOOLEAN
  /\ running = TRUE => client = "idle"
  /\ codec = "started" <=> running = TRUE \/ client # "idle"
  /\ client # "idle" => mtx \in {"server", "js"}
  /\ mtx = "server" <=> sv = "stopDecoder"
  /\ mtx = "js" <=> ui \in {"destroying", "decoder"}

\* A decoder has the surface and the connection of the moment; a handshake
\* belongs to the connection being served; a new surface comes when there is
\* none.
Serving == sv \in {"client", "packet", "down", "stopDecoder"}

Used ==
  /\ HasDecoder => /\ gotHello = TRUE /\ window # 0
                   /\ dec.window = window /\ dec.conn = conn
  /\ gotHello \in BOOLEAN
  /\ gotHello = TRUE => Serving /\ stream = conn
  /\ surfaces \in Nat /\ (ui = "create" => window = 0 /\ surfaces # 0)

LEMMA StagesInductive ==
  /\ Init => Stages
  /\ Stages /\ [Next]_vars => Stages'
<1>1. Init => Stages
  BY DEF Init, DInit, Stages
<1>2. ASSUME Stages, [Next]_vars PROVE Stages'
  <2> USE <1>2 DEF Stages, HasDecoder, pvars, svars, jvars, tvars
  <2>1. CASE Accept \/ ClientUp \/ PacketIn
    BY <2>1 DEF Accept, ClientUp, PacketIn, dvars
  <2>2. CASE Hello
    BY <2>2 DEF Hello, StartDecoderLocked, DStart, DStartFail, dvars
  <2>3. CASE IgnorePacket
    BY <2>3 DEF IgnorePacket, dvars
  <2>4. CASE FramePacket
    BY <2>4 DEF FramePacket, Feed, dvars
  <2>5. CASE ClientGone
    BY <2>5 DEF ClientGone, dvars
  <2>6. CASE ClientDown
    BY <2>6 DEF ClientDown, StopFlag, dvars
  <2>7. CASE ClientDownDone
    BY <2>7 DEF ClientDownDone, DecoderStopped, dvars
  <2>8. CASE ServerExit
    BY <2>8 DEF ServerExit, dvars
  <2>9. CASE SurfaceCreating
    BY <2>9 DEF SurfaceCreating, dvars
  <2>10. CASE OnSurfaceCreated
    BY <2>10 DEF OnSurfaceCreated, StartDecoderLocked, DStart, DStartFail, dvars
  <2>11. CASE SurfaceDestroying
    BY <2>11 DEF SurfaceDestroying, dvars
  <2>12. CASE OnSurfaceDestroyed
    BY <2>12 DEF OnSurfaceDestroyed, StopFlag, dvars
  <2>13. CASE OnSurfaceDestroyedDone
    BY <2>13 DEF OnSurfaceDestroyedDone, DecoderStopped, dvars
  <2>14. CASE JsStart \/ JsStop
    BY <2>14 DEF JsStart, JsStop, dvars
  <2>15. CASE JsStatsJoined \/ JsStopServer \/ JsServerJoined
    BY <2>15 DEF JsStatsJoined, JsStopServer, JsServerJoined, dvars
  <2>16. CASE JsStopDecoder
    BY <2>16 DEF JsStopDecoder, StopFlag, dvars
  <2>17. CASE JsStopDone
    BY <2>17 DEF JsStopDone, DecoderStopped, dvars
  <2>18. CASE StatsEnd
    BY <2>18 DEF StatsEnd, dvars
  <2>19. CASE DecoderStep
    BY <2>19, DecoderMoves DEF Quiet
  <2>20. CASE UNCHANGED vars
    BY <2>20 DEF vars, dvars
  <2>. QED BY <2>1, <2>2, <2>3, <2>4, <2>5, <2>6, <2>7, <2>8, <2>9, <2>10,
              <2>11, <2>12, <2>13, <2>14, <2>15, <2>16, <2>17, <2>18, <2>19, <2>20
           DEF Next, ServerThread, JsThread, Environment
<1>. QED BY <1>1, <1>2

LEMMA UsedInductive ==
  /\ Init => Used
  /\ Stages /\ Used /\ [Next]_vars => Used'
<1>1. Init => Used
  <2> SUFFICES ASSUME Init PROVE Used
    OBVIOUS
  <2>1. ~HasDecoder /\ gotHello = FALSE /\ ui # "create"
    BY DEF Init, DInit, HasDecoder
  <2>2. surfaces \in Nat
    BY DEF Init
  <2>. QED BY <2>1, <2>2 DEF Used
<1>2. ASSUME Stages, Used, [Next]_vars PROVE Used'
  <2> USE <1>2 DEF Stages, Used, Serving, HasDecoder, pvars, svars, jvars, tvars
  <2>1. CASE Accept \/ ClientUp \/ PacketIn
    BY <2>1 DEF Accept, ClientUp, PacketIn, dvars
  <2>2. CASE Hello
    BY <2>2 DEF Hello, StartDecoderLocked, DStart, DStartFail, dvars
  <2>3. CASE IgnorePacket
    BY <2>3 DEF IgnorePacket, dvars
  <2>4. CASE FramePacket
    BY <2>4 DEF FramePacket, Feed, dvars
  <2>5. CASE ClientGone
    BY <2>5 DEF ClientGone, dvars
  <2>6. CASE ClientDown
    BY <2>6 DEF ClientDown, StopFlag, dvars
  <2>7. CASE ClientDownDone
    BY <2>7 DEF ClientDownDone, DecoderStopped, dvars
  <2>8. CASE ServerExit
    BY <2>8 DEF ServerExit, dvars
  <2>9. CASE SurfaceCreating
    BY <2>9 DEF SurfaceCreating, dvars
  <2>10. CASE OnSurfaceCreated
    BY <2>10 DEF OnSurfaceCreated, StartDecoderLocked, DStart, DStartFail, dvars
  <2>11. CASE SurfaceDestroying
    BY <2>11 DEF SurfaceDestroying, dvars
  <2>12. CASE OnSurfaceDestroyed
    BY <2>12 DEF OnSurfaceDestroyed, StopFlag, dvars
  <2>13. CASE OnSurfaceDestroyedDone
    BY <2>13 DEF OnSurfaceDestroyedDone, DecoderStopped, dvars
  <2>14. CASE JsStart \/ JsStop
    BY <2>14 DEF JsStart, JsStop, dvars
  <2>15. CASE JsStatsJoined \/ JsStopServer \/ JsServerJoined
    BY <2>15 DEF JsStatsJoined, JsStopServer, JsServerJoined, dvars
  <2>16. CASE JsStopDecoder
    BY <2>16 DEF JsStopDecoder, StopFlag, dvars
  <2>17. CASE JsStopDone
    BY <2>17 DEF JsStopDone, DecoderStopped, dvars
  <2>18. CASE StatsEnd
    BY <2>18 DEF StatsEnd, dvars
  <2>19. CASE DecoderStep
    BY <2>19, DecoderMoves DEF Quiet
  <2>20. CASE UNCHANGED vars
    BY <2>20 DEF vars, dvars
  <2>. QED BY <2>1, <2>2, <2>3, <2>4, <2>5, <2>6, <2>7, <2>8, <2>9, <2>10,
              <2>11, <2>12, <2>13, <2>14, <2>15, <2>16, <2>17, <2>18, <2>19, <2>20
           DEF Next, ServerThread, JsThread, Environment
<1>. QED BY <1>1, <1>2

\* Surfaces come and go, connections too, in any order: a decoder never renders
\* into a surface that was destroyed or replaced.
THEOREM LiveSurface == Spec => []DecoderOnLiveSurface
<1>1. Init => Stages /\ Used
  BY StagesInductive, UsedInductive
<1>2. Stages /\ Used /\ [Next]_vars => Stages' /\ Used'
  BY StagesInductive, UsedInductive
<1>3. Used => DecoderOnLiveSurface
  BY DEF Used, DecoderOnLiveSurface
<1>. QED BY <1>1, <1>2, <1>3, PTL DEF Spec

\* And it is always the decoder of the connection being served, started with
\* what that connection's own hello said.
THEOREM ThisConnection == Spec => []DecoderOfThisConnection
<1>1. Init => Stages /\ Used
  BY StagesInductive, UsedInductive
<1>2. Stages /\ Used /\ [Next]_vars => Stages' /\ Used'
  BY StagesInductive, UsedInductive
<1>3. Used => DecoderOfThisConnection
  BY DEF Used, Serving, DecoderOfThisConnection
<1>. QED BY <1>1, <1>2, <1>3, PTL DEF Spec

\* What holds of the decoder under any client holds within the receiver: its
\* buffers, the order of its units, and the codec that outlives the pump.
THEOREM DecoderInReceiver ==
  Spec => [](BuffersInOnePlace /\ OnlyNewestWaits /\ PushedInOrder /\ CodecOutlivesPump)
<1>. QED BY ServesDecoder, BuffersAccounted, NewestOnly, UnitsPushedInOrder, CodecOutlives, PTL

-----------------------------------------------------------------------------
(* ReceiverStatus: what the page says of the stream.                       *)

Honest(s) == s.green => s.real \/ s.swapped

\* The counters' types, and that a decoder needs the page.
Counters ==
  /\ decoded \in Nat \cup {NoDecoder} /\ lastOut \in Nat /\ counted \in Nat
  /\ page = "away" => statsThread = "none" /\ decoded = NoDecoder

\* Unless the decoder was started in this round, it has shown in this round
\* what it counts beyond lastOut, and so the difference is not below zero.
CountedThisRound == decoded # NoDecoder /\ ~swapped => decoded = lastOut + counted

\* Every status on its way and the one handled last tells the truth.
AllHonest ==
  /\ queue \in Seq(Status) /\ dot \in Status
  /\ \A i \in 1..Len(queue) : Honest(queue[i])
  /\ Honest(dot)

LEMMA SwappedInductive ==
  /\ StatusInit => swapped \in BOOLEAN
  /\ swapped \in BOOLEAN /\ [StatusNext]_statusVars => swapped' \in BOOLEAN
BY DEF StatusInit, StatusNext, statusVars, pipeline, past, thread, ets, DecoderStarts, DecoderStops,
       FrameDecoded, SenderEnds, StatsRound, Appear, StatusCall, GraceOver, Disappear

LEMMA CountersInductive ==
  /\ StatusInit => Counters /\ CountedThisRound
  /\ Counters /\ CountedThisRound /\ [StatusNext]_statusVars => (Counters /\ CountedThisRound)'
<1> USE DEF NoDecoder, Counters, CountedThisRound, pipeline, past, thread, ets
<1>1. StatusInit => Counters /\ CountedThisRound
  BY DEF StatusInit
<1>2. ASSUME Counters, CountedThisRound, [StatusNext]_statusVars PROVE (Counters /\ CountedThisRound)'
  <2> USE <1>2
  <2>1. CASE DecoderStarts
    BY <2>1 DEF DecoderStarts
  <2>2. CASE DecoderStops
    BY <2>2 DEF DecoderStops
  <2>3. CASE FrameDecoded
    BY <2>3 DEF FrameDecoded
  <2>4. CASE SenderEnds
    BY <2>4 DEF SenderEnds
  <2>5. CASE StatsRound
    <3>1. /\ lastOut' = CurOut /\ counted' = 0
          /\ UNCHANGED <<decoded, page, statsThread>>
      BY <2>5 DEF StatsRound
    <3>2. CurOut \in Nat /\ (decoded # NoDecoder => CurOut = decoded)
      BY DEF CurOut
    <3>. QED BY <3>1, <3>2
  <2>6. CASE Appear
    BY <2>6 DEF Appear
  <2>7. CASE StatusCall \/ GraceOver
    BY <2>7 DEF StatusCall, GraceOver
  <2>8. CASE Disappear
    BY <2>8 DEF Disappear
  <2>9. CASE UNCHANGED statusVars
    BY <2>9 DEF statusVars
  <2>. QED BY <2>1, <2>2, <2>3, <2>4, <2>5, <2>6, <2>7, <2>8, <2>9 DEF StatusNext
<1>. QED BY <1>1, <1>2

\* What a round reports is true: green means a positive frame rate, which
\* without a new decoder takes frames that were counted in this round.
LEMMA RoundIsHonest ==
  ASSUME Counters, CountedThisRound, swapped \in BOOLEAN, NEW positive \in FpsPositive
  PROVE  LET s == [green |-> decoded # NoDecoder /\ positive,
                   real |-> counted > 0, swapped |-> swapped]
         IN  s \in Status /\ Honest(s)
<1> DEFINE s == [green |-> decoded # NoDecoder /\ positive,
                 real |-> counted > 0, swapped |-> swapped]
<1> USE DEF Counters
<1>1. CurOut \in Nat
  BY DEF CurOut, NoDecoder
<1>2. /\ CurOut > lastOut => FpsPositive \in SUBSET BOOLEAN
      /\ CurOut = lastOut => FpsPositive = {FALSE}
      /\ CurOut < lastOut => FpsPositive \in SUBSET BOOLEAN
  <2>1. CASE CurOut = lastOut
    <3>1. ~(CurOut > lastOut + 1) /\ CurOut # lastOut + 1 /\ ~(CurOut < lastOut)
          /\ ~(CurOut > lastOut)
      BY <1>1, <2>1
    <3>. QED BY <2>1, <3>1, Zenon DEF FpsPositive
  <2>2. CASE CurOut > lastOut + 1
    <3>1. CurOut # lastOut + 1 /\ CurOut # lastOut /\ ~(CurOut < lastOut)
      BY <1>1, <2>2
    <3>. QED BY <2>2, <3>1, Zenon DEF FpsPositive
  <2>3. CASE CurOut = lastOut + 1
    <3>1. ~(CurOut > lastOut + 1) /\ CurOut # lastOut /\ ~(CurOut < lastOut)
      BY <1>1, <2>3
    <3>. QED BY <2>3, <3>1, Zenon DEF FpsPositive
  <2>4. CASE CurOut < lastOut
    <3>1. ~(CurOut > lastOut + 1) /\ CurOut # lastOut + 1 /\ CurOut # lastOut
          /\ ~(CurOut > lastOut)
      BY <1>1, <2>4
    <3>. QED BY <2>4, <3>1, Zenon DEF FpsPositive
  <2>5. CurOut = lastOut \/ CurOut > lastOut + 1 \/ CurOut = lastOut + 1 \/ CurOut < lastOut
    BY <1>1
  <2>. QED BY <2>1, <2>2, <2>3, <2>4, <2>5, Zenon
<1>3. positive \in BOOLEAN
  <2>1. CurOut = lastOut \/ CurOut > lastOut \/ CurOut < lastOut
    BY <1>1
  <2>2. FpsPositive \in SUBSET BOOLEAN
    <3>1. {FALSE} \in SUBSET BOOLEAN
      OBVIOUS
    <3>. QED BY <1>2, <2>1, <3>1, Zenon
  <2>. QED BY <2>2, Zenon
<1>4. ASSUME decoded # NoDecoder, positive, ~swapped PROVE counted > 0
  <2>1. CurOut = lastOut + counted
    BY <1>4 DEF CurOut, CountedThisRound
  <2>2. CASE counted = 0
    <3>1. CurOut = lastOut
      BY <2>1, <2>2
    <3>. QED BY <1>2, <1>4, <3>1
  <2>. QED BY <2>2
<1>5. s \in Status
  <2>1. (decoded # NoDecoder /\ positive) \in BOOLEAN /\ (counted > 0) \in BOOLEAN
    BY <1>3
  <2>. QED BY <2>1, Zenon DEF Status
<1>6. Honest(s)
  BY <1>4, Zenon DEF Honest
<1>. QED BY <1>5, <1>6

LEMMA HonestInductive ==
  /\ StatusInit => AllHonest
  /\ Counters /\ CountedThisRound /\ swapped \in BOOLEAN /\ AllHonest /\ [StatusNext]_statusVars
       => AllHonest'
<1> USE StatusAssumption DEF StatusAssumption
<1>1. StatusInit => AllHonest
  BY DEF StatusInit, AllHonest, NoStatus, Status, Honest
<1>2. ASSUME Counters, CountedThisRound, swapped \in BOOLEAN, AllHonest, [StatusNext]_statusVars
     PROVE  AllHonest'
  <2> USE <1>2 DEF pipeline, past, thread, ets
  <2>1. CASE DecoderStarts \/ DecoderStops \/ FrameDecoded \/ SenderEnds \/ Appear
             \/ GraceOver \/ Disappear
    BY <2>1 DEF DecoderStarts, DecoderStops, FrameDecoded, SenderEnds, Appear,
                GraceOver, Disappear, AllHonest, Honest
  <2>2. CASE StatsRound
    <3>1. PICK positive \in FpsPositive :
            PushStatus([green |-> decoded # NoDecoder /\ positive,
                        real |-> counted > 0, swapped |-> swapped])
      BY <2>2 DEF StatsRound
    <3> DEFINE s == [green |-> decoded # NoDecoder /\ positive,
                     real |-> counted > 0, swapped |-> swapped]
    <3>2. s \in Status /\ Honest(s)
      BY <3>1, RoundIsHonest
    <3>3. queue' = queue \/ queue' = Append(queue, s)
      BY <3>1 DEF PushStatus
    <3> HIDE DEF s
    <3>4. CASE queue' = Append(queue, s)
      <4>1. queue' \in Seq(Status)
        BY <3>2, <3>4 DEF AllHonest
      <4>2. \A i \in 1..Len(queue') : Honest(queue'[i])
        <5> SUFFICES ASSUME NEW i \in 1..Len(queue') PROVE Honest(queue'[i])
          OBVIOUS
        <5>1. Len(queue) \in Nat /\ Len(queue') = Len(queue) + 1
          BY <3>4 DEF AllHonest
        <5>2. CASE i \in 1..Len(queue)
          <6>1. queue'[i] = queue[i]
            BY <3>4, <5>2 DEF AllHonest
          <6>. QED BY <5>2, <6>1 DEF AllHonest
        <5>3. CASE i = Len(queue) + 1
          <6>1. queue'[i] = s
            BY <3>4, <5>1, <5>3 DEF AllHonest
          <6>. QED BY <3>2, <6>1
        <5>. QED BY <5>1, <5>2, <5>3
      <4>3. dot' = dot
        BY <2>2 DEF StatsRound
      <4>. QED BY <4>1, <4>2, <4>3 DEF AllHonest, Honest
    <3>5. CASE queue' = queue
      BY <2>2, <3>5 DEF StatsRound, AllHonest, Honest
    <3>. QED BY <3>3, <3>4, <3>5
  <2>3. CASE StatusCall
    <3>1. /\ queue # <<>> /\ queue' = Tail(queue) /\ dot' = Head(queue)
          /\ queue \in Seq(Status)
      BY <2>3 DEF StatusCall, AllHonest
    <3>2. Len(queue) \in Nat /\ Len(queue) > 0 /\ Head(queue) = queue[1]
      BY <3>1
    <3>3. /\ queue' \in Seq(Status) /\ Len(queue') = Len(queue) - 1
          /\ \A i \in 1..Len(queue') : queue'[i] = queue[i + 1]
      BY <3>1
    <3>4. dot' \in Status /\ Honest(dot')
      BY <3>1, <3>2 DEF AllHonest
    <3>5. \A i \in 1..Len(queue') : Honest(queue'[i])
      <4> SUFFICES ASSUME NEW i \in 1..Len(queue') PROVE Honest(queue'[i])
        OBVIOUS
      <4>1. i + 1 \in 1..Len(queue) /\ queue'[i] = queue[i + 1]
        BY <3>2, <3>3
      <4>. QED BY <4>1 DEF AllHonest
    <3>. QED BY <3>3, <3>4, <3>5 DEF AllHonest, Honest
  <2>4. CASE UNCHANGED statusVars
    BY <2>4 DEF statusVars, AllHonest, Honest
  <2>. QED BY <2>1, <2>2, <2>3, <2>4 DEF StatusNext
<1>. QED BY <1>1, <1>2

LEMMA StatusTypeInductive ==
  /\ StatusInit => StatusTypeOK
  /\ StatusTypeOK /\ Counters /\ CountedThisRound /\ [StatusNext]_statusVars => StatusTypeOK'
<1> USE StatusAssumption DEF StatusAssumption
<1>1. StatusInit => StatusTypeOK
  <2> SUFFICES ASSUME StatusInit PROVE StatusTypeOK
    OBVIOUS
  <2>1. NoStatus \in Status /\ queue \in Seq(Status) /\ Len(queue) = 0
    BY DEF StatusInit, NoStatus, Status
  <2>2. Len(queue) =< QueueSize /\ 0 \in 0 .. MaxFrames /\ 0 \in Nat
    BY <2>1
  <2>. QED BY <2>1, <2>2, Zenon DEF StatusInit, StatusTypeOK
<1>2. ASSUME StatusTypeOK, Counters, CountedThisRound, [StatusNext]_statusVars
      PROVE  StatusTypeOK'
  <2> USE <1>2 DEF pipeline, past, thread, ets
  <2>1. CASE DecoderStarts \/ DecoderStops \/ FrameDecoded \/ SenderEnds
    <3>1. CASE DecoderStarts
      BY <3>1 DEF DecoderStarts, StatusTypeOK
    <3>2. CASE DecoderStops
      BY <3>2 DEF DecoderStops, StatusTypeOK
    <3>3. CASE FrameDecoded
      <4>1. decoded \in Nat /\ total + 1 \in 0 .. MaxFrames /\ counted + 1 \in Nat
        BY <3>3 DEF FrameDecoded, StatusTypeOK
      <4>. QED BY <3>3, <4>1 DEF FrameDecoded, StatusTypeOK
    <3>4. CASE SenderEnds
      BY <3>4 DEF SenderEnds, StatusTypeOK
    <3>. QED BY <2>1, <3>1, <3>2, <3>3, <3>4
  <2>2. CASE StatsRound
    <3>1. PICK positive \in FpsPositive :
            PushStatus([green |-> decoded # NoDecoder /\ positive,
                        real |-> counted > 0, swapped |-> swapped])
      BY <2>2 DEF StatsRound
    <3> DEFINE s == [green |-> decoded # NoDecoder /\ positive,
                     real |-> counted > 0, swapped |-> swapped]
    <3>2. s \in Status
      BY <3>1, RoundIsHonest DEF StatusTypeOK
    <3> HIDE DEF s
    <3>3. queue' = IF Len(queue) < QueueSize THEN Append(queue, s) ELSE queue
      BY <3>1 DEF PushStatus, s
    <3>4. queue' \in Seq(Status) /\ Len(queue') =< QueueSize
      BY <3>2, <3>3 DEF StatusTypeOK
    <3>5. lastOut' \in Nat
      BY <2>2 DEF StatsRound, CurOut, StatusTypeOK
    <3>. QED BY <2>2, <3>4, <3>5 DEF StatsRound, StatusTypeOK
  <2>3. CASE Appear
    BY <2>3 DEF Appear, StatusTypeOK
  <2>4. CASE StatusCall
    <3>1. queue \in Seq(Status) /\ queue # <<>> /\ queue' = Tail(queue) /\ dot' = Head(queue)
      BY <2>4 DEF StatusCall, StatusTypeOK
    <3>2. dot' \in Status /\ queue' \in Seq(Status) /\ Len(queue') = Len(queue) - 1
          /\ Len(queue) \in Nat
      BY <3>1
    <3>3. Len(queue') =< QueueSize
      BY <3>2 DEF StatusTypeOK
    <3>4. timer' \in {"none", "set"} /\ overlay' \in BOOLEAN
      BY <2>4 DEF StatusCall, StatusTypeOK, SetTimer
    <3>. QED BY <2>4, <3>2, <3>3, <3>4 DEF StatusCall, StatusTypeOK
  <2>5. CASE GraceOver
    BY <2>5 DEF GraceOver, StatusTypeOK
  <2>6. CASE Disappear
    BY <2>6 DEF Disappear, StatusTypeOK, NoDecoder
  <2>7. CASE UNCHANGED statusVars
    BY <2>7 DEF statusVars, StatusTypeOK
  <2>. QED BY <2>1, <2>2, <2>3, <2>4, <2>5, <2>6, <2>7 DEF StatusNext
<1>. QED BY <1>1, <1>2

\* The state of thread, queue and page keeps its types, and no more statuses
\* wait for JavaScript than the queue takes.
THEOREM StatusTypeCorrect == StatusSpec => []StatusTypeOK
<1> DEFINE IInv == Counters /\ CountedThisRound /\ StatusTypeOK
<1>1. StatusInit => IInv
  BY CountersInductive, StatusTypeInductive
<1>2. IInv /\ [StatusNext]_statusVars => IInv'
  BY CountersInductive, StatusTypeInductive
<1>. QED BY <1>1, <1>2, PTL DEF StatusSpec

\* The page shows the green dot only when the round it heard of last had
\* frames, or a decoder that was started in that very round: the difference
\* StatsLoop takes cannot be off in any other case.
THEOREM GreenIsTrue == StatusSpec => []GreenMeansFrames
<1> DEFINE IInv == Counters /\ CountedThisRound /\ swapped \in BOOLEAN /\ AllHonest
<1>1. StatusInit => IInv
  BY SwappedInductive, CountersInductive, HonestInductive
<1>2. IInv /\ [StatusNext]_statusVars => IInv'
  BY SwappedInductive, CountersInductive, HonestInductive
<1>3. IInv => GreenMeansFrames
  BY DEF AllHonest, Honest, GreenMeansFrames
<1>. QED BY <1>1, <1>2, <1>3, PTL DEF StatusSpec

=============================================================================
