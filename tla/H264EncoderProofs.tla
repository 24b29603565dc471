------------------------- MODULE H264EncoderProofs -------------------------
(* Proofs about H264Encoder for every pool size, MFT depth and number of    *)
(* frames.                                                                  *)
EXTENDS H264Encoder, TLAPS

LEMMA NextSlot ==
  ASSUME NEW u \in 0..Pool - 1
  PROVE  (u + 1) % Pool = IF u + 1 = Pool THEN 0 ELSE u + 1
BY EncoderAssumption DEF EncoderAssumption

LEMMA HalfPool == Pool \div 2 \in Nat /\ Pool \div 2 + 2 =< Pool
BY EncoderAssumption DEF EncoderAssumption

-----------------------------------------------------------------------------
(* Type correctness.                                                        *)

\* Every variable of the encoder keeps its type, with or without failures:
\* in particular upNext_ and the textures in the MFT stay in the pool.
THEOREM TypeCorrect == Spec => []TypeOK
<1> USE EncoderAssumption DEF EncoderAssumption, Frames, Held, Loop
<1>1. Init => TypeOK
  <2> SUFFICES ASSUME Init PROVE TypeOK
    OBVIOUS
  <2>1. /\ q = <<>> /\ events = <<>> /\ held = <<>>
        /\ <<>> \in Seq(Frames) /\ <<>> \in Seq(Held)
        /\ <<>> \in Seq({"need", "have", "error"})
    BY DEF Init
  <2>2. /\ captured \in Frames /\ frame \in Frames /\ last \in Frames /\ fails \in 0..MaxFails
        /\ slot \in 0..Pool - 1 /\ upNext \in 0..Pool - 1
        /\ fed \in Nat /\ encoded \in Nat /\ owed \in Int /\ announced \in Int
    BY DEF Init
  <2>3. /\ async \in BOOLEAN /\ d3d \in BOOLEAN /\ (d3d => async)
        /\ closed \in BOOLEAN /\ running \in BOOLEAN /\ dead \in BOOLEAN
        /\ main \in {"run", "exit", "join", "done"}
        /\ enc \in {"poll", "pop", "make", "input", "output", "send", "exit"}
    BY DEF Init
  <2>. QED BY <2>1, <2>2, <2>3 DEF TypeOK
<1>2. ASSUME TypeOK, [Next]_vars PROVE TypeOK'
  <2> USE <1>2 DEF TypeOK, mode, capture, owner, mft, counters, Fail
  <2>1. CASE Push
    <3>1. (IF Len(q) >= 1 THEN Tail(q) ELSE q) \in Seq(Frames)
      <4>1. CASE Len(q) >= 1
        <5>1. q # <<>>
          BY <4>1
        <5>. QED BY <4>1, <5>1, q \in Seq(Frames)
      <4>. QED BY <4>1, q \in Seq(Frames)
    <3>2. captured + 1 \in Frames
      BY <2>1 DEF Push
    <3>3. q' \in Seq(Frames)
      BY <2>1, <3>1, <3>2 DEF Push
    <3>. QED BY <2>1, <3>2, <3>3 DEF Push
  <2>2. CASE PopFrame
    BY <2>2 DEF PopFrame
  <2>3. CASE PopClosed
    BY <2>3 DEF PopClosed
  <2>4. CASE TakeNeed
    BY <2>4 DEF TakeNeed, TakeEvent
  <2>5. CASE TakeHave
    BY <2>5 DEF TakeHave, TakeEvent
  <2>6. CASE TakeError
    BY <2>6 DEF TakeError, TakeEvent
  <2>7. CASE ExitLoop \/ MakeRefused \/ InputFailed \/ Exception
    <3>2. CASE ExitLoop
      BY <3>2 DEF ExitLoop
    <3>3. CASE MakeRefused
      BY <3>3 DEF MakeRefused
    <3>4. CASE InputFailed
      BY <3>4 DEF InputFailed
    <3>5. CASE Exception
      BY <3>5 DEF Exception
    <3>. QED BY <2>7, <3>2, <3>3, <3>4, <3>5
  <2>8. CASE MakeSample
    <3>1. upNext' \in 0..Pool - 1
      BY <2>8, NextSlot DEF MakeSample
    <3>. QED BY <2>8, <3>1 DEF MakeSample
  <2>9. CASE InputTaken
    BY <2>9 DEF InputTaken
  <2>10. CASE OutputTaken
    <3>1. held # <<>> /\ held \in Seq(Held)
      BY <2>10 DEF OutputTaken
    <3>2. Head(held) \in Held /\ Tail(held) \in Seq(Held)
      <4>. HIDE DEF Held
      <4>1. Len(held) \in Nat \ {0}
        BY <3>1
      <4>. QED BY <3>1, <4>1
    <3>3. Head(held).frame \in Frames
      BY <3>2
    <3>. QED BY <2>10, <3>2, <3>3 DEF OutputTaken
  <2>11. CASE OutputUnusable
    BY <2>11 DEF OutputUnusable
  <2>12. CASE OutputNothing
    BY <2>12 DEF OutputNothing
  <2>13. CASE Send
    BY <2>13 DEF Send
  <2>14. CASE MftNeed
    BY <2>14 DEF MftNeed
  <2>15. CASE MftHave
    BY <2>15 DEF MftHave
  <2>16. CASE MftError
    BY <2>16 DEF MftError
  <2>17. CASE ExitRequest \/ DestroyBegin
    <3>1. CASE ExitRequest
      BY <3>1 DEF ExitRequest
    <3>2. CASE DestroyBegin
      BY <3>2 DEF DestroyBegin
    <3>. QED BY <2>17, <3>1, <3>2
  <2>18. CASE DestroyEnd
    <3>1. /\ <<>> \in Seq({"need", "have", "error"})
          /\ <<>> \in Seq(Held)
      OBVIOUS
    <3>. QED BY <2>18, <3>1 DEF DestroyEnd
  <2>19. CASE UNCHANGED vars
    BY <2>19 DEF vars
  <2>. QED
    BY <2>1, <2>2, <2>3, <2>4, <2>5, <2>6, <2>7, <2>8, <2>9, <2>10, <2>11, <2>12,
       <2>13, <2>14, <2>15, <2>16, <2>17, <2>18, <2>19
    DEF Next, EncThread, Mft
<1>. QED BY <1>1, <1>2, PTL DEF Spec

-----------------------------------------------------------------------------
(* The texture pool, as long as no call fails.                              *)

\* The texture k steps before texture u.
Back(u, k) == IF u >= k THEN u - k ELSE u - k + Pool

\* What the guard counts, fed_ - encoded_, is the number of frames inside the
\* MFT and the one being sent.
GuardCountsHeld ==
  (async /\ main # "done") =>
    InFlight = Len(held) + (IF enc = "send" THEN 1 ELSE 0)

\* 1 when the sample in hand lies between the MFT and upNext_.
InHand == IF enc = "input" THEN 1 ELSE 0

\* The frames in the MFT lie in the textures made last, one after the other,
\* and there are not more of them than the guard lets in.
Ring ==
  /\ main = "done" => enc = "exit" /\ held = <<>>
  /\ GuardCountsHeld
  /\ d3d => /\ Len(held) + InHand =< Pool \div 2 + 1
            /\ enc = "input" => slot = Back(upNext, 1)
            /\ \A i \in DOMAIN held : held[i].slot = Back(upNext, Len(held) - i + 1 + InHand)

\* What the texture pool needs: consecutive textures, not more than the pool.
LEMMA RingIsSafe == TypeOK /\ (fails = 0 => Ring) => TextureNotInUse
<1> SUFFICES ASSUME TypeOK, Ring, d3d, enc = "input", NEW i \in DOMAIN held
             PROVE  held[i].slot # slot
  BY DEF TextureNotInUse
<1> DEFINE n == Len(held)
<1>1. n \in Nat /\ i \in 1..n /\ upNext \in 0..Pool - 1
  BY DEF TypeOK
<1>2. n + 1 =< Pool \div 2 + 1 /\ slot = Back(upNext, 1) /\ held[i].slot = Back(upNext, n - i + 2)
  BY <1>1 DEF Ring, InHand
<1>3. n - i + 2 \in 2..Pool - 1
  BY <1>1, <1>2, HalfPool, EncoderAssumption DEF EncoderAssumption
<1> HIDE DEF n
<1>4. Back(upNext, n - i + 2) # Back(upNext, 1)
  BY <1>1, <1>3, EncoderAssumption DEF Back, EncoderAssumption
<1>. QED BY <1>2, <1>4

\* A step that leaves the textures and the two counters alone.
LEMMA RingFrame ==
  ASSUME TypeOK, Ring, UNCHANGED <<mode, held, upNext, slot, fed, encoded>>,
         enc' = "input" <=> enc = "input", enc' = "send" <=> enc = "send",
         main' = "done" <=> main = "done", main = "done" => enc' = "exit"
  PROVE  Ring'
BY DEF Ring, GuardCountsHeld, InFlight, Back, InHand, mode

\* A sample is made: the textures of the frames in the MFT are one step older.
LEMMA RingMake ==
  ASSUME TypeOK, Ring, MakeSample
  PROVE  Ring'
<1> USE EncoderAssumption DEF EncoderAssumption
<1>1. /\ upNext \in 0..Pool - 1 /\ upNext' \in 0..Pool - 1
      /\ d3d => upNext' = IF upNext + 1 = Pool THEN 0 ELSE upNext + 1
  BY NextSlot DEF MakeSample, TypeOK
<1>2. main # "done" /\ UNCHANGED <<main, held, fed, encoded, async, d3d>>
  BY DEF MakeSample, Ring, mft, owner, mode
<1>3. Len(held) \in Nat
  BY DEF TypeOK
<1>4. InHand = 0 /\ InHand' = 1 /\ enc = "make" /\ enc' = "input" /\ slot' = upNext
  BY DEF InHand, MakeSample
<1>5. GuardCountsHeld'
  BY <1>2, <1>4 DEF Ring, GuardCountsHeld, InFlight
<1>6. ASSUME d3d PROVE Len(held) + 1 =< Pool \div 2 + 1
  <2>1. async
    BY <1>6 DEF TypeOK
  <2>2. Len(held) = fed - encoded
    BY <1>2, <1>3, <1>4, <2>1 DEF Ring, GuardCountsHeld, InFlight
  <2>3. ~(fed - encoded > Pool \div 2)
    BY <1>6 DEF MakeSample, Guard, InFlight
  <2>. QED BY <1>3, <2>2, <2>3, HalfPool DEF TypeOK
<1>7. ASSUME d3d PROVE slot' = Back(upNext', 1)
  <2>1. CASE upNext + 1 = Pool
    <3>1. upNext' = 0
      BY <1>1, <1>7, <2>1
    <3>. QED BY <1>1, <1>4, <2>1, <3>1 DEF Back
  <2>2. CASE upNext + 1 # Pool
    <3>1. upNext' = upNext + 1
      BY <1>1, <1>7, <2>2
    <3>. QED BY <1>1, <1>4, <3>1 DEF Back
  <2>. QED BY <2>1, <2>2
<1>8. ASSUME d3d, NEW i \in DOMAIN held
      PROVE  held[i].slot = Back(upNext', Len(held) - i + 2)
  <2>1. i \in 1..Len(held)
    BY DEF TypeOK
  <2>2. held[i].slot = Back(upNext, Len(held) - i + 1)
    BY <1>3, <1>4, <1>8, <2>1 DEF Ring
  <2>3. Len(held) - i + 1 \in 1..Pool - 1
    BY <1>3, <1>6, <1>8, <2>1, HalfPool
  <2> DEFINE k == Len(held) - i + 1
  <2>4. Back(upNext', k + 1) = Back(upNext, k)
    <3> HIDE DEF k
    <3>1. k \in 1..Pool - 1
      BY <2>3 DEF k
    <3>2. CASE upNext + 1 = Pool
      <4>1. upNext' = 0
        BY <1>1, <1>8, <3>2
      <4>. QED BY <1>1, <3>1, <3>2, <4>1 DEF Back
    <3>3. CASE upNext + 1 # Pool
      <4>1. upNext' = upNext + 1
        BY <1>1, <1>8, <3>3
      <4>. QED BY <1>1, <3>1, <3>3, <4>1 DEF Back
    <3>. QED BY <3>2, <3>3
  <2>5. k + 1 = Len(held) - i + 2
    BY <1>3, <2>1
  <2>. QED BY <2>2, <2>4, <2>5
<1>. QED BY <1>2, <1>3, <1>4, <1>5, <1>6, <1>7, <1>8 DEF Ring

\* The sample enters the MFT.
LEMMA RingInput ==
  ASSUME TypeOK, Ring, InputTaken
  PROVE  Ring'
<1> USE EncoderAssumption DEF EncoderAssumption
<1> DEFINE new == [frame |-> frame, slot |-> slot]
<1>1. /\ held \in Seq(Held) /\ new \in Held
      /\ UNCHANGED <<upNext, main, async, d3d>> /\ main # "done"
      /\ fed \in Nat /\ encoded' = encoded /\ encoded \in Nat
  BY DEF TypeOK, InputTaken, Ring, Held, owner, mode
<1>2. /\ held' = Append(held, new)
      /\ Len(held') = Len(held) + 1 /\ Len(held) \in Nat
      /\ DOMAIN held' = 1..Len(held) + 1 /\ DOMAIN held = 1..Len(held)
      /\ \A i \in 1..Len(held) : held'[i] = held[i]
      /\ held'[Len(held) + 1] = new
  <2> HIDE DEF new
  <2>1. held' = Append(held, new)
    BY DEF InputTaken, new
  <2>. QED BY <1>1, <2>1
<1>3. enc = "input" /\ enc' # "input" /\ enc' # "send" /\ InHand = 1 /\ InHand' = 0
  BY DEF InputTaken, InHand
<1>4. GuardCountsHeld'
  BY <1>1, <1>2, <1>3 DEF InputTaken, Ring, GuardCountsHeld, InFlight
<1>5. ASSUME d3d, NEW i \in DOMAIN held'
      PROVE  held'[i].slot = Back(upNext', Len(held') - i + 1)
  <2>1. CASE i = Len(held) + 1
    <3>1. slot = Back(upNext, 1)
      BY <1>3, <1>5 DEF Ring
    <3>. QED BY <1>1, <1>2, <2>1, <3>1 DEF Back
  <2>2. CASE i \in 1..Len(held)
    <3>1. held[i].slot = Back(upNext, Len(held) - i + 2)
      BY <1>2, <1>3, <1>5, <2>2 DEF Ring
    <3>2. Len(held') - i + 1 = Len(held) - i + 2
      BY <1>2, <2>2
    <3>. QED BY <1>1, <1>2, <2>2, <3>1, <3>2 DEF Back
  <2>. QED BY <1>2, <1>5, <2>1, <2>2
<1>. QED BY <1>1, <1>2, <1>3, <1>4, <1>5 DEF Ring

\* The oldest frame leaves the MFT.
LEMMA RingOutput ==
  ASSUME TypeOK, Ring, OutputTaken
  PROVE  Ring'
<1> USE EncoderAssumption DEF EncoderAssumption
<1>1. /\ held \in Seq(Held) /\ held # <<>>
      /\ UNCHANGED <<main, upNext, fed, encoded, async, d3d>> /\ main # "done"
      /\ enc = "output" /\ enc' = "send" /\ InHand = 0 /\ InHand' = 0
  BY DEF TypeOK, OutputTaken, Ring, owner, counters, InHand, mode
<1>2. /\ held' = Tail(held) /\ Len(held) \in Nat \ {0}
      /\ Len(held') = Len(held) - 1
      /\ DOMAIN held' = 1..Len(held) - 1 /\ DOMAIN held = 1..Len(held)
      /\ \A i \in 1..Len(held) - 1 : held'[i] = held[i + 1]
  BY <1>1 DEF OutputTaken
<1>3. GuardCountsHeld'
  BY <1>1, <1>2 DEF Ring, GuardCountsHeld, InFlight
<1>4. ASSUME d3d, NEW i \in DOMAIN held'
      PROVE  held'[i].slot = Back(upNext', Len(held') - i + 1)
  <2>1. held[i + 1].slot = Back(upNext, Len(held) - (i + 1) + 1)
    BY <1>1, <1>2, <1>4 DEF Ring
  <2>2. Len(held') - i + 1 = Len(held) - (i + 1) + 1
    BY <1>2
  <2>. QED BY <1>1, <1>2, <2>1, <2>2 DEF Back
<1>5. ASSUME d3d PROVE Len(held') =< Pool \div 2 + 1
  BY <1>1, <1>2, <1>5, HalfPool DEF Ring
<1>. QED BY <1>1, <1>2, <1>3, <1>4, <1>5, HalfPool DEF Ring

\* The comment on the pool ("32 textures in rotation, and the guard on what is
\* in flight, make sure that a texture the MFT refers to is never overwritten")
\* is right for every pool of at least 3 textures and every MFT, as long as no
\* call fails.
THEOREM PoolIsSafe == Spec => []TextureNotInUse
<1> USE EncoderAssumption DEF EncoderAssumption
<1>1. Init => (fails = 0 => Ring)
  <2> SUFFICES ASSUME Init PROVE Ring
    OBVIOUS
  <2>1. /\ held = <<>> /\ fed = 0 /\ encoded = 0 /\ main = "run"
        /\ enc # "input" /\ enc # "send"
    BY DEF Init, Loop
  <2>. QED BY <2>1, HalfPool DEF Ring, GuardCountsHeld, InFlight, InHand
<1>2. ASSUME TypeOK, fails = 0 => Ring, [Next]_vars PROVE (fails = 0 => Ring)'
  <2> SUFFICES ASSUME fails' = 0 PROVE Ring'
    OBVIOUS
  <2>0. fails = 0 /\ fails' # fails + 1
    <3>1. fails \in Nat
      BY <1>2 DEF TypeOK
    <3>2. fails' \in {fails, fails + 1}
      <4>1. CASE Push \/ PopFrame \/ PopClosed \/ TakeNeed \/ TakeHave \/ TakeError
        BY <4>1 DEF Push, PopFrame, PopClosed, TakeNeed, TakeHave, TakeError
      <4>2. CASE ExitLoop \/ MakeRefused \/ MakeSample \/ InputTaken \/ InputFailed
        BY <4>2 DEF ExitLoop, MakeRefused, MakeSample, InputTaken, InputFailed, Fail
      <4>3. CASE OutputTaken \/ OutputUnusable \/ OutputNothing \/ Send \/ Exception
        BY <4>3 DEF OutputTaken, OutputUnusable, OutputNothing, Send, Exception, Fail
      <4>4. CASE Mft \/ MftError \/ ExitRequest \/ DestroyBegin \/ DestroyEnd \/ UNCHANGED vars
        BY <4>4 DEF Mft, MftNeed, MftHave, MftError, ExitRequest, DestroyBegin, DestroyEnd, vars, Fail
      <4>. QED BY <1>2, <4>1, <4>2, <4>3, <4>4 DEF Next, EncThread
    <3>. QED BY <3>1, <3>2
  <2> USE <1>2, <2>0 DEF mode, capture, owner, mft, counters, Ring
  <2>1. CASE Push \/ PopFrame \/ PopClosed
    BY <2>1, RingFrame DEF Push, PopFrame, PopClosed
  <2>2. CASE TakeNeed \/ TakeHave \/ TakeError
    BY <2>2, RingFrame DEF TakeNeed, TakeHave, TakeError, TakeEvent
  <2>3. CASE ExitLoop \/ MakeRefused \/ OutputNothing
    BY <2>3, RingFrame DEF ExitLoop, MakeRefused, OutputNothing, Loop, Fail
  <2>4. CASE InputFailed \/ OutputUnusable \/ Exception
    BY <2>4 DEF InputFailed, OutputUnusable, Exception, Fail
  <2>5. CASE MftNeed \/ MftHave \/ MftError \/ ExitRequest \/ DestroyBegin
    BY <2>5, RingFrame DEF MftNeed, MftHave, MftError, ExitRequest, DestroyBegin, Fail
  <2>6. CASE MakeSample
    BY <2>6, RingMake
  <2>7. CASE InputTaken
    BY <2>7, RingInput
  <2>8. CASE OutputTaken
    BY <2>8, RingOutput
  <2>9. CASE Send
    BY <2>9 DEF Send, TypeOK, GuardCountsHeld, InFlight, InHand, Back
  <2>10. CASE DestroyEnd
    BY <2>10, HalfPool DEF DestroyEnd, GuardCountsHeld, InHand
  <2>11. CASE UNCHANGED vars
    BY <2>11, RingFrame DEF vars
  <2>. QED
    BY <2>1, <2>2, <2>3, <2>4, <2>5, <2>6, <2>7, <2>8, <2>9, <2>10, <2>11
    DEF Next, EncThread, Mft
<1>3. Spec => []TypeOK
  BY TypeCorrect
<1>. QED BY <1>1, <1>2, <1>3, RingIsSafe, PTL DEF Spec

-----------------------------------------------------------------------------
(* The order of access units.                                               *)

\* Captured before what waits in the queue.
Before(n) == n \in Nat /\ n =< captured /\ (q # <<>> => n < captured)

\* The unit sent last, the one being sent, those in the MFT, the one on its way
\* into it and the one that waits have growing numbers.
Order ==
  /\ q # <<>> => q = <<captured>>
  /\ Before(last)
  /\ enc \in {"make", "input", "send"} => Before(frame) /\ last < frame
  /\ \A i \in DOMAIN held :
       /\ Before(held[i].frame) /\ last < held[i].frame
       /\ enc \in {"make", "input"} => held[i].frame < frame
       /\ enc = "send" => frame < held[i].frame
  /\ \A i, j \in DOMAIN held : i < j => held[i].frame < held[j].frame

\* Steps that leave units and the thread's place among them alone, or drop the
\* frame in hand.
LEMMA OrderStays ==
  ASSUME Order, UNCHANGED <<q, captured, last, frame, held>>,
         enc' \in {"make", "input"} => enc \in {"make", "input"},
         enc' = "send" => enc = "send"
  PROVE  Order'
BY DEF Order, Before

LEMMA OrderPush ==
  ASSUME TypeOK, Order, Push
  PROVE  Order'
<1>1. /\ UNCHANGED <<last, frame, held, enc>> /\ captured \in Nat /\ captured' = captured + 1
  BY EncoderAssumption DEF EncoderAssumption, TypeOK, Frames, Push, mft
<1>2. q' = <<captured'>>
  <2>1. CASE q = <<>>
    <3>1. (IF Len(q) >= 1 THEN Tail(q) ELSE q) = <<>>
      BY <2>1
    <3>2. q' = Append(<<>>, captured')
      BY <1>1, <3>1 DEF Push
    <3>. QED BY <3>2
  <2>2. CASE q # <<>>
    <3>1. q = <<captured>>
      BY <2>2 DEF Order
    <3>2. Len(q) = 1 /\ Tail(q) = <<>>
      BY <3>1
    <3>3. (IF Len(q) >= 1 THEN Tail(q) ELSE q) = <<>>
      BY <3>2
    <3>4. q' = Append(<<>>, captured')
      BY <1>1, <3>3 DEF Push
    <3>. QED BY <3>4
  <2>. QED BY <2>1, <2>2
<1>3. \A n : Before(n) => Before(n)'
  BY <1>1 DEF Before
<1>. QED BY <1>1, <1>2, <1>3 DEF Order

LEMMA OrderPop ==
  ASSUME TypeOK, Order, PopFrame
  PROVE  Order'
<1>1. /\ UNCHANGED <<last, captured, held>> /\ captured \in Nat
      /\ frame' = captured /\ q' = <<>> /\ enc = "pop" /\ enc' = "make" /\ q # <<>>
  <2>1. q = <<captured>>
    BY DEF Order, PopFrame
  <2>2. Head(q) = captured /\ Tail(q) = <<>>
    BY <2>1
  <2>3. captured \in Nat
    BY EncoderAssumption DEF EncoderAssumption, TypeOK, Frames
  <2>. QED BY <2>2, <2>3 DEF PopFrame, mft
<1>2. \A n : Before(n) => Before(n)' /\ n < captured
  BY <1>1 DEF Before
<1>3. Before(frame)'
  BY <1>1 DEF Before
<1>. QED BY <1>1, <1>2, <1>3 DEF Order

LEMMA OrderInput ==
  ASSUME TypeOK, Order, InputTaken
  PROVE  Order'
<1> DEFINE new == [frame |-> frame, slot |-> slot]
<1>1. /\ UNCHANGED <<q, captured, last, frame>> /\ held \in Seq(Held) /\ new \in Held
      /\ enc = "input" /\ enc' \notin {"make", "input", "send"}
  BY DEF TypeOK, InputTaken, Held, capture
<1>2. /\ Len(held) \in Nat
      /\ DOMAIN held' = 1..Len(held) + 1 /\ DOMAIN held = 1..Len(held)
      /\ \A i \in 1..Len(held) : held'[i] = held[i]
      /\ held'[Len(held) + 1] = new
  <2> HIDE DEF new
  <2>1. held' = Append(held, new)
    BY DEF InputTaken, new
  <2>. QED BY <1>1, <2>1
<1>3. new.frame = frame
  OBVIOUS
<1> DEFINE n == Len(held)
<1> HIDE DEF new, n
<1>4. \A k : Before(k) => Before(k)'
  BY <1>1 DEF Before
<1>5. ASSUME NEW i \in 1..n + 1 PROVE Before(held[i].frame)' /\ last < held'[i].frame
  <2>1. CASE i = n + 1
    <3>1. held'[i].frame = frame /\ Before(frame) /\ last < frame
      BY <1>1, <1>2, <1>3, <2>1 DEF Order, n
    <3>2. Before(held'[i].frame)
      BY <3>1
    <3>. QED BY <1>1, <3>1, <3>2 DEF Before
  <2>2. CASE i \in 1..n
    <3>1. held'[i] = held[i] /\ Before(held[i].frame) /\ last < held[i].frame
      BY <1>2, <2>2 DEF Order, n
    <3>. QED BY <1>1, <3>1 DEF Before
  <2>. QED BY <1>2, <2>1, <2>2 DEF n
<1>6. ASSUME NEW i \in 1..n + 1, NEW j \in 1..n + 1, i < j
      PROVE  held'[i].frame < held'[j].frame
  <2>0. i \in 1..n
    BY <1>2, <1>6 DEF n
  <2>1. CASE j = n + 1
    BY <1>1, <1>2, <1>3, <2>0, <2>1 DEF Order, n
  <2>2. CASE j \in 1..n
    BY <1>2, <1>6, <2>0, <2>2 DEF Order, n
  <2>. QED BY <1>2, <2>1, <2>2 DEF n
<1>7. q' # <<>> => q' = <<captured'>>
  BY <1>1 DEF Order
<1>8. Before(last)'
  BY <1>1 DEF Order, Before
<1>9. DOMAIN held' = 1..n + 1 /\ last' = last
  BY <1>1, <1>2 DEF n
<1>. QED BY <1>1, <1>5, <1>6, <1>7, <1>8, <1>9 DEF Order

LEMMA OrderOutput ==
  ASSUME TypeOK, Order, enc = "output", held # <<>>, held' = Tail(held),
         UNCHANGED <<q, captured, last>>,
         \/ enc' = "send" /\ frame' = Head(held).frame
         \/ enc' \notin {"make", "input", "send"}
  PROVE  Order'
<1> DEFINE n == Len(held)
<1>1. held \in Seq(Held)
  BY DEF TypeOK
<1>2. /\ n \in Nat \ {0} /\ DOMAIN held' = 1..n - 1 /\ DOMAIN held = 1..n
      /\ Head(held) = held[1]
      /\ \A i \in 1..n - 1 : held'[i] = held[i + 1]
  BY <1>1
<1> HIDE DEF n
<1>3. \A k : Before(k) => Before(k)'
  BY DEF Before
<1>4. \A i \in 1..n - 1 : i + 1 \in 1..n /\ 1 < i + 1 /\ 1 \in 1..n
  BY <1>2
<1>5. \A i \in 1..n - 1 : /\ Before(held[i].frame)' /\ last < held'[i].frame
                          /\ held[1].frame < held'[i].frame
  <2> SUFFICES ASSUME NEW i \in 1..n - 1
               PROVE  /\ Before(held[i].frame)' /\ last < held'[i].frame
                      /\ held[1].frame < held'[i].frame
    OBVIOUS
  <2>1. /\ held'[i] = held[i + 1] /\ Before(held[i + 1].frame) /\ last < held[i + 1].frame
        /\ held[1].frame < held[i + 1].frame
    BY <1>2, <1>4 DEF Order
  <2>. QED BY <2>1 DEF Before
<1>6. ASSUME NEW i \in 1..n - 1, NEW j \in 1..n - 1, i < j
      PROVE  held'[i].frame < held'[j].frame
  <2>1. i + 1 \in 1..n /\ j + 1 \in 1..n /\ i + 1 < j + 1
    BY <1>2, <1>6
  <2>. QED BY <1>2, <2>1 DEF Order
<1>7. enc' = "send" => Before(frame)' /\ last < frame' /\ frame' = held[1].frame
  <2>1. 1 \in DOMAIN held
    BY <1>2
  <2>. QED BY <1>2, <1>3, <2>1 DEF Order
<1>8. (q # <<>> => q = <<captured>>)' /\ Before(last)'
  BY <1>3 DEF Order
<1>9. enc' \notin {"make", "input"} /\ last' = last
  OBVIOUS
<1>10. enc' = "send" => \A i \in 1..n - 1 : frame' < held'[i].frame
  BY <1>5, <1>7
<1>11. DOMAIN held' = 1..n - 1
  BY <1>2
<1>. QED BY <1>5, <1>6, <1>7, <1>8, <1>9, <1>10, <1>11 DEF Order

LEMMA OrderInductive ==
  /\ Init => Order
  /\ TypeOK /\ Order /\ [Next]_vars => Order'
<1>1. Init => Order
  <2> SUFFICES ASSUME Init PROVE Order
    OBVIOUS
  <2>1. q = <<>> /\ held = <<>> /\ last = 0 /\ captured = 0 /\ enc \in {"poll", "pop"}
    BY DEF Init, Loop
  <2>. QED BY <2>1 DEF Order, Before
<1>2. ASSUME TypeOK, Order, [Next]_vars PROVE Order'
  <2> USE <1>2 DEF mode, capture, owner, mft, counters
  <2>1. CASE Push
    BY <2>1, OrderPush
  <2>2. CASE PopFrame
    BY <2>2, OrderPop
  <2>3. CASE PopClosed
    BY <2>3, OrderStays DEF PopClosed
  <2>4. CASE TakeNeed \/ TakeHave \/ TakeError
    BY <2>4, OrderStays DEF TakeNeed, TakeHave, TakeError, TakeEvent
  <2>5. CASE ExitLoop \/ MakeRefused \/ MakeSample \/ InputFailed \/ OutputNothing \/ Exception
    BY <2>5, OrderStays
    DEF ExitLoop, MakeRefused, MakeSample, InputFailed, OutputNothing, Exception, Loop
  <2>6. CASE InputTaken
    BY <2>6, OrderInput
  <2>7. CASE OutputTaken
    BY <2>7, OrderOutput DEF OutputTaken
  <2>8. CASE OutputUnusable
    <3>1. enc' \notin {"make", "input", "send"}
      BY <2>8 DEF OutputUnusable, Loop
    <3>. QED BY <2>8, <3>1, OrderOutput DEF OutputUnusable
  <2>9. CASE Send
    <3>1. /\ UNCHANGED <<q, captured, held, frame>> /\ last' = frame /\ enc = "send"
          /\ enc' \notin {"make", "input", "send"}
      BY <2>9 DEF Send
    <3>. QED BY <3>1 DEF Order, Before
  <2>10. CASE Mft \/ MftError \/ ExitRequest \/ DestroyBegin
    BY <2>10, OrderStays DEF Mft, MftNeed, MftHave, MftError, ExitRequest, DestroyBegin
  <2>11. CASE DestroyEnd
    <3>1. /\ UNCHANGED <<q, captured, last, frame, enc>> /\ held' = <<>>
      BY <2>11 DEF DestroyEnd
    <3>. QED BY <3>1 DEF Order, Before
  <2>12. CASE UNCHANGED vars
    BY <2>12, OrderStays DEF vars
  <2>. QED
    BY <2>1, <2>2, <2>3, <2>4, <2>5, <2>6, <2>7, <2>8, <2>9, <2>10, <2>11, <2>12
    DEF Next, EncThread
<1>. QED BY <1>1, <1>2

\* Frames that are replaced in the queue, refused by the pool or lost in the MFT
\* leave gaps, but what is sent is always newer than what was sent before.
THEOREM UnitsNeverShuffle == Spec => []UnitsInOrder
<1>1. ASSUME TypeOK, Order PROVE UnitsInOrder
  <2>1. frame \in Nat /\ last \in Nat
    BY <1>1, EncoderAssumption DEF EncoderAssumption, TypeOK, Frames
  <2>. QED BY <1>1, <2>1 DEF Order, UnitsInOrder
<1>2. Spec => []TypeOK
  BY TypeCorrect
<1>. QED BY <1>1, <1>2, OrderInductive, PTL DEF Spec
=============================================================================
