-------------------------- MODULE DupCaptureProofs --------------------------
(* Proofs about DupCapture for any number of pictures, failures, losses    *)
(* and attempts, with a scaler on the GPU and without: what is pushed      *)
(* never goes back in time, and is current when the channel is empty.      *)
EXTENDS DupCapture, TLAPS

LEMMA FlagsInductive ==
  /\ Init => FlagsOK
  /\ FlagsOK /\ [Next]_vars => FlagsOK'
<1>1. Init => FlagsOK
  BY DEF Init, FlagsOK
<1>2. ASSUME FlagsOK, [Next]_vars PROVE FlagsOK'
  <2> USE <1>2 DEF FlagsOK, Goto, desktop, channel, picture, marks, ends, trouble
  <2>1. CASE DesktopChanges \/ PointerMoves \/ SizeChanges
    <3>1. CASE DesktopChanges
      BY <3>1 DEF DesktopChanges
    <3>2. CASE PointerMoves
      BY <3>2 DEF PointerMoves
    <3>3. CASE SizeChanges
      BY <3>3 DEF SizeChanges
    <3>. QED BY <2>1, <3>1, <3>2, <3>3
  <2>2. CASE ChannelLost \/ ForceFrame \/ StopRequest
    <3>1. CASE ChannelLost
      BY <3>1 DEF ChannelLost
    <3>2. CASE ForceFrame
      BY <3>2 DEF ForceFrame
    <3>3. CASE StopRequest
      BY <3>3 DEF StopRequest
    <3>. QED BY <2>2, <3>1, <3>2, <3>3
  <2>3. CASE Wake \/ Leave \/ NothingNew
    <3>1. CASE Wake
      BY <3>1 DEF Wake
    <3>2. CASE Leave
      BY <3>2 DEF Leave
    <3>3. CASE NothingNew
      BY <3>3 DEF NothingNew
    <3>. QED BY <2>3, <3>1, <3>2, <3>3
  <2>4. CASE AcquireFails
    BY <2>4 DEF AcquireFails, Fail
  <2>5. CASE OnGpu
    BY <2>5 DEF OnGpu, Acquire
  <2>6. CASE ReadBack
    BY <2>6 DEF ReadBack, Acquire, Fail
  <2>7. CASE OtherSize
    BY <2>7 DEF OtherSize, Acquire
  <2>8. CASE Lost \/ Recreated \/ RecreateFails
    <3>1. CASE Lost
      BY <3>1 DEF Lost
    <3>2. CASE Recreated
      BY <3>2 DEF Recreated
    <3>3. CASE RecreateFails
      BY <3>3 DEF RecreateFails
    <3>. QED BY <2>8, <3>1, <3>2, <3>3
  <2>9. CASE RecreateGivesUp \/ NullChannel
    BY <2>9 DEF RecreateGivesUp, NullChannel
  <2>10. CASE NothingToDraw
    BY <2>10 DEF NothingToDraw, ToRedraw
  <2>11. CASE KeepPicture
    BY <2>11 DEF KeepPicture, Redrawn, ToRedraw
  <2>12. CASE DrawPicture
    BY <2>12 DEF DrawPicture, Redrawn, ToRedraw
  <2>13. CASE PushPicture
    BY <2>13 DEF PushPicture
  <2>14. CASE UNCHANGED vars
    BY <2>14 DEF vars
  <2>. QED BY <2>1, <2>2, <2>3, <2>4, <2>5, <2>6, <2>7, <2>8,
              <2>9, <2>10, <2>11, <2>12, <2>13, <2>14
           DEF Next, CapThread, Desktop
<1>. QED BY <1>1, <1>2

RangesOK ==
  /\ screen \in 1..MaxPics /\ pointer \in Pointers
  /\ dup \in {"ok", "lost", "null"} /\ tries \in 0..Retries
  /\ thread \in {"sleep", "acquire", "recreate", "redraw", "push", "exit", "crash"}
  /\ cursor \in Pointers /\ lastCursor \in Pointers
  /\ base \in 0..MaxPics /\ nv12 \in Pictures /\ pushed \in Pictures
  /\ fails \in 0..MaxFails /\ losses \in 0..MaxLosses

LEMMA RangesInductive ==
  /\ Init => RangesOK
  /\ RangesOK /\ [Next]_vars => RangesOK'
<1>1. Init => RangesOK
  BY CaptureAssumption DEF CaptureAssumption, Init, RangesOK, Pointers, Pictures, Blank
<1>2. ASSUME RangesOK, [Next]_vars PROVE RangesOK'
  <2> USE <1>2, CaptureAssumption DEF CaptureAssumption, RangesOK, Pointers, Pictures, Goto, desktop, channel, picture, marks, ends, trouble
  <2>1. CASE DesktopChanges \/ PointerMoves \/ SizeChanges
    BY <2>1 DEF DesktopChanges, PointerMoves, SizeChanges
  <2>2. CASE ChannelLost \/ ForceFrame \/ StopRequest
    BY <2>2 DEF ChannelLost, ForceFrame, StopRequest
  <2>3. CASE Wake \/ Leave \/ NothingNew
    BY <2>3 DEF Wake, Leave, NothingNew
  <2>4. CASE AcquireFails
    BY <2>4 DEF AcquireFails, Fail
  <2>5. CASE OnGpu
    BY <2>5 DEF OnGpu, Acquire
  <2>6. CASE ReadBack
    BY <2>6 DEF ReadBack, Acquire, Fail
  <2>7. CASE OtherSize
    BY <2>7 DEF OtherSize, Acquire
  <2>8. CASE Lost \/ Recreated \/ RecreateFails
    BY <2>8 DEF Lost, Recreated, RecreateFails
  <2>9. CASE RecreateGivesUp \/ NullChannel
    BY <2>9 DEF RecreateGivesUp, NullChannel
  <2>10. CASE NothingToDraw
    BY <2>10 DEF NothingToDraw, ToRedraw
  <2>11. CASE KeepPicture
    BY <2>11 DEF KeepPicture, Redrawn, ToRedraw
  <2>12. CASE DrawPicture
    BY <2>12 DEF DrawPicture, Redrawn, ToRedraw
  <2>13. CASE PushPicture
    BY <2>13 DEF PushPicture
  <2>14. CASE UNCHANGED vars
    BY <2>14 DEF vars
  <2>. QED BY <2>1, <2>2, <2>3, <2>4, <2>5, <2>6, <2>7, <2>8,
              <2>9, <2>10, <2>11, <2>12, <2>13, <2>14
           DEF Next, CapThread, Desktop
<1>. QED BY <1>1, <1>2

\* In every reachable state each variable has its type, and no counter is
\* beyond its bound.
THEOREM TypeCorrect == Spec => []TypeOK
<1> DEFINE IInv == FlagsOK /\ RangesOK
<1>1. Init => IInv
  BY FlagsInductive, RangesInductive
<1>2. IInv /\ [Next]_vars => IInv'
  BY FlagsInductive, RangesInductive
<1>3. IInv => TypeOK
  BY DEF RangesOK, TypeOK
<1>. QED BY <1>1, <1>2, <1>3, PTL DEF Spec

-----------------------------------------------------------------------------
\* What is pushed is no newer than nv12_, nv12_ no newer than the desktop, and
\* a base that counts as valid is no older than nv12_: OnGpu, which makes nv12_
\* newer and leaves the base behind, takes its validity away.
Ages ==
  /\ screen \in Nat /\ base \in Nat /\ nv12.pic \in Nat /\ pushed.pic \in Nat
  /\ pushed.pic =< nv12.pic /\ nv12.pic =< screen /\ base =< screen
  /\ baseValid => nv12.pic =< base

LEMMA AgesInductive ==
  /\ Init => Ages
  /\ Ages /\ [Next]_vars => Ages'
<1>1. Init => Ages
  BY DEF Init, Ages, Blank
<1>2. ASSUME Ages, [Next]_vars PROVE Ages'
  <2> USE <1>2 DEF Ages, Goto, desktop, channel, picture, marks, ends, trouble
  <2>1. CASE DesktopChanges \/ PointerMoves \/ SizeChanges
    BY <2>1 DEF DesktopChanges, PointerMoves, SizeChanges
  <2>2. CASE ChannelLost \/ ForceFrame \/ StopRequest
    BY <2>2 DEF ChannelLost, ForceFrame, StopRequest
  <2>3. CASE Wake \/ Leave \/ NothingNew
    BY <2>3 DEF Wake, Leave, NothingNew
  <2>4. CASE AcquireFails
    BY <2>4 DEF AcquireFails, Fail
  <2>5. CASE OnGpu
    BY <2>5 DEF OnGpu, Acquire
  <2>6. CASE ReadBack
    BY <2>6 DEF ReadBack, Acquire, Fail
  <2>7. CASE OtherSize
    BY <2>7 DEF OtherSize, Acquire
  <2>8. CASE Lost \/ Recreated \/ RecreateFails
    BY <2>8 DEF Lost, Recreated, RecreateFails
  <2>9. CASE RecreateGivesUp \/ NullChannel
    BY <2>9 DEF RecreateGivesUp, NullChannel
  <2>10. CASE NothingToDraw
    BY <2>10 DEF NothingToDraw, ToRedraw
  <2>11. CASE KeepPicture
    BY <2>11 DEF KeepPicture, Redrawn, ToRedraw
  <2>12. CASE DrawPicture
    BY <2>12 DEF DrawPicture, Redrawn, ToRedraw
  <2>13. CASE PushPicture
    BY <2>13 DEF PushPicture
  <2>14. CASE UNCHANGED vars
    BY <2>14 DEF vars
  <2>. QED BY <2>1, <2>2, <2>3, <2>4, <2>5, <2>6, <2>7, <2>8,
              <2>9, <2>10, <2>11, <2>12, <2>13, <2>14
           DEF Next, CapThread, Desktop
<1>. QED BY <1>1, <1>2

\* No step of the capture thread pushes a picture older than the one pushed
\* before, whichever path made either and whatever failed in between.
THEOREM NeverBackInTime == Spec => NeverFlashesBack
<1>1. Ages /\ [Next]_vars => [pushed'.pic >= pushed.pic]_pushed
  <2> SUFFICES ASSUME Ages, [Next]_vars, ~UNCHANGED pushed PROVE pushed'.pic >= pushed.pic
    OBVIOUS
  <2>1. pushed' = nv12
    BY DEF Next, CapThread, Desktop, vars, DesktopChanges, PointerMoves, SizeChanges,
           ChannelLost, ForceFrame, StopRequest, Wake, Leave, NothingNew, AcquireFails,
           OnGpu, ReadBack, OtherSize, Lost, Recreated, RecreateFails, RecreateGivesUp,
           NullChannel, NothingToDraw, KeepPicture, DrawPicture, PushPicture
  <2>. QED BY <2>1 DEF Ages
<1>. QED BY <1>1, AgesInductive, PTL DEF Spec, NeverFlashesBack

-----------------------------------------------------------------------------
\* Something was acquired, nothing newer waits, and nothing went wrong.
Settled == haveFrame /\ ~fresh /\ ~resized /\ fails = 0

Current == [pic |-> screen, at |-> cursor]

\* Then the pointer is where the frame said, if it said so; the frame is in the picture, made by the GPU without a pointer, or in
\* the base; the picture is current or about to be drawn again; and between
\* ticks it has been pushed.
Acquired ==
  Settled =>
    /\ told => cursor = pointer
    /\ \/ gpuThisFrame /\ cursor = "off" /\ nv12 = Current
       \/ ~gpuThisFrame /\ baseValid /\ base = screen
    /\ nv12 = Current \/ (thread = "redraw" /\ frameDirty)
    /\ thread = "sleep" => pushed = Current

LEMMA AcquiredInductive ==
  /\ Init => Acquired
  /\ RangesOK /\ Acquired /\ [Next]_vars => Acquired'
<1>1. Init => Acquired
  BY DEF Init, Acquired, Settled
<1>2. ASSUME RangesOK, Acquired, [Next]_vars PROVE Acquired'
  <2> USE <1>2 DEF RangesOK, Acquired, Settled, Current, Goto, desktop, channel, picture, marks, ends, trouble
  <2>1. CASE DesktopChanges \/ PointerMoves \/ SizeChanges
    BY <2>1 DEF DesktopChanges, PointerMoves, SizeChanges
  <2>2. CASE ChannelLost \/ ForceFrame \/ StopRequest
    BY <2>2 DEF ChannelLost, ForceFrame, StopRequest
  <2>3. CASE Wake \/ Leave \/ NothingNew
    BY <2>3 DEF Wake, Leave, NothingNew
  <2>4. CASE AcquireFails
    BY <2>4 DEF AcquireFails, Fail
  <2>5. CASE OnGpu
    BY <2>5 DEF OnGpu, Acquire
  <2>6. CASE ReadBack
    BY <2>6 DEF ReadBack, Acquire, Fail
  <2>7. CASE OtherSize
    BY <2>7 DEF OtherSize, Acquire
  <2>8. CASE Lost \/ Recreated \/ RecreateFails
    BY <2>8 DEF Lost, Recreated, RecreateFails
  <2>9. CASE RecreateGivesUp \/ NullChannel
    BY <2>9 DEF RecreateGivesUp, NullChannel
  <2>10. CASE NothingToDraw
    BY <2>10 DEF NothingToDraw, ToRedraw
  <2>11. CASE KeepPicture
    BY <2>11 DEF KeepPicture, Redrawn, ToRedraw
  <2>12. CASE DrawPicture
    BY <2>12 DEF DrawPicture, Redrawn, ToRedraw
  <2>13. CASE PushPicture
    BY <2>13 DEF PushPicture
  <2>14. CASE UNCHANGED vars
    BY <2>14 DEF vars
  <2>. QED BY <2>1, <2>2, <2>3, <2>4, <2>5, <2>6, <2>7, <2>8,
              <2>9, <2>10, <2>11, <2>12, <2>13, <2>14
           DEF Next, CapThread, Desktop
<1>. QED BY <1>1, <1>2

\* Between ticks, with nothing left in the channel, the tablet has been given
\* the desktop as it is and the pointer where the last frame said it is, which
\* is its true place if that frame carried a pointer update.
THEOREM PushedIsUpToDate == Spec => []PushedIsCurrent
<1> DEFINE IInv == RangesOK /\ Acquired
<1>1. Init => IInv
  BY RangesInductive, AcquiredInductive
<1>2. IInv /\ [Next]_vars => IInv'
  BY RangesInductive, AcquiredInductive
<1>3. IInv => PushedIsCurrent
  BY DEF Acquired, Settled, Current, PushedIsCurrent
<1>. QED BY <1>1, <1>2, <1>3, PTL DEF Spec

=============================================================================
