----------------------------- MODULE DupCapture -----------------------------
(***************************************************************************)
(* The Windows sender's capture (DupCapture and the capture thread of      *)
(* StreamUntil): every tick takes what the desktop duplication channel     *)
(* has, brings the NV12 picture up to date and pushes it, new or not.      *)
(*                                                                         *)
(* A picture is the number of the desktop's state it shows and where it    *)
(* has the pointer.  With a scaler on the GPU a frame without the pointer  *)
(* is converted there and never read back; a frame with it is read back    *)
(* into baseBgra_ and the pointer drawn into a copy.                       *)
(*                                                                         *)
(* The channel says where the pointer is only in a frame that carries a    *)
(* pointer update (LastMouseUpdateTime is not 0).  Tick copies the field   *)
(* of every frame: without an update it gets any value.                    *)
(***************************************************************************)
EXTENDS Naturals

CONSTANTS UseGpu,     \* useGpu_
          MaxFails,   \* bound: calls of AcquireNextFrame, Convert and Map that fail
          MaxLosses,  \* bound: losses of the duplication channel
          Retries,    \* attempts of RecreateDup, 10 in the code
          MaxPics     \* bound: states of the desktop in a behaviour

ASSUME CaptureAssumption ==
  /\ UseGpu \in BOOLEAN /\ MaxFails \in Nat /\ MaxLosses \in Nat
  /\ Retries \in Nat /\ MaxPics \in Nat \ {0}

\* Where the pointer is: not on the captured screen, or at a place of it.
Pointers == {"off", "here", "there"}

VARIABLES
  screen, pointer,   \* external: the desktop's state and its pointer
  resized,           \* external: the desktop has another size by now
  fresh,             \* the channel has something not acquired yet
  moved,             \* external: ... and a pointer update is part of it
  dup,               \* dup_: "ok", "lost" (acquiring says so) or "null"
  thread,            \* capture thread: "sleep", "acquire", "recreate",
                     \* "redraw", "push", "exit", "crash"
  tries,             \* RecreateDup's i
  cursor,            \* cursorVisible_ with cursorPos_
  lastCursor,        \* lastCursorVisible_ with lastCursorPos_
  base, baseValid,   \* baseBgra_, baseValid_
  nv12,              \* the picture Nv12() returns
  gpuThisFrame, haveFrame, frameDirty, modeChanged,
  force,             \* g_forceFrame
  stop, exit,        \* the owner's stop flag; g_exit
  fails, losses,     \* failed calls and losses so far
  told,              \* history: the frame acquired last had a pointer update
  pushed             \* history: the picture pushed last

desktop == <<screen, pointer, resized>>
channel == <<fresh, moved, dup, tries>>
picture == <<cursor, told, lastCursor, base, baseValid, nv12, gpuThisFrame>>
marks == <<haveFrame, frameDirty, modeChanged>>
ends == <<stop, exit>>
trouble == <<fails, losses>>
vars == <<desktop, channel, thread, picture, marks, force, ends, trouble, pushed>>

Blank == [pic |-> 0, at |-> "off"]

Init ==
  /\ screen = 1 /\ pointer \in Pointers /\ resized = FALSE
  /\ fresh = TRUE /\ moved \in BOOLEAN /\ dup = "ok" /\ tries = 0
  /\ thread = "sleep"
  /\ cursor = "off" /\ told = FALSE /\ lastCursor = "off"
  /\ base = 0 /\ baseValid = FALSE /\ nv12 = Blank /\ gpuThisFrame = FALSE
  /\ haveFrame = FALSE /\ frameDirty = FALSE /\ modeChanged = FALSE
  /\ force = FALSE /\ stop = FALSE /\ exit = FALSE
  /\ fails = 0 /\ losses = 0
  /\ pushed = Blank

Goto(from, to) == thread = from /\ thread' = to

-----------------------------------------------------------------------------
(* The desktop and the owner.                                              *)

DesktopChanges ==
  /\ screen < MaxPics
  /\ screen' = screen + 1 /\ fresh' = TRUE
  /\ UNCHANGED <<pointer, resized, moved, dup, tries, thread, picture, marks, force, ends, trouble, pushed>>

PointerMoves ==
  /\ pointer' \in Pointers \ {pointer} /\ fresh' = TRUE /\ moved' = TRUE
  /\ UNCHANGED <<screen, resized, dup, tries, thread, picture, marks, force, ends, trouble, pushed>>

SizeChanges ==
  /\ ~resized
  /\ resized' = TRUE /\ fresh' = TRUE
  /\ UNCHANGED <<screen, pointer, moved, dup, tries, thread, picture, marks, force, ends, trouble, pushed>>

\* Lock screen, change of mode, another user.
ChannelLost ==
  /\ losses < MaxLosses /\ dup = "ok"
  /\ dup' = "lost" /\ losses' = losses + 1
  /\ UNCHANGED <<desktop, fresh, moved, tries, thread, picture, marks, force, ends, fails, pushed>>

\* A new encoder wants a picture at once.
ForceFrame ==
  /\ ~force /\ force' = TRUE
  /\ UNCHANGED <<desktop, channel, thread, picture, marks, ends, trouble, pushed>>

\* The session is to end: a stop flag, or g_exit, which Ctrl+C sets.
StopRequest ==
  /\ ~stop /\ ~exit
  /\ (stop' = TRUE /\ exit' = FALSE) \/ (stop' = FALSE /\ exit' = TRUE)
  /\ UNCHANGED <<desktop, channel, thread, picture, marks, force, trouble, pushed>>

-----------------------------------------------------------------------------
(* The capture thread.                                                     *)

\* Slip: only g_exit counts, as in RecreateDup.
StoppedByExit == exit

\* stopped(), which the loop of the thread asks.
Stopped == stop \/ exit

Wake ==
  /\ Goto("sleep", "acquire") /\ ~Stopped
  /\ frameDirty' = (frameDirty \/ force) /\ force' = FALSE
  /\ UNCHANGED <<desktop, channel, picture, haveFrame, modeChanged, ends, trouble, pushed>>

Leave ==
  /\ Goto("sleep", "exit") /\ Stopped
  /\ UNCHANGED <<desktop, channel, picture, marks, force, ends, trouble, pushed>>

\* AcquireNextFrame times out.
NothingNew ==
  /\ Goto("acquire", "redraw") /\ dup = "ok" /\ ~fresh
  /\ UNCHANGED <<desktop, channel, picture, marks, force, ends, trouble, pushed>>

Fail == fails < MaxFails /\ fails' = fails + 1

\* Any other failure: Tick returns.
AcquireFails ==
  /\ Goto("acquire", "push") /\ dup = "ok" /\ Fail
  /\ UNCHANGED <<desktop, channel, picture, marks, force, ends, losses, pushed>>

\* PointerPosition is copied whether the frame carries a pointer update or not.
Acquire ==
  /\ dup = "ok" /\ fresh
  /\ fresh' = FALSE /\ moved' = FALSE
  /\ told' = moved
  /\ cursor' \in IF moved THEN {pointer} ELSE Pointers

\* Slip: the base picture is still taken for valid.
OnGpuKeepBase ==
  /\ Goto("acquire", "redraw") /\ Acquire /\ ~resized
  /\ UseGpu /\ cursor' = "off"
  /\ nv12' = [pic |-> screen, at |-> "off"]
  /\ gpuThisFrame' = TRUE
  /\ haveFrame' = TRUE /\ frameDirty' = TRUE
  /\ UNCHANGED <<desktop, dup, tries, lastCursor, base, baseValid, modeChanged, force, ends, trouble, pushed>>

\* Without a pointer to draw the GPU makes the picture, all of it.
OnGpu ==
  /\ Goto("acquire", "redraw") /\ Acquire /\ ~resized
  /\ UseGpu /\ cursor' = "off"
  /\ nv12' = [pic |-> screen, at |-> "off"]
  /\ gpuThisFrame' = TRUE /\ baseValid' = FALSE
  /\ haveFrame' = TRUE /\ frameDirty' = TRUE
  /\ UNCHANGED <<desktop, dup, tries, lastCursor, base, modeChanged, force, ends, trouble, pushed>>

\* Slip: gpuThisFrame_ is not reset.
ReadBackStillGpu ==
  /\ Goto("acquire", "redraw") /\ Acquire /\ ~resized
  /\ \/ /\ IF UseGpu /\ cursor' = "off" THEN Fail ELSE UNCHANGED fails
        /\ base' = screen /\ baseValid' = TRUE
     \/ Fail /\ UNCHANGED <<base, baseValid>>
  /\ haveFrame' = TRUE /\ frameDirty' = TRUE
  /\ UNCHANGED <<desktop, dup, tries, lastCursor, nv12, gpuThisFrame, modeChanged,
                 force, ends, losses, pushed>>

\* Otherwise, or when the GPU fails, the frame is read back, if Map succeeds.
ReadBack ==
  /\ Goto("acquire", "redraw") /\ Acquire /\ ~resized
  /\ gpuThisFrame' = FALSE
  /\ \/ /\ IF UseGpu /\ cursor' = "off" THEN Fail ELSE UNCHANGED fails
        /\ base' = screen /\ baseValid' = TRUE
     \/ Fail /\ UNCHANGED <<base, baseValid>>
  /\ haveFrame' = TRUE /\ frameDirty' = TRUE
  /\ UNCHANGED <<desktop, dup, tries, lastCursor, nv12, modeChanged, force, ends, losses, pushed>>

\* A frame of another size is not used.
OtherSize ==
  /\ Goto("acquire", "redraw") /\ Acquire /\ resized
  /\ modeChanged' = TRUE
  /\ UNCHANGED <<desktop, dup, tries, lastCursor, base, baseValid, nv12, gpuThisFrame,
                 haveFrame, frameDirty, force, ends, trouble, pushed>>

\* ACCESS_LOST: RecreateDup lets the channel go ...
Lost ==
  /\ Goto("acquire", "recreate") /\ dup = "lost"
  /\ dup' = "null" /\ tries' = 0
  /\ UNCHANGED <<desktop, fresh, moved, picture, marks, force, ends, trouble, pushed>>

\* ... and tries to get a new one; Tick starts over.
Recreated ==
  /\ Goto("recreate", "acquire") /\ tries < Retries /\ ~exit
  /\ dup' = "ok" /\ fresh' = TRUE /\ moved' \in BOOLEAN
  /\ UNCHANGED <<desktop, tries, picture, marks, force, ends, trouble, pushed>>

RecreateFails ==
  /\ Goto("recreate", "recreate") /\ tries < Retries /\ ~exit
  /\ tries' = tries + 1
  /\ UNCHANGED <<desktop, fresh, moved, dup, picture, marks, force, ends, trouble, pushed>>

\* The attempts are used up, g_exit is set, or the output cannot be
\* duplicated: Tick returns, dup_ stays null.
RecreateGivesUp ==
  /\ Goto("recreate", "push")
  /\ UNCHANGED <<desktop, channel, picture, marks, force, ends, trouble, pushed>>

\* Tick calls AcquireNextFrame without a channel.
NullChannel ==
  /\ Goto("acquire", "crash") /\ dup = "null"
  /\ UNCHANGED <<desktop, channel, picture, marks, force, ends, trouble, pushed>>

ToRedraw == haveFrame /\ (frameDirty \/ cursor # lastCursor)

\* No frame yet, or nothing has changed.
NothingToDraw ==
  /\ Goto("redraw", "push") /\ ~ToRedraw
  /\ UNCHANGED <<desktop, channel, picture, marks, force, ends, trouble, pushed>>

Redrawn == ToRedraw /\ frameDirty' = FALSE /\ lastCursor' = cursor

\* The GPU has made the picture already, or there is no base to draw on.
KeepPicture ==
  /\ Goto("redraw", "push") /\ Redrawn
  /\ gpuThisFrame \/ ~baseValid
  /\ UNCHANGED <<desktop, channel, cursor, told, base, baseValid, nv12, gpuThisFrame,
                 haveFrame, modeChanged, force, ends, trouble, pushed>>

DrawPicture ==
  /\ Goto("redraw", "push") /\ Redrawn
  /\ ~gpuThisFrame /\ baseValid
  /\ nv12' = [pic |-> base, at |-> cursor]
  /\ UNCHANGED <<desktop, channel, cursor, told, base, baseValid, gpuThisFrame,
                 haveFrame, modeChanged, force, ends, trouble, pushed>>

\* Whatever Tick returned, the picture is pushed once there has been a frame.
PushPicture ==
  /\ Goto("push", "sleep")
  /\ pushed' = IF haveFrame THEN nv12 ELSE pushed
  /\ UNCHANGED <<desktop, channel, picture, marks, force, ends, trouble>>

-----------------------------------------------------------------------------
CapThread == \/ Wake \/ Leave \/ NothingNew \/ AcquireFails \/ OnGpu \/ ReadBack
             \/ OtherSize \/ Lost \/ Recreated \/ RecreateFails \/ RecreateGivesUp
             \/ NullChannel \/ NothingToDraw \/ KeepPicture \/ DrawPicture
             \/ PushPicture

Desktop == DesktopChanges \/ PointerMoves \/ SizeChanges \/ ChannelLost

Next == CapThread \/ Desktop \/ ForceFrame \/ StopRequest

\* The capture thread runs; the desktop and the owner owe it nothing.  A new
\* channel is not promised either.
Spec == Init /\ [][Next]_vars /\ WF_vars(CapThread)

-----------------------------------------------------------------------------
Pictures == [pic : 0..MaxPics, at : Pointers]

FlagsOK ==
  /\ resized \in BOOLEAN /\ fresh \in BOOLEAN /\ moved \in BOOLEAN
  /\ told \in BOOLEAN /\ baseValid \in BOOLEAN
  /\ gpuThisFrame \in BOOLEAN /\ haveFrame \in BOOLEAN
  /\ frameDirty \in BOOLEAN /\ modeChanged \in BOOLEAN
  /\ force \in BOOLEAN /\ stop \in BOOLEAN /\ exit \in BOOLEAN

TypeOK ==
  /\ FlagsOK
  /\ screen \in 1..MaxPics /\ pointer \in Pointers
  /\ dup \in {"ok", "lost", "null"} /\ tries \in 0..Retries
  /\ thread \in {"sleep", "acquire", "recreate", "redraw", "push", "exit", "crash"}
  /\ cursor \in Pointers /\ lastCursor \in Pointers
  /\ base \in 0..MaxPics /\ nv12 \in Pictures /\ pushed \in Pictures
  /\ fails \in 0..MaxFails /\ losses \in 0..MaxLosses

\* What Tick has acquired is what the tablet gets: between ticks, with nothing
\* left in the channel, the picture pushed shows the desktop as it is and the
\* pointer where the last frame said it is, whichever of the two paths made it;
\* that is where the pointer really is if the frame carried a pointer update.
\* (After a frame without one nothing is promised of the pointer.)  A call that
\* fails may leave the picture as it was until the desktop changes.
PushedIsCurrent ==
  (thread = "sleep" /\ haveFrame /\ ~fresh /\ ~resized /\ fails = 0)
    => /\ pushed = [pic |-> screen, at |-> cursor]
       /\ told => pushed.at = pointer

\* "A picture that is out of date must not be used as the ground: the screen
\* would flash back": the pictures pushed never go back in time, not even
\* when the GPU or a read-back fails.
NeverFlashesBack == [][pushed'.pic >= pushed.pic]_pushed

\* A stop request ends the capture thread, also while it tries to get a new
\* channel.
StopEndsCapture == (stop \/ exit) ~> thread \in {"exit", "crash"}

\* "If the capture thread dies the session ends and is rebuilt": the thread
\* ends by returning or by an exception that is caught, and not by a call of a
\* channel that is gone.
NeverCrashes == thread # "crash"

=============================================================================
