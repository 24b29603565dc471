---------------------------- MODULE H264Encoder ----------------------------
(***************************************************************************)
(* The Windows sender's encoder (H264Encoder with FrameQueue): the capture *)
(* thread pushes frames into a one-deep queue, the encoder thread runs the *)
(* event loop around a Media Foundation transform (MFT), and Destroy stops *)
(* it.                                                                     *)
(*                                                                         *)
(* The MFT is external.  An asynchronous one announces NeedInput for every *)
(* input it is ready to take and HaveOutput for every output; each input   *)
(* is one ProcessInput, each output one ProcessOutput.  With texture input *)
(* a sample refers to one of Pool textures, used in turn; the MFT refers   *)
(* to it until the frame's output is taken.  Hardware MFTs are             *)
(* asynchronous; the synchronous path takes samples in system memory.      *)
(***************************************************************************)
EXTENDS Integers, Sequences

CONSTANTS Pool,       \* kUploadPool
          Depth,      \* inputs the MFT takes in before it wants outputs taken
          MaxFrames,  \* bound: frames captured in a behaviour
          MaxFails    \* bound: calls of the MFT or of D3D that fail

ASSUME EncoderAssumption ==
  /\ Pool \in Nat /\ Pool >= 3
  /\ Depth \in Nat \ {0}
  /\ MaxFrames \in Nat /\ MaxFails \in Nat

VARIABLES
  async, d3d,  \* async_, d3dInput_: what Create has found
  q, closed,   \* FrameQueue: q_ and closed_
  captured,    \* number of the frame captured last
  main,        \* owner: "run", "exit" (g_exit is set), "join" (in Destroy),
               \* "done"
  running,     \* running_
  enc,         \* encoder thread: "poll", "pop", "make", "input", "output",
               \* "send", "exit"
  frame,       \* number of the frame in hand
  slot,        \* texture of the sample in hand
  upNext,      \* upNext_
  fed,         \* fed_
  encoded,     \* encoded_
  dead,        \* streamDead_
  events,      \* MFT event queue: "need", "have", "error"
  owed,        \* external: NeedInput events not answered by an input
  announced,   \* external: HaveOutput events not answered by an output
  held,        \* external: frames in the MFT, with their textures
  last,        \* history: the frame whose access unit was handed to onAu last
  fails        \* calls of the MFT or of D3D that have failed

mode == <<async, d3d>>
capture == <<q, closed, captured>>
owner == <<main, running>>
mft == <<events, owed, announced, held>>
counters == <<upNext, fed, encoded>>
vars == <<mode, capture, owner, enc, frame, slot, counters, dead, mft, last, fails>>

Fail == fails < MaxFails /\ fails' = fails + 1

\* Where the loop goes for its next round.
Loop == IF async THEN "poll" ELSE "pop"

Init ==
  /\ async \in BOOLEAN /\ d3d \in {texture \in BOOLEAN : texture => async}
  /\ q = <<>> /\ closed = FALSE /\ captured = 0
  /\ main = "run" /\ running = TRUE
  /\ enc = Loop /\ frame = 0 /\ slot = 0
  /\ upNext = 0 /\ fed = 0 /\ encoded = 0 /\ dead = FALSE
  /\ events = <<>> /\ owed = 0 /\ announced = 0 /\ held = <<>>
  /\ last = 0 /\ fails = 0

-----------------------------------------------------------------------------
(* FrameQueue.                                                             *)

\* Push by the capture thread, as long as the queue is the feed target.
Push ==
  /\ main \in {"run", "exit"} /\ captured < MaxFrames
  /\ q' = Append(IF Len(q) >= 1 THEN Tail(q) ELSE q, captured + 1)
  /\ captured' = captured + 1
  /\ UNCHANGED <<mode, closed, owner, enc, frame, slot, counters, dead, mft, last, fails>>

\* Slip: the frame stays in the queue.
PopFrameKeep ==
  /\ enc = "pop" /\ q # <<>>
  /\ frame' = Head(q) /\ enc' = "make"
  /\ UNCHANGED <<mode, capture, owner, slot, counters, dead, mft, last, fails>>

\* Pop returns a frame, also one left over in a closed queue.
PopFrame ==
  /\ enc = "pop" /\ q # <<>>
  /\ frame' = Head(q) /\ q' = Tail(q)
  /\ enc' = "make"
  /\ UNCHANGED <<mode, closed, captured, owner, slot, counters, dead, mft, last, fails>>

\* Pop returns false, once the queue is closed or, without being told, once
\* g_exit is set: the asynchronous loop goes round (and the request it was
\* answering stays unanswered), the synchronous one ends.
PopClosed ==
  /\ enc = "pop" /\ q = <<>> /\ (closed \/ main = "exit")
  /\ enc' = IF async THEN "poll" ELSE "exit"
  /\ dead' = ~async
  /\ UNCHANGED <<mode, capture, owner, frame, slot, counters, mft, last, fails>>

-----------------------------------------------------------------------------
(* EventLoop.                                                              *)

TakeEvent(e) ==
  /\ enc = "poll" /\ running /\ events # <<>> /\ Head(events) = e
  /\ events' = Tail(events)

\* Slip: with no frame at hand the request is put aside.
TakeNeedNoWait ==
  /\ TakeEvent("need") /\ enc' = IF q = <<>> THEN "poll" ELSE "pop"
  /\ UNCHANGED <<mode, capture, owner, frame, slot, counters, dead, owed, announced, held, last, fails>>

\* NeedInput: FeedOne waits for a frame, and nothing else happens meanwhile.
TakeNeed ==
  /\ TakeEvent("need") /\ enc' = "pop"
  /\ UNCHANGED <<mode, capture, owner, frame, slot, counters, dead, owed, announced, held, last, fails>>

TakeHave ==
  /\ TakeEvent("have") /\ enc' = "output"
  /\ UNCHANGED <<mode, capture, owner, frame, slot, counters, dead, owed, announced, held, last, fails>>

TakeError ==
  /\ TakeEvent("error") /\ enc' = "exit" /\ dead' = TRUE
  /\ UNCHANGED <<mode, capture, owner, frame, slot, counters, owed, announced, held, last, fails>>

ExitLoop ==
  /\ enc = Loop /\ ~running
  /\ enc' = "exit" /\ dead' = TRUE
  /\ UNCHANGED <<mode, capture, owner, frame, slot, counters, mft, last, fails>>

InFlight == fed - encoded

\* Slip: no guard.
GuardNever == FALSE

\* The guard of MakeSampleGpu: more than half the pool is in flight.
Guard == d3d /\ InFlight > Pool \div 2

\* MakeSample refuses: by the guard, or by a failed call.  The frame is
\* dropped; the request it was to answer is not repeated.
MakeRefused ==
  /\ enc = "make" /\ (IF Guard THEN UNCHANGED fails ELSE Fail)
  /\ enc' = Loop
  /\ UNCHANGED <<mode, capture, owner, frame, slot, counters, dead, mft, last>>

\* MakeSample: with texture input the frame is copied into the next texture.
MakeSample ==
  /\ enc = "make" /\ ~Guard
  /\ slot' = upNext
  /\ upNext' = IF d3d THEN (upNext + 1) % Pool ELSE upNext
  /\ enc' = "input"
  /\ UNCHANGED <<mode, capture, owner, frame, fed, encoded, dead, mft, last, fails>>

\* ProcessInput takes the sample.
InputTaken ==
  /\ enc = "input"
  /\ held' = Append(held, [frame |-> frame, slot |-> slot])
  /\ owed' = IF async THEN owed - 1 ELSE owed
  /\ fed' = IF async THEN fed + 1 ELSE fed
  /\ enc' = IF async THEN "poll" ELSE "output"
  /\ UNCHANGED <<mode, capture, owner, frame, slot, upNext, encoded, dead, events, announced, last, fails>>

\* The sample cannot be completed, or ProcessInput fails: the texture was
\* used up, the request stays unanswered.
InputFailed ==
  /\ enc = "input" /\ Fail
  /\ enc' = Loop
  /\ UNCHANGED <<mode, capture, owner, frame, slot, counters, dead, mft, last>>

\* PumpOutput gets a frame's output.
OutputTaken ==
  /\ enc = "output" /\ held # <<>>
  /\ frame' = Head(held).frame /\ held' = Tail(held)
  /\ announced' = IF async THEN announced - 1 ELSE announced
  /\ enc' = "send"
  /\ UNCHANGED <<mode, capture, owner, slot, counters, dead, events, owed, last, fails>>

\* PumpOutput gets an output it cannot use (no contiguous buffer, no lock,
\* length 0): the frame has left the MFT and is not counted in encoded_.
OutputUnusable ==
  /\ enc = "output" /\ held # <<>> /\ Fail
  /\ held' = Tail(held)
  /\ announced' = IF async THEN announced - 1 ELSE announced
  /\ enc' = Loop
  /\ UNCHANGED <<mode, capture, owner, frame, slot, counters, dead, events, owed, last>>

\* PumpOutput gets nothing: more input needed, or a stream change, after
\* which an asynchronous MFT announces the output again.
OutputNothing ==
  /\ enc = "output"
  /\ announced' = IF async THEN announced - 1 ELSE announced
  /\ enc' = Loop
  /\ UNCHANGED <<mode, capture, owner, frame, slot, counters, dead, events, owed, held, last, fails>>

\* onAu sends the access unit, then it counts as encoded.
Send ==
  /\ enc = "send"
  /\ last' = frame
  /\ encoded' = encoded + 1
  /\ enc' = IF async THEN "poll" ELSE IF running THEN "output" ELSE "pop"
  /\ UNCHANGED <<mode, capture, owner, frame, slot, upNext, fed, dead, mft, fails>>

\* An allocation fails somewhere in a round: EventLoop catches it and ends.
Exception ==
  /\ enc \in {"make", "send"} /\ Fail
  /\ enc' = "exit" /\ dead' = TRUE
  /\ UNCHANGED <<mode, capture, owner, frame, slot, counters, mft, last>>

-----------------------------------------------------------------------------
(* The MFT.                                                                *)

MftNeed ==
  /\ async /\ main # "done" /\ owed + Len(held) < Depth
  /\ events' = Append(events, "need") /\ owed' = owed + 1
  /\ UNCHANGED <<mode, capture, owner, enc, frame, slot, counters, dead, announced, held, last, fails>>

MftHave ==
  /\ async /\ main # "done" /\ announced < Len(held)
  /\ events' = Append(events, "have") /\ announced' = announced + 1
  /\ UNCHANGED <<mode, capture, owner, enc, frame, slot, counters, dead, owed, held, last, fails>>

MftError ==
  /\ async /\ main # "done" /\ Fail /\ \A i \in DOMAIN events : events[i] # "error"
  /\ events' = Append(events, "error")
  /\ UNCHANGED <<mode, capture, owner, enc, frame, slot, counters, dead, owed, announced, held, last>>

-----------------------------------------------------------------------------
(* The owner.                                                              *)

\* The program is told to end; its owner will call Destroy in a while.
ExitRequest ==
  /\ main = "run" /\ main' = "exit"
  /\ UNCHANGED <<mode, capture, running, enc, frame, slot, counters, dead, mft, last, fails>>

\* Slip: the queue is not closed.
DestroyBeginOpen ==
  /\ main \in {"run", "exit"} /\ main' = "join" /\ running' = FALSE
  /\ UNCHANGED <<mode, capture, enc, frame, slot, counters, dead, mft, last, fails>>

\* Destroy: running_ cleared, the queue closed ...
DestroyBegin ==
  /\ main \in {"run", "exit"}
  /\ main' = "join" /\ running' = FALSE /\ closed' = TRUE
  /\ UNCHANGED <<mode, q, captured, enc, frame, slot, counters, dead, mft, last, fails>>

\* ... the thread joined, the MFT and the textures released.
DestroyEnd ==
  /\ main = "join" /\ enc = "exit"
  /\ main' = "done"
  /\ events' = <<>> /\ owed' = 0 /\ announced' = 0 /\ held' = <<>>
  /\ UNCHANGED <<mode, capture, running, enc, frame, slot, counters, dead, last, fails>>

-----------------------------------------------------------------------------
EncThread ==
  \/ PopFrame \/ PopClosed \/ TakeNeed \/ TakeHave \/ TakeError \/ ExitLoop
  \/ MakeRefused \/ MakeSample \/ InputTaken \/ InputFailed
  \/ OutputTaken \/ OutputUnusable \/ OutputNothing \/ Send
  \/ Exception

Mft == MftNeed \/ MftHave

Next ==
  \/ Push \/ EncThread \/ Mft \/ MftError
  \/ ExitRequest \/ DestroyBegin \/ DestroyEnd

\* The encoder thread and the MFT go on when they can, an output that is asked
\* for again and again is given at last, and Destroy is carried through.
\* Capturing, failing and calling Destroy are nobody's duty.
Fairness ==
  /\ WF_vars(EncThread) /\ SF_vars(OutputTaken)
  /\ WF_vars(MftNeed) /\ WF_vars(MftHave) /\ WF_vars(DestroyEnd)

Spec == Init /\ [][Next]_vars /\ Fairness

-----------------------------------------------------------------------------
Frames == 0..MaxFrames
Held == [frame : Frames, slot : 0..Pool - 1]

TypeOK ==
  /\ async \in BOOLEAN /\ d3d \in BOOLEAN /\ (d3d => async)
  /\ q \in Seq(Frames) /\ closed \in BOOLEAN /\ captured \in Frames
  /\ main \in {"run", "exit", "join", "done"} /\ running \in BOOLEAN
  /\ enc \in {"poll", "pop", "make", "input", "output", "send", "exit"}
  /\ frame \in Frames /\ slot \in 0..Pool - 1
  /\ upNext \in 0..Pool - 1 /\ fed \in Nat /\ encoded \in Nat
  /\ dead \in BOOLEAN /\ fails \in 0..MaxFails
  /\ events \in Seq({"need", "have", "error"})
  /\ owed \in Int /\ announced \in Int
  /\ held \in Seq(Held)
  /\ last \in Frames

\* Access units leave in the order of capture, no frame twice.
UnitsInOrder == enc = "send" => frame > last

\* "The pool of 32 textures in rotation and the in-flight guard guarantee that
\* a texture the MFT still refers to is never overwritten": the texture the
\* next frame has been copied into is not one of a frame inside the MFT.
\* After a failed call the guarantee is gone: such an input uses a texture up
\* and such an output stays counted as in flight.
TextureNotInUse ==
  (fails = 0 /\ d3d /\ enc = "input") => \A i \in DOMAIN held : held[i].slot # slot

Stalled == q # <<>> /\ ~dead /\ main = "run"

\* As long as no call has failed, a frame that waits is taken, or the stream is
\* seen to be dead: the session does not stay connected while nothing more is
\* encoded.  (After a failure it may: a request that was answered with a failed
\* input is used up, and the MFT asks no more.)
NoSilentStallUnlessFailed == Stalled ~> (~Stalled \/ fails > 0)

\* Destroy returns.
DestroyReturns == main = "join" ~> main = "done"

=============================================================================
