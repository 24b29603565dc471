---------------------------- MODULE VideoDecoder ----------------------------
(***************************************************************************)
(* The tablet's decoder (video_decoder.cpp): Feed puts access units into a *)
(* one-deep queue that drops the oldest, the pump thread pairs the queued  *)
(* unit with an input buffer the codec has asked to be filled, and Stop    *)
(* ends the pump and destroys the codec.                                   *)
(*                                                                         *)
(* Three threads meet here: the client, whoever calls Start, Feed and Stop *)
(* (all calls are made under the pipeline's mutex, so there is one client  *)
(* at a time); the pump; and the codec's callback thread.  mtx_ is held    *)
(* across steps by the pump only, from the evaluation of the predicate to  *)
(* the atomic "release and block" of the condition variable.               *)
(***************************************************************************)
EXTENDS Naturals, Sequences, FiniteSets

CONSTANTS Buffers,    \* the codec's input buffers
          MaxFeeds    \* bound: access units fed in a behaviour

ASSUME DecoderAssumption ==
  IsFiniteSet(Buffers) /\ "none" \notin Buffers /\ MaxFeeds \in Nat

\* MAX_QUEUED_FRAMES
MaxQueued == 1

NoHand == [index |-> "none", frame |-> 0]

VARIABLES
  running,   \* running_
  client,    \* what the client is in: "idle", or Stop's "notify", "join"
  codec,     \* codec_: "null" or "started"
  pump,      \* pump thread: "none", "lock", "check", "block", "wait", "fill",
             \* "exit"
  frames,    \* frames_, access units by their number
  inputs,    \* inIndex_ with inBuf_
  atCodec,   \* input buffers the codec has and has not asked to be filled
  hand,      \* index and unit the pump took out of the queues
  fed,       \* number of the last access unit fed, 0 for none
  pushed     \* history: numbers of the units pushed, this codec

dvars == <<running, client, codec, pump, frames, inputs, atCodec, hand, fed, pushed>>

DInit ==
  /\ running = FALSE /\ client = "idle" /\ codec = "null" /\ pump = "none"
  /\ frames = <<>> /\ inputs = <<>> /\ atCodec = {} /\ hand = NoHand
  /\ fed = 0 /\ pushed = <<>>

MtxFree == pump \notin {"check", "block"}

\* cv_.notify_all: only a thread that is blocked already can be woken.
Notified == IF pump = "wait" THEN "lock" ELSE pump

-----------------------------------------------------------------------------
(* The client.                                                             *)

\* Start of a new decoder object: codec created, configured and started; the
\* pump is spawned and goes for the mutex.
DStart ==
  /\ client = "idle" /\ ~running /\ codec = "null"
  /\ running' = TRUE /\ codec' = "started" /\ pump' = "lock"
  /\ frames' = <<>> /\ inputs' = <<>> /\ hand' = NoHand /\ pushed' = <<>>
  /\ atCodec' = Buffers
  /\ UNCHANGED <<client, fed>>

\* A codec call of Start failed: everything is undone.  The client deletes
\* the object.
DStartFail ==
  /\ client = "idle" /\ ~running /\ codec = "null"
  /\ UNCHANGED dvars

\* Slip: the pump is not notified.
FeedQuiet ==
  /\ client = "idle" /\ codec = "started" /\ fed < MaxFeeds /\ MtxFree
  /\ frames' = Append(IF Len(frames) >= MaxQueued THEN Tail(frames) ELSE frames, fed + 1)
  /\ fed' = fed + 1
  /\ UNCHANGED <<running, client, codec, pump, inputs, atCodec, hand, pushed>>

Feed ==
  /\ client = "idle" /\ codec = "started" /\ fed < MaxFeeds /\ MtxFree
  /\ frames' = Append(IF Len(frames) >= MaxQueued THEN Tail(frames) ELSE frames, fed + 1)
  /\ fed' = fed + 1
  /\ pump' = Notified
  /\ UNCHANGED <<running, client, codec, inputs, atCodec, hand, pushed>>

\* Stop: running_.exchange(false), without the mutex ...
StopFlag ==
  /\ client = "idle" /\ running
  /\ running' = FALSE /\ client' = "notify"
  /\ UNCHANGED <<codec, pump, frames, inputs, atCodec, hand, fed, pushed>>

\* ... notify_all, without the mutex ...
StopNotify ==
  /\ client = "notify"
  /\ client' = "join" /\ pump' = Notified
  /\ UNCHANGED <<running, codec, frames, inputs, atCodec, hand, fed, pushed>>

\* Slip: the codec is destroyed under the running pump.
StopJoinNoJoin ==
  /\ client = "join"
  /\ client' = "idle" /\ codec' = "null"
  /\ frames' = <<>> /\ inputs' = <<>> /\ atCodec' = {}
  /\ UNCHANGED <<running, pump, hand, fed, pushed>>

\* ... join; the codec is stopped and destroyed and the queues are emptied.
StopJoin ==
  /\ client = "join" /\ pump = "exit"
  /\ client' = "idle" /\ pump' = "none" /\ codec' = "null"
  /\ frames' = <<>> /\ inputs' = <<>> /\ atCodec' = {}
  /\ UNCHANGED <<running, hand, fed, pushed>>

-----------------------------------------------------------------------------
(* The codec's callback thread.                                            *)

\* OnNeedInputBuffer.
NeedInput(b) ==
  /\ codec = "started" /\ b \in atCodec /\ MtxFree
  /\ atCodec' = atCodec \ {b}
  /\ inputs' = Append(inputs, b)
  /\ pump' = Notified
  /\ UNCHANGED <<running, client, codec, frames, hand, fed, pushed>>

-----------------------------------------------------------------------------
(* The pump thread.                                                        *)

PumpLock ==
  /\ pump = "lock" /\ pump' = "check"
  /\ UNCHANGED <<running, client, codec, frames, inputs, atCodec, hand, fed, pushed>>

HasWork == inputs # <<>> /\ frames # <<>>

\* The wait's predicate is false.
PumpIdle ==
  /\ pump = "check" /\ running /\ ~HasWork
  /\ pump' = "block"
  /\ UNCHANGED <<running, client, codec, frames, inputs, atCodec, hand, fed, pushed>>

\* The mutex is released and the thread blocked, in one step.
PumpBlock ==
  /\ pump = "block" /\ pump' = "wait"
  /\ UNCHANGED <<running, client, codec, frames, inputs, atCodec, hand, fed, pushed>>

PumpExit ==
  /\ pump = "check" /\ ~running
  /\ pump' = "exit"
  /\ UNCHANGED <<running, client, codec, frames, inputs, atCodec, hand, fed, pushed>>

\* Slip: the frame stays in the queue.
PumpTakeKeepFrame ==
  /\ pump = "check" /\ running /\ HasWork
  /\ hand' = [index |-> Head(inputs), frame |-> Head(frames)]
  /\ inputs' = Tail(inputs) /\ pump' = "fill"
  /\ UNCHANGED <<running, client, codec, frames, atCodec, fed, pushed>>

\* Slip: the input buffer stays in the queue.
PumpTakeKeepInput ==
  /\ pump = "check" /\ running /\ HasWork
  /\ hand' = [index |-> Head(inputs), frame |-> Head(frames)]
  /\ frames' = Tail(frames) /\ pump' = "fill"
  /\ UNCHANGED <<running, client, codec, inputs, atCodec, fed, pushed>>

PumpTake ==
  /\ pump = "check" /\ running /\ HasWork
  /\ hand' = [index |-> Head(inputs), frame |-> Head(frames)]
  /\ inputs' = Tail(inputs) /\ frames' = Tail(frames)
  /\ pump' = "fill"
  /\ UNCHANGED <<running, client, codec, atCodec, fed, pushed>>

\* Outside the mutex: the buffer is filled, or given back empty when the unit
\* does not fit, and PushInputBuffer returns it to the codec.  Its result is
\* ignored; a codec that refuses the buffer is left out here.
PumpFill(fits) ==
  /\ pump = "fill"
  /\ atCodec' = atCodec \cup {hand.index}
  /\ pushed' = IF fits THEN Append(pushed, hand.frame) ELSE pushed
  /\ hand' = NoHand
  /\ pump' = "lock"
  /\ UNCHANGED <<running, client, codec, frames, inputs, fed>>

-----------------------------------------------------------------------------
StopStep == StopNotify \/ StopJoin
Codec == \E b \in Buffers : NeedInput(b)
Pump == \/ PumpLock \/ PumpIdle \/ PumpBlock \/ PumpExit \/ PumpTake
        \/ \E fits \in BOOLEAN : PumpFill(fits)

DNext == DStart \/ DStartFail \/ Feed \/ StopFlag \/ StopStep \/ Codec \/ Pump

\* The decoder under any client, which states the fairness.
DSpec == DInit /\ [][DNext]_dvars

-----------------------------------------------------------------------------
DTypeOK ==
  /\ running \in BOOLEAN /\ client \in {"idle", "notify", "join"}
  /\ codec \in {"null", "started"}
  /\ pump \in {"none", "lock", "check", "block", "wait", "fill", "exit"}
  /\ frames \in Seq(1..MaxFeeds) /\ inputs \in Seq(Buffers)
  /\ atCodec \subseteq Buffers
  /\ hand \in [index : Buffers \cup {"none"}, frame : 0..MaxFeeds]
  /\ fed \in 0..MaxFeeds /\ pushed \in Seq(1..MaxFeeds)

\* Every input buffer is in one place: with the codec, in inIndex_, or in the
\* pump's hands.  None is lost and none is pushed twice.
BuffersInOnePlace ==
  codec = "started" =>
    \A b \in Buffers :
      LET places == (IF b \in atCodec THEN 1 ELSE 0)
                    + Cardinality({i \in DOMAIN inputs : inputs[i] = b})
                    + (IF hand.index = b THEN 1 ELSE 0)
      IN  places = 1

\* "Only the newest frame is ever decoded": what waits in the queue is the
\* access unit fed last, so queueing never adds more than one unit of delay.
OnlyNewestWaits == frames # <<>> => frames = <<fed>>

\* Units reach the codec in the order they were fed, none twice.
PushedInOrder == \A i, j \in DOMAIN pushed : i < j => pushed[i] < pushed[j]

\* The pump never touches the codec or a buffer of it after Stop destroyed
\* them.
CodecOutlivesPump == pump \notin {"none", "exit"} => codec = "started"

\* A queued unit is taken by the pump unless the decoder is stopped: no
\* notification that matters to a unit gets lost.
QueuedUnitIsTaken == frames # <<>> ~> (frames = <<>> \/ ~running)

=============================================================================
