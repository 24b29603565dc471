--------------------------- MODULE StreamSession ---------------------------
(***************************************************************************)
(* One call of StreamUntil (subscreen_sender.cpp): the capture thread      *)
(* feeds whatever encoder is the current feed target, the main loop        *)
(* connects, shakes hands, creates an encoder per connection, watches it   *)
(* and tears it down to connect again, and the encoder thread sends every  *)
(* access unit from its onAu callback.                                     *)
(*                                                                         *)
(* The inside of the encoder is the module H264Encoder; here it takes a    *)
(* frame, sends, and ends.  The peer is the tablet behind the hdc          *)
(* forwarding: it reads, is frozen (a locked tablet suspends the           *)
(* application, and a blocking send waits), or is gone.                    *)
(***************************************************************************)
EXTENDS Naturals, Sequences

VARIABLES
  main,         \* StreamUntil: "loop", "connect", "hello", "create",
                \* "target", "stream", "untarget", "destroy", "join", "close",
                \* "capjoin", "returned"
  stop,         \* externalStop or g_exit
  localStop,    \* localStop
  tcp,          \* the TcpClient: "closed", "open", "dead"
  alive,        \* the encoder object exists
  target,       \* g_feedQueue points to its queue (FALSE: nullptr)
  q,            \* the encoder's queue holds a frame
  encT,         \* encoder thread: "none", "idle", "sending", "exit"
  unit,         \* number of the encoder's last access unit, counted up to 3
  streamDead,   \* streamDead
  encDead,      \* H264Encoder::streamDead_
  cap,          \* capture thread: "run", "tick" (until it has a frame),
                \* "feed" (holding g_feedMtx), "exit"
  aim,          \* the pointer the capture thread read under g_feedMtx
  capDead,      \* capDead
  modeChanged,  \* DupCapture::modeChanged_
  peer,         \* "reading", "frozen", "gone"
  sentOn        \* history: the first packets sent on the current connection,
                \* the hello as 0 and access units by their number

flags == <<stop, localStop>>
encoder == <<alive, q, encT, unit, encDead>>
capture == <<cap, aim, capDead>>
net == <<tcp, peer, sentOn>>
vars == <<main, flags, encoder, target, streamDead, capture, modeChanged, net>>

Init ==
  /\ main = "loop" /\ stop = FALSE /\ localStop = FALSE
  /\ tcp = "closed" /\ peer \in {"reading", "gone"} /\ sentOn = <<>>
  /\ alive = FALSE /\ target = FALSE /\ q = FALSE /\ encT = "none" /\ unit = 0
  /\ streamDead = FALSE /\ encDead = FALSE
  /\ cap = "run" /\ aim = FALSE /\ capDead = FALSE /\ modeChanged = FALSE

Stopped == stop \/ localStop

-----------------------------------------------------------------------------
(* The main loop.                                                          *)

Goto(from, to) == main = from /\ main' = to

LoopCheck ==
  /\ main = "loop"
  /\ main' = IF Stopped \/ capDead THEN "capjoin" ELSE "connect"
  /\ UNCHANGED <<flags, encoder, target, streamDead, capture, modeChanged, net>>

\* The time given by --duration is over.
DurationOver ==
  /\ Goto("loop", "capjoin")
  /\ UNCHANGED <<flags, encoder, target, streamDead, capture, modeChanged, net>>

Connect ==
  /\ Goto("connect", "hello") /\ peer # "gone"
  /\ tcp' = "open" /\ sentOn' = <<>>
  /\ UNCHANGED <<flags, encoder, target, streamDead, capture, modeChanged, peer>>

ConnectFail ==
  /\ Goto("connect", "loop") /\ peer = "gone"
  /\ UNCHANGED <<flags, encoder, target, streamDead, capture, modeChanged, net>>

SendHello ==
  /\ Goto("hello", "create") /\ tcp = "open"
  /\ sentOn' = <<0>>
  /\ UNCHANGED <<flags, encoder, target, streamDead, capture, modeChanged, tcp, peer>>

HelloFail ==
  /\ Goto("hello", "loop") /\ tcp = "dead"
  /\ tcp' = "closed"
  /\ UNCHANGED <<flags, encoder, target, streamDead, capture, modeChanged, peer, sentOn>>

\* Slip: the encoder of the round before goes on.
CreateSameStream ==
  /\ Goto("create", "target")
  /\ streamDead' = FALSE
  /\ alive' = TRUE /\ q' = FALSE /\ encT' = "idle" /\ encDead' = FALSE
  /\ UNCHANGED <<flags, unit, target, capture, modeChanged, net>>

\* A new encoder, with its own queue and thread, for the new connection.
Create ==
  /\ Goto("create", "target")
  /\ streamDead' = FALSE
  /\ alive' = TRUE
  /\ q' = FALSE /\ encT' = "idle" /\ unit' = 0 /\ encDead' = FALSE
  /\ UNCHANGED <<flags, target, capture, modeChanged, net>>

CreateFail ==
  /\ Goto("create", "loop")
  /\ streamDead' = FALSE /\ tcp' = "closed"
  /\ UNCHANGED <<flags, encoder, target, capture, modeChanged, peer, sentOn>>

\* SetFeedTarget(enc.Queue()), under g_feedMtx.
SetFeedTarget ==
  /\ Goto("target", "stream") /\ cap # "feed"
  /\ target' = TRUE
  /\ UNCHANGED <<flags, encoder, streamDead, capture, modeChanged, net>>

\* Slip: a stop request goes unnoticed while streaming.
StreamOverStopBlind ==
  /\ Goto("stream", "untarget")
  /\ streamDead \/ encDead \/ capDead \/ modeChanged
  /\ UNCHANGED <<flags, encoder, target, streamDead, capture, modeChanged, net>>

\* Slip: a failed send goes unnoticed.
StreamOverSendBlind ==
  /\ Goto("stream", "untarget")
  /\ Stopped \/ encDead \/ capDead \/ modeChanged
  /\ UNCHANGED <<flags, encoder, target, streamDead, capture, modeChanged, net>>

\* The inner loop ends.
StreamOver ==
  /\ Goto("stream", "untarget")
  /\ Stopped \/ streamDead \/ encDead \/ capDead \/ modeChanged
  /\ UNCHANGED <<flags, encoder, target, streamDead, capture, modeChanged, net>>

\* The limit on one session's lifetime, or a process restart that failed.
SessionExpires ==
  /\ Goto("stream", "untarget")
  /\ UNCHANGED <<flags, encoder, target, streamDead, capture, modeChanged, net>>

\* Slip: g_feedMtx is not taken.
ClearFeedTargetUnlocked ==
  /\ Goto("untarget", "destroy")
  /\ target' = FALSE
  /\ UNCHANGED <<flags, encoder, streamDead, capture, modeChanged, net>>

\* SetFeedTarget(nullptr), under g_feedMtx.
ClearFeedTarget ==
  /\ Goto("untarget", "destroy") /\ cap # "feed"
  /\ target' = FALSE
  /\ UNCHANGED <<flags, encoder, streamDead, capture, modeChanged, net>>

\* Destroy: the encoder thread is told to end and joined.
DestroyBegin ==
  /\ Goto("destroy", "join")
  /\ UNCHANGED <<flags, encoder, target, streamDead, capture, modeChanged, net>>

DestroyEnd ==
  /\ Goto("join", "close") /\ encT = "exit"
  /\ alive' = FALSE /\ encT' = "none" /\ q' = FALSE
  /\ UNCHANGED <<flags, unit, encDead, target, streamDead, capture, modeChanged, net>>

\* The socket is closed only now.
CloseTcp ==
  /\ main = "close"
  /\ main' = IF Stopped THEN "capjoin" ELSE "loop"
  /\ tcp' = "closed"
  /\ UNCHANGED <<flags, encoder, target, streamDead, capture, modeChanged, peer, sentOn>>

TellCapture ==
  /\ main = "capjoin" /\ ~localStop
  /\ localStop' = TRUE
  /\ UNCHANGED <<main, stop, encoder, target, streamDead, capture, modeChanged, net>>

JoinCapture ==
  /\ Goto("capjoin", "returned") /\ localStop /\ cap = "exit"
  /\ UNCHANGED <<flags, encoder, target, streamDead, capture, modeChanged, net>>

-----------------------------------------------------------------------------
(* The capture thread.                                                     *)

\* No stop yet: a tick, which may take a while.
CapTick ==
  /\ cap = "run" /\ ~Stopped
  /\ cap' = "tick"
  /\ UNCHANGED <<main, flags, encoder, target, streamDead, aim, capDead, modeChanged, net>>

CapNoFrame ==
  /\ cap = "tick" /\ cap' = "run"
  /\ UNCHANGED <<main, flags, encoder, target, streamDead, aim, capDead, modeChanged, net>>

\* With a frame at hand FeedGlobal takes g_feedMtx, looks whether there is a
\* target ...
CapLock ==
  /\ cap = "tick"
  /\ cap' = "feed" /\ aim' = target
  /\ UNCHANGED <<main, flags, encoder, target, streamDead, capDead, modeChanged, net>>

\* ... pushes into its queue if there is one, and lets the mutex go.
CapFeed ==
  /\ cap = "feed"
  /\ cap' = "run" /\ aim' = FALSE
  /\ q' = (q \/ aim)
  /\ UNCHANGED <<main, flags, alive, encT, unit, encDead, target, streamDead, capDead, modeChanged, net>>

CapExit ==
  /\ cap = "run" /\ Stopped
  /\ cap' = "exit"
  /\ UNCHANGED <<main, flags, encoder, target, streamDead, aim, capDead, modeChanged, net>>

\* An exception ends the thread; the lock is released on the way out.
CapDies ==
  /\ cap \in {"run", "tick", "feed"}
  /\ cap' = "exit" /\ aim' = FALSE /\ capDead' = TRUE
  /\ UNCHANGED <<main, flags, encoder, target, streamDead, modeChanged, net>>

\* Tick meets a frame of another size.
ModeChanges ==
  /\ cap = "tick" /\ ~modeChanged
  /\ modeChanged' = TRUE
  /\ UNCHANGED <<main, flags, encoder, target, streamDead, capture, net>>

-----------------------------------------------------------------------------
(* The encoder thread.                                                     *)

EncTake ==
  /\ encT = "idle" /\ q
  /\ q' = FALSE /\ encT' = "sending"
  /\ unit' = IF unit < 3 THEN unit + 1 ELSE unit
  /\ UNCHANGED <<main, flags, alive, encDead, target, streamDead, capture, modeChanged, net>>

EncSend ==
  /\ encT = "sending" /\ tcp = "open" /\ peer = "reading"
  /\ encT' = "idle"
  /\ sentOn' = IF Len(sentOn) < 3 THEN Append(sentOn, unit) ELSE sentOn
  /\ UNCHANGED <<main, flags, alive, q, unit, encDead, target, streamDead, capture, modeChanged, tcp, peer>>

EncSendFail ==
  /\ encT = "sending" /\ tcp = "dead"
  /\ encT' = "idle" /\ streamDead' = TRUE
  /\ UNCHANGED <<main, flags, alive, q, unit, encDead, target, capture, modeChanged, net>>

\* The MFT reports an error, or g_exit ends the wait for a frame.
EncError ==
  /\ encT = "idle"
  /\ encT' = "exit" /\ encDead' = TRUE
  /\ UNCHANGED <<main, flags, alive, q, unit, target, streamDead, capture, modeChanged, net>>

EncExit ==
  /\ encT = "idle" /\ main = "join"
  /\ encT' = "exit" /\ encDead' = TRUE
  /\ UNCHANGED <<main, flags, alive, q, unit, target, streamDead, capture, modeChanged, net>>

-----------------------------------------------------------------------------
(* The peer and the user.                                                  *)

PeerLost ==
  /\ peer # "gone"
  /\ peer' = "gone" /\ tcp' = IF tcp = "open" THEN "dead" ELSE tcp
  /\ UNCHANGED <<main, flags, encoder, target, streamDead, capture, modeChanged, sentOn>>

\* It listens again, is suspended, or wakes up.
PeerChanges(from, to) ==
  /\ peer = from /\ peer' = to
  /\ UNCHANGED <<main, flags, encoder, target, streamDead, capture, modeChanged, tcp, sentOn>>

StopRequest ==
  /\ ~stop /\ stop' = TRUE
  /\ UNCHANGED <<main, localStop, encoder, target, streamDead, capture, modeChanged, net>>

-----------------------------------------------------------------------------
MainThread ==
  \/ LoopCheck \/ Connect \/ ConnectFail \/ SendHello \/ HelloFail
  \/ Create \/ CreateFail \/ SetFeedTarget \/ StreamOver \/ ClearFeedTarget
  \/ DestroyBegin \/ DestroyEnd \/ CloseTcp \/ TellCapture \/ JoinCapture

CapThread == CapTick \/ CapNoFrame \/ CapLock \/ CapFeed \/ CapExit
EncThread == EncTake \/ EncSend \/ EncSendFail \/ EncExit

Peer == \/ PeerLost \/ PeerChanges("gone", "reading")
        \/ PeerChanges("reading", "frozen") \/ PeerChanges("frozen", "reading")

Next == \/ MainThread \/ CapThread \/ EncThread \/ Peer
        \/ DurationOver \/ SessionExpires \/ CapDies \/ ModeChanges \/ EncError \/ StopRequest

\* Threads that can run do, and get a mutex that is free again and again.
\* The peer owes nothing, neither waking up nor listening.
Fairness == /\ SF_vars(MainThread) /\ WF_vars(CapThread)
            /\ WF_vars(EncTake) /\ SF_vars(EncSend)
            /\ WF_vars(EncSendFail) /\ WF_vars(EncExit)

Spec == Init /\ [][Next]_vars /\ Fairness

-----------------------------------------------------------------------------
FlagsOK ==
  /\ stop \in BOOLEAN /\ localStop \in BOOLEAN
  /\ alive \in BOOLEAN /\ target \in BOOLEAN /\ q \in BOOLEAN
  /\ streamDead \in BOOLEAN /\ encDead \in BOOLEAN
  /\ aim \in BOOLEAN /\ capDead \in BOOLEAN /\ modeChanged \in BOOLEAN

TypeOK ==
  /\ FlagsOK
  /\ main \in {"loop", "connect", "hello", "create", "target", "stream",
               "untarget", "destroy", "join", "close", "capjoin", "returned"}
  /\ tcp \in {"closed", "open", "dead"} /\ peer \in {"reading", "frozen", "gone"}
  /\ encT \in {"none", "idle", "sending", "exit"} /\ unit \in 0..3
  /\ cap \in {"run", "tick", "feed", "exit"}
  /\ sentOn \in Seq(0..3) /\ Len(sentOn) =< 3

\* "The encoder is rebuilt per connection: no dangling pointer": the feed
\* target, and the pointer the capture thread has already read and is about
\* to follow, belong to an encoder that exists.
FeedTargetAlive == (target \/ aim) => alive

\* Every connection carries the hello first and then one encoder's stream
\* from its first access unit (the key frame) on, with no unit missing.
StreamsStartFresh ==
  \A i \in DOMAIN sentOn : sentOn[i] = i - 1

\* A sender that waits in a blocking send for a peer that does not read.
Blocked == encT = "sending" /\ peer = "frozen"

\* "The streaming loop answers within 500 ms": a stop request ends StreamUntil,
\* whatever state the connection is in, as long as no send is blocked.
StopReturnsUnlessBlocked == stop ~> (main = "returned" \/ Blocked)

\* "If the capture thread dies the session must end at once": it ends.
CapDeathEndsSession == capDead ~> (main = "returned" \/ Blocked)

\* A broken stream and a dead encoder lead to a new attempt to connect, or to
\* the end.
BreakLeadsToReconnect ==
  (main = "stream" /\ (streamDead \/ encDead))
    ~> (main \in {"connect", "returned"} \/ Blocked)

\* A dead capture thread and a broken stream lead where they should.
EndsAsItShould == CapDeathEndsSession /\ BreakLeadsToReconnect

\* The tablet reads, and the encoder works.
Flows == peer = "reading" /\ ~streamDead /\ (main = "stream" => ~encDead)

\* "The resolution was changed, ending this session to rebuild it with the
\* new size": when nothing else goes wrong, StreamUntil does not stream again
\* and again after a changed mode, but ends, and its caller sets the capture
\* up with the new size.  (It does stream again: the flag stays set, and the
\* session connects with the old size every time.)
ModeChangeEndsSession ==
  <>[](modeChanged /\ Flows) => <>[](main # "stream")

=============================================================================
