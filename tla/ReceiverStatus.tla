---------------------------- MODULE ReceiverStatus ----------------------------
(***************************************************************************)
(* What the tablet's page says of the stream: the statistics thread        *)
(* (StatsLoop in subscreen_napi.cpp) counts what the decoder has shown     *)
(* since its last round and queues a status for JavaScript; the page       *)
(* (Index.ets) turns statuses into a green or red dot and, after a grace   *)
(* period, a card over the picture.                                        *)
(*                                                                         *)
(* Of the pipeline only what StatsLoop reads is kept; TabletReceiver has   *)
(* the rest.  The grace timer may fire whenever it is set.                 *)
(***************************************************************************)
EXTENDS Integers, Sequences

CONSTANTS QueueSize,   \* max_queue_size of the threadsafe function, 2 in the code
          MaxFrames    \* bound: frames decoded in a behaviour

ASSUME StatusAssumption == QueueSize \in Nat \ {0} /\ MaxFrames \in Nat

NoDecoder == -1
Status == [green : BOOLEAN, real : BOOLEAN, swapped : BOOLEAN]
NoStatus == [green |-> FALSE, real |-> FALSE, swapped |-> FALSE]

VARIABLES
  decoded,     \* framesDecoded of the decoder, NoDecoder if there is none
  ended,       \* external: the sender sends no more
  total,       \* bound: frames decoded so far
  counted,     \* history: frames shown since the last round
  swapped,     \* history: a decoder was started since the last round
  statsThread, \* statistics thread: "none" or "run"
  lastOut,     \* StatsLoop's lastOut
  queue,       \* statuses queued for JavaScript
  page,        \* "away", "shown", "gone"
  dot,         \* the status the page has handled last; its `green' is the dot
  timer,       \* graceTimer: "none" (-1), "set", or "spent", the number of a
               \* timer that will not fire any more (in a slip only)
  overlay      \* overlayVisible

pipeline == <<decoded, ended, total>>
past == <<counted, swapped>>
thread == <<statsThread, lastOut>>
ets == <<page, dot, timer, overlay>>
statusVars == <<pipeline, past, thread, queue, ets>>

StatusInit ==
  /\ decoded = NoDecoder /\ ended = FALSE /\ total = 0
  /\ counted = 0 /\ swapped = FALSE
  /\ statsThread = "none" /\ lastOut = 0
  /\ queue = <<>>
  /\ page = "away" /\ dot = NoStatus /\ timer = "none" /\ overlay = FALSE

-----------------------------------------------------------------------------
(* The pipeline, as StatsLoop sees it.                                     *)

\* A hello or a surface starts a new decoder, which counts from zero.
DecoderStarts ==
  /\ statsThread = "run" /\ decoded = NoDecoder
  /\ decoded' = 0 /\ swapped' = TRUE
  /\ UNCHANGED <<ended, total, counted, thread, queue, ets>>

\* A disconnect, or a surface that goes.
DecoderStops ==
  /\ decoded # NoDecoder /\ decoded' = NoDecoder
  /\ UNCHANGED <<ended, total, past, thread, queue, ets>>

FrameDecoded ==
  /\ decoded # NoDecoder /\ ~ended /\ total < MaxFrames
  /\ decoded' = decoded + 1 /\ total' = total + 1 /\ counted' = counted + 1
  /\ UNCHANGED <<ended, swapped, thread, queue, ets>>

SenderEnds ==
  /\ ended' = TRUE
  /\ UNCHANGED <<decoded, total, past, thread, queue, ets>>

-----------------------------------------------------------------------------
(* The statistics thread.                                                  *)

CurOut == IF decoded = NoDecoder THEN 0 ELSE decoded

\* Whether fps comes out positive.  One frame in a round of more than a second
\* is rounded to none.  A difference below zero is unsigned and far too large
\* for fps, which is undefined and may give either.
FpsPositive ==
  CASE CurOut > lastOut + 1 -> {TRUE}
    [] CurOut = lastOut + 1 -> {TRUE, FALSE}
    [] CurOut = lastOut -> {FALSE}
    [] CurOut < lastOut -> {TRUE, FALSE}

\* PushStatus does not wait: with the queue full the status is lost.
PushStatus(s) == queue' = IF Len(queue) < QueueSize THEN Append(queue, s) ELSE queue

\* Slip: the status is taken from the frame rate, not from the decoder.
StatsRoundByRate ==
  /\ statsThread = "run"
  /\ \E positive \in FpsPositive :
       PushStatus([green |-> positive, real |-> counted > 0, swapped |-> swapped])
  /\ lastOut' = CurOut
  /\ counted' = 0 /\ swapped' = FALSE
  /\ UNCHANGED <<pipeline, statsThread, ets>>

\* A round of StatsLoop.
StatsRound ==
  /\ statsThread = "run"
  /\ \E positive \in FpsPositive :
       PushStatus([green |-> decoded # NoDecoder /\ positive,
                   real |-> counted > 0, swapped |-> swapped])
  /\ lastOut' = CurOut
  /\ counted' = 0 /\ swapped' = FALSE
  /\ UNCHANGED <<pipeline, statsThread, ets>>

-----------------------------------------------------------------------------
(* The JS thread.                                                          *)

\* aboutToAppear: start, which fails when the port is taken.
Appear ==
  /\ page = "away" /\ page' = "shown"
  /\ statsThread' \in {"none", "run"} /\ lastOut' = 0
  /\ UNCHANGED <<pipeline, past, queue, dot, timer, overlay>>

SetTimer == IF timer = "none" /\ ~overlay THEN "set" ELSE timer

\* Slip: the timer is stopped, but its number kept.
StatusCallKeepsTimer ==
  /\ queue # <<>> /\ queue' = Tail(queue)
  /\ dot' = Head(queue)
  /\ IF dot'.green THEN timer' = (IF timer = "set" THEN "spent" ELSE timer) /\ overlay' = FALSE
     ELSE timer' = SetTimer /\ UNCHANGED overlay
  /\ UNCHANGED <<pipeline, past, thread, page>>

\* CallStatusJs and the page's callback: the green dot stops the timer and
\* takes the card away, the red one sets the timer unless there is a card.
StatusCall ==
  /\ queue # <<>> /\ queue' = Tail(queue)
  /\ dot' = Head(queue)
  /\ IF dot'.green THEN timer' = "none" /\ overlay' = FALSE
     ELSE timer' = SetTimer /\ UNCHANGED overlay
  /\ UNCHANGED <<pipeline, past, thread, page>>

GraceOver ==
  /\ timer = "set" /\ timer' = "none"
  /\ overlay' = (overlay \/ ~dot.green)
  /\ UNCHANGED <<pipeline, past, thread, queue, page, dot>>

\* aboutToDisappear and Stop: the thread is joined and the decoder stopped;
\* statuses queued before are still called.
Disappear ==
  /\ page = "shown" /\ page' = "gone" /\ timer' = "none"
  /\ statsThread' = "none" /\ decoded' = NoDecoder
  /\ UNCHANGED <<ended, total, past, lastOut, queue, dot, overlay>>

StatusNext ==
  \/ DecoderStarts \/ DecoderStops \/ FrameDecoded \/ SenderEnds
  \/ StatsRound \/ Appear \/ StatusCall \/ GraceOver \/ Disappear

\* The thread's rounds, the JS thread's calls and the timer come; the sender
\* and the page's going are up to others.
StatusFairness == WF_statusVars(StatsRound) /\ WF_statusVars(StatusCall) /\ WF_statusVars(GraceOver)

StatusSpec == StatusInit /\ [][StatusNext]_statusVars /\ StatusFairness

-----------------------------------------------------------------------------
StatusTypeOK ==
  /\ decoded \in Nat \cup {NoDecoder} /\ ended \in BOOLEAN /\ total \in 0 .. MaxFrames
  /\ counted \in Nat /\ swapped \in BOOLEAN
  /\ statsThread \in {"none", "run"} /\ lastOut \in Nat
  /\ queue \in Seq(Status) /\ Len(queue) =< QueueSize
  /\ page \in {"away", "shown", "gone"} /\ dot \in Status
  /\ timer \in {"none", "set"} /\ overlay \in BOOLEAN

\* Green means that the decoder has shown frames in the round the page heard
\* of last, over any number of disconnects, surfaces and lost statuses; only a
\* decoder started within that very round may make it wrong.
GreenMeansFrames == dot.green => dot.real \/ dot.swapped

\* When the sender falls silent the page says so: the card comes up and stays,
\* however many statuses were lost and timers stopped before.
SilenceIsShown ==
  (ended /\ page = "shown" /\ statsThread = "run") ~> (page = "gone" \/ [](overlay \/ page = "gone"))

=============================================================================
