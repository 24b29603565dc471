----------------------------- MODULE WatchMode -----------------------------
(***************************************************************************)
(* The Windows sender's plug-and-play mode (WatchLoop, WatchSession): when *)
(* hdc sees the tablet, a virtual display is created and streamed; a       *)
(* monitor thread asks hdc on and, when the tablet is gone for good, ends  *)
(* the session and with it the display.                                    *)
(*                                                                         *)
(* The display is VddDisplay's; the streaming (StreamUntil, the module     *)
(* StreamSession) is one place here, and is taken to return once it is     *)
(* told to.                                                                *)
(***************************************************************************)
EXTENDS VddDisplay

CONSTANTS MaxPlugs,     \* bound: times the tablet is plugged in again
          MaxGlitches   \* bound: probes that fail though the tablet is there

ASSUME WatchAssumption == MaxPlugs \in Nat /\ MaxGlitches \in Nat

VARIABLES
  loop,          \* WatchLoop: "probe", "link", "session", "over", "done", "crashed"
  sess,          \* WatchSession: "none", "create", "stream", "told",
                 \* "joined", "cleanup"
  capture,       \* cap holds the duplication of the output
  fport,         \* external: the forwarding of the port is set up
  mon, miss,     \* the monitor thread: "none", "asleep", "confirm", "done"; its count
  monStop, deviceGone,
  plugged,       \* external: the tablet is plugged in
  plugs, glitches   \* plug-ins and failed probes so far

session == <<sess, capture>>
monitor == <<mon, miss, monStop, deviceGone>>
cable == <<plugged, plugs, glitches>>
vars == <<vvars, loop, session, fport, monitor, cable>>

Init ==
  /\ VInit
  /\ loop = "probe" /\ sess = "none" /\ capture = FALSE /\ fport = FALSE
  /\ mon = "none" /\ miss = 0 /\ monStop = FALSE /\ deviceGone = FALSE
  /\ plugged \in BOOLEAN /\ plugs = 0 /\ glitches = 0

-----------------------------------------------------------------------------
(* hdc list targets: it may also fail, or time out.                        *)

Present == plugged /\ UNCHANGED cable

Absent ==
  /\ IF plugged
     THEN glitches < MaxGlitches /\ glitches' = glitches + 1
     ELSE UNCHANGED glitches
  /\ UNCHANGED <<plugged, plugs>>

-----------------------------------------------------------------------------
(* The main thread.                                                        *)

NoDevice ==
  /\ loop = "probe" /\ ~exit /\ Absent
  /\ UNCHANGED <<vvars, loop, session, fport, monitor>>

\* EnsureFport removes and sets the forwarding, for what it is worth.
Device ==
  /\ loop = "probe" /\ ~exit /\ Present
  /\ loop' = "link" /\ fport' \in BOOLEAN
  /\ UNCHANGED <<vvars, session, monitor>>

NoFport ==
  /\ loop = "link" /\ loop' = "probe"
  /\ UNCHANGED <<vvars, session, fport, monitor, cable>>

\* WatchSession starts the monitor, then creates the display.
BeginSession ==
  /\ loop = "link" /\ fport
  /\ loop' = "session" /\ sess' = "create"
  /\ mon' = "asleep" /\ miss' = 0 /\ monStop' = FALSE /\ deviceGone' = FALSE
  /\ BeginCreate
  /\ UNCHANGED <<capture, fport, cable>>

InSession == UNCHANGED <<loop, fport, cable>>

DisplayStep == Call /\ UNCHANGED <<loop, session, fport, monitor, cable>>

\* Create has failed; stopMon.
NoDisplay ==
  /\ sess = "create" /\ create = "failed" /\ sess' = "told"
  /\ monStop' = TRUE
  /\ UNCHANGED <<vvars, capture, mon, miss, deviceGone>> /\ InSession

\* cap.Init, and the streaming begins; or stopMon.
InitCapture ==
  /\ sess = "create" /\ create = "created"
  /\ \/ capture' = TRUE /\ sess' = "stream" /\ UNCHANGED monStop
     \/ capture' = FALSE /\ sess' = "told" /\ monStop' = TRUE
  /\ UNCHANGED <<vvars, mon, miss, deviceGone>> /\ InSession

\* Slip: the streaming is not told about the device.
StreamReturnsBlind ==
  /\ sess = "stream" /\ sess' = "told"
  /\ exit
  /\ monStop' = TRUE
  /\ UNCHANGED <<vvars, capture, mon, miss, deviceGone>> /\ InSession

\* StreamUntil returns, told to; stopMon.
StreamReturns ==
  /\ sess = "stream" /\ sess' = "told"
  /\ exit \/ deviceGone
  /\ monStop' = TRUE
  /\ UNCHANGED <<vvars, capture, mon, miss, deviceGone>> /\ InSession

\* StreamUntil returns by itself: its capture thread has died.
StreamDies ==
  /\ sess = "stream" /\ sess' = "told"
  /\ monStop' = TRUE
  /\ UNCHANGED <<vvars, capture, mon, miss, deviceGone>> /\ InSession

JoinMonitor ==
  /\ sess = "told" /\ mon = "done" /\ sess' = "joined"
  /\ mon' = "none"
  /\ UNCHANGED <<vvars, capture, miss, monStop, deviceGone>> /\ InSession

\* Slip: the display is cleaned up before the capture.
ReleaseCaptureLate ==
  /\ sess = "joined" /\ sess' = "cleanup"
  /\ StopPing
  /\ UNCHANGED <<capture, monitor>> /\ InSession

\* cap.Shutdown, or its destructor, and then the display's destructor.
ReleaseCapture ==
  /\ sess = "joined" /\ sess' = "cleanup"
  /\ capture' = FALSE /\ StopPing
  /\ UNCHANGED monitor /\ InSession

SessionReturns ==
  /\ sess = "cleanup" /\ create = "none"
  /\ sess' = "none" /\ loop' = "over"
  /\ UNCHANGED <<vvars, capture, fport, monitor, cable>>

\* g_exit breaks the loop; otherwise the forwarding goes, and the loop sleeps
\* for as long as the failures so far tell.
Over ==
  /\ loop = "over"
  /\ IF exit THEN loop' = "done" /\ UNCHANGED fport
             ELSE loop' = "probe" /\ fport' = FALSE
  /\ UNCHANGED <<vvars, session, monitor, cable>>

LoopEnds ==
  /\ loop = "probe" /\ exit /\ loop' = "done"
  /\ UNCHANGED <<vvars, session, fport, monitor, cable>>

-----------------------------------------------------------------------------
(* The monitor thread.                                                     *)

Ending == exit \/ monStop

MonitorEnds ==
  /\ mon \in {"asleep", "confirm"} /\ Ending /\ mon' = "done"
  /\ UNCHANGED <<vvars, loop, session, fport, miss, monStop, deviceGone, cable>>

\* Also the probe made after the delay.
MonitorSees ==
  /\ mon \in {"asleep", "confirm"} /\ ~Ending /\ Present
  /\ mon' = "asleep" /\ miss' = 0
  /\ UNCHANGED <<vvars, loop, session, fport, monStop, deviceGone>>

\* Slip: the first miss is believed.
MonitorMissesOnce ==
  /\ mon = "asleep" /\ ~Ending /\ Absent
  /\ miss' = miss + 1
  /\ mon' = "confirm"
  /\ UNCHANGED <<vvars, loop, session, fport, monStop, deviceGone>>

\* The second miss in a row is waited out.
MonitorMisses ==
  /\ mon = "asleep" /\ ~Ending /\ Absent
  /\ miss' = miss + 1
  /\ mon' = IF miss' < 2 THEN "asleep" ELSE "confirm"
  /\ UNCHANGED <<vvars, loop, session, fport, monStop, deviceGone>>

MonitorConfirms ==
  /\ mon = "confirm" /\ ~Ending /\ Absent
  /\ deviceGone' = TRUE /\ mon' = "done"
  /\ UNCHANGED <<vvars, loop, session, fport, miss, monStop>>

-----------------------------------------------------------------------------
(* The user, the driver, the other programs.                               *)

Unplug ==
  /\ plugged /\ plugged' = FALSE /\ fport' = FALSE
  /\ UNCHANGED <<vvars, loop, session, monitor, plugs, glitches>>

Plug ==
  /\ ~plugged /\ plugs < MaxPlugs
  /\ plugged' = TRUE /\ plugs' = plugs + 1
  /\ UNCHANGED <<vvars, loop, session, fport, monitor, glitches>>

Environment ==
  /\ Ping \/ DriverDrops \/ Outside \/ Exit
  /\ UNCHANGED <<loop, session, fport, monitor, cable>>

\* The process ends at once, wherever it is: its threads and handles are gone.
Crash ==
  /\ loop \notin {"done", "crashed"}
  /\ loop' = "crashed" /\ sess' = "none" /\ capture' = FALSE /\ mon' = "none"
  /\ create' = "none" /\ added' = FALSE /\ handle' = FALSE
  /\ pingRun' = FALSE /\ ping' = "none"
  /\ UNCHANGED <<attempt, before, out, driver, exit, fport, miss, monStop, deviceGone, cable>>

-----------------------------------------------------------------------------
Loop == NoDevice \/ Device \/ NoFport \/ BeginSession \/ Over \/ LoopEnds

Session == \/ NoDisplay \/ InitCapture \/ StreamReturns
           \/ JoinMonitor \/ ReleaseCapture \/ SessionReturns

Monitor == MonitorEnds \/ MonitorSees \/ MonitorMisses \/ MonitorConfirms

Next == \/ Loop \/ Session \/ StreamDies \/ DisplayStep \/ Monitor
        \/ Environment \/ Unplug \/ Plug \/ Crash

\* Both threads run, hdc answers; StreamUntil returns when it is told to.
\* std::mutex promises no order: that the owner ever gets io_ from the ping
\* thread, which asks for it again at once, is an assumption, the strong
\* fairness below.
Fairness == /\ WF_vars(Loop) /\ WF_vars(Session)
            /\ WF_vars(Monitor) /\ WF_vars(DisplayStep)
            /\ WF_vars(Environment /\ Ping) /\ WF_vars(Environment /\ DriverDrops)
            /\ SF_vars(Waiting /\ DisplayStep)

Spec == Init /\ [][Next]_vars /\ Fairness

-----------------------------------------------------------------------------
TypeOK ==
  /\ VTypeOK
  /\ loop \in {"probe", "link", "session", "over", "done", "crashed"}
  /\ sess \in {"none", "create", "stream", "told", "joined", "cleanup"}
  /\ capture \in BOOLEAN /\ fport \in BOOLEAN
  /\ mon \in {"none", "asleep", "confirm", "done"} /\ miss \in 0..2
  /\ monStop \in BOOLEAN /\ deviceGone \in BOOLEAN
  /\ plugged \in BOOLEAN /\ plugs \in 0..MaxPlugs /\ glitches \in 0..MaxGlitches

\* "The capture is let go first, only then can the display be removed safely":
\* while the output is duplicated, the display behind it is there.
CaptureBeforeDisplay == capture => create = "created" /\ displays = 1

\* However often Create tries, the driver never has a display that Cleanup
\* will not remove, and never two.  A crash leaves the removal to the driver.
NoOrphan == loop # "crashed" => displays = 0 \/ (displays = 1 /\ added /\ handle)

\* "A probe that fails once may be hdc's doing": with no more than two probes
\* that fail though the tablet is there, a tablet is held to be gone only when
\* it has been unplugged (and perhaps plugged in again since).
GoneMeansUnplugged == (deviceGone /\ plugged) => plugs > 0

\* "Unplugged, it is destroyed": when the tablet stays away, so does the display.
UnplugRemovesDisplay == <>[](~plugged) => <>[](displays = 0)

\* "The process ends or crashes, and the display is gone by itself."
EndRemovesDisplay == (exit \/ loop = "crashed") ~> (displays = 0 /\ loop \in {"done", "crashed"})

\* No display outlives the tablet's presence or the process.
DisplayGoes == UnplugRemovesDisplay /\ EndRemovesDisplay

=============================================================================
