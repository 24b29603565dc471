-------------------------- MODULE WatchModeProofs --------------------------
(* Proofs about the display of VddDisplay under any owner, and about       *)
(* WatchMode, which is one, for any number of attempts, plug-ins and       *)
(* failed probes: no virtual display is left behind, none goes while it is *)
(* captured, and two failed probes do not end a session.                   *)
EXTENDS WatchMode, TLAPS

\* WatchLoop is in a session exactly as long as WatchSession runs.
Nested == (loop = "session") <=> (sess # "none")

\* The display's life: from the opening of the driver until Cleanup the ping
\* thread runs, so that the driver does not drop the display; between Add and
\* Remove there is just one, and outside none that Cleanup does not know of.
Kept ==
  /\ create \in {"loop", "add", "wait1", "activate", "wait2", "remove", "apply", "created"}
       => handle = TRUE /\ pingRun = TRUE /\ ping \in {"loop", "hold"}
  /\ create \in {"wait1", "activate", "wait2", "remove", "apply", "created"}
       => added = TRUE /\ displays = 1
  /\ create \in {"none", "open", "loop", "add", "close"} => added = FALSE
  /\ displays = 0 \/ (displays = 1 /\ added = TRUE /\ handle = TRUE)

\* Whoever captures the output is within the streaming part of a session.
Held ==
  /\ capture \in BOOLEAN
  /\ capture = TRUE => create = "created" /\ sess \in {"stream", "told", "joined"}

LEMMA NestedInductive ==
  /\ Init => Nested
  /\ Nested /\ [Next]_vars => Nested'
<1>1. Init => Nested
  BY DEF Init, Nested
<1>2. ASSUME Nested, [Next]_vars PROVE Nested'
  <2> USE <1>2 DEF Nested, owner, driver, session, monitor, cable, InSession, At
  <2>1. CASE NoDevice
    BY <2>1 DEF NoDevice, Absent, vvars
  <2>2. CASE Device \/ NoFport
    BY <2>2 DEF Device, NoFport, Present, vvars
  <2>3. CASE BeginSession
    BY <2>3 DEF BeginSession, BeginCreate
  <2>4. CASE Over \/ LoopEnds
    BY <2>4 DEF Over, LoopEnds, vvars
  <2>5. CASE NoDisplay \/ StreamReturns \/ StreamDies \/ JoinMonitor
    BY <2>5 DEF NoDisplay, StreamReturns, StreamDies, JoinMonitor, vvars
  <2>6. CASE InitCapture
    BY <2>6 DEF InitCapture, vvars
  <2>7. CASE ReleaseCapture
    BY <2>7 DEF ReleaseCapture, StopPing
  <2>8. CASE SessionReturns
    BY <2>8 DEF SessionReturns, vvars
  <2>9. CASE DisplayStep
    BY <2>9 DEF DisplayStep
  <2>10. CASE MonitorEnds
    BY <2>10 DEF MonitorEnds, vvars
  <2>11. CASE MonitorSees
    BY <2>11 DEF MonitorSees, Present, vvars
  <2>12. CASE MonitorMisses
    BY <2>12 DEF MonitorMisses, Absent, vvars
  <2>13. CASE MonitorConfirms
    BY <2>13 DEF MonitorConfirms, Absent, vvars
  <2>14. CASE Environment
    BY <2>14 DEF Environment, Ping, PingLock, PingUnlock, PingExit,
                DriverDrops, Outside, SystemExtends, OutputLeaves, OtherComes,
                OtherLeaves, Exit
  <2>15. CASE Unplug \/ Plug
    BY <2>15 DEF Unplug, Plug, vvars
  <2>16. CASE Crash
    BY <2>16 DEF Crash
  <2>17. CASE UNCHANGED vars
    BY <2>17 DEF vars, vvars
  <2>. QED BY <2>1, <2>2, <2>3, <2>4, <2>5, <2>6, <2>7, <2>8, <2>9,
              <2>10, <2>11, <2>12, <2>13, <2>14, <2>15, <2>16, <2>17
           DEF Next, Loop, Session, Monitor
<1>. QED BY <1>1, <1>2

-----------------------------------------------------------------------------
(* The display, for whoever calls Create and Cleanup.                       *)

LEMMA KeptByDisplay ==
  /\ VInit => Kept
  /\ Kept /\ [VNext]_vvars => Kept'
<1>1. VInit => Kept
  BY DEF VInit, Kept
<1>2. ASSUME Kept, [VNext]_vvars PROVE Kept'
  <2> USE <1>2 DEF Kept, owner, driver, At
  <2>1. CASE BeginCreate \/ StopPing
    BY <2>1 DEF BeginCreate, StopPing
  <2>2. CASE NoDriver \/ Open
    BY <2>2 DEF NoDriver, Open
  <2>3. CASE TryAgain \/ GiveUp
    BY <2>3 DEF TryAgain, GiveUp
  <2>4. CASE Add
    BY <2>4 DEF Add
  <2>5. CASE AddRefused
    BY <2>5 DEF AddRefused
  <2>6. CASE Found \/ NotFound
    BY <2>6 DEF Found, NotFound
  <2>7. CASE Activate
    BY <2>7 DEF Activate
  <2>8. CASE Remove
    BY <2>8 DEF Remove, RemoveDisplay
  <2>9. CASE Apply
    BY <2>9 DEF Apply
  <2>10. CASE JoinPing
    BY <2>10 DEF JoinPing
  <2>11. CASE Drop
    BY <2>11 DEF Drop, RemoveDisplay
  <2>12. CASE Close
    BY <2>12 DEF Close
  <2>13. CASE Ping
    BY <2>13 DEF Ping, PingLock, PingUnlock, PingExit
  <2>14. CASE DriverDrops
    BY <2>14 DEF DriverDrops
  <2>15. CASE Outside \/ Exit
    BY <2>15 DEF Outside, SystemExtends, OutputLeaves, OtherComes, OtherLeaves, Exit
  <2>16. CASE UNCHANGED vvars
    BY <2>16 DEF vvars
  <2>. QED BY <2>1, <2>2, <2>3, <2>4, <2>5, <2>6, <2>7, <2>8, <2>9, <2>10, <2>11,
              <2>12, <2>13, <2>14, <2>15, <2>16
           DEF VNext, Call
<1>. QED BY <1>1, <1>2

\* Whoever uses VddDisplay, WatchSession or main with --vdd, and whenever: the
\* driver has at most one display, and Cleanup would remove it.
THEOREM NoOrphanOfAnyOwner ==
  VSpec => [](displays = 0 \/ (displays = 1 /\ added /\ handle))
<1>1. Kept => displays = 0 \/ (displays = 1 /\ added /\ handle)
  BY DEF Kept
<1>. QED BY <1>1, KeptByDisplay, PTL DEF VSpec

\* A step of the mode is a step of the display, or none of its business.
LEMMA DisplaySteps ==
  ASSUME [Next]_vars, ~Crash
  PROVE  [VNext]_vvars
<1>1. CASE Loop
  <2>1. CASE BeginSession
    BY <2>1 DEF BeginSession, VNext
  <2>2. CASE NoDevice \/ Device \/ NoFport \/ Over \/ LoopEnds
    BY <2>2 DEF NoDevice, Device, NoFport, Over, LoopEnds
  <2>. QED BY <1>1, <2>1, <2>2 DEF Loop
<1>2. CASE Session \/ StreamDies
  <2>1. CASE ReleaseCapture
    BY <2>1 DEF ReleaseCapture, VNext
  <2>2. CASE NoDisplay \/ InitCapture \/ StreamReturns \/ StreamDies \/ JoinMonitor \/ SessionReturns
    BY <2>2 DEF NoDisplay, InitCapture, StreamReturns, StreamDies, JoinMonitor, SessionReturns
  <2>. QED BY <1>2, <2>1, <2>2 DEF Session
<1>3. CASE DisplayStep
  BY <1>3 DEF DisplayStep, VNext
<1>4. CASE Monitor
  BY <1>4 DEF Monitor, MonitorEnds, MonitorSees, MonitorMisses, MonitorConfirms
<1>5. CASE Environment
  BY <1>5 DEF Environment, VNext
<1>6. CASE Unplug \/ Plug
  BY <1>6 DEF Unplug, Plug
<1>7. CASE UNCHANGED vars
  BY <1>7 DEF vars
<1>. QED BY <1>1, <1>2, <1>3, <1>4, <1>5, <1>6, <1>7 DEF Next

\* WatchLoop and WatchSession use the display as its specification wants it:
\* whatever they, their monitor and the cable do, what happens to the display
\* are its own steps, one call of Create after the other and Cleanup behind it,
\* or the end of the process.
THEOREM ServesDisplay == Spec => VInit /\ [][VNext \/ Crash]_vvars
<1>1. Init => VInit
  BY DEF Init
<1>2. [Next]_vars => [VNext \/ Crash]_vvars
  BY DisplaySteps
<1>. QED BY <1>1, <1>2, PTL DEF Spec

-----------------------------------------------------------------------------
(* The display in the mode.                                                 *)

LEMMA CrashedStays ==
  ASSUME Nested, [Next]_vars, loop = "crashed"
  PROVE  loop' = "crashed"
<1> USE DEF InSession
<1>1. CASE Loop
  BY <1>1 DEF Loop, NoDevice, Device, NoFport, BeginSession, Over, LoopEnds
<1>2. CASE Session \/ StreamDies
  BY <1>2 DEF Nested, Session, NoDisplay, InitCapture, StreamReturns, StreamDies, JoinMonitor,
              ReleaseCapture, SessionReturns
<1>3. CASE DisplayStep \/ Environment \/ Unplug \/ Plug
  BY <1>3 DEF DisplayStep, Environment, Unplug, Plug
<1>4. CASE Monitor
  BY <1>4 DEF Monitor, MonitorEnds, MonitorSees, MonitorMisses, MonitorConfirms
<1>5. CASE Crash \/ UNCHANGED vars
  BY <1>5 DEF Crash, vars
<1>. QED BY <1>1, <1>2, <1>3, <1>4, <1>5 DEF Next

\* The display's own invariant, within the mode.
LEMMA KeptInductive ==
  /\ Init => (loop # "crashed" => Kept)
  /\ Nested /\ (loop # "crashed" => Kept) /\ [Next]_vars => (loop # "crashed" => Kept)'
<1>1. Init => (loop # "crashed" => Kept)
  BY KeptByDisplay DEF Init
<1>2. ASSUME Nested, loop # "crashed" => Kept, [Next]_vars
      PROVE  (loop # "crashed" => Kept)'
  <2>1. CASE Crash
    BY <2>1 DEF Crash
  <2>2. CASE ~Crash
    BY <1>2, <2>2, CrashedStays, DisplaySteps, KeptByDisplay
  <2>. QED BY <2>1, <2>2
<1>. QED BY <1>1, <1>2

LEMMA HeldInductive ==
  /\ Init => Held
  /\ Nested /\ Held /\ [Next]_vars => Held'
<1>1. Init => Held
  BY DEF Init, Held
<1>2. ASSUME Nested, Held, [Next]_vars PROVE Held'
  <2> USE <1>2 DEF Nested, Held, owner, driver, session, monitor, cable, InSession, At
  <2>1. CASE NoDevice
    BY <2>1 DEF NoDevice, Absent, vvars
  <2>2. CASE Device \/ NoFport
    BY <2>2 DEF Device, NoFport, Present, vvars
  <2>3. CASE BeginSession
    BY <2>3 DEF BeginSession, BeginCreate
  <2>4. CASE Over \/ LoopEnds
    BY <2>4 DEF Over, LoopEnds, vvars
  <2>5. CASE NoDisplay \/ StreamReturns \/ StreamDies \/ JoinMonitor
    BY <2>5 DEF NoDisplay, StreamReturns, StreamDies, JoinMonitor, vvars
  <2>6. CASE InitCapture
    BY <2>6 DEF InitCapture, vvars
  <2>7. CASE ReleaseCapture
    BY <2>7 DEF ReleaseCapture, StopPing
  <2>8. CASE SessionReturns
    BY <2>8 DEF SessionReturns, vvars
  <2>9. CASE DisplayStep
    <3>1. CASE NoDriver \/ Open
      BY <2>9, <3>1 DEF DisplayStep,
             NoDriver, Open
    <3>2. CASE TryAgain \/ GiveUp
      BY <2>9, <3>2 DEF DisplayStep,
             TryAgain, GiveUp
    <3>3. CASE Add
      BY <2>9, <3>3 DEF DisplayStep,
             Add
    <3>4. CASE AddRefused
      BY <2>9, <3>4 DEF DisplayStep,
             AddRefused
    <3>5. CASE Found \/ NotFound
      BY <2>9, <3>5 DEF DisplayStep,
             Found, NotFound
    <3>6. CASE Activate
      BY <2>9, <3>6 DEF DisplayStep,
             Activate
    <3>7. CASE Remove
      BY <2>9, <3>7 DEF DisplayStep,
             Remove, RemoveDisplay
    <3>8. CASE Apply
      BY <2>9, <3>8 DEF DisplayStep,
             Apply
    <3>9. CASE JoinPing
      BY <2>9, <3>9 DEF DisplayStep,
             JoinPing
    <3>10. CASE Drop
      BY <2>9, <3>10 DEF DisplayStep,
             Drop, RemoveDisplay
    <3>11. CASE Close
      BY <2>9, <3>11 DEF DisplayStep,
             Close
    <3>. QED BY <2>9, <3>1, <3>2, <3>3, <3>4, <3>5, <3>6, <3>7, <3>8, <3>9, <3>10, <3>11
           DEF DisplayStep, Call
  <2>10. CASE MonitorEnds
    BY <2>10 DEF MonitorEnds, vvars
  <2>11. CASE MonitorSees
    BY <2>11 DEF MonitorSees, Present, vvars
  <2>12. CASE MonitorMisses
    BY <2>12 DEF MonitorMisses, Absent, vvars
  <2>13. CASE MonitorConfirms
    BY <2>13 DEF MonitorConfirms, Absent, vvars
  <2>14. CASE Environment
    <3>1. CASE Ping
      BY <2>14, <3>1 DEF Environment,
             Ping, PingLock, PingUnlock, PingExit
    <3>2. CASE DriverDrops
      BY <2>14, <3>2 DEF Environment,
             DriverDrops
    <3>3. CASE Outside \/ Exit
      BY <2>14, <3>3 DEF Environment,
             Outside, SystemExtends, OutputLeaves, OtherComes, OtherLeaves, Exit
    <3>. QED BY <2>14, <3>1, <3>2, <3>3
           DEF Environment
  <2>15. CASE Unplug \/ Plug
    BY <2>15 DEF Unplug, Plug, vvars
  <2>16. CASE Crash
    BY <2>16 DEF Crash
  <2>17. CASE UNCHANGED vars
    BY <2>17 DEF vars, vvars
  <2>. QED BY <2>1, <2>2, <2>3, <2>4, <2>5, <2>6, <2>7, <2>8, <2>9,
              <2>10, <2>11, <2>12, <2>13, <2>14, <2>15, <2>16, <2>17
           DEF Next, Loop, Session, Monitor
<1>. QED BY <1>1, <1>2

\* However often Create tries, and whatever breaks: the driver has at most one
\* display, and while the process lives Cleanup knows of it.
THEOREM NoOrphanEver == Spec => []NoOrphan
<1> DEFINE IInv == Nested /\ (loop # "crashed" => Kept)
<1>1. Init => IInv
  BY NestedInductive, KeptInductive
<1>2. IInv /\ [Next]_vars => IInv'
  BY NestedInductive, KeptInductive
<1>3. IInv => NoOrphan
  BY DEF Kept, NoOrphan
<1>. QED BY <1>1, <1>2, <1>3, PTL DEF Spec

\* The display is there as long as it is captured: the session lets go of the
\* capture before the ping thread is stopped and the display removed.
THEOREM CaptureIsFirst == Spec => []CaptureBeforeDisplay
<1> DEFINE IInv == Nested /\ (loop # "crashed" => Kept) /\ Held
<1>1. Init => IInv
  BY NestedInductive, KeptInductive, HeldInductive
<1>2. IInv /\ [Next]_vars => IInv'
  BY NestedInductive, KeptInductive, HeldInductive
<1>3. ASSUME IInv PROVE CaptureBeforeDisplay
  <2> SUFFICES ASSUME capture = TRUE PROVE create = "created" /\ displays = 1
    BY <1>3 DEF Held, CaptureBeforeDisplay
  <2>1. create = "created" /\ sess # "none"
    BY <1>3 DEF Held
  <2>2. loop # "crashed"
    BY <1>3, <2>1 DEF Nested
  <2>. QED BY <1>3, <2>1, <2>2 DEF Kept
<1>. QED BY <1>1, <1>2, <1>3, PTL DEF Spec

-----------------------------------------------------------------------------
\* A tablet that has never been unplugged is missed only by probes that fail:
\* one before the second miss, two before the confirmation, three at its end.
Probes ==
  /\ glitches \in 0..MaxGlitches /\ plugs \in Nat
  /\ mon = "asleep" => miss \in {0, 1}
  /\ plugged = TRUE /\ plugs = 0 =>
       /\ mon = "asleep" => miss =< glitches
       /\ mon = "confirm" => 2 =< glitches
       /\ deviceGone = TRUE => 3 =< glitches

LEMMA ProbesInductive ==
  /\ Init => Probes
  /\ Probes /\ [Next]_vars => Probes'
<1> USE WatchAssumption DEF WatchAssumption
<1>1. Init => Probes
  BY DEF Init, Probes
<1>2. ASSUME Probes, [Next]_vars PROVE Probes'
  <2> USE <1>2 DEF Probes, owner, driver, session, monitor, cable, InSession, At
  <2>1. CASE NoDevice
    BY <2>1 DEF NoDevice, Absent, vvars
  <2>2. CASE Device \/ NoFport
    BY <2>2 DEF Device, NoFport, Present, vvars
  <2>3. CASE BeginSession
    BY <2>3 DEF BeginSession, BeginCreate
  <2>4. CASE Over \/ LoopEnds
    BY <2>4 DEF Over, LoopEnds, vvars
  <2>5. CASE NoDisplay \/ StreamReturns \/ StreamDies \/ JoinMonitor
    BY <2>5 DEF NoDisplay, StreamReturns, StreamDies, JoinMonitor, vvars
  <2>6. CASE InitCapture
    BY <2>6 DEF InitCapture, vvars
  <2>7. CASE ReleaseCapture
    BY <2>7 DEF ReleaseCapture, StopPing
  <2>8. CASE SessionReturns
    BY <2>8 DEF SessionReturns, vvars
  <2>9. CASE DisplayStep
    BY <2>9 DEF DisplayStep
  <2>10. CASE MonitorEnds
    BY <2>10 DEF MonitorEnds, vvars
  <2>11. CASE MonitorSees
    BY <2>11 DEF MonitorSees, Present, vvars
  <2>12. CASE MonitorMisses
    BY <2>12 DEF MonitorMisses, Absent, vvars
  <2>13. CASE MonitorConfirms
    BY <2>13 DEF MonitorConfirms, Absent, vvars
  <2>14. CASE Environment
    BY <2>14 DEF Environment, Ping, PingLock, PingUnlock, PingExit,
                DriverDrops, Outside, SystemExtends, OutputLeaves, OtherComes,
                OtherLeaves, Exit
  <2>15. CASE Unplug \/ Plug
    BY <2>15 DEF Unplug, Plug, vvars
  <2>16. CASE Crash
    BY <2>16 DEF Crash
  <2>17. CASE UNCHANGED vars
    BY <2>17 DEF vars, vvars
  <2>. QED BY <2>1, <2>2, <2>3, <2>4, <2>5, <2>6, <2>7, <2>8, <2>9,
              <2>10, <2>11, <2>12, <2>13, <2>14, <2>15, <2>16, <2>17
           DEF Next, Loop, Session, Monitor
<1>. QED BY <1>1, <1>2

\* With no more than two failed probes, a session is ended for a tablet that
\* is plugged in only when it has been unplugged meanwhile: the monitor's two
\* misses and its confirmation are three probes in a row.
THEOREM GoneIsTrue ==
  ASSUME MaxGlitches =< 2
  PROVE  Spec => []GoneMeansUnplugged
<1>1. Probes => GoneMeansUnplugged
  BY WatchAssumption DEF Probes, GoneMeansUnplugged, WatchAssumption
<1>. QED BY <1>1, ProbesInductive, PTL DEF Spec

-----------------------------------------------------------------------------
\* The type invariant in three parts: flags; places and numbers, with which
\* attempts are begun and what a sleeping monitor has counted; and the desktop.
FlagsOK ==
  /\ added \in BOOLEAN /\ handle \in BOOLEAN /\ pingRun \in BOOLEAN /\ exit \in BOOLEAN
  /\ capture \in BOOLEAN /\ fport \in BOOLEAN /\ monStop \in BOOLEAN
  /\ deviceGone \in BOOLEAN /\ plugged \in BOOLEAN

PlacesOK ==
  /\ create \in {"none", "open", "loop", "add", "wait1", "activate", "wait2", "remove",
                 "apply", "created", "failed", "join", "drop", "close"}
  /\ ping \in {"none", "loop", "hold", "done"}
  /\ loop \in {"probe", "link", "session", "over", "done", "crashed"}
  /\ sess \in {"none", "create", "stream", "told", "joined", "cleanup"}
  /\ mon \in {"none", "asleep", "confirm", "done"}
  /\ attempt \in 1..MaxAttempt + 1
  /\ create \in {"add", "wait1", "activate", "wait2", "remove"} => attempt =< MaxAttempt
  /\ miss \in 0..2 /\ (mon = "asleep" => miss \in {0, 1})
  /\ displays \in Nat /\ plugs \in 0..MaxPlugs /\ glitches \in 0..MaxGlitches

DesktopOK == before \in SUBSET Outputs /\ out \in Outputs /\ desktop \in SUBSET Outputs

LEMMA FlagsInductive ==
  /\ Init => FlagsOK
  /\ FlagsOK /\ [Next]_vars => FlagsOK'
<1>1. Init => FlagsOK
  BY DEF Init, VInit, FlagsOK
<1>2. ASSUME FlagsOK, [Next]_vars PROVE FlagsOK'
  <2> USE <1>2 DEF FlagsOK, owner, driver, session, monitor, cable, InSession, At
  <2>1. CASE NoDevice
    BY <2>1 DEF NoDevice, Absent, vvars
  <2>2. CASE Device
    BY <2>2 DEF Device, Present, vvars
  <2>3. CASE NoFport
    BY <2>3 DEF NoFport, vvars
  <2>4. CASE BeginSession
    BY <2>4 DEF BeginSession, BeginCreate
  <2>5. CASE Over \/ LoopEnds
    BY <2>5 DEF Over, LoopEnds, vvars
  <2>6. CASE NoDisplay \/ StreamReturns \/ StreamDies \/ JoinMonitor
    <3>1. CASE NoDisplay \/ StreamReturns
      BY <3>1 DEF NoDisplay, StreamReturns, vvars
    <3>2. CASE StreamDies \/ JoinMonitor
      BY <3>2 DEF StreamDies, JoinMonitor, vvars
    <3>. QED BY <2>6, <3>1, <3>2
  <2>7. CASE InitCapture
    BY <2>7 DEF InitCapture, vvars
  <2>8. CASE ReleaseCapture
    BY <2>8 DEF ReleaseCapture, StopPing
  <2>9. CASE SessionReturns
    BY <2>9 DEF SessionReturns, vvars
  <2>10. CASE DisplayStep
    <3>1. CASE NoDriver
      BY <2>10, <3>1 DEF DisplayStep, NoDriver
    <3>2. CASE Open
      BY <2>10, <3>2 DEF DisplayStep, Open
    <3>3. CASE TryAgain
      BY <2>10, <3>3 DEF DisplayStep, TryAgain
    <3>4. CASE GiveUp
      BY <2>10, <3>4 DEF DisplayStep, GiveUp
    <3>5. CASE Add
      BY <2>10, <3>5 DEF DisplayStep, Add
    <3>6. CASE AddRefused
      BY <2>10, <3>6 DEF DisplayStep, AddRefused
    <3>7. CASE Found
      BY <2>10, <3>7 DEF DisplayStep, Found
    <3>8. CASE NotFound
      BY <2>10, <3>8 DEF DisplayStep, NotFound
    <3>9. CASE Activate
      BY <2>10, <3>9 DEF DisplayStep, Activate
    <3>10. CASE Remove
      BY <2>10, <3>10 DEF DisplayStep, Remove, RemoveDisplay
    <3>11. CASE Apply
      BY <2>10, <3>11 DEF DisplayStep, Apply
    <3>12. CASE JoinPing
      BY <2>10, <3>12 DEF DisplayStep, JoinPing
    <3>13. CASE Drop
      BY <2>10, <3>13 DEF DisplayStep, Drop, RemoveDisplay
    <3>14. CASE Close
      BY <2>10, <3>14 DEF DisplayStep, Close
    <3>. QED BY <2>10, <3>1, <3>2, <3>3, <3>4, <3>5, <3>6, <3>7, <3>8,
                <3>9, <3>10, <3>11, <3>12, <3>13, <3>14 DEF DisplayStep, Call
  <2>11. CASE MonitorEnds
    BY <2>11 DEF MonitorEnds, vvars
  <2>12. CASE MonitorSees
    BY <2>12 DEF MonitorSees, Present, vvars
  <2>13. CASE MonitorMisses
    BY <2>13 DEF MonitorMisses, Absent, vvars
  <2>14. CASE MonitorConfirms
    BY <2>14 DEF MonitorConfirms, Absent, vvars
  <2>15. CASE Environment
    <3>1. CASE Ping
      BY <2>15, <3>1 DEF Environment, Ping, PingLock, PingUnlock, PingExit
    <3>2. CASE DriverDrops
      BY <2>15, <3>2 DEF Environment, DriverDrops
    <3>3. CASE SystemExtends \/ OutputLeaves
      BY <2>15, <3>3 DEF Environment, SystemExtends, OutputLeaves
    <3>4. CASE OtherComes \/ OtherLeaves
      BY <2>15, <3>4 DEF Environment, OtherComes, OtherLeaves
    <3>5. CASE Exit
      BY <2>15, <3>5 DEF Environment, Exit
    <3>. QED BY <2>15, <3>1, <3>2, <3>3, <3>4, <3>5 DEF Environment, Outside
  <2>16. CASE Unplug \/ Plug
    BY <2>16 DEF Unplug, Plug, vvars
  <2>17. CASE Crash
    BY <2>17 DEF Crash
  <2>18. CASE UNCHANGED vars
    BY <2>18 DEF vars, vvars
  <2>. QED BY <2>1, <2>2, <2>3, <2>4, <2>5, <2>6, <2>7, <2>8, <2>9, <2>10, <2>11,
              <2>12, <2>13, <2>14, <2>15, <2>16, <2>17, <2>18
           DEF Next, Loop, Session, Monitor
<1>. QED BY <1>1, <1>2

LEMMA PlacesInductive ==
  /\ Init => PlacesOK
  /\ PlacesOK /\ [Next]_vars => PlacesOK'
<1> USE DisplayAssumption, WatchAssumption DEF DisplayAssumption, WatchAssumption
<1>1. Init => PlacesOK
  BY DEF Init, VInit, PlacesOK
<1>2. ASSUME PlacesOK, [Next]_vars PROVE PlacesOK'
  <2> USE <1>2 DEF PlacesOK, owner, driver, session, monitor, cable, InSession, At
  <2>1. CASE NoDevice
    BY <2>1 DEF NoDevice, Absent, vvars
  <2>2. CASE Device
    BY <2>2 DEF Device, Present, vvars
  <2>3. CASE NoFport
    BY <2>3 DEF NoFport, vvars
  <2>4. CASE BeginSession
    BY <2>4 DEF BeginSession, BeginCreate
  <2>5. CASE Over \/ LoopEnds
    BY <2>5 DEF Over, LoopEnds, vvars
  <2>6. CASE NoDisplay \/ StreamReturns \/ StreamDies \/ JoinMonitor
    <3>1. CASE NoDisplay \/ StreamReturns
      BY <3>1 DEF NoDisplay, StreamReturns, vvars
    <3>2. CASE StreamDies \/ JoinMonitor
      BY <3>2 DEF StreamDies, JoinMonitor, vvars
    <3>. QED BY <2>6, <3>1, <3>2
  <2>7. CASE InitCapture
    BY <2>7 DEF InitCapture, vvars
  <2>8. CASE ReleaseCapture
    BY <2>8 DEF ReleaseCapture, StopPing
  <2>9. CASE SessionReturns
    BY <2>9 DEF SessionReturns, vvars
  <2>10. CASE DisplayStep
    <3>1. CASE NoDriver
      BY <2>10, <3>1 DEF DisplayStep, NoDriver
    <3>2. CASE Open
      BY <2>10, <3>2 DEF DisplayStep, Open
    <3>3. CASE TryAgain
      BY <2>10, <3>3 DEF DisplayStep, TryAgain
    <3>4. CASE GiveUp
      BY <2>10, <3>4 DEF DisplayStep, GiveUp
    <3>5. CASE Add
      BY <2>10, <3>5 DEF DisplayStep, Add
    <3>6. CASE AddRefused
      BY <2>10, <3>6 DEF DisplayStep, AddRefused
    <3>7. CASE Found
      BY <2>10, <3>7 DEF DisplayStep, Found
    <3>8. CASE NotFound
      BY <2>10, <3>8 DEF DisplayStep, NotFound
    <3>9. CASE Activate
      BY <2>10, <3>9 DEF DisplayStep, Activate
    <3>10. CASE Remove
      BY <2>10, <3>10 DEF DisplayStep, Remove, RemoveDisplay
    <3>11. CASE Apply
      BY <2>10, <3>11 DEF DisplayStep, Apply
    <3>12. CASE JoinPing
      BY <2>10, <3>12 DEF DisplayStep, JoinPing
    <3>13. CASE Drop
      BY <2>10, <3>13 DEF DisplayStep, Drop, RemoveDisplay
    <3>14. CASE Close
      BY <2>10, <3>14 DEF DisplayStep, Close
    <3>. QED BY <2>10, <3>1, <3>2, <3>3, <3>4, <3>5, <3>6, <3>7, <3>8,
                <3>9, <3>10, <3>11, <3>12, <3>13, <3>14 DEF DisplayStep, Call
  <2>11. CASE MonitorEnds
    BY <2>11 DEF MonitorEnds, vvars
  <2>12. CASE MonitorSees
    BY <2>12 DEF MonitorSees, Present, vvars
  <2>13. CASE MonitorMisses
    BY <2>13 DEF MonitorMisses, Absent, vvars
  <2>14. CASE MonitorConfirms
    BY <2>14 DEF MonitorConfirms, Absent, vvars
  <2>15. CASE Environment
    <3>1. CASE Ping
      BY <2>15, <3>1 DEF Environment, Ping, PingLock, PingUnlock, PingExit
    <3>2. CASE DriverDrops
      BY <2>15, <3>2 DEF Environment, DriverDrops
    <3>3. CASE SystemExtends \/ OutputLeaves
      BY <2>15, <3>3 DEF Environment, SystemExtends, OutputLeaves
    <3>4. CASE OtherComes \/ OtherLeaves
      BY <2>15, <3>4 DEF Environment, OtherComes, OtherLeaves
    <3>5. CASE Exit
      BY <2>15, <3>5 DEF Environment, Exit
    <3>. QED BY <2>15, <3>1, <3>2, <3>3, <3>4, <3>5 DEF Environment, Outside
  <2>16. CASE Unplug \/ Plug
    BY <2>16 DEF Unplug, Plug, vvars
  <2>17. CASE Crash
    BY <2>17 DEF Crash
  <2>18. CASE UNCHANGED vars
    BY <2>18 DEF vars, vvars
  <2>. QED BY <2>1, <2>2, <2>3, <2>4, <2>5, <2>6, <2>7, <2>8, <2>9, <2>10, <2>11,
              <2>12, <2>13, <2>14, <2>15, <2>16, <2>17, <2>18
           DEF Next, Loop, Session, Monitor
<1>. QED BY <1>1, <1>2

LEMMA DesktopInductive ==
  /\ Init => DesktopOK
  /\ DesktopOK /\ [Next]_vars => DesktopOK'
<1>1. Init => DesktopOK
  BY DEF Init, VInit, DesktopOK, Outputs
<1>2. ASSUME DesktopOK, [Next]_vars PROVE DesktopOK'
  <2> USE <1>2 DEF DesktopOK, Outputs, owner, driver, session, monitor, cable, InSession, At
  <2>1. CASE NoDevice
    BY <2>1 DEF NoDevice, Absent, vvars
  <2>2. CASE Device
    BY <2>2 DEF Device, Present, vvars
  <2>3. CASE NoFport
    BY <2>3 DEF NoFport, vvars
  <2>4. CASE BeginSession
    BY <2>4 DEF BeginSession, BeginCreate
  <2>5. CASE Over \/ LoopEnds
    BY <2>5 DEF Over, LoopEnds, vvars
  <2>6. CASE NoDisplay \/ StreamReturns \/ StreamDies \/ JoinMonitor
    <3>1. CASE NoDisplay \/ StreamReturns
      BY <3>1 DEF NoDisplay, StreamReturns, vvars
    <3>2. CASE StreamDies \/ JoinMonitor
      BY <3>2 DEF StreamDies, JoinMonitor, vvars
    <3>. QED BY <2>6, <3>1, <3>2
  <2>7. CASE InitCapture
    BY <2>7 DEF InitCapture, vvars
  <2>8. CASE ReleaseCapture
    BY <2>8 DEF ReleaseCapture, StopPing
  <2>9. CASE SessionReturns
    BY <2>9 DEF SessionReturns, vvars
  <2>10. CASE DisplayStep
    <3>1. CASE NoDriver
      BY <2>10, <3>1 DEF DisplayStep, NoDriver
    <3>2. CASE Open
      BY <2>10, <3>2 DEF DisplayStep, Open
    <3>3. CASE TryAgain
      BY <2>10, <3>3 DEF DisplayStep, TryAgain
    <3>4. CASE GiveUp
      BY <2>10, <3>4 DEF DisplayStep, GiveUp
    <3>5. CASE Add
      BY <2>10, <3>5 DEF DisplayStep, Add
    <3>6. CASE AddRefused
      BY <2>10, <3>6 DEF DisplayStep, AddRefused
    <3>7. CASE Found
      BY <2>10, <3>7 DEF DisplayStep, Found
    <3>8. CASE NotFound
      BY <2>10, <3>8 DEF DisplayStep, NotFound
    <3>9. CASE Activate
      BY <2>10, <3>9 DEF DisplayStep, Activate
    <3>10. CASE Remove
      BY <2>10, <3>10 DEF DisplayStep, Remove, RemoveDisplay
    <3>11. CASE Apply
      BY <2>10, <3>11 DEF DisplayStep, Apply
    <3>12. CASE JoinPing
      BY <2>10, <3>12 DEF DisplayStep, JoinPing
    <3>13. CASE Drop
      BY <2>10, <3>13 DEF DisplayStep, Drop, RemoveDisplay
    <3>14. CASE Close
      BY <2>10, <3>14 DEF DisplayStep, Close
    <3>. QED BY <2>10, <3>1, <3>2, <3>3, <3>4, <3>5, <3>6, <3>7, <3>8,
                <3>9, <3>10, <3>11, <3>12, <3>13, <3>14 DEF DisplayStep, Call
  <2>11. CASE MonitorEnds
    BY <2>11 DEF MonitorEnds, vvars
  <2>12. CASE MonitorSees
    BY <2>12 DEF MonitorSees, Present, vvars
  <2>13. CASE MonitorMisses
    BY <2>13 DEF MonitorMisses, Absent, vvars
  <2>14. CASE MonitorConfirms
    BY <2>14 DEF MonitorConfirms, Absent, vvars
  <2>15. CASE Environment
    <3>1. CASE Ping
      BY <2>15, <3>1 DEF Environment, Ping, PingLock, PingUnlock, PingExit
    <3>2. CASE DriverDrops
      BY <2>15, <3>2 DEF Environment, DriverDrops
    <3>3. CASE SystemExtends \/ OutputLeaves
      BY <2>15, <3>3 DEF Environment, SystemExtends, OutputLeaves
    <3>4. CASE OtherComes \/ OtherLeaves
      BY <2>15, <3>4 DEF Environment, OtherComes, OtherLeaves
    <3>5. CASE Exit
      BY <2>15, <3>5 DEF Environment, Exit
    <3>. QED BY <2>15, <3>1, <3>2, <3>3, <3>4, <3>5 DEF Environment, Outside
  <2>16. CASE Unplug \/ Plug
    BY <2>16 DEF Unplug, Plug, vvars
  <2>17. CASE Crash
    BY <2>17 DEF Crash
  <2>18. CASE UNCHANGED vars
    BY <2>18 DEF vars, vvars
  <2>. QED BY <2>1, <2>2, <2>3, <2>4, <2>5, <2>6, <2>7, <2>8, <2>9, <2>10, <2>11,
              <2>12, <2>13, <2>14, <2>15, <2>16, <2>17, <2>18
           DEF Next, Loop, Session, Monitor
<1>. QED BY <1>1, <1>2

\* The types, for any number of attempts, plug-ins and failed probes.
THEOREM TypeCorrect == Spec => []TypeOK
<1> DEFINE IInv == FlagsOK /\ PlacesOK /\ DesktopOK
<1>1. Init => IInv
  BY FlagsInductive, PlacesInductive, DesktopInductive
<1>2. IInv /\ [Next]_vars => IInv'
  BY FlagsInductive, PlacesInductive, DesktopInductive
<1>3. IInv => TypeOK
  BY DEF FlagsOK, PlacesOK, DesktopOK, TypeOK, VTypeOK
<1>. QED BY <1>1, <1>2, <1>3, PTL DEF Spec

=============================================================================
