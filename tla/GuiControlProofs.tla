-------------------------- MODULE GuiControlProofs --------------------------
(* Proofs about GuiControl for any number of rounds of the self-healing    *)
(* loop: the lamp is red when it should be, and quitting takes the panel   *)
(* off, under the conditions QuitLeavesPanelOff names.                     *)
EXTENDS GuiControl, TLAPS

LEMMA FlagsInductive ==
  /\ Init => FlagsOK
  /\ FlagsOK /\ [Next]_vars => FlagsOK'
<1>1. Init => FlagsOK
  BY DEF Init, FlagsOK
<1>2. ASSUME FlagsOK, [Next]_vars PROVE FlagsOK'
  <2> USE <1>2 DEF FlagsOK, atomics, past
  <2>1. CASE ListTargets \/ Unforward \/ Forward \/ ListProcesses
    BY <2>1 DEF ListTargets, Unforward, Forward, ListProcesses, Call, RunCapture, Goto
  <2>2. CASE Forwarded \/ PortAlive \/ AppRunning \/ Waited \/ Window \/ RestartFails
    BY <2>2 DEF Forwarded, PortAlive, AppRunning, Waited, Window, RestartFails, Passes, Goto
  <2>3. CASE NoProcess
    BY <2>3 DEF NoProcess, CannotRun, Goto
  <2>4. CASE GivesUp
    BY <2>4 DEF GivesUp, Goto
  <2>5. CASE Attach
    BY <2>5 DEF Attach, Goto
  <2>6. CASE CheckPanel
    BY <2>6 DEF CheckPanel, Goto
  <2>7. CASE Run
    BY <2>7 DEF Run, Goto
  <2>8. CASE Hide \/ Show
    BY <2>8 DEF Hide, Show, Goto
  <2>9. CASE Round
    BY <2>9 DEF Round, Goto
  <2>10. CASE Restart
    BY <2>10 DEF Restart, Goto
  <2>11. CASE SessionEnds \/ OpenFails
    BY <2>11 DEF SessionEnds, OpenFails, MirrorReturns, Goto
  <2>12. CASE Ended
    BY <2>12 DEF Ended, Goto
  <2>13. CASE Restore
    BY <2>13 DEF Restore, TakeOff, Goto
  <2>14. CASE Finish
    BY <2>14 DEF Finish, Goto
  <2>15. CASE Throw
    BY <2>15 DEF Throw, Abandoned, Goto
  <2>16. CASE Start \/ Spawn
    <3>1. CASE Start
      BY <3>1 DEF Start
    <3>2. CASE Spawn
      BY <3>2 DEF Spawn
    <3>. QED BY <2>16, <3>1, <3>2
  <2>17. CASE Stop \/ Quit \/ ToggleWindow
    <3>1. CASE Stop
      BY <3>1 DEF Stop, Joinable
    <3>2. CASE Quit
      BY <3>2 DEF Quit, Joinable
    <3>3. CASE ToggleWindow
      BY <3>3 DEF ToggleWindow, Joinable
    <3>. QED BY <2>17, <3>1, <3>2, <3>3
  <2>18. CASE Joined
    BY <2>18 DEF Joined, TakeOff
  <2>19. CASE PanelComes
    BY <2>19 DEF PanelComes
  <2>20. CASE HdcStep
    BY <2>20 DEF HdcStep, Hdc, ChildWrites, ChildWaited, TimedOut, Returns, HeirEnds
  <2>21. CASE UNCHANGED vars
    BY <2>21 DEF vars
  <2>. QED BY <2>1, <2>2, <2>3, <2>4, <2>5, <2>6, <2>7, <2>8, <2>9, <2>10, <2>11,
              <2>12, <2>13, <2>14, <2>15, <2>16, <2>17, <2>18, <2>19, <2>20, <2>21
           DEF Next, Worker, WorkerStep, User
<1>. QED BY <1>1, <1>2

LEMMA HdcInductive ==
  /\ Init => HTypeOK
  /\ HTypeOK /\ [Next]_vars => HTypeOK'
<1>1. Init => HTypeOK
  BY DEF Init, HInit, HTypeOK
<1>2. ASSUME HTypeOK, [Next]_vars PROVE HTypeOK'
  <2> USE <1>2 DEF HTypeOK, hvars
  <2>1. CASE ListTargets \/ Unforward \/ Forward \/ ListProcesses
    BY <2>1 DEF ListTargets, Unforward, Forward, ListProcesses, Call, RunCapture, Goto
  <2>2. CASE Forwarded \/ PortAlive \/ AppRunning \/ Waited \/ Window \/ RestartFails
    BY <2>2 DEF Forwarded, PortAlive, AppRunning, Waited, Window, RestartFails, Passes, Goto
  <2>3. CASE NoProcess
    BY <2>3 DEF NoProcess, CannotRun, Goto
  <2>4. CASE GivesUp
    BY <2>4 DEF GivesUp, Goto
  <2>5. CASE Attach
    BY <2>5 DEF Attach, Goto
  <2>6. CASE CheckPanel
    BY <2>6 DEF CheckPanel, Goto
  <2>7. CASE Run
    BY <2>7 DEF Run, Goto
  <2>8. CASE Hide \/ Show
    BY <2>8 DEF Hide, Show, Goto
  <2>9. CASE Round
    BY <2>9 DEF Round, Goto
  <2>10. CASE Restart
    BY <2>10 DEF Restart, Goto
  <2>11. CASE SessionEnds \/ OpenFails
    BY <2>11 DEF SessionEnds, OpenFails, MirrorReturns, Goto
  <2>12. CASE Ended
    BY <2>12 DEF Ended, Goto
  <2>13. CASE Restore
    BY <2>13 DEF Restore, TakeOff, Goto
  <2>14. CASE Finish
    BY <2>14 DEF Finish, Goto
  <2>15. CASE Throw
    BY <2>15 DEF Throw, Abandoned, Goto
  <2>16. CASE Start \/ Spawn
    BY <2>16 DEF Start, Spawn
  <2>17. CASE Stop \/ Quit \/ ToggleWindow
    BY <2>17 DEF Stop, Quit, ToggleWindow, Joinable
  <2>18. CASE Joined
    BY <2>18 DEF Joined, TakeOff
  <2>19. CASE PanelComes
    BY <2>19 DEF PanelComes
  <2>20. CASE HdcStep
    BY <2>20 DEF HdcStep, Hdc, ChildWrites, ChildWaited, TimedOut, Returns, HeirEnds
  <2>21. CASE UNCHANGED vars
    BY <2>21 DEF vars
  <2>. QED BY <2>1, <2>2, <2>3, <2>4, <2>5, <2>6, <2>7, <2>8, <2>9, <2>10, <2>11,
              <2>12, <2>13, <2>14, <2>15, <2>16, <2>17, <2>18, <2>19, <2>20, <2>21
           DEF Next, Worker, WorkerStep, User
<1>. QED BY <1>1, <1>2

\* The self-healing loop is left after MaxAttempts rounds.
InRound ==
  worker \in {"open", "rm2", "fport2", "session", "restart"} => attempt < MaxAttempts

PlacesOK ==
  /\ ui \in {"idle", "starting", "stopping", "quitting", "gone"}
  /\ worker \in {"none", "device", "list", "rm", "fport", "port", "ps", "attach",
                 "wait", "check", "run", "hide", "loop", "open", "rm2", "fport2",
                 "session", "restart", "ended", "restore", "finish", "window", "show", "end"}
  /\ attempt \in 0..MaxAttempts
  /\ panel \in {"off", "coming", "on"}

LEMMA PlacesInductive ==
  /\ Init => PlacesOK /\ InRound
  /\ PlacesOK /\ InRound /\ [Next]_vars => (PlacesOK /\ InRound)'
<1> USE GuiAssumption DEF GuiAssumption
<1>1. Init => PlacesOK /\ InRound
  BY DEF Init, PlacesOK, InRound
<1>2. ASSUME PlacesOK, InRound, [Next]_vars PROVE (PlacesOK /\ InRound)'
  <2> USE <1>2 DEF PlacesOK, InRound
  <2>1. CASE ListTargets \/ Unforward \/ Forward \/ ListProcesses
    BY <2>1 DEF ListTargets, Unforward, Forward, ListProcesses, Call, RunCapture, Goto
  <2>2. CASE Forwarded \/ PortAlive \/ AppRunning \/ Waited \/ Window \/ RestartFails
    BY <2>2 DEF Forwarded, PortAlive, AppRunning, Waited, Window, RestartFails, Passes, Goto
  <2>3. CASE NoProcess
    BY <2>3 DEF NoProcess, CannotRun, Goto
  <2>4. CASE GivesUp
    BY <2>4 DEF GivesUp, Goto
  <2>5. CASE Attach
    BY <2>5 DEF Attach, Goto
  <2>6. CASE CheckPanel
    BY <2>6 DEF CheckPanel, Goto
  <2>7. CASE Run
    BY <2>7 DEF Run, Goto
  <2>8. CASE Hide \/ Show
    BY <2>8 DEF Hide, Show, Goto
  <2>9. CASE Round
    BY <2>9 DEF Round, Goto
  <2>10. CASE Restart
    BY <2>10 DEF Restart, Goto
  <2>11. CASE SessionEnds \/ OpenFails
    BY <2>11 DEF SessionEnds, OpenFails, MirrorReturns, Goto
  <2>12. CASE Ended
    BY <2>12 DEF Ended, Goto
  <2>13. CASE Restore
    BY <2>13 DEF Restore, TakeOff, Goto
  <2>14. CASE Finish
    BY <2>14 DEF Finish, Goto
  <2>15. CASE Throw
    BY <2>15 DEF Throw, Abandoned, Goto
  <2>16. CASE Start \/ Spawn
    BY <2>16 DEF Start, Spawn
  <2>17. CASE Stop \/ Quit \/ ToggleWindow
    BY <2>17 DEF Stop, Quit, ToggleWindow, Joinable
  <2>18. CASE Joined
    BY <2>18 DEF Joined, TakeOff
  <2>19. CASE PanelComes
    BY <2>19 DEF PanelComes
  <2>20. CASE HdcStep
    BY <2>20 DEF HdcStep, Hdc, ChildWrites, ChildWaited, TimedOut, Returns, HeirEnds
  <2>21. CASE UNCHANGED vars
    BY <2>21 DEF vars
  <2>. QED BY <2>1, <2>2, <2>3, <2>4, <2>5, <2>6, <2>7, <2>8, <2>9, <2>10, <2>11,
              <2>12, <2>13, <2>14, <2>15, <2>16, <2>17, <2>18, <2>19, <2>20, <2>21
           DEF Next, Worker, WorkerStep, User
<1>. QED BY <1>1, <1>2

\* In every reachable state each variable has its type, and the attempts stay
\* within their bound.
THEOREM TypeCorrect == Spec => []TypeOK
<1> DEFINE IInv == FlagsOK /\ HTypeOK /\ PlacesOK /\ InRound
<1>1. Init => IInv
  BY FlagsInductive, HdcInductive, PlacesInductive
<1>2. IInv /\ [Next]_vars => IInv'
  BY FlagsInductive, HdcInductive, PlacesInductive
<1>3. IInv => TypeOK
  BY DEF PlacesOK, TypeOK
<1>. QED BY <1>1, <1>2, <1>3, PTL DEF Spec

-----------------------------------------------------------------------------
\* A worker at work makes the button busy; a new one is started only when the
\* last one is at its end; and running, unless an exception has left it set,
\* belongs to a worker between Run and Ended.
Idle == {"none", "window", "show", "end"}
Streaming == {"hide", "loop", "open", "rm2", "fport2", "session", "restart", "ended"}

Lamp ==
  /\ ui = "starting" => busy /\ worker \in Idle
  /\ worker \notin Idle => busy
  /\ running /\ ~thrown => worker \in Streaming

LEMMA LampInductive ==
  /\ Init => Lamp
  /\ FlagsOK /\ Lamp /\ [Next]_vars => Lamp'
<1>1. Init => Lamp
  BY DEF Init, Lamp, Idle, Streaming
<1>2. ASSUME FlagsOK, Lamp, [Next]_vars PROVE Lamp'
  <2> USE <1>2 DEF FlagsOK, Lamp, Idle, Streaming, atomics, past
  <2>1. CASE ListTargets \/ Unforward \/ Forward \/ ListProcesses
    BY <2>1 DEF ListTargets, Unforward, Forward, ListProcesses, Call, RunCapture, Goto
  <2>2. CASE Forwarded \/ PortAlive \/ AppRunning \/ Waited \/ Window \/ RestartFails
    BY <2>2 DEF Forwarded, PortAlive, AppRunning, Waited, Window, RestartFails, Passes, Goto
  <2>3. CASE NoProcess
    BY <2>3 DEF NoProcess, CannotRun, Goto
  <2>4. CASE GivesUp
    BY <2>4 DEF GivesUp, Goto
  <2>5. CASE Attach
    BY <2>5 DEF Attach, Goto
  <2>6. CASE CheckPanel
    BY <2>6 DEF CheckPanel, Goto
  <2>7. CASE Run
    BY <2>7 DEF Run, Goto
  <2>8. CASE Hide \/ Show
    BY <2>8 DEF Hide, Show, Goto
  <2>9. CASE Round
    BY <2>9 DEF Round, Goto
  <2>10. CASE Restart
    BY <2>10 DEF Restart, Goto
  <2>11. CASE SessionEnds \/ OpenFails
    BY <2>11 DEF SessionEnds, OpenFails, MirrorReturns, Goto
  <2>12. CASE Ended
    BY <2>12 DEF Ended, Goto
  <2>13. CASE Restore
    BY <2>13 DEF Restore, TakeOff, Goto
  <2>14. CASE Finish
    BY <2>14 DEF Finish, Goto
  <2>15. CASE Throw
    BY <2>15 DEF Throw, Abandoned, Goto
  <2>16. CASE Start \/ Spawn
    BY <2>16 DEF Start, Spawn
  <2>17. CASE Stop \/ Quit \/ ToggleWindow
    BY <2>17 DEF Stop, Quit, ToggleWindow, Joinable
  <2>18. CASE Joined
    BY <2>18 DEF Joined, TakeOff
  <2>19. CASE PanelComes
    BY <2>19 DEF PanelComes
  <2>20. CASE HdcStep
    BY <2>20 DEF HdcStep, Hdc, ChildWrites, ChildWaited, TimedOut, Returns, HeirEnds
  <2>21. CASE UNCHANGED vars
    BY <2>21 DEF vars
  <2>. QED BY <2>1, <2>2, <2>3, <2>4, <2>5, <2>6, <2>7, <2>8, <2>9, <2>10, <2>11,
              <2>12, <2>13, <2>14, <2>15, <2>16, <2>17, <2>18, <2>19, <2>20, <2>21
           DEF Next, Worker, WorkerStep, User
<1>. QED BY <1>1, <1>2

\* When the button offers to start, the lamp is red: busy is cleared only
\* after running is, or when the worker never came to set it.
THEOREM LampIsTrue == Spec => []GreenMeansStreaming
<1>1. Init => FlagsOK /\ Lamp
  BY FlagsInductive, LampInductive
<1>2. FlagsOK /\ Lamp /\ [Next]_vars => (FlagsOK /\ Lamp)'
  BY FlagsInductive, LampInductive
<1>3. ASSUME Lamp, ui = "idle", ~busy, ~thrown PROVE ~running
  <2>1. worker \in {"none", "window", "show", "end"}
    BY <1>3 DEF Lamp, Idle
  <2>2. worker \notin Streaming
    BY <2>1 DEF Streaming
  <2>. QED BY <1>3, <2>2 DEF Lamp
<1>4. Lamp => GreenMeansStreaming
  BY <1>3 DEF GreenMeansStreaming
<1>. QED BY <1>1, <1>2, <1>4, PTL DEF Spec

-----------------------------------------------------------------------------
\* A panel the program has put on the desktop is off again, or didExtend says
\* that it must be taken off, or the worker is between the two; and didExtend
\* outlives a worker that has ended by an exception, until it is joined.
Owed ==
  /\ attached /\ ~restarted /\ ~missed /\ ~refused
       => panel = "off" \/ didExtend \/ worker \in {"wait", "check"}
  /\ worker = "none" => ~didExtend
  /\ ui = "gone" => worker = "none"

LEMMA OwedInductive ==
  /\ Init => Owed
  /\ FlagsOK /\ Owed /\ [Next]_vars => Owed'
<1>1. Init => Owed
  BY DEF Init, Owed
<1>2. ASSUME FlagsOK, Owed, [Next]_vars PROVE Owed'
  <2> USE <1>2 DEF FlagsOK, Owed, atomics, past
  <2>1. CASE ListTargets \/ Unforward \/ Forward \/ ListProcesses
    BY <2>1 DEF ListTargets, Unforward, Forward, ListProcesses, Call, RunCapture, Goto
  <2>2. CASE Forwarded \/ PortAlive \/ AppRunning \/ Waited \/ Window \/ RestartFails
    BY <2>2 DEF Forwarded, PortAlive, AppRunning, Waited, Window, RestartFails, Passes, Goto
  <2>3. CASE NoProcess
    BY <2>3 DEF NoProcess, CannotRun, Goto
  <2>4. CASE GivesUp
    BY <2>4 DEF GivesUp, Goto
  <2>5. CASE Attach
    BY <2>5 DEF Attach, Goto
  <2>6. CASE CheckPanel
    BY <2>6 DEF CheckPanel, Goto
  <2>7. CASE Run
    BY <2>7 DEF Run, Goto
  <2>8. CASE Hide \/ Show
    BY <2>8 DEF Hide, Show, Goto
  <2>9. CASE Round
    BY <2>9 DEF Round, Goto
  <2>10. CASE Restart
    BY <2>10 DEF Restart, Goto
  <2>11. CASE SessionEnds \/ OpenFails
    BY <2>11 DEF SessionEnds, OpenFails, MirrorReturns, Goto
  <2>12. CASE Ended
    BY <2>12 DEF Ended, Goto
  <2>13. CASE Restore
    BY <2>13 DEF Restore, TakeOff, Goto
  <2>14. CASE Finish
    BY <2>14 DEF Finish, Goto
  <2>15. CASE Throw
    BY <2>15 DEF Throw, Abandoned, Goto
  <2>16. CASE Start \/ Spawn
    BY <2>16 DEF Start, Spawn
  <2>17. CASE Stop \/ Quit \/ ToggleWindow
    BY <2>17 DEF Stop, Quit, ToggleWindow, Joinable
  <2>18. CASE Joined
    BY <2>18 DEF Joined, TakeOff
  <2>19. CASE PanelComes
    BY <2>19 DEF PanelComes
  <2>20. CASE HdcStep
    BY <2>20 DEF HdcStep, Hdc, ChildWrites, ChildWaited, TimedOut, Returns, HeirEnds
  <2>21. CASE UNCHANGED vars
    BY <2>21 DEF vars
  <2>. QED BY <2>1, <2>2, <2>3, <2>4, <2>5, <2>6, <2>7, <2>8, <2>9, <2>10, <2>11,
              <2>12, <2>13, <2>14, <2>15, <2>16, <2>17, <2>18, <2>19, <2>20, <2>21
           DEF Next, Worker, WorkerStep, User
<1>. QED BY <1>1, <1>2

\* When the program has quit, the panel it has put on the desktop is off,
\* whatever ended its workers: the join looks at didExtend a second time.
THEOREM QuitIsClean == Spec => []QuitLeavesPanelOff
<1>1. Init => FlagsOK /\ Owed
  BY FlagsInductive, OwedInductive
<1>2. FlagsOK /\ Owed /\ [Next]_vars => (FlagsOK /\ Owed)'
  BY FlagsInductive, OwedInductive
<1>3. Owed => QuitLeavesPanelOff
  BY DEF Owed, QuitLeavesPanelOff
<1>. QED BY <1>1, <1>2, <1>3, PTL DEF Spec

=============================================================================
