----------------------------- MODULE GuiControl -----------------------------
(***************************************************************************)
(* The control window of the Windows sender (subscreen_sender.cpp): the    *)
(* user-interface thread handles the button and the tray menu, a worker    *)
(* thread checks the tablet, attaches the notebook's panel to the desktop, *)
(* streams session after session and detaches the panel again.             *)
(*                                                                         *)
(* A session (RunMirrorSession, see StreamSession) ends by itself or, here *)
(* without fail, after a stop request.  A window call from the worker      *)
(* (ShowWindow) is answered by the user-interface thread, so it waits      *)
(* while that thread sits in join().  RestartProcess replaces the process  *)
(* by one that starts streaming on its own; what it does not replace is    *)
(* the display topology.  The calls of hdc are the module HdcCalls.        *)
(***************************************************************************)
EXTENDS HdcCalls

CONSTANT MaxAttempts  \* rounds of the self-healing loop, 50 in the code

ASSUME GuiAssumption == MaxAttempts \in Nat \ {0}

VARIABLES
  ui,         \* "idle" (in the message loop), "starting", "stopping",
              \* "quitting" (the three joins), "gone"
  worker,     \* "none", "device", the calls "list", "rm", "fport" and "ps" of
              \* hdc with "port" (TcpPortAlive) among them, "attach", "wait",
              \* "check", "run", "hide", "loop", "open" (RunMirrorSession, up to
              \* its hdc calls "rm2" and "fport2"), "session", "restart", "ended",
              \* "restore", "finish", "window", "show", "end" (returned, not joined)
  stop, busy, didExtend, running,   \* the atomics of GuiRuntime
  wasStop,    \* GuiWorker's wasStop
  attempt,    \* GuiWorker's attempt
  visible,    \* the window is visible
  panel,      \* external: the panel is "off", "coming" (the topology change
              \* takes effect later) or "on"
  attached,   \* history: the program has put the panel on the desktop, or
              \* streamed from it
  missed,     \* history: the worker ended before the panel came
  refused,    \* history: Windows has refused to take the panel off
  thrown,     \* history: an exception has ended a worker since Ended
  restarted   \* history: the process has been replaced

atomics == <<stop, busy, didExtend, running>>
past == <<attached, missed, refused, thrown, restarted>>
vars == <<ui, worker, atomics, wasStop, attempt, visible, panel, past, hvars>>

Init ==
  /\ ui = "idle" /\ worker = "none"
  /\ stop = FALSE /\ busy = FALSE /\ didExtend = FALSE /\ running = FALSE
  /\ wasStop = FALSE /\ attempt = 0 /\ visible = TRUE
  /\ panel \in {"off", "on"} /\ attached = FALSE /\ missed = FALSE /\ refused = FALSE
  /\ thrown = FALSE /\ restarted = FALSE /\ HInit

-----------------------------------------------------------------------------
(* The worker: GuiWorker.                                                  *)

Goto(from, to) == ui # "gone" /\ worker = from /\ worker' = to

Passes(from, to) ==
  /\ Goto(from, to)
  /\ UNCHANGED <<ui, atomics, wasStop, attempt, visible, panel, past, hvars>>

Call(from, to) ==
  /\ Goto(from, to) /\ RunCapture
  /\ UNCHANGED <<ui, atomics, wasStop, attempt, visible, panel, past>>

\* The tablet is plugged in: HdcDevicePresent.
ListTargets == Call("device", "list")

\* EnsureFport forwards the port anew, before the check and for each session;
\* its two calls may fail.
Unforward == \/ finished /\ run = "none" /\ Call("list", "rm")
             \/ Call("open", "rm2")
Forward == run = "none" /\ (Call("rm", "fport") \/ Call("rm2", "fport2"))
Forwarded == run = "none" /\ (Passes("fport", "port") \/ Passes("fport2", "session"))

\* The application answers, six attempts cut short by a stop; if it does not,
\* HdcAppRunning looks for its process.
PortAlive == Passes("port", "attach")
ListProcesses == Call("port", "ps")
AppRunning == finished /\ run = "none" /\ Passes("ps", "attach")

\* CreateProcess fails: the call is over, without a result.
NoProcess ==
  /\ worker \in {"device", "list", "rm", "port", "open", "rm2"}
  /\ worker = "list" => finished
  /\ CannotRun
  /\ Goto(worker, CASE worker = "device" -> "list" [] worker = "list" -> "rm"
                     [] worker = "rm" -> "fport" [] worker = "port" -> "ps"
                     [] worker = "open" -> "rm2" [] worker = "rm2" -> "fport2")
  /\ UNCHANGED <<ui, atomics, wasStop, attempt, visible, panel, past>>

\* A check fails and the worker returns at once.
GivesUp ==
  /\ worker \in {"device", "list", "ps", "attach"} /\ run = "none" /\ Goto(worker, "end")
  /\ worker = "attach" => panel # "on"
  /\ busy' = FALSE
  /\ UNCHANGED <<ui, stop, didExtend, running, wasStop, attempt, visible, panel, past, hvars>>

\* The panel is attached, by itself or by extending the whole desktop; the
\* change takes effect later.
Attach ==
  /\ Goto("attach", IF panel = "on" THEN "check" ELSE "wait")
  /\ panel' = IF panel = "off" THEN "coming" ELSE panel
  /\ attached' = TRUE
  /\ UNCHANGED <<ui, atomics, wasStop, attempt, visible, missed, refused, thrown, restarted, hvars>>

\* The wait ends with the panel there, with a stop request, or after 6 s.
Waited == Passes("wait", "check")

CheckPanel ==
  /\ Goto("check", IF panel = "on" THEN "run" ELSE "end")
  /\ didExtend' = (didExtend \/ panel = "on")
  /\ missed' = (panel # "on") /\ refused' = (refused /\ panel # "on")
  /\ busy' = (busy /\ panel = "on")
  /\ UNCHANGED <<ui, stop, running, wasStop, attempt, visible, panel, attached, thrown, restarted, hvars>>

Run ==
  /\ Goto("run", IF visible THEN "hide" ELSE "loop")
  /\ running' = TRUE /\ attempt' = 0
  /\ UNCHANGED <<ui, stop, busy, didExtend, wasStop, visible, panel, past, hvars>>

\* ShowWindow(SW_HIDE).
Hide ==
  /\ Goto("hide", "loop") /\ ui = "idle"
  /\ visible' = FALSE
  /\ UNCHANGED <<ui, atomics, wasStop, attempt, panel, past, hvars>>

\* The self-healing loop ends, starts a session, or turns to RestartProcess.
Round ==
  /\ \/ Goto("loop", IF stop \/ attempt >= MaxAttempts THEN "ended" ELSE "open")
     \/ ~stop /\ attempt < MaxAttempts /\ Goto("loop", "restart")
  /\ UNCHANGED <<ui, atomics, wasStop, attempt, visible, panel, past, hvars>>

\* RestartProcess, also called inside a session: a new process with
\* --gui-autostart, this one exits, whatever its user-interface thread does ...
Restart ==
  /\ restarted' = TRUE
  /\ Goto("restart", "device") \/ Goto("session", "device")
  /\ ui' = "idle" /\ visible' = TRUE
  /\ stop' = FALSE /\ busy' = TRUE /\ didExtend' = FALSE /\ running' = FALSE
  /\ wasStop' = FALSE /\ attempt' = 0 /\ thrown' = FALSE
  /\ UNCHANGED <<panel, attached, missed, refused, hvars>>

\* ... or no process can be created, and the loop is left (a session goes on).
RestartFails == Passes("restart", "ended")

\* RunMirrorSession returns ...
MirrorReturns(from) ==
  /\ Goto(from, IF stop THEN "ended" ELSE "loop")
  /\ attempt' = IF stop THEN attempt ELSE attempt + 1
  /\ UNCHANGED <<ui, atomics, wasStop, visible, panel, past, hvars>>

\* ... when its session is over, or at once if the capture cannot be set up.
SessionEnds == MirrorReturns("session")
OpenFails == MirrorReturns("open")

\* Slip: the tray lamp stays green.
EndedKeepsRunning ==
  /\ Goto("ended", "restore") /\ wasStop' = stop /\ thrown' = FALSE
  /\ UNCHANGED <<ui, atomics, attempt, visible, panel, attached, missed, refused, restarted, hvars>>

Ended ==
  /\ Goto("ended", "restore")
  /\ running' = FALSE /\ wasStop' = stop /\ thrown' = FALSE
  /\ UNCHANGED <<ui, stop, busy, didExtend, attempt, visible, panel, attached, missed, refused, restarted, hvars>>

\* The panel leaves the desktop, if Windows agrees; it is not tried again.
TakeOff ==
  /\ didExtend' = FALSE
  /\ IF didExtend THEN \/ panel' = "off" /\ UNCHANGED refused
                       \/ panel' = panel /\ refused' = TRUE
     ELSE UNCHANGED <<panel, refused>>

Restore ==
  /\ Goto("restore", "finish") /\ TakeOff
  /\ UNCHANGED <<ui, stop, busy, running, wasStop, attempt, visible, attached, missed, thrown, restarted, hvars>>

Finish ==
  /\ Goto("finish", "window")
  /\ busy' = FALSE
  /\ UNCHANGED <<ui, stop, didExtend, running, wasStop, attempt, visible, panel, past, hvars>>

\* After a stop only a balloon; after an abnormal end the window comes back.
Window == Passes("window", IF visible \/ wasStop THEN "end" ELSE "show")

\* GuiShowWindow.
Show ==
  /\ Goto("show", "end") /\ ui = "idle"
  /\ visible' = TRUE
  /\ UNCHANGED <<ui, atomics, wasStop, attempt, panel, past, hvars>>

\* The trampoline swallows the exception, and that is all it does.
Throw ==
  /\ worker \notin {"none", "end", "hide", "show"} /\ Goto(worker, "end")
  /\ thrown' = TRUE /\ missed' = (missed \/ worker \in {"wait", "check"})
  /\ Abandoned
  /\ UNCHANGED <<ui, atomics, wasStop, attempt, visible, panel, attached, refused, restarted>>

-----------------------------------------------------------------------------
(* The user-interface thread.                                              *)

Joinable == worker # "none"

\* GuiStart: the previous worker, if any, is joined before a new one starts.
Start ==
  /\ ui = "idle" /\ ~busy
  /\ stop' = FALSE /\ busy' = TRUE /\ ui' = "starting"
  /\ UNCHANGED <<worker, didExtend, running, wasStop, attempt, visible, panel, past, hvars>>

Spawn ==
  /\ ui = "starting" /\ worker \in {"none", "end"}
  /\ worker' = "device" /\ ui' = "idle"
  /\ UNCHANGED <<atomics, wasStop, attempt, visible, panel, past, hvars>>

\* GuiStopAndRestore, from the button or the tray menu while busy ...
Stop ==
  /\ ui = "idle" /\ busy /\ Joinable
  /\ stop' = TRUE /\ ui' = "stopping"
  /\ UNCHANGED <<worker, busy, didExtend, running, wasStop, attempt, visible, panel, past, hvars>>

\* ... or from GuiQuit, which goes on to destroy the window.
Quit ==
  /\ ui = "idle"
  /\ stop' = (stop \/ Joinable)
  /\ ui' = IF Joinable THEN "quitting" ELSE "gone"
  /\ UNCHANGED <<worker, busy, didExtend, running, wasStop, attempt, visible, panel, past, hvars>>

\* Slip: no second look at didExtend after the join.
JoinedNoRestore ==
  /\ ui \in {"stopping", "quitting"} /\ worker = "end"
  /\ worker' = "none" /\ stop' = FALSE /\ busy' = FALSE
  /\ ui' = IF ui = "quitting" THEN "gone" ELSE "idle"
  /\ UNCHANGED <<didExtend, running, wasStop, attempt, visible, panel, past, hvars>>

\* After the join; the panel is detached here if the worker did not get to it.
Joined ==
  /\ ui \in {"stopping", "quitting"} /\ worker = "end"
  /\ worker' = "none" /\ stop' = FALSE /\ busy' = FALSE
  /\ TakeOff
  /\ ui' = IF ui = "quitting" THEN "gone" ELSE "idle"
  /\ UNCHANGED <<running, wasStop, attempt, visible, attached, missed, thrown, restarted, hvars>>

\* WM_CLOSE hides the window, the tray icon brings it back.
ToggleWindow ==
  /\ ui = "idle"
  /\ visible' = ~visible
  /\ UNCHANGED <<ui, worker, atomics, wasStop, attempt, panel, past, hvars>>

-----------------------------------------------------------------------------
\* The topology change takes effect.
PanelComes ==
  /\ panel = "coming" /\ panel' = "on"
  /\ UNCHANGED <<ui, worker, atomics, wasStop, attempt, visible, past, hvars>>

Hdc(step) == step /\ UNCHANGED <<ui, worker, atomics, wasStop, attempt, visible, panel, past>>

HdcStep == Hdc(ChildWrites) \/ Hdc(ChildWaited) \/ Hdc(TimedOut) \/ Hdc(Returns) \/ Hdc(HeirEnds)

WorkerStep ==
  \/ ListTargets \/ Unforward \/ Forward \/ Forwarded \/ PortAlive \/ ListProcesses
  \/ AppRunning \/ GivesUp \/ Attach
  \/ Waited \/ CheckPanel \/ Run \/ Hide \/ Round \/ Ended \/ Restore \/ Finish
  \/ Window \/ Show

Worker == WorkerStep \/ NoProcess \/ SessionEnds \/ OpenFails \/ Restart \/ RestartFails \/ Throw

User == Start \/ Stop \/ Quit \/ ToggleWindow

Next == Worker \/ User \/ Spawn \/ Joined \/ PanelComes \/ HdcStep

\* The threads go on when they can; a session answers a stop request (with
\* the exceptions StreamSession shows); the display change takes effect.  A
\* call's time limit is reached, but what hdc has started may live for ever.
Fairness ==
  /\ WF_vars(WorkerStep) /\ WF_vars(SessionEnds /\ stop)
  /\ WF_vars(worker = "restart" /\ (Restart \/ RestartFails))
  /\ WF_vars(Spawn) /\ WF_vars(Joined) /\ WF_vars(PanelComes)
  /\ WF_vars(Hdc(ChildWaited)) /\ WF_vars(Hdc(TimedOut)) /\ WF_vars(Hdc(Returns))

Spec == Init /\ [][Next]_vars /\ Fairness

-----------------------------------------------------------------------------
FlagsOK ==
  /\ stop \in BOOLEAN /\ busy \in BOOLEAN /\ didExtend \in BOOLEAN /\ running \in BOOLEAN
  /\ wasStop \in BOOLEAN /\ visible \in BOOLEAN
  /\ attached \in BOOLEAN /\ missed \in BOOLEAN /\ refused \in BOOLEAN
  /\ thrown \in BOOLEAN /\ restarted \in BOOLEAN

TypeOK ==
  /\ FlagsOK /\ HTypeOK
  /\ ui \in {"idle", "starting", "stopping", "quitting", "gone"}
  /\ worker \in {"none", "device", "list", "rm", "fport", "port", "ps", "attach",
                 "wait", "check", "run", "hide", "loop", "open", "rm2", "fport2",
                 "session", "restart", "ended", "restore", "finish", "window", "show", "end"}
  /\ attempt \in 0..MaxAttempts
  /\ panel \in {"off", "coming", "on"}

\* "The tray icon is a lamp: green is streaming, red is not": when the button
\* offers to start, no stream is running and the lamp is red.  A worker ended
\* by an exception leaves it green until the next one ends.
GreenMeansStreaming == (ui = "idle" /\ ~busy /\ ~thrown) => ~running

\* "On stop or exit the computer is back on its single screen": when the
\* program has quit, no panel is left on the desktop that it has put there or
\* streamed from, however many starts and stops there were and whatever ended
\* them, an exception included.  Not provided for: a process restart, which
\* loses didExtend; a panel that comes after the worker has looked for the last
\* time (a stop during the wait is enough); Windows refusing to take it off.
QuitLeavesPanelOff ==
  (ui = "gone" /\ attached /\ ~restarted /\ ~missed /\ ~refused) => panel = "off"

\* The only things a join of the user-interface thread can wait for in vain
\* are a worker that waits for the user-interface thread, and one that reads
\* the output of hdc while a process that hdc has started holds the pipe.
JoinsReturnUnlessWindowCall ==
  ui \in {"starting", "stopping", "quitting"}
    ~> (ui \in {"idle", "gone"} \/ worker \in {"hide", "show"} \/ heir)

=============================================================================
