------------------------------- MODULE HdcCalls -------------------------------
(***************************************************************************)
(* How the Windows sender runs hdc (RunCapture in subscreen_sender.cpp):   *)
(* one call at a time, with a pipe for the output.  The process is waited  *)
(* for first, with a time limit, and the pipe is read afterwards, until    *)
(* nobody holds its other end any more.  A child that writes more than the *)
(* pipe holds does not end by itself; and hdc may have started a process   *)
(* of its own (its server) that has inherited the pipe.                    *)
(***************************************************************************)
EXTENDS Naturals

VARIABLES
  run,      \* RunCapture: "none", "wait" (for the process), "read"
  child,    \* external: the process, "none", "running", "full", "ended"
  heir,     \* external: a process that hdc has started holds the pipe
  finished  \* RunCapture's result

hvars == <<run, child, heir, finished>>

HInit == run = "none" /\ child = "none" /\ heir = FALSE /\ finished = FALSE

RunCapture ==
  /\ run = "none" /\ run' = "wait"
  /\ child' = "running" /\ heir' = FALSE /\ finished' = FALSE

\* No pipe or no process.
CannotRun == run = "none" /\ finished' = FALSE /\ UNCHANGED <<run, child, heir>>

\* The process writes, and ends or is stuck.
ChildWrites ==
  /\ child = "running" /\ child' \in {"ended", "full"} /\ heir' \in BOOLEAN
  /\ UNCHANGED <<run, finished>>

ChildWaited ==
  /\ run = "wait" /\ child = "ended"
  /\ run' = "read" /\ finished' = TRUE
  /\ UNCHANGED <<child, heir>>

\* Slip: no time limit.
TimedOutNever ==
  /\ run = "wait" /\ child = "none" /\ UNCHANGED hvars

\* The time limit: the process is ended, not those it has started.
TimedOut ==
  /\ run = "wait" /\ child \in {"running", "full"}
  /\ child' = "ended" /\ run' = "read"
  /\ UNCHANGED <<heir, finished>>

HeirEnds == heir /\ heir' = FALSE /\ UNCHANGED <<run, child, finished>>

\* The pipe is at its end, and RunCapture returns.
Returns ==
  /\ run = "read" /\ ~heir /\ run' = "none" /\ child' = "none"
  /\ UNCHANGED <<heir, finished>>

\* An exception leaves RunCapture.
Abandoned == run' = "none" /\ child' = "none" /\ heir' = FALSE /\ UNCHANGED finished

HTypeOK ==
  /\ run \in {"none", "wait", "read"} /\ child \in {"none", "running", "full", "ended"}
  /\ heir \in BOOLEAN /\ finished \in BOOLEAN

=============================================================================
