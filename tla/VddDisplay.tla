----------------------------- MODULE VddDisplay -----------------------------
(***************************************************************************)
(* The virtual display of the Windows sender (VddDisplay): Create adds a   *)
(* display to the Parsec driver, waits for it on the desktop and tries     *)
(* again; a thread pings the driver meanwhile, which drops the display     *)
(* otherwise; Cleanup takes everything back.                               *)
(*                                                                         *)
(* The mutex io_ is taken for every call of the driver.  The ping thread   *)
(* sleeps with io_ in hand and asks for it again at once.                  *)
(***************************************************************************)
EXTENDS Naturals

CONSTANTS MaxAttempt,   \* kMaxAttempt, 3 in the code
          MayOther      \* whether other screens come and go

ASSUME DisplayAssumption == MaxAttempt \in Nat \ {0} /\ MayOther \in BOOLEAN

Outputs == {"main", "other", "virtual"}

VARIABLES
  create,     \* the owner in Create and Cleanup: "none", "open", "loop", "add",
              \* "wait1", "activate", "wait2", "remove", "apply", "created",
              \* "failed", "join", "drop", "close"
  attempt,    \* the loop's attempt
  added,      \* added_
  handle,     \* vdd_ is an open handle
  pingRun,    \* pingRun_
  ping,       \* the ping thread: "none", "loop", "hold" (it has io_), "done"
  before,     \* outputs of the desktop before the display was added
  out,        \* the output taken for the new display
  displays,   \* external: displays the driver has
  desktop,    \* external: the desktop's outputs
  exit        \* g_exit

owner == <<create, attempt, added, handle, pingRun, before, out>>
driver == <<displays, desktop>>
vvars == <<owner, ping, driver, exit>>

VInit ==
  /\ create = "none" /\ attempt = 1 /\ added = FALSE /\ handle = FALSE
  /\ pingRun = FALSE /\ ping = "none" /\ before = {} /\ out = "main"
  /\ displays = 0 /\ desktop \in {{"main"}, {"main"} \cup {o \in {"other"} : MayOther}}
  /\ exit = FALSE

\* io_ is free: the owner holds it within a step only.
IoFree == ping # "hold"

At(from, to) == create = from /\ create' = to

-----------------------------------------------------------------------------
(* The owner: Create.                                                      *)

BeginCreate ==
  /\ At("none", "open")
  /\ UNCHANGED <<attempt, added, handle, pingRun, before, out, ping, driver, exit>>

NoDriver ==
  /\ At("open", "failed")
  /\ UNCHANGED <<attempt, added, handle, pingRun, before, out, ping, driver, exit>>

Open ==
  /\ At("open", "loop")
  /\ handle' = TRUE /\ before' = desktop /\ attempt' = 1
  /\ pingRun' = TRUE /\ ping' = "loop"
  /\ UNCHANGED <<added, out, driver, exit>>

TryAgain ==
  /\ At("loop", "add") /\ attempt =< MaxAttempt /\ ~exit
  /\ UNCHANGED <<attempt, added, handle, pingRun, before, out, ping, driver, exit>>

GiveUp ==
  /\ At("loop", "failed") /\ (attempt > MaxAttempt \/ exit)
  /\ UNCHANGED <<attempt, added, handle, pingRun, before, out, ping, driver, exit>>

Add ==
  /\ At("add", "wait1") /\ IoFree
  /\ displays' = displays + 1 /\ added' = TRUE
  /\ UNCHANGED <<attempt, handle, pingRun, before, out, ping, desktop, exit>>

AddRefused ==
  /\ At("add", "failed") /\ IoFree
  /\ UNCHANGED <<attempt, added, handle, pingRun, before, out, ping, driver, exit>>

\* WaitForNewOutput: an output that was not there before.
Found ==
  /\ create \in {"wait1", "wait2"} /\ ~exit
  /\ out' \in desktop \ before
  /\ create' = "apply"
  /\ UNCHANGED <<attempt, added, handle, pingRun, before, ping, driver, exit>>

\* The last poll has found nothing, or g_exit is set.
NotFound ==
  /\ exit \/ desktop \subseteq before
  /\ At("wait1", "activate") \/ At("wait2", "remove")
  /\ UNCHANGED <<attempt, added, handle, pingRun, before, out, ping, driver, exit>>

\* CcdActivateParsecTarget finds no target, or activates it, or has the whole
\* desktop extended and with it screens of other drivers.
Activate ==
  /\ At("activate", "wait2")
  /\ \/ UNCHANGED desktop
     \/ displays > 0 /\ desktop' = desktop \cup {"virtual"}
     \/ displays > 0 /\ MayOther /\ desktop' = desktop \cup {"virtual", "other"}
  /\ UNCHANGED <<attempt, added, handle, pingRun, before, out, ping, displays, exit>>

\* One display less, and none on the desktop when it was the last.
RemoveDisplay ==
  /\ displays' = IF displays = 0 THEN 0 ELSE displays - 1
  /\ desktop' = IF displays =< 1 THEN desktop \ {"virtual"} ELSE desktop

\* Slip: the display is forgotten and not removed.
RemoveForgets ==
  /\ At("remove", "loop") /\ IoFree
  /\ added' = FALSE /\ attempt' = attempt + 1
  /\ UNCHANGED <<handle, pingRun, before, out, ping, driver, exit>>

Remove ==
  /\ At("remove", "loop") /\ IoFree
  /\ RemoveDisplay
  /\ added' = FALSE /\ attempt' = attempt + 1
  /\ UNCHANGED <<handle, pingRun, before, out, ping, exit>>

\* ApplyDisplay, then the output is looked up again.
Apply ==
  /\ At("apply", IF out \in desktop THEN "created" ELSE "failed")
  /\ UNCHANGED <<attempt, added, handle, pingRun, before, out, ping, driver, exit>>

-----------------------------------------------------------------------------
(* The owner: Cleanup.                                                     *)

StopPing ==
  /\ create \in {"created", "failed"} /\ create' = "join"
  /\ pingRun' = FALSE
  /\ UNCHANGED <<attempt, added, handle, before, out, ping, driver, exit>>

JoinPing ==
  /\ At("join", "drop") /\ ping \in {"none", "done"}
  /\ ping' = "none"
  /\ UNCHANGED <<attempt, added, handle, pingRun, before, out, driver, exit>>

\* Only the removal takes io_.
Drop ==
  /\ At("drop", "close")
  /\ IF added THEN IoFree /\ RemoveDisplay ELSE UNCHANGED driver
  /\ added' = FALSE
  /\ UNCHANGED <<attempt, handle, pingRun, before, out, ping, exit>>

Close ==
  /\ At("close", "none")
  /\ handle' = FALSE
  /\ UNCHANGED <<attempt, added, pingRun, before, out, ping, driver, exit>>

-----------------------------------------------------------------------------
(* The ping thread.                                                        *)

\* VddUpdate, then a sleep with io_ in hand.
PingLock ==
  /\ ping = "loop" /\ pingRun /\ IoFree
  /\ ping' = "hold"
  /\ UNCHANGED <<owner, driver, exit>>

PingUnlock ==
  /\ ping = "hold" /\ ping' = "loop"
  /\ UNCHANGED <<owner, driver, exit>>

PingExit ==
  /\ ping = "loop" /\ ~pingRun /\ ping' = "done"
  /\ UNCHANGED <<owner, driver, exit>>

-----------------------------------------------------------------------------
(* The driver, the system and the user.                                    *)

\* A second without a ping.
DriverDrops ==
  /\ displays > 0 /\ ping \in {"none", "done"}
  /\ displays' = 0 /\ desktop' = desktop \ {"virtual"}
  /\ UNCHANGED <<owner, ping, exit>>

SystemExtends ==
  /\ displays > 0 /\ "virtual" \notin desktop
  /\ desktop' = desktop \cup {"virtual"}
  /\ UNCHANGED <<owner, ping, displays, exit>>

OutputLeaves ==
  /\ "virtual" \in desktop /\ desktop' = desktop \ {"virtual"}
  /\ UNCHANGED <<owner, ping, displays, exit>>

OtherComes ==
  /\ MayOther /\ "other" \notin desktop
  /\ desktop' = desktop \cup {"other"}
  /\ UNCHANGED <<owner, ping, displays, exit>>

OtherLeaves ==
  /\ "other" \in desktop /\ desktop' = desktop \ {"other"}
  /\ UNCHANGED <<owner, ping, displays, exit>>

Exit ==
  /\ ~exit /\ exit' = TRUE
  /\ UNCHANGED <<owner, ping, driver>>

-----------------------------------------------------------------------------
\* What Create and Cleanup do between their call and their return.
Call == \/ NoDriver \/ Open \/ TryAgain \/ GiveUp \/ Add \/ AddRefused
        \/ Found \/ NotFound \/ Activate \/ Remove \/ Apply \/ JoinPing \/ Drop \/ Close

Ping == PingLock \/ PingUnlock \/ PingExit

Outside == SystemExtends \/ OutputLeaves \/ OtherComes \/ OtherLeaves

VNext == BeginCreate \/ StopPing \/ Call \/ Ping \/ DriverDrops \/ Outside \/ Exit

\* The owner waits for io_.
Waiting == create \in {"add", "remove"}

VSpec == VInit /\ [][VNext]_vvars

-----------------------------------------------------------------------------
VTypeOK ==
  /\ create \in {"none", "open", "loop", "add", "wait1", "activate", "wait2", "remove",
                 "apply", "created", "failed", "join", "drop", "close"}
  /\ attempt \in 1..MaxAttempt + 1
  /\ added \in BOOLEAN /\ handle \in BOOLEAN /\ pingRun \in BOOLEAN /\ exit \in BOOLEAN
  /\ ping \in {"none", "loop", "hold", "done"}
  /\ before \in SUBSET Outputs /\ out \in Outputs
  /\ displays \in Nat /\ desktop \in SUBSET Outputs

=============================================================================
