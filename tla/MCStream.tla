------------------------------ MODULE MCStream ------------------------------
(***************************************************************************)
(* A stream of the Windows sender, how it comes about and how it goes: the *)
(* two components keep no state in common, so that a behaviour of the      *)
(* instance is one of StreamSetup, with the session over, or one of        *)
(* StreamSession, with the set-up done.                                    *)
(***************************************************************************)
EXTENDS StreamSession, MCStreamSetup

SessionOver ==
  /\ main = "returned" /\ stop = TRUE /\ localStop = TRUE
  /\ tcp = "closed" /\ peer = "gone" /\ sentOn = <<>>
  /\ alive = FALSE /\ target = FALSE /\ q = FALSE /\ encT = "none" /\ unit = 0
  /\ streamDead = FALSE /\ encDead = FALSE
  /\ cap = "exit" /\ aim = FALSE /\ capDead = FALSE /\ modeChanged = FALSE

SetupDone ==
  /\ stage = "done" /\ kind = "none" /\ desk = <<>> /\ index = -1 /\ moved = FALSE
  /\ source = {} /\ sel = NoOutput /\ size = <<0, 0>>
  /\ listed = <<>> /\ tries = <<>> /\ at = <<0, "memory">> /\ banned = FALSE
  /\ sps = <<>> /\ pps = <<>> /\ made = <<>> /\ out = <<>> /\ told = [sps |-> <<>>, pps |-> <<>>]

StreamInit == (SetupInit /\ SessionOver) \/ (Init /\ SetupDone)

OfSetup(A) == A /\ UNCHANGED vars
OfSession(A) == stage = "done" /\ A /\ UNCHANGED setupVars

StreamNext ==
  \/ OfSetup(TakeIndex) \/ OfSetup(Rearrange) \/ OfSetup(CaptureInit)
  \/ OfSetup(CreateEncoder) \/ OfSetup(Try) \/ OfSetup(Process)
  \/ OfSession(LoopCheck) \/ OfSession(DurationOver) \/ OfSession(Connect)
  \/ OfSession(ConnectFail) \/ OfSession(SendHello) \/ OfSession(HelloFail)
  \/ OfSession(Create) \/ OfSession(CreateFail) \/ OfSession(SetFeedTarget)
  \/ OfSession(StreamOver) \/ OfSession(SessionExpires) \/ OfSession(ClearFeedTarget)
  \/ OfSession(DestroyBegin) \/ OfSession(DestroyEnd) \/ OfSession(CloseTcp)
  \/ OfSession(TellCapture) \/ OfSession(JoinCapture)
  \/ OfSession(CapTick) \/ OfSession(CapNoFrame) \/ OfSession(CapLock)
  \/ OfSession(CapFeed) \/ OfSession(CapExit) \/ OfSession(CapDies)
  \/ OfSession(ModeChanges)
  \/ OfSession(EncTake) \/ OfSession(EncSend) \/ OfSession(EncSendFail)
  \/ OfSession(EncError) \/ OfSession(EncExit)
  \/ OfSession(PeerLost) \/ OfSession(PeerChanges("gone", "reading"))
  \/ OfSession(PeerChanges("reading", "frozen")) \/ OfSession(PeerChanges("frozen", "reading"))
  \/ OfSession(StopRequest)

StreamSpec == StreamInit /\ [][StreamNext]_<<vars, setupVars>> /\ Fairness

=============================================================================
