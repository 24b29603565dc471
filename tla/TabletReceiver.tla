--------------------------- MODULE TabletReceiver ---------------------------
(***************************************************************************)
(* The tablet application's native side (subscreen_napi.cpp): the Pipeline *)
(* record behind its mutex, shared by the server thread (NetServer::Run    *)
(* with the callbacks OnClientState and OnPacket), the JS thread (the      *)
(* XComponent's surface callbacks and the exported Start and Stop) and the *)
(* statistics thread.  The decoder they share is the module VideoDecoder.  *)
(*                                                                         *)
(* The transport below OnPacket is the module NetServer; here a connection *)
(* is a number and a packet arrives at any time while one is served.       *)
(***************************************************************************)
EXTENDS VideoDecoder

CONSTANTS MaxConns,     \* bound: connections accepted in a behaviour
          MaxSurfaces   \* bound: surfaces created in a behaviour

ASSUME ReceiverAssumption == MaxConns \in Nat /\ MaxSurfaces \in Nat

NoDec == [window |-> 0, conn |-> 0]

VARIABLES
  mtx,        \* Pipeline::mtx: "free", "server" or "js"
  gotHello,   \* Pipeline::gotHello
  stream,     \* the connection whose hello set streamW and streamH, 0 if none
  window,     \* Pipeline::window, 0 for nullptr (then windowReady is false)
  dec,        \* surface and stream size the decoder was started with
  sv,         \* server thread: "none", "listen", "up", "client", "packet",
              \* "down", "stopDecoder", "exit"
  conn,       \* the connection accepted last
  serverRun,  \* NetServer::running_
  ui,         \* JS thread: "idle", "create", "destroy", "destroying", and the
              \* stages of Stop: "stats", "server", "join", "lock", "decoder"
  surfaces,   \* surfaces created so far
  stats,      \* statistics thread: "none", "run"
  statsRun    \* g_statsRunning

pvars == <<gotHello, stream, window, dec>>
svars == <<sv, conn, serverRun>>
jvars == <<ui, surfaces>>
tvars == <<stats, statsRun>>
vars == <<dvars, mtx, pvars, svars, jvars, tvars>>

Init ==
  /\ DInit
  /\ mtx = "free" /\ gotHello = FALSE /\ stream = 0 /\ window = 0 /\ dec = NoDec
  /\ sv = "none" /\ conn = 0 /\ serverRun = FALSE
  /\ ui = "idle" /\ surfaces = 0
  /\ stats = "none" /\ statsRun = FALSE

HasDecoder == codec = "started"

-----------------------------------------------------------------------------
(* Called with mtx held.                                                   *)

\* StartDecoderLocked, for a given window and stream size; the platform may
\* refuse to start a codec.
StartDecoderLocked(w, c) ==
  IF HasDecoder \/ w = 0 \/ c = 0
  THEN UNCHANGED <<dvars, dec>>
  ELSE \/ DStart /\ dec' = [window |-> w, conn |-> c]
       \/ DStartFail /\ UNCHANGED dec

\* StopDecoderLocked has returned or has nothing to do.
DecoderStopped == client = "idle" /\ ~running

-----------------------------------------------------------------------------
(* The server thread.                                                      *)

Accept ==
  /\ sv = "listen" /\ serverRun /\ conn < MaxConns
  /\ sv' = "up" /\ conn' = conn + 1
  /\ UNCHANGED <<dvars, mtx, pvars, serverRun, jvars, tvars>>

\* OnClientState(true)
ClientUp ==
  /\ sv = "up" /\ mtx = "free"
  /\ sv' = "client"
  /\ UNCHANGED <<dvars, mtx, pvars, conn, serverRun, jvars, tvars>>

PacketIn ==
  /\ sv = "client" /\ serverRun /\ fed < MaxFeeds
  /\ sv' = "packet"
  /\ UNCHANGED <<dvars, mtx, pvars, conn, serverRun, jvars, tvars>>

\* OnPacket before the handshake: a hello starts the decoder ...
Hello ==
  /\ sv = "packet" /\ mtx = "free" /\ ~gotHello
  /\ gotHello' = TRUE /\ stream' = conn
  /\ StartDecoderLocked(window, conn)
  /\ sv' = "client"
  /\ UNCHANGED <<mtx, window, conn, serverRun, jvars, tvars>>

\* ... anything else is ignored.
IgnorePacket ==
  /\ sv = "packet" /\ mtx = "free" /\ ~gotHello
  /\ sv' = "client"
  /\ UNCHANGED <<dvars, mtx, pvars, conn, serverRun, jvars, tvars>>

\* OnPacket after the handshake: fed to the decoder, or counted as dropped.
FramePacket ==
  /\ sv = "packet" /\ mtx = "free" /\ gotHello
  /\ IF HasDecoder THEN Feed ELSE UNCHANGED dvars
  /\ sv' = "client"
  /\ UNCHANGED <<mtx, pvars, conn, serverRun, jvars, tvars>>

\* ClientLoop returns: the peer is gone, or the server is stopped.
ClientGone ==
  /\ sv = "client"
  /\ sv' = "down"
  /\ UNCHANGED <<dvars, mtx, pvars, conn, serverRun, jvars, tvars>>

\* OnClientState(false): the decoder is stopped under the mutex ...
ClientDown ==
  /\ sv = "down" /\ mtx = "free"
  /\ mtx' = "server"
  /\ IF HasDecoder THEN StopFlag ELSE UNCHANGED dvars
  /\ sv' = "stopDecoder"
  /\ UNCHANGED <<pvars, conn, serverRun, jvars, tvars>>

\* ... and the next connection has to shake hands again.
ClientDownDone ==
  /\ sv = "stopDecoder" /\ DecoderStopped
  /\ mtx' = "free" /\ gotHello' = FALSE /\ dec' = NoDec
  /\ sv' = "listen"
  /\ UNCHANGED <<dvars, stream, window, conn, serverRun, jvars, tvars>>

ServerExit ==
  /\ sv = "listen" /\ ~serverRun
  /\ sv' = "exit"
  /\ UNCHANGED <<dvars, mtx, pvars, conn, serverRun, jvars, tvars>>

-----------------------------------------------------------------------------
(* The JS thread: surfaces come and go in turn.                            *)

SurfaceCreating ==
  /\ ui = "idle" /\ window = 0 /\ surfaces < MaxSurfaces
  /\ ui' = "create" /\ surfaces' = surfaces + 1
  /\ UNCHANGED <<dvars, mtx, pvars, svars, tvars>>

\* Slip: the decoder is started whether or not a hello was seen.
OnSurfaceCreatedEager ==
  /\ ui = "create" /\ mtx = "free"
  /\ window' = surfaces /\ StartDecoderLocked(surfaces, stream)
  /\ ui' = "idle"
  /\ UNCHANGED <<mtx, gotHello, stream, svars, surfaces, tvars>>

OnSurfaceCreated ==
  /\ ui = "create" /\ mtx = "free"
  /\ window' = surfaces
  /\ IF gotHello THEN StartDecoderLocked(surfaces, stream) ELSE UNCHANGED <<dvars, dec>>
  /\ ui' = "idle"
  /\ UNCHANGED <<mtx, gotHello, stream, svars, surfaces, tvars>>

SurfaceDestroying ==
  /\ ui = "idle" /\ window # 0
  /\ ui' = "destroy"
  /\ UNCHANGED <<dvars, mtx, pvars, svars, surfaces, tvars>>

\* Slip: the window goes, the decoder stays.
OnSurfaceDestroyedKeep ==
  /\ ui = "destroy" /\ mtx = "free"
  /\ window' = 0 /\ ui' = "idle"
  /\ UNCHANGED <<dvars, mtx, gotHello, stream, dec, svars, surfaces, tvars>>

OnSurfaceDestroyed ==
  /\ ui = "destroy" /\ mtx = "free"
  /\ mtx' = "js"
  /\ IF HasDecoder THEN StopFlag ELSE UNCHANGED dvars
  /\ ui' = "destroying"
  /\ UNCHANGED <<pvars, svars, surfaces, tvars>>

OnSurfaceDestroyedDone ==
  /\ ui = "destroying" /\ DecoderStopped
  /\ mtx' = "free" /\ window' = 0 /\ dec' = NoDec
  /\ ui' = "idle"
  /\ UNCHANGED <<dvars, gotHello, stream, svars, surfaces, tvars>>

\* Start: the server thread and the statistics thread are spawned.
JsStart ==
  /\ ui = "idle" /\ mtx = "free" /\ sv = "none"
  /\ sv' = "listen" /\ serverRun' = TRUE
  /\ stats' = "run" /\ statsRun' = TRUE
  /\ UNCHANGED <<dvars, mtx, pvars, conn, jvars>>

\* Stop: the statistics thread is told to end and joined ...
JsStop ==
  /\ ui = "idle" /\ sv # "none"
  /\ ui' = "stats" /\ statsRun' = FALSE
  /\ UNCHANGED <<dvars, mtx, pvars, svars, surfaces, stats>>

JsStatsJoined ==
  /\ ui = "stats" /\ stats = "none"
  /\ ui' = "server"
  /\ UNCHANGED <<dvars, mtx, pvars, svars, surfaces, tvars>>

\* Slip: NetServer::Stop is called with the pipeline's mutex held.
JsStopServerLocked ==
  /\ ui = "server" /\ mtx = "free" /\ mtx' = "js"
  /\ ui' = "join" /\ serverRun' = FALSE
  /\ UNCHANGED <<dvars, pvars, sv, conn, surfaces, tvars>>

\* ... then NetServer::Stop ...
JsStopServer ==
  /\ ui = "server"
  /\ ui' = "join" /\ serverRun' = FALSE
  /\ UNCHANGED <<dvars, mtx, pvars, sv, conn, surfaces, tvars>>

JsServerJoined ==
  /\ ui = "join" /\ sv = "exit"
  /\ ui' = "lock" /\ sv' = "none"
  /\ UNCHANGED <<dvars, mtx, pvars, conn, serverRun, surfaces, tvars>>

\* ... then whatever decoder there still is.
JsStopDecoder ==
  /\ ui = "lock" /\ mtx = "free"
  /\ mtx' = "js"
  /\ IF HasDecoder THEN StopFlag ELSE UNCHANGED dvars
  /\ ui' = "decoder"
  /\ UNCHANGED <<pvars, svars, surfaces, tvars>>

JsStopDone ==
  /\ ui = "decoder" /\ DecoderStopped
  /\ mtx' = "free" /\ gotHello' = FALSE /\ dec' = NoDec
  /\ ui' = "idle"
  /\ UNCHANGED <<dvars, stream, window, svars, surfaces, tvars>>

-----------------------------------------------------------------------------
\* StatsLoop: each round takes the mutex for a moment, so the thread cannot
\* end while somebody else keeps the mutex.
StatsEnd ==
  /\ stats = "run" /\ ~statsRun /\ mtx = "free"
  /\ stats' = "none"
  /\ UNCHANGED <<dvars, mtx, pvars, svars, jvars, statsRun>>

\* The decoder's own threads, and the rest of Stop for whoever called it.
DecoderStep ==
  /\ Pump \/ Codec \/ StopStep
  /\ UNCHANGED <<mtx, pvars, svars, jvars, tvars>>

ServerThread == \/ ClientUp \/ Hello \/ IgnorePacket \/ FramePacket
                \/ ClientDown \/ ClientDownDone \/ ServerExit
                \/ (~serverRun /\ ClientGone)

JsThread == \/ OnSurfaceCreated \/ OnSurfaceDestroyed \/ OnSurfaceDestroyedDone
            \/ JsStatsJoined \/ JsStopServer \/ JsServerJoined
            \/ JsStopDecoder \/ JsStopDone

Environment == \/ Accept \/ PacketIn \/ ClientGone
               \/ SurfaceCreating \/ SurfaceDestroying
               \/ JsStart \/ JsStop

Next == ServerThread \/ JsThread \/ StatsEnd \/ DecoderStep \/ Environment

\* Threads that can run do, and the mutex is not held back for ever from a
\* thread that waits for it; the codec asks again for every buffer it was
\* given.  Peers, surfaces and the page act when they like, and a blocked pump
\* is not assumed to wake up without a notification.
Fairness ==
  /\ SF_vars(ServerThread) /\ SF_vars(JsThread) /\ SF_vars(StatsEnd)
  /\ WF_vars(Pump /\ DecoderStep) /\ WF_vars(Codec /\ DecoderStep)
  /\ WF_vars(StopStep /\ DecoderStep)

Spec == Init /\ [][Next]_vars /\ Fairness

-----------------------------------------------------------------------------
TypeOK ==
  /\ DTypeOK
  /\ mtx \in {"free", "server", "js"}
  /\ gotHello \in BOOLEAN /\ stream \in 0..MaxConns /\ window \in 0..MaxSurfaces
  /\ dec \in [window : 0..MaxSurfaces, conn : 0..MaxConns]
  /\ sv \in {"none", "listen", "up", "client", "packet", "down", "stopDecoder", "exit"}
  /\ conn \in 0..MaxConns /\ serverRun \in BOOLEAN
  /\ ui \in {"idle", "create", "destroy", "destroying",
             "stats", "server", "join", "lock", "decoder"}
  /\ surfaces \in 0..MaxSurfaces
  /\ stats \in {"none", "run"} /\ statsRun \in BOOLEAN

\* A decoder renders into the surface that exists, never into one that was
\* destroyed or replaced.
DecoderOnLiveSurface == HasDecoder => window # 0 /\ dec.window = window

\* There is a decoder only for the connection being served, configured with
\* the size that connection's own hello gave, however surfaces come and go.
DecoderOfThisConnection ==
  HasDecoder => /\ sv \in {"client", "packet", "down", "stopDecoder"}
                /\ gotHello /\ dec.conn = conn

\* The one way Stop can hang: running_ was cleared and the pump notified while
\* it was between its look at the predicate and blocking, and nobody wakes it.
Hung == client = "join" /\ pump \in {"block", "wait"}

\* "After a disconnect it returns to listening automatically."
BackToListening == sv = "down" ~> sv \in {"listen", "none"}

\* The page's Stop and the surface callbacks return, and so does a disconnect:
\* no order of the three threads' lock, flag and join operations deadlocks
\* them, apart from the decoder's own lost wake-up.
CallsReturnUnlessHung ==
  /\ (ui # "idle") ~> (ui = "idle" \/ Hung)
  /\ (sv = "down") ~> (sv \in {"listen", "none"} \/ Hung)

=============================================================================
