----------------------------- MODULE StreamSetup -----------------------------
(***************************************************************************)
(* How a stream of the Windows sender comes about: the output is chosen    *)
(* and its size decided (DupCapture::Init), an encoder is found among      *)
(* those of the system (H264Encoder::Create, TrySetup), and the units it   *)
(* makes are completed (AuFixer), connection after connection.             *)
(*                                                                         *)
(* Sizes are small numbers.  An encoder of the system is a record of what  *)
(* its set-up calls will answer; none takes NV12 of an odd size.           *)
(***************************************************************************)
EXTENDS AuFixer, FiniteSets, Functions

CONSTANTS Desks,       \* external: what EnumOutputs may list, sequences of outputs
          Virtual,     \* name of the virtual display
          Sources,     \* --source as the set of names it matches; {} if not given
          SizeArgs,    \* --size, as <<w, h>>; <<0, 0>> if not given
          Scales,      \* --scale
          MinW, MinH,  \* 320 and 240 in the code
          Encoders,    \* external: records of the encoders of the system
          MaxEncoders, \* bound: how many of them
          Units,       \* external: access units, as sequences of NAL units
          Streamed     \* bound: the size at which units are followed

Outputs ==
  [name : STRING, w : Nat, h : Nat, turned : BOOLEAN, attached : BOOLEAN, primary : BOOLEAN]

ASSUME SetupAssumption ==
  /\ \A d \in Desks : d # <<>> /\ d \in Seq(Outputs)
  /\ SizeArgs \subseteq Nat \X Nat
  /\ MaxEncoders \in Nat \ {0} /\ MinW \in Nat \ {0} /\ MinH \in Nat \ {0}
  /\ Encoders \subseteq [hw : BOOLEAN, preferred : BOOLEAN, takes : SUBSET {"memory", "texture"},
                         pool : {"no device", "fails", "works"}]

NoOutput == [name |-> "none", w |-> 0, h |-> 0, turned |-> FALSE, attached |-> FALSE, primary |-> FALSE]

VARIABLES
  stage,    \* "start", "index" (Create has returned or is not used), "captured",
            \* "trying", "running", "failed"
  kind,     \* whose cap.Init: "watch", "vdd" (main with --vdd), "mirror"
  desk,     \* external: the outputs
  index,    \* outIndex, -1 for the primary output
  moved,    \* history: the outputs have changed since the index was taken
  source,   \* args.source
  sel,      \* the output captured
  size,     \* the size streamed, <<ow_, oh_>>
  listed,   \* external: the encoders MFTEnumEx has listed
  tries,    \* Create's tries
  at,       \* the candidate and the path to try: <<i, "texture">> or <<i, "memory">>
  banned,   \* d3dBanned, or --sysmem
  sps, pps, \* AuFixer's
  made,     \* the last unit of the encoder
  out,      \* what onAu_ is given for it
  told      \* history: the SPS and PPS this encoder has made last

choosing == <<kind, desk, index, moved, source>>
output == <<choosing, sel, size>>
creating == <<listed, tries, at, banned>>
fixer == <<sps, pps, made, out, told>>
setupVars == <<stage, output, creating, fixer>>

SetupInit ==
  /\ stage = "start" /\ kind \in {"watch", "vdd", "mirror"}
  /\ desk \in Desks /\ index = -1 /\ moved = FALSE
  /\ source \in Sources /\ sel = NoOutput /\ size = <<0, 0>>
  /\ listed = <<>> /\ tries = <<>> /\ at = <<0, "memory">> /\ banned = FALSE
  /\ sps = <<>> /\ pps = <<>> /\ made = <<>> /\ out = <<>> /\ told = [sps |-> <<>>, pps |-> <<>>]

-----------------------------------------------------------------------------
(* DupCapture::Init.                                                       *)

Attached == {i \in DOMAIN desk : desk[i].attached}

First(is) == CHOOSE i \in is : \A j \in is : i =< j

\* VddDisplay::Create looks its display up by name; the index counts the
\* outputs that are not attached too.  Without a virtual display it is the
\* --output argument, not given here.
TakeIndex ==
  /\ stage = "start" /\ stage' = "index"
  /\ IF kind = "mirror" THEN index' = index
     ELSE \E i \in Attached : desk[i].name = Virtual /\ index' = i - 1
  /\ UNCHANGED <<kind, desk, moved, source, sel, size, creating, fixer>>

\* A screen comes or goes.
Rearrange ==
  /\ stage = "index" /\ desk' \in Desks \ {desk} /\ moved' = TRUE
  /\ UNCHANGED <<stage, kind, index, source, sel, size, creating, fixer>>

\* main leaves --source out when it has made a display, WatchSession does not.
SourceGiven == IF kind = "vdd" THEN {} ELSE source

\* Slip: the index is taken for one of the attached outputs.
ChoiceAttached ==
  LET named == {i \in Attached : desk[i].name \in SourceGiven}
      nth == {i \in Attached : Cardinality({j \in Attached : j < i}) = index}
      primary == {i \in Attached : desk[i].primary}
  IN IF SourceGiven # {} THEN named
     ELSE IF index >= 0 THEN nth
     ELSE IF primary # {} THEN primary ELSE Attached

\* --source, then the index, then the primary output or else the first.
Choice ==
  LET named == {i \in Attached : desk[i].name \in SourceGiven}
      primary == {i \in Attached : desk[i].primary}
  IN IF SourceGiven # {} THEN named
     ELSE IF index >= 0 THEN Attached \cap {index + 1}
     ELSE IF primary # {} THEN primary ELSE Attached

Even(n) == n - (n % 2)

\* --size: no larger than the frame, and even.
Fit(n, limit) == IF Even(n) > limit THEN Even(limit) ELSE Even(n)

Fits(want, w, h) == want[1] > 0 /\ want[2] > 0 /\ Fit(want[1], w) >= MinW /\ Fit(want[2], h) >= MinH

\* --scale: only if it divides both sides into even numbers.
Divides(k, w, h) == \A n \in {w, h} : n % k = 0 /\ (n \div k) % 2 = 0

SizeOf(w, h, want, scale) ==
  IF Fits(want, w, h) THEN <<Fit(want[1], w), Fit(want[2], h)>>
  ELSE IF scale \in {2, 4} /\ Divides(scale, w, h) THEN <<w \div scale, h \div scale>>
  ELSE <<w, h>>

\* The frames of a turned output come unturned.
CaptureInit ==
  /\ stage = "index"
  /\ IF Choice = {} THEN stage' = "failed" /\ UNCHANGED <<sel, size>>
     ELSE /\ sel' = desk[First(Choice)]
          /\ \/ stage' = "failed" /\ UNCHANGED size   \* no device, no channel
             \/ /\ stage' = "captured"
                /\ \E want \in SizeArgs, scale \in Scales :
                     size' = IF sel'.turned THEN SizeOf(sel'.h, sel'.w, want, scale)
                             ELSE SizeOf(sel'.w, sel'.h, want, scale)
  /\ UNCHANGED <<kind, desk, index, moved, source, creating, fixer>>

-----------------------------------------------------------------------------
(* H264Encoder::Create.                                                    *)

\* Slip: --encoder filters.
OrdersFilter(cs) ==
  LET kept == {i \in DOMAIN cs : cs[i].preferred \/ ~\E j \in DOMAIN cs : cs[j].preferred}
  IN {p \in Surjection(1 .. Cardinality(kept), kept) :
        \A k, l \in DOMAIN p : k < l => p[k] < p[l]}

Before(cs, i, j) == IF cs[i].preferred = cs[j].preferred THEN i < j ELSE cs[i].preferred

\* The order of the tries: preferred ones first, in their order; nothing is
\* left out.
Orders(cs) ==
  {p \in Surjection(DOMAIN cs, DOMAIN cs) :
     \A k, l \in DOMAIN cs : k < l => Before(cs, p[k], p[l])}

FirstPath(cs, i, sysmem) == <<i, IF cs[i].hw /\ ~sysmem THEN "texture" ELSE "memory">>

\* Software encoders are listed only when there are no hardware ones.  What
\* Init chose from is out of scope by now.
CreateEncoder ==
  /\ stage \in {"captured", "running"} /\ stage' = "trying"
  /\ \E cs \in UNION {[1 .. n -> Encoders] : n \in 1 .. MaxEncoders}, sysmem \in BOOLEAN :
       /\ \A i, j \in DOMAIN cs : cs[i].hw = cs[j].hw
       /\ listed' = cs
       /\ \E p \in Orders(cs) : tries' = [k \in DOMAIN p |-> cs[p[k]]]
       /\ at' = FirstPath(tries', 1, sysmem)
       /\ banned' = sysmem
  /\ sps' = <<>> /\ pps' = <<>> /\ made' = <<>> /\ out' = <<>>
  /\ told' = [sps |-> <<>>, pps |-> <<>>]
  /\ kind' = "none" /\ desk' = <<>> /\ index' = -1 /\ moved' = FALSE /\ source' = {}
  /\ UNCHANGED <<sel, size>>

EvenSize == size[1] % 2 = 0 /\ size[2] % 2 = 0

\* Whether the types are taken; SetupD3DManager may fail and leaves memory.
Device(c, path) == path = "texture" /\ c.pool # "no device"
TypesTaken(c, path) == EvenSize /\ (IF Device(c, path) THEN "texture" ELSE "memory") \in c.takes
PoolFails(c, path) == TypesTaken(c, path) /\ Device(c, path) /\ c.pool = "fails"

Works(c, path) == TypesTaken(c, path) /\ ~PoolFails(c, path)

\* TrySetup, and what Create makes of its result.
Try ==
  LET i == at[1]
      c == tries[i]
  IN /\ stage = "trying"
     /\ IF Works(c, at[2])
        THEN /\ stage' = "running"
             /\ listed' = <<>> /\ tries' = <<>> /\ at' = <<0, "memory">> /\ banned' = FALSE
        ELSE /\ banned' = (banned \/ PoolFails(c, at[2]))
             /\ \/ at[2] = "texture" /\ at' = <<i, "memory">> /\ stage' = stage
                \/ /\ at[2] = "memory" /\ i < Len(tries)
                   /\ at' = FirstPath(tries, i + 1, banned) /\ stage' = stage
                \/ at[2] = "memory" /\ i = Len(tries) /\ at' = at /\ stage' = "failed"
             /\ UNCHANGED <<listed, tries>>
     /\ UNCHANGED <<output, fixer>>

-----------------------------------------------------------------------------
(* AuFixer::Process, on the bytes of a unit.                               *)

NalUnits == [long : BOOLEAN, type : Nat, data : Seq(Nat)]

Payload(nal) == <<nal.type>> \o nal.data

NalBytes(nal) == (IF nal.long THEN <<0, 0, 0, 1>> ELSE <<0, 0, 1>>) \o Payload(nal)

\* The bytes of the first n units, for every n.
UpTo(nals) ==
  LET bytes[n \in 0 .. Len(nals)] ==
        IF n = 0 THEN <<>> ELSE bytes[n - 1] \o NalBytes(nals[n])
  IN bytes

Bytes(nals) == UpTo(nals)[Len(nals)]

\* What H.264 says of a NAL unit: there is no start code in it, and its last
\* byte is not zero.
Escaped(nal) ==
  LET p == Payload(nal)
  IN /\ p[Len(p)] # 0
     /\ \A i \in 1 .. Len(p) - 2 : ~(p[i] = 0 /\ p[i + 1] = 0 /\ p[i + 2] \in {0, 1})

ASSUME UnitAssumption ==
  \A u \in Units : /\ u \in Seq(NalUnits)
                   /\ \A i \in DOMAIN u : Escaped(u[i])

UnitBytes == [u \in Units |-> Bytes(u)]
UnitNals == [u \in Units |-> Nals(UnitBytes[u])]

LastOf(nals, type, old) ==
  LET is == {i \in DOMAIN nals : nals[i].type = type}
  IN IF is = {} THEN old ELSE <<nals[CHOOSE i \in is : \A j \in is : j =< i]>>

Process ==
  /\ stage = "running" /\ size = Streamed /\ made' \in Units
  /\ LET au == UnitBytes[made']
         nals == UnitNals[made']
     IN /\ sps' = Kept(au, nals, Sps, sps) /\ pps' = Kept(au, nals, Pps, pps)
        /\ out' = Fixed(au, nals, sps', pps')
  /\ told' = [sps |-> LastOf(made', Sps, told.sps), pps |-> LastOf(made', Pps, told.pps)]
  /\ UNCHANGED <<stage, output, creating>>

SetupNext == TakeIndex \/ Rearrange \/ CaptureInit \/ CreateEncoder \/ Try \/ Process

SetupSpec == SetupInit /\ [][SetupNext]_setupVars

-----------------------------------------------------------------------------
SetupTypeOK ==
  /\ stage \in {"start", "index", "captured", "trying", "running", "failed"}
  /\ kind \in {"watch", "vdd", "mirror", "none"}
  /\ desk \in Desks \cup {<<>>} /\ index \in Int /\ moved \in BOOLEAN
  /\ source \in Sources \cup {{}} /\ sel \in Outputs \cup {NoOutput} /\ size \in Nat \X Nat
  /\ listed \in Seq(Encoders) /\ tries \in Seq(Encoders) /\ banned \in BOOLEAN
  /\ at \in (0 .. Len(tries)) \X {"texture", "memory"}
  /\ sps \in Seq(Nat) /\ pps \in Seq(Nat) /\ out \in Seq(Nat) /\ made \in Units \cup {<<>>}
  /\ told \in [sps : Seq(NalUnits), pps : Seq(NalUnits)]

\* A virtual display that was made for the tablet is what the tablet is
\* shown, as long as the outputs stay as they were when Create looked it up;
\* in plug-and-play mode --source overrides it.
ShowsVirtual ==
  (sel # NoOutput /\ kind \in {"watch", "vdd"} /\ ~moved /\ (kind = "watch" => source = {}))
    => sel.name = Virtual

\* "A priority, not a filter, so that the chain of fallbacks is complete": no
\* encoder is found only if there is none that takes frames from memory, or
\* the desktop's own odd size is streamed: what --size and --scale make of a
\* desktop is always something an encoder takes.
NoEncoderLeftOut ==
  (stage = "failed" /\ listed # <<>>)
    => \/ \A i \in DOMAIN listed : "memory" \notin listed[i].takes
       \/ ~EvenSize /\ size \in {<<sel.w, sel.h>>, <<sel.h, sel.w>>}

\* The SPS and PPS come before the key frame, those of the encoder that made
\* it, whatever start codes it uses; what it sends itself is left as it is,
\* also an SPS that comes without a PPS.
Complete(nals) ==
  /\ \E i \in DOMAIN nals : nals[i].type = Idr
  /\ \A i \in DOMAIN nals : nals[i].type # Sps
  /\ told.sps # <<>> /\ told.pps # <<>>

Short(nals) == [i \in DOMAIN nals |-> [nals[i] EXCEPT !.long = FALSE]]

KeyFramesComplete ==
  made # <<>> =>
    out = IF Complete(made) THEN Bytes(Short(told.sps \o told.pps)) \o UnitBytes[made]
          ELSE UnitBytes[made]

=============================================================================
