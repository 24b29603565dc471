----------------------------- MODULE VirtualScreen -----------------------------
(***************************************************************************)
(* The size and the place of the virtual display (subscreen_sender.cpp):   *)
(* the presets in the registry, from which the driver makes its list of    *)
(* modes when a display is added; the size last used, which Cleanup keeps  *)
(* in a file; and ApplyDisplay, which chooses a mode and a place.          *)
(*                                                                         *)
(* Sizes are small numbers in the proportions of the real ones.  Screens   *)
(* stand side by side; a place is a column.                                *)
(***************************************************************************)
EXTENDS Integers, FiniteSets

CONSTANTS Slots,           \* VDD_PRESET_MAX, 5 in the code
          Builtin,         \* the driver's own modes
          MinW, MinH,      \* 320 and 240 in the code
          Default,         \* the default of VddOptions, 946x1440 at 60
          Empty, Broken    \* a slot without a key, or with an unreadable one

Mode == [w : Nat, h : Nat, hz : Nat]

\* What `set' and `add' accept, and the driver's modes.
Usable == {m \in Mode : m.w >= MinW /\ m.h >= MinH /\ m.hz > 0}

ASSUME ScreenAssumption ==
  /\ Slots \in Nat \ {0} /\ MinW \in Nat \ {0} /\ MinH \in Nat \ {0}
  /\ \A m \in Builtin \cup {Default} : m \in Usable
  /\ Builtin # {} /\ Empty \notin Mode /\ Broken \notin Mode

NoMode == [w |-> 0, h |-> 0, hz |-> 0]

VARIABLES
  regKey,   \* external: the driver's key is in the registry
  slot,     \* external: its sub-keys
  offered,  \* external: the display's modes, listed when it was added
  ini,      \* subscreen_state.ini, NoMode if there is none
  mode,     \* external: the display's mode, remembered while it is away
  place     \* external: its left edge, remembered likewise

registry == <<regKey, slot>>
svars == <<registry, offered, ini, mode, place>>

-----------------------------------------------------------------------------
(* The presets: VddPresetRead, ..Write, ..Delete, ..ClearAll, ..Command.   *)

SlotNos == 0 .. Slots - 1
Readable == {i \in SlotNos : slot[i] \notin {Empty, Broken}}

\* A slot is written whole, in part, or not at all.
Writes(i, m, rest) == \E v \in {m, Broken, rest[i]} : slot' = [rest EXCEPT ![i] = v]

Cleared(k) == [i \in SlotNos |-> IF i < k THEN Empty ELSE slot[i]]

\* VddPresetClearAll gets as far as slot k; without the key it fails at once.
Clear ==
  /\ \E k \in IF regKey THEN 0 .. Slots ELSE {0} : slot' = Cleared(k)
  /\ UNCHANGED regKey

\* `set' clears first, and stops when that fails: without the key always.
SetPreset(m) ==
  /\ \/ \E k \in 0 .. Slots - 1 : (regKey \/ k = 0) /\ slot' = Cleared(k)
     \/ regKey /\ Writes(0, m, Cleared(Slots))
  /\ UNCHANGED regKey

\* `add' takes the first slot that cannot be read, and makes the key before
\* it writes; either may be refused.
AddPreset(m) ==
  /\ Readable # SlotNos
  /\ LET first == CHOOSE i \in SlotNos \ Readable : \A j \in SlotNos \ Readable : i =< j
     IN Writes(first, m, slot)
  /\ regKey' \in {regKey, TRUE} /\ (slot' # slot => regKey')

RemovePreset(i) ==
  /\ regKey /\ slot' = [slot EXCEPT ![i] = Empty]
  /\ UNCHANGED regKey

\* External: the driver reads the presets when a display is added.
Offer == offered' = Builtin \cup {slot[i] : i \in Readable}

ScreenOK ==
  /\ regKey \in BOOLEAN /\ slot \in [SlotNos -> Usable \cup {Empty, Broken}]
  /\ offered \subseteq Usable /\ mode \in Usable /\ ini \in Mode /\ place \in Int

-----------------------------------------------------------------------------
(* The size to ask for, and the mode picked from the list.                 *)

\* VddStateLoad.
Saved == IF ini.w >= MinW /\ ini.h >= MinH THEN ini ELSE NoMode

OfSize(m, modes) == {n \in modes : n.w = m.w /\ n.h = m.h}

\* The size wanted by an insertion: as told, as last used, or by default.
Wanted(opt) == IF opt.fixed \/ Saved = NoMode THEN opt.mode ELSE Saved

\* Whether it is applied; the default only if the driver has it.
Applies(opt, modes) == opt.fixed \/ Saved # NoMode \/ OfSize(opt.mode, modes) # {}

Abs(n) == IF n < 0 THEN -n ELSE n
Skew(m, want) == Abs(m.w * want.h - want.w * m.h)  \* over m.h * want.h
AreaGap(m, want) == Abs(m.w * m.h - want.w * want.h)

\* m's ratio is no farther from the wanted one than n's, give or take 0.02.
RatioNear(m, n, want) ==
  50 * Skew(m, want) * n.h =< 50 * Skew(n, want) * m.h + m.h * n.h * want.h

\* The modes ApplyDisplay may pick, the list's order being the driver's.
Picks(want, modes) ==
  LET same == OfSize(want, modes)
      exact == {m \in same : m.hz = want.hz}
      near == {m \in modes : \A n \in modes : RatioNear(m, n, want)}
  IN IF same # {} THEN
       CASE want.hz > 0 /\ exact # {} -> exact
         [] want.hz > 0 /\ exact = {} -> same
         [] OTHER -> {m \in same : \A n \in same : n.hz =< m.hz}
     ELSE {m \in near : \A n \in near : AreaGap(m, want) =< AreaGap(n, want)}

-----------------------------------------------------------------------------
(* The place, with spans of the other screens as records [left, right].    *)

Overlaps(at, w, others) == \E s \in others : at < s.right /\ at + w > s.left

\* Slip: the width is the default one.
NewPlaceDefault(opt, w, others) ==
  IF others = {} THEN 0
  ELSE IF opt.side = "right"
       THEN CHOOSE r \in {s.right : s \in others} : \A s \in others : s.right =< r
       ELSE (CHOOSE l \in {s.left : s \in others} : \A s \in others : l =< s.left) - opt.mode.w

NewPlace(opt, w, others) ==
  IF others = {} THEN 0
  ELSE IF opt.side = "right"
       THEN CHOOSE r \in {s.right : s \in others} : \A s \in others : s.right =< r
       ELSE (CHOOSE l \in {s.left : s \in others} : \A s \in others : l =< s.left) - w

-----------------------------------------------------------------------------
\* ApplyDisplay.  The place is computed with the wanted width, whatever mode
\* is picked.  A refused change is asked for again without the place.
ApplyDisplay(opt, others, modes, result) ==
  LET applies == Applies(opt, modes)
      want == Wanted(opt)
      moves == applies \/ Overlaps(place, mode.w, others)
      width == IF applies THEN want.w ELSE mode.w
      picks == IF applies /\ modes # {} THEN Picks(want, modes) ELSE {mode}
  IN /\ IF result = "refused" THEN mode' = mode ELSE mode' \in picks
     /\ place' = IF result = "done" /\ moves THEN NewPlace(opt, width, others) ELSE place
     /\ UNCHANGED <<registry, offered, ini>>

\* Slip: what was wanted is kept, not what is in use.
SaveStateWanted(opt, m) == ini' = Wanted(opt)

\* Cleanup, before the display is removed: its settings of that moment.
SaveState(opt, m) == ini' = m

=============================================================================
