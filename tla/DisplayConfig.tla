----------------------------- MODULE DisplayConfig -----------------------------
(***************************************************************************)
(* A virtual display on a desktop with other screens: VddDisplay's Create  *)
(* and Cleanup as they meet the topology (DisplayTopology) and the sizes   *)
(* (VirtualScreen), while the user, Windows and other runs of the program  *)
(* (--topology, --vdd-preset, the control window) change both.  What the   *)
(* threads of Create do is in VddDisplay; here a poll is a step.           *)
(*                                                                         *)
(* Create tells outputs apart by their device names (\\.\DISPLAYn), which  *)
(* belong to the sources of a graphics card and not to the displays;       *)
(* Windows numbers them anew when displays come, go or move.               *)
(***************************************************************************)
EXTENDS DisplayTopology, VirtualScreen

CONSTANTS Ours,         \* the virtual display
          Span,         \* [left, right] of every other display when lit
          SizeOf,       \* the mode of every other display
          Options,      \* records with the fields fixed, save, mode and side
          NamesOf,      \* device names of every graphics card's sources
          NoName,
          Presets0,     \* presets left by former commands
          Place0,       \* the place Windows remembers at first
          Settled,      \* bound: the paths in use next to sizes
          Keys,         \* the keys given to commands
          Specs,        \* the sizes given to --vdd-preset
          MaxPresets,   \* bound: preset commands
          MaxRenumber   \* bound: times a lit display gets another name
                        \* while the virtual display is there

AllNames == UNION {NamesOf[g] : g \in Gpus}

ASSUME ConfigAssumption ==
  /\ IsFiniteSet(Targets) /\ Ours \in Parsec /\ Keys \subseteq SUBSET Targets
  /\ Span \in [Targets \ {Ours} -> [left : Int, right : Int]]
  /\ SizeOf \in [Targets \ {Ours} -> Mode]
  /\ Options \subseteq [fixed : BOOLEAN, save : BOOLEAN, mode : Mode, side : {"left", "right"}]
  /\ Presets0 \subseteq [SlotNos -> Usable \cup {Empty, Broken}]
  /\ NoName \notin AllNames
  /\ Specs \subseteq Usable /\ Place0 \in Int /\ MaxPresets \in Nat /\ MaxRenumber \in Nat

VARIABLES
  stage,     \* "out", "arrived" (added), "asked" (the topology submitted),
             \* "taken" (an output found), "used" (Create has returned),
             \* "again" (taken back, before the next attempt)
  opt,       \* opt_
  before,    \* Create's before, device names
  taken,     \* devName and devName_, NoName if there is none
  name,      \* external: device name of every lit display's source
  focus,     \* bound: "topology" or "sizes", what the user is busy with
  presets,   \* bound: preset commands so far
  renumbers, \* bound: renumberings since Insert
  chosen,    \* history: the size the user chose last, NoMode if none
  spoiled,   \* history: something the code does not provide for has
             \* happened since: see Apply and Cleanup
  disturbed  \* history: another screen has got another name since Insert

create == <<stage, opt, before, taken>>
bounds == <<focus, presets>>
past == <<chosen, spoiled>>
naming == <<name, renumbers, disturbed>>
vars == <<tvars, svars, create, bounds, past, naming>>

Others == {Span[t] : t \in LitTargets \ {Ours}}

Waiting == stage \in {"arrived", "asked"}

\* External: lit displays have a source of their card each.
Namings(paths) ==
  LET lit == {t \in Targets : paths[t] # Dark}
  IN {n \in [lit -> AllNames] : /\ \A t \in lit : n[t] \in NamesOf[paths[t].gpu]
                               /\ \A t, u \in lit : n[t] = n[u] => t = u}

\* A display that stays lit on its card keeps its name.
Steady == \A t \in LitTargets : shown'[t] # Dark /\ shown'[t].gpu = shown[t].gpu => name'[t] = name[t]

\* External: Windows numbers the sources anew when the displays change.
Renumber ==
  /\ IF UNCHANGED <<present, shown>> THEN UNCHANGED name ELSE name' \in Namings(shown')
  /\ renumbers' = IF stage' = "out" THEN 0 ELSE IF Steady THEN renumbers ELSE renumbers + 1
  /\ renumbers' =< MaxRenumber
  /\ disturbed' = (/\ stage' # "out"
                   /\ disturbed \/ \E t \in LitTargets' \ {Ours} :
                                    t \notin LitTargets \/ name'[t] # name[t])

\* EnumOutputs finds a device name that is not in before.
NewOutputs == {t \in LitTargets : name[t] \notin before}

\* The lit displays whose device name is devName: one or none.
TakenBy == {t \in LitTargets : name[t] = taken}

Init ==
  /\ focus \in {"topology", "sizes"}
  /\ present = Targets \ {Ours}
  /\ shown \in [Targets -> Paths \cup {Dark}]
  /\ shown[Ours] = Dark /\ Cardinality(LitTargets) \in 1 .. 2
  /\ \A t \in LitTargets : shown[t].tgt = t
  /\ turn = [t \in Targets |-> Unturned] /\ said = Nothing
  /\ slot \in Presets0 /\ regKey \in {TRUE, Readable # {}}
  /\ offered = {} /\ ini = NoMode /\ mode \in Builtin /\ place = Place0
  /\ stage = "out" /\ opt \in Options /\ before = {} /\ taken = NoName
  /\ name \in Namings(shown)
  /\ presets = 0 /\ chosen = NoMode /\ spoiled = TRUE
  /\ renumbers = 0 /\ disturbed = FALSE
  /\ IF focus = "topology" THEN ~regKey ELSE Active \subseteq Settled
  /\ opt.save = (focus = "sizes")

-----------------------------------------------------------------------------
(* Create.                                                                 *)

\* The driver reads the presets; Windows may light the display by itself,
\* with the mode it remembers if that is still offered.  The outputs to compare
\* with are those before the first attempt.
Insert ==
  /\ stage \in {"out", "again"} /\ stage' = "arrived"
  /\ before' = IF stage = "out" THEN {name[t] : t \in LitTargets} ELSE before
  /\ present' = present \cup {Ours}
  /\ shown' \in {shown} \cup {[shown EXCEPT ![Ours] = p] : p \in PathsTo(Ours, Paths)}
  /\ Offer /\ mode' \in IF mode \in offered' THEN {mode} ELSE Builtin
  /\ Failed /\ Renumber
  /\ UNCHANGED <<turn, registry, ini, place, opt, taken, bounds, past>>

\* Slip: every output counts as new.
FoundAny ==
  /\ Waiting /\ stage' = "taken"
  /\ \E t \in LitTargets : taken' = name[t]
  /\ before' = {} /\ Failed
  /\ UNCHANGED <<present, shown, turn, svars, opt, bounds, past, naming>>

\* WaitForNewOutput.
Found ==
  /\ Waiting /\ stage' = "taken"
  /\ \E t \in NewOutputs : taken' = name[t]
  /\ before' = {} /\ Failed
  /\ UNCHANGED <<present, shown, turn, svars, opt, bounds, past, naming>>

Ask ==
  /\ stage = "arrived" /\ NewOutputs = {}
  /\ ActivateParsec /\ stage' = "asked"
  /\ Renumber
  /\ UNCHANGED <<svars, opt, before, taken, bounds, past>>

\* The display goes; Windows lights another when none is left.
Leaves ==
  /\ present' = present \ {Ours}
  /\ LET dark == [shown EXCEPT ![Ours] = Dark]
     IN IF LitTargets \ {Ours} # {} THEN shown' = dark
        ELSE \E p \in Paths : p.tgt \in present' /\ shown' = [dark EXCEPT ![p.tgt] = p]
  /\ Failed /\ Renumber
  /\ offered' = {}
  /\ UNCHANGED <<turn, registry, mode, place, opt, bounds, chosen>>

\* Create or Cleanup is over.
Over == stage' = "out" /\ taken' = NoName /\ before' = {}

\* Nothing has come; the display is taken back, and another attempt follows or
\* Create gives up.
NotFound ==
  /\ stage = "asked" /\ NewOutputs = {}
  /\ Over \/ (stage' = "again" /\ UNCHANGED <<before, taken>>)
  /\ Leaves
  /\ UNCHANGED <<ini, spoiled>>

\* An output that has gone again makes Create fail.
Gone ==
  /\ stage = "taken" /\ TakenBy = {}
  /\ Over /\ Leaves /\ UNCHANGED <<ini, spoiled>>

\* What it does to another screen that has the name is not followed up.
Apply ==
  /\ stage = "taken" /\ TakenBy # {} /\ stage' = "used"
  /\ IF Ours \notin TakenBy THEN UNCHANGED svars /\ spoiled' = TRUE
     ELSE \E modes \in {offered, {}}, result \in {"done", "sizeOnly", "refused"} :
            /\ ApplyDisplay(opt, Others, modes, result)
            /\ spoiled' = (spoiled \/ opt.fixed \/ chosen \notin modes \/ result = "refused")
  /\ Failed
  /\ UNCHANGED <<present, shown, turn, opt, before, taken, bounds, chosen, naming>>

\* Cleanup: the size of whichever display has the name by now is saved if it
\* can be read and the file can be written.
Cleanup ==
  /\ stage = "used" /\ Over /\ Leaves
  /\ \/ /\ opt.save
        /\ \E t \in TakenBy : /\ SaveState(opt, IF t = Ours THEN mode ELSE SizeOf[t])
                            /\ spoiled' = (spoiled \/ t # Ours)
     \/ ini' = ini /\ spoiled' = (spoiled \/ ini # chosen)

\* The process ends anywhere and the driver drops the display.
Crash ==
  /\ stage # "out" /\ Over /\ Leaves
  /\ ini' = ini /\ spoiled' = (spoiled \/ ini # chosen)

-----------------------------------------------------------------------------
(* The user and other runs of the program.                                 *)

ChooseSize ==
  /\ focus = "sizes" /\ stage = "used" /\ shown[Ours] # Dark
  /\ mode' \in offered \ {mode} /\ chosen' = mode' /\ spoiled' = FALSE
  /\ UNCHANGED <<tvars, registry, offered, ini, place, create, bounds, naming>>

Topology ==
  /\ focus = "topology"
  /\ \/ \E key \in Keys, on \in BOOLEAN : SetTargetActive(key, on)
     \/ \E key \in Keys, gpu \in Gpus : Route(key, gpu)
     \/ \E key \in Keys, dmdo \in Turns : Orient(key, dmdo)
     \/ \E t \in Targets, p \in Paths \cup {Dark} : WindowsSets(t, p)
  /\ UNCHANGED <<svars, create, bounds, past>>
  /\ Renumber

\* Next to sizes, screens only come and go.
Screens ==
  /\ focus = "sizes" /\ stage \in {"out", "used"}
  /\ \E t \in Targets \ {Ours}, p \in Settled \cup {Dark} : WindowsSets(t, p)
  /\ UNCHANGED <<svars, create, bounds, past>>
  /\ Renumber

Preset ==
  /\ focus = "sizes" /\ presets < MaxPresets /\ presets' = presets + 1
  /\ \/ Clear
     \/ \E m \in Specs : SetPreset(m) \/ AddPreset(m)
     \/ \E i \in SlotNos : RemovePreset(i)
  /\ UNCHANGED <<tvars, offered, ini, mode, place, create, focus, past, naming>>

Next ==
  \/ Insert \/ Found \/ Ask \/ NotFound \/ Gone \/ Apply \/ Cleanup \/ Crash
  \/ ChooseSize \/ Topology \/ Screens \/ Preset

Spec == Init /\ [][Next]_vars

TypeOK ==
  /\ TopologyOK /\ ScreenOK
  /\ stage \in {"out", "arrived", "asked", "taken", "used", "again"}
  /\ opt \in Options /\ before \subseteq AllNames /\ taken \in AllNames \cup {NoName}
  /\ name \in Namings(shown)
  /\ focus \in {"topology", "sizes"} /\ presets \in 0 .. MaxPresets
  /\ renumbers \in 0 .. MaxRenumber
  /\ chosen \in Usable \cup {NoMode} /\ {spoiled, disturbed} \subseteq BOOLEAN

-----------------------------------------------------------------------------
\* "The precise way only touches the one display": no command of the program
\* lights, darkens, moves to another card or turns a display it does not
\* name, whatever stale paths Windows lists and in whatever order.  Only the
\* fallback, the extension of the whole desktop, does.
OthersUntouched ==
  [][said'.cmd \notin {"none", "extend"}
       => \A t \in Targets \ said'.key : shown'[t] = shown[t] /\ turn'[t] = turn[t]]_vars

\* A display that was taken off the desktop is dark on all its paths ("the
\* panel is still lit after the stop"), with several paths to it in use or
\* several displays of the name.
OffMeansDark == said.cmd = "off" => said.key \cap LitTargets = {}

\* "Whatever you set in the Windows settings is reproduced at every insertion
\* and never overwritten by a default", over any number of insertions and
\* changes of the presets.  A crash, a driver that has lost the mode, a change
\* Windows refuses, --vdd-fixed and another screen that has the device name are
\* not provided for.
SizeSurvives == (stage = "used" /\ chosen # NoMode /\ ~spoiled) => mode = chosen

\* The place ApplyDisplay computes is free, also after the topology has
\* changed; a fallback mode wider than the wanted one it does not allow for.
PlacedApart ==
  [][stage = "taken" /\ stage' = "used" /\ place' # place
        /\ (Applies(opt, offered) => mode'.w =< Wanted(opt).w)
       => ~Overlaps(place', mode'.w, Others)]_vars

\* No other screen has the device name Create took for its display and Cleanup
\* reads the size by, from the first attempt to the last, unless another screen
\* has come, been moved to another card or been renumbered meanwhile.
TakenIsOurs == stage \in {"taken", "used"} /\ ~disturbed => TakenBy \subseteq {Ours}

=============================================================================
