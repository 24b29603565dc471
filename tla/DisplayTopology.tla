---------------------------- MODULE DisplayTopology ----------------------------
(***************************************************************************)
(* The display topology of Windows as the sender reads and submits it      *)
(* (the Ccd functions of subscreen_sender.cpp).  A display is reached over *)
(* paths, of different graphics cards or left over from former sessions,   *)
(* which QueryDisplayConfig lists in no fixed order; the active ones make  *)
(* up the desktop.                                                         *)
(*                                                                         *)
(* A command names displays by a key, a part of their names, so a key is   *)
(* here the set of displays it matches.  Windows takes a submitted set of  *)
(* paths as it is or refuses it; it refuses one with two paths to the same *)
(* display.  A path submitted without its mode comes up unturned.          *)
(***************************************************************************)
EXTENDS Naturals, FiniteSets

CONSTANTS Targets,  \* displays
          Paths,    \* records with the fields tgt, gpu and copy
          Gpus,     \* graphics cards
          Parsec,   \* the displays CcdLooksLikeParsec accepts
          Turns,    \* orientations
          Dark, Unturned

ASSUME TopologyAssumption ==
  /\ Paths \subseteq [tgt : Targets, gpu : Gpus, copy : Nat]
  /\ Dark \notin Paths /\ Unturned \in Turns /\ Parsec \subseteq Targets

VARIABLES
  present,  \* displays whose targetAvailable is set
  shown,    \* for every display the active path to it, or Dark
  turn,     \* orientation of every display
  said      \* what the last step reported done, and of which displays

tvars == <<present, shown, turn, said>>

Active == {p \in Paths : shown[p.tgt] = p}
LitTargets == {t \in Targets : shown[t] # Dark}

Nothing == [cmd |-> "none", key |-> {}]
Done(cmd, key) == said' = [cmd |-> cmd, key |-> key]
Failed == said' = Nothing

Commands == {"none", "on", "off", "gpu", "turn", "activate", "extend"}

\* A display is lit over a path to it, and only while it is there.
TopologyOK ==
  /\ present \subseteq Targets /\ LitTargets \subseteq present
  /\ shown \in [Targets -> Paths \cup {Dark}]
  /\ \A t \in LitTargets : shown[t].tgt = t
  /\ turn \in [Targets -> Turns]
  /\ said \in [cmd : Commands, key : SUBSET Targets]

\* The available paths whose display the key matches.
Matches(key) == {p \in Paths : p.tgt \in present \cap key}

-----------------------------------------------------------------------------
(* External: SetDisplayConfig.                                             *)

PathsTo(t, want) == {p \in want : p.tgt = t}

Acceptable(want) == \A t \in Targets : Cardinality(PathsTo(t, want)) =< 1

\* The supplied configuration is taken; fresh are the displays it lights anew.
Supply(want, turned) ==
  /\ Acceptable(want)
  /\ shown' = [t \in Targets |-> IF PathsTo(t, want) = {} THEN Dark
                                 ELSE CHOOSE p \in PathsTo(t, want) : TRUE]
  /\ turn' = turned

Unmoved == UNCHANGED <<shown, turn>>

\* SDC_TOPOLOGY_EXTEND: every display that is there is lit, over some path.
Extend ==
  /\ \E path \in [present \ LitTargets -> Paths] :
       /\ \A t \in present \ LitTargets : path[t].tgt = t
       /\ shown' = [t \in Targets |-> IF t \in present \ LitTargets THEN path[t] ELSE shown[t]]
  /\ UNCHANGED turn

-----------------------------------------------------------------------------
(* CcdSetTargetActive, for --topology on / off and the control window.     *)

\* Slip: only the first path found is looked at.
SetTargetActiveFirst(key, on) ==
  LET cmd == IF on THEN "on" ELSE "off" IN
  /\ UNCHANGED present
  /\ IF Matches(key) = {} THEN Unmoved /\ Failed
     ELSE \E p \in Matches(key) :
       IF on = (p \in Active) THEN Unmoved /\ Done(cmd, key)
       ELSE LET want == IF on THEN Active \cup {p} ELSE Active \ {p}
            IN \/ want # {} /\ Supply(want, turn) /\ Done(cmd, key)
               \/ Unmoved /\ Failed

\* Slip: the active paths are not submitted along with the new one.
SetTargetActiveAlone(key, on) ==
  LET cmd == IF on THEN "on" ELSE "off"
      active == Active \cap Matches(key)
  IN /\ UNCHANGED present
     /\ \/ /\ Matches(key) # {} /\ on = (active # {})
           /\ Unmoved /\ Done(cmd, key)
        \/ /\ on /\ active = {}
           /\ \E p \in Matches(key) : Supply({p}, [turn EXCEPT ![p.tgt] = Unturned])
           /\ Done(cmd, key)
        \/ /\ ~on /\ active # {}
           /\ Active \ active # {} /\ Supply(Active \ active, turn)
           /\ Done(cmd, key)
        \/ Unmoved /\ Failed

SetTargetActive(key, on) ==
  LET cmd == IF on THEN "on" ELSE "off"
      active == Active \cap Matches(key)
  IN /\ UNCHANGED present
     /\ \/ /\ Matches(key) # {} /\ on = (active # {})
           /\ Unmoved /\ Done(cmd, key)
        \/ /\ on /\ active = {}
           /\ \E p \in Matches(key) : Supply(Active \cup {p}, [turn EXCEPT ![p.tgt] = Unturned])
           /\ Done(cmd, key)
        \/ /\ ~on /\ active # {}
           /\ Active \ active # {} /\ Supply(Active \ active, turn)
           /\ Done(cmd, key)
        \/ /\ Matches(key) = {} \/ on # (active # {})
           /\ Unmoved /\ Failed

-----------------------------------------------------------------------------
(* CcdRouteTarget, for --topology gpu.  With several active matches the    *)
(* last of the list is moved; the goal is the first match on the card.     *)

Route(key, gpu) ==
  LET matches == Matches(key)
      goals == {p \in matches : p.gpu = gpu}
  IN /\ UNCHANGED present
     /\ \/ (goals = {} \/ Active \cap matches = {}) /\ Unmoved /\ Failed
        \/ \E dst \in goals, old \in Active \cap matches :
             IF dst = old THEN Unmoved /\ Done("gpu", key)
             ELSE \/ /\ dst \notin Active  \* else it would be listed twice
                     /\ Supply((Active \ {old}) \cup {dst}, [turn EXCEPT ![dst.tgt] = turn[old.tgt]])
                     /\ Done("gpu", key)
                  \/ Unmoved /\ Failed

-----------------------------------------------------------------------------
(* SetPanelOrientation.                                                    *)

Orient(key, dmdo) ==
  /\ UNCHANGED <<present, shown>>
  /\ \/ \E t \in LitTargets \cap key :
          turn' = [turn EXCEPT ![t] = dmdo] /\ Done("turn", key)
     \/ UNCHANGED turn /\ Failed

-----------------------------------------------------------------------------
(* CcdActivateParsecTarget: the first available match of the list decides. *)

ActivateParsec ==
  /\ UNCHANGED present
  /\ \/ Matches(Parsec) = {} /\ Unmoved /\ Failed
     \/ \E p \in Matches(Parsec) :
          \/ p \in Active /\ Unmoved /\ Done("activate", Parsec)
          \/ /\ p \notin Active
             /\ \/ /\ Supply(Active \cup {p}, [turn EXCEPT ![p.tgt] = Unturned])
                   /\ Done("activate", Parsec)
                \/ Extend /\ Done("extend", Parsec)
                \/ Unmoved /\ Failed

-----------------------------------------------------------------------------
(* The user at the Windows settings, a screen that is plugged in or out.   *)

\* Windows keeps one display lit as long as there is one.
WindowsSets(t, path) ==
  /\ t \in present /\ path \in PathsTo(t, Paths) \cup {Dark} /\ path # shown[t]
  /\ shown' = [shown EXCEPT ![t] = path]
  /\ \E s \in present : shown'[s] # Dark
  /\ Failed
  /\ UNCHANGED <<present, turn>>

=============================================================================
