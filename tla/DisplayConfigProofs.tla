------------------------- MODULE DisplayConfigProofs -------------------------
(* Proofs about DisplayConfig for any displays, paths, graphics cards,     *)
(* keys and sizes: a command changes the display it names and no other,    *)
(* off is dark, the display taken is the virtual one, its size survives,   *)
(* and the place it is given is free.                                      *)
EXTENDS DisplayConfig, FiniteSetTheorems, WellFoundedInduction, TLAPS

-----------------------------------------------------------------------------
(* Finite sets of integers.                                                 *)

Family(T, S) == T # {} /\ \A U \in T : U \subseteq S

\* Of the subsets in T, one has no other inside.
LEMMA HasMinimal ==
  ASSUME NEW S, IsFiniteSet(S), NEW T, Family(T, S)
  PROVE  \E U \in T : \A V \in T : V \subseteq U => V = U
<1>1. IsWellFoundedOn(StrictSubsetOrdering(S), SUBSET S)
  BY FS_StrictSubsetOrderingWellFounded, FS_FiniteSubsetsOfFinite
<1>2. PICK U \in T : \A V \in T : ~(<<V, U>> \in StrictSubsetOrdering(S))
  BY <1>1, WFMin DEF Family
<1>3. ASSUME NEW V \in T, V \subseteq U PROVE V = U
  <2>1. <<V, U>> \in (SUBSET S) \X (SUBSET S)
    BY Zenon DEF Family
  <2>. QED BY <1>2, <1>3, <2>1 DEF StrictSubsetOrdering
<1>. QED BY <1>3

LEMMA HasGreatest ==
  ASSUME NEW S \in SUBSET Int, IsFiniteSet(S), S # {}
  PROVE  \E x \in S : \A y \in S : y =< x
<1> DEFINE Beyond(x) == {y \in S : y > x}
           T == {Beyond(x) : x \in S}
<1>1. Family(T, S)
  BY DEF Family
<1> HIDE DEF T
<1>2. \E U \in T : \A V \in T : V \subseteq U => V = U
  BY <1>1, HasMinimal
<1>3. PICK U \in T : \A V \in T : V \subseteq U => V = U
  BY <1>2
<1>4. PICK x \in S : U = Beyond(x)
  BY <1>3 DEF T
<1>5. ASSUME NEW y \in S, y > x PROVE FALSE
  <2>1. x \in Int /\ y \in Int /\ \A z \in S : z \in Int
    OBVIOUS
  <2>2. y \in Beyond(x) /\ y \notin Beyond(y)
    BY <1>5, <2>1
  <2>3. ASSUME NEW z \in Beyond(y) PROVE z \in Beyond(x)
    BY <1>5, <2>1
  <2>4. Beyond(y) \in T
    BY DEF T
  <2>. QED BY <1>3, <1>4, <2>2, <2>3, <2>4
<1>6. ASSUME NEW y \in S PROVE y =< x
  <2>1. x \in Int /\ y \in Int
    OBVIOUS
  <2>. QED BY <1>5, <2>1
<1>. QED BY <1>6

LEMMA HasLeast ==
  ASSUME NEW S \in SUBSET Int, IsFiniteSet(S), S # {}
  PROVE  \E x \in S : \A y \in S : x =< y
<1> DEFINE Beyond(x) == {y \in S : y < x}
           T == {Beyond(x) : x \in S}
<1>1. Family(T, S)
  BY DEF Family
<1> HIDE DEF T
<1>2. \E U \in T : \A V \in T : V \subseteq U => V = U
  BY <1>1, HasMinimal
<1>3. PICK U \in T : \A V \in T : V \subseteq U => V = U
  BY <1>2
<1>4. PICK x \in S : U = Beyond(x)
  BY <1>3 DEF T
<1>5. ASSUME NEW y \in S, y < x PROVE FALSE
  <2>1. x \in Int /\ y \in Int /\ \A z \in S : z \in Int
    OBVIOUS
  <2>2. y \in Beyond(x) /\ y \notin Beyond(y)
    BY <1>5, <2>1
  <2>3. ASSUME NEW z \in Beyond(y) PROVE z \in Beyond(x)
    BY <1>5, <2>1
  <2>4. Beyond(y) \in T
    BY DEF T
  <2>. QED BY <1>3, <1>4, <2>2, <2>3, <2>4
<1>6. ASSUME NEW y \in S PROVE x =< y
  <2>1. x \in Int /\ y \in Int
    OBVIOUS
  <2>. QED BY <1>5, <2>1
<1>. QED BY <1>6

-----------------------------------------------------------------------------
(* Sets of paths.                                                           *)

\* The active paths to a display: the one it is lit over, or none.
LEMMA ActiveTo ==
  ASSUME TopologyOK, NEW t \in Targets
  PROVE  PathsTo(t, Active) = IF shown[t] = Dark THEN {} ELSE {shown[t]}
<1> USE TopologyAssumption DEF TopologyAssumption, TopologyOK, PathsTo, Active, LitTargets
<1>1. CASE shown[t] = Dark
  BY <1>1
<1>2. CASE shown[t] # Dark
  <2>1. shown[t] \in Paths /\ shown[t].tgt = t
    BY <1>2
  <2>. QED BY <1>2, <2>1
<1>. QED BY <1>1, <1>2

\* What is submitted is shown: a display all of whose submitted paths are the
\* same one is lit over it, a display without one is dark.
LEMMA SupplyShows ==
  ASSUME NEW want \in SUBSET Paths, NEW turned, Supply(want, turned), NEW t \in Targets
  PROVE  /\ PathsTo(t, want) = {} <=> shown'[t] = Dark
         /\ \A q : PathsTo(t, want) = {q} => shown'[t] = q
         /\ shown'[t] # Dark => shown'[t] \in PathsTo(t, want)
<1> USE TopologyAssumption DEF TopologyAssumption
<1>1. shown'[t] = IF PathsTo(t, want) = {} THEN Dark ELSE CHOOSE p \in PathsTo(t, want) : TRUE
  BY DEF Supply
<1>2. PathsTo(t, want) # {} => (CHOOSE p \in PathsTo(t, want) : TRUE) \in PathsTo(t, want)
  OBVIOUS
<1>3. Dark \notin PathsTo(t, want)
  BY DEF PathsTo
<1>. QED BY <1>1, <1>2, <1>3

\* A display keeps its path if the paths submitted for it are the active ones.
LEMMA SupplySame ==
  ASSUME TopologyOK, NEW want \in SUBSET Paths, NEW turned, Supply(want, turned),
         NEW t \in Targets, PathsTo(t, want) = PathsTo(t, Active)
  PROVE  shown'[t] = shown[t]
<1>1. CASE shown[t] = Dark
  BY <1>1, ActiveTo, SupplyShows
<1>2. CASE shown[t] # Dark
  BY <1>2, ActiveTo, SupplyShows
<1>. QED BY <1>1, <1>2

\* A submission of paths to displays that are there keeps the types.
LEMMA SupplyTyped ==
  ASSUME TopologyOK, NEW want \in SUBSET Paths, \A p \in want : p.tgt \in present,
         NEW turned \in [Targets -> Turns], Supply(want, turned), UNCHANGED present,
         said' \in [cmd : Commands, key : SUBSET Targets]
  PROVE  TopologyOK'
<1> USE TopologyAssumption DEF TopologyAssumption
<1>1. turn' = turned /\ present' = present
  BY DEF Supply
<1>2. shown' = [t \in Targets |-> shown'[t]]
  BY DEF Supply
<1>3. ASSUME NEW t \in Targets, shown'[t] # Dark
      PROVE  shown'[t] \in want /\ shown'[t].tgt = t /\ t \in present
  <2>1. shown'[t] \in PathsTo(t, want)
    BY <1>3, SupplyShows
  <2>. QED BY <2>1 DEF PathsTo
<1>4. shown' \in [Targets -> Paths \cup {Dark}]
  BY <1>2, <1>3
<1>. QED BY <1>1, <1>3, <1>4 DEF TopologyOK, LitTargets

-----------------------------------------------------------------------------
(* What a command may do.                                                   *)

\* The displays the step names are the only ones that have changed, unless
\* the whole desktop was extended; and one put off is dark.
Lawful ==
  /\ TopologyOK'
  /\ said'.cmd \notin {"none", "extend"}
       => \A t \in Targets \ said'.key : shown'[t] = shown[t] /\ turn'[t] = turn[t]
  /\ OffMeansDark'

\* A step that reports nothing done is lawful if it keeps the types.
LEMMA NothingIsLawful ==
  ASSUME TopologyOK', said' = Nothing
  PROVE  Lawful
BY DEF Lawful, Nothing, OffMeansDark

LEMMA ReportTyped ==
  /\ Nothing \in [cmd : Commands, key : SUBSET Targets]
  /\ \A cmd \in Commands, key \in SUBSET Targets :
       [cmd |-> cmd, key |-> key] \in [cmd : Commands, key : SUBSET Targets]
<1>1. {} \in SUBSET Targets
  OBVIOUS
<1>2. "none" \in Commands
  BY DEF Commands
<1>. QED BY <1>1, <1>2, Zenon DEF Nothing

\* Nothing submitted, nothing done.
LEMMA UnmovedIsLawful ==
  ASSUME TopologyOK, UNCHANGED present, Unmoved,
         said' = Nothing \/ \E cmd \in {"on", "gpu", "activate"}, key \in SUBSET Targets :
                               Done(cmd, key)
  PROVE  Lawful
<1>1. said' \in [cmd : Commands, key : SUBSET Targets]
  <2>1. "on" \in Commands /\ "gpu" \in Commands /\ "activate" \in Commands
    BY DEF Commands
  <2>. QED BY <2>1, ReportTyped, Zenon DEF Done
<1>2. TopologyOK'
  BY <1>1 DEF TopologyOK, Unmoved, LitTargets
<1>3. said'.cmd # "off"
  BY DEF Done, Nothing
<1>. QED BY <1>2, <1>3 DEF Lawful, OffMeansDark, Unmoved

\* One path more, to a display that the key names and that is dark.
LEMMA LightIsLawful ==
  ASSUME TopologyOK, UNCHANGED present, NEW key \in SUBSET Targets, NEW p \in Matches(key),
         Supply(Active \cup {p}, [turn EXCEPT ![p.tgt] = Unturned]),
         NEW cmd \in {"on", "activate"}, Done(cmd, key)
  PROVE  Lawful
<1> USE TopologyAssumption DEF TopologyAssumption
<1> DEFINE want == Active \cup {p}
           turned == [turn EXCEPT ![p.tgt] = Unturned]
<1>1. p \in Paths /\ p.tgt \in present /\ p.tgt \in key /\ p.tgt \in Targets
  BY DEF Matches, TopologyOK
<1>2. want \in SUBSET Paths /\ \A q \in want : q.tgt \in present
  BY <1>1 DEF Active, TopologyOK, LitTargets
<1>3. turned \in [Targets -> Turns]
  BY <1>1 DEF TopologyOK
<1>4. said' = [cmd |-> cmd, key |-> key]
  BY DEF Done
<1> HIDE DEF want, turned
<1>5. Supply(want, turned)
  BY DEF want, turned
<1>6. TopologyOK'
  <2>1. said' \in [cmd : Commands, key : SUBSET Targets]
    BY <1>4, ReportTyped DEF Commands
  <2>. QED BY <1>2, <1>3, <1>5, <2>1, SupplyTyped
<1>7. ASSUME NEW t \in Targets \ key PROVE shown'[t] = shown[t] /\ turn'[t] = turn[t]
  <2>1. t # p.tgt
    BY <1>1
  <2>2. PathsTo(t, want) = PathsTo(t, Active)
    BY <2>1 DEF want, PathsTo
  <2>3. shown'[t] = shown[t]
    BY <1>2, <1>5, <2>2, SupplySame
  <2>4. turn'[t] = turn[t]
    BY <1>5, <2>1 DEF Supply, turned, TopologyOK
  <2>. QED BY <2>3, <2>4
<1>. QED BY <1>4, <1>6, <1>7 DEF Lawful, OffMeansDark

LEMMA SetTargetActiveIsLawful ==
  ASSUME TopologyOK, NEW key \in SUBSET Targets, NEW on \in BOOLEAN, SetTargetActive(key, on)
  PROVE  Lawful
<1> USE TopologyAssumption DEF TopologyAssumption
<1> DEFINE cmd == IF on THEN "on" ELSE "off"
           active == Active \cap Matches(key)
<1>1. present' = present
  BY DEF SetTargetActive
<1>2. cmd \in {"on", "off"} /\ (cmd = "off" => ~on)
  OBVIOUS
<1>3. ASSUME active = {} PROVE key \cap LitTargets = {}
  <2> SUFFICES ASSUME NEW t \in key \cap LitTargets PROVE FALSE
    OBVIOUS
  <2>1. shown[t] \in Paths /\ shown[t].tgt = t /\ t \in present
    BY DEF TopologyOK, LitTargets
  <2>2. shown[t] \in active
    BY <2>1 DEF Active, Matches
  <2>. QED BY <1>3, <2>2
<1>4. CASE /\ Matches(key) # {} /\ on = (active # {})
           /\ Unmoved /\ Done(cmd, key)
  <2>1. CASE on
    BY <1>1, <1>4, <2>1, UnmovedIsLawful
  <2>2. CASE ~on
    <3>1. key \cap LitTargets = {}
      BY <1>3, <1>4, <2>2
    <3>2. said' = [cmd |-> cmd, key |-> key] /\ shown' = shown /\ turn' = turn
      BY <1>4 DEF Done, Unmoved
    <3>3. TopologyOK'
      <4>1. said' \in [cmd : Commands, key : SUBSET Targets]
        BY <1>2, <3>2, ReportTyped DEF Commands
      <4>. QED BY <1>1, <3>2, <4>1 DEF TopologyOK, LitTargets
    <3>. QED BY <3>1, <3>2, <3>3 DEF Lawful, OffMeansDark, LitTargets
  <2>. QED BY <2>1, <2>2
<1>5. CASE /\ on /\ active = {}
           /\ \E p \in Matches(key) : Supply(Active \cup {p}, [turn EXCEPT ![p.tgt] = Unturned])
           /\ Done(cmd, key)
  BY <1>1, <1>5, LightIsLawful
<1>6. CASE /\ ~on /\ active # {}
           /\ Active \ active # {} /\ Supply(Active \ active, turn)
           /\ Done(cmd, key)
  <2> DEFINE want == Active \ active
  <2>1. want \in SUBSET Paths /\ \A q \in want : q.tgt \in present
    BY DEF Active, TopologyOK, LitTargets
  <2>2. said' = [cmd |-> cmd, key |-> key] /\ turn \in [Targets -> Turns]
    BY <1>6 DEF Done, TopologyOK
  <2>3. TopologyOK'
    <3>1. said' \in [cmd : Commands, key : SUBSET Targets]
      BY <1>2, <2>2, ReportTyped DEF Commands
    <3>. QED BY <1>1, <1>6, <2>1, <2>2, <3>1, SupplyTyped
  <2>4. ASSUME NEW t \in Targets \ key PROVE shown'[t] = shown[t] /\ turn'[t] = turn[t]
    <3>1. PathsTo(t, want) = PathsTo(t, Active)
      BY DEF PathsTo, Matches
    <3>. QED BY <1>6, <2>1, <3>1, SupplySame DEF Supply
  <2>5. ASSUME NEW t \in key \cap Targets PROVE shown'[t] = Dark
    <3>1. PathsTo(t, want) = {}
      BY <2>1 DEF PathsTo, Matches, Active
    <3>. QED BY <1>6, <2>1, <3>1, SupplyShows
  <2>. QED BY <2>2, <2>3, <2>4, <2>5 DEF Lawful, OffMeansDark, LitTargets
<1>7. CASE Unmoved /\ Failed
  BY <1>1, <1>7, UnmovedIsLawful DEF Failed
<1>. QED BY <1>4, <1>5, <1>6, <1>7 DEF SetTargetActive

LEMMA RouteIsLawful ==
  ASSUME TopologyOK, NEW key \in SUBSET Targets, NEW gpu, Route(key, gpu)
  PROVE  Lawful
<1> USE TopologyAssumption DEF TopologyAssumption
<1>1. present' = present
  BY DEF Route
<1>2. CASE Unmoved /\ Failed
  BY <1>1, <1>2, UnmovedIsLawful DEF Failed
<1>3. CASE Unmoved /\ Done("gpu", key)
  BY <1>1, <1>3, UnmovedIsLawful
<1>4. ASSUME NEW dst \in Matches(key), NEW old \in Active \cap Matches(key),
             Supply((Active \ {old}) \cup {dst}, [turn EXCEPT ![dst.tgt] = turn[old.tgt]]),
             Done("gpu", key)
      PROVE  Lawful
  <2> DEFINE want == (Active \ {old}) \cup {dst}
             turned == [turn EXCEPT ![dst.tgt] = turn[old.tgt]]
  <2>1. /\ dst \in Paths /\ dst.tgt \in present \cap key /\ dst.tgt \in Targets
        /\ old \in Paths /\ old.tgt \in key /\ old.tgt \in Targets
    BY DEF Matches, TopologyOK
  <2>2. want \in SUBSET Paths /\ \A q \in want : q.tgt \in present
    BY <2>1 DEF Active, TopologyOK, LitTargets
  <2>3. turned \in [Targets -> Turns]
    BY <2>1 DEF TopologyOK
  <2>4. said' = [cmd |-> "gpu", key |-> key]
    BY <1>4 DEF Done
  <2> HIDE DEF want, turned
  <2>5. Supply(want, turned)
    BY <1>4 DEF want, turned
  <2>6. TopologyOK'
    <3>1. said' \in [cmd : Commands, key : SUBSET Targets]
      BY <2>4, ReportTyped DEF Commands
    <3>. QED BY <1>1, <2>2, <2>3, <2>5, <3>1, SupplyTyped
  <2>7. ASSUME NEW t \in Targets \ key PROVE shown'[t] = shown[t] /\ turn'[t] = turn[t]
    <3>1. t # dst.tgt /\ t # old.tgt
      BY <2>1
    <3>2. PathsTo(t, want) = PathsTo(t, Active)
      BY <3>1 DEF want, PathsTo
    <3>3. shown'[t] = shown[t]
      BY <2>2, <2>5, <3>2, SupplySame
    <3>4. turn'[t] = turn[t]
      BY <2>5, <3>1 DEF Supply, turned, TopologyOK
    <3>. QED BY <3>3, <3>4
  <2>. QED BY <2>4, <2>6, <2>7 DEF Lawful, OffMeansDark
<1>. QED BY <1>2, <1>3, <1>4 DEF Route

LEMMA OrientIsLawful ==
  ASSUME TopologyOK, NEW key \in SUBSET Targets, NEW dmdo \in Turns, Orient(key, dmdo)
  PROVE  Lawful
<1>1. present' = present /\ shown' = shown
  BY DEF Orient
<1>2. CASE UNCHANGED turn /\ Failed
  BY <1>1, <1>2, UnmovedIsLawful DEF Unmoved, Failed
<1>3. ASSUME NEW t \in LitTargets \cap key, turn' = [turn EXCEPT ![t] = dmdo], Done("turn", key)
      PROVE  Lawful
  <2>1. said' = [cmd |-> "turn", key |-> key]
    BY <1>3 DEF Done
  <2>2. said' \in [cmd : Commands, key : SUBSET Targets]
    BY <2>1, ReportTyped DEF Commands
  <2>3. TopologyOK'
    BY <1>1, <1>3, <2>2 DEF TopologyOK, LitTargets
  <2>4. \A u \in Targets \ key : turn'[u] = turn[u]
    BY <1>3 DEF TopologyOK
  <2>. QED BY <1>1, <2>1, <2>3, <2>4 DEF Lawful, OffMeansDark
<1>. QED BY <1>2, <1>3 DEF Orient

LEMMA ExtendTyped ==
  ASSUME TopologyOK, Extend, UNCHANGED present, said' \in [cmd : Commands, key : SUBSET Targets]
  PROVE  TopologyOK'
<1>1. PICK path \in [present \ LitTargets -> Paths] :
        /\ \A t \in present \ LitTargets : path[t].tgt = t
        /\ shown' = [t \in Targets |-> IF t \in present \ LitTargets THEN path[t] ELSE shown[t]]
  BY DEF Extend
<1>2. ASSUME NEW t \in Targets
      PROVE  /\ shown'[t] \in Paths \cup {Dark}
             /\ shown'[t] # Dark => shown'[t].tgt = t /\ t \in present
  <2>1. CASE t \in present \ LitTargets
    <3>1. shown'[t] = path[t] /\ path[t] \in Paths
      BY <1>1, <2>1
    <3>. QED BY <1>1, <2>1, <3>1
  <2>2. CASE t \notin present \ LitTargets
    BY <1>1, <2>2 DEF TopologyOK, LitTargets
  <2>. QED BY <2>1, <2>2
<1>3. shown' \in [Targets -> Paths \cup {Dark}]
  BY <1>1, <1>2
<1>4. turn' = turn
  BY DEF Extend
<1>. QED BY <1>2, <1>3, <1>4 DEF TopologyOK, LitTargets

LEMMA ActivateIsLawful ==
  ASSUME TopologyOK, ActivateParsec
  PROVE  Lawful
<1>1. present' = present /\ Parsec \in SUBSET Targets
  BY TopologyAssumption DEF ActivateParsec, TopologyAssumption
<1>2. CASE Unmoved /\ Failed
  BY <1>1, <1>2, UnmovedIsLawful DEF Failed
<1>3. CASE Unmoved /\ Done("activate", Parsec)
  BY <1>1, <1>3, UnmovedIsLawful
<1>4. ASSUME NEW p \in Matches(Parsec), Done("activate", Parsec),
             Supply(Active \cup {p}, [turn EXCEPT ![p.tgt] = Unturned])
      PROVE  Lawful
  BY <1>1, <1>4, LightIsLawful
<1>5. CASE Extend /\ Done("extend", Parsec)
  <2>1. said' = [cmd |-> "extend", key |-> Parsec]
    BY <1>5 DEF Done
  <2>2. said' \in [cmd : Commands, key : SUBSET Targets]
    BY <1>1, <2>1, ReportTyped DEF Commands
  <2>3. TopologyOK'
    BY <1>1, <1>5, <2>2, ExtendTyped
  <2>. QED BY <2>1, <2>3 DEF Lawful, OffMeansDark
<1>. QED BY <1>2, <1>3, <1>4, <1>5 DEF ActivateParsec

\* A display that Windows lights over a path to it, or darkens.
LEMMA OneDisplayTyped ==
  ASSUME TopologyOK, NEW t \in Targets, NEW path \in PathsTo(t, Paths) \cup {Dark},
         shown' = [shown EXCEPT ![t] = path], path # Dark => t \in present',
         LitTargets \ {t} \subseteq present', present' \subseteq Targets, turn' = turn,
         said' = Nothing
  PROVE  TopologyOK'
<1>1. said' \in [cmd : Commands, key : SUBSET Targets]
  BY ReportTyped
<1>2. shown' \in [Targets -> Paths \cup {Dark}]
  BY DEF TopologyOK, PathsTo
<1>3. \A u \in LitTargets' : u \in present' /\ shown'[u].tgt = u
  BY DEF TopologyOK, PathsTo, LitTargets
<1>. QED BY <1>1, <1>2, <1>3 DEF TopologyOK, LitTargets

LEMMA WindowsIsLawful ==
  ASSUME TopologyOK, NEW t \in Targets, NEW path, WindowsSets(t, path)
  PROVE  Lawful
<1>1. /\ path \in PathsTo(t, Paths) \cup {Dark} /\ shown' = [shown EXCEPT ![t] = path]
      /\ t \in present /\ present' = present /\ turn' = turn /\ said' = Nothing
  BY DEF WindowsSets, Failed
<1>2. TopologyOK'
  BY <1>1, OneDisplayTyped DEF TopologyOK
<1>. QED BY <1>1, <1>2, NothingIsLawful

-----------------------------------------------------------------------------
(* Creating and removing the virtual display.                               *)

LEMMA OursIsTarget == Ours \in Targets
BY TopologyAssumption, ConfigAssumption DEF TopologyAssumption, ConfigAssumption

LEMMA InsertIsLawful ==
  ASSUME TopologyOK, Insert
  PROVE  Lawful
<1> USE OursIsTarget
<1>1. present' = present \cup {Ours} /\ turn' = turn /\ said' = Nothing
  BY DEF Insert, Failed
<1>2. CASE shown' = shown
  <2>1. said' \in [cmd : Commands, key : SUBSET Targets]
    BY <1>1, ReportTyped
  <2>2. TopologyOK'
    BY <1>1, <1>2, <2>1 DEF TopologyOK, LitTargets
  <2>. QED BY <1>1, <2>2, NothingIsLawful
<1>3. ASSUME NEW p \in PathsTo(Ours, Paths), shown' = [shown EXCEPT ![Ours] = p]
      PROVE  Lawful
  <2>1. TopologyOK'
    <3>1. LitTargets \ {Ours} \subseteq present' /\ present' \subseteq Targets
      BY <1>1 DEF TopologyOK
    <3>. QED BY <1>1, <1>3, <3>1, OneDisplayTyped
  <2>. QED BY <1>1, <2>1, NothingIsLawful
<1>. QED BY <1>2, <1>3 DEF Insert

LEMMA LeavesIsLawful ==
  ASSUME TopologyOK, Leaves
  PROVE  Lawful
<1> USE OursIsTarget, TopologyAssumption DEF TopologyAssumption
<1> DEFINE dark == [shown EXCEPT ![Ours] = Dark]
<1>1. present' = present \ {Ours} /\ turn' = turn /\ said' = Nothing
  BY DEF Leaves, Failed
<1>2. said' \in [cmd : Commands, key : SUBSET Targets]
  BY <1>1, ReportTyped
<1>3. CASE shown' = dark
  <2>1. shown' \in [Targets -> Paths \cup {Dark}] /\ \A t \in LitTargets' : t \in LitTargets \ {Ours}
    BY <1>3 DEF TopologyOK, LitTargets
  <2>2. \A t \in LitTargets' : t \in present' /\ shown'[t].tgt = t
    BY <1>1, <1>3, <2>1 DEF TopologyOK, LitTargets
  <2>3. TopologyOK'
    BY <1>1, <1>2, <2>1, <2>2 DEF TopologyOK, LitTargets
  <2>. QED BY <1>1, <2>3, NothingIsLawful
<1>4. ASSUME NEW p \in Paths, p.tgt \in present', shown' = [dark EXCEPT ![p.tgt] = p],
             LitTargets \subseteq {Ours}
      PROVE  Lawful
  <2>1. p.tgt \in Targets /\ p.tgt # Ours
    BY <1>1, <1>4
  <2>2. shown' \in [Targets -> Paths \cup {Dark}] /\ shown'[p.tgt] = p
    BY <1>4, <2>1 DEF TopologyOK
  <2>3. \A t \in LitTargets' : t = p.tgt
    BY <1>4, <2>1 DEF TopologyOK, LitTargets
  <2>4. TopologyOK'
    BY <1>1, <1>2, <1>4, <2>1, <2>2, <2>3 DEF TopologyOK, LitTargets
  <2>. QED BY <1>1, <2>4, NothingIsLawful
<1>. QED BY <1>3, <1>4 DEF Leaves

\* Every step of the program and of Windows is lawful, or leaves the topology
\* and the last report alone.
LEMMA StepIsLawful ==
  ASSUME TopologyOK, [Next]_vars
  PROVE  Lawful \/ UNCHANGED tvars
<1> USE ConfigAssumption DEF ConfigAssumption
<1>1. CASE Insert
  BY <1>1, InsertIsLawful
<1>2. CASE Found \/ Apply
  <2>1. UNCHANGED <<present, shown, turn>> /\ said' = Nothing
    BY <1>2 DEF Found, Apply, Failed
  <2>. QED BY <2>1, UnmovedIsLawful DEF Unmoved
<1>3. CASE Ask
  BY <1>3, ActivateIsLawful DEF Ask
<1>4. CASE NotFound \/ Gone \/ Cleanup \/ Crash
  BY <1>4, LeavesIsLawful DEF NotFound, Gone, Cleanup, Crash
<1>5. CASE ChooseSize \/ Preset
  BY <1>5 DEF ChooseSize, Preset
<1>6. CASE Topology
  BY <1>6, SetTargetActiveIsLawful, RouteIsLawful, OrientIsLawful, WindowsIsLawful DEF Topology
<1>7. CASE Screens
  BY <1>7, WindowsIsLawful DEF Screens
<1>8. CASE UNCHANGED vars
  BY <1>8 DEF vars
<1>. QED BY <1>1, <1>2, <1>3, <1>4, <1>5, <1>6, <1>7, <1>8 DEF Next

LEMMA TopologyInductive ==
  /\ Init => TopologyOK
  /\ TopologyOK /\ [Next]_vars => TopologyOK'
<1>1. ASSUME Init PROVE TopologyOK
  <2>1. said \in [cmd : Commands, key : SUBSET Targets]
    BY <1>1, ReportTyped DEF Init
  <2>2. turn \in [Targets -> Turns]
    BY <1>1, TopologyAssumption DEF Init, TopologyAssumption
  <2>3. LitTargets \subseteq present
    BY <1>1 DEF Init, LitTargets
  <2>. QED BY <1>1, <2>1, <2>2, <2>3 DEF Init, TopologyOK
<1>2. ASSUME TopologyOK, [Next]_vars PROVE TopologyOK'
  <2>1. CASE Lawful
    BY <2>1 DEF Lawful
  <2>2. CASE UNCHANGED tvars
    BY <1>2, <2>2 DEF tvars, TopologyOK, LitTargets
  <2>. QED BY <1>2, <2>1, <2>2, StepIsLawful
<1>. QED BY <1>1, <1>2

\* The comment "the precise way only touches the one display" is true of every
\* command of the program, for every set of paths Windows may list: a display
\* the command does not name keeps its path, its card and its orientation.
THEOREM OnlyTheNamed == Spec => OthersUntouched
<1>1. TopologyOK /\ [Next]_vars
        => [said'.cmd \notin {"none", "extend"}
              => \A t \in Targets \ said'.key : shown'[t] = shown[t] /\ turn'[t] = turn[t]]_vars
  BY StepIsLawful DEF Lawful, tvars
<1>. QED BY <1>1, TopologyInductive, PTL DEF Spec, OthersUntouched

\* A display the program has taken off the desktop is dark, on all its paths:
\* no stale path to the panel keeps it lit.
THEOREM OffIsDark == Spec => []OffMeansDark
<1>1. Init => OffMeansDark
  BY DEF Init, OffMeansDark, Nothing
<1>2. TopologyOK /\ OffMeansDark /\ [Next]_vars => OffMeansDark'
  BY StepIsLawful DEF Lawful, tvars, OffMeansDark, LitTargets
<1>. QED BY <1>1, <1>2, TopologyInductive, PTL DEF Spec

-----------------------------------------------------------------------------
(* The device names, and the display taken.                                 *)

\* Lit displays have names of their cards, no two the same.
NamesOK == name \in Namings(shown) /\ renumbers \in 0 .. MaxRenumber /\ disturbed \in BOOLEAN

\* What a step does to the names.
Named == Renumber \/ UNCHANGED <<shown, naming>>

LEMMA StepIsNamed ==
  ASSUME [Next]_vars
  PROVE  Named
<1> USE DEF Named
<1>1. CASE Insert \/ Ask
  BY <1>1 DEF Insert, Ask
<1>2. CASE NotFound \/ Gone \/ Cleanup \/ Crash
  BY <1>2 DEF NotFound, Gone, Cleanup, Crash, Leaves
<1>3. CASE Found \/ Apply
  BY <1>3 DEF Found, Apply
<1>4. CASE ChooseSize \/ Preset
  BY <1>4 DEF ChooseSize, Preset, tvars
<1>5. CASE Topology \/ Screens
  BY <1>5 DEF Topology, Screens
<1>6. CASE UNCHANGED vars
  BY <1>6 DEF vars, tvars
<1>. QED BY <1>1, <1>2, <1>3, <1>4, <1>5, <1>6 DEF Next

LEMMA NamesInductive ==
  /\ Init => NamesOK
  /\ NamesOK /\ [Next]_vars => NamesOK'
<1>1. ASSUME Init PROVE NamesOK
  <2>1. name \in Namings(shown) /\ renumbers = 0 /\ disturbed = FALSE
    BY <1>1 DEF Init
  <2>2. renumbers \in 0 .. MaxRenumber
    BY <2>1, ConfigAssumption DEF ConfigAssumption
  <2>. QED BY <2>1, <2>2 DEF NamesOK
<1>2. ASSUME NamesOK, [Next]_vars PROVE NamesOK'
  <2>1. CASE UNCHANGED <<shown, naming>>
    BY <1>2, <2>1 DEF NamesOK, naming
  <2>2. CASE Renumber
    <3>1. name' \in Namings(shown')
      BY <1>2, <2>2 DEF NamesOK, Renumber
    <3>2. renumbers' \in Nat /\ renumbers' =< MaxRenumber
      BY <1>2, <2>2, ConfigAssumption DEF NamesOK, Renumber, ConfigAssumption
    <3>3. disturbed' \in BOOLEAN
      BY <2>2 DEF Renumber
    <3>. QED BY <3>1, <3>2, <3>3, ConfigAssumption DEF NamesOK, ConfigAssumption
  <2>. QED BY <1>2, <2>1, <2>2, StepIsNamed DEF Named
<1>. QED BY <1>1, <1>2

LEMMA NameOfLit ==
  ASSUME NamesOK, NEW t \in LitTargets
  PROVE  name[t] \in AllNames
BY DEF NamesOK, Namings, LitTargets

\* While the virtual display is there, a step that does not disturb lights no
\* other screen and gives none another name.
LEMMA UndisturbedKeeps ==
  ASSUME Named, ~disturbed', stage' # "out", NEW t \in LitTargets' \ {Ours}
  PROVE  ~disturbed /\ t \in LitTargets /\ name'[t] = name[t]
<1>1. CASE Renumber
  BY <1>1 DEF Renumber
<1>2. CASE UNCHANGED <<shown, naming>>
  BY <1>2 DEF naming, LitTargets
<1>. QED BY <1>1, <1>2 DEF Named

LEMMA UndisturbedBefore ==
  ASSUME Named, ~disturbed', stage' # "out"
  PROVE  ~disturbed
BY DEF Named, Renumber, naming

Trying == Waiting \/ stage = "again"

\* While Create tries and nothing has disturbed it, the names it noted before
\* are those of all the other screens.
OnlyOursNew == Trying /\ ~disturbed => \A t \in LitTargets \ {Ours} : name[t] \in before

LEMMA OnlyOursNewInductive ==
  /\ Init => OnlyOursNew /\ TakenIsOurs
  /\ OnlyOursNew /\ TakenIsOurs /\ [Next]_vars => (OnlyOursNew /\ TakenIsOurs)'
<1> USE DEF Trying, Waiting
<1>1. Init => OnlyOursNew /\ TakenIsOurs
  BY DEF Init, OnlyOursNew, TakenIsOurs
<1>2. ASSUME OnlyOursNew, TakenIsOurs, [Next]_vars
      PROVE  (OnlyOursNew /\ TakenIsOurs)'
  <2>1. Named
    BY <1>2, StepIsNamed
  <2>2. ASSUME Trying, Trying', before' = before PROVE OnlyOursNew'
    BY <1>2, <2>1, <2>2, UndisturbedKeeps DEF OnlyOursNew
  <2>3. ASSUME stage \in {"taken", "used"}, stage' \in {"taken", "used"}, taken' = taken
        PROVE  TakenIsOurs'
    BY <1>2, <2>1, <2>3, UndisturbedBefore, UndisturbedKeeps DEF TakenIsOurs, TakenBy
  <2>4. CASE Insert
    <3>1. stage' = "arrived"
      BY <2>4 DEF Insert
    <3>2. CASE stage = "again"
      <4>1. before' = before
        BY <2>4, <3>2 DEF Insert
      <4>. QED BY <2>2, <3>1, <3>2, <4>1 DEF TakenIsOurs
    <3>3. CASE stage = "out"
      <4>1. before' = {name[t] : t \in LitTargets}
        BY <2>4, <3>3 DEF Insert
      <4>. QED BY <2>1, <3>1, <4>1, UndisturbedKeeps DEF OnlyOursNew, TakenIsOurs
    <3>. QED BY <2>4, <3>2, <3>3 DEF Insert
  <2>5. CASE Found
    <3>1. stage' = "taken" /\ UNCHANGED <<shown, name, disturbed>> /\ Waiting
      BY <2>5 DEF Found, naming
    <3>2. PICK u \in NewOutputs : taken' = name[u]
      BY <2>5 DEF Found
    <3>3. name[u] \notin before
      BY DEF NewOutputs
    <3>4. ~disturbed => \A t \in LitTargets \ {Ours} : name[t] # name[u]
      BY <1>2, <3>1, <3>3 DEF OnlyOursNew
    <3>5. TakenBy' = {t \in LitTargets : name[t] = name[u]}
      BY <3>1, <3>2 DEF TakenBy, LitTargets
    <3>. QED BY <3>1, <3>4, <3>5 DEF OnlyOursNew, TakenIsOurs
  <2>6. CASE Ask
    BY <2>2, <2>6 DEF Ask, TakenIsOurs
  <2>7. CASE Gone \/ Cleanup \/ Crash
    BY <2>7 DEF Gone, Cleanup, Crash, Over, OnlyOursNew, TakenIsOurs
  <2>8. CASE NotFound
    BY <2>2, <2>8 DEF NotFound, Over, OnlyOursNew, TakenIsOurs
  <2>9. CASE Apply
    BY <2>3, <2>9 DEF Apply, OnlyOursNew
  <2>10. CASE ChooseSize \/ Preset \/ Topology \/ Screens \/ UNCHANGED vars
    <3>1. UNCHANGED <<stage, before, taken>>
      BY <2>10 DEF ChooseSize, Preset, Topology, Screens, create, vars
    <3>. QED BY <2>2, <2>3, <3>1 DEF OnlyOursNew, TakenIsOurs
  <2>. QED BY <1>2, <2>4, <2>5, <2>6, <2>7, <2>8, <2>9, <2>10 DEF Next
<1>. QED BY <1>1, <1>2

\* No other screen has the device name Create took for its display, unless one
\* came, moved to another card or was renumbered since the first attempt.
THEOREM TakesItsOwn == Spec => []TakenIsOurs
BY OnlyOursNewInductive, PTL DEF Spec

-----------------------------------------------------------------------------
(* Sizes and places.                                                        *)

LEMMA PicksOffered ==
  ASSUME NEW want, NEW modes
  PROVE  Picks(want, modes) \subseteq modes
<1> DEFINE same == OfSize(want, modes)
           exact == {m \in same : m.hz = want.hz}
           near == {m \in modes : \A n \in modes : RatioNear(m, n, want)}
           best == {m \in same : \A n \in same : n.hz =< m.hz}
           closest == {m \in near : \A n \in near : AreaGap(m, want) =< AreaGap(n, want)}
<1>1. Picks(want, modes) \in {exact, same, best, closest}
  <2>1. Picks(want, modes) =
          IF same # {} THEN CASE want.hz > 0 /\ exact # {} -> exact
                              [] want.hz > 0 /\ exact = {} -> same
                              [] OTHER -> best
          ELSE closest
    BY DEF Picks
  <2> HIDE DEF same, exact, near, best, closest
  <2>. QED BY <2>1
<1>2. same \subseteq modes
  BY DEF OfSize
<1>3. exact \subseteq same /\ best \subseteq same /\ closest \subseteq modes
  OBVIOUS
<1> HIDE DEF same, exact, near, best, closest
<1>. QED BY <1>1, <1>2, <1>3

\* A mode that the list has, with its frequency, is picked and no other.
LEMMA PicksItself ==
  ASSUME NEW modes \in SUBSET Usable, NEW want \in modes
  PROVE  Picks(want, modes) = {want}
<1> DEFINE same == OfSize(want, modes)
           exact == {m \in same : m.hz = want.hz}
<1>1. want \in Mode /\ want.hz > 0 /\ \A m \in modes : m \in Mode
  BY DEF Usable
<1>2. exact = {want}
  BY <1>1 DEF OfSize, Mode
<1>3. same # {}
  BY DEF OfSize
<1>. QED BY <1>1, <1>2, <1>3 DEF Picks

Place == [left : Int, right : Int]

\* The place computed is right or left of all the other screens.
LEMMA PlaceIsFree ==
  ASSUME NEW others \in SUBSET Place, IsFiniteSet(others),
         NEW o, o.side \in {"left", "right"}, NEW w \in Nat, NEW v \in Nat, v =< w
  PROVE  NewPlace(o, w, others) \in Int /\ ~Overlaps(NewPlace(o, w, others), v, others)
<1> DEFINE rights == {s.right : s \in others}
           lefts == {s.left : s \in others}
<1>1. \A s \in others : s.left \in Int /\ s.right \in Int
  BY DEF Place
<1>2. CASE others = {}
  BY <1>2 DEF NewPlace, Overlaps
<1>3. CASE others # {} /\ o.side = "right"
  <2>1. IsFiniteSet(rights)
    <3>1. [s \in others |-> s.right] \in Surjection(others, rights)
      BY DEF Surjection
    <3>. QED BY <3>1, FS_Surjection
  <2>2. rights \in SUBSET Int /\ rights # {}
    BY <1>1, <1>3
  <2>3. \E r \in rights : \A x \in rights : x =< r
    <3> HIDE DEF rights
    <3>. QED BY <2>1, <2>2, HasGreatest
  <2>4. \E r \in rights : \A s \in others : s.right =< r
    BY <2>3
  <2> DEFINE at == NewPlace(o, w, others)
  <2>5. at \in rights /\ \A s \in others : s.right =< at
    <3>1. at = CHOOSE r \in rights : \A s \in others : s.right =< r
      BY <1>3 DEF NewPlace
    <3> HIDE DEF at, rights
    <3>. QED BY <2>4, <3>1
  <2>6. at \in Int
    BY <2>2, <2>5
  <2> HIDE DEF at
  <2>7. ~Overlaps(at, v, others)
    BY <1>1, <2>5, <2>6 DEF Overlaps
  <2>. QED BY <2>6, <2>7 DEF at
<1>4. CASE others # {} /\ o.side = "left"
  <2>1. IsFiniteSet(lefts)
    <3>1. [s \in others |-> s.left] \in Surjection(others, lefts)
      BY DEF Surjection
    <3>. QED BY <3>1, FS_Surjection
  <2>2. lefts \in SUBSET Int /\ lefts # {}
    BY <1>1, <1>4
  <2>3. \E l \in lefts : \A x \in lefts : l =< x
    <3> HIDE DEF lefts
    <3>. QED BY <2>1, <2>2, HasLeast
  <2>4. \E l \in lefts : \A s \in others : l =< s.left
    BY <2>3
  <2> DEFINE edge == CHOOSE l \in lefts : \A s \in others : l =< s.left
             at == NewPlace(o, w, others)
  <2>5. edge \in lefts /\ \A s \in others : edge =< s.left
    <3> HIDE DEF lefts
    <3>. QED BY <2>4
  <2>6. at = edge - w
    BY <1>4 DEF NewPlace
  <2>7. edge \in Int
    BY <2>2, <2>5
  <2> HIDE DEF at, edge
  <2>8. at \in Int /\ ~Overlaps(at, v, others)
    BY <1>1, <2>5, <2>6, <2>7 DEF Overlaps
  <2>. QED BY <2>8 DEF at
<1>. QED BY <1>2, <1>3, <1>4

LEMMA OthersArePlaces ==
  ASSUME TopologyOK
  PROVE  Others \in SUBSET Place /\ IsFiniteSet(Others)
<1> USE ConfigAssumption DEF ConfigAssumption
<1> DEFINE lit == LitTargets \ {Ours}
<1>1. lit \in SUBSET Targets /\ IsFiniteSet(lit)
  BY FS_Subset DEF LitTargets
<1>2. Others = {Span[t] : t \in lit}
  BY DEF Others
<1>3. \A t \in lit : Span[t] \in Place
  BY <1>1 DEF Place
<1>4. [t \in lit |-> Span[t]] \in Surjection(lit, Others)
  BY <1>2 DEF Surjection
<1>. QED BY <1>1, <1>2, <1>3, <1>4, FS_Surjection

-----------------------------------------------------------------------------
(* Applying the display's size.                                             *)

\* What Apply leaves of ApplyDisplay's cases.
LEMMA ApplyCases ==
  ASSUME TopologyOK, ScreenOK, opt \in Options, NEW modes \in {offered, {}}, NEW result,
         ApplyDisplay(opt, Others, modes, result)
  PROVE  /\ UNCHANGED <<registry, offered, ini>>
         /\ mode' \in modes \cup {mode}
         /\ Wanted(opt) \in Mode
         /\ place' # place => \E w \in Nat : /\ place' = NewPlace(opt, w, Others)
                                             /\ ~Applies(opt, modes) => w = mode.w
                                             /\ Applies(opt, modes) => w = Wanted(opt).w
<1> USE ConfigAssumption DEF ConfigAssumption
<1> DEFINE picks == IF Applies(opt, modes) /\ modes # {} THEN Picks(Wanted(opt), modes) ELSE {mode}
           width == IF Applies(opt, modes) THEN Wanted(opt).w ELSE mode.w
<1>1. UNCHANGED <<registry, offered, ini>>
  BY DEF ApplyDisplay
<1>2. mode' = mode \/ mode' \in picks
  BY DEF ApplyDisplay
<1>3. mode' \in modes \cup {mode}
  BY <1>2, PicksOffered
<1>4. Wanted(opt) \in Mode
  BY DEF Wanted, Saved, ScreenOK
<1>5. width \in Nat
  BY <1>4 DEF Mode, ScreenOK, Usable
<1>6. place' # place => place' = NewPlace(opt, width, Others)
  BY DEF ApplyDisplay
<1>. QED BY <1>1, <1>3, <1>4, <1>5, <1>6

LEMMA ApplyTyped ==
  ASSUME TopologyOK, ScreenOK, opt \in Options, NEW modes \in {offered, {}}, NEW result,
         ApplyDisplay(opt, Others, modes, result)
  PROVE  ScreenOK'
<1>1. /\ UNCHANGED <<registry, offered, ini>>
      /\ mode' \in modes \cup {mode}
      /\ place' # place => \E w \in Nat : place' = NewPlace(opt, w, Others)
  BY ApplyCases
<1>2. mode' \in Usable
  BY <1>1 DEF ScreenOK
<1>3. place' \in Int
  <2>1. CASE place' = place
    BY <2>1 DEF ScreenOK
  <2>2. ASSUME NEW w \in Nat, place' = NewPlace(opt, w, Others) PROVE place' \in Int
    <3>1. opt.side \in {"left", "right"}
      BY ConfigAssumption DEF ConfigAssumption
    <3>. QED BY <2>2, <3>1, OthersArePlaces, PlaceIsFree
  <2>. QED BY <1>1, <2>1, <2>2
<1>. QED BY <1>1, <1>2, <1>3 DEF ScreenOK, registry

\* The presets stay in their slots.
LEMMA PresetTyped ==
  ASSUME ScreenOK, Preset
  PROVE  ScreenOK'
<1> USE ConfigAssumption DEF ConfigAssumption
<1>1. UNCHANGED <<offered, ini, mode, place>>
  BY DEF Preset
<1>2. \A k : Cleared(k) \in [SlotNos -> Usable \cup {Empty, Broken}]
  BY DEF Cleared, ScreenOK
<1>3. ASSUME NEW i \in SlotNos, NEW m \in Usable, NEW v,
             NEW rest \in [SlotNos -> Usable \cup {Empty, Broken}], v \in {m, Broken, rest[i]}
      PROVE  [rest EXCEPT ![i] = v] \in [SlotNos -> Usable \cup {Empty, Broken}]
  BY <1>3
<1>4. slot' \in [SlotNos -> Usable \cup {Empty, Broken}] /\ regKey' \in BOOLEAN
  <2>1. CASE Clear
    BY <1>2, <2>1 DEF Clear, ScreenOK
  <2>2. ASSUME NEW m \in Specs, SetPreset(m)
        PROVE  slot' \in [SlotNos -> Usable \cup {Empty, Broken}] /\ regKey' \in BOOLEAN
    <3>1. 0 \in SlotNos
      BY ScreenAssumption DEF ScreenAssumption, SlotNos
    <3>. QED BY <1>2, <1>3, <2>2, <3>1 DEF SetPreset, Writes, ScreenOK
  <2>3. ASSUME NEW m \in Specs, AddPreset(m)
        PROVE  slot' \in [SlotNos -> Usable \cup {Empty, Broken}] /\ regKey' \in BOOLEAN
    <3> DEFINE free == SlotNos \ Readable
               first == CHOOSE i \in free : \A j \in free : i =< j
    <3>1. free # {} /\ free \in SUBSET Int /\ IsFiniteSet(free)
      <4>1. IsFiniteSet(SlotNos) /\ SlotNos \in SUBSET Int
        BY ScreenAssumption, FS_Interval DEF ScreenAssumption, SlotNos
      <4>2. free # {}
        BY <2>3 DEF AddPreset, Readable
      <4>. QED BY <4>1, <4>2, FS_Subset
    <3>2. \E i \in free : \A j \in free : i =< j
      <4> HIDE DEF free
      <4>. QED BY <3>1, HasLeast
    <3>3. first \in SlotNos
      BY <3>2
    <3>4. Writes(first, m, slot) /\ regKey' \in {regKey, TRUE}
      BY <2>3 DEF AddPreset
    <3> HIDE DEF first
    <3>5. slot' \in [SlotNos -> Usable \cup {Empty, Broken}]
      BY <1>3, <3>3, <3>4 DEF Writes, ScreenOK
    <3>6. regKey' \in BOOLEAN
      BY <1>2, <3>4, Zenon DEF ScreenOK
    <3>. QED BY <3>5, <3>6
  <2>4. ASSUME NEW i \in SlotNos, RemovePreset(i)
        PROVE  slot' \in [SlotNos -> Usable \cup {Empty, Broken}] /\ regKey' \in BOOLEAN
    BY <2>4 DEF RemovePreset, ScreenOK
  <2>. QED BY <2>1, <2>2, <2>3, <2>4 DEF Preset
<1>. QED BY <1>1, <1>4 DEF ScreenOK

\* The places of the program, and what the user has chosen.
PlacesOK ==
  /\ stage \in {"out", "arrived", "asked", "taken", "used", "again"}
  /\ opt \in Options /\ before \subseteq AllNames /\ taken \in AllNames \cup {NoName}
  /\ focus \in {"topology", "sizes"} /\ presets \in 0 .. MaxPresets
  /\ chosen \in Usable \cup {NoMode} /\ spoiled \in BOOLEAN

LEMMA TypeIs == TypeOK <=> TopologyOK /\ ScreenOK /\ PlacesOK /\ NamesOK
BY DEF TypeOK, PlacesOK, NamesOK

LEMMA InitTyped == Init => TypeOK
<1> SUFFICES ASSUME Init PROVE TypeOK
  OBVIOUS
<1> USE ConfigAssumption, ScreenAssumption, OursIsTarget DEF ConfigAssumption, ScreenAssumption
<1>1. ScreenOK
  <2>1. NoMode \in Mode
    BY DEF NoMode, Mode
  <2>2. mode \in Usable
    BY DEF Init
  <2>3. regKey \in BOOLEAN
    BY DEF Init, Readable
  <2>. QED BY <2>1, <2>2, <2>3 DEF Init, ScreenOK
<1>2. PlacesOK
  <2>1. /\ stage = "out" /\ opt \in Options /\ before = {} /\ taken = NoName
        /\ focus \in {"topology", "sizes"} /\ presets = 0
        /\ chosen = NoMode /\ spoiled = TRUE
    BY DEF Init
  <2>2. presets \in 0 .. MaxPresets
    BY <2>1
  <2>. QED BY <2>1, <2>2, Zenon DEF PlacesOK
<1>. QED BY <1>1, <1>2, TypeIs, TopologyInductive, NamesInductive

LEMMA ScreenInductive ==
  ASSUME TypeOK, [Next]_vars
  PROVE  ScreenOK'
<1> USE ConfigAssumption, ScreenAssumption DEF ConfigAssumption, ScreenAssumption
<1>1. TopologyOK /\ ScreenOK /\ PlacesOK
  BY TypeIs
<1>2. CASE Insert
  <2>1. offered' = Builtin \cup {slot[i] : i \in Readable}
    BY <1>2 DEF Insert, Offer
  <2>2. \A i \in Readable : slot[i] \in Usable
    BY <1>1 DEF Readable, ScreenOK
  <2>3. offered' \subseteq Usable
    BY <2>1, <2>2
  <2>4. mode' \in Usable
    <3>1. mode' \in offered' \/ mode' \in Builtin
      BY <1>2 DEF Insert
    <3>. QED BY <2>3, <3>1
  <2>. QED BY <1>1, <1>2, <2>3, <2>4 DEF Insert, ScreenOK, registry
<1>3. CASE Found \/ Ask \/ Topology \/ Screens
  BY <1>1, <1>3 DEF Found, Ask, Topology, Screens, ScreenOK, svars, registry
<1>4. CASE NotFound \/ Gone \/ Crash
  BY <1>1, <1>4 DEF NotFound, Gone, Crash, Leaves, ScreenOK, registry
<1>5. CASE Apply
  <2>1. CASE UNCHANGED svars
    BY <1>1, <2>1 DEF ScreenOK, svars, registry
  <2>2. ASSUME NEW modes \in {offered, {}}, NEW result, ApplyDisplay(opt, Others, modes, result)
        PROVE  ScreenOK'
    BY <1>1, <2>2, ApplyTyped DEF PlacesOK
  <2>. QED BY <1>5, <2>1, <2>2 DEF Apply
<1>6. CASE Cleanup
  <2>1. ini' \in Mode
    <3>1. CASE ini' = ini
      BY <1>1, <3>1 DEF ScreenOK
    <3>2. CASE SaveState(opt, mode)
      BY <1>1, <3>2 DEF ScreenOK, SaveState, Usable
    <3>3. ASSUME NEW t \in TakenBy, t # Ours, SaveState(opt, SizeOf[t]) PROVE ini' \in Mode
      BY <3>3 DEF TakenBy, LitTargets, SaveState
    <3>. QED BY <1>6, <3>1, <3>2, <3>3 DEF Cleanup
  <2>. QED BY <1>1, <1>6, <2>1 DEF Cleanup, Leaves, ScreenOK, registry
<1>7. CASE ChooseSize
  BY <1>1, <1>7 DEF ChooseSize, ScreenOK, registry
<1>8. CASE Preset
  BY <1>1, <1>8, PresetTyped
<1>9. CASE UNCHANGED vars
  BY <1>1, <1>9 DEF vars, ScreenOK, svars, registry
<1>. QED BY <1>2, <1>3, <1>4, <1>5, <1>6, <1>7, <1>8, <1>9 DEF Next

LEMMA PlacesInductive ==
  ASSUME TypeOK, [Next]_vars
  PROVE  PlacesOK'
<1> USE OursIsTarget DEF create, bounds, past
<1>1. TopologyOK /\ ScreenOK /\ PlacesOK /\ NamesOK
  BY TypeIs
<1> USE DEF PlacesOK
<1>2. \A t \in LitTargets : name[t] \in AllNames
  BY <1>1, NameOfLit
<1>3. CASE Insert
  BY <1>1, <1>2, <1>3 DEF Insert
<1>4. CASE Found
  BY <1>1, <1>2, <1>4 DEF Found, NewOutputs
<1>5. CASE Ask
  BY <1>1, <1>5 DEF Ask
<1>6. CASE NotFound
  BY <1>1, <1>6 DEF NotFound, Leaves, Over
<1>7. CASE Gone \/ Cleanup \/ Crash
  BY <1>1, <1>7 DEF Gone, Cleanup, Crash, Leaves, Over
<1>8. CASE Apply
  BY <1>1, <1>8 DEF Apply
<1>9. CASE ChooseSize
  BY <1>1, <1>9 DEF ChooseSize, ScreenOK
<1>10. CASE Topology \/ Screens
  BY <1>1, <1>10 DEF Topology, Screens
<1>11. CASE Preset
  BY <1>1, <1>11, ConfigAssumption DEF Preset, ConfigAssumption
<1>12. CASE UNCHANGED vars
  BY <1>1, <1>12 DEF vars
<1>. QED BY <1>3, <1>4, <1>5, <1>6, <1>7, <1>8, <1>9, <1>10, <1>11, <1>12 DEF Next

\* Every variable keeps its type: a display is lit over a path that leads to it
\* and only while it is there, and only usable sizes are offered and in use.
THEOREM TypeCorrect == Spec => []TypeOK
<1>1. TypeOK /\ [Next]_vars => TypeOK'
  <2> SUFFICES ASSUME TypeOK, [Next]_vars PROVE TypeOK'
    OBVIOUS
  <2>1. TopologyOK' /\ ScreenOK' /\ PlacesOK' /\ NamesOK'
    BY TypeIs, TopologyInductive, ScreenInductive, PlacesInductive, NamesInductive
  <2>. QED BY <2>1 DEF TypeOK, PlacesOK, NamesOK
<1>. QED BY <1>1, InitTyped, PTL DEF Spec

-----------------------------------------------------------------------------
(* The size survives.                                                       *)

\* As long as nothing has happened that the code does not provide for, the
\* size chosen is in use with the display, and in the file without it.
Remembered ==
  chosen # NoMode /\ ~spoiled
    => IF stage = "used" THEN mode = chosen ELSE ini = chosen

\* A size that was saved is what the next insertion applies, if it is offered.
LEMMA SavedIsApplied ==
  ASSUME TypeOK, Remembered, chosen # NoMode, ~spoiled, ~opt.fixed, stage = "taken",
         NEW modes \in {offered, {}}, chosen \in modes,
         NEW result \in {"done", "sizeOnly"}, ApplyDisplay(opt, Others, modes, result)
  PROVE  mode' = chosen
<1>1. TopologyOK /\ ScreenOK /\ PlacesOK
  BY TypeIs
<1>2. chosen \in Usable /\ chosen \in Mode /\ ini = chosen
  BY <1>1 DEF ScreenOK, Usable, Remembered
<1>3. Saved = chosen
  BY <1>2 DEF Saved, Usable
<1>4. Wanted(opt) = chosen /\ Applies(opt, modes)
  BY <1>3 DEF Wanted, Applies
<1>5. Picks(chosen, modes) = {chosen}
  <2>1. modes \in SUBSET Usable
    BY <1>1 DEF ScreenOK
  <2>. QED BY <2>1, PicksItself
<1>6. mode' \in Picks(chosen, modes)
  BY <1>4 DEF ApplyDisplay
<1>. QED BY <1>5, <1>6

LEMMA RememberedInductive ==
  ASSUME TypeOK, Remembered, [Next]_vars
  PROVE  Remembered'
<1> USE DEF Remembered, create, bounds, past
<1>1. CASE Insert
  BY <1>1 DEF Insert
<1>2. CASE Found
  BY <1>2 DEF Found, Waiting, svars
<1>3. CASE Ask
  BY <1>3 DEF Ask, svars
<1>4. CASE NotFound \/ Gone
  BY <1>4 DEF NotFound, Gone, Leaves, Over
<1>5. CASE Apply
  <2>1. stage = "taken" /\ stage' = "used" /\ chosen' = chosen
    BY <1>5 DEF Apply
  <2>2. CASE spoiled'
    BY <2>1, <2>2
  <2>3. ASSUME NEW modes \in {offered, {}},
               NEW result \in {"done", "sizeOnly", "refused"},
               ApplyDisplay(opt, Others, modes, result),
               spoiled' = (spoiled \/ opt.fixed \/ chosen \notin modes \/ result = "refused")
        PROVE  Remembered'
    BY <2>1, <2>3, SavedIsApplied
  <2>. QED BY <1>5, <2>2, <2>3 DEF Apply
<1>6. CASE Cleanup
  <2>1. /\ stage = "used" /\ stage' = "out" /\ chosen' = chosen
    BY <1>6 DEF Cleanup, Leaves, Over
  <2>2. \/ \E t \in TakenBy : /\ ini' = (IF t = Ours THEN mode ELSE SizeOf[t])
                              /\ spoiled' = (spoiled \/ t # Ours)
        \/ ini' = ini /\ spoiled' = (spoiled \/ ini # chosen)
    BY <1>6 DEF Cleanup, SaveState
  <2>. QED BY <2>1, <2>2
<1>7. CASE Crash
  BY <1>7 DEF Crash, Leaves, Over
<1>8. CASE ChooseSize
  BY <1>8 DEF ChooseSize
<1>9. CASE Topology \/ Screens
  BY <1>9 DEF Topology, Screens, svars
<1>10. CASE Preset
  BY <1>10 DEF Preset
<1>11. CASE UNCHANGED vars
  BY <1>11 DEF vars, svars
<1>. QED BY <1>1, <1>2, <1>3, <1>4, <1>5, <1>6, <1>7, <1>8, <1>9, <1>10, <1>11 DEF Next

\* "Whatever you set is reproduced at every insertion": over any number of
\* insertions, presets and changes of the desktop, and for every list of modes
\* the driver may have that still holds the size.
THEOREM SizeComesBack == Spec => []SizeSurvives
<1>1. Init => Remembered
  BY DEF Init, Remembered
<1>2. TypeOK /\ Remembered /\ [Next]_vars => Remembered'
  BY RememberedInductive
<1>3. Remembered => SizeSurvives
  BY DEF Remembered, SizeSurvives
<1>. QED BY <1>1, <1>2, <1>3, TypeCorrect, PTL DEF Spec

-----------------------------------------------------------------------------
(* The place is free.                                                       *)

\* The place computed when a size is applied lies beside all the screens that
\* are lit, on either side, wherever they are and however many.
THEOREM PlaceComputedIsFree == Spec => PlacedApart
<1> DEFINE Apart ==
      stage = "taken" /\ stage' = "used" /\ place' # place
          /\ (Applies(opt, offered) => mode'.w =< Wanted(opt).w)
        => ~Overlaps(place', mode'.w, Others)
<1>1. ASSUME TypeOK, [Next]_vars, stage = "taken", stage' = "used", place' # place,
             Applies(opt, offered) => mode'.w =< Wanted(opt).w
      PROVE  ~Overlaps(place', mode'.w, Others)
  <2>1. TopologyOK /\ ScreenOK /\ PlacesOK
    BY <1>1, TypeIs
  <2>2. Apply
    BY <1>1 DEF Next, Insert, Found, Ask, NotFound, Gone, Over, Cleanup, Crash, ChooseSize,
                Topology, Screens, Preset, create, vars
  <2>3. PICK modes \in {offered, {}}, result \in {"done", "sizeOnly", "refused"} :
          ApplyDisplay(opt, Others, modes, result)
    BY <1>1, <2>2 DEF Apply, svars
  <2>4. PICK w \in Nat : /\ place' = NewPlace(opt, w, Others)
                         /\ ~Applies(opt, modes) => w = mode.w
                         /\ Applies(opt, modes) => w = Wanted(opt).w
    BY <1>1, <2>1, <2>3, ApplyCases DEF PlacesOK
  <2>5. mode'.w \in Nat /\ mode'.w =< w
    <3>1. mode' \in Usable
      BY <2>1, <2>3, ApplyTyped DEF ScreenOK, PlacesOK
    <3>2. mode'.w \in Nat
      BY <3>1 DEF Usable, Mode
    <3>3. CASE Applies(opt, modes)
      <4>1. Applies(opt, offered)
        BY <3>3 DEF Applies, OfSize
      <4>. QED BY <1>1, <2>4, <3>2, <3>3, <4>1
    <3>4. CASE ~Applies(opt, modes)
      <4>1. mode' = mode
        BY <2>3, <3>4 DEF ApplyDisplay
      <4>. QED BY <2>4, <3>2, <3>4, <4>1
    <3>. QED BY <3>2, <3>3, <3>4
  <2>6. opt.side \in {"left", "right"}
    BY <2>1, ConfigAssumption DEF ConfigAssumption, PlacesOK
  <2>. QED BY <2>1, <2>4, <2>5, <2>6, OthersArePlaces, PlaceIsFree
<1>2. TypeOK /\ [Next]_vars => [Apart]_vars
  BY <1>1
<1>. QED BY <1>2, TypeCorrect, PTL DEF Spec, PlacedApart

=============================================================================
