---------------------------- MODULE MCDisplayConfig ----------------------------
(***************************************************************************)
(* A notebook whose panel has a stale path, with an external screen that   *)
(* either graphics card reaches.                                           *)
(***************************************************************************)
EXTENDS DisplayConfig, TLC

CONSTANTS D1, D2, D3, D4

Path(t, g, c) == [tgt |-> t, gpu |-> g, copy |-> c]
Size(w, h) == [w |-> w, h |-> h, hz |-> 60]

MCTargets == {"ext", "panel", "ours"}
MCPaths == {Path("ext", "nv", 1), Path("ext", "intel", 1), Path("panel", "intel", 1),
            Path("panel", "intel", 2), Path("ours", "nv", 1)}
MCSettled == {Path("ext", "nv", 1), Path("panel", "intel", 1), Path("ours", "nv", 1)}
MCGpus == {"nv", "intel"}
MCTurns == {0, 90}
MCParsec == {"ours"}

MCNamesOf == [nv |-> {D1, D2}, intel |-> {D3, D4}]

\* A card's device names are interchangeable.
NameSymmetry == Permutations({D1, D2}) \cup Permutations({D3, D4})

MCBuiltin == {Size(16, 9)}
MCDefault == Size(9, 14)
MCSpecs == {Size(9, 14)}

MCSpan == [ext |-> [left |-> 0, right |-> 25], panel |-> [left |-> 25, right |-> 41]]
MCSizeOf == [ext |-> Size(25, 14), panel |-> Size(16, 10)]
MCPlace0 == 41
MCPresets0 == {[i \in 0 .. 1 |-> Empty],
               [i \in 0 .. 1 |-> IF i = 0 THEN Size(10, 14) ELSE Empty]}
MCOptions == {[fixed |-> FALSE, save |-> TRUE, mode |-> MCDefault, side |-> "left"],
              [fixed |-> TRUE, save |-> TRUE, mode |-> MCDefault, side |-> "right"],
              [fixed |-> FALSE, save |-> FALSE, mode |-> MCDefault, side |-> "left"]}
MCKeys == {{"panel"}, {"ext", "panel"}}

=============================================================================
