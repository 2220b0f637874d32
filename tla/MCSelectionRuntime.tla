-------------------------- MODULE MCSelectionRuntime --------------------------
(***************************************************************************)
(* SelectionRuntime on small instances: one or two targets, three lease    *)
(* ids, a debounce and a recheck of one tick.  Targets, and ids, are       *)
(* interchangeable, and these runs check safety only, up to symmetry.      *)
(***************************************************************************)
EXTENDS SelectionRuntime, TLC

CONSTANTS tA, tB, i1, i2, i3

MCTargets == {tA, tB}
MCOneTarget == {tA}
MCIds == {i1, i2, i3}
MCIdSymmetry == Permutations(MCIds)
MCSymmetry == Permutations(MCTargets) \cup MCIdSymmetry
=============================================================================
