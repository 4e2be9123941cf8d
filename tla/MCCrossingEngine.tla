-------------------------- MODULE MCCrossingEngine --------------------------
(***************************************************************************)
(* Nine points; a horizontal, a vertical and a steep line, which do not    *)
(* reach through the grid.                                                 *)
(***************************************************************************)
EXTENDS CrossingEngine, TLC

CONSTANTS t1, t2, t3

MCTracks == {t1, t2, t3}
MCPoints == (0..2) \X (0..2)
MCLines ==
  { [a |-> <<0, 1>>, b |-> <<1, 1>>, policy |-> "BOTH"],
    [a |-> <<1, 2>>, b |-> <<1, 1>>, policy |-> "A_TO_B"],
    [a |-> <<0, 0>>, b |-> <<1, 2>>, policy |-> "BOTH"] }
AnyTrack == Permutations(MCTracks)
=============================================================================
