-------------------------- MODULE MCLiveRtspServer --------------------------
(* Instances of LiveRtspServer for TLC; the configurations name the values. *)
EXTENDS LiveRtspServer, TLC

CONSTANTS v1, v2

MCLens == {1, 3}
MCShortLens == {1, 2}
MCTwoViewers == {v1, v2}
MCOneViewer == {v1}
MCSymmetry == Permutations(MCTwoViewers)
=============================================================================
