---------------------------- MODULE MCSyncHandler ----------------------------
(* Instances of SyncHandler for TLC. *)
EXTENDS SyncHandler, TLC

CONSTANTS b1, b2, r1, r2, c1, c2

MCBlobs == {b1, b2}
MCReceivers == {r1, r2}
MCCopiers == {c1, c2}
OneReceiver == {r1}
OneCopier == {c1}
MCSize == b1 :> 1 @@ b2 :> 3

Symmetry == Permutations(MCReceivers) \cup Permutations(MCCopiers)
=============================================================================
