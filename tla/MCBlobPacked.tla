---------------------------- MODULE MCBlobPacked ----------------------------
(***************************************************************************)
(* Instances of BlobPacked: file f has chunk c once and chunk e twice, in  *)
(* two zips.  File g has the same contents under another name, in three    *)
(* zips: the first is cut as that of f, the second is smaller.             *)
(***************************************************************************)
EXTENDS BlobPacked, TLC

CONSTANTS c, e, f, g, f1, f2, g1, g2, g3, w, h1, h2

OneFile == {f}
TwoFiles == {f, g}
BlobsOfTwo == {c, e, f, g}
SmallFile == {c, f}
ZipsOfTwo == {f1, f2, g1, g2, g3}
OneZip == {f1}
AllContents == f1 :> {f, c} @@ f2 :> {f, e}
                @@ g1 :> {g, c} @@ g2 :> {g, e} @@ g3 :> {g, e}
MCContents == [z \in Zips |-> AllContents[z]]
MCDataSize == [z \in Zips |-> IF z = f2 THEN 2 ELSE 1]
MCPacks == [x \in Files |-> IF Cardinality(Zips) = 1 THEN <<f1>>
                            ELSE IF x = f THEN <<f1, f2>> ELSE <<g1, g2, g3>>]
MCWhole == [x \in Files |-> w]
TwoRequests == {h1, h2}
Symmetry == Permutations(TwoRequests)
=============================================================================
