--------------------------- MODULE MCIndexReceive ---------------------------
(***************************************************************************)
(* Instances of IndexReceive for TLC: a directory d, of which c is a part, *)
(* a permanode p and a claim k that deletes it; k needs c (for k it stands *)
(* for the signer's key).  With five blobs there is also a file f over c,  *)
(* and d needs both.                                                       *)
(***************************************************************************)
EXTENDS IndexReceive, TLC

CONSTANTS c, d, f, p, k

AllBlobs == {c, d, f, p, k}
FourBlobs == {c, d, p, k}
BaseDeps == c :> {} @@ f :> {c} @@ d :> {c, f} @@ p :> {} @@ k :> {c}
MCDeps == [b \in Blobs |-> BaseDeps[b] \cap Blobs]
MCTarget == [b \in Blobs |-> IF b = k THEN p ELSE None]
MCDeletable == {p, k} \cap Blobs
MCDirs == {d} \cap Blobs
NoFails == [x \in FailKinds |-> 0]
OneOfEach == [x \in FailKinds |-> 1]
=============================================================================
