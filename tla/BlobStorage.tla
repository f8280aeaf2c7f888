---------------------------- MODULE BlobStorage ----------------------------
(***************************************************************************)
(* What pkg/blobserver/interface.go asks of every Storage: ReceiveBlob     *)
(* "writes it to permanent storage", RemoveBlobs may leave what it fails   *)
(* to delete, and "all implementations should be able to survive crashes   *)
(* without data loss".  BlobPacked and EncryptMeta implement it.           *)
(***************************************************************************)
CONSTANT Blobs

VARIABLES
    stored,   \* blobs whose ReceiveBlob returned nil, never given to RemoveBlobs
    there     \* blobs that Fetch would find

Init == stored = {} /\ there = {}

\* ReceiveBlob returns nil: the blob is there, and nothing else went away.
ReceiveBlob(b) ==
    /\ there \subseteq there' /\ b \in there' /\ there' \subseteq Blobs
    /\ stored' = stored \cup {b}

\* RemoveBlobs is called: from now on the blob may be gone, or still there.
RemoveBlobs(b) == stored' = stored \ {b} /\ there' = there

\* Anything that no caller asked for (an upload that is not acknowledged yet
\* or fails, a compaction, a crash, a restart, a recovery) takes nothing away
\* that is stored.
Internal ==
    /\ stored' = stored
    /\ stored \subseteq there' /\ there' \subseteq Blobs

Next == Internal \/ \E b \in Blobs : ReceiveBlob(b) \/ RemoveBlobs(b)

Spec == Init /\ [][Next]_<<stored, there>>
=============================================================================
