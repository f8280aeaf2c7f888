---------------------------- MODULE Replication ----------------------------
(***************************************************************************)
(* What pkg/server/sync.go promises: "async replication in one direction   *)
(* between a pair storage targets, a source and target", of the blobs it   *)
(* has recorded, "soon, or whenever it can".  SyncHandler implements it.   *)
(***************************************************************************)
CONSTANT Blobs

VARIABLES
    source,    \* blobs of the source
    recorded,  \* blobs that were recorded for replication
    owed,      \* recorded blobs that are still to be copied
    target     \* blobs of the target

Init == source = {} /\ recorded = {} /\ owed = {} /\ target = {}

\* The source receives a blob.
Store(b) ==
    /\ source' = source \cup {b}
    /\ UNCHANGED <<recorded, owed, target>>

\* A blob of the source is recorded: from now on it is owed, unless the
\* target has it.
Record(b) ==
    /\ b \in source
    /\ recorded' = recorded \cup {b}
    /\ owed' = owed \cup ({b} \ target)
    /\ UNCHANGED <<source, target>>

\* A blob of the source reaches the target, recorded or not.
Copy(b) ==
    /\ b \in source
    /\ target' = target \cup {b}
    /\ owed' = owed \ {b}
    /\ UNCHANGED <<source, recorded>>

Next == \E b \in Blobs : Store(b) \/ Record(b) \/ Copy(b)

Spec == Init /\ [][Next]_<<source, recorded, owed, target>>
-----------------------------------------------------------------------------
\* What follows for a caller: a recorded blob is owed or replicated, and
\* replication invents nothing.
Kept ==
    /\ recorded \subseteq owed \cup target
    /\ owed \cup target \subseteq source
=============================================================================
