---------------------------- MODULE IndexReceive ----------------------------
(***************************************************************************)
(* pkg/index: indexing of blobs that arrive in any order.                  *)
(*                                                                         *)
(* ReceiveBlob indexes a blob whose dependencies can be read; otherwise it *)
(* notes what is missing, in memory (needs, neededBy) and in "missing|"    *)
(* rows, and reports success.  When a blob has been indexed, the blobs     *)
(* that waited for it become ready, and a goroutine (indexReadyBlobs)      *)
(* indexes them.  A restart reads the "missing|" rows back.                *)
(*                                                                         *)
(* A file or directory depends on blobs it must fetch from the blob source *)
(* (Deps); so does a claim on its signer's key.  A delete claim depends on *)
(* its target's "meta:" row in the index itself (Target).                  *)
(***************************************************************************)
EXTENDS Integers, FiniteSets

CONSTANTS
    Blobs,
    Deps,          \* Deps[b]: blobs that indexing b fetches from the source
    Target,        \* Target[b]: what the delete claim b deletes, or None
    Deletable,     \* permanodes and claims: what a delete claim can delete
    Dirs,          \* directories: their Deps are static sets
    Modes,         \* what the process may do: "serve", or run "reindex"
    MaxFails,      \* bounds of the model: failures of each kind,
    MaxFailKinds,  \* and kinds of failures that happen
    MaxCrashes

None == "none"

\* A fetch fails though the blob exists; a write to the index's store, a read
\* of it, the update of the corpus or the enumeration of the source fails.
FailKinds == {"fetch", "set", "meta", "corpus", "enum"}

ASSUME IndexAssumption ==
    /\ None \notin Blobs
    /\ Deps \in [Blobs -> SUBSET Blobs]
    /\ Target \in [Blobs -> Blobs \cup {None}]
    /\ Deletable \subseteq Blobs
    /\ Dirs \subseteq Blobs /\ \A b \in Dirs : Target[b] = None
    /\ IsFiniteSet(Blobs)
    /\ Modes \subseteq {"serve", "reindex"}
    /\ MaxFails \in [FailKinds -> Nat]
    /\ MaxFailKinds \in Nat /\ MaxCrashes \in Nat

\* What b names: it must be at hand before b can be indexed.
Refs(b) == Deps[b] \cup ({Target[b]} \ {None})

\* A blob's ref is a digest of its content, refs in it included: no chain of
\* blobs that name each other comes back to its start.
ASSUME AcyclicAssumption ==
    \A S \in SUBSET Blobs : S # {} => \E b \in S : Refs(b) \cap S = {}

\* Nothing in S names a blob outside S.
Closed(S) == \A b \in S : Refs(b) \subseteq S

VARIABLES
    src,       \* blobs in ix.blobSource
    have,      \* "have:" and "meta:" rows: "none", "partial" or "indexed"
    rows,      \* "missing|" rows: pairs <<have, missing>>
    deleted,   \* "deleted|" rows: delete claims with such a row
    unlisted,  \* directories committed without the rows of their members
    needs,     \* ix.needs
    neededBy,  \* ix.neededBy
    ready,     \* ix.readyReindex
    loopers,   \* goroutines of indexReadyBlobs without a blob in hand
    hand,      \* per blob: goroutines of indexReadyBlobs indexing it
    deletes,   \* ix.deletes: delete claims in the cache
    lock,      \* None, or the blob whose ReceiveBlob holds ix.mu
    ret,       \* how that ReceiveBlob will return
    mode,      \* "serve" or "reindex"
    todo,      \* Reindex: blobs still to index
    nerr,      \* Reindex: nerr
    result,    \* Reindex: "running", "ok" or "error"
    acked,     \* history: blobs for which a ReceiveBlob returned nil
    dropped,   \* history: blobs whose out-of-order indexing failed
    unnoted,   \* history: blobs whose last call failed after the commit
    fails, crashes

store == <<src, have, rows, deleted, unlisted>>
waiting == <<needs, neededBy, ready, unnoted>>
async == <<loopers, hand, dropped>>
mutex == <<lock, ret>>
reindex == <<mode, todo, nerr, result>>
vars == <<store, waiting, async, deletes, mutex, reindex, acked, fails, crashes>>

Reindexing == mode = "reindex"

Nothing == [b \in Blobs |-> {}]

\* Reindex starts on a wiped index and a source with any blobs.
Init ==
    /\ mode \in Modes
    /\ IF Reindexing THEN src \in SUBSET Blobs /\ todo = src
                     ELSE src = {} /\ todo = {}
    /\ have = [b \in Blobs |-> "none"] /\ rows = {} /\ deleted = {}
    /\ unlisted = {}
    /\ needs = Nothing /\ neededBy = Nothing /\ ready = {} /\ unnoted = {}
    /\ loopers = 0 /\ hand = [b \in Blobs |-> 0] /\ dropped = {}
    /\ deletes = {} /\ lock = None /\ ret = "ok"
    /\ nerr = 0 /\ result = "running"
    /\ acked = {} /\ fails = [k \in FailKinds |-> 0] /\ crashes = 0

\* The failures of one step.
Fails(kinds) ==
    /\ \A k \in kinds : fails[k] < MaxFails[k]
    /\ fails' = [k \in FailKinds |-> IF k \in kinds THEN fails[k] + 1
                                                    ELSE fails[k]]
    /\ Cardinality({k \in FailKinds : fails'[k] > 0}) <= MaxFailKinds
Fail(kind) == Fails({kind})
-----------------------------------------------------------------------------
(***************************************************************************)
(* ReceiveBlob, under ix.mu.  It will return nil when ret is "ok" or       *)
(* "noted", an error when it is "err" or "failed".  The deferred function  *)
(* looks at a variable err that a failing commit does not set: it takes    *)
(* "ok" and "err" for a blob that was indexed.                             *)
(***************************************************************************)

\* noteNeededMemory, for every blob of M
NoteNeededMemory(b, M) ==
    /\ needs' = [needs EXCEPT ![b] = @ \cup M]
    /\ neededBy' = [m \in Blobs |-> IF m \in M THEN neededBy[m] \cup {b}
                                               ELSE neededBy[m]]

\* Mutant: the misses are recorded in the store only.
NoteNeededOnDisk(b, M) ==
    /\ rows' = rows \cup ({b} \X M)
    /\ UNCHANGED <<needs, neededBy>>

NoteNeeded(b, M) ==
    /\ rows' = rows \cup ({b} \X M)
    /\ NoteNeededMemory(b, M)

AlreadyIndexed(b) ==
    /\ have[b] = "indexed"
    /\ ret' = "ok"
    /\ UNCHANGED <<store, waiting, deletes, fails>>

\* errMissingDep: the fetcher met blobs that the source lacks, and all of them
\* are noted; a note that fails does not stop the others.
MissingDep(b) ==
    /\ have[b] # "indexed"
    /\ \E M \in SUBSET (Deps[b] \ src) : M # {} /\
        \/ NoteNeeded(b, M) /\ ret' = "noted" /\ UNCHANGED fails
        \/ /\ Fail("set") /\ ret' = "failed"
           /\ \E N \in SUBSET M : N # M /\ NoteNeeded(b, N)
    /\ UNCHANGED <<src, have, deleted, unlisted, ready, unnoted, deletes>>

\* commit writes b's rows in one batch, with h in "have:", or fails; after
\* it corpus.addBlob may fail, and then the deferred function does nothing.
\* kinds: what has failed before.
Written(b, h, kinds) ==
    /\ have' = [have EXCEPT ![b] = h]
    /\ \/ Fails(kinds) /\ ret' = "ok" /\ UNCHANGED unnoted
       \/ /\ Fails(kinds \cup {"corpus"}) /\ ret' = "failed"
          /\ unnoted' = unnoted \cup {b}

NotWritten(kinds) ==
    Fails(kinds \cup {"set"}) /\ ret' = "err" /\ UNCHANGED <<have, unnoted>>

\* populateDeleteClaim misses the target's meta row and notes the miss;
\* populateMutationMap then pretends that everything is fine, so that the
\* unfinished claim is committed, without "|indexed".
MissingTarget(b) ==
    /\ have[b] # "indexed" /\ Deps[b] \subseteq src
    /\ Target[b] # None /\ have[Target[b]] = "none"
    /\ \/ /\ NoteNeeded(b, {Target[b]})
          /\ Written(b, "partial", {}) \/ NotWritten({})
       \/ /\ Fail("set") /\ ret' = "failed"
          /\ UNCHANGED <<rows, needs, neededBy, have, unnoted>>
    /\ UNCHANGED <<src, deleted, unlisted, ready, deletes>>

\* The target of a delete claim is known, or (lost) could not be looked up,
\* which is only logged.  noted: a "deleted|" row is written.
TargetFound(b, noted, lost) ==
    \/ Target[b] = None /\ ~noted /\ ~lost
    \/ /\ Target[b] # None /\ have[Target[b]] # "none"
       /\ noted = (Target[b] \in Deletable) /\ ~lost
    \/ Target[b] # None /\ ~noted /\ lost

\* What b is made of could be read.  When a static set cannot be, and not
\* because it does not exist, populateDir only logs it (unread): the directory
\* is committed without the rows of its members.
DepsRead(b, unread) ==
    \/ Deps[b] \subseteq src /\ ~unread
    \/ b \in Dirs /\ Deps[b] # {} /\ unread

\* Mutant: the batch is committed without the blobs it depends on.
CommitBlind(b) ==
    /\ have[b] # "indexed" /\ Target[b] = None
    /\ have' = [have EXCEPT ![b] = "indexed"]
    /\ ret' = "ok"
    /\ UNCHANGED <<src, rows, deleted, unlisted, waiting, deletes, fails>>

\* Mutant: commit does not update the deletes cache.
CommitNoCache(b) ==
    /\ have[b] # "indexed" /\ Deps[b] \subseteq src
    /\ \E noted \in BOOLEAN :
        /\ TargetFound(b, noted, FALSE)
        /\ have' = [have EXCEPT ![b] = "indexed"]
        /\ deleted' = IF noted THEN deleted \cup {b} ELSE deleted
    /\ ret' = "ok"
    /\ UNCHANGED <<src, rows, unlisted, waiting, deletes, fails>>

\* Nothing is missing: the rows are committed as indexed, and the deletes
\* cache gets every delete claim.
Commit(b) ==
    /\ have[b] # "indexed"
    /\ \E noted, unread, lost \in BOOLEAN :
        LET kinds == (IF unread THEN {"fetch"} ELSE {})
                        \cup (IF lost THEN {"meta"} ELSE {})
        IN  /\ DepsRead(b, unread) /\ TargetFound(b, noted, lost)
            /\ \/ /\ Written(b, "indexed", kinds)
                  /\ unlisted' = IF unread THEN unlisted \cup {b}
                                            ELSE unlisted \ {b}
                  /\ deleted' = IF noted THEN deleted \cup {b} ELSE deleted
                  /\ deletes' = IF Target[b] # None THEN deletes \cup {b}
                                                    ELSE deletes
               \/ NotWritten(kinds) /\ UNCHANGED <<unlisted, deleted, deletes>>
    /\ UNCHANGED <<src, rows, needs, neededBy, ready>>

\* b itself, or what a file or claim is made of, cannot be read, and not
\* because it does not exist.
FetchError(b) ==
    /\ Fail("fetch") /\ ret' = "failed"
    /\ UNCHANGED <<store, waiting, deletes>>

ReceiveBlob(b) ==
    /\ lock = None /\ lock' = b
    /\ \/ AlreadyIndexed(b) \/ MissingDep(b) \/ MissingTarget(b)
       \/ Commit(b) \/ FetchError(b)

\* Mutant: the needs are counted before br is taken out of them.
NowReadyStale(br) == {n \in neededBy[br] : needs[n] = {}}

\* The needers of br that need nothing else.
NowReady(br) == {n \in neededBy[br] : needs[n] \subseteq {br}}

\* noteBlobIndexed starts one goroutine per needer that became ready.  (The
\* lists of the code may hold a blob twice; a second goroutine finds no work.)
NoteBlobIndexed(br) ==
    /\ ready' = ready \cup NowReady(br)
    /\ loopers' = loopers + Cardinality(NowReady(br))
    /\ needs' = [n \in Blobs |-> IF n \in neededBy[br]
                                 THEN needs[n] \ {br} ELSE needs[n]]
    /\ neededBy' = [neededBy EXCEPT ![br] = {}]
    /\ unnoted' = unnoted \ {br}

\* Errors are only logged.
RemoveAllMissingEdges(br) ==
    \/ rows' = {e \in rows : e[1] # br} /\ UNCHANGED fails
    \/ Fail("set") /\ \E k \in SUBSET rows : rows' = {e \in rows : e[1] # br} \cup k

\* ReceiveBlob returns: its deferred function, and ix.Unlock.
Return ==
    /\ lock # None
    /\ IF ret \in {"ok", "err"}
       THEN NoteBlobIndexed(lock) /\ RemoveAllMissingEdges(lock)
       ELSE UNCHANGED <<waiting, loopers, rows, fails>>
    /\ acked' = IF ret \in {"ok", "noted"} THEN acked \cup {lock} ELSE acked
    /\ lock' = None /\ ret' = "ok"
    /\ UNCHANGED <<src, have, deleted, unlisted, hand, dropped, deletes, reindex,
                   crashes>>
-----------------------------------------------------------------------------
\* Callers of ReceiveBlob

\* The source storage receives a blob.
Store(b) ==
    /\ ~Reindexing /\ b \notin src
    /\ src' = src \cup {b}
    /\ UNCHANGED <<have, rows, deleted, unlisted, waiting, async, deletes, mutex,
                   reindex, acked, fails, crashes>>

\* The sync handler delivers a blob of the source, again after an error, or
\* when it is enqueued again.
Receive(b) ==
    /\ ~Reindexing /\ b \in src
    /\ ReceiveBlob(b)
    /\ UNCHANGED <<async, reindex, acked, crashes>>

\* One of Reindex's goroutines: indexBlob fetches and receives a blob.
ReindexOne(b) ==
    /\ b \in todo
    /\ ReceiveBlob(b)
    /\ todo' = todo \ {b}
    /\ nerr' = IF ret' \in {"err", "failed"} THEN nerr + 1 ELSE nerr
    /\ UNCHANGED <<async, mode, result, acked, crashes>>

\* Mutant: Reindex does not look at what is still needed.
ReindexReturnsNeeding ==
    /\ Reindexing /\ todo = {} /\ result = "running" /\ lock = None
    /\ loopers = 0 /\ \A b \in Blobs : hand[b] = 0
    /\ result' = IF nerr = 0 THEN "ok" ELSE "error"
    /\ UNCHANGED <<store, waiting, async, deletes, mutex, mode, todo, nerr, acked,
                   fails, crashes>>

\* After wg.Wait and reindexWg.Wait, Reindex looks for errors, and fills the
\* deletes cache anew.
ReindexReturns ==
    /\ Reindexing /\ todo = {} /\ result = "running" /\ lock = None
    /\ loopers = 0 /\ \A b \in Blobs : hand[b] = 0
    /\ IF ready = {} /\ needs = Nothing /\ nerr = 0
       THEN \/ result' = "ok" /\ deletes' = deleted /\ UNCHANGED fails
            \/ Fail("meta") /\ result' = "error" /\ deletes' \in SUBSET deleted
       ELSE result' = "error" /\ UNCHANGED <<deletes, fails>>
    /\ UNCHANGED <<store, waiting, async, mutex, mode, todo, nerr, acked, crashes>>

\* The enumeration fails, and Reindex returns at once; its goroutines go on
\* with the blobs that were enumerated.
ReindexEnumFails ==
    /\ Reindexing /\ result = "running" /\ Fail("enum")
    /\ result' = "error"
    /\ todo' \in SUBSET todo
    /\ UNCHANGED <<store, waiting, async, deletes, mutex, mode, nerr, acked,
                   crashes>>
-----------------------------------------------------------------------------
\* indexReadyBlobs

TakeReady(b) ==
    /\ lock = None /\ loopers > 0 /\ b \in ready
    /\ ready' = ready \ {b}
    /\ loopers' = loopers - 1
    /\ hand' = [hand EXCEPT ![b] = @ + 1]
    /\ UNCHANGED <<store, needs, neededBy, unnoted, dropped, deletes, mutex,
                   reindex, acked, fails, crashes>>

\* indexBlob: a failure is logged, and the goroutine goes on.
IndexReady(b) ==
    /\ hand[b] > 0
    /\ hand' = [hand EXCEPT ![b] = @ - 1]
    /\ loopers' = loopers + 1
    /\ ReceiveBlob(b)
    /\ dropped' = IF ret' \in {"err", "failed"} THEN dropped \cup {b} ELSE dropped
    /\ UNCHANGED <<reindex, acked, crashes>>

\* Mutant: a goroutine exits though blobs are ready.
NothingReadyExits ==
    /\ lock = None /\ loopers > 0
    /\ loopers' = loopers - 1
    /\ UNCHANGED <<store, waiting, hand, dropped, deletes, mutex, reindex,
                   acked, fails, crashes>>

\* Mutant: a goroutine waits for more blobs instead of exiting.
NothingReadyStays ==
    /\ lock = None /\ loopers > 0 /\ ready = {}
    /\ UNCHANGED vars

\* Mutant: an exit is counted twice.
NothingReadyTwice ==
    /\ lock = None /\ loopers > 0 /\ ready = {}
    /\ loopers' = loopers - 2
    /\ UNCHANGED <<store, waiting, hand, dropped, deletes, mutex, reindex,
                   acked, fails, crashes>>

NothingReady ==
    /\ lock = None /\ loopers > 0 /\ ready = {}
    /\ loopers' = loopers - 1
    /\ UNCHANGED <<store, waiting, hand, dropped, deletes, mutex, reindex,
                   acked, fails, crashes>>
-----------------------------------------------------------------------------
\* Mutant: initNeededMaps fills needs only.
InitNeededMapsHalf ==
    /\ needs' = [b \in Blobs |-> {m \in Blobs : <<b, m>> \in rows}]
    /\ neededBy' = Nothing

InitNeededMaps ==
    /\ needs' = [b \in Blobs |-> {m \in Blobs : <<b, m>> \in rows}]
    /\ neededBy' = [m \in Blobs |-> {b \in Blobs : <<b, m>> \in rows}]

\* The process stops and New builds an Index from the rows.  initNeededMaps
\* replaces the deletes cache that initDeletesCache has just filled.
CrashAndRestart ==
    /\ ~Reindexing /\ crashes < MaxCrashes
    /\ crashes' = crashes + 1
    /\ InitNeededMaps
    /\ ready' = {} /\ loopers' = 0 /\ hand' = [b \in Blobs |-> 0]
    /\ deletes' = {}
    /\ lock' = None /\ ret' = "ok"
    /\ UNCHANGED <<store, unnoted, dropped, reindex, acked, fails>>
-----------------------------------------------------------------------------
Next ==
    \/ \E b \in Blobs : \/ Store(b) \/ Receive(b) \/ ReindexOne(b)
                        \/ TakeReady(b) \/ IndexReady(b)
    \/ Return \/ NothingReady
    \/ ReindexReturns \/ ReindexEnumFails \/ CrashAndRestart

Spec == Init /\ [][Next]_vars

\* Every blob is stored and delivered until it is acknowledged, and the
\* goroutines run.  sync.RWMutex lets no goroutine starve that waits for it.
FairSpec ==
    /\ Spec
    /\ WF_vars(\E b \in Blobs : Store(b))
    /\ SF_vars(\E b \in Blobs : Receive(b) /\ b \notin acked)
    /\ SF_vars(\E b \in Blobs : ReindexOne(b)) /\ SF_vars(ReindexReturns)
    /\ SF_vars(\E b \in Blobs : TakeReady(b) \/ IndexReady(b))
    /\ WF_vars(Return) /\ SF_vars(NothingReady)
-----------------------------------------------------------------------------
TypeOK ==
    /\ src \subseteq Blobs
    /\ have \in [Blobs -> {"none", "partial", "indexed"}]
    /\ rows \subseteq Blobs \X Blobs
    /\ deleted \subseteq Blobs /\ deletes \subseteq Blobs
    /\ needs \in [Blobs -> SUBSET Blobs]
    /\ neededBy \in [Blobs -> SUBSET Blobs]
    /\ ready \subseteq Blobs /\ unlisted \subseteq Blobs /\ unnoted \subseteq Blobs
    /\ loopers \in Nat /\ hand \in [Blobs -> Nat]
    /\ lock \in Blobs \cup {None}
    /\ ret \in {"ok", "noted", "err", "failed"}
    /\ dropped \subseteq Blobs
    /\ mode \in {"serve", "reindex"}
    /\ todo \subseteq Blobs /\ nerr \in Nat
    /\ result \in {"running", "ok", "error"}
    /\ acked \subseteq Blobs /\ crashes \in Nat
    /\ fails \in [FailKinds -> Nat]

\* A blob marked as indexed was indexed with all it depends on at hand, in
\* whatever order blobs arrived and however often indexing was tried; the one
\* exception is a directory that lacks the rows of its members because a
\* fetch failed, and no file or claim is.  A delete claim then has its row
\* (when the target's meta row could be read).
IndexedIsComplete ==
    \A b \in Blobs : have[b] = "indexed" =>
        /\ \/ Deps[b] \subseteq src /\ b \notin unlisted
           \/ b \in Dirs /\ b \in unlisted /\ fails["fetch"] > 0
        /\ Target[b] # None /\ fails["meta"] = 0 =>
            /\ have[Target[b]] # "none"
            /\ Target[b] \in Deletable => b \in deleted

\* "neededBy is the inverse of needs", also after a restart.
NeededByIsInverse ==
    \A b, m \in Blobs : m \in needs[b] <=> b \in neededBy[m]

\* There is a goroutine for every ready blob: none is left behind by the
\* goroutines that exit when they see an empty set.
ReadyIsServed == Cardinality(ready) <= loopers

\* Somebody works at b, or b waits for a blob that has not come yet, or whose
\* own call failed after the commit.
Pending(b) ==
    \/ b \in ready \/ hand[b] > 0
    \/ \E m \in needs[b] : have[m] = "none" \/ lock = m \/ m \in unnoted

\* A "missing|" row says that b is not indexed.
OnRecord(b) == \E m \in Blobs : <<b, m>> \in rows

\* "We've successfully recorded that the blob isn't indexed, but we'll
\* reindex it later": within one process a blob that was acknowledged is
\* indexed, or something is on the way that will index it; no blob waits for
\* one that has already come, unless its own indexing failed.  Across crashes
\* it is indexed or still on record, as long as the store takes every write.
\* (A delete claim is not: the call that notes its miss removes the row.)
AckedIsPending ==
    /\ crashes = 0 =>
        \A b \in acked : have[b] = "indexed" \/ Pending(b) \/ b \in dropped
    /\ fails["set"] = 0 =>
        \A b \in acked : Target[b] = None => have[b] = "indexed" \/ OnRecord(b)

\* No ReceiveBlob is running, and the goroutines of indexReadyBlobs are gone.
AtRest == lock = None /\ loopers = 0 /\ \A b \in Blobs : hand[b] = 0

\* The order of arrival does not matter: in a process at rest, acknowledged
\* blobs that name only each other are all indexed, however their deliveries
\* and the goroutines interleaved.  No circle of blobs is left waiting for
\* each other, and no ready blob is left without a goroutine.  (Blobs whose
\* own indexing failed are left out.)
AtRestAllIndexed ==
    crashes = 0 /\ AtRest =>
        \A S \in SUBSET (acked \ (dropped \cup unnoted)) :
            Closed(S) => \A b \in S : have[b] = "indexed"

\* The inductive invariant: what the process works with is in the source,
\* a need is for a blob that has not come or is being noted as indexed, and
\* a blob that was or will be acknowledged has left a trace.
InSource ==
    /\ todo \subseteq src /\ ready \subseteq src
    /\ lock \in src \cup {None}
    /\ \A b \in Blobs : have[b] # "none" \/ needs[b] # {} \/ hand[b] > 0 =>
        b \in src
    /\ \A e \in rows : e[1] \in src

FreshNeeds ==
    crashes = 0 =>
        \A b \in Blobs : \A m \in needs[b] :
            \/ have[m] = "none" \/ m \in unnoted
            \/ lock = m /\ ret \in {"ok", "err"}

Settled(b) ==
    \/ have[b] = "indexed" \/ b \in ready \/ hand[b] > 0 \/ needs[b] # {}
    \/ b \in dropped

AckedSettled ==
    crashes = 0 =>
        \A b \in Blobs :
            b \in acked \/ (lock = b /\ ret \in {"ok", "noted"}) => Settled(b)

IInv ==
    /\ TypeOK /\ InSource /\ IndexedIsComplete /\ NeededByIsInverse
    /\ ReadyIsServed /\ FreshNeeds /\ AckedSettled

\* Some access has failed.
Failed == \E kind \in FailKinds : fails[kind] > 0

\* A blob waits only for blobs it names, on disk too.
NeedsAreRefs ==
    /\ \A b \in Blobs : needs[b] \subseteq Refs(b)
    /\ \A e \in rows : e[2] \in Refs(e[1])

\* A blob that was or will be acknowledged is indexed or on record, and
\* ReceiveBlob removes only the rows of a blob that is indexed.
AckedOnRecord ==
    fails["set"] = 0 =>
        \A b \in Blobs : Target[b] = None =>
            /\ b \in acked \/ (lock = b /\ ret = "noted") =>
                have[b] = "indexed" \/ OnRecord(b)
            /\ lock = b /\ ret \in {"ok", "err"} => have[b] = "indexed"

\* While Reindex has counted no error, every blob it has taken has left a
\* trace: this makes ReindexHonest inductive.
ReindexAccounted ==
    /\ result # "running" => Reindexing
    /\ Reindexing /\ nerr = 0 /\ result # "error" => \A b \in src \ todo : Settled(b)
    /\ Reindexing => crashes = 0
    /\ nerr > 0 \/ dropped # {} \/ unnoted # {} => Failed

\* IsDeleted answers from the cache what the "deleted|" rows say: commit
\* updates both under one lock.  This is so until a restart, which empties
\* the cache, and for claims whose target is deletable and was looked up.
CacheMatchesRows ==
    crashes = 0 /\ fails["meta"] = 0 =>
        \A b \in Blobs : Target[b] \in Deletable =>
            (b \in deletes <=> b \in deleted)

\* An acknowledged blob is indexed in the end, when all blobs arrive and
\* there is neither a failure nor a crash.  (readyReindex is in memory only:
\* a crash between the indexing of the last blob that b needs and that of b
\* leaves a "missing|" row for a blob that will not come again.)
EventuallyIndexed ==
    \A b \in Blobs : ~Reindexing /\ b \in acked ~> have[b] = "indexed"

\* Reindex reports success only when every blob of the source is indexed,
\* unless the asynchronous indexing of one failed, which nerr does not count;
\* and it reports an error only when an access failed or the source lacks a
\* blob that one of its blobs names.
ReindexHonest ==
    /\ result = "ok" => \A b \in src : have[b] = "indexed" \/ b \in dropped
    /\ result = "error" => Failed \/ ~Closed(src)

\* Reindex returns: it does not wait for blobs that cannot become ready.
ReindexTerminates == Reindexing ~> result # "running"
=============================================================================
