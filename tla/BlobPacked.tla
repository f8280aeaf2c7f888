----------------------------- MODULE BlobPacked -----------------------------
(***************************************************************************)
(* pkg/blobserver/blobpacked: a storage that moves the blobs of large      *)
(* files from the storage "small" into zip files in the storage "large".   *)
(*                                                                         *)
(* Where a blob is, is decided by its row "b:" in the meta index: with a   *)
(* row it is in the zip that the row names, without one it is in small.    *)
(* Requests run concurrently and without a common lock; each call on       *)
(* small, large or the index is one step.  A client makes one call at a    *)
(* time.                                                                   *)
(***************************************************************************)
EXTENDS Naturals, Sequences, FiniteSets, Functions

CONSTANTS
    Blobs,
    Files,       \* schema blobs of files above packThreshold
    Zips,
    Contents,    \* Contents[z]: data and schema blobs in zip z
    Packs,       \* Packs[f]: the zips that packing f makes, in order
    DataSize,    \* DataSize[z]: bytes of the file in zip z
    Whole,       \* Whole[f]: the wholeref of f's contents
    Requests,    \* clients that call ReceiveBlob
    Removers,    \* clients that call RemoveBlobs
    Readers,     \* clients that call Fetch and StatBlobs
    GateSize,    \* capacity of packGate
    KeepGoing,   \* keepGoing: a failed integrity check does not stop the server
    MaxErrors, MaxCrashes, MaxRemoves   \* bounds of the model

None == "none"
Wholes == {Whole[f] : f \in Files}

\* The bytes of a file in a sequence of zips.
Bytes(s) == SumFunction([i \in DOMAIN s |-> DataSize[s[i]]])

\* Where the zips are cut depends on the chunks and on the sizes of names and
\* schema blobs: files with the same contents may have different numbers of
\* zips.
ASSUME PackedAssumption ==
    /\ Files \subseteq Blobs
    /\ None \notin Blobs \cup Zips
    /\ Contents \in [Zips -> SUBSET Blobs]
    /\ Packs \in [Files -> Seq(Zips)]
    /\ \A f \in Files : Len(Packs[f]) > 0
    /\ DataSize \in [Zips -> Nat]
    /\ \A f, g \in Files : Whole[f] = Whole[g] => Bytes(Packs[f]) = Bytes(Packs[g])
    /\ GateSize \in Nat \ {0} /\ KeepGoing \in BOOLEAN
    /\ MaxErrors \in Nat /\ MaxCrashes \in Nat /\ MaxRemoves \in Nat

VARIABLES
    small,     \* blobs in s.small
    large,     \* zips in s.large
    meta,      \* rows "b:": the zip of a blob, or None
    zrows,     \* zips with a row "z:"
    wrows,     \* wholerefs with a final row "w:"
    drows,     \* zips with a row "d:"
    up,        \* "up", or "down" after a crash
    pc, req,   \* per request: where it is, its blob
    had,       \* per request: "row" or "norow", what getMetaRow answered
    zi,        \* per request: index of the zip being made
    mpc, mreq, mrow,   \* per remover: where it is, its blob, the row it saw
    fpc, freq, frow,   \* per reader: where it is, its blob, the row it saw
    dzip,      \* the zip that deleteZipPack found unused, or None
    acked,     \* history: blobs whose ReceiveBlob returned nil
    removed,   \* history: blobs that RemoveBlobs was ever called for
    current,   \* history: ReceiveBlob began and ended after any RemoveBlobs
    fresh,     \* per request: no RemoveBlobs of its blob since it began
    misses,    \* history: <<blob, row>>: a reader saw the row and found nothing
    errors, crashes

disk == <<small, large, meta, zrows, wrows, drows>>
request == <<pc, req, had, zi>>
remove == <<mpc, mreq, mrow>>
read == <<fpc, freq, frow>>
history == <<acked, removed, current, fresh, misses>>
vars == <<disk, up, request, remove, read, dzip, history, errors, crashes>>

Init ==
    /\ small = {} /\ large = {} /\ meta = [b \in Blobs |-> None]
    /\ zrows = {} /\ wrows = {} /\ drows = {} /\ up = "up"
    /\ pc = [r \in Requests |-> "idle"] /\ req = [r \in Requests |-> None]
    /\ had = [r \in Requests |-> "norow"] /\ zi = [r \in Requests |-> 1]
    /\ mpc = [m \in Removers |-> "idle"] /\ mreq = [m \in Removers |-> None]
    /\ mrow = [m \in Removers |-> None]
    /\ fpc = [q \in Readers |-> "idle"] /\ freq = [q \in Readers |-> None]
    /\ frow = [q \in Readers |-> None]
    /\ dzip = None
    /\ acked = {} /\ removed = {} /\ misses = {}
    /\ current = {} /\ fresh = [r \in Requests |-> "no"]
    /\ errors = 0 /\ crashes = 0

\* What Fetch finds: the meta row decides where it looks.
Readable(b) == IF meta[b] = None THEN b \in small ELSE meta[b] \in large

Error == errors < MaxErrors /\ errors' = errors + 1
-----------------------------------------------------------------------------
\* ReceiveBlob

\* A new call; getMetaRow says whether the blob is packed already.
RecvLookup(r, b) ==
    /\ up = "up" /\ pc[r] = "idle" /\ (r \in Removers => mpc[r] = "idle")
    /\ pc' = [pc EXCEPT ![r] = "looked"]
    /\ req' = [req EXCEPT ![r] = b]
    /\ had' = [had EXCEPT ![r] = IF meta[b] = None THEN "norow" ELSE "row"]
    /\ fresh' = [fresh EXCEPT ![r] =
            IF \E m \in Removers : mpc[m] # "idle" /\ mreq[m] = b
            THEN "no" ELSE "yes"]
    /\ UNCHANGED <<disk, up, zi, remove, read, dzip, acked, removed, current,
                   misses, errors, crashes>>

\* The call ends: ReceiveBlob returns nil, whether packing succeeded or not.
Ack(r) ==
    /\ pc' = [pc EXCEPT ![r] = "idle"]
    /\ acked' = acked \cup {req[r]}
    /\ current' = IF fresh[r] = "yes" THEN current \cup {req[r]} ELSE current

\* Mutant: a blob that is packed is taken for unpacked and not stored.
RecvStoreSwapped(r) ==
    /\ pc[r] = "looked"
    /\ small' = IF had[r] = "row" THEN small \cup {req[r]} ELSE small
    /\ Ack(r)
    /\ UNCHANGED <<large, meta, zrows, wrows, drows, up, req, had, zi, remove,
                   read, dzip, removed, fresh, misses, errors, crashes>>

RecvStore(r) ==
    /\ pc[r] = "looked"
    /\ small' = IF had[r] = "row" THEN small ELSE small \cup {req[r]}
    /\ IF req[r] \in Files /\ had[r] = "norow"
       THEN pc' = [pc EXCEPT ![r] = "gate"] /\ UNCHANGED <<acked, current>>
       ELSE Ack(r)
    /\ UNCHANGED <<large, meta, zrows, wrows, drows, up, req, had, zi, remove,
                   read, dzip, removed, fresh, misses, errors, crashes>>

\* small.ReceiveBlob fails.
RecvFails(r) ==
    /\ pc[r] = "looked" /\ had[r] = "norow" /\ Error
    /\ pc' = [pc EXCEPT ![r] = "idle"]
    /\ UNCHANGED <<disk, up, req, had, zi, remove, read, dzip, history, crashes>>
-----------------------------------------------------------------------------
\* packFile, pack and writeAZip

Packing == {r \in Requests : pc[r] \in {"zip", "written", "committed", "whole"}}
Zip(r) == Packs[req[r]][zi[r]]
FileBlobs(f) == UNION {Contents[Packs[f][i]] : i \in 1..Len(Packs[f])}

\* scanChunks and the pass that computes the wholeref read the whole file;
\* pack gives up when the wholeref has a row already.
PackStart(r) ==
    /\ pc[r] = "gate" /\ Cardinality(Packing) < GateSize
    /\ \A b \in FileBlobs(req[r]) : Readable(b)
    /\ IF Whole[req[r]] \in wrows
       THEN Ack(r) /\ UNCHANGED zi
       ELSE /\ pc' = [pc EXCEPT ![r] = "zip"]
            /\ zi' = [zi EXCEPT ![r] = 1]
            /\ UNCHANGED <<acked, current>>
    /\ UNCHANGED <<disk, up, req, had, remove, read, dzip, removed,
                   fresh, misses, errors, crashes>>

\* A chunk is missing, or any step fails: packFile logs it, nothing is
\* undone.
PackFails(r) ==
    /\ pc[r] \in {"gate", "zip", "written", "whole"}
    /\ \/ pc[r] = "gate" /\ \E b \in FileBlobs(req[r]) : ~Readable(b)
          /\ UNCHANGED errors
       \/ Error
    /\ Ack(r)
    /\ UNCHANGED <<disk, up, req, had, zi, remove, read, dzip, removed,
                   fresh, misses, crashes>>

\* Mutant: the rows are committed before the zip is uploaded.
ZipWriteAfter(r) ==
    /\ pc[r] = "zip" /\ \A b \in Contents[Zip(r)] : Readable(b)
    /\ meta' = [b \in Blobs |-> IF b \in Contents[Zip(r)] THEN Zip(r) ELSE meta[b]]
    /\ pc' = [pc EXCEPT ![r] = "written"]
    /\ UNCHANGED <<small, large, zrows, wrows, drows, up, req, had, zi, remove,
                   read, dzip, history, errors, crashes>>

\* The zip's blobs are fetched and the zip is uploaded to large.
ZipWrite(r) ==
    /\ pc[r] = "zip" /\ \A b \in Contents[Zip(r)] : Readable(b)
    /\ large' = large \cup {Zip(r)}
    /\ pc' = [pc EXCEPT ![r] = "written"]
    /\ UNCHANGED <<small, meta, zrows, wrows, drows, up, req, had, zi, remove,
                   read, dzip, history, errors, crashes>>

\* One batch: the rows "w:<ref>:<n>", "z:" and "b:" of the zip.
ZipCommit(r) ==
    /\ pc[r] = "written"
    /\ meta' = [b \in Blobs |-> IF b \in Contents[Zip(r)] THEN Zip(r) ELSE meta[b]]
    /\ zrows' = zrows \cup {Zip(r)}
    /\ pc' = [pc EXCEPT ![r] = "committed"]
    /\ UNCHANGED <<small, large, wrows, drows, up, req, had, zi, remove, read,
                   dzip, history, errors, crashes>>

\* The packed blobs are deleted from small (a failure, which may leave some
\* of them, is only logged); the next zip, or the final row.
ZipRemove(r) ==
    /\ pc[r] = "committed"
    /\ \/ small' = small \ Contents[Zip(r)] /\ UNCHANGED errors
       \/ Error /\ \E keep \in SUBSET Contents[Zip(r)] :
                      small' = small \ (Contents[Zip(r)] \ keep)
    /\ IF zi[r] < Len(Packs[req[r]])
       THEN /\ pc' = [pc EXCEPT ![r] = "zip"]
            /\ zi' = [zi EXCEPT ![r] = @ + 1]
       ELSE pc' = [pc EXCEPT ![r] = "whole"] /\ UNCHANGED zi
    /\ UNCHANGED <<large, meta, zrows, wrows, drows, up, req, had, remove, read,
                   dzip, history, crashes>>

WholeSet(r) ==
    /\ pc[r] = "whole"
    /\ wrows' = wrows \cup {Whole[req[r]]}
    /\ Ack(r)
    /\ UNCHANGED <<small, large, meta, zrows, drows, up, req, had, zi, remove,
                   read, dzip, removed, fresh, misses, errors, crashes>>
-----------------------------------------------------------------------------
\* RemoveBlobs (of one blob): the row is looked up, then acted upon.

RemoveLookup(m, b) ==
    /\ up = "up" /\ mpc[m] = "idle" /\ (m \in Requests => pc[m] = "idle")
    /\ b \notin removed /\ Cardinality(removed) < MaxRemoves
    /\ mpc' = [mpc EXCEPT ![m] = "looked"]
    /\ mreq' = [mreq EXCEPT ![m] = b]
    /\ mrow' = [mrow EXCEPT ![m] = meta[b]]
    /\ removed' = removed \cup {b}
    /\ current' = current \ {b}
    /\ fresh' = [r \in Requests |-> IF req[r] = b THEN "no" ELSE fresh[r]]
    /\ UNCHANGED <<disk, up, request, read, dzip, acked, misses, errors,
                   crashes>>

\* Mutant: the "d:" row is written for every blob.
RemoveActAlways(m) ==
    /\ mpc[m] = "looked"
    /\ mpc' = [mpc EXCEPT ![m] = "idle"]
    /\ meta' = [meta EXCEPT ![mreq[m]] = None]
    /\ drows' = drows \cup {mrow[m]}
    /\ UNCHANGED <<small, large, zrows, wrows, up, request, mreq, mrow, read,
                   dzip, history, errors, crashes>>

\* Packed: the row is deleted and its zip gets a "d:" row; otherwise the
\* blob is deleted from small.
RemoveAct(m) ==
    /\ mpc[m] = "looked"
    /\ mpc' = [mpc EXCEPT ![m] = "idle"]
    /\ LET b == mreq[m] IN
        /\ IF mrow[m] # None
           THEN /\ meta' = [meta EXCEPT ![b] = None]
                /\ drows' = drows \cup {mrow[m]}
                /\ UNCHANGED small
           ELSE small' = small \ {b} /\ UNCHANGED <<meta, drows>>
    /\ UNCHANGED <<large, zrows, wrows, up, request, mreq, mrow, read, dzip,
                   acked, removed, current, fresh, misses, errors, crashes>>

RemoveFails(m) ==
    /\ mpc[m] = "looked" /\ Error
    /\ mpc' = [mpc EXCEPT ![m] = "idle"]
    /\ UNCHANGED <<disk, up, request, mreq, mrow, read, dzip, history, crashes>>

\* Mutant: one deleted part is enough.
ZipPartsInUseAny(z) ==
    /\ up = "up" /\ dzip = None /\ z \in drows
    /\ z \in large => \E b \in Contents[z] : meta[b] = None
    /\ dzip' = z
    /\ UNCHANGED <<disk, up, request, remove, read, history, errors, crashes>>

\* deleteZipPack, for a zip with a "d:" row: zipPartsInUse, then the deletion.
ZipPartsInUse(z) ==
    /\ up = "up" /\ dzip = None /\ z \in drows
    /\ z \in large => \A b \in Contents[z] : meta[b] = None
    /\ dzip' = z
    /\ UNCHANGED <<disk, up, request, remove, read, history, errors, crashes>>

DeleteZipPack ==
    /\ dzip # None
    /\ large' = large \ {dzip} /\ dzip' = None
    /\ \/ drows' = drows \ {dzip} /\ UNCHANGED errors
       \/ Error /\ UNCHANGED drows
    /\ UNCHANGED <<small, meta, zrows, wrows, up, request, remove, read,
                   history, crashes>>
-----------------------------------------------------------------------------
\* Fetch and StatBlobs: the meta row first, then large or small.

FetchLookup(q, b) ==
    /\ up = "up" /\ fpc[q] = "idle" /\ b \in acked \ removed
    /\ fpc' = [fpc EXCEPT ![q] = "looked"]
    /\ freq' = [freq EXCEPT ![q] = b]
    /\ frow' = [frow EXCEPT ![q] = meta[b]]
    /\ UNCHANGED <<disk, up, request, remove, dzip, history, errors, crashes>>

FetchRead(q) ==
    /\ fpc[q] = "looked"
    /\ fpc' = [fpc EXCEPT ![q] = "idle"]
    /\ LET found == IF frow[q] = None THEN freq[q] \in small
                                      ELSE frow[q] \in large
       IN  misses' = IF found THEN misses
                     ELSE misses \cup {<<freq[q], frow[q]>>}
    /\ UNCHANGED <<disk, up, request, remove, freq, frow, dzip, acked, removed,
                   current, fresh, errors, crashes>>
-----------------------------------------------------------------------------
\* Crash and restart.  small, large and the index are durable.

Crash ==
    /\ up = "up" /\ crashes < MaxCrashes
    /\ up' = "down" /\ crashes' = crashes + 1
    /\ pc' = [r \in Requests |-> "idle"] /\ mpc' = [m \in Removers |-> "idle"]
    /\ fpc' = [q \in Readers |-> "idle"] /\ dzip' = None
    /\ UNCHANGED <<disk, req, had, zi, mreq, mrow, freq, frow, history, errors>>

\* checkLargeIntegrity: every zip has a row.  (It reports a row without a
\* zip only when a later zip exists.)
IntegrityOk == large \subseteq zrows

\* With keepGoing a failed check is only logged.
Restart ==
    /\ up = "down" /\ (IntegrityOk \/ KeepGoing)
    /\ up' = "up"
    /\ UNCHANGED <<disk, request, remove, read, dzip, history, errors, crashes>>

PartNumbers == UNION {1..Len(Packs[f]) : f \in Files}

\* The manifest of a zip says which part of which contents it holds.
Manifests == UNION {{<<Whole[f], i, Packs[f][i]>> : i \in 1..Len(Packs[f])} : f \in Files}

PartZips(w, i, zs) == {z \in zs : <<w, i, z>> \in Manifests}

Parts(w, zs) == {i \in PartNumbers : PartZips(w, i, zs) # {}}

\* reindex panics unless the parts are the first ones, and unless zips with
\* the same part hold the same number of bytes.
NoPanic ==
    \A w \in Wholes : \A i \in Parts(w, large) :
        /\ 1..i \subseteq Parts(w, large)
        /\ \A y, z \in PartZips(w, i, large) : DataSize[y] = DataSize[z]

\* The first n parts of w are in zs and add up to the size of its contents.
AddUp(w, n, zs) ==
    \E s \in [1..n -> zs] :
        /\ \A i \in 1..n : s[i] \in PartZips(w, i, zs)
        /\ \E f \in Files : Whole[f] = w /\ Bytes(s) = Bytes(Packs[f])

\* All known parts of w add up: reindex writes its final row.
Complete(w, zs) == \E n \in PartNumbers : Parts(w, zs) = 1..n /\ AddUp(w, n, zs)

\* Mutant: the parts are not added up.
RecoverUncounted(mode) ==
    /\ up = "down" /\ NoPanic
    /\ up' = "up"
    /\ zrows' = large
    /\ wrows' = {w \in Wholes : Parts(w, large) # {}}
    /\ UNCHANGED <<small, large, meta, drows, request, remove, read, dzip,
                   history, errors, crashes>>

\* reindex, on the existing index (FastRecovery) or on a wiped one
\* (FullRecovery).  The zips are read in the order of their names: of two
\* that hold a blob the later one gets the row.
Recover(mode) ==
    /\ up = "down" /\ NoPanic
    /\ up' = "up"
    /\ LET packed == {b \in Blobs : \E z \in large : b \in Contents[z]} IN
       \E last \in [packed -> large] :
        /\ \A b \in packed : b \in Contents[last[b]]
        /\ meta' = [b \in Blobs |-> IF b \in packed THEN last[b]
                                   ELSE IF mode = "fast" THEN meta[b] ELSE None]
    /\ zrows' = large \cup (IF mode = "fast" THEN zrows ELSE {})
    /\ wrows' = {w \in Wholes : Complete(w, large)}
                    \cup (IF mode = "fast" THEN wrows ELSE {})
    /\ drows' = IF mode = "fast" THEN drows ELSE {}
    /\ UNCHANGED <<small, large, request, remove, read, dzip, acked, removed,
                   current, fresh, misses, errors, crashes>>
-----------------------------------------------------------------------------
Next ==
    \/ \E r \in Requests :
        \/ \E b \in Blobs : RecvLookup(r, b)
        \/ RecvStore(r) \/ RecvFails(r) \/ PackStart(r) \/ PackFails(r)
        \/ ZipWrite(r) \/ ZipCommit(r) \/ ZipRemove(r) \/ WholeSet(r)
    \/ \E m \in Removers :
        \/ \E b \in Blobs : RemoveLookup(m, b)
        \/ RemoveAct(m) \/ RemoveFails(m)
    \/ \E z \in Zips : ZipPartsInUse(z)
    \/ DeleteZipPack
    \/ \E q \in Readers :
        \/ \E b \in Blobs : FetchLookup(q, b)
        \/ FetchRead(q)
    \/ Crash \/ Restart
    \/ \E mode \in {"fast", "full"} : Recover(mode)

Spec == Init /\ [][Next]_vars
-----------------------------------------------------------------------------
TypeOK ==
    /\ small \subseteq Blobs /\ large \subseteq Zips
    /\ meta \in [Blobs -> Zips \cup {None}]
    /\ zrows \subseteq Zips /\ wrows \subseteq Wholes /\ drows \subseteq Zips
    /\ up \in {"up", "down"}
    /\ pc \in [Requests -> {"idle", "looked", "gate", "zip", "written",
                            "committed", "whole"}]
    /\ req \in [Requests -> Blobs \cup {None}]
    /\ had \in [Requests -> {"row", "norow"}] /\ zi \in [Requests -> Nat]
    /\ mpc \in [Removers -> {"idle", "looked"}]
    /\ mreq \in [Removers -> Blobs \cup {None}]
    /\ mrow \in [Removers -> Zips \cup {None}]
    /\ fpc \in [Readers -> {"idle", "looked"}]
    /\ freq \in [Readers -> Blobs \cup {None}]
    /\ frow \in [Readers -> Zips \cup {None}]
    /\ dzip \in Zips \cup {None}
    /\ acked \subseteq Blobs /\ removed \subseteq Blobs

\* A blob whose upload was acknowledged and that nobody asked to remove can
\* be fetched in every state: during packing, after any failing step, after
\* a crash between any two steps, and after either recovery.  (The row says
\* where Fetch looks, so a row must never precede its zip, nor a deletion
\* from small its row.)
Durable == \A b \in acked \ removed : Readable(b)

\* The final "w:" row is only written for contents whose parts were packed
\* from the first to the last byte, and survives as such: OpenWholeRef relies
\* on it.  This holds though files with the same contents may be cut into
\* zips differently, packed at the same time and in part only.
WholeRowsComplete ==
    \A w \in wrows : \E n \in PartNumbers : AddUp(w, n, zrows)

\* A row that Fetch has read stays good while it reads the zip: packing the
\* blob again, recovery and deleteZipPack do not take the zip away.
PackedFetchFinds == \A x \in misses : x[1] \in removed \/ x[2] = None

\* The storage keeps the contract of every Storage: packing, failures, crashes
\* and recoveries are steps that take nothing away, and ReceiveBlob returns
\* for one blob at a time, which can be fetched then.
Storage == INSTANCE BlobStorage
           WITH stored <- acked \ removed, there <- {b \in Blobs : Readable(b)}
StorageContract == Storage!Spec

-----------------------------------------------------------------------------
\* The inductive invariant behind these.

\* A zip is there, or nothing in it is wanted any more.
ZipOK(z) == z \in large \/ Contents[z] \subseteq removed

\* Requests have blobs, packers have a zip.
RequestsOK ==
    /\ \A r \in Requests :
        /\ pc[r] # "idle" => req[r] \in Blobs
        /\ pc[r] \notin {"idle", "looked"} => req[r] \in Files
        /\ pc[r] \in {"zip", "written", "committed"} =>
            zi[r] \in 1..Len(Packs[req[r]])
    /\ \A m \in Removers : mpc[m] # "idle" =>
        /\ mreq[m] \in removed
        /\ mrow[m] # None => mrow[m] \in zrows
    /\ dzip # None => Contents[dzip] \subseteq removed
    /\ up = "down" => /\ \A r \in Requests : pc[r] = "idle"
                      /\ \A m \in Removers : mpc[m] = "idle"

\* The rows agree with each other and with large.
RowsOK ==
    /\ \A b \in Blobs : meta[b] # None =>
        meta[b] \in zrows /\ b \in Contents[meta[b]]
    /\ \A z \in zrows :
        /\ ZipOK(z)
        /\ \A b \in Contents[z] : meta[b] # None \/ b \in removed
    /\ drows \subseteq zrows

\* What a request has stored or seen is still so.
FlightOK ==
    \A r \in Requests :
        /\ pc[r] = "looked" /\ had[r] = "row" /\ req[r] \notin removed =>
            meta[req[r]] # None
        /\ pc[r] \notin {"idle", "looked"} /\ req[r] \notin removed =>
            Readable(req[r])
        /\ pc[r] = "written" => ZipOK(Zip(r))

\* The zips that a packer has behind it have their rows.
ProgressOK ==
    \A r \in Requests : pc[r] \notin {"idle", "looked"} =>
        \A j \in 1..Len(Packs[req[r]]) :
            \/ pc[r] \in {"zip", "written"} /\ j < zi[r]
            \/ pc[r] = "committed" /\ j <= zi[r]
            \/ pc[r] = "whole"
            => Packs[req[r]][j] \in zrows

ReadersOK ==
    \A q \in Readers : fpc[q] = "looked" /\ frow[q] # None =>
        freq[q] \in Contents[frow[q]] /\ ZipOK(frow[q])

IInv ==
    /\ TypeOK /\ RequestsOK /\ RowsOK /\ FlightOK /\ ProgressOK /\ ReadersOK
    /\ Durable /\ WholeRowsComplete /\ PackedFetchFinds
-----------------------------------------------------------------------------
\* As Durable, also for a blob that is uploaded again after its removal has
\* returned.
DurableAgain == \A b \in current : Readable(b)
=============================================================================
