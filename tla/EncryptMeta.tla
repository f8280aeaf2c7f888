---------------------------- MODULE EncryptMeta ----------------------------
(***************************************************************************)
(* pkg/blobserver/encrypt: blobs are stored encrypted in the storage       *)
(* "blobs"; which encrypted blob belongs to a plaintext is recorded in     *)
(* meta blobs in the storage "meta", from which start-up rebuilds the      *)
(* index.  Small meta blobs are compacted into larger ones in the          *)
(* background, and start-up, which compacts as it reads, runs concurrently *)
(* with that.                                                              *)
(***************************************************************************)
EXTENDS Naturals, FiniteSets

CONSTANTS
    Plains,      \* plaintext blobs
    Encs, Plain, \* encrypted blobs; Plain[e]: what e decrypts to
    Metas,       \* names for meta blobs
    Requests,    \* clients that call ReceiveBlob
    Packers,     \* slots for makePackedMetaBlob goroutines
    FullMetaBlobSize, SmallMetaCountLimit,
    MaxErrors, MaxCrashes        \* bounds of the model

None == "none"
Start == "start"    \* the goroutine of newFromConfig

ASSUME EncryptAssumption ==
    /\ None \notin Plains \cup Encs \cup Metas \cup Requests \cup Packers
    /\ Start \notin Requests \cup Packers
    /\ Plain \in [Encs -> Plains]
    /\ FullMetaBlobSize \in Nat /\ SmallMetaCountLimit \in Nat
    /\ MaxErrors \in Nat /\ MaxCrashes \in Nat

VARIABLES
    blobs,      \* encrypted blobs stored
    metas,      \* meta blobs stored
    line,       \* line[m][p]: the encrypted blob that m has for p, or None
    lines,      \* number of lines of m; 0: m was never made
    index,      \* the index: encrypted blob for a plaintext, or None
    up,         \* "up", "down", "starting" or "failed"
    heap,       \* smallMeta: <<m, who recorded it>>
    holder,     \* who holds smallMeta's lock to empty the heap, or None
    group, gn,  \* what it has popped for the next packed blob, and its lines
    pc, req, enc, new,          \* per request: place, plaintext, blobs made
    tpc, tgroup, tn, tleft, tread, tnew,   \* per packer: place, job, lines, blob
    must,       \* metas that were there when start-up began to enumerate
    seen, got, done,   \* metas enumerated, fetched, processed by start-up
    working,    \* the meta that start-up is about to record, or None
    acked,      \* history: plaintexts whose ReceiveBlob returned nil
    errors, crashes

disk == <<blobs, metas, line, lines, index>>
mem == <<heap, holder, group, gn>>
request == <<pc, req, enc, new>>
packer == <<tpc, tgroup, tn, tleft, tread, tnew>>
start == <<must, seen, got, done, working>>
vars == <<disk, up, mem, request, packer, start, acked, errors, crashes>>

NoLines == [p \in Plains |-> None]

Init ==
    /\ blobs = {} /\ metas = {} /\ line = [m \in Metas |-> NoLines]
    /\ lines = [m \in Metas |-> 0] /\ index = NoLines /\ up = "up"
    /\ heap = {} /\ holder = None /\ group = {} /\ gn = 0
    /\ pc = [r \in Requests |-> "idle"] /\ req = [r \in Requests |-> None]
    /\ enc = [r \in Requests |-> None] /\ new = [r \in Requests |-> None]
    /\ tpc = [t \in Packers |-> "idle"] /\ tgroup = [t \in Packers |-> {}]
    /\ tn = [t \in Packers |-> 0] /\ tleft = [t \in Packers |-> {}]
    /\ tread = [t \in Packers |-> NoLines] /\ tnew = [t \in Packers |-> None]
    /\ must = {} /\ seen = {} /\ got = {} /\ done = {} /\ working = None
    /\ acked = {} /\ errors = 0 /\ crashes = 0

Error == errors < MaxErrors /\ errors' = errors + 1

\* recordMeta: a meta blob that is not full goes on the heap; whoever makes
\* the heap too large empties it, under the lock.
recordMeta(who, m, tag) ==
    IF lines[m] > FullMetaBlobSize
    THEN UNCHANGED mem
    ELSE /\ holder = None
         /\ heap' = heap \cup {<<m, tag>>}
         /\ holder' = IF Cardinality(heap') > SmallMetaCountLimit THEN who ELSE None
         /\ UNCHANGED <<group, gn>>

\* The meta blobs of some heap entries.
Names(g) == {x[1] : x \in g}

\* The plaintexts that some of the meta blobs ms have lines for.
PlainsOf(ms) == {p \in Plains : \E m \in ms : line[m][p] # None}

\* go makePackedMetaBlob(plains, toDelete)
Spawn(g, n) ==
    LET idle == {t \in Packers : tpc[t] = "idle"}
        t == CHOOSE x \in idle : TRUE
    IN  /\ idle # {}
        /\ tpc' = [tpc EXCEPT ![t] = "read"]
        /\ tgroup' = [tgroup EXCEPT ![t] = Names(g)]
        /\ tleft' = [tleft EXCEPT ![t] = PlainsOf(Names(g))]
        /\ tn' = [tn EXCEPT ![t] = n]
        /\ tread' = [tread EXCEPT ![t] = NoLines]
        /\ UNCHANGED tnew

\* The next of the smallest entries is popped; a group that is large enough
\* is given to a packer.
Pop(x) ==
    /\ holder # None /\ x \in heap
    /\ \A y \in heap : lines[x[1]] <= lines[y[1]]
    /\ heap' = heap \ {x}
    /\ LET g == group \cup {x}
           n == gn + lines[x[1]]
       IN  IF n > FullMetaBlobSize
           THEN Spawn(g, n) /\ group' = {} /\ gn' = 0
           ELSE group' = g /\ gn' = n /\ UNCHANGED packer
    /\ UNCHANGED <<disk, up, holder, request, start, acked, errors, crashes>>

\* The heap is empty: the rest is packed too, unless it is a single blob.
PopEnd ==
    /\ holder # None /\ heap = {}
    /\ IF \E x, y \in group : x # y
       THEN Spawn(group, gn) /\ UNCHANGED heap
       ELSE heap' = group /\ UNCHANGED packer
    /\ group' = {} /\ gn' = 0 /\ holder' = None
    /\ UNCHANGED <<disk, up, request, start, acked, errors, crashes>>
-----------------------------------------------------------------------------
\* ReceiveBlob

RecvEnd(r) ==
    /\ pc' = [pc EXCEPT ![r] = "idle"] /\ req' = [req EXCEPT ![r] = None]
    /\ enc' = [enc EXCEPT ![r] = None] /\ new' = [new EXCEPT ![r] = None]

\* A plaintext that is in the index is a duplicate.
RecvCheck(r, p) ==
    /\ up = "up" /\ pc[r] = "idle"
    /\ \/ /\ index[p] # None
          /\ acked' = acked \cup {p}
          /\ UNCHANGED <<pc, req, errors>>
       \/ /\ (index[p] = None /\ UNCHANGED errors) \/ Error
          /\ pc' = [pc EXCEPT ![r] = "store"]
          /\ req' = [req EXCEPT ![r] = p]
          /\ UNCHANGED acked
    /\ UNCHANGED <<disk, up, mem, enc, new, packer, start, crashes>>

\* The encrypted blob, with a nonce of its own, is stored.
RecvStore(r) ==
    /\ pc[r] = "store"
    /\ \E e \in Encs \ blobs :
        /\ Plain[e] = req[r]
        /\ blobs' = blobs \cup {e}
        /\ enc' = [enc EXCEPT ![r] = e]
    /\ pc' = [pc EXCEPT ![r] = "meta"]
    /\ UNCHANGED <<metas, line, lines, index, up, mem, req, new, packer, start,
                   acked, errors, crashes>>

\* A new meta blob with the given lines.  Its name is a hash: any new one.
NewMetas == {m \in Metas : lines[m] = 0}
NewMeta == CHOOSE m \in NewMetas : TRUE
PutMeta(ls, n) ==
    /\ NewMetas # {}
    /\ metas' = metas \cup {NewMeta}
    /\ line' = [line EXCEPT ![NewMeta] = ls]
    /\ lines' = [lines EXCEPT ![NewMeta] = n]

\* The meta blob with the one line is stored.
RecvMeta(r) ==
    /\ pc[r] = "meta"
    /\ PutMeta([NoLines EXCEPT ![req[r]] = enc[r]], 1)
    /\ new' = [new EXCEPT ![r] = NewMeta]
    /\ pc' = [pc EXCEPT ![r] = "record"]
    /\ UNCHANGED <<blobs, index, up, mem, req, enc, packer, start, acked,
                   errors, crashes>>

\* Mutant: the encrypted blob is recorded instead of its meta blob.
RecvRecordEnc(r) ==
    /\ pc[r] = "record" /\ holder = None
    /\ heap' = heap \cup {<<enc[r], "made">>}
    /\ pc' = [pc EXCEPT ![r] = "index"]
    /\ UNCHANGED <<disk, up, holder, group, gn, req, enc, new, packer, start,
                   acked, errors, crashes>>

RecvRecord(r) ==
    /\ pc[r] = "record"
    /\ recordMeta(r, new[r], "made")
    /\ pc' = [pc EXCEPT ![r] = "index"]
    /\ UNCHANGED <<disk, up, req, enc, new, packer, start, acked,
                   errors, crashes>>

RecvIndex(r) ==
    /\ pc[r] = "index" /\ holder # r
    /\ index' = [index EXCEPT ![req[r]] = enc[r]]
    /\ acked' = acked \cup {req[r]}
    /\ RecvEnd(r)
    /\ UNCHANGED <<blobs, metas, line, lines, up, mem, packer, start, errors,
                   crashes>>

\* Storing the blob, the meta blob or the index entry fails; nothing is undone.
RecvFails(r) ==
    /\ pc[r] \in {"store", "meta", "index"} /\ holder # r /\ Error
    /\ RecvEnd(r)
    /\ UNCHANGED <<disk, up, mem, packer, start, acked, crashes>>
-----------------------------------------------------------------------------
\* makePackedMetaBlob

PackEnd(t) ==
    /\ tpc' = [tpc EXCEPT ![t] = "idle"] /\ tgroup' = [tgroup EXCEPT ![t] = {}]
    /\ tn' = [tn EXCEPT ![t] = 0] /\ tleft' = [tleft EXCEPT ![t] = {}]
    /\ tread' = [tread EXCEPT ![t] = NoLines] /\ tnew' = [tnew EXCEPT ![t] = None]

\* Mutant: a plaintext without an index entry is skipped.
PackReadSkips(t, p) ==
    /\ tpc[t] = "read" /\ p \in tleft[t]
    /\ tleft' = [tleft EXCEPT ![t] = @ \ {p}]
    /\ tread' = [tread EXCEPT ![t] = [@ EXCEPT ![p] = index[p]]]
    /\ UNCHANGED <<disk, up, mem, request, tpc, tgroup, tn, tnew, start, acked,
                   errors, crashes>>

\* The lines are made from the index.  Without an entry the packer gives up
\* (and the heap has lost its blobs).
PackRead(t, p) ==
    /\ tpc[t] = "read" /\ p \in tleft[t]
    /\ IF index[p] = None
       THEN PackEnd(t)
       ELSE /\ tleft' = [tleft EXCEPT ![t] = @ \ {p}]
            /\ tread' = [tread EXCEPT ![t] = [@ EXCEPT ![p] = index[p]]]
            /\ UNCHANGED <<tpc, tgroup, tn, tnew>>
    /\ UNCHANGED <<disk, up, mem, request, start, acked, errors, crashes>>

\* The packed meta blob is stored.
PackUpload(t) ==
    /\ tpc[t] = "read" /\ tleft[t] = {}
    /\ PutMeta(tread[t], tn[t])
    /\ tnew' = [tnew EXCEPT ![t] = NewMeta]
    /\ tpc' = [tpc EXCEPT ![t] = "record"]
    /\ UNCHANGED <<blobs, index, up, mem, request, tgroup, tn, tleft, tread,
                   start, acked, errors, crashes>>

PackRecord(t) ==
    /\ tpc[t] = "record"
    /\ IF tn[t] < FullMetaBlobSize THEN recordMeta(t, tnew[t], "made")
                                   ELSE UNCHANGED mem
    /\ tpc' = [tpc EXCEPT ![t] = "delete"]
    /\ UNCHANGED <<disk, up, request, tgroup, tn, tleft, tread, tnew, start,
                   acked, errors, crashes>>

\* The blobs that were packed are deleted; a failure may leave some.
PackDelete(t) ==
    /\ tpc[t] = "delete" /\ holder # t
    /\ \/ metas' = metas \ tgroup[t] /\ UNCHANGED errors
       \/ Error /\ \E kept \in SUBSET tgroup[t] : metas' = metas \ (tgroup[t] \ kept)
    /\ PackEnd(t)
    /\ UNCHANGED <<blobs, line, lines, index, up, mem, request, start, acked,
                   crashes>>

\* Reading the index or storing the packed meta blob fails.
PackFails(t) ==
    /\ tpc[t] = "read" /\ Error
    /\ PackEnd(t)
    /\ UNCHANGED <<disk, up, mem, request, start, acked, crashes>>
-----------------------------------------------------------------------------
\* A crash; newFromConfig and readAllMetaBlobs.

Crash ==
    /\ up # "down" /\ crashes < MaxCrashes
    /\ up' = "down" /\ crashes' = crashes + 1
    /\ heap' = {} /\ holder' = None /\ group' = {} /\ gn' = 0
    /\ pc' = [r \in Requests |-> "idle"] /\ req' = [r \in Requests |-> None]
    /\ enc' = [r \in Requests |-> None] /\ new' = [r \in Requests |-> None]
    /\ tpc' = [t \in Packers |-> "idle"] /\ tgroup' = [t \in Packers |-> {}]
    /\ tn' = [t \in Packers |-> 0] /\ tleft' = [t \in Packers |-> {}]
    /\ tread' = [t \in Packers |-> NoLines] /\ tnew' = [t \in Packers |-> None]
    /\ must' = {} /\ seen' = {} /\ got' = {} /\ done' = {} /\ working' = None
    /\ UNCHANGED <<disk, acked, errors>>

\* NewKeyValueMaybeWipe: the index is the old one, or empty.
Restart(wipe) ==
    /\ up = "down"
    /\ up' = "starting"
    /\ index' = IF wipe THEN NoLines ELSE index
    /\ must' = metas /\ seen' = {} /\ got' = {} /\ done' = {} /\ working' = None
    /\ UNCHANGED <<blobs, metas, line, lines, mem, request, packer, acked, errors,
                   crashes>>

\* The enumeration finds a meta blob, one that was just packed included.
StartEnum(m) ==
    /\ up = "starting" /\ m \in metas \ seen
    /\ seen' = seen \cup {m}
    /\ UNCHANGED <<disk, up, mem, request, packer, must, got, done, working,
                   acked, errors, crashes>>

\* A goroutine fetches it, while it is there; a failure ends the start-up.
StartFetch(m) ==
    /\ up = "starting" /\ m \in seen \ got
    /\ \/ m \in metas /\ got' = got \cup {m} /\ UNCHANGED <<up, errors>>
       \/ /\ (m \notin metas /\ UNCHANGED errors) \/ Error
          /\ up' = "failed" /\ UNCHANGED got
    /\ UNCHANGED <<disk, mem, request, packer, must, seen, done, working, acked,
                   crashes>>

\* processEncryptedMetaBlob: its lines go into the index, then recordMeta.
StartProcess(m) ==
    /\ up = "starting" /\ working = None /\ holder # Start /\ m \in got \ done
    /\ index' = [p \in Plains |-> IF line[m][p] # None THEN line[m][p] ELSE index[p]]
    /\ done' = done \cup {m} /\ working' = m
    /\ UNCHANGED <<blobs, metas, line, lines, up, mem, request, packer, must,
                   seen, got, acked, errors, crashes>>

\* Setting an index entry fails after some were set: the start-up ends.
StartProcessFails(m) ==
    /\ up = "starting" /\ working = None /\ holder # Start /\ m \in got \ done
    /\ Error /\ up' = "failed"
    /\ \E ps \in SUBSET Plains :
        index' = [p \in Plains |-> IF p \in ps /\ line[m][p] # None THEN line[m][p]
                                                                   ELSE index[p]]
    /\ UNCHANGED <<blobs, metas, line, lines, mem, request, packer, start, acked,
                   crashes>>

\* Mutant: the meta blobs read are not recorded.
StartRecordForgets ==
    /\ up = "starting" /\ working # None
    /\ working' = None
    /\ UNCHANGED <<disk, up, mem, request, packer, must, seen, got, done, acked,
                   errors, crashes>>

StartRecord ==
    /\ up = "starting" /\ working # None
    /\ recordMeta(Start, working, "read")
    /\ working' = None
    /\ UNCHANGED <<disk, up, request, packer, must, seen, got, done, acked,
                   errors, crashes>>

\* Mutant: the fetches under way are not waited for.
StartDoneEarly ==
    /\ up = "starting" /\ must \subseteq seen /\ working = None /\ holder # Start
    /\ up' = "up"
    /\ must' = {} /\ seen' = {} /\ got' = {} /\ done' = {}
    /\ UNCHANGED <<disk, mem, request, packer, working, acked, errors, crashes>>

\* The enumeration ended and all that it found was processed.  It may have
\* missed blobs that were stored while it ran.
StartDone ==
    /\ up = "starting" /\ must \subseteq seen /\ seen = done
    /\ working = None /\ holder # Start
    /\ up' = "up"
    /\ must' = {} /\ seen' = {} /\ got' = {} /\ done' = {}
    /\ UNCHANGED <<disk, mem, request, packer, working, acked, errors, crashes>>
\* The enumeration ended early with an error: what it had found by then was
\* processed, and the start-up ends with the error from enumErrc.
StartEnumFails ==
    /\ up = "starting" /\ seen = done
    /\ working = None /\ holder # Start
    /\ Error /\ up' = "failed"
    /\ UNCHANGED <<disk, mem, request, packer, start, acked, crashes>>
-----------------------------------------------------------------------------
Packer(t) ==
    \/ \E p \in Plains : PackRead(t, p)
    \/ PackUpload(t) \/ PackRecord(t) \/ PackDelete(t)

Starting ==
    \/ \E m \in Metas : StartEnum(m) \/ StartFetch(m) \/ StartProcess(m)
    \/ StartRecord \/ StartDone

Popping == PopEnd \/ \E x \in heap : Pop(x)

Next ==
    \/ Popping
    \/ \E r \in Requests :
        \/ \E p \in Plains : RecvCheck(r, p)
        \/ RecvStore(r) \/ RecvMeta(r) \/ RecvRecord(r) \/ RecvIndex(r)
        \/ RecvFails(r)
    \/ \E t \in Packers : Packer(t) \/ PackFails(t)
    \/ Crash \/ Starting
    \/ StartEnumFails \/ \E m \in Metas : StartProcessFails(m)
    \/ \E wipe \in BOOLEAN : Restart(wipe)

Spec == Init /\ [][Next]_vars

\* Goroutines that can go on do.
Fairness ==
    /\ WF_vars(Popping) /\ WF_vars(Starting)
    /\ \A t \in Packers : WF_vars(Packer(t))

FairSpec == Spec /\ Fairness
-----------------------------------------------------------------------------
TypeOK ==
    /\ blobs \subseteq Encs /\ metas \subseteq Metas
    /\ line \in [Metas -> [Plains -> Encs \cup {None}]]
    /\ lines \in [Metas -> Nat] /\ index \in [Plains -> Encs \cup {None}]
    /\ up \in {"up", "down", "starting", "failed"}
    /\ heap \subseteq Metas \X {"made", "read"}
    /\ group \subseteq Metas \X {"made", "read"} /\ gn \in Nat
    /\ holder \in {None, Start} \cup Requests \cup Packers
    /\ pc \in [Requests -> {"idle", "store", "meta", "record", "index"}]
    /\ req \in [Requests -> Plains \cup {None}]
    /\ enc \in [Requests -> Encs \cup {None}]
    /\ new \in [Requests -> Metas \cup {None}]
    /\ tpc \in [Packers -> {"idle", "read", "record", "delete"}]
    /\ tgroup \in [Packers -> SUBSET Metas] /\ tn \in [Packers -> Nat]
    /\ tleft \in [Packers -> SUBSET Plains]
    /\ tread \in [Packers -> [Plains -> Encs \cup {None}]]
    /\ tnew \in [Packers -> Metas \cup {None}]
    /\ must \subseteq Metas /\ seen \subseteq Metas /\ got \subseteq Metas
    /\ done \subseteq Metas /\ working \in Metas \cup {None}
    /\ acked \subseteq Plains

\* There is a meta blob with a line for p whose encrypted blob is stored.
Recorded(p) == \E m \in metas : line[m][p] \in blobs /\ Plain[line[m][p]] = p

\* Whatever was acknowledged can be recovered from the two storages alone,
\* in every state: between any two steps of the compactions, of which
\* several may run at once and one may pack what another has just packed.
Durable == \A p \in acked : Recorded(p)

\* While the server is up, after start-ups with a wiped index as well,
\* Fetch finds what was acknowledged, and gets the plaintext it asked for.
Served ==
    up = "up" => \A p \in acked : index[p] \in blobs /\ Plain[index[p]] = p

\* The storage keeps the contract of every Storage, with what the two
\* underlying storages hold for "there": compactions, failures, crashes and
\* start-ups take nothing away, and ReceiveBlob returns for a plaintext only
\* when it could be recovered.
Storage == INSTANCE BlobStorage
           WITH Blobs <- Plains, stored <- acked,
                there <- {p \in Plains : Recorded(p)}
StorageContract == Storage!Spec

-----------------------------------------------------------------------------
\* The inductive invariant behind these.

Used == {m \in Metas : lines[m] > 0}

\* The encrypted blob e is stored and is one of p.
Good(e, p) == e \in blobs /\ Plain[e] = p

\* Packers will delete these.
Doomed == UNION {tgroup[t] : t \in {x \in Packers : tpc[x] \in {"record", "delete"}}}

Has(ms, p) == \E m \in ms : line[m][p] # None

NamesOK ==
    /\ metas \subseteq Used /\ must \subseteq Used /\ seen \subseteq Used
    /\ got \subseteq seen /\ done \subseteq seen
    /\ working # None => working \in Used
    /\ \A x \in heap \cup group : x[1] \in Used
    /\ group # {} => gn > 0
    /\ \A t \in Packers : tgroup[t] \subseteq Used
    /\ \A t \in Packers : tpc[t] = "read" => tn[t] > 0
    /\ \A t \in Packers : tpc[t] = "record" => tnew[t] \in Used
    /\ \A r \in Requests : pc[r] = "record" => new[r] \in Used

MetaLinesOK ==
    \A m \in Metas : \A p \in Plains : line[m][p] # None => Good(line[m][p], p)

IndexOK == \A p \in Plains : index[p] # None => Good(index[p], p)

ReadOK ==
    \A t \in Packers : \A p \in Plains :
        tread[t][p] # None => Good(tread[t][p], p)

LinesOK == MetaLinesOK /\ IndexOK /\ ReadOK

RequestsOK ==
    /\ \A r \in Requests :
        /\ pc[r] # "idle" => req[r] \in Plains
        /\ pc[r] \in {"meta", "record", "index"} => Good(enc[r], req[r])
        /\ pc[r] \in {"record", "index"} => Has(metas, req[r])
    /\ up # "up" => \A r \in Requests : pc[r] = "idle"

\* What a packer has read covers the blobs that it will delete, and what any
\* meta blob said, deleted ones included, is also said by one that will stay.
PackersOK ==
    /\ \A t \in Packers : tpc[t] = "read" =>
        \A p \in PlainsOf(tgroup[t]) \ tleft[t] : tread[t][p] # None
    /\ \A p \in Plains : Has(Used, p) => Has(metas \ Doomed, p)

\* Start-up processes meta blobs for all that was acknowledged.
StartOK ==
    /\ up = "starting" => \A p \in acked : Has(must, p)
    /\ \A m \in done : \A p \in Plains : line[m][p] # None => index[p] # None
    /\ up = "down" => done = {}

RecordedOK == \A p \in Plains : p \in acked \/ index[p] # None => Has(metas, p)

IInv ==
    /\ TypeOK /\ NamesOK /\ LinesOK /\ RequestsOK /\ PackersOK /\ StartOK
    /\ RecordedOK /\ Served
-----------------------------------------------------------------------------
\* A start-up leaves, once its packers are done, no more than
\* SmallMetaCountLimit small meta blobs (until the next upload, and unless a
\* call of a storage fails): those that packers lost track of before, for want
\* of an index entry, are packed then.
Smalls == {m \in metas : lines[m] < FullMetaBlobSize}
PackedAtNextStart ==
    (up = "starting") ~>
        \/ up \in {"down", "failed"} \/ \E r \in Requests : pc[r] # "idle"
        \/ Cardinality(Smalls) <= SmallMetaCountLimit
        \/ errors > 0
=============================================================================
