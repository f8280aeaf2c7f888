# TLA+ models of Perkeep: storage, replication, indexing and live search

Perkeep stores content-addressed blobs.  A server is a tree of blob storages
(`pkg/blobserver/...`), an index over them (`pkg/index`), and sync handlers
(`pkg/server/sync.go`) that copy blobs from one storage to another, the index
being one such destination.  The web UI searches the index by XHRs and is kept
up to date through web sockets (`pkg/search`).  This directory models the parts
where several goroutines, several stores, messages under way, or a crash between
two steps decide whether a blob is lost, doubled, never processed or never
shown.  TLC checks the models on small
instances (the `.cfg` files), TLAPS proves the safety properties for every size
(the `...Proofs.tla` modules).  `PROJECT.json` lists components, runs,
mutants, the map from definitions to source lines, hazards and theorems.

## 1. The system and its parts

| Part | Source | State | Operations that change it | Module |
|---|---|---|---|---|
| Sync handler | `pkg/server/sync.go` | pending list `needCopy`, persistent queue, `copying`, byte count | `enqueue`, `runSync`, `copyBlob`, `setError`, start-up, `hourlyCompare` | `SyncHandler` |
| One run of a sync | same, `runSync` | three channels, worker pool, counters | enumerator, feeder, `copyWorker` | `RunSync` |
| Shard validation | same, `validateShardPrefix`; `pkg/blobserver/sync.go` | two enumerations, merge, missing blobs | `startValidatePrefix`, `ListMissingDestinationBlobs`, enqueueing | `ShardValidation` |
| Out-of-order indexing | `pkg/index/receive.go`, `index.go` | `have:`/`meta:`/`missing` rows, `needs`, `neededBy`, `readyReindex`, deletes cache | `ReceiveBlob`, `indexReadyBlobs`, `New`, `Reindex` | `IndexReceive` |
| Packed storage | `pkg/blobserver/blobpacked` | small and large storages, `b: z: w: d:` rows | `ReceiveBlob`, packing, `RemoveBlobs`, `Fetch`, `deleteZipPack`, recovery | `BlobPacked` |
| Encrypting storage | `pkg/blobserver/encrypt` | encrypted blobs, meta blobs, index, heap of small metas | `ReceiveBlob`, `recordMeta`, `makePackedMetaBlob`, start-up | `EncryptMeta` |
| Replication | what `sync.go` as a whole promises | source, blobs recorded for a copy, blobs owed, target | a blob is stored, recorded, copied | `Replication` (abstract) |
| Storage contract | `pkg/blobserver/interface.go` | blobs acknowledged, blobs that can be read | `ReceiveBlob`, `RemoveBlobs`, anything internal | `BlobStorage` (abstract) |
| Standing queries | `pkg/search/websocket.go`, part of `handler.go` and `query.go` | connections, channels, watched queries with `dirty`/`refreshing`/last result | `run`, `redoSearch`, `doSearch`, `readPump`, `writePump`, the listener of new blobs | `WsHub` |
| Search session of the web UI | `server/perkeepd/ui/search_session.js`, `server_connection.js` | `data_`, `continuation_`, `isComplete_`, `socket_`, XHRs under way | `loadMoreResults`, `refreshIfNecessary`, `close`, `searchDone_`, `startSocketQuery_` | `SearchSession` |

How they interact: a storage stores a blob and `blobserver.Receive` then calls
the hub, whose hook is a sync handler's `enqueue`; the sync loop runs batches
through `runSync`; each batch copies to a storage or to the index
(`ReceiveBlob`); full validation of a sync enqueues what a shard's destination
lacks.  `RunSync` justifies one assumption of `SyncHandler` (a run that returned
has no worker left, `NoWorkAfterReturn`); the redelivery that `IndexReceive`
assumes of its callers is what `RecordedCopied` states of `SyncHandler`;
`EnqueueMissing` of `SyncHandler` is what `ShardValidation` shows of a shard.
`SyncHandler` implements `Replication`: recorded blobs are owed until they are
copied, and nothing but blobs of the source is.
`BlobPacked` and `EncryptMeta` implement `BlobStorage`, the contract that the
interfaces of `pkg/blobserver` state for every storage (`StorageContract` in
both).  `SearchSession` is the composition of the session with the hub: it
extends `WsHub` and uses its actions for the server's side, with the session as
the client of the sockets; `SessionImplementsHub` is the theorem that the
composition implements the hub's specification for clients that subscribe,
unsubscribe and go at any time.

Everything else the repository contains is listed in `PROJECT.json` under
`components` with the reason why it is not modelled, or not yet.

### Behaviours that are hard to test

Crashes between the in-memory, the queue and the storage step of one operation;
two uploads of the same blob interleaved with a copy, a packer or a removal;
state read without a lock and used after another goroutine changed it; bounded
channels whose reader stops early; failures of one step of several; start-up
code that runs while background work changes what it reads.  Each is a hazard in
`PROJECT.json`, with its line and the properties that would notice it.

## 2. The modules

Every module has one action per step between two points at which another
goroutine or a crash can interfere.  A call on another storage or on a sorted
key/value store is atomic.  `Error`/`Fail` actions are bounded by constants
(`MaxErrors`, `MaxFails`), crashes by `MaxCrashes`; the proofs do not depend on
the values.  Contents of blobs, HTTP, logging and status pages are left out.
Operators whose comment starts with "Mutant" are wrong variants of the operator
that follows; no specification uses them.

**SyncHandler.**  Receivers (`enqueue`: `Receive` or `EnqueueMissing`, then
`AddBlobToCopy` under `sh.mu`, then `QueueSet` outside of it), one sync
goroutine (`loop`), and copiers (`StartCopy` ... `QueueDelete`, then `SetErrorNil`
or `SetError`).  `Crash` loses everything but the storages and the queue;
`ReadQueueRow`/`QueueRead` are `readQueueToMemory`.  `FirstRuns` is what the
start-up option `fullSyncOnStart` makes the sync goroutine do first; the full
run gets all or, after an error, some blobs of the source, and ends only through
a full `workch` (`BreakFeedWork`).  History
variables `acked` and `recorded` remember what `enqueue` promised.

**RunSync.**  The pipeline of one `runSync`: only numbers of blobs matter, so
channels and worker states are counters.  `run` says whether the enumerator is
the pending list or a full enumeration of the source.

**ShardValidation.**  The two enumerating goroutines, the merging goroutine with
its two peekers, and the validator, over all pairs of sets of refs; either
enumeration may fail at any point.

**IndexReceive.**  `ReceiveBlob` runs under `ix.mu`: `ReceiveBlob(b)` takes the
lock and does everything up to the deferred function, `Return` is that function
and the unlock.  `ret` tells the outcomes apart as the deferred function sees
them, which is not always how the caller does.  All blobs that a call finds
missing are noted by it.  A directory whose static set cannot be fetched is
committed without the rows of its members (`unlisted`: `populateDir` only logs
the error); a corpus error after the commit makes the call fail with the rows
written and the blobs that wait for it not told (`unnoted`).  `Reindex` may also
fail in its enumeration, while its goroutines go on, or when it fills the deletes
cache at its end.  `loopers` and `hand` are the
goroutines of `indexReadyBlobs`.  `CrashAndRestart` is a crash followed by `New`.

**BlobPacked.**  Requests, removers and readers are clients; a client makes one
call at a time, calls of several clients interleave at every access to `small`,
`large` or the meta index.  A file is packed into the zips `Packs[f]`; how
chunks are distributed over zips is a constant.  Files with the same contents may
be cut into different numbers of zips, since the sizes of their names and schema
blobs count too; a recovery therefore decides by the bytes (`DataSize`) whether
the parts it knows are the whole contents, as `reindex` does.  After a crash the
process restarts normally (if `checkLargeIntegrity` or `keepGoing` allows it) or
with either recovery, unless `reindex` panics: it does when a part is missing
before another, or when two zips with the same part of the same contents differ in
size (`blobpacked.go:711`); the process then stays down.  `deleteZipPack` is
called by tests only; it is an action all the same.

**EncryptMeta.**  An encryption has a nonce, so each upload of a plaintext makes
a different encrypted blob.  `heap` is `smallMeta`; `holder` is who empties it
under its lock.  Start-up enumerates, fetches, processes and records meta blobs
while the packers it started change them; a failed fetch, a bad meta blob or an
error of the enumeration ends it, after which the storage is not served.

**Replication.**  What a sync is for, without receivers, runs, workers, errors
and crashes: `Store` adds a blob to the source, `Record` takes a blob of the
source on record, which makes it owed unless the target has it, `Copy` moves a
blob of the source to the target and pays the debt.  `SyncHandler` maps `owed`
to the queue rows of blobs that the destination lacks; a crash, a retry, a
duplicate and the deletion of a row after the copy are then stuttering steps.

**BlobStorage.**  The contract: `stored` is what was acknowledged and not given
to `RemoveBlobs`, `there` what `Fetch` would find.  Both implementations map
`there` to what their stores can recover, so that a crash is an `Internal` step
that must not take away anything stored.

**WsHub.**  `run` is one goroutine that takes one message from one of its
channels at a time; where it sends to several connections the rest of the loop
is in `out` and `msg`, since each send may block.  `doSearch` is run by two kinds of
goroutines (`Jobs`): the first search of a subscription and the one that
`redoSearch` repeats while schema blobs arrive.  The listener holds the index's
read lock while it sends to the hub; an upload waits for that lock (`ixw`) and
keeps later readers out, as Go's `RWMutex` does.  An item of the index is its
place in the order of the query.  Changes of the index of which the hub does not
hear are steps too: `SyncIndexes` (the sync handler gives blobs to the index by
`ReceiveBlob`, without the hub's notification) and `ListenSkips` (no meta row for
the blob).  A client may withdraw its subscription (`Unsubscribe`); the web UI
never does, so this is part of `HubNext` and of the proofs, and not of the run.
History variables: `told` (the last result put into `c.send`), `crossed` (the
last search of the query was made while another had a result to store) and
`failed` (the last search failed, or the index changed unheard after it).

**SearchSession.**  Handlers of the browser are atomic.  An XHR is sent
(`Search`), answered by the server from the index as it is then (`Serve`,
`ServeFails`) and handled later (`XhrDone`, `XhrGarbled`, `XhrDropped`); several
are under way at once.  A page is a limit and a place to continue after.  The
history variables `mixed` and `gap` mark the two situations of section 5 in
which the session is known to go wrong, from where they arise to the event that
repairs them: the next replacement of `data_`, and the next result of the socket
or the next socket.

## 3. What TLC checks

| Run | Instance | Shows |
|---|---|---|
| `sync_safety` | 2 blobs (one of the largest size), 2 receivers, 2 copiers, batches of 2, `hourlyCompare`, 1 crash, both values of `fullSyncOnStart` | the handler implements `Replication` (`Replicates`), so a recorded blob is in the queue or copied, crash or not; while serving it is pending or copied (`AckedPendingOrCopied`); no blob is copied twice at once (`NoDoubleCopy`); the byte count is the sum (`BytesRemainIsSum`); a pending blob is dropped only when copied (`NeverDropped`); `hourlyCompare` does not accuse recorded blobs (`NoFalseCompareError`) |
| `sync_live` | 1 receiver, 1 copier, batches of 1, `workch` of 1, 1 crash, both values of `fullSyncOnStart` | a recorded blob is copied in the end (`RecordedCopied`), unless the sync goroutine stays in a full run for ever (section 5) |
| `sync_restart` | as `sync_safety` | violated: see section 5 |
| `runsync` | 0..7 blobs, batch 6, channels 2/6/1, pool 2 | conservation of blobs and a wholly handled batch (`IInv`); nobody works after the return (`NoWorkAfterReturn`); every step brings the run nearer to its end, and over the pending list there is a next one until it returns (`Terminates`), so it does (`RunReturns`) |
| `shard` | all pairs of subsets of 4 refs, channels of 3 and 1 | only missing blobs are enqueued; success means complete; every step brings a shard nearer to its end, one that fits in the channels has a next step until then (`Terminates`) and is processed (`ShardProcessed`) |
| `index_safety` | directory, one blob it is made of, permanode, delete claim; one failure of each of any two kinds, 1 crash; serving or `Reindex` | `indexed` implies all dependencies, but for a directory whose fetch failed (`IndexedIsComplete`); `neededBy` inverts `needs`; nothing acknowledged is forgotten, within a process and on record across crashes (`AckedIsPending`); at rest, acknowledged blobs that name only each other are indexed, in whatever order they came (`AtRestAllIndexed`); the deletes cache agrees with the rows; `Reindex` reports success only when all is indexed (but for what section 5 says) and an error only when something failed or is missing (`ReindexHonest`) |
| `index_live` | the same and a file in the directory, no failures | acknowledged blobs are indexed; `Reindex` returns |
| `packed_pack` | two files with the same contents, in 2 and in 3 zips, 2 clients, 1 failure, 1 crash, both recoveries | acknowledged blobs can be read in every state (`Durable`); `w:` rows belong to contents of which all bytes are in zips (`WholeRowsComplete`) |
| `packed_remove` | one file, 2 uploading clients, one remover, one reader, `deleteZipPack`, 2 removals, 1 failure | the storage implements `BlobStorage` (`StorageContract`); a row that `Fetch` read stays good (`PackedFetchFinds`) |
| `packed_again` | one file, 2 clients, 1 removal | violated: see section 5 |
| `encrypt` | 2 plaintexts with an encryption each, 8 meta names, 2 clients, 2 packers, 1 failure, 2 crashes, index wiped or kept | `StorageContract`; while the server is up all that was acknowledged is served (`Served`); the next start-up packs what packers lost track of (`PackedAtNextStart`) |
| `live_search` | 2 items, 2 connections, 2 XHRs, pages of 1, channels of 1, one of 8 budgets of outside events | no send to a closed channel (`NoSendOnClosed`); no wakeup is lost between the index and the client (`HubFresh`); pages are neither repeated nor out of order (`PagesCollapsed`); the UI shows what the index has (`SessionFresh`); the parts wait for each other in no other way than the one of section 5 (`NoOtherDeadlock`) |

**Bounds.**  Two receivers and two copiers are what the races in `enqueue`,
`copyBlob` and `setError` need; two blobs and batches of one or two give blobs
inside and outside the batch.  In `runsync` the batch exceeds the pool and the
channels, so every send can block, and with 7 source blobs `workch` can fill up.
In `shard`, four refs per side give every order of equal, smaller and larger
heads, and shards larger and smaller than the channel.  The blobs of the
index cover (the five of `index_live`) a chain of dependencies, a blob with two
needs, and (all runs) a dependency in the index itself and a directory; two kinds
of failures (`MaxFailKinds`) give every pair of failures in one behaviour.  Two
zips of a file and two files with equal contents are the least for "part of a
file is packed" and for rows that are overwritten; the third zip lets the two
files be cut differently.  Eight
meta blob names are enough for the uploads, the packed blobs and those that are
packed again after each of two crashes.  The run of `EncryptMeta` has one
encryption of each plaintext: two uploads of one plaintext that race each other
make its state space too large, and are covered by the proofs, which hold for
any set of encryptions.  One crash is enough for every cut between two steps
elsewhere; recovery code is idempotent over the same rows.  In `live_search` a
behaviour may have only a few events from outside (new schema blobs, other
blobs, status changes, calls of the UI, faults); each budget of `MCBudgets` is
a combination of them and the run explores all of the budgets.  Two connections are what
a session uses when it replaces its socket, channels of one make every send
block.  The budgets bound the run only; the proofs have any.  `CHECK_DEADLOCK FALSE` is set where the modelled process really ends
(a run, a shard, a bounded number of uploads).

**Symmetry** is used in `sync_safety` and `sync_restart` over receivers and
copiers, never with liveness.

**Fairness.**  Goroutines are scheduled (weak fairness of each goroutine's next
step).  Strong fairness is used where the code relies on more: in `sync_live` a
copy that is retried for ever does not fail for ever, and the random order of a
Go map puts every pending blob into a batch now and then; in `index_live` the
lock `ix.mu` starves no goroutine that waits for it, and the source redelivers
what was not acknowledged.  Uploads, failures and crashes are never fair.
`live_search` assumes no fairness and states no liveness: TLC's liveness check
over the composition takes too long, so progress is stated as `NoOtherDeadlock`, and
freshness as what holds once nothing is left to do.

**Mutants.**  Each property has a mutant of a mapped operator that violates it,
e.g. a write error that is swallowed, a goroutine that exits while work is
ready, a row that is committed before its zip is uploaded.

## 4. What TLAPS proves

For all sets of blobs, refs, clients, workers, zips, packers, connections and
XHRs, all capacities and page sizes, and any number of failures and crashes:

| Module | Theorems (property of the runs) |
|---|---|
| `SyncHandlerProofs` | `TypeCorrect`, `Durability` (`RecordedNeverLost`), `Pending` (`AckedPendingOrCopied`), `ExclusiveCopies` (`NoDoubleCopy`), `PendingNeverDropped` (`NeverDropped`), `CompareReportsAreReal` (`NoFalseCompareError`), `ByteCountExact` (`BytesRemainIsSum`), `SyncRefinement` (`Replicates`), `ReplicationKeeps` (what `Replication` promises) |
| `RunSyncProofs` | `RunSyncInvariance` (`IInv`), `RunsDoNotOverlap` (`NoWorkAfterReturn`), `BatchIsComplete` (`WholeBatch`, a part of `IInv`), `RunTerminates` (`Terminates`) |
| `ShardValidationProofs` | `ShardInvariance`, `ShardTypeCorrect`, `OnlyMissing` (`OnlyMissingEnqueued`), `CompleteValidation` (`ValidatedCompletely`), `ShardTerminates` (`Terminates`) |
| `IndexReceiveProofs` | `IndexTypeCorrect`, `IndexedCompletely` (`IndexedIsComplete`), `NeedsAndNeededBy` (`NeededByIsInverse`), `ReadyServed` (`ReadyIsServed`, a part of the invariant), `ArrivalOrderIrrelevant` (`AtRestAllIndexed`), `NothingForgotten` (`AckedIsPending`), `DeletesCache` (`CacheMatchesRows`), `ReindexReports` (`ReindexHonest`) |
| `BlobPackedProofs` | `PackedTypeCorrect`, `PackedDurability` (`Durable`), `WholeRefsComplete` (`WholeRowsComplete`), `PackedFetches` (`PackedFetchFinds`), `PackedRefinement` (`StorageContract`) |
| `EncryptMetaProofs` | `EncryptInvariance`, `EncryptTypeCorrect`, `EncryptDurability`, `EncryptServes` (`Served`), `EncryptRefinement` (`StorageContract`) |
| `SearchSessionProofs` | `HubInvariance`, `SessionImplementsHub`, `ClosedChannels` (`NoSendOnClosed`), `FreshResults` (`HubFresh`) |
| `SessionProofs` | `SessionInvariance`, `SessionTypeCorrect`, `PagesInOrder` (`PagesCollapsed`), `SessionShowsIndex` (`SessionFresh`), `OnlyOneHang` (`OnlyHubStuckHangs`, the part of `NoOtherDeadlock` without `ENABLED`, and that a stuck hub stays stuck) |

Each proof is that of an inductive invariant, from the named assumptions on the
constants (sets are finite where they are counted, `None` is not a blob,
capacities are positive, items are positive numbers, and references between
blobs are acyclic, `AcyclicAssumption`, because a blob names others by the
digests of their contents).  The invariants were model
checked on the runs' instances before they were proved.  Why they need what
they have:

- `SyncHandler`: the blob in a worker's hand is in `dst` before its queue row is
  deleted (`CopiedBeforeDelete`), and a blob whose row is about to be written is
  pending or copied (`SetIsPending`); without these, deletion of the row could
  follow a failed copy.  `BatchConsistent` and `HandsConsistent` keep the hands
  of workers disjoint, from which exclusive copies follow.  `ByteCountExact`
  needs that the sum over a finite set exists and does not depend on the order
  of its blobs (`BytesDef`, `BytesRemove`).  The refinement of `Replication`
  needs in addition that what receivers and workers hold are blobs of the source
  (`HandsInSource`).
- `RunSync`: conservation of blobs over all channels and workers, and which
  phase of the feeder goes with which state of the enumerator.  That a goroutine
  can always go on needs what a waiting feeder relies on (`NothingOwed`): an
  enumerator that is through has closed `enumch` and reported, no worker has
  left while there was work, and there is one as soon as there is a blob.
- `ShardValidation`: both streams are sorted from the peeked blob to the last one
  (`Ordered`), and what of the destination is consumed is smaller than what of
  the source is not (`Merged`): a source head smaller than the destination's is
  then missing, behind the merge and ahead of it.  That a success is complete
  needs in addition how an enumeration ends (`Ending`: the zero ref is sent
  exactly when it failed), that no missing blob is passed over (`Accounted`), and
  what the validator knows at each of its steps (`Known`).  For `Terminates`: the
  channel of an enumerator that has not ended holds no more than it counted
  (`InFlight`), so that a shard that fits never blocks it.
- `IndexReceive`: a need is for a blob that has not come or whose arrival is
  being noted (`FreshNeeds`), and an acknowledged blob has left a trace
  (`AckedSettled`).  For `Reindex`, every blob taken so far has left one as long
  as no error was counted (`ReindexAccounted`); when the goroutines have finished and
  nothing is needed any more, the only traces left are "indexed" and "failed
  asynchronously".  The other way round, an error that `Reindex` returns comes
  from a failure or from a blob that the source lacks.  `AtRestAllIndexed` needs
  that a blob waits only for blobs it names (`NeedsAreRefs`): of a set of blobs
  that are not indexed, acyclicity gives one that names no other of the set, and
  that one has nothing left to wait for.  Across crashes, what is acknowledged
  but not indexed has a `missing` row (`AckedOnRecord`).
- `BlobPacked`: rows name zips that are stored or no longer wanted (`RowsOK`),
  what a request saw or stored is still so (`FlightOK`), and zips behind a
  packer have rows (`ProgressOK`).
- `EncryptMeta`: what a packer has read covers all it will delete, and whatever
  any meta blob said is said by a stored one that no packer will delete
  (`PackersOK`); only with the second can packers pack what others packed.
- `WsHub`: as long as nothing will start another search of a query, what is
  stored or about to be stored for it is what the index has (`Fresh`); unless an
  update is announced, the client was sent what is stored (`Sent`).
- `SearchSession`: at most one page is being appended, it continues after the
  last result, and while it is under way there is no continuation to ask for
  another (`Paged`); the last result the hub put into the socket's channel is
  still the last one in it, or is what the session shows (`Shown`).  With the
  hub's `Fresh` and `Sent` this gives `SessionFresh`.  For `OnlyOneHang`: only
  the session's socket is open, and a registered connection has had a
  `writePump` (`Wired`), so that a full `c.send` has somebody to empty it
  until that `writePump` ends.

The refinements (`SyncRefinement`, `PackedRefinement`, `EncryptRefinement`,
`SessionImplementsHub`) show that initial states map to initial states and that
every step maps to a step of the abstract specification or leaves its variables
alone, from the same invariants.

Termination of a run and of a shard is proved in the two halves that hold of
every behaviour, fair or not.  `StepsLeft` weighs how far each blob is from the
end of the pipeline and each goroutine from its last step; it is a natural
number and every step lowers it.  `CanStep`, the disjunction of the guards, holds
until the end.  A behaviour in which enabled goroutines are scheduled
therefore reaches the end; only this last inference, from the two halves and
fairness to `RunReturns` and `ShardProcessed`, is left to TLC.

The library's induction theorems take an operator as a parameter, which the
provers cannot instantiate.  Where induction is needed (least elements, sums over sets,
sorting a page), it is done by a least counterexample: the set of bad numbers is
a subset of `Nat`, and if it is not empty it has a minimal element (`WFMin`).

Only model-checked: liveness (`RecordedCopied`, `RunReturns` and
`ShardProcessed` as far as just said, `EventuallyIndexed`, `ReindexTerminates`,
`PackedAtNextStart`), and in `NoOtherDeadlock` that a part which `CanRun` says can go
on has an action that is `ENABLED`; neither is in the prover's reach.  The two properties
that the code violates (section 5) are TLC's as well.

## 5. Where the code and its documentation disagree

Two disagreements have a run:

- `sync_restart`: `enqueue` returns nil for a blob that is already pending
  although its queue row is not written yet; after a crash the blob is neither
  queued nor copied, in spite of "The point of the persistent queue is to survive
  restarts" (`sync.go:341`).
- `packed_again`: a packer deletes its blobs from `small` after committing their
  rows; a blob that was removed and uploaded again in between is acknowledged and
  lost (`blobpacked.go:1498`; "writes it to permanent storage",
  `interface.go:42`).

Others were met while modelling; the properties are stated so as to leave them
out, and say so in their comments:

- A full sync ranges over a channel that `blobserverEnumerator` never closes, so
  `runSync("full")` returns only if `workch` fills up (`sync.go:500,576`), and then
  only if the enumerator's last blobs fit into `enumch`.  The blobs it gives up
  there are not in `needCopy`: "Will get it later." (`sync.go:584`) holds for
  those that have a queue row.  `RunReturns` is about runs over the pending list,
  and `RecordedCopied` leaves out a loop that stays in the full run.
- A shard with more than 64 destination blobs after the source's last one hangs:
  the merge stops without draining the destination (`blobserver/sync.go:38`).
  `ShardProcessed` is about shards that fit in the channels.
- After a restart a needer whose last dependency was indexed before the crash is
  not indexed any more (`receive.go:175`); `New` empties the deletes cache it has
  just filled (`index.go:1735`); blobs whose asynchronous indexing fails leave
  every queue and are not counted by `Reindex` (`receive.go:155-159`).
  `EventuallyIndexed`, `CacheMatchesRows` and `ReindexHonest` exclude these.
- A directory whose static set cannot be read is indexed without its members
  (`populateDir` logs the error).  When the corpus fails after the commit, the
  blobs that wait for this one are not told and wait until it is delivered again
  (`receive.go:285`); `AckedIsPending` counts them as pending.
- The part rows `w:...:n` of two packings of the same contents overwrite each
  other and can mix when the files are cut differently; `OpenWholeRef` then
  refuses with `os.ErrNotExist` if their number is not the one of the final row.
  The model has the zips' own `z:` rows and the final row, and `WholeRowsComplete`
  is about these.
- `Fetch` without a row may look in `small` just after the packer deleted the
  blob there (`blobpacked.go:993`), so `PackedFetchFinds` is about rows.
- Two concurrent uploads of a plaintext store it twice with different nonces
  (`encrypt.go:176`), which costs space only: `Served` holds.
- The first `doSearch` of a subscription does not take part in `refreshing` and
  can overlap the one of `redoSearch`; the older result may be stored last
  (`websocket.go:128,150-153`).  `HubFresh` allows it (`crossed`) until the next
  search that runs alone.
- Once `writePump` has ended nothing reads `c.send`: `run` blocks when it is
  full, then the listener, which holds the index's read lock, then uploads
  (`websocket.go:145`, `handler.go:120-127`).  This is `HubStuck`;
  `NoOtherDeadlock` allows it, and `OnlyOneHang` proves that it is the only hang
  and that it is for ever.
- A blob that the listener skips, or that a sync handler puts into the index, is
  not announced to the hub; the standing queries show it with the next one that
  is.
- "multiple calls for the same page will be collapsed" (`search_session.js:143`)
  is not so when an update replaces `data_` and `continuation_` while a page is
  being loaded: results can then be doubled or out of order.  `PagesCollapsed`
  allows it (`mixed`) until `data_` is replaced again.
- The first message of a socket is ignored even when it is a result, and a late
  answer to an UPDATE XHR overwrites newer data of the socket.  `SessionFresh`
  allows both (`gap`) until the socket brings another result or a new socket
  opens.
- An answer that is not JSON makes `data_.blobs` undefined, against "blobs //
  non-null" (`search_session.js:130-134`); `isComplete_` is never reset; an XHR
  that finishes after `close` opens a socket that nobody closes; an empty status
  message makes `JSON.parse` throw.  These are steps of the model, not
  properties.

## 6. Not modelled

Inside the modelled parts: `IdleWait`, a handshake that only tests use, and the
status page of a sync with its counters; the layout of zips and the choice of
chunks; `StreamBlobs` and `OpenWholeRef`; cryptography; rows of claims, files
and directories beyond "indexed or not"; the evaluation of queries, sessions
around a given blob, more than one subscription per connection; the gate over
the shards of a full validation.  Whole parts that are not modelled are listed
with reasons in `PROJECT.json`.

## 7. Possible next steps

- A composition of source storage, hub, `SyncHandler` and `IndexReceive`: every
  stored blob is indexed in the end; `RunSync` as the implementation of the
  runs of `SyncHandler`.
- A measure for `Reindex` like the ones of a run and a shard.
- Further implementations of `BlobStorage`: `diskpacked`, `replica`,
  `proxycache`, `overlay`.

## Running

    tlc -workers 2 -config SyncHandler_safety.cfg MCSyncHandler
    tlapm SyncHandlerProofs.tla

No run takes more than five minutes on two cores; the proofs take from half a
minute to about twelve minutes per module.
