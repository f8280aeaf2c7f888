------------------------------ MODULE SyncHandler ------------------------------
(***************************************************************************)
(* pkg/server/sync.go: asynchronous replication of the blobs of a source   *)
(* storage to a destination.                                               *)
(*                                                                         *)
(* Goroutines and how they are modelled:                                   *)
(*  - Receivers: callers of enqueue.  A blob reaches the source storage    *)
(*    (blobserver.Receive), the hub then runs the receive hook enqueue,    *)
(*    which records the blob in memory (addBlobToCopy, under sh.mu) and    *)
(*    afterwards in the persistent queue (queue.Set, outside sh.mu).       *)
(*  - one sync loop: runSync on a batch of pending blobs, again while      *)
(*    something was copied, then a sleep ended by a timer or by wakec.     *)
(*  - Copiers: the copyWorker pool of the current runSync.                 *)
(*                                                                         *)
(* The queue, the source and the destination survive a crash; everything   *)
(* else is lost and rebuilt by readQueueToMemory.                          *)
(***************************************************************************)
EXTENDS Integers, FiniteSets, Sequences

CONSTANTS
    Blobs,            \* blob refs
    Size,             \* Size[b]: the blob's size in bytes
    MaxBlobSize,      \* constants.MaxBlobSize
    Receivers,        \* goroutines that may run enqueue
    Copiers,          \* the copyWorker pool (copierPoolSize)
    MaxBatch,         \* maxBatch of enumeratePendingBlobs (1000)
    WorkCap,          \* capacity of workch (1000)
    EnumCap,          \* capacity of enumch (8)
    FullSyncOnStart,  \* values of the "fullSyncOnStart" option, one per start
    HourlyCompareOn,  \* the "hourlyCompareBytes" option is not zero
    MaxCrashes        \* bound of the model: crashes in one behaviour

None == "none"  \* no blob in hand

ASSUME BlobsAssumption == IsFiniteSet(Blobs) /\ None \notin Blobs
ASSUME SizeAssumption == Size \in [Blobs -> Nat]
ASSUME LimitsAssumption ==
    /\ MaxBlobSize \in Nat
    /\ MaxBatch \in Nat \ {0} /\ WorkCap \in Nat /\ EnumCap \in Nat
    /\ MaxBatch <= WorkCap
    /\ MaxCrashes \in Nat
    /\ FullSyncOnStart \subseteq BOOLEAN /\ FullSyncOnStart # {}
    /\ HourlyCompareOn \in BOOLEAN

VARIABLES
    src,          \* blobs in sh.from
    dst,          \* blobs in sh.to
    queue,        \* keys of the persistent sh.queue
    needCopy,     \* keys of sh.needCopy
    copying,      \* keys of sh.copying
    bytesRemain,  \* sh.bytesRemain
    rpc, rblob,   \* per receiver: control point, blob in hand
    loop,         \* control point of the sync goroutine
    work,         \* blobs of the current batch not yet taken by a copier
    nCopied,      \* nCopied of the current runSync
    cpc, cblob,   \* per copier: control point, blob in hand
    cmpBlob,      \* the blob hourlyCompare is about to fetch
    cmpRec,       \* history: that blob, if it was recorded when checked
    acked,        \* history: blobs whose enqueue returned nil
    recorded,     \* history: blobs whose queue.Set succeeded
    up,           \* the process runs
    crashes

disk == <<src, dst, queue>>
memory == <<needCopy, copying, bytesRemain>>
receivers == <<rpc, rblob>>
runner == <<loop, work, nCopied>>
copiers == <<cpc, cblob>>
compare == <<cmpBlob, cmpRec>>
history == <<acked, recorded>>
process == <<up, crashes>>
vars == <<disk, memory, receivers, runner, copiers, compare,
          history, process>>

\* Where readQueueToMemory's caller goes: the full sync goroutine first
\* drains the pending queue, then runs "full"; otherwise syncLoop starts.
FirstRuns == {IF full THEN "drain" ELSE "pending" : full \in FullSyncOnStart}

Init ==
    /\ src = {} /\ dst = {} /\ queue = {}
    /\ needCopy = {} /\ copying = {} /\ bytesRemain = 0
    /\ rpc = [r \in Receivers |-> "idle"] /\ rblob = [r \in Receivers |-> None]
    /\ loop \in FirstRuns /\ work = {} /\ nCopied = 0
    /\ cpc = [c \in Copiers |-> "idle"] /\ cblob = [c \in Copiers |-> None]
    /\ cmpBlob = None /\ cmpRec = {}
    /\ acked = {} /\ recorded = {}
    /\ up = TRUE /\ crashes = 0
-----------------------------------------------------------------------------
\* enqueue and its callers

\* Requests, validation and hourly compares begin when start-up is over.
Serving == up /\ loop # "reading"

\* The source stores the blob; the hub notification is still to come.
Receive(r, b) ==
    /\ Serving /\ rpc[r] = "idle"
    /\ src' = src \cup {b}
    /\ rpc' = [rpc EXCEPT ![r] = "notify"]
    /\ rblob' = [rblob EXCEPT ![r] = b]
    /\ UNCHANGED <<dst, queue, memory, runner, copiers, compare,
                   history, process>>

\* validateShardPrefix found a source blob missing on the destination: it
\* calls enqueue without a new store.
EnqueueMissing(r, b) ==
    /\ Serving /\ rpc[r] = "idle"
    /\ b \in src \ dst
    /\ rpc' = [rpc EXCEPT ![r] = "notify"]
    /\ rblob' = [rblob EXCEPT ![r] = b]
    /\ UNCHANGED <<disk, memory, runner, copiers, compare,
                   history, process>>

Return(r) ==
    /\ rpc' = [rpc EXCEPT ![r] = "idle"]
    /\ rblob' = [rblob EXCEPT ![r] = None]

\* Mutant: addBlobToCopy without its duplicate check.
AddBlobToCopyNoDup(r) ==
    /\ up /\ rpc[r] = "notify"
    /\ needCopy' = needCopy \cup {rblob[r]}
    /\ bytesRemain' = bytesRemain + Size[rblob[r]]
    /\ loop' = IF loop = "sleep" THEN "pending" ELSE loop
    /\ rpc' = [rpc EXCEPT ![r] = "set"]
    /\ UNCHANGED <<disk, copying, rblob, work,
                   nCopied, copiers, compare, history, process>>

\* addBlobToCopy, one critical section of sh.mu.  A duplicate makes enqueue
\* return nil at once; a new blob wakes the loop if it is in its select.
AddBlobToCopy(r) ==
    /\ up /\ rpc[r] = "notify"
    /\ \/ /\ rblob[r] \in needCopy
          /\ acked' = acked \cup {rblob[r]}
          /\ Return(r)
          /\ UNCHANGED <<needCopy, bytesRemain, loop>>
       \/ /\ rblob[r] \notin needCopy
          /\ needCopy' = needCopy \cup {rblob[r]}
          /\ bytesRemain' = bytesRemain + Size[rblob[r]]
          /\ loop' = IF loop = "sleep" THEN "pending" ELSE loop
          /\ rpc' = [rpc EXCEPT ![r] = "set"]
          /\ UNCHANGED <<rblob, acked>>
    /\ UNCHANGED <<disk, copying, work, nCopied,
                   copiers, compare, recorded, process>>

QueueSet(r) ==
    /\ up /\ rpc[r] = "set"
    /\ \/ /\ queue' = queue \cup {rblob[r]}
          /\ acked' = acked \cup {rblob[r]}
          /\ recorded' = recorded \cup {rblob[r]}
       \/ UNCHANGED <<queue, history>>          \* Set failed: enqueue errs
    /\ Return(r)
    /\ UNCHANGED <<src, dst, memory, runner, copiers, compare,
                   process>>
-----------------------------------------------------------------------------
\* The sync goroutine

\* Where a runSync is in progress.
Runs == {"running", "draining", "full", "fullEnds"}

\* enumeratePendingBlobs: at most MaxBatch pending blobs, in map order.
PendingBatches ==
    {B \in SUBSET needCopy :
        Cardinality(B) = IF Cardinality(needCopy) > MaxBatch
                         THEN MaxBatch ELSE Cardinality(needCopy)}

StartRun ==
    /\ up /\ loop \in {"pending", "drain"}
    /\ work' \in PendingBatches
    /\ nCopied' = 0
    /\ loop' = IF loop = "drain" THEN "draining" ELSE "running"
    /\ UNCHANGED <<disk, memory, receivers, copiers, compare,
                   history, process>>

\* runSync("full", blobserverEnumerator): the blobs of the source, or those
\* that came before an error of its EnumerateBlobs.  The enumerator never
\* closes enumch, so that the run does not end with its last blob.
StartFullRun ==
    /\ up /\ loop = "startFull"
    /\ work' \in SUBSET src
    /\ nCopied' = 0
    /\ loop' = "full"
    /\ UNCHANGED <<disk, memory, receivers, copiers, compare,
                   history, process>>

\* "Buffer full.  Enough for this batch.": a blob finds workch full.  It and
\* the ones after it are given up, and the run ends with the results of the
\* rest, if the enumerator can get rid of its last blobs in enumch: otherwise
\* it never reports on errch.  (maxBatch keeps a run over the pending blobs
\* from filling workch: RunSync's WholeBatch.)
BreakFeedWork ==
    /\ up /\ loop = "full"
    /\ \E fed \in SUBSET work :
        /\ Cardinality(fed) = WorkCap /\ fed # work
        /\ work' = fed
        /\ loop' = IF Cardinality(work \ fed) <= EnumCap + 1
                   THEN "fullEnds" ELSE "full"
    /\ UNCHANGED <<disk, memory, receivers, nCopied, copiers, compare,
                   history, process>>

\* Mutant: runSync returns without waiting for the workers' results.
FinishRunEarly ==
    /\ up /\ loop \in {"running", "draining"} /\ work = {}
    /\ loop' = IF loop = "running" THEN "pending" ELSE "drain"
    /\ UNCHANGED <<disk, memory, receivers, work, nCopied, copiers, compare, history, process>>

\* runSync has received every result.
FinishRun ==
    /\ up /\ loop \in {"running", "draining", "fullEnds"}
    /\ work = {} /\ \A c \in Copiers : cpc[c] = "idle"
    /\ loop' = CASE loop = "running" /\ nCopied > 0 -> "pending"
                 [] loop = "running" /\ nCopied = 0 -> "status"
                 [] loop = "draining" /\ nCopied > 0 -> "drain"
                 [] loop = "draining" /\ nCopied = 0 -> "startFull"
                 [] loop = "fullEnds" -> "pending"
    /\ UNCHANGED <<disk, memory, receivers, work, nCopied, copiers, compare, history, process>>

\* setStatusf, then the select of syncLoop is entered.
Sleep ==
    /\ up /\ loop = "status"
    /\ loop' = "sleep"
    /\ UNCHANGED <<disk, memory, receivers, work, nCopied, copiers, compare, history, process>>

\* Mutant: the timer only signals idleness, the loop goes on waiting.
TimerSignalsOnly ==
    /\ up /\ loop = "sleep"
    /\ UNCHANGED <<disk, memory, receivers, runner, copiers, compare,
                   history, process>>

\* The timer of the select fires.
TimerFires ==
    /\ up /\ loop = "sleep"
    /\ loop' = "pending"
    /\ UNCHANGED <<disk, memory, receivers, work, nCopied, copiers,
                   compare, history, process>>

\* Mutant: pending blobs are compared too.
CompareCheckPending(b) ==
    /\ Serving /\ HourlyCompareOn /\ cmpBlob = None
    /\ b \in src
    /\ cmpBlob' = b
    /\ cmpRec' = recorded \cap {b}
    /\ UNCHANGED <<disk, memory, receivers, runner, copiers, history, process>>

\* hourlyCompare skips a blob that waits to be copied, looking under sh.mu.
CompareCheck(b) ==
    /\ Serving /\ HourlyCompareOn /\ cmpBlob = None
    /\ b \in src \ needCopy
    /\ cmpBlob' = b
    /\ cmpRec' = recorded \cap {b}
    /\ UNCHANGED <<disk, memory, receivers, runner, copiers, history, process>>

\* Afterwards, without the lock, it fetches the blob from the destination;
\* an error is reported and ends the round.
CompareFetch ==
    /\ Serving /\ cmpBlob # None
    /\ cmpBlob' = None /\ cmpRec' = {}
    /\ UNCHANGED <<disk, memory, receivers, runner, copiers, history,
                   process>>

CompareReports == CompareFetch /\ cmpBlob \notin dst

HourlyCompare(b) == CompareCheck(b) \/ CompareFetch
-----------------------------------------------------------------------------
\* copyWorker: copyBlob and its deferred setError

Goto(c, pc) == cpc' = [cpc EXCEPT ![c] = pc]

\* Mutant: a worker takes the zero value of the closed workch for a blob.
StartCopyClosed(c) ==
    /\ up /\ loop \in Runs
    /\ cpc[c] = "idle" /\ work = {}
    /\ copying' = copying \cup {None}
    /\ UNCHANGED <<disk, needCopy, bytesRemain, receivers, runner, copiers,
                   compare, history, process>>

StartCopy(c) ==
    /\ up /\ loop \in Runs
    /\ cpc[c] = "idle"
    /\ \E b \in work :
        /\ work' = work \ {b}
        /\ copying' = copying \cup {b}
        /\ cblob' = [cblob EXCEPT ![c] = b]
        /\ Goto(c, IF Size[b] > MaxBlobSize THEN "failed" ELSE "fetch")
    /\ UNCHANGED <<disk, needCopy, bytesRemain, receivers, loop, nCopied, compare, history,
                   process>>

FetchSource(c) ==
    /\ up /\ cpc[c] = "fetch"
    /\ cblob[c] \in src
    /\ Goto(c, "write")
    /\ UNCHANGED <<disk, memory, receivers, runner, cblob, compare, history, process>>

\* Fetch failed, a size or digest mismatch, or a read error.
FetchFails(c) ==
    /\ up /\ cpc[c] = "fetch"
    /\ Goto(c, "failed")
    /\ UNCHANGED <<disk, memory, receivers, runner, cblob, compare, history, process>>

WriteDest(c) ==
    /\ up /\ cpc[c] = "write"
    /\ dst' = dst \cup {cblob[c]}
    /\ Goto(c, "delete")
    /\ UNCHANGED <<src, queue, memory, receivers, runner, cblob, compare, history, process>>

\* Mutant: a failed write is taken for a success.
WriteErrorSwallowed(c) ==
    /\ up /\ cpc[c] = "write"
    /\ dst' \in {dst, dst \cup {cblob[c]}}
    /\ Goto(c, "delete")
    /\ UNCHANGED <<src, queue, memory, receivers, runner, cblob, compare, history, process>>

\* sh.to.ReceiveBlob reports an error or another size; the blob may have
\* been stored all the same.
WriteFails(c) ==
    /\ up /\ cpc[c] = "write"
    /\ dst' \in {dst, dst \cup {cblob[c]}}
    /\ Goto(c, "failed")
    /\ UNCHANGED <<src, queue, memory, receivers, runner, cblob, compare, history, process>>

\* setError(nil) deletes the queue row before taking sh.mu; a failure is
\* only logged.
QueueDelete(c) ==
    /\ up /\ cpc[c] = "delete"
    /\ queue' \in {queue, queue \ {cblob[c]}}
    /\ Goto(c, "done")
    /\ UNCHANGED <<src, dst, memory, receivers, runner, cblob, compare, history, process>>

\* The copyResult is received by runSync.
Result(c, ok) ==
    /\ nCopied' = IF ok THEN nCopied + 1 ELSE nCopied
    /\ Goto(c, "idle")
    /\ cblob' = [cblob EXCEPT ![c] = None]

\* setError(nil), the critical section.  A blob that is no longer (or was
\* never) in needCopy is ignored, its copying entry included.
SetErrorNil(c) ==
    /\ up /\ cpc[c] = "done"
    /\ \/ /\ cblob[c] \in needCopy
          /\ copying' = copying \ {cblob[c]}
          /\ needCopy' = needCopy \ {cblob[c]}
          /\ bytesRemain' = bytesRemain - Size[cblob[c]]
       \/ /\ cblob[c] \notin needCopy
          /\ UNCHANGED <<copying, needCopy, bytesRemain>>
    /\ Result(c, TRUE)
    /\ UNCHANGED <<disk, receivers, loop, work, compare, history, process>>

\* Mutant: a failed blob is taken off the pending list.
SetErrorDrops(c) ==
    /\ up /\ cpc[c] = "failed"
    /\ copying' = copying \ {cblob[c]}
    /\ needCopy' = needCopy \ {cblob[c]}
    /\ Result(c, FALSE)
    /\ UNCHANGED <<disk, bytesRemain, receivers, loop,
                   work, compare, history, process>>

SetError(c) ==
    /\ up /\ cpc[c] = "failed"
    /\ \/ /\ cblob[c] \in needCopy
          /\ copying' = copying \ {cblob[c]}
       \/ /\ cblob[c] \notin needCopy
          /\ UNCHANGED <<copying>>
    /\ Result(c, FALSE)
    /\ UNCHANGED <<disk, needCopy, bytesRemain, receivers, loop, work,
                   compare, history, process>>
-----------------------------------------------------------------------------
\* Crash and restart

\* The process stops at any point; only the storages and the queue remain.
Crash ==
    /\ up /\ crashes < MaxCrashes
    /\ up' = FALSE /\ crashes' = crashes + 1
    /\ needCopy' = {} /\ copying' = {} /\ bytesRemain' = 0
    /\ rpc' = [r \in Receivers |-> "idle"]
    /\ rblob' = [r \in Receivers |-> None]
    /\ loop' = "reading" /\ work' = {} /\ nCopied' = 0
    /\ cpc' = [c \in Copiers |-> "idle"]
    /\ cblob' = [c \in Copiers |-> None]
    /\ cmpBlob' = None /\ cmpRec' = {}
    /\ UNCHANGED <<disk, history>>

Restart ==
    /\ ~up
    /\ up' = TRUE
    /\ UNCHANGED <<disk, memory, receivers, runner, copiers, compare, history, crashes>>

\* readQueueToMemory: addBlobToCopy for one row of the queue.
ReadQueueRow(b) ==
    /\ up /\ loop = "reading"
    /\ b \in queue \ needCopy
    /\ needCopy' = needCopy \cup {b}
    /\ bytesRemain' = bytesRemain + Size[b]
    /\ UNCHANGED <<disk, copying, receivers, runner,
                   copiers, compare, history, process>>

\* Mutant: the sync goroutine starts before the queue was read.
QueueReadEarly ==
    /\ up /\ loop = "reading"
    /\ loop' \in FirstRuns
    /\ UNCHANGED <<disk, memory, receivers, work, nCopied, copiers, compare, history, process>>

\* newSyncFromConfig goes on: the sync goroutine starts, the hook is added.
QueueRead ==
    /\ up /\ loop = "reading"
    /\ queue \subseteq needCopy
    /\ loop' \in FirstRuns
    /\ UNCHANGED <<disk, memory, receivers, work, nCopied, copiers, compare, history, process>>
-----------------------------------------------------------------------------
ReceiverNext(r) ==
    \/ \E b \in Blobs : Receive(r, b) \/ EnqueueMissing(r, b)
    \/ AddBlobToCopy(r) \/ QueueSet(r)

CopierNext(c) ==
    \/ StartCopy(c)
    \/ FetchSource(c) \/ FetchFails(c)
    \/ WriteDest(c) \/ WriteFails(c)
    \/ QueueDelete(c) \/ SetErrorNil(c) \/ SetError(c)

LoopNext ==
    \/ StartRun \/ StartFullRun \/ BreakFeedWork \/ FinishRun
    \/ Sleep \/ TimerFires
    \/ (\E b \in Blobs : ReadQueueRow(b)) \/ QueueRead

Next ==
    \/ \E r \in Receivers : ReceiverNext(r)
    \/ LoopNext
    \/ \E c \in Copiers : CopierNext(c)
    \/ (\E b \in Blobs : HourlyCompare(b))
    \/ Crash \/ Restart

Spec == Init /\ [][Next]_vars

\* Goroutines are scheduled; a fetch or a write of a blob that is retried for
\* ever does not fail for ever; a crashed server is restarted; Go's random
\* map order puts every pending blob in a batch sooner or later.
Fairness ==
    /\ WF_vars(LoopNext) /\ WF_vars(Restart)
    /\ \A c \in Copiers : WF_vars(CopierNext(c))
    /\ \A b \in Blobs :
        /\ SF_vars(\E c \in Copiers : cblob[c] = b /\ FetchSource(c))
        /\ SF_vars(\E c \in Copiers : cblob[c] = b /\ WriteDest(c))
        /\ SF_vars(StartRun /\ b \in work')
    /\ \A r \in Receivers : WF_vars(AddBlobToCopy(r) \/ QueueSet(r))

FairSpec == Spec /\ Fairness
-----------------------------------------------------------------------------
\* Properties

TypeOK ==
    /\ src \subseteq Blobs /\ dst \subseteq Blobs /\ queue \subseteq Blobs
    /\ needCopy \subseteq Blobs /\ copying \subseteq Blobs
    /\ bytesRemain \in Int
    /\ rpc \in [Receivers -> {"idle", "notify", "set"}]
    /\ rblob \in [Receivers -> Blobs \cup {None}]
    /\ loop \in {"reading", "pending", "running", "status", "sleep",
                 "drain", "draining", "startFull", "full", "fullEnds"}
    /\ work \subseteq Blobs /\ nCopied \in Nat
    /\ cpc \in [Copiers -> {"idle", "fetch", "write", "delete", "done",
                            "failed"}]
    /\ cblob \in [Copiers -> Blobs \cup {None}]
    /\ cmpBlob \in Blobs \cup {None}
    /\ cmpRec \subseteq Blobs
    /\ acked \subseteq Blobs /\ recorded \subseteq Blobs
    /\ up \in BOOLEAN /\ crashes \in 0..MaxCrashes

\* Durability: a blob whose queue.Set succeeded is, at every instant and
\* across crashes, still in the persistent queue or already on the
\* destination.  setError must not delete the row of a blob the destination
\* may lack, whatever copies, retries and re-enqueues overlap.
RecordedNeverLost == recorded \subseteq queue \cup dst

\* What is owed is what the persistent queue holds and the target lacks.
Promise == INSTANCE Replication WITH
    source <- src, target <- dst, owed <- queue \ dst

\* SyncHandler implements Replication: a row leaves the queue only when the
\* target has the blob, nothing reaches the target but blobs of the source,
\* the target never loses one, and crashes, restarts, failing writes and
\* repeated enqueues are invisible steps.
Replicates == Promise!Spec

\* While the server is serving, every blob recorded in the queue (in this
\* process or an earlier one), and every blob acknowledged if nothing has
\* crashed, is pending in memory or on the destination.  addBlobToCopy's
\* duplicate check and setError's delete(needCopy) must never let a blob fall
\* between the two.
AckedPendingOrCopied ==
    Serving => /\ recorded \subseteq needCopy \cup dst
               /\ crashes = 0 => acked \subseteq needCopy \cup dst

\* Two workers of the pool never copy the same blob at once, in spite of
\* re-enqueues during a copy.
NoDoubleCopy ==
    \A c, d \in Copiers : c # d /\ cblob[c] # None => cblob[c] # cblob[d]

\* A blob leaves needCopy only when the destination has it (or at a crash):
\* no error path, however the copy failed, drops a pending blob.
NeverDropped ==
    [][up' => \A b \in needCopy \ needCopy' : b \in dst]_vars

\* hourlyCompare never reports a blob that was recorded in the queue when it
\* looked at needCopy: what happens between that look and the fetch, and
\* setError's order (destination first, needCopy last), exclude a false
\* alarm for it.
NoFalseCompareError ==
    [][CompareReports => cmpBlob \notin cmpRec]_vars

\* The sum of the sizes of a set of blobs.
First(S) == CHOOSE b \in S : TRUE
Bytes[S \in SUBSET Blobs] ==
    IF S = {} THEN 0 ELSE Size[First(S)] + Bytes[S \ {First(S)}]

\* bytesRemain is "sum of needCopy values", through duplicates, failures,
\* re-enqueues and the rebuild after a crash.
BytesRemainIsSum == bytesRemain = Bytes[needCopy]

\* A blob recorded in the queue reaches the destination, in spite of
\* failing copies, lost wake-ups and crashes, unless the process stays for
\* ever in the full sync of its start.
RecordedCopied ==
    \A b \in Blobs : Size[b] <= MaxBlobSize =>
        (b \in recorded ~> b \in dst \/ [](loop = "full"))
-----------------------------------------------------------------------------
\* The inductive strengthening of the safety properties

\* A goroutine has a blob in hand exactly when it is at work.
HandsConsistent ==
    /\ \A r \in Receivers : rpc[r] # "idle" => rblob[r] \in Blobs
    /\ \A c \in Copiers : cpc[c] = "idle" <=> cblob[c] = None

\* Copiers only live inside a runSync, whose batch is shared out.
BatchConsistent ==
    /\ loop \notin Runs =>
           work = {} /\ \A c \in Copiers : cpc[c] = "idle"
    /\ \A c \in Copiers : cblob[c] \notin work
    /\ NoDoubleCopy

\* Before newSyncFromConfig returns nothing else runs, and only a process
\* that replaces a crashed one has rows to read.
StartupConsistent ==
    /\ ~up => loop = "reading"
    /\ loop = "reading" =>
           /\ crashes > 0
           /\ \A r \in Receivers : rpc[r] = "idle"

\* A successful copy was stored before setError deletes anything.
CopiedBeforeDelete ==
    \A c \in Copiers : cpc[c] \in {"delete", "done"} => cblob[c] \in dst

\* A blob whose row is about to be written is pending, or was copied since.
SetIsPending ==
    \A r \in Receivers : rpc[r] = "set" => rblob[r] \in needCopy \cup dst

\* A recorded blob that hourlyCompare does not skip is on the destination.
CompareConsistent == cmpRec \subseteq dst

\* Enqueues and copies in progress are of blobs of the source.
HandsInSource ==
    /\ \A r \in Receivers : rpc[r] # "idle" => rblob[r] \in src
    /\ \A c \in Copiers : cpc[c] \in {"write", "delete", "done"} => cblob[c] \in src

IInv ==
    /\ TypeOK /\ HandsConsistent /\ BatchConsistent /\ StartupConsistent
    /\ CopiedBeforeDelete /\ SetIsPending /\ CompareConsistent
    /\ RecordedNeverLost /\ AckedPendingOrCopied
-----------------------------------------------------------------------------
\* What the comments and the status page say, and the code does not do

\* readQueueToMemory: "The point of the persistent queue is to survive
\* restarts": an acknowledged blob survives one.
AckedSurvivesRestart == acked \subseteq queue \cup dst \cup needCopy
=============================================================================
