------------------------------- MODULE RunSync -------------------------------
(***************************************************************************)
(* pkg/server/sync.go, runSync: the channel pipeline of one batch.         *)
(*                                                                         *)
(*   enumerator --enumch--> feeder --workch--> copyWorkers --resch--> feeder*)
(*                                                                         *)
(* The feeder is runSync itself: it drains enumch into workch, starts a    *)
(* worker for each of the first PoolSize blobs, gives up on a full workch, *)
(* then collects one result per blob and waits for the enumerator's error. *)
(* SyncHandler treats a run as one "running" phase that ends when the      *)
(* batch is used up and the workers are idle; here that is shown.          *)
(*                                                                         *)
(* Only numbers of blobs matter: channels and worker states are counters.  *)
(***************************************************************************)
EXTENDS Integers

CONSTANTS
    MaxPending,  \* bound of the model: pending (or source) blobs
    MaxBatch,    \* maxBatch of enumeratePendingBlobs (1000)
    EnumCap,     \* capacity of enumch (8)
    WorkCap,     \* capacity of workch (1000)
    ResCap,      \* capacity of resch (8)
    PoolSize     \* sh.copierPoolSize

ASSUME RunSyncAssumption ==
    /\ MaxPending \in Nat
    /\ {MaxBatch, EnumCap, WorkCap, ResCap, PoolSize} \subseteq Nat \ {0}

VARIABLES
    run,       \* "pending" or "full": which enumerator runSync is given
    batch,     \* blobs the enumerator is to send
    sent,      \* blobs it has sent
    epc,       \* enumerator: "send", "close", "return", "exited"
    enumch,    \* length of enumch
    closed,    \* 1 when enumch is closed
    errch,     \* length of errch
    fpc,       \* feeder: "range", "feed", "collect", "wait", "returned"
    toCopy,    \* toCopy
    dropped,   \* blobs taken from enumch that did not fit in workch
    started,   \* workers started
    workch,    \* length of workch
    workDone,  \* 1 when workch is closed
    copying,   \* workers in copyBlob
    sending,   \* workers blocked on, or about to send to, resch
    exited,    \* workers that left their loop
    resch,     \* length of resch
    oks,       \* results in flight (sending or in resch) without an error
    got,       \* results received
    nCopied    \* nCopied

enumerator == <<run, batch, sent, epc>>
workers == <<copying, sending, exited>>
vars == <<enumerator, enumch, closed, errch, fpc, toCopy, dropped, started,
          workch, workDone, workers, resch, oks, got, nCopied>>

\* The enumerator is blobserverEnumerator.
FullSync == run = "full"

\* enumeratePendingBlobs sends at most maxBatch of the pending blobs;
\* blobserverEnumerator sends every blob of the source.
BatchOf(n) == IF ~FullSync /\ n > MaxBatch THEN MaxBatch ELSE n

Init ==
    /\ run \in {"pending", "full"}
    /\ \E n \in 0..MaxPending : batch = BatchOf(n)
    /\ sent = 0 /\ epc = "send" /\ enumch = 0 /\ closed = 0 /\ errch = 0
    /\ fpc = "range" /\ toCopy = 0 /\ dropped = 0 /\ started = 0
    /\ workch = 0 /\ workDone = 0
    /\ copying = 0 /\ sending = 0 /\ exited = 0
    /\ resch = 0 /\ oks = 0 /\ got = 0 /\ nCopied = 0
-----------------------------------------------------------------------------
\* The enumerator goroutine.  intr is closed only when runSync returns.

Send ==
    /\ epc = "send" /\ sent < batch
    /\ enumch < EnumCap
    /\ sent' = sent + 1 /\ enumch' = enumch + 1
    /\ UNCHANGED <<run, batch, epc, closed, errch, fpc, toCopy, dropped, started,
                   workch, workDone, workers, resch, oks, got, nCopied>>

\* The blobs are sent, or (full sync) EnumerateBlobs of the source failed.
EndEnumeration ==
    /\ epc = "send" /\ (sent = batch \/ FullSync)
    /\ epc' = "close"
    /\ UNCHANGED <<run, batch, sent, enumch, closed, errch, fpc, toCopy, dropped,
                   started, workch, workDone, workers, resch, oks, got,
                   nCopied>>

\* Mutant: the deferred close is forgotten.
CloseEnumForgotten ==
    /\ epc = "close"
    /\ epc' = "return"
    /\ UNCHANGED <<run, batch, sent, enumch, closed, errch, fpc, toCopy, dropped,
                   started, workch, workDone, workers, resch, oks, got,
                   nCopied>>

\* enumeratePendingBlobs has a deferred close(dst), blobserverEnumerator none.
CloseEnum ==
    /\ epc = "close"
    /\ epc' = "return"
    /\ closed' = IF FullSync THEN 0 ELSE 1
    /\ UNCHANGED <<run, batch, sent, enumch, errch, fpc, toCopy, dropped, started,
                   workch, workDone, workers, resch, oks, got, nCopied>>

SendErr ==
    /\ epc = "return"
    /\ errch' = 1
    /\ epc' = "exited"
    /\ UNCHANGED <<run, batch, sent, enumch, closed, fpc, toCopy, dropped, started,
                   workch, workDone, workers, resch, oks, got, nCopied>>
-----------------------------------------------------------------------------
\* runSync

RangeTake ==
    /\ fpc = "range" /\ enumch > 0
    /\ enumch' = enumch - 1
    /\ started' = IF toCopy < PoolSize THEN started + 1 ELSE started
    /\ fpc' = "feed"
    /\ UNCHANGED <<enumerator, closed, errch, toCopy, dropped, workch,
                   workDone, workers, resch, oks, got, nCopied>>

RangeEnds ==
    /\ fpc = "range" /\ enumch = 0 /\ closed = 1
    /\ workDone' = 1
    /\ fpc' = "collect"
    /\ UNCHANGED <<enumerator, enumch, closed, errch, toCopy, dropped,
                   started, workch, workers, resch, oks, got, nCopied>>

Feed ==
    /\ fpc = "feed" /\ workch < WorkCap
    /\ workch' = workch + 1
    /\ toCopy' = toCopy + 1
    /\ fpc' = "range"
    /\ UNCHANGED <<enumerator, enumch, closed, errch, dropped, started,
                   workDone, workers, resch, oks, got, nCopied>>

\* "Buffer full. Enough for this batch. Will get it later."
BreakFeedWork ==
    /\ fpc = "feed" /\ workch = WorkCap
    /\ dropped' = dropped + 1
    /\ workDone' = 1
    /\ fpc' = "collect"
    /\ UNCHANGED <<enumerator, enumch, closed, errch, toCopy, started, workch,
                   workers, resch, oks, got, nCopied>>

\* A result is taken off resch; ok says which kind it was.
Collect(ok) ==
    /\ fpc = "collect" /\ got < toCopy
    /\ resch > 0
    /\ IF ok THEN oks > 0 ELSE oks < resch + sending
    /\ resch' = resch - 1 /\ got' = got + 1
    /\ oks' = IF ok THEN oks - 1 ELSE oks
    /\ nCopied' = IF ok THEN nCopied + 1 ELSE nCopied
    /\ UNCHANGED <<enumerator, enumch, closed, errch, fpc, toCopy, dropped,
                   started, workch, workDone, workers>>

\* Mutant: one result is left behind.
CollectedEarly ==
    /\ fpc = "collect" /\ got + 1 >= toCopy
    /\ fpc' = "wait"
    /\ UNCHANGED <<enumerator, enumch, closed, errch, toCopy, dropped,
                   started, workch, workDone, workers, resch, oks, got,
                   nCopied>>

Collected ==
    /\ fpc = "collect" /\ got = toCopy
    /\ fpc' = "wait"
    /\ UNCHANGED <<enumerator, enumch, closed, errch, toCopy, dropped,
                   started, workch, workDone, workers, resch, oks, got,
                   nCopied>>

ReceiveErr ==
    /\ fpc = "wait" /\ errch = 1
    /\ errch' = 0
    /\ fpc' = "returned"
    /\ UNCHANGED <<enumerator, enumch, closed, toCopy, dropped, started,
                   workch, workDone, workers, resch, oks, got, nCopied>>
-----------------------------------------------------------------------------
\* copyWorker

Idle == started - copying - sending - exited

TakeWork ==
    /\ Idle > 0 /\ workch > 0
    /\ workch' = workch - 1
    /\ copying' = copying + 1
    /\ UNCHANGED <<enumerator, enumch, closed, errch, fpc, toCopy, dropped,
                   started, workDone, sending, exited, resch, oks, got,
                   nCopied>>

\* Mutant: a blob whose copy failed goes back to workch.
CopyBlobRetries ==
    /\ copying > 0 /\ copying' = copying - 1
    /\ \/ sending' = sending + 1 /\ oks' = oks + 1 /\ UNCHANGED workch
       \/ workch < WorkCap /\ workch' = workch + 1 /\ UNCHANGED <<sending, oks>>
    /\ UNCHANGED <<enumerator, enumch, closed, errch, fpc, toCopy, dropped,
                   started, workDone, exited, resch, got, nCopied>>

\* copyBlob returns, with or without an error.
CopyBlobReturns ==
    /\ copying > 0
    /\ copying' = copying - 1 /\ sending' = sending + 1
    /\ oks' \in {oks, oks + 1}
    /\ UNCHANGED <<enumerator, enumch, closed, errch, fpc, toCopy, dropped,
                   started, workch, workDone, exited, resch, got, nCopied>>

SendResult ==
    /\ sending > 0 /\ resch < ResCap
    /\ sending' = sending - 1 /\ resch' = resch + 1
    /\ UNCHANGED <<enumerator, enumch, closed, errch, fpc, toCopy, dropped,
                   started, workch, workDone, copying, exited, oks, got,
                   nCopied>>

WorkerExits ==
    /\ Idle > 0 /\ workch = 0 /\ workDone = 1
    /\ exited' = exited + 1
    /\ UNCHANGED <<enumerator, enumch, closed, errch, fpc, toCopy, dropped,
                   started, workch, workDone, copying, sending, resch, oks,
                   got, nCopied>>
-----------------------------------------------------------------------------
Enumerate == Send \/ EndEnumeration \/ CloseEnum \/ SendErr
Feeder ==
    \/ RangeTake \/ RangeEnds \/ Feed \/ BreakFeedWork
    \/ (\E ok \in BOOLEAN : Collect(ok)) \/ Collected \/ ReceiveErr
Worker == TakeWork \/ CopyBlobReturns \/ SendResult \/ WorkerExits

Next == Enumerate \/ Feeder \/ Worker

Spec == Init /\ [][Next]_vars

\* Every goroutine is scheduled.  Worker steps that are enabled stay enabled
\* until a worker takes them, so weak fairness of each kind is enough.
Fairness ==
    /\ WF_vars(Enumerate) /\ WF_vars(Feeder)
    /\ WF_vars(TakeWork) /\ WF_vars(CopyBlobReturns)
    /\ WF_vars(SendResult) /\ WF_vars(WorkerExits)

FairSpec == Spec /\ Fairness
-----------------------------------------------------------------------------
TypeOK ==
    /\ run \in {"pending", "full"}
    /\ batch \in Nat /\ sent \in Nat /\ sent <= batch
    /\ epc \in {"send", "close", "return", "exited"}
    /\ enumch \in 0..EnumCap /\ closed \in 0..1 /\ errch \in 0..1
    /\ fpc \in {"range", "feed", "collect", "wait", "returned"}
    /\ toCopy \in Nat /\ dropped \in 0..1 /\ started \in 0..PoolSize
    /\ workch \in 0..WorkCap /\ workDone \in 0..1
    /\ copying \in Nat /\ sending \in Nat /\ exited \in Nat
    /\ Idle \in Nat
    /\ resch \in 0..ResCap
    /\ oks \in 0..(resch + sending)
    /\ got \in Nat /\ nCopied \in Nat

\* The feeder holds one blob between its two channel operations.
Holding == IF fpc = "feed" THEN 1 ELSE 0

\* No blob is lost or duplicated in the pipeline.
Conservation ==
    /\ sent = enumch + Holding + dropped + toCopy
    /\ toCopy = workch + copying + sending + resch + got

\* When runSync returns, its workers have nothing left to copy: no copyBlob
\* of this batch can overlap one of the next batch, which is what SyncHandler
\* assumes of a finished run.
NoWorkAfterReturn ==
    fpc \in {"wait", "returned"} =>
        workch + copying + sending + resch = 0 /\ got = toCopy

\* A run over the pending list handles its whole batch: workch never turns
\* out to be full, because its capacity is maxBatch.
WholeBatch ==
    ~FullSync /\ MaxBatch <= WorkCap =>
        /\ dropped = 0
        /\ fpc = "returned" => got = batch

\* A worker blocked for ever on resch, or a blob without a worker, would
\* stop the loop: a run over the pending list returns.  (A full sync that
\* does not fill workch never does: nobody closes its enumch.)
RunReturns == ~FullSync /\ MaxBatch <= WorkCap ~> fpc = "returned"

\* The inductive invariant: the parts above and the order of the phases.
PhasesConsistent ==
    /\ fpc \in {"range", "feed"} <=> workDone = 0
    /\ fpc \in {"range", "feed"} => got = 0 /\ dropped = 0
    /\ fpc \in {"wait", "returned"} => got = toCopy
    /\ closed = 1 => epc \in {"return", "exited"} /\ ~FullSync
    /\ epc # "send" /\ ~FullSync => sent = batch
    /\ ~FullSync => batch <= MaxBatch
    /\ fpc \notin {"range", "feed"} /\ dropped = 0 => enumch = 0 /\ closed = 1
    /\ fpc = "range" =>
           started = IF toCopy < PoolSize THEN toCopy ELSE PoolSize
    /\ fpc = "feed" =>
           started = IF toCopy < PoolSize THEN toCopy + 1 ELSE PoolSize

\* What nobody may still be waiting for: an enumerator that is through has
\* closed enumch and reported, and no worker left while there was work.
NothingOwed ==
    /\ ~FullSync /\ epc \in {"return", "exited"} => closed = 1
    /\ epc = "exited" => errch = 1 \/ fpc = "returned"
    /\ exited > 0 => workch = 0 /\ workDone = 1
    /\ toCopy > 0 => started > 0

IInv == TypeOK /\ Conservation /\ PhasesConsistent /\ NothingOwed /\ WholeBatch
-----------------------------------------------------------------------------
\* A goroutine is not blocked: the guards of its steps.
CanStep ==
    \/ epc = "send" /\ (sent = batch \/ enumch < EnumCap)
    \/ epc \in {"close", "return"}
    \/ fpc = "range" /\ (enumch > 0 \/ closed = 1)
    \/ fpc = "feed"
    \/ fpc = "collect" /\ (got = toCopy \/ resch > 0)
    \/ fpc = "wait" /\ errch = 1
    \/ copying > 0
    \/ sending > 0 /\ resch < ResCap
    \/ Idle > 0 /\ (workch > 0 \/ workDone = 1)

\* The steps a run has left: how far every blob is from its result, and
\* every goroutine from its end.
BlobsLeft ==
    7 * (batch - sent) + 6 * enumch + 5 * Holding + 4 * workch + 3 * copying
    + 2 * sending + resch
EnumeratorLeft ==
    CASE epc = "send" -> 3 [] epc = "close" -> 2 [] epc = "return" -> 1
      [] OTHER -> 0
FeederLeft ==
    CASE fpc \in {"range", "feed"} -> 3 [] fpc = "collect" -> 2
      [] fpc = "wait" -> 1 [] OTHER -> 0
StepsLeft == BlobsLeft + EnumeratorLeft + FeederLeft + (PoolSize - exited)

\* Over three bounded channels, a run over the pending list that has not
\* returned always has a goroutine that is not blocked.
NeverStalls ==
    /\ StepsLeft \in Nat
    /\ ~FullSync /\ MaxBatch <= WorkCap /\ fpc # "returned" => CanStep

\* The two halves of "runSync returns" that hold of every behaviour, fair or
\* not: no step is for nothing, and before the return there is a next one.
Terminates == []NeverStalls /\ [][StepsLeft' < StepsLeft]_vars
=============================================================================
