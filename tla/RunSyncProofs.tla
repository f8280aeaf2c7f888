---------------------------- MODULE RunSyncProofs ----------------------------
(* Safety of the runSync pipeline for every capacity, pool and batch size.  *)
EXTENDS RunSync, TLAPS

USE RunSyncAssumption

\* At the start nothing is in flight.
LEMMA InitIInv == Init => IInv
  BY DEF Init, IInv, TypeOK, Conservation, PhasesConsistent, NothingOwed,
         WholeBatch, BatchOf, Holding, Idle, FullSync

\* The enumerator's steps keep the invariant.
LEMMA EnumerateIInv == IInv /\ Enumerate => IInv'
  <1> SUFFICES ASSUME IInv, Enumerate PROVE IInv'
    OBVIOUS
  <1> USE DEF IInv, TypeOK, Conservation, PhasesConsistent, NothingOwed,
              WholeBatch, Holding, Idle, FullSync, enumerator, workers
  <1>1. CASE Send BY <1>1 DEF Send
  <1>2. CASE EndEnumeration BY <1>2 DEF EndEnumeration
  <1>3. CASE CloseEnum BY <1>3 DEF CloseEnum
  <1>4. CASE SendErr BY <1>4 DEF SendErr
  <1> QED BY <1>1, <1>2, <1>3, <1>4 DEF Enumerate

\* The feeder's steps keep the invariant.
LEMMA FeederIInv == IInv /\ Feeder => IInv'
  <1> SUFFICES ASSUME IInv, Feeder PROVE IInv'
    OBVIOUS
  <1> USE DEF IInv, TypeOK, Conservation, PhasesConsistent, NothingOwed,
              WholeBatch, Holding, Idle, FullSync, enumerator, workers
  <1>1. CASE RangeTake
    <2>1. TypeOK' BY <1>1 DEF RangeTake
    <2>2. Conservation' BY <1>1 DEF RangeTake
    <2>3. PhasesConsistent' BY ZenonT(40), <1>1 DEF RangeTake
    <2>4. WholeBatch' BY <1>1 DEF RangeTake
    <2>5. NothingOwed' BY <1>1 DEF RangeTake
    <2> QED BY ZenonT(40), <2>1, <2>2, <2>3, <2>4, <2>5
  <1>2. CASE RangeEnds BY <1>2 DEF RangeEnds
  <1>3. CASE Feed BY <1>3 DEF Feed
  <1>4. CASE BreakFeedWork BY <1>4 DEF BreakFeedWork
  <1>5. ASSUME NEW ok \in BOOLEAN, Collect(ok) PROVE IInv'
    BY <1>5 DEF Collect
  <1>6. CASE Collected BY <1>6 DEF Collected
  <1>7. CASE ReceiveErr BY <1>7 DEF ReceiveErr
  <1> QED BY <1>1, <1>2, <1>3, <1>4, <1>5, <1>6, <1>7 DEF Feeder

\* The workers' steps keep the invariant.
LEMMA WorkerIInv == IInv /\ Worker => IInv'
  <1> SUFFICES ASSUME IInv, Worker PROVE IInv'
    OBVIOUS
  <1> USE DEF IInv, TypeOK, Conservation, PhasesConsistent, NothingOwed,
              WholeBatch, Holding, Idle, FullSync, enumerator, workers
  <1>1. CASE TakeWork BY <1>1 DEF TakeWork
  <1>2. CASE CopyBlobReturns BY <1>2 DEF CopyBlobReturns
  <1>3. CASE SendResult BY <1>3 DEF SendResult
  <1>4. CASE WorkerExits BY <1>4 DEF WorkerExits
  <1> QED BY <1>1, <1>2, <1>3, <1>4 DEF Worker

\* The pipeline's counters always add up, in every phase of runSync.
THEOREM RunSyncInvariance == Spec => []IInv
  <1>1. IInv /\ UNCHANGED vars => IInv'
    BY DEF IInv, TypeOK, Conservation, PhasesConsistent, NothingOwed, WholeBatch,
           Holding, Idle, FullSync, vars, enumerator, workers
  <1> QED
    BY InitIInv, EnumerateIInv, FeederIInv, WorkerIInv, <1>1, PTL
       DEF Spec, Next

\* When runSync has collected its results no worker has a blob left, so two
\* runs never copy at the same time.
THEOREM RunsDoNotOverlap == Spec => []NoWorkAfterReturn
  <1>1. IInv => NoWorkAfterReturn
    BY DEF IInv, TypeOK, Conservation, PhasesConsistent, NoWorkAfterReturn,
           Idle
  <1> QED BY RunSyncInvariance, <1>1, PTL

\* A run over the pending list copies (or fails) every blob of its batch, as
\* long as workch has room for maxBatch blobs.
THEOREM BatchIsComplete == Spec => []WholeBatch
  BY RunSyncInvariance, PTL DEF IInv
-----------------------------------------------------------------------------
LEMMA StepsLeftIsNat ==
    IInv => /\ StepsLeft \in Nat
            /\ {BlobsLeft, EnumeratorLeft, FeederLeft, PoolSize - exited} \subseteq Nat
  <1> SUFFICES ASSUME IInv
               PROVE  /\ BlobsLeft \in Nat /\ EnumeratorLeft \in Nat
                      /\ FeederLeft \in Nat /\ PoolSize - exited \in Nat
    BY DEF StepsLeft
  <1>1. EnumeratorLeft \in Nat /\ FeederLeft \in Nat
    BY DEF EnumeratorLeft, FeederLeft
  <1>2. Holding \in Nat /\ batch - sent \in Nat /\ PoolSize - exited \in Nat
    BY DEF IInv, TypeOK, Idle, Holding
  <1> QED BY <1>1, <1>2 DEF BlobsLeft, IInv, TypeOK

\* A run over the pending list has the feeder wait only for what will come:
\* for a blob, a result or the error of a goroutine that can go on.
LEMMA SomeoneCanStep ==
    IInv /\ ~FullSync /\ MaxBatch <= WorkCap /\ fpc # "returned" => CanStep
  <1> SUFFICES ASSUME IInv, ~FullSync, MaxBatch <= WorkCap, fpc # "returned",
                      ~CanStep
               PROVE  FALSE
    OBVIOUS
  <1> USE DEF IInv, TypeOK
  <1>1. dropped = 0
    BY DEF WholeBatch
  \* The enumerator is blocked on a full enumch, or it is through.
  <1>2. epc = "exited" \/ (epc = "send" /\ enumch > 0)
    BY DEF CanStep
  <1>3. CASE fpc = "range"
    <2>1. enumch = 0 /\ closed # 1 BY <1>3 DEF CanStep
    <2> QED BY <1>2, <2>1 DEF NothingOwed
  <1>4. CASE fpc = "collect"
    <2>1. got # toCopy /\ resch = 0 /\ copying = 0
      BY <1>4 DEF CanStep
    <2>2. sending = 0
      BY <2>1 DEF CanStep
    <2>3. workch > 0 /\ toCopy > 0
      BY <2>1, <2>2 DEF Conservation
    <2>4. exited = 0 /\ started > 0
      BY <2>3 DEF NothingOwed
    <2> QED BY <2>1, <2>2, <2>3, <2>4 DEF CanStep, Idle
  <1>5. CASE fpc = "wait"
    <2>1. enumch = 0 BY <1>1, <1>5 DEF PhasesConsistent
    <2> QED BY <1>2, <1>5, <2>1 DEF NothingOwed, CanStep
  <1> QED BY <1>3, <1>4, <1>5 DEF CanStep

\* Every step of the enumerator, the feeder or a worker is one of the steps
\* that were left.
LEMMA NextIsOneLess == IInv /\ Next => StepsLeft' < StepsLeft
  <1> SUFFICES ASSUME IInv, Next PROVE StepsLeft' < StepsLeft
    OBVIOUS
  <1> DEFINE Same == UNCHANGED <<EnumeratorLeft, FeederLeft, exited>>
  <1>0. {BlobsLeft, EnumeratorLeft, FeederLeft} \subseteq Nat
    BY StepsLeftIsNat
  <1> USE DEF IInv, TypeOK, enumerator, workers
  \* A blob goes on.
  <1>1. ASSUME BlobsLeft' < BlobsLeft, BlobsLeft' \in Int, Same
        PROVE  StepsLeft' < StepsLeft
    BY <1>0, <1>1 DEF StepsLeft
  <1>2. CASE Send
    BY <1>1, <1>2 DEF Send, BlobsLeft, EnumeratorLeft, FeederLeft, Holding
  <1>3. CASE RangeTake
    BY <1>1, <1>3 DEF RangeTake, BlobsLeft, EnumeratorLeft, FeederLeft, Holding
  <1>4. CASE Feed
    BY <1>1, <1>4 DEF Feed, BlobsLeft, EnumeratorLeft, FeederLeft, Holding
  <1>5. ASSUME NEW ok \in BOOLEAN, Collect(ok) PROVE StepsLeft' < StepsLeft
    BY <1>1, <1>5 DEF Collect, BlobsLeft, EnumeratorLeft, FeederLeft, Holding
  <1>6. CASE TakeWork
    BY <1>1, <1>6 DEF TakeWork, BlobsLeft, EnumeratorLeft, FeederLeft, Holding
  <1>7. CASE CopyBlobReturns
    BY <1>1, <1>7 DEF CopyBlobReturns, BlobsLeft, EnumeratorLeft, FeederLeft, Holding
  <1>8. CASE SendResult
    BY <1>1, <1>8 DEF SendResult, BlobsLeft, EnumeratorLeft, FeederLeft, Holding
  \* The enumerator goes on.
  <1>9. ASSUME EnumeratorLeft' < EnumeratorLeft, EnumeratorLeft' \in Int,
               UNCHANGED <<BlobsLeft, FeederLeft, exited>>
        PROVE  StepsLeft' < StepsLeft
    BY <1>0, <1>9 DEF StepsLeft
  <1>10. CASE EndEnumeration
    BY <1>9, <1>10 DEF EndEnumeration, BlobsLeft, EnumeratorLeft, FeederLeft, Holding
  <1>11. CASE CloseEnum
    BY <1>9, <1>11 DEF CloseEnum, BlobsLeft, EnumeratorLeft, FeederLeft, Holding
  <1>12. CASE SendErr
    BY <1>9, <1>12 DEF SendErr, BlobsLeft, EnumeratorLeft, FeederLeft, Holding
  \* The feeder goes on, and may drop the blob it holds.
  <1>13. ASSUME FeederLeft' < FeederLeft, FeederLeft' \in Int,
                BlobsLeft' <= BlobsLeft, BlobsLeft' \in Int,
                UNCHANGED <<EnumeratorLeft, exited>>
         PROVE  StepsLeft' < StepsLeft
    BY <1>0, <1>13 DEF StepsLeft
  <1>14. CASE RangeEnds
    BY <1>13, <1>14 DEF RangeEnds, BlobsLeft, EnumeratorLeft, FeederLeft, Holding
  <1>15. CASE BreakFeedWork
    BY <1>13, <1>15 DEF BreakFeedWork, BlobsLeft, EnumeratorLeft, FeederLeft, Holding
  <1>16. CASE Collected
    BY <1>13, <1>16 DEF Collected, BlobsLeft, EnumeratorLeft, FeederLeft, Holding
  <1>17. CASE ReceiveErr
    BY <1>13, <1>17 DEF ReceiveErr, BlobsLeft, EnumeratorLeft, FeederLeft, Holding
  \* A worker exits.
  <1>18. CASE WorkerExits
    <2>1. UNCHANGED <<BlobsLeft, EnumeratorLeft, FeederLeft>>
      BY <1>18 DEF WorkerExits, BlobsLeft, EnumeratorLeft, FeederLeft, Holding
    <2>2. exited' = exited + 1
      BY <1>18 DEF WorkerExits
    <2> QED BY <1>0, <2>1, <2>2 DEF StepsLeft
  <1> QED
    BY <1>2, <1>3, <1>4, <1>5, <1>6, <1>7, <1>8, <1>10, <1>11, <1>12, <1>14,
       <1>15, <1>16, <1>17, <1>18 DEF Next, Enumerate, Feeder, Worker

\* For every capacity and pool size, a run takes finitely many steps, and
\* over the pending list it has a next one until runSync has returned.
THEOREM RunTerminates == Spec => Terminates
  <1>1. IInv => NeverStalls
    BY StepsLeftIsNat, SomeoneCanStep DEF NeverStalls
  <1>2. IInv /\ [Next]_vars => [StepsLeft' < StepsLeft]_vars
    BY NextIsOneLess
  <1> QED BY RunSyncInvariance, <1>1, <1>2, PTL DEF Spec, Terminates
=============================================================================
