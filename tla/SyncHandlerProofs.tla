-------------------------- MODULE SyncHandlerProofs --------------------------
(***************************************************************************)
(* Proofs about SyncHandler: the inductive invariant IInv, and from it the *)
(* durability of the queue and the rules of copying, for any number of     *)
(* blobs, receivers, copiers and crashes.                                  *)
(***************************************************************************)
EXTENDS SyncHandler, FiniteSetTheorems, WellFoundedInduction, TLAPS

\* The initial state satisfies the inductive invariant.
LEMMA InitIInv == Init => IInv
  <1> SUFFICES ASSUME Init PROVE IInv
    OBVIOUS
  <1>1. TypeOK
    <2>2. loop \in {"drain", "pending"} /\ crashes \in 0..MaxCrashes
      BY LimitsAssumption DEF Init, FirstRuns
    <2>3. up \in BOOLEAN
      BY DEF Init
    <2> QED
      BY <2>2, <2>3 DEF Init, TypeOK
  <1>2. HandsConsistent /\ BatchConsistent /\ StartupConsistent
        /\ CompareConsistent
    BY DEF Init, CompareConsistent, HandsConsistent, BatchConsistent, StartupConsistent,
           NoDoubleCopy, FirstRuns
  <1>3. CopiedBeforeDelete /\ SetIsPending /\ RecordedNeverLost
        /\ AckedPendingOrCopied
    BY DEF Init, CopiedBeforeDelete, SetIsPending, RecordedNeverLost,
           AckedPendingOrCopied
  <1> QED
    BY <1>1, <1>2, <1>3 DEF IInv

USE ZenonT(30) DEF disk, memory, receivers, runner, copiers, compare, history, Runs,
        process

\* Every step keeps the state well typed.
LEMMA NextTypeOK ==
  ASSUME TypeOK, HandsConsistent, [Next]_vars
  PROVE  TypeOK'
  <1> USE LimitsAssumption
  <1>1. ASSUME NEW r \in Receivers, NEW b \in Blobs,
               Receive(r, b) \/ EnqueueMissing(r, b)
        PROVE  TypeOK'
    BY <1>1 DEF TypeOK, Receive, EnqueueMissing
  <1>2. ASSUME NEW r \in Receivers, AddBlobToCopy(r) PROVE TypeOK'
    <2>1. rblob[r] \in Blobs
      BY <1>2 DEF HandsConsistent, AddBlobToCopy
    <2>2. bytesRemain' \in Int /\ needCopy' \subseteq Blobs
      BY SMT, <1>2, <2>1, SizeAssumption DEF TypeOK, AddBlobToCopy
    <2>3. /\ rpc' \in [Receivers -> {"idle", "notify", "set"}]
          /\ rblob' \in [Receivers -> Blobs \cup {None}]
          /\ acked' \subseteq Blobs
      BY <1>2, <2>1 DEF TypeOK, AddBlobToCopy, Return
    <2>4. loop' \in {loop, "pending"}
      BY <1>2 DEF AddBlobToCopy
    <2> QED
      BY <1>2, <2>2, <2>3, <2>4 DEF TypeOK, AddBlobToCopy
  <1>3. ASSUME NEW r \in Receivers, QueueSet(r) PROVE TypeOK'
    BY <1>3 DEF TypeOK, HandsConsistent, QueueSet, Return
  <1>4. CASE StartRun
    BY <1>4 DEF TypeOK, StartRun, PendingBatches
  <1>5. CASE StartFullRun \/ BreakFeedWork
    <2>1. work' \subseteq Blobs /\ loop' \in {"full", "fullEnds"}
      BY <1>5 DEF TypeOK, StartFullRun, BreakFeedWork
    <2>2. nCopied' \in {0, nCopied} /\ 0 \in Nat
      BY SMT, <1>5 DEF StartFullRun, BreakFeedWork
    <2>3. UNCHANGED <<disk, memory, receivers, copiers, compare, history, process>>
      BY <1>5 DEF StartFullRun, BreakFeedWork
    <2> QED BY <2>1, <2>2, <2>3 DEF TypeOK
  <1>7. CASE FinishRun \/ Sleep \/ TimerFires \/ QueueRead
    BY SMT, <1>7 DEF TypeOK, FinishRun, Sleep, TimerFires, QueueRead, FirstRuns
  <1>6. ASSUME NEW b \in Blobs, ReadQueueRow(b) \/ HourlyCompare(b)
        PROVE  TypeOK'
    BY SMT, <1>6, SizeAssumption DEF TypeOK, ReadQueueRow, HourlyCompare,
                CompareCheck, CompareFetch
  <1>8. ASSUME NEW c \in Copiers, StartCopy(c) PROVE TypeOK'
    BY ZenonT(40), <1>8 DEF TypeOK, StartCopy, Goto
  <1>9. ASSUME NEW c \in Copiers, FetchSource(c) \/ FetchFails(c)
        PROVE  TypeOK'
    BY <1>9 DEF TypeOK, FetchSource, FetchFails, Goto
  <1>10. ASSUME NEW c \in Copiers,
                WriteDest(c) \/ WriteFails(c) \/ QueueDelete(c)
         PROVE  TypeOK'
    <2>1. cblob[c] \in Blobs
      BY <1>10 DEF TypeOK, HandsConsistent, WriteDest, WriteFails, QueueDelete
    <2> QED
      BY <1>10, <2>1 DEF TypeOK, WriteDest, WriteFails, QueueDelete, Goto
  <1>11. ASSUME NEW c \in Copiers, SetErrorNil(c) PROVE TypeOK'
    BY SMT, <1>11, SizeAssumption DEF TypeOK, SetErrorNil, Result, Goto
  <1>12. ASSUME NEW c \in Copiers, SetError(c) PROVE TypeOK'
    <2>1. cblob[c] \in Blobs
      BY <1>12 DEF TypeOK, HandsConsistent, SetError
    <2> QED
      BY <1>12, <2>1 DEF TypeOK, SetError, Result, Goto
  <1>13. CASE Crash
    <2>1. up' \in BOOLEAN
      BY <1>13 DEF Crash
    <2>2. crashes' \in 0..MaxCrashes
      BY SMT, <1>13 DEF Crash, TypeOK
    <2> QED
      BY SMT, <1>13, <2>1, <2>2 DEF TypeOK, Crash
  <1>14. CASE Restart
    BY <1>14 DEF TypeOK, Restart
  <1>15. CASE UNCHANGED vars
    BY <1>15 DEF TypeOK, vars
  <1> QED
    BY <1>1, <1>2, <1>3, <1>4, <1>5, <1>6, <1>7, <1>8, <1>9, <1>10, <1>11,
       <1>12, <1>13, <1>14, <1>15
    DEF Next, ReceiverNext, CopierNext, LoopNext

\* Goroutines keep their blob in hand from the first step to the last.
LEMMA NextHands ==
  ASSUME TypeOK, HandsConsistent, [Next]_vars
  PROVE  HandsConsistent'
  <1> USE BlobsAssumption DEF TypeOK, HandsConsistent
  <1>1. ASSUME NEW r \in Receivers, ReceiverNext(r) PROVE HandsConsistent'
    BY ZenonT(40), <1>1 DEF ReceiverNext, Receive, EnqueueMissing, AddBlobToCopy, Return,
                QueueSet
  <1>2. ASSUME NEW c \in Copiers, CopierNext(c) PROVE HandsConsistent'
    <2>1. CASE StartCopy(c)
      BY <2>1 DEF StartCopy, Goto
    <2>2. CASE FetchSource(c) \/ FetchFails(c) \/ WriteDest(c)
               \/ WriteFails(c) \/ QueueDelete(c)
      BY <2>2 DEF FetchSource, FetchFails, WriteDest, WriteFails, QueueDelete,
                  Goto
    <2>3. CASE SetErrorNil(c) \/ SetError(c)
      BY <2>3 DEF SetErrorNil, SetError, Result, Goto
    <2> QED
      BY <1>2, <2>1, <2>2, <2>3 DEF CopierNext
  <1>3. CASE LoopNext \/ \E b \in Blobs : HourlyCompare(b)
    BY <1>3 DEF LoopNext, StartRun, StartFullRun, BreakFeedWork, FinishRun, Sleep,
                TimerFires, ReadQueueRow, QueueRead, HourlyCompare,
                CompareCheck, CompareFetch
  <1>4. CASE Crash \/ Restart \/ UNCHANGED vars
    BY <1>4 DEF Crash, Restart, vars
  <1> QED
    BY <1>1, <1>2, <1>3, <1>4 DEF Next

\* Copiers only run inside a runSync, on different blobs of its batch.
LEMMA NextBatch ==
  ASSUME TypeOK, HandsConsistent, BatchConsistent, StartupConsistent,
         [Next]_vars
  PROVE  BatchConsistent'
  <1> USE BlobsAssumption DEF TypeOK, BatchConsistent, NoDoubleCopy
  <1>1. ASSUME NEW r \in Receivers, ReceiverNext(r) PROVE BatchConsistent'
    BY <1>1 DEF ReceiverNext, Receive, EnqueueMissing, AddBlobToCopy, Return,
                QueueSet
  <1>2. ASSUME NEW c \in Copiers, CopierNext(c) PROVE BatchConsistent'
    <2>1. CASE StartCopy(c)
      BY SMT, <2>1 DEF StartCopy, Goto
    <2>2. CASE FetchSource(c) \/ FetchFails(c) \/ WriteDest(c)
               \/ WriteFails(c) \/ QueueDelete(c)
      BY <2>2 DEF FetchSource, FetchFails, WriteDest, WriteFails, QueueDelete,
                  Goto
    <2>3. CASE SetErrorNil(c) \/ SetError(c)
      BY ZenonT(40), <2>3 DEF SetErrorNil, SetError, Result, Goto
    <2> QED
      BY <1>2, <2>1, <2>2, <2>3 DEF CopierNext
  <1>3. CASE StartRun \/ StartFullRun
    BY <1>3 DEF StartRun, StartFullRun, PendingBatches, HandsConsistent
  <1>7. CASE BreakFeedWork
    <2>1. work' \subseteq work /\ loop' \in Runs /\ UNCHANGED copiers
      BY <1>7 DEF BreakFeedWork
    <2> QED BY <2>1
  <1>4. CASE FinishRun \/ Sleep \/ TimerFires \/ QueueRead
             \/ \E b \in Blobs : ReadQueueRow(b)
    BY <1>4 DEF FinishRun, Sleep, TimerFires, ReadQueueRow, QueueRead, FirstRuns
  <1>5. CASE \E b \in Blobs : HourlyCompare(b)
    BY <1>5 DEF HourlyCompare,
                CompareCheck, CompareFetch
  <1>6. CASE Crash \/ Restart \/ UNCHANGED vars
    BY SMT, <1>6 DEF Crash, Restart, vars
  <1> QED
    BY <1>1, <1>2, <1>3, <1>4, <1>5, <1>6, <1>7 DEF Next, LoopNext

\* Nothing runs before the queue was read, and only after a crash is there
\* a queue to read.
LEMMA NextStartup ==
  ASSUME TypeOK, BatchConsistent, StartupConsistent, [Next]_vars
  PROVE  StartupConsistent'
  <1> USE DEF TypeOK, StartupConsistent
  <1>1. ASSUME NEW r \in Receivers, ReceiverNext(r) PROVE StartupConsistent'
    BY <1>1 DEF ReceiverNext, Receive, EnqueueMissing, AddBlobToCopy, Return,
                QueueSet, Serving
  <1>2. ASSUME NEW c \in Copiers, CopierNext(c) PROVE StartupConsistent'
    BY <1>2 DEF CopierNext, StartCopy, FetchSource, FetchFails, WriteDest,
                WriteFails, QueueDelete, SetErrorNil, SetError, Result
  <1>3. CASE LoopNext
    <2>2. up'
      BY <1>3 DEF LoopNext, StartRun, StartFullRun, BreakFeedWork, FinishRun,
              Sleep, TimerFires, ReadQueueRow, QueueRead
    <2>3. CASE FinishRun
      <3>1. loop' # "reading" BY SMT, <2>3 DEF FinishRun
      <3> QED BY <2>3, <3>1 DEF FinishRun
    <2>4. CASE ~FinishRun
      <3>1. loop' # "reading" \/ UNCHANGED <<loop, up, crashes, rpc>>
        BY <1>3, <2>4 DEF LoopNext, StartRun, StartFullRun, BreakFeedWork,
              Sleep, TimerFires, ReadQueueRow, QueueRead, FirstRuns
      <3> QED BY <2>2, <3>1
    <2> QED BY <2>3, <2>4
  <1>4. CASE \E b \in Blobs : HourlyCompare(b)
    BY SMT, <1>4 DEF HourlyCompare,
                CompareCheck, CompareFetch
  <1>5. CASE Crash
    BY SMT, <1>5 DEF Crash
  <1>6. CASE Restart \/ UNCHANGED vars
    BY <1>6 DEF Restart, vars
  <1> QED
    BY <1>1, <1>2, <1>3, <1>4, <1>5, <1>6 DEF Next

\* The destination only grows.
LEMMA DstGrows ==
  ASSUME [Next]_vars
  PROVE  dst \subseteq dst'
  <1>1. ASSUME NEW c \in Copiers, CopierNext(c) PROVE dst \subseteq dst'
    BY <1>1 DEF CopierNext, StartCopy, FetchSource, FetchFails, WriteDest,
                WriteFails, QueueDelete, SetErrorNil, SetError
  <1>2. ASSUME NEW r \in Receivers, ReceiverNext(r) PROVE dst' = dst
    BY <1>2 DEF ReceiverNext, Receive, EnqueueMissing, AddBlobToCopy, QueueSet
  <1>3. CASE LoopNext
    BY <1>3 DEF LoopNext, StartRun, StartFullRun, BreakFeedWork, FinishRun, Sleep,
                TimerFires, ReadQueueRow, QueueRead
  <1>4. CASE (\E b \in Blobs : HourlyCompare(b)) \/ Crash \/ Restart
             \/ UNCHANGED vars
    BY <1>4 DEF HourlyCompare,
                CompareCheck, CompareFetch, Crash, Restart, vars
  <1> QED
    BY <1>1, <1>2, <1>3, <1>4 DEF Next

\* A copier deletes the queue row of a blob only once the destination holds
\* the blob.
LEMMA NextCopied ==
  ASSUME TypeOK, CopiedBeforeDelete, [Next]_vars
  PROVE  CopiedBeforeDelete'
  <1>0. dst \subseteq dst'
    BY DstGrows
  <1> USE <1>0 DEF TypeOK, CopiedBeforeDelete
  <1>1. ASSUME NEW c \in Copiers, CopierNext(c) PROVE CopiedBeforeDelete'
    <2>1. CASE StartCopy(c)
      BY <2>1 DEF StartCopy, Goto
    <2>2. CASE FetchSource(c) \/ FetchFails(c) \/ WriteDest(c)
               \/ WriteFails(c) \/ QueueDelete(c)
      BY <2>2 DEF FetchSource, FetchFails, WriteDest, WriteFails, QueueDelete,
                  Goto
    <2>3. CASE SetErrorNil(c) \/ SetError(c)
      BY <2>3 DEF SetErrorNil, SetError, Result, Goto
    <2> QED
      BY <1>1, <2>1, <2>2, <2>3 DEF CopierNext
  <1>2. ASSUME NEW r \in Receivers, ReceiverNext(r) PROVE CopiedBeforeDelete'
    BY <1>2 DEF ReceiverNext, Receive, EnqueueMissing, AddBlobToCopy, QueueSet
  <1>3. CASE LoopNext \/ \E b \in Blobs : HourlyCompare(b)
    BY <1>3 DEF LoopNext, StartRun, StartFullRun, BreakFeedWork, FinishRun, Sleep,
                TimerFires, ReadQueueRow, QueueRead, HourlyCompare,
                CompareCheck, CompareFetch
  <1>4. CASE Crash \/ Restart \/ UNCHANGED vars
    BY <1>4 DEF Crash, Restart, vars
  <1> QED
    BY <1>1, <1>2, <1>3, <1>4 DEF Next

\* A blob leaves memory only when the destination has it, or at a crash.
LEMMA NeedCopyKept ==
  ASSUME CopiedBeforeDelete, [Next]_vars, ~Crash
  PROVE  needCopy \subseteq needCopy' \cup dst
  <1>1. ASSUME NEW c \in Copiers, CopierNext(c)
        PROVE  needCopy \subseteq needCopy' \cup dst
    BY <1>1 DEF CopiedBeforeDelete, CopierNext, StartCopy, FetchSource,
                FetchFails, WriteDest, WriteFails, QueueDelete, SetErrorNil,
                SetError
  <1>2. ASSUME NEW r \in Receivers, ReceiverNext(r)
        PROVE  needCopy \subseteq needCopy'
    BY <1>2 DEF ReceiverNext, Receive, EnqueueMissing, AddBlobToCopy, QueueSet
  <1>3. CASE LoopNext \/ \E b \in Blobs : HourlyCompare(b)
    BY <1>3 DEF LoopNext, StartRun, StartFullRun, BreakFeedWork, FinishRun, Sleep,
                TimerFires, ReadQueueRow, QueueRead, HourlyCompare,
                CompareCheck, CompareFetch
  <1>4. CASE Restart \/ UNCHANGED vars
    BY <1>4 DEF Restart, vars
  <1> QED
    BY <1>1, <1>2, <1>3, <1>4 DEF Next

\* What is about to be written to the queue is pending or copied.
LEMMA NextSetIsPending ==
  ASSUME TypeOK, CopiedBeforeDelete, SetIsPending, [Next]_vars
  PROVE  SetIsPending'
  <1>1. CASE Crash
    BY <1>1 DEF Crash, SetIsPending
  <1>2. CASE ~Crash
    <2>1. needCopy \cup dst \subseteq needCopy' \cup dst'
      BY <1>2, NeedCopyKept, DstGrows
    <2>2. ASSUME NEW r \in Receivers, rpc'[r] = "set"
          PROVE  rblob'[r] \in needCopy' \cup dst'
      <3>1. CASE rpc[r] = "set" /\ rblob'[r] = rblob[r]
        BY <2>1, <3>1 DEF SetIsPending
      <3>2. ASSUME NEW q \in Receivers, ReceiverNext(q)
            PROVE  rblob'[r] \in needCopy' \cup dst'
        BY ZenonT(40), <2>2, <3>1, <3>2 DEF TypeOK, ReceiverNext, Receive, EnqueueMissing,
           AddBlobToCopy, QueueSet, Return
      <3>3. CASE UNCHANGED receivers
        BY <2>2, <3>1, <3>3
      <3> QED
        BY <1>2, <3>2, <3>3 DEF Next, CopierNext, LoopNext, StartCopy,
           FetchSource, FetchFails, WriteDest, WriteFails, QueueDelete,
           SetErrorNil, SetError, StartRun, StartFullRun, BreakFeedWork, FinishRun, Sleep,
           TimerFires, ReadQueueRow, QueueRead, HourlyCompare,
                CompareCheck, CompareFetch,
           Restart, vars
    <2> QED
      BY <2>2 DEF SetIsPending
  <1> QED
    BY <1>1, <1>2

\* The row of a recorded blob is deleted only when the blob was copied.
LEMMA NextRecorded ==
  ASSUME TypeOK, CopiedBeforeDelete, RecordedNeverLost, [Next]_vars
  PROVE  RecordedNeverLost'
  <1>0. dst \subseteq dst'
    BY DstGrows
  <1> USE <1>0 DEF RecordedNeverLost
  <1>1. ASSUME NEW c \in Copiers, CopierNext(c) PROVE RecordedNeverLost'
    BY <1>1 DEF CopiedBeforeDelete, CopierNext, StartCopy, FetchSource,
       FetchFails, WriteDest, WriteFails, QueueDelete, SetErrorNil, SetError
  <1>2. ASSUME NEW r \in Receivers, ReceiverNext(r) PROVE RecordedNeverLost'
    BY <1>2 DEF ReceiverNext, Receive, EnqueueMissing, AddBlobToCopy, QueueSet
  <1>3. CASE LoopNext \/ \E b \in Blobs : HourlyCompare(b)
    BY <1>3 DEF LoopNext, StartRun, StartFullRun, BreakFeedWork, FinishRun, Sleep,
                TimerFires, ReadQueueRow, QueueRead, HourlyCompare,
                CompareCheck, CompareFetch
  <1>4. CASE Crash \/ Restart \/ UNCHANGED vars
    BY <1>4 DEF Crash, Restart, vars
  <1> QED
    BY <1>1, <1>2, <1>3, <1>4 DEF Next

\* While serving, what was acknowledged is pending or copied.
LEMMA NextAcked ==
  ASSUME IInv, [Next]_vars
  PROVE  AckedPendingOrCopied'
  <1> SUFFICES ASSUME Serving' PROVE
          /\ recorded' \subseteq needCopy' \cup dst'
          /\ crashes' = 0 => acked' \subseteq needCopy' \cup dst'
    BY DEF AckedPendingOrCopied
  <1>0. needCopy \cup dst \subseteq needCopy' \cup dst'
    BY NeedCopyKept, DstGrows DEF Serving, IInv, Crash
  <1>1. CASE QueueRead
    BY SMT, <1>0, <1>1 DEF QueueRead, IInv, RecordedNeverLost, StartupConsistent,
                      TypeOK
  <1>2. ASSUME NEW r \in Receivers, AddBlobToCopy(r) \/ QueueSet(r)
        PROVE  /\ recorded' \subseteq needCopy' \cup dst'
               /\ crashes' = 0 => acked' \subseteq needCopy' \cup dst'
    <2>1. Serving
      BY <1>2 DEF AddBlobToCopy, QueueSet, IInv, StartupConsistent, Serving
    <2>2. CASE AddBlobToCopy(r)
      BY <1>0, <2>1, <2>2 DEF AddBlobToCopy, IInv, AckedPendingOrCopied
    <2>3. CASE QueueSet(r)
      BY <1>0, <2>1, <2>3 DEF QueueSet, IInv, AckedPendingOrCopied,
                              SetIsPending
    <2> QED
      BY <1>2, <2>2, <2>3
  <1>3. CASE /\ ~QueueRead
             /\ \A r \in Receivers : ~AddBlobToCopy(r) /\ ~QueueSet(r)
    <2>1. Serving /\ UNCHANGED <<history, crashes>>
      BY <1>3 DEF Next, ReceiverNext, CopierNext, LoopNext, Receive,
         EnqueueMissing, StartCopy, FetchSource, FetchFails, WriteDest,
         WriteFails, QueueDelete, SetErrorNil, SetError, Result, StartRun,
         StartFullRun, BreakFeedWork, FinishRun, Sleep, TimerFires, ReadQueueRow,
         HourlyCompare,
                CompareCheck, CompareFetch, Crash, Restart, Serving, IInv, StartupConsistent, vars
    <2> QED
      BY <1>0, <2>1 DEF IInv, AckedPendingOrCopied
  <1> QED
    BY <1>1, <1>2, <1>3

\* hourlyCompare goes on with a recorded blob only when it is on the
\* destination, and the destination keeps it until the fetch.
LEMMA NextCompare ==
  ASSUME IInv, [Next]_vars
  PROVE  CompareConsistent'
  <1>0. dst \subseteq dst'
    BY DstGrows
  <1> USE <1>0 DEF IInv, CompareConsistent
  <1>1. ASSUME NEW b \in Blobs, CompareCheck(b) PROVE CompareConsistent'
    BY <1>1 DEF CompareCheck, AckedPendingOrCopied
  <1>2. CASE CompareFetch \/ Crash
    BY <1>2 DEF CompareFetch, Crash
  <1>3. CASE UNCHANGED compare
    BY <1>3
  <1> QED
    BY <1>1, <1>2, <1>3 DEF Next, ReceiverNext, CopierNext, LoopNext, Receive,
       EnqueueMissing, AddBlobToCopy, QueueSet, StartCopy, FetchSource,
       FetchFails, WriteDest, WriteFails, QueueDelete, SetErrorNil, SetError,
       StartRun, StartFullRun, BreakFeedWork, FinishRun, Sleep, TimerFires, ReadQueueRow,
       QueueRead, HourlyCompare, Restart, vars

\* The invariant is inductive.
LEMMA NextIInv == IInv /\ [Next]_vars => IInv'
  BY NextTypeOK, NextHands, NextBatch, NextStartup, NextCopied,
     NextSetIsPending, NextRecorded, NextAcked, NextCompare DEF IInv

\* Every reachable state satisfies the inductive invariant.
THEOREM Invariance == Spec => []IInv
  BY InitIInv, NextIInv, PTL DEF Spec

\* The state is well typed in every reachable state.
THEOREM TypeCorrect == Spec => []TypeOK
  <1>1. IInv => TypeOK
    BY DEF IInv
  <1> QED
    BY <1>1, Invariance, PTL

\* Durability of the persistent queue: whatever copies, failures, duplicate
\* enqueues and crashes overlap, a blob whose queue.Set succeeded is in the
\* queue or on the destination.
THEOREM Durability == Spec => []RecordedNeverLost
  <1>1. IInv => RecordedNeverLost
    BY DEF IInv
  <1> QED
    BY <1>1, Invariance, PTL

\* While the server serves, a recorded blob is pending in memory or copied;
\* so is every acknowledged blob as long as nothing crashed.
THEOREM Pending == Spec => []AckedPendingOrCopied
  <1>1. IInv => AckedPendingOrCopied
    BY DEF IInv
  <1> QED
    BY <1>1, Invariance, PTL

\* The workers of the pool are never at work on the same blob.
THEOREM ExclusiveCopies == Spec => []NoDoubleCopy
  <1>1. IInv => NoDoubleCopy
    BY DEF IInv, BatchConsistent
  <1> QED
    BY <1>1, Invariance, PTL

\* setError takes a blob out of needCopy only when the destination has it.
THEOREM PendingNeverDropped == Spec => NeverDropped
  <1>1. IInv /\ [Next]_vars =>
          [up' => \A b \in needCopy \ needCopy' : b \in dst]_vars
    BY NeedCopyKept DEF IInv, Crash
  <1> QED
    BY <1>1, Invariance, PTL DEF Spec, NeverDropped

\* hourlyCompare reports no blob that was recorded when it looked at needCopy.
THEOREM CompareReportsAreReal == Spec => NoFalseCompareError
  <1>1. IInv => [CompareReports => cmpBlob \notin cmpRec]_vars
    BY DEF IInv, CompareConsistent, CompareReports
  <1> QED
    BY <1>1, Invariance, PTL DEF Spec, NoFalseCompareError
-----------------------------------------------------------------------------
(***************************************************************************)
(* bytesRemain is the sum of the sizes in needCopy.  The sum is a recursive *)
(* function on the subsets of Blobs; that it exists, and what taking one   *)
(* blob out does to it, is shown by a least counterexample.                *)
(***************************************************************************)

\* The equation that defines Bytes, for the sets of at most n blobs.
Small(n) == {S \in SUBSET Blobs : Cardinality(S) <= n}
Sums(g, D) == \A S \in D : g[S] = IF S = {} THEN 0 ELSE Size[First(S)] + g[S \ {First(S)}]

\* Taking the chosen blob out of a set leaves one blob less.
LEMMA FirstOK ==
  ASSUME NEW S \in SUBSET Blobs, S # {}
  PROVE  /\ First(S) \in S /\ S \ {First(S)} \in SUBSET Blobs
         /\ IsFiniteSet(S) /\ Cardinality(S) \in Nat /\ Cardinality(S \ {First(S)}) \in Nat
         /\ Cardinality(S \ {First(S)}) = Cardinality(S) - 1
  <1>1. First(S) \in S
    BY DEF First
  <1>2. IsFiniteSet(S)
    BY BlobsAssumption, FS_Subset
  <1>3. IsFiniteSet(S \ {First(S)}) /\ Cardinality(S \ {First(S)}) = Cardinality(S) - 1
    BY <1>1, <1>2, FS_RemoveElement
  <1> QED
    BY <1>1, <1>2, <1>3, FS_CardinalityType

\* For every n some function satisfies the equation on the sets of at most n
\* blobs: a least n without one would have an extension of its predecessor's.
LEMMA SmallSums ==
  ASSUME NEW n \in Nat
  PROVE  \E g : g \in [Small(n) -> Nat] /\ Sums(g, Small(n))
  <1> DEFINE R == {ss \in Nat \X Nat : ss[1] < ss[2]}
  <1> DEFINE Bad == {m \in Nat : ~\E g : g \in [Small(m) -> Nat] /\ Sums(g, Small(m))}
  <1>1. IsWellFoundedOn(R, Nat)
    BY NatLessThanWellFounded DEF OpToRel
  <1>2. ASSUME NEW m \in Bad PROVE \E k \in Bad : <<k, m>> \in R
    <2>1. m # 0
      <3> SUFFICES ASSUME m = 0 PROVE \E g : g \in [Small(m) -> Nat] /\ Sums(g, Small(m))
        BY <1>2
      <3> DEFINE g == [S \in Small(m) |-> 0]
      <3>1. ASSUME NEW S \in Small(m), S # {} PROVE FALSE
        <4>1. /\ S \in SUBSET Blobs /\ Cardinality(S) <= 0
          BY <3>1 DEF Small
        <4>2. /\ Cardinality(S) \in Nat /\ Cardinality(S \ {First(S)}) \in Nat
              /\ Cardinality(S \ {First(S)}) = Cardinality(S) - 1
          BY <3>1, <4>1, FirstOK
        <4> QED
          BY SMTT(30), <4>1, <4>2
      <3>2. g \in [Small(m) -> Nat] /\ Sums(g, Small(m))
        BY <3>1 DEF Sums
      <3> QED
        BY <3>2
    <2>2. m - 1 \in Nat /\ <<m - 1, m>> \in R
      BY SMTT(30), <1>2, <2>1
    <2>3. ASSUME m - 1 \notin Bad PROVE FALSE
      <3>1. PICK h : h \in [Small(m - 1) -> Nat] /\ Sums(h, Small(m - 1))
        BY <2>2, <2>3
      <3>2. ASSUME NEW S \in Small(m), S # {}
            PROVE  /\ S \ {First(S)} \in Small(m - 1) /\ S \ {First(S)} \in Small(m)
                   /\ Size[First(S)] \in Nat
        <4>1. S \in SUBSET Blobs /\ Cardinality(S) <= m
          BY <3>2 DEF Small
        <4>2. /\ First(S) \in S /\ S \ {First(S)} \in SUBSET Blobs
              /\ Cardinality(S) \in Nat /\ Cardinality(S \ {First(S)}) \in Nat
              /\ Cardinality(S \ {First(S)}) = Cardinality(S) - 1
          BY <3>2, <4>1, FirstOK
        <4>3. Cardinality(S \ {First(S)}) <= m - 1 /\ Cardinality(S \ {First(S)}) <= m
          BY SMTT(30), <1>2, <4>1, <4>2
        <4> QED
          BY <4>1, <4>2, <4>3, SizeAssumption DEF Small
      <3> DEFINE g == [S \in Small(m) |-> IF S = {} THEN 0
                                          ELSE Size[First(S)] + h[S \ {First(S)}]]
      <3>3. g \in [Small(m) -> Nat]
        <4>1. ASSUME NEW S \in Small(m), S # {} PROVE Size[First(S)] + h[S \ {First(S)}] \in Nat
          <5>1. h[S \ {First(S)}] \in Nat /\ Size[First(S)] \in Nat
            BY <3>1, <3>2, <4>1
          <5> QED
            BY SMTT(30), <5>1
        <4> QED
          BY <4>1, SMTT(30)
      <3>4. ASSUME NEW S \in Small(m - 1) PROVE S \in Small(m) /\ g[S] = h[S]
        <4>1. S \in Small(m)
          <5>1. S \in SUBSET Blobs /\ Cardinality(S) <= m - 1
            BY <3>4 DEF Small
          <5>2. Cardinality(S) \in Nat
            BY <5>1, BlobsAssumption, FS_Subset, FS_CardinalityType
          <5>3. Cardinality(S) <= m
            BY SMTT(30), <1>2, <5>1, <5>2
          <5> QED
            BY <5>1, <5>3 DEF Small
        <4> QED
          BY <3>1, <3>4, <4>1 DEF Sums
      <3>5. Sums(g, Small(m))
        <4>1. ASSUME NEW S \in Small(m)
              PROVE  g[S] = IF S = {} THEN 0 ELSE Size[First(S)] + g[S \ {First(S)}]
          <5>1. CASE S = {}
            BY <5>1
          <5>2. CASE S # {}
            <6>1. g[S] = Size[First(S)] + h[S \ {First(S)}]
              BY <5>2
            <6>2. g[S \ {First(S)}] = h[S \ {First(S)}]
              BY <3>2, <3>4, <5>2
            <6> HIDE DEF g
            <6> QED
              BY <5>2, <6>1, <6>2
          <5> QED
            BY <5>1, <5>2
        <4> HIDE DEF g
        <4> QED
          BY <4>1 DEF Sums
      <3> HIDE DEF g
      <3> QED
        BY <1>2, <3>3, <3>5
    <2> QED
      BY <2>2, <2>3
  <1> HIDE DEF R
  <1>3. Bad = {}
    <2>1. Bad \subseteq Nat
      OBVIOUS
    <2> HIDE DEF Bad
    <2> QED
      BY <1>1, <1>2, <2>1, WFMin
  <1> QED
    BY <1>3

\* So the recursive definition of Bytes has a solution, and Bytes is one.
LEMMA BytesDef ==
  \A S \in SUBSET Blobs :
      Bytes[S] = IF S = {} THEN 0 ELSE Size[First(S)] + Bytes[S \ {First(S)}]
  <1> DEFINE n == Cardinality(Blobs)
  <1>1. n \in Nat
    BY BlobsAssumption, FS_CardinalityType
  <1>2. Small(n) = SUBSET Blobs
    <2>1. \A S \in SUBSET Blobs : Cardinality(S) <= n
      BY BlobsAssumption, FS_Subset
    <2> QED
      BY <2>1 DEF Small
  <1> HIDE DEF n
  <1>3. PICK g : g \in [SUBSET Blobs -> Nat] /\ Sums(g, SUBSET Blobs)
    BY <1>1, <1>2, SmallSums
  <1>4. g = [S \in SUBSET Blobs |-> IF S = {} THEN 0 ELSE Size[First(S)] + g[S \ {First(S)}]]
    BY SMTT(30), <1>3 DEF Sums
  <1>5. Bytes = [S \in SUBSET Blobs |-> IF S = {} THEN 0 ELSE Size[First(S)] + Bytes[S \ {First(S)}]]
    BY <1>4 DEF Bytes
  <1> QED
    BY <1>5

\* A sum of sizes is a number: a least counterexample has a smaller one.
LEMMA BytesNat ==
  ASSUME NEW S \in SUBSET Blobs
  PROVE  Bytes[S] \in Nat
  <1> DEFINE R == {ss \in Nat \X Nat : ss[1] < ss[2]}
  <1> DEFINE Bad == {m \in Nat : \E T \in SUBSET Blobs : Cardinality(T) = m /\ Bytes[T] \notin Nat}
  <1>1. IsWellFoundedOn(R, Nat)
    BY NatLessThanWellFounded DEF OpToRel
  <1>2. ASSUME NEW m \in Bad PROVE \E k \in Bad : <<k, m>> \in R
    <2>1. PICK T \in SUBSET Blobs : Cardinality(T) = m /\ Bytes[T] \notin Nat
      BY <1>2
    <2>2. T # {}
      <3>1. 0 \in Nat
        BY SMTT(30)
      <3> QED
        BY <2>1, <3>1, BytesDef
    <2> DEFINE U == T \ {First(T)}
    <2>3. /\ First(T) \in T /\ U \in SUBSET Blobs /\ Cardinality(T) \in Nat
          /\ Cardinality(U) \in Nat /\ Cardinality(U) = Cardinality(T) - 1
      BY <2>2, FirstOK
    <2>4. Bytes[T] = Size[First(T)] + Bytes[U]
      BY <2>2, BytesDef
    <2> HIDE DEF U
    <2>5. Size[First(T)] \in Nat
      BY <2>3, SizeAssumption
    <2>6. Bytes[U] \notin Nat
      BY SMTT(30), <2>1, <2>4, <2>5
    <2>7. Cardinality(U) \in Bad
      BY <2>3, <2>6
    <2>8. <<Cardinality(U), m>> \in R
      BY SMTT(30), <2>1, <2>3
    <2> QED
      BY <2>7, <2>8
  <1> HIDE DEF R
  <1>3. Bad = {}
    <2>1. Bad \subseteq Nat
      OBVIOUS
    <2> HIDE DEF Bad
    <2> QED
      BY <1>1, <1>2, <2>1, WFMin
  <1>4. Cardinality(S) \in Nat
    BY BlobsAssumption, FS_Subset, FS_CardinalityType
  <1> QED
    BY <1>3, <1>4

\* The sum does not depend on the order in which First takes the blobs: any
\* blob may be taken out first.
LEMMA BytesRemove ==
  ASSUME NEW S \in SUBSET Blobs, NEW x \in S
  PROVE  Bytes[S] = Size[x] + Bytes[S \ {x}]
  <1> DEFINE R == {ss \in Nat \X Nat : ss[1] < ss[2]}
  <1> DEFINE Bad == {m \in Nat : \E T \in SUBSET Blobs : \E y \in T :
                        Cardinality(T) = m /\ Bytes[T] # Size[y] + Bytes[T \ {y}]}
  <1>1. IsWellFoundedOn(R, Nat)
    BY NatLessThanWellFounded DEF OpToRel
  <1>2. ASSUME NEW m \in Bad PROVE \E k \in Bad : <<k, m>> \in R
    <2>1. PICK T \in SUBSET Blobs : \E y \in T :
                        Cardinality(T) = m /\ Bytes[T] # Size[y] + Bytes[T \ {y}]
      BY <1>2
    <2>2. PICK y \in T : Cardinality(T) = m /\ Bytes[T] # Size[y] + Bytes[T \ {y}]
      BY <2>1
    <2> DEFINE f == First(T)
               U == T \ {f}
               V == T \ {y}
    <2>3. /\ f \in T /\ U \in SUBSET Blobs /\ V \in SUBSET Blobs
          /\ IsFiniteSet(T) /\ Cardinality(T) \in Nat
          /\ Cardinality(U) \in Nat /\ Cardinality(U) = Cardinality(T) - 1
      BY <2>2, FirstOK
    <2>4. Bytes[T] = Size[f] + Bytes[U]
      BY <2>2, BytesDef
    <2>5. y # f
      BY <2>2, <2>4
    <2>6. y \in U /\ f \in V /\ U \ {y} = V \ {f} /\ V \ {f} \in SUBSET Blobs
      BY <2>2, <2>3, <2>5
    <2>7. IsFiniteSet(V) /\ Cardinality(V) = Cardinality(T) - 1
      BY <2>2, <2>3, FS_RemoveElement
    <2>8. /\ Size[f] \in Nat /\ Size[y] \in Nat
          /\ Bytes[V \ {f}] \in Nat /\ Bytes[U] \in Nat /\ Bytes[V] \in Nat
      BY <2>2, <2>3, <2>6, SizeAssumption, BytesNat
    <2>9. Bytes[T] # Size[y] + Bytes[V]
      BY <2>2
    <2> HIDE DEF f, U, V
    <2>10. CASE Bytes[U] # Size[y] + Bytes[U \ {y}]
      <3>1. Cardinality(U) \in Bad
        BY <2>3, <2>6, <2>10
      <3>2. <<Cardinality(U), m>> \in R
        BY SMTT(30), <2>2, <2>3
      <3> QED
        BY <3>1, <3>2
    <2>11. CASE Bytes[V] # Size[f] + Bytes[V \ {f}]
      <3>1. Cardinality(V) = Cardinality(U)
        BY <2>3, <2>7
      <3>2. Cardinality(V) \in Bad
        BY <2>3, <2>6, <2>11, <3>1
      <3>3. <<Cardinality(V), m>> \in R
        BY SMTT(30), <2>2, <2>3, <3>1
      <3> QED
        BY <3>2, <3>3
    <2>12. CASE Bytes[U] = Size[y] + Bytes[U \ {y}] /\ Bytes[V] = Size[f] + Bytes[V \ {f}]
      <3>1. Bytes[U] = Size[y] + Bytes[V \ {f}]
        BY <2>6, <2>12
      <3> QED
        BY SMTT(30), <2>4, <2>8, <2>9, <2>12, <3>1
    <2> QED
      BY <2>10, <2>11, <2>12
  <1> HIDE DEF R
  <1>3. Bad = {}
    <2>1. Bad \subseteq Nat
      OBVIOUS
    <2> HIDE DEF Bad
    <2> QED
      BY <1>1, <1>2, <2>1, WFMin
  <1>4. Cardinality(S) \in Nat
    BY BlobsAssumption, FS_Subset, FS_CardinalityType
  <1> QED
    BY <1>3, <1>4

\* Adding a blob that is not in the set adds its size.
LEMMA BytesAdd ==
  ASSUME NEW S \in SUBSET Blobs, NEW x \in Blobs, x \notin S
  PROVE  Bytes[S \cup {x}] = Bytes[S] + Size[x]
  <1>1. S \cup {x} \in SUBSET Blobs /\ x \in S \cup {x} /\ (S \cup {x}) \ {x} = S
    OBVIOUS
  <1>2. Bytes[S \cup {x}] = Size[x] + Bytes[S]
    BY <1>1, BytesRemove
  <1>3. Size[x] \in Nat /\ Bytes[S] \in Nat
    BY BytesNat, SizeAssumption
  <1> QED
    BY SMTT(30), <1>2, <1>3

\* Every step changes the sum as it changes bytesRemain.
LEMMA NextSum ==
  ASSUME IInv, BytesRemainIsSum, [Next]_vars
  PROVE  BytesRemainIsSum'
  <1>0. /\ bytesRemain = Bytes[needCopy]
        /\ needCopy \in SUBSET Blobs /\ queue \in SUBSET Blobs
    BY DEF BytesRemainIsSum, IInv, TypeOK
  <1>1. ASSUME NEW r \in Receivers, AddBlobToCopy(r) PROVE BytesRemainIsSum'
    <2>1. rblob[r] \in Blobs
      BY <1>1 DEF AddBlobToCopy, IInv, TypeOK, HandsConsistent
    <2>2. CASE rblob[r] \in needCopy
      BY <1>0, <1>1, <2>2 DEF AddBlobToCopy, BytesRemainIsSum
    <2>3. CASE rblob[r] \notin needCopy
      <3>1. needCopy' = needCopy \cup {rblob[r]} /\ bytesRemain' = bytesRemain + Size[rblob[r]]
        BY <1>1, <2>3 DEF AddBlobToCopy
      <3> QED
        BY <1>0, <2>1, <2>3, <3>1, BytesAdd DEF BytesRemainIsSum
    <2> QED
      BY <2>2, <2>3
  <1>2. ASSUME NEW c \in Copiers, SetErrorNil(c) PROVE BytesRemainIsSum'
    <2>2. CASE cblob[c] \notin needCopy
      BY <1>0, <1>2, <2>2 DEF SetErrorNil, BytesRemainIsSum
    <2>3. CASE cblob[c] \in needCopy
      <3> DEFINE b == cblob[c]
      <3>1. needCopy' = needCopy \ {b} /\ bytesRemain' = bytesRemain - Size[b]
        BY <1>2, <2>3 DEF SetErrorNil
      <3>2. /\ Bytes[needCopy] = Size[b] + Bytes[needCopy \ {b}]
            /\ Size[b] \in Nat /\ Bytes[needCopy \ {b}] \in Nat
        BY <1>0, <2>3, BytesRemove, BytesNat, SizeAssumption
      <3> HIDE DEF b
      <3>3. bytesRemain' = Bytes[needCopy \ {b}]
        BY SMTT(30), <1>0, <3>1, <3>2
      <3> QED
        BY <3>1, <3>3 DEF BytesRemainIsSum
    <2> QED
      BY <2>2, <2>3
  <1>3. ASSUME NEW b \in Blobs, ReadQueueRow(b) PROVE BytesRemainIsSum'
    BY <1>0, <1>3, BytesAdd DEF ReadQueueRow, BytesRemainIsSum
  <1>4. CASE Crash
    BY <1>4, BytesDef DEF Crash, BytesRemainIsSum
  <1>5. CASE UNCHANGED <<needCopy, bytesRemain>>
    BY <1>0, <1>5 DEF BytesRemainIsSum
  <1> QED
    BY <1>1, <1>2, <1>3, <1>4, <1>5 DEF Next, ReceiverNext, CopierNext,
       LoopNext, Receive, EnqueueMissing, QueueSet, StartCopy, FetchSource,
       FetchFails, WriteDest, WriteFails, QueueDelete, SetError,
       StartRun, StartFullRun, BreakFeedWork, FinishRun, Sleep, TimerFires, QueueRead,
       HourlyCompare, CompareCheck, CompareFetch, Restart, vars

\* The byte count on the status page is exact: through duplicate enqueues,
\* failed copies, full syncs of blobs that are not pending and the rebuild
\* after a crash, bytesRemain is the sum of the sizes in needCopy.
THEOREM ByteCountExact == Spec => []BytesRemainIsSum
  <1>1. Init => BytesRemainIsSum
    BY BytesDef DEF Init, BytesRemainIsSum
  <1> QED
    BY <1>1, NextSum, Invariance, PTL DEF Spec
-----------------------------------------------------------------------------
(***************************************************************************)
(* SyncHandler implements Replication.                                     *)
(***************************************************************************)

\* Enqueues and copies are of blobs that the source has, and it keeps them.
LEMMA NextInSource ==
  ASSUME TypeOK, HandsInSource, [Next]_vars
  PROVE  HandsInSource'
  <1> USE DEF HandsInSource, TypeOK
  <1>1. ASSUME NEW r \in Receivers, NEW b \in Blobs,
               Receive(r, b) \/ EnqueueMissing(r, b)
        PROVE  HandsInSource'
    <2>1. /\ src \subseteq src' /\ b \in src' /\ UNCHANGED <<cpc, cblob>>
          /\ rblob' = [rblob EXCEPT ![r] = b] /\ rpc' = [rpc EXCEPT ![r] = "notify"]
      BY <1>1 DEF Receive, EnqueueMissing
    <2> QED BY <2>1
  <1>2. ASSUME NEW r \in Receivers, AddBlobToCopy(r) \/ QueueSet(r)
        PROVE  HandsInSource'
    BY <1>2 DEF AddBlobToCopy, QueueSet, Return
  <1>3. ASSUME NEW c \in Copiers, CopierNext(c)
        PROVE  HandsInSource'
    <2>1. UNCHANGED <<src, rpc, rblob>>
      BY <1>3 DEF CopierNext, StartCopy, FetchSource, FetchFails, WriteDest, WriteFails,
         QueueDelete, SetErrorNil, SetError
    <2>2. /\ \A d \in Copiers : d # c => cpc'[d] = cpc[d] /\ cblob'[d] = cblob[d]
          /\ cpc'[c] \in {"write", "delete", "done"} => cblob'[c] \in src
      <3>1. CASE StartCopy(c) BY <3>1 DEF StartCopy, Goto
      <3>2. CASE FetchSource(c) \/ FetchFails(c)
        BY <3>2 DEF FetchSource, FetchFails, Goto
      <3>3. CASE WriteDest(c) \/ WriteFails(c)
        BY <3>3 DEF WriteDest, WriteFails, Goto
      <3>4. CASE QueueDelete(c) BY <3>4 DEF QueueDelete, Goto
      <3>5. CASE SetErrorNil(c) \/ SetError(c)
        BY <3>5 DEF SetErrorNil, SetError, Result, Goto
      <3> QED BY <1>3, <3>1, <3>2, <3>3, <3>4, <3>5 DEF CopierNext
    <2> QED BY <2>1, <2>2
  <1>4. CASE LoopNext \/ (\E b \in Blobs : HourlyCompare(b)) \/ Restart
             \/ UNCHANGED vars
    <2>1. UNCHANGED <<src, rpc, rblob, cpc, cblob>>
      BY <1>4 DEF LoopNext, StartRun, StartFullRun, BreakFeedWork, FinishRun, Sleep, TimerFires,
         ReadQueueRow, QueueRead, HourlyCompare, CompareCheck, CompareFetch, Restart, vars
    <2> QED BY <2>1
  <1>5. CASE Crash BY <1>5 DEF Crash
  <1> QED
    BY <1>1, <1>2, <1>3, <1>4, <1>5 DEF Next, ReceiverNext

\* Storing, recording and copying are the steps of Replication; every other
\* step, a deleted row included, is invisible.
LEMMA ReplicationStep ==
  ASSUME IInv, HandsInSource, [Next]_vars
  PROVE  Promise!Next \/ UNCHANGED <<src, recorded, queue \ dst, dst>>
  <1> USE DEF IInv, TypeOK
  <1>1. ASSUME NEW r \in Receivers, NEW b \in Blobs,
               Receive(r, b) \/ EnqueueMissing(r, b)
        PROVE  Promise!Store(b) \/ UNCHANGED <<src, recorded, queue \ dst, dst>>
    BY <1>1 DEF Receive, EnqueueMissing, Promise!Store
  <1>2. ASSUME NEW r \in Receivers, QueueSet(r)
        PROVE  \/ \E b \in Blobs : Promise!Record(b)
               \/ UNCHANGED <<src, recorded, queue \ dst, dst>>
    <2>1. CASE UNCHANGED <<queue, recorded>>
      BY <1>2, <2>1 DEF QueueSet
    <2>2. CASE /\ queue' = queue \cup {rblob[r]}
               /\ recorded' = recorded \cup {rblob[r]}
      <3>1. rblob[r] \in src /\ rblob[r] \in Blobs /\ UNCHANGED <<src, dst>>
        BY <1>2 DEF QueueSet, HandsInSource
      <3>2. (queue \ dst)' = (queue \ dst) \cup ({rblob[r]} \ dst)
        BY <2>2, <3>1
      <3>3. Promise!Record(rblob[r])
        BY <2>2, <3>1, <3>2 DEF Promise!Record
      <3> QED BY <3>1, <3>3
    <2> QED BY <1>2, <2>1, <2>2 DEF QueueSet
  <1>3. ASSUME NEW c \in Copiers, WriteDest(c) \/ WriteFails(c)
        PROVE  \/ \E b \in Blobs : Promise!Copy(b)
               \/ UNCHANGED <<src, recorded, queue \ dst, dst>>
    <2>1. /\ cblob[c] \in src /\ cblob[c] \in Blobs
          /\ UNCHANGED <<src, queue, recorded>>
          /\ dst' = dst \/ dst' = dst \cup {cblob[c]}
      BY <1>3 DEF WriteDest, WriteFails, HandsInSource
    <2>2. CASE dst' = dst BY <2>1, <2>2
    <2>3. CASE dst' = dst \cup {cblob[c]}
      <3>1. (queue \ dst)' = (queue \ dst) \ {cblob[c]} BY <2>1, <2>3
      <3>2. Promise!Copy(cblob[c]) BY <2>1, <2>3, <3>1 DEF Promise!Copy
      <3> QED BY <2>1, <3>2
    <2> QED BY <2>1, <2>2, <2>3
  <1>4. ASSUME NEW c \in Copiers, QueueDelete(c)
        PROVE  UNCHANGED <<src, recorded, queue \ dst, dst>>
    <2>1. /\ cblob[c] \in dst /\ UNCHANGED <<src, dst, recorded>>
          /\ queue' = queue \/ queue' = queue \ {cblob[c]}
      BY <1>4 DEF QueueDelete, CopiedBeforeDelete
    <2>2. (queue \ dst)' = queue \ dst BY <2>1
    <2> QED BY <2>1, <2>2
  <1>5. CASE \/ \E r \in Receivers : AddBlobToCopy(r)
             \/ \E c \in Copiers : StartCopy(c) \/ FetchSource(c) \/ FetchFails(c)
                                   \/ SetErrorNil(c) \/ SetError(c)
             \/ LoopNext \/ (\E b \in Blobs : HourlyCompare(b))
             \/ Crash \/ Restart \/ UNCHANGED vars
    BY <1>5 DEF AddBlobToCopy, StartCopy, FetchSource, FetchFails, SetErrorNil,
       SetError, LoopNext, StartRun, StartFullRun, BreakFeedWork, FinishRun, Sleep, TimerFires,
       ReadQueueRow, QueueRead, HourlyCompare, CompareCheck, CompareFetch, Crash,
       Restart, vars
  <1> QED
    BY <1>1, <1>2, <1>3, <1>4, <1>5
    DEF Next, ReceiverNext, CopierNext, Promise!Next

\* Replication is what the crashing, retrying, concurrent handler looks like
\* from outside: what it records is owed until the target has it.
THEOREM SyncRefinement == Spec => Replicates
  <1>1. Init => Promise!Init /\ HandsInSource
    BY DEF Init, Promise!Init, HandsInSource
  <1>2. IInv /\ HandsInSource /\ [Next]_vars => HandsInSource'
    BY NextInSource DEF IInv
  <1>3. IInv /\ HandsInSource /\ [Next]_vars =>
          [Promise!Next]_<<src, recorded, queue \ dst, dst>>
    BY ReplicationStep
  <1> QED
    BY <1>1, <1>2, <1>3, Invariance, PTL DEF Spec, Replicates, Promise!Spec

\* Whoever relies on Replication alone knows that nothing recorded is lost
\* (RecordedNeverLost) and that the target holds only blobs of the source.
THEOREM ReplicationKeeps == Replicates => []Promise!Kept
  <1>1. Promise!Init => Promise!Kept
    BY DEF Promise!Init, Promise!Kept
  <1>2. Promise!Kept /\ [Promise!Next]_<<src, recorded, queue \ dst, dst>> =>
          Promise!Kept'
    <2> SUFFICES ASSUME Promise!Kept, [Promise!Next]_<<src, recorded, queue \ dst, dst>>
                 PROVE  Promise!Kept'
      OBVIOUS
    <2>1. ASSUME NEW b \in Blobs, Promise!Store(b) PROVE Promise!Kept'
      BY <2>1 DEF Promise!Store, Promise!Kept
    <2>2. ASSUME NEW b \in Blobs, Promise!Record(b) PROVE Promise!Kept'
      BY <2>2 DEF Promise!Record, Promise!Kept
    <2>3. ASSUME NEW b \in Blobs, Promise!Copy(b) PROVE Promise!Kept'
      BY <2>3 DEF Promise!Copy, Promise!Kept
    <2>4. CASE UNCHANGED <<src, recorded, queue \ dst, dst>>
      BY <2>4 DEF Promise!Kept
    <2> QED BY <2>1, <2>2, <2>3, <2>4 DEF Promise!Next
  <1> QED BY <1>1, <1>2, PTL DEF Replicates, Promise!Spec
=============================================================================
