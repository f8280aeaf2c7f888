-------------------------- MODULE BlobPackedProofs --------------------------
(***************************************************************************)
(* Proofs about BlobPacked: for any blobs, files, zips and clients, and    *)
(* any number of failures and crashes, an acknowledged blob that nobody    *)
(* removed can be fetched in every state, the final "w:" rows are those of *)
(* complete files, and a row that Fetch has read stays good.               *)
(*                                                                         *)
(* Most steps leave most of the state alone.  The lemma Frames says which  *)
(* steps can change what; each conjunct of the invariant is then shown for *)
(* the few steps that matter to it.                                        *)
(***************************************************************************)
EXTENDS BlobPacked, TLAPS

USE ZenonT(30) DEF disk, request, remove, read, history

\* The steps of one client that calls ReceiveBlob.
RequestStep(r) ==
    \/ \E b \in Blobs : RecvLookup(r, b)
    \/ RecvStore(r) \/ RecvFails(r) \/ PackStart(r) \/ PackFails(r)
    \/ ZipWrite(r) \/ ZipCommit(r) \/ ZipRemove(r) \/ WholeSet(r)

Committing == \E r \in Requests : ZipCommit(r)
Removing == \E m \in Removers : RemoveAct(m)
Recovering == \E mode \in {"fast", "full"} : Recover(mode)

\* What the constants say about zips and files.
LEMMA ConstFacts ==
  /\ Files \subseteq Blobs /\ None \notin Blobs /\ None \notin Zips
  /\ \A z \in Zips : Contents[z] \subseteq Blobs
  /\ \A f \in Files : /\ Len(Packs[f]) \in Nat \ {0} /\ Whole[f] \in Wholes
                      /\ \A i \in 1..Len(Packs[f]) : Packs[f][i] \in Zips
  <1>1. \A f \in Files : Packs[f] \in Seq(Zips) /\ Len(Packs[f]) \in Nat \ {0}
    BY SMT, PackedAssumption
  <1>2. \A f \in Files : \A i \in 1..Len(Packs[f]) : Packs[f][i] \in Zips
    BY SMT, <1>1
  <1> QED
    BY <1>1, <1>2, PackedAssumption DEF Wholes

\* The initial state satisfies the inductive invariant.
LEMMA InitIInv == Init => IInv
  <1> SUFFICES ASSUME Init PROVE IInv
    OBVIOUS
  <1>1. TypeOK
    BY DEF Init, TypeOK
  <1>2. RequestsOK /\ RowsOK /\ FlightOK /\ ProgressOK /\ ReadersOK
    BY DEF Init, RequestsOK, RowsOK, FlightOK, ProgressOK, ReadersOK
  <1>3. Durable /\ WholeRowsComplete /\ PackedFetchFinds
    BY DEF Init, Durable, WholeRowsComplete, PackedFetchFinds
  <1> QED
    BY <1>1, <1>2, <1>3 DEF IInv

\* What a request works on.
LEMMA RequestFacts ==
  ASSUME RequestsOK, NEW r \in Requests
  PROVE  /\ pc[r] # "idle" => req[r] \in Blobs
         /\ pc[r] \notin {"idle", "looked"} =>
              /\ req[r] \in Files /\ Whole[req[r]] \in Wholes
              /\ Len(Packs[req[r]]) \in Nat \ {0}
         /\ pc[r] \in {"zip", "written", "committed"} =>
              zi[r] \in 1..Len(Packs[req[r]]) /\ Zip(r) \in Zips
              /\ Contents[Zip(r)] \subseteq Blobs
  <1>1. /\ pc[r] # "idle" => req[r] \in Blobs
        /\ pc[r] \notin {"idle", "looked"} => req[r] \in Files
        /\ pc[r] \in {"zip", "written", "committed"} => zi[r] \in 1..Len(Packs[req[r]])
    BY DEF RequestsOK
  <1> QED
    BY <1>1, ConstFacts DEF Zip

-----------------------------------------------------------------------------
\* Frames.

\* Which steps change the storages and the index.
LEMMA Frames ==
  ASSUME [Next]_vars
  PROVE  /\ removed \subseteq removed'
         /\ DeleteZipPack \/ large \subseteq large'
         /\ Committing \/ Removing \/ Recovering \/ meta' = meta
         /\ Committing \/ Recovering \/ zrows' = zrows
         /\ Removing \/ DeleteZipPack \/ Recovering \/ drows' = drows
         /\ Removing \/ (\E r \in Requests : ZipRemove(r)) \/ small \subseteq small'
         /\ Recovering \/ (\E r \in Requests : WholeSet(r)) \/ wrows' = wrows
         /\ (\E q \in Readers : FetchRead(q)) \/ misses' = misses
  <1>1. ASSUME NEW r \in Requests, NEW b \in Blobs, RecvLookup(r, b)
        PROVE  UNCHANGED <<disk, removed, misses>>
    BY <1>1 DEF RecvLookup
  <1>2. ASSUME NEW r \in Requests, RecvStore(r)
        PROVE  UNCHANGED <<large, meta, zrows, wrows, drows, removed, misses>> /\ small \subseteq small'
    BY <1>2 DEF RecvStore
  <1>3. ASSUME NEW r \in Requests, RecvFails(r) \/ PackStart(r) \/ PackFails(r)
        PROVE  UNCHANGED <<disk, removed, misses>>
    BY <1>3 DEF RecvFails, PackStart, PackFails
  <1>4. ASSUME NEW r \in Requests, ZipWrite(r)
        PROVE  UNCHANGED <<small, meta, zrows, wrows, drows, removed, misses>> /\ large \subseteq large'
    BY <1>4 DEF ZipWrite
  <1>5. ASSUME NEW r \in Requests, ZipCommit(r)
        PROVE  UNCHANGED <<small, large, wrows, drows, removed, misses>>
    BY <1>5 DEF ZipCommit
  <1>6. ASSUME NEW r \in Requests, ZipRemove(r)
        PROVE  UNCHANGED <<large, meta, zrows, wrows, drows, removed, misses>>
    BY <1>6 DEF ZipRemove
  <1>7. ASSUME NEW r \in Requests, WholeSet(r)
        PROVE  UNCHANGED <<small, large, meta, zrows, drows, removed, misses>>
    BY <1>7 DEF WholeSet
  <1>8. ASSUME NEW m \in Removers, NEW b \in Blobs, RemoveLookup(m, b)
        PROVE  UNCHANGED <<disk, misses>> /\ removed \subseteq removed'
    BY <1>8 DEF RemoveLookup
  <1>9. ASSUME NEW m \in Removers, RemoveAct(m)
        PROVE  UNCHANGED <<large, zrows, wrows, removed, misses>>
    BY <1>9 DEF RemoveAct
  <1>10. ASSUME NEW m \in Removers, RemoveFails(m)
        PROVE  UNCHANGED <<disk, removed, misses>>
    BY <1>10 DEF RemoveFails
  <1>11. ASSUME NEW z \in Zips, ZipPartsInUse(z)
        PROVE  UNCHANGED <<disk, removed, misses>>
    BY <1>11 DEF ZipPartsInUse
  <1>12. CASE DeleteZipPack
    <2>1. UNCHANGED <<small, meta, zrows, wrows, removed, misses>>
      BY <1>12 DEF DeleteZipPack
    <2> QED
      BY <1>12, <2>1
  <1>13. ASSUME NEW q \in Readers, NEW b \in Blobs, FetchLookup(q, b)
        PROVE  UNCHANGED <<disk, removed, misses>>
    BY <1>13 DEF FetchLookup
  <1>14. ASSUME NEW q \in Readers, FetchRead(q)
        PROVE  UNCHANGED <<disk, removed>>
    BY <1>14 DEF FetchRead
  <1>15. ASSUME Crash \/ Restart
        PROVE  UNCHANGED <<disk, removed, misses>>
    BY <1>15 DEF Crash, Restart
  <1>16. ASSUME NEW mode \in {"fast", "full"}, Recover(mode)
        PROVE  UNCHANGED <<small, large, removed, misses>>
    BY <1>16 DEF Recover
  <1>17. CASE UNCHANGED vars
    BY <1>17 DEF vars
  <1> QED
    BY <1>1, <1>2, <1>3, <1>4, <1>5, <1>6, <1>7, <1>8, <1>9, <1>10, <1>11, <1>12,
       <1>13, <1>14, <1>15, <1>16, <1>17 DEF Next, Committing, Removing, Recovering

\* Which steps change what the clients remember.
LEMMA ClientFrames ==
  ASSUME [Next]_vars
  PROVE  /\ (\E r \in Requests : RequestStep(r)) \/ Crash \/ UNCHANGED <<request, acked>>
         /\ \/ \E m \in Removers : RemoveFails(m) \/ \E b \in Blobs : RemoveLookup(m, b)
            \/ Removing \/ Crash \/ UNCHANGED remove
         /\ (\E z \in Zips : ZipPartsInUse(z)) \/ dzip' = dzip \/ dzip' = None
         /\ Crash \/ up' = up \/ up' = "up"
         /\ \/ \E q \in Readers : FetchRead(q) \/ \E b \in Blobs : FetchLookup(q, b)
            \/ Crash \/ UNCHANGED read
         /\ acked' = acked \/ \E r \in Requests : RequestStep(r)
  <1>1. ASSUME NEW r \in Requests, RequestStep(r)
        PROVE  UNCHANGED <<remove, dzip, up, read>>
    BY <1>1 DEF RequestStep, RecvLookup, RecvStore, RecvFails, PackStart, PackFails,
         ZipWrite, ZipCommit, ZipRemove, WholeSet
  <1>2. ASSUME NEW m \in Removers,
               RemoveFails(m) \/ RemoveAct(m) \/ \E b \in Blobs : RemoveLookup(m, b)
        PROVE  UNCHANGED <<request, dzip, up, read, acked>>
    BY <1>2 DEF RemoveFails, RemoveAct, RemoveLookup
  <1>3. ASSUME NEW z \in Zips, ZipPartsInUse(z)
        PROVE  UNCHANGED <<request, remove, up, read, acked>>
    BY <1>3 DEF ZipPartsInUse
  <1>4. ASSUME DeleteZipPack
        PROVE  UNCHANGED <<request, remove, up, read, acked>> /\ dzip' = None
    BY <1>4 DEF DeleteZipPack
  <1>5. ASSUME NEW q \in Readers, FetchRead(q) \/ \E b \in Blobs : FetchLookup(q, b)
        PROVE  UNCHANGED <<request, remove, up, dzip, acked>>
    BY <1>5 DEF FetchRead, FetchLookup
  <1>6. ASSUME Crash
        PROVE  dzip' = None /\ acked' = acked
    BY <1>6 DEF Crash
  <1>7. ASSUME Restart \/ Recovering
        PROVE  UNCHANGED <<request, remove, read, dzip, acked>> /\ up' = "up"
    BY <1>7 DEF Restart, Recovering, Recover
  <1>8. CASE UNCHANGED vars
    BY <1>8 DEF vars
  <1> QED
    BY <1>1, <1>2, <1>3, <1>4, <1>5, <1>6, <1>7, <1>8
    DEF Next, RequestStep, Removing, Recovering

\* Every step keeps the state well typed.
LEMMA NextTypeOK ==
  ASSUME TypeOK, RequestsOK, [Next]_vars
  PROVE  TypeOK'
  <1>1. ASSUME NEW r \in Requests, NEW b \in Blobs, RecvLookup(r, b)
        PROVE  TypeOK'
    BY <1>1 DEF RecvLookup, TypeOK
  <1>2. ASSUME NEW r \in Requests, RecvStore(r)
        PROVE  TypeOK'
    <2>1. acked' \subseteq Blobs /\ small' \subseteq Blobs
      BY SMT, <1>2, RequestFacts DEF RecvStore, Ack, TypeOK
    <2>2. \/ pc' = [pc EXCEPT ![r] = "gate"]
          \/ pc' = [pc EXCEPT ![r] = "idle"]
      BY <1>2 DEF RecvStore, Ack
    <2> QED
      BY <1>2, <2>1, <2>2 DEF RecvStore, TypeOK
  <1>3. ASSUME NEW r \in Requests, RecvFails(r)
        PROVE  TypeOK'
    BY <1>3 DEF RecvFails, TypeOK
  <1>4. ASSUME NEW r \in Requests, PackStart(r)
        PROVE  TypeOK'
    <2>0. req[r] \in Blobs
      BY <1>4, RequestFacts DEF PackStart
    <2>3. /\ acked' = acked \/ acked' = acked \cup {req[r]}
          /\ zi' = zi \/ zi' = [zi EXCEPT ![r] = 1]
      BY <1>4 DEF PackStart, Ack
    <2>1. acked' \subseteq Blobs /\ zi' \in [Requests -> Nat]
      BY SMT, <2>0, <2>3 DEF TypeOK
    <2>2. \/ pc' = [pc EXCEPT ![r] = "zip"]
          \/ pc' = [pc EXCEPT ![r] = "idle"]
      BY <1>4 DEF PackStart, Ack
    <2> QED
      BY <1>4, <2>1, <2>2 DEF PackStart, TypeOK
  <1>5. ASSUME NEW r \in Requests, PackFails(r)
        PROVE  TypeOK'
    BY <1>5, RequestFacts DEF PackFails, Ack, TypeOK
  <1>6. ASSUME NEW r \in Requests, ZipWrite(r)
        PROVE  TypeOK'
    BY <1>6, RequestFacts DEF ZipWrite, TypeOK
  <1>7. ASSUME NEW r \in Requests, ZipCommit(r)
        PROVE  TypeOK'
    BY <1>7, RequestFacts DEF ZipCommit, TypeOK
  <1>8. ASSUME NEW r \in Requests, ZipRemove(r)
        PROVE  TypeOK'
    <2>1. small' \subseteq small
      BY <1>8 DEF ZipRemove
    <2>2. \/ pc' = [pc EXCEPT ![r] = "zip"]
          \/ pc' = [pc EXCEPT ![r] = "whole"]
      BY <1>8 DEF ZipRemove
    <2>3. zi' = zi \/ zi' = [zi EXCEPT ![r] = @ + 1]
      BY <1>8 DEF ZipRemove
    <2>5. zi \in [Requests -> Nat]
      BY DEF TypeOK
    <2>4. zi' \in [Requests -> Nat]
      <3>1. zi[r] + 1 \in Nat
        BY SMT, <2>5
      <3> QED
        BY <2>3, <2>5, <3>1, Zenon
    <2> QED
      BY <1>8, <2>1, <2>2, <2>4, Zenon DEF ZipRemove, TypeOK
  <1>9. ASSUME NEW r \in Requests, WholeSet(r)
        PROVE  TypeOK'
    BY <1>9, RequestFacts DEF WholeSet, Ack, TypeOK
  <1>10. ASSUME NEW m \in Removers, NEW b \in Blobs, RemoveLookup(m, b)
        PROVE  TypeOK'
    BY <1>10 DEF RemoveLookup, TypeOK
  <1>11. ASSUME NEW m \in Removers, RemoveAct(m)
        PROVE  TypeOK'
    BY SMT, <1>11 DEF RemoveAct, TypeOK
  <1>12. ASSUME NEW m \in Removers, RemoveFails(m)
        PROVE  TypeOK'
    BY <1>12 DEF RemoveFails, TypeOK
  <1>13. ASSUME NEW z \in Zips, ZipPartsInUse(z)
        PROVE  TypeOK'
    BY <1>13 DEF ZipPartsInUse, TypeOK
  <1>14. CASE DeleteZipPack
    BY <1>14 DEF DeleteZipPack, TypeOK
  <1>15. ASSUME NEW q \in Readers, NEW b \in Blobs, FetchLookup(q, b)
        PROVE  TypeOK'
    BY <1>15 DEF FetchLookup, TypeOK
  <1>16. ASSUME NEW q \in Readers, FetchRead(q)
        PROVE  TypeOK'
    BY <1>16 DEF FetchRead, TypeOK
  <1>17. CASE Crash
    BY <1>17 DEF Crash, TypeOK
  <1>18. CASE Restart
    BY <1>18 DEF Restart, TypeOK
  <1>19. ASSUME NEW mode \in {"fast", "full"}, Recover(mode)
        PROVE  TypeOK'
    BY <1>19 DEF Recover, TypeOK
  <1>20. CASE UNCHANGED vars
    BY <1>20 DEF vars, TypeOK
  <1> QED
    BY <1>1, <1>2, <1>3, <1>4, <1>5, <1>6, <1>7, <1>8, <1>9, <1>10, <1>11, <1>12, <1>13, <1>14, <1>15, <1>16, <1>17, <1>18, <1>19, <1>20 DEF Next

-----------------------------------------------------------------------------
\* Stability.

\* A zip leaves large only when everything in it was removed.
LEMMA ZipStable ==
  ASSUME RequestsOK, [Next]_vars, NEW y \in Zips, ZipOK(y)
  PROVE  ZipOK(y)'
  <1>1. CASE DeleteZipPack
    <2>1. large' = large \ {dzip} /\ Contents[dzip] \subseteq removed
      BY <1>1 DEF DeleteZipPack, RequestsOK
    <2> QED
      BY <2>1, Frames DEF ZipOK
  <1>2. CASE large \subseteq large'
    BY <1>2, Frames DEF ZipOK
  <1> QED
    BY <1>1, <1>2, Frames

\* What a packer has committed has rows.
LEMMA CommittedRow ==
  ASSUME RequestsOK, ProgressOK, NEW r \in Requests, pc[r] = "committed"
  PROVE  Zip(r) \in zrows
  <1>1. zi[r] \in 1..Len(Packs[req[r]]) /\ Len(Packs[req[r]]) \in Nat
    BY RequestFacts
  <1>2. zi[r] <= zi[r]
    BY SMT, <1>1
  <1> QED
    BY <1>1, <1>2 DEF ProgressOK, Zip

\* RemoveAct touches the rows and the small copy of a removed blob only.
LEMMA RemoveFacts ==
  ASSUME TypeOK, RequestsOK, NEW m \in Removers, RemoveAct(m)
  PROVE  /\ mreq[m] \in removed /\ removed' = removed
         /\ mrow[m] # None => mrow[m] \in zrows
         /\ large' = large /\ zrows' = zrows
         /\ drows' = drows \/ (mrow[m] # None /\ drows' = drows \cup {mrow[m]})
         /\ \A x \in Blobs : meta'[x] = meta[x] \/ meta'[x] = None
         /\ \A x \in Blobs : x # mreq[m] => meta'[x] = meta[x]
         /\ \A x \in Blobs : x # mreq[m] /\ x \in small => x \in small'
  <1>1. /\ mreq[m] \in removed
        /\ mrow[m] # None => mrow[m] \in zrows
    BY DEF RemoveAct, RequestsOK
  <1>2. /\ large' = large /\ zrows' = zrows /\ removed' = removed
        /\ drows' = drows \/ (mrow[m] # None /\ drows' = drows \cup {mrow[m]})
        /\ meta' = meta \/ meta' = [meta EXCEPT ![mreq[m]] = None]
        /\ small' = small \/ small' = small \ {mreq[m]}
    BY DEF RemoveAct
  <1>3. meta \in [Blobs -> Zips \cup {None}]
    BY DEF TypeOK
  <1> QED
    BY <1>1, <1>2, <1>3

\* Recovery gives a blob the row of a zip that has it, and keeps or drops
\* the row of a blob that no zip has.
LEMMA RecoverFacts ==
  ASSUME NEW mode \in {"fast", "full"}, Recover(mode)
  PROVE  /\ UNCHANGED <<small, large, removed, request, remove>>
         /\ \A x \in Blobs :
              LET zs == {z \in large : x \in Contents[z]} IN
              /\ zs # {} => meta'[x] \in zs
              /\ zs = {} => meta'[x] = None \/ (meta'[x] = meta[x] /\ mode = "fast")
         /\ zrows' = large \cup (IF mode = "fast" THEN zrows ELSE {})
         /\ drows' \subseteq drows /\ (drows' = {} \/ mode = "fast")
         /\ up = "down"
  <1> DEFINE packed == {b \in Blobs : \E z \in large : b \in Contents[z]}
  <1>1. PICK last \in [packed -> large] :
        /\ \A b \in packed : b \in Contents[last[b]]
        /\ meta' = [b \in Blobs |-> IF b \in packed THEN last[b]
                                   ELSE IF mode = "fast" THEN meta[b] ELSE None]
    BY DEF Recover
  <1>2. /\ UNCHANGED <<small, large, removed, request, remove>>
        /\ zrows' = large \cup (IF mode = "fast" THEN zrows ELSE {})
        /\ drows' \subseteq drows /\ (drows' = {} \/ mode = "fast")
        /\ up = "down"
    BY DEF Recover
  <1>3. \A x \in Blobs :
              LET zs == {z \in large : x \in Contents[z]} IN
              /\ zs # {} => meta'[x] \in zs
              /\ zs = {} => meta'[x] = None \/ (meta'[x] = meta[x] /\ mode = "fast")
    BY <1>1
  <1> QED
    BY <1>2, <1>3

\* A row that is wanted leads to its zip.
LEMMA RowReadable ==
  ASSUME RowsOK, NEW x \in Blobs, x \notin removed, meta[x] # None
  PROVE  meta[x] \in zrows /\ meta[x] \in large /\ x \in Contents[meta[x]]
  BY DEF RowsOK, ZipOK

\* A row that is wanted is never taken away, only replaced.
LEMMA RowStable ==
  ASSUME TypeOK, RequestsOK, RowsOK, [Next]_vars,
         NEW x \in Blobs, x \notin removed', meta[x] # None
  PROVE  meta'[x] # None
  <1>0. /\ removed \subseteq removed' /\ meta[x] \in large /\ large \subseteq Zips
        /\ x \in Contents[meta[x]]
    BY Frames, RowReadable DEF TypeOK
  <1>1. ASSUME NEW r \in Requests, ZipCommit(r)
        PROVE  meta'[x] # None
    <2>1. Zip(r) # None
      BY <1>1, RequestFacts, ConstFacts DEF ZipCommit
    <2>2. meta'[x] = meta[x] \/ meta'[x] = Zip(r)
      BY <1>1 DEF ZipCommit
    <2> QED
      BY <2>1, <2>2
  <1>2. ASSUME NEW m \in Removers, RemoveAct(m)
        PROVE  meta'[x] # None
    <2>1. x # mreq[m] /\ meta'[x] = meta[x]
      BY <1>0, <1>2, RemoveFacts
    <2> QED
      BY <2>1
  <1>3. ASSUME NEW mode \in {"fast", "full"}, Recover(mode)
        PROVE  meta'[x] # None
    <2>1. meta'[x] \in large
      BY <1>0, <1>3, RecoverFacts
    <2> QED
      BY <1>0, <2>1, ConstFacts
  <1> QED
    BY <1>1, <1>2, <1>3, Frames DEF Committing, Removing, Recovering

\* What Fetch finds it finds after every step, unless somebody removed it.
LEMMA ReadableStable ==
  ASSUME TypeOK, RequestsOK, RowsOK, FlightOK, ProgressOK, [Next]_vars,
         NEW x \in Blobs, x \notin removed', Readable(x)
  PROVE  Readable(x)'
  <1>0. removed \subseteq removed' /\ x \notin removed
    BY Frames
  <1>1. CASE meta[x] # None
    <2>1. meta[x] \in large /\ meta[x] \in zrows /\ x \in Contents[meta[x]]
      BY <1>0, <1>1, RowReadable
    <2>2. meta[x] \in Zips
      BY SMT, <1>1 DEF TypeOK
    <2>3. meta[x] \in large'
      BY <1>0, <2>1, <2>2, ZipStable DEF ZipOK
    <2>4. CASE meta'[x] = meta[x]
      BY <1>1, <2>3, <2>4 DEF Readable
    <2>5. ASSUME NEW r \in Requests, ZipCommit(r), x \in Contents[Zip(r)]
          PROVE  Readable(x)'
      <3>1. Zip(r) \in large /\ large' = large /\ Zip(r) \in Zips
        BY <1>0, <2>5, RequestFacts DEF ZipCommit, FlightOK, ZipOK
      <3>2. meta'[x] = Zip(r)
        BY <2>5 DEF ZipCommit
      <3> QED
        BY <3>1, <3>2, ConstFacts DEF Readable
    <2>6. ASSUME NEW m \in Removers, RemoveAct(m)
          PROVE  meta'[x] = meta[x]
      BY <1>0, <2>6, RemoveFacts
    <2>7. ASSUME NEW mode \in {"fast", "full"}, Recover(mode)
          PROVE  Readable(x)'
      <3>1. meta'[x] \in large /\ large' = large /\ large \subseteq Zips
        BY <2>1, <2>7, RecoverFacts DEF TypeOK
      <3> QED
        BY <3>1, ConstFacts DEF Readable
    <2>8. ASSUME NEW r \in Requests, ZipCommit(r), x \notin Contents[Zip(r)]
          PROVE  meta'[x] = meta[x]
      BY <2>8 DEF ZipCommit
    <2> QED
      BY <2>4, <2>5, <2>6, <2>7, <2>8, Frames DEF Committing, Removing, Recovering
  <1>2. CASE meta[x] = None
    <2>0. x \in small
      BY <1>2 DEF Readable
    <2>1. ASSUME NEW r \in Requests, ZipCommit(r)
          PROVE  Readable(x)'
      <3>1. CASE x \in Contents[Zip(r)]
        <4>1. Zip(r) \in large /\ large' = large /\ Zip(r) \in Zips
          BY <1>0, <2>1, <3>1, RequestFacts DEF ZipCommit, FlightOK, ZipOK
        <4>2. meta'[x] = Zip(r)
          BY <2>1, <3>1 DEF ZipCommit
        <4> QED
          BY <4>1, <4>2, ConstFacts DEF Readable
      <3>2. CASE x \notin Contents[Zip(r)]
        <4>1. meta'[x] = None /\ small' = small
          BY <1>2, <2>1, <3>2 DEF ZipCommit
        <4> QED
          BY <2>0, <4>1 DEF Readable
      <3> QED
        BY <3>1, <3>2
    <2>2. ASSUME NEW m \in Removers, RemoveAct(m)
          PROVE  Readable(x)'
      <3>1. meta'[x] = None /\ x \in small'
        BY <1>0, <1>2, <2>0, <2>2, RemoveFacts
      <3> QED
        BY <3>1 DEF Readable
    <2>3. ASSUME NEW mode \in {"fast", "full"}, Recover(mode)
          PROVE  Readable(x)'
      <3>1. /\ meta'[x] = None \/ meta'[x] \in large
            /\ large' = large /\ small' = small /\ large \subseteq Zips
        BY <1>2, <2>3, RecoverFacts DEF TypeOK
      <3> QED
        BY <2>0, <3>1, ConstFacts DEF Readable
    <2>4. ASSUME NEW r \in Requests, ZipRemove(r)
          PROVE  x \in small'
      <3>1. Zip(r) \in zrows
        BY <2>4, CommittedRow DEF ZipRemove
      <3>2. x \notin Contents[Zip(r)]
        BY <1>0, <1>2, <3>1 DEF RowsOK
      <3> QED
        BY <2>0, <2>4, <3>2 DEF ZipRemove
    <2>5. CASE meta' = meta /\ x \in small'
      BY <1>2, <2>5 DEF Readable
    <2>6. ASSUME NEW r \in Requests, ZipRemove(r)
          PROVE  meta' = meta
      BY <2>6 DEF ZipRemove
    <2> QED
      BY <2>0, <2>1, <2>2, <2>3, <2>4, <2>5, <2>6, Frames
      DEF Committing, Removing, Recovering
  <1> QED
    BY <1>1, <1>2

-----------------------------------------------------------------------------
\* The conjuncts of the invariant.

\* A request moves along alone.
LEMMA RequestOthers ==
  ASSUME TypeOK, NEW r \in Requests, RequestStep(r)
  PROVE  /\ \A k \in Requests : k # r =>
              pc'[k] = pc[k] /\ req'[k] = req[k] /\ zi'[k] = zi[k] /\ had'[k] = had[k]
         /\ acked' = acked \/ acked' = acked \cup {req[r]}
  <1>0. /\ pc \in [Requests -> {"idle", "looked", "gate", "zip", "written",
                                "committed", "whole"}]
        /\ req \in [Requests -> Blobs \cup {None}]
        /\ had \in [Requests -> {"row", "norow"}] /\ zi \in [Requests -> Nat]
    BY DEF TypeOK
  <1> DEFINE Moved ==
               /\ \E v : pc' = [pc EXCEPT ![r] = v]
               /\ \E v : req' = [req EXCEPT ![r] = v]
               /\ \E v : had' = [had EXCEPT ![r] = v]
               /\ \E v : zi' = [zi EXCEPT ![r] = v]
               /\ acked' = acked \/ acked' = acked \cup {req[r]}
  <1>1. Moved
    <2>0. /\ pc = [pc EXCEPT ![r] = pc[r]] /\ req = [req EXCEPT ![r] = req[r]]
          /\ had = [had EXCEPT ![r] = had[r]] /\ zi = [zi EXCEPT ![r] = zi[r]]
      BY <1>0
    <2>1. ASSUME NEW b \in Blobs, RecvLookup(r, b) PROVE Moved
      BY <2>0, <2>1 DEF RecvLookup
    <2>2. CASE RecvStore(r)
      <3>1. /\ pc' = [pc EXCEPT ![r] = "gate"] \/ pc' = [pc EXCEPT ![r] = "idle"]
            /\ req' = req /\ had' = had /\ zi' = zi
            /\ acked' = acked \/ acked' = acked \cup {req[r]}
        BY <2>2 DEF RecvStore, Ack
      <3> QED
        BY <2>0, <3>1, Zenon
    <2>3. CASE RecvFails(r)
      BY <2>0, <2>3 DEF RecvFails
    <2>4. CASE PackStart(r)
      <3>1. /\ pc' = [pc EXCEPT ![r] = "zip"] \/ pc' = [pc EXCEPT ![r] = "idle"]
            /\ req' = req /\ had' = had /\ (zi' = zi \/ zi' = [zi EXCEPT ![r] = 1])
            /\ acked' = acked \/ acked' = acked \cup {req[r]}
        BY <2>4 DEF PackStart, Ack
      <3> QED
        BY <2>0, <3>1, Zenon
    <2>5. CASE PackFails(r)
      BY <2>0, <2>5, Zenon DEF PackFails, Ack
    <2>6. CASE ZipWrite(r) \/ ZipCommit(r)
      BY <2>0, <2>6, Zenon DEF ZipWrite, ZipCommit
    <2>7. CASE ZipRemove(r)
      BY <2>0, <2>7, Zenon DEF ZipRemove
    <2>8. CASE WholeSet(r)
      BY <2>0, <2>8, Zenon DEF WholeSet, Ack
    <2> QED
      BY <2>1, <2>2, <2>3, <2>4, <2>5, <2>6, <2>7, <2>8 DEF RequestStep
  <1> QED
    BY <1>0, <1>1

\* Where a request goes.
LEMMA RequestOwn ==
  ASSUME TypeOK, NEW r \in Requests, RequestStep(r)
  PROVE  \/ pc[r] = "idle" /\ pc'[r] = "looked" /\ req'[r] \in Blobs
            /\ UNCHANGED <<disk, removed>>
            /\ (had'[r] = "row" => meta[req'[r]] # None)
         \/ pc[r] # "idle" /\ pc'[r] = "idle" /\ req' = req
         \/ RecvStore(r) /\ pc[r] = "looked" /\ pc'[r] = "gate" /\ req' = req /\ req[r] \in Files
         \/ pc[r] = "gate" /\ pc'[r] = "zip" /\ req' = req /\ zi'[r] = 1 /\ zrows' = zrows
         \/ ZipWrite(r) /\ pc[r] = "zip" /\ pc'[r] = "written" /\ req' = req /\ zi' = zi
         \/ ZipCommit(r) /\ pc[r] = "written" /\ pc'[r] = "committed" /\ req' = req /\ zi' = zi
         \/ pc[r] = "committed" /\ pc'[r] = "zip" /\ req' = req /\ zi'[r] = zi[r] + 1
            /\ zi[r] < Len(Packs[req[r]]) /\ zrows' = zrows
         \/ pc[r] = "committed" /\ pc'[r] = "whole" /\ req' = req /\ zi' = zi
            /\ ~(zi[r] < Len(Packs[req[r]])) /\ zrows' = zrows
  <1>0. /\ pc \in [Requests -> {"idle", "looked", "gate", "zip", "written",
                                "committed", "whole"}]
        /\ req \in [Requests -> Blobs \cup {None}]
        /\ had \in [Requests -> {"row", "norow"}] /\ zi \in [Requests -> Nat]
    BY DEF TypeOK
  <1>1. ASSUME NEW b \in Blobs, RecvLookup(r, b)
        PROVE  pc[r] = "idle" /\ pc'[r] = "looked" /\ req'[r] \in Blobs
            /\ UNCHANGED <<disk, removed>>
            /\ (had'[r] = "row" => meta[req'[r]] # None)
    BY <1>0, <1>1 DEF RecvLookup
  <1>2. CASE RecvStore(r)
    BY <1>0, <1>2 DEF RecvStore, Ack
  <1>3. CASE RecvFails(r)
    BY <1>0, <1>3 DEF RecvFails
  <1>4. CASE PackStart(r)
    BY <1>0, <1>4 DEF PackStart, Ack
  <1>5. CASE PackFails(r)
    BY <1>0, <1>5 DEF PackFails, Ack
  <1>6. CASE ZipWrite(r)
    <2>1. pc[r] = "zip" /\ pc'[r] = "written" /\ req' = req /\ zi' = zi
      BY <1>0, <1>6 DEF ZipWrite
    <2> QED
      BY <1>6, <2>1
  <1>7. CASE ZipCommit(r)
    <2>1. pc[r] = "written" /\ pc'[r] = "committed" /\ req' = req /\ zi' = zi
      BY <1>0, <1>7 DEF ZipCommit
    <2> QED
      BY <1>7, <2>1
  <1>8. CASE ZipRemove(r)
    <2>1. pc[r] = "committed" /\ req' = req /\ zrows' = zrows
      BY <1>8 DEF ZipRemove
    <2>2. \/ zi[r] < Len(Packs[req[r]]) /\ pc' = [pc EXCEPT ![r] = "zip"]
             /\ zi' = [zi EXCEPT ![r] = @ + 1]
          \/ ~(zi[r] < Len(Packs[req[r]])) /\ pc' = [pc EXCEPT ![r] = "whole"] /\ zi' = zi
      BY <1>8 DEF ZipRemove
    <2> QED
      BY <1>0, <2>1, <2>2
  <1>9. CASE WholeSet(r)
    BY <1>0, <1>9 DEF WholeSet, Ack
  <1> QED
    BY <1>1, <1>2, <1>3, <1>4, <1>5, <1>6, <1>7, <1>8, <1>9 DEF RequestStep

\* Requests have blobs, packers have a zip.
LEMMA NextRequestsOK ==
  ASSUME TypeOK, RequestsOK, RowsOK, [Next]_vars
  PROVE  RequestsOK'
  <1> DEFINE ReqOK(r) == /\ pc[r] # "idle" => req[r] \in Blobs
                         /\ pc[r] \notin {"idle", "looked"} => req[r] \in Files
                         /\ pc[r] \in {"zip", "written", "committed"} =>
                              zi[r] \in 1..Len(Packs[req[r]])
             RemOK(m) == mpc[m] # "idle" => /\ mreq[m] \in removed
                                            /\ mrow[m] # None => mrow[m] \in zrows
  <1>1. \A r \in Requests : ReqOK(r)'
    <2>1. \A r \in Requests : ReqOK(r)
      BY DEF RequestsOK
    <2>2. ASSUME NEW r \in Requests, RequestStep(r)
          PROVE  ReqOK(r)'
      <3>1. pc[r] \notin {"idle", "looked"} => Len(Packs[req[r]]) \in Nat \ {0}
        BY RequestFacts
      <3>2. pc[r] = "committed" => zi[r] \in Nat
        BY SMT, RequestFacts
      <3> QED
        BY SMT, <2>1, <2>2, <3>1, <3>2, RequestOwn, ConstFacts
    <2>3. ASSUME NEW r \in Requests, RequestStep(r), NEW k \in Requests, k # r
          PROVE  ReqOK(k)'
      BY <2>1, <2>3, RequestOthers
    <2>4. CASE Crash
      BY <2>4 DEF Crash
    <2>5. CASE UNCHANGED request
      BY <2>1, <2>5
    <2> QED
      BY <2>2, <2>3, <2>4, <2>5, ClientFrames
  <1>2. \A m \in Removers : RemOK(m)'
    <2>1. \A m \in Removers : RemOK(m)
      BY DEF RequestsOK
    <2>2. ASSUME NEW m \in Removers, NEW b \in Blobs, RemoveLookup(m, b), NEW k \in Removers
          PROVE  RemOK(k)'
      <3>1. /\ zrows' = zrows /\ removed' = removed \cup {b} /\ mreq' = [mreq EXCEPT ![m] = b]
            /\ mrow' = [mrow EXCEPT ![m] = meta[b]] /\ mpc' = [mpc EXCEPT ![m] = "looked"]
        BY <2>2 DEF RemoveLookup
      <3>2. meta[b] # None => meta[b] \in zrows
        BY DEF RowsOK
      <3>3. /\ mreq \in [Removers -> Blobs \cup {None}] /\ mrow \in [Removers -> Zips \cup {None}]
            /\ mpc \in [Removers -> {"idle", "looked"}]
        BY DEF TypeOK
      <3> QED
        BY <2>1, <3>1, <3>2, <3>3
    <2>3. ASSUME NEW m \in Removers, RemoveAct(m) \/ RemoveFails(m)
          PROVE  /\ mpc' = [mpc EXCEPT ![m] = "idle"] /\ mreq' = mreq /\ mrow' = mrow
                 /\ zrows' = zrows /\ removed' = removed
      BY <2>3 DEF RemoveAct, RemoveFails
    <2>4. ASSUME NEW m \in Removers, RemoveAct(m) \/ RemoveFails(m), NEW k \in Removers
          PROVE  RemOK(k)'
      <3>1. mpc \in [Removers -> {"idle", "looked"}]
        BY DEF TypeOK
      <3> QED
        BY <2>1, <2>3, <2>4, <3>1
    <2>5. CASE Crash
      BY <2>5 DEF Crash
    <2>6. CASE UNCHANGED remove /\ zrows \subseteq zrows'
      BY <2>1, <2>6, Frames
    <2>7. ASSUME NEW mode \in {"fast", "full"}, Recover(mode)
          PROVE  \A m \in Removers : RemOK(m)'
      BY <2>7, RecoverFacts DEF RequestsOK
    <2>8. ASSUME NEW r \in Requests, ZipCommit(r)
          PROVE  zrows \subseteq zrows'
      BY <2>8 DEF ZipCommit
    <2> QED
      BY <2>2, <2>4, <2>5, <2>6, <2>7, <2>8, Frames, ClientFrames
      DEF Removing, Committing, Recovering
  <1>3. dzip' # None => Contents[dzip'] \subseteq removed'
    <2>1. ASSUME NEW z \in Zips, ZipPartsInUse(z)
          PROVE  dzip' = z /\ Contents[z] \subseteq removed
      <3>1. z \in zrows /\ ZipOK(z)
        BY <2>1 DEF ZipPartsInUse, RowsOK
      <3> QED
        BY <2>1, <3>1 DEF ZipPartsInUse, RowsOK, ZipOK
    <2>2. dzip # None => Contents[dzip] \subseteq removed
      BY DEF RequestsOK
    <2> QED
      BY <2>1, <2>2, Frames, ClientFrames
  <1>4. up' = "down" => (\A r \in Requests : pc'[r] = "idle") /\ \A m \in Removers : mpc'[m] = "idle"
    <2>1. CASE Crash
      BY <2>1 DEF Crash
    <2>2. ASSUME up' = up, up = "down", ~Crash
          PROVE  UNCHANGED <<pc, mpc>>
      <3>0. /\ \A r \in Requests : pc[r] = "idle"
            /\ \A m \in Removers : mpc[m] = "idle"
        BY <2>2 DEF RequestsOK
      <3>1. ~ \E r \in Requests : RequestStep(r)
        BY <2>2, <3>0 DEF RequestStep, RecvLookup, RecvStore, RecvFails, PackStart,
           PackFails, ZipWrite, ZipCommit, ZipRemove, WholeSet
      <3>2. \A m \in Removers : ~RemoveFails(m) /\ ~RemoveAct(m)
                               /\ \A b \in Blobs : ~RemoveLookup(m, b)
        BY <2>2, <3>0 DEF RemoveFails, RemoveAct, RemoveLookup
      <3> QED
        BY <2>2, <3>1, <3>2, ClientFrames DEF Removing
    <2> QED
      BY <2>1, <2>2, ClientFrames DEF RequestsOK
  <1> QED
    BY <1>1, <1>2, <1>3, <1>4 DEF RequestsOK

\* The rows go on agreeing with each other and with large.
LEMMA NextRowsOK ==
  ASSUME TypeOK, RequestsOK, RowsOK, FlightOK, [Next]_vars
  PROVE  RowsOK'
  <1>0. /\ removed \subseteq removed'
        /\ \A y \in Zips : ZipOK(y) => ZipOK(y)'
        /\ \A x \in Blobs : x \notin removed' /\ meta[x] # None => meta'[x] # None
    BY Frames, ZipStable, RowStable
  <1>00. /\ \A x \in Blobs : meta[x] # None => meta[x] \in zrows /\ x \in Contents[meta[x]]
         /\ \A z \in zrows : ZipOK(z) /\ \A x \in Contents[z] : meta[x] # None \/ x \in removed
         /\ drows \subseteq zrows
    BY DEF RowsOK
  <1>01. \A z \in zrows : z \in Zips /\ Contents[z] \subseteq Blobs
    BY ConstFacts DEF TypeOK
  <1>02. ASSUME NEW z \in zrows
         PROVE  ZipOK(z)' /\ \A x \in Contents[z] : meta'[x] # None \/ x \in removed'
    BY <1>0, <1>00, <1>01
  <1>1. ASSUME NEW r \in Requests, ZipCommit(r)
        PROVE  RowsOK'
    <2>1. PICK y \in Zips : y = Zip(r)
      BY <1>1, RequestFacts DEF ZipCommit
    <2>2. ZipOK(y)'
      BY <1>0, <1>1, <2>1 DEF ZipCommit, FlightOK
    <2>3. /\ meta' = [b \in Blobs |-> IF b \in Contents[y] THEN y ELSE meta[b]]
          /\ zrows' = zrows \cup {y} /\ drows' = drows
      BY <1>1, <2>1 DEF ZipCommit
    <2>4. \A x \in Contents[y] : meta'[x] # None
      BY <2>1, <2>3, ConstFacts
    <2>5. \A x \in Blobs : meta'[x] # None => meta'[x] \in zrows' /\ x \in Contents[meta'[x]]
      BY <1>00, <2>3
    <2>6. \A z \in zrows' : ZipOK(z)' /\ \A x \in Contents[z] : meta'[x] # None \/ x \in removed'
      BY <1>02, <2>2, <2>3, <2>4
    <2> QED
      BY <1>00, <2>3, <2>5, <2>6 DEF RowsOK
  <1>2. ASSUME NEW m \in Removers, RemoveAct(m)
        PROVE  RowsOK'
    <2>1. /\ zrows' = zrows /\ drows' \subseteq zrows
          /\ \A x \in Blobs : meta'[x] = meta[x] \/ meta'[x] = None
      BY <1>00, <1>2, RemoveFacts
    <2>2. \A x \in Blobs : meta'[x] # None => meta'[x] \in zrows' /\ x \in Contents[meta'[x]]
      BY <1>00, <2>1
    <2> QED
      BY <1>02, <2>1, <2>2 DEF RowsOK
  <1>3. CASE DeleteZipPack
    <2>1. meta' = meta /\ zrows' = zrows /\ drows' \subseteq drows
      BY <1>3 DEF DeleteZipPack
    <2> QED
      BY <1>00, <1>02, <2>1 DEF RowsOK
  <1>4. ASSUME NEW mode \in {"fast", "full"}, Recover(mode)
        PROVE  RowsOK'
    <2>0. large \subseteq Zips
      BY DEF TypeOK
    <2>1. ASSUME NEW x \in Blobs, meta'[x] # None
          PROVE  meta'[x] \in zrows' /\ x \in Contents[meta'[x]]
      BY <1>00, <1>4, <2>1, RecoverFacts
    <2>2. ASSUME NEW z \in large
          PROVE  ZipOK(z)' /\ \A x \in Contents[z] : meta'[x] # None
      <3>1. ZipOK(z)'
        BY <1>4, <2>2, RecoverFacts DEF ZipOK
      <3>2. ASSUME NEW x \in Contents[z] PROVE meta'[x] # None
        <4>1. x \in Blobs /\ z \in Zips
          BY <2>0, <2>2, <3>2, ConstFacts
        <4>2. meta'[x] \in large
          BY <1>4, <2>2, <3>2, <4>1, RecoverFacts
        <4> QED
          BY <2>0, <4>2, ConstFacts
      <3> QED
        BY <3>1, <3>2
    <2>3. zrows' \subseteq large \cup zrows
      BY <1>4, RecoverFacts
    <2>4. drows' \subseteq zrows'
      BY <1>00, <1>4, RecoverFacts
    <2> QED
      BY <1>02, <2>1, <2>2, <2>3, <2>4 DEF RowsOK
  <1>5. CASE UNCHANGED <<meta, zrows, drows>>
    BY <1>00, <1>02, <1>5 DEF RowsOK
  <1> QED
    BY <1>1, <1>2, <1>3, <1>4, <1>5, Frames DEF Committing, Removing, Recovering

\* ReceiveBlob has stored its blob when it goes on.
LEMMA StoredReadable ==
  ASSUME TypeOK, RequestsOK, RowsOK, FlightOK,
         NEW r \in Requests, RecvStore(r), req[r] \notin removed
  PROVE  req[r] \in Blobs /\ removed' = removed
         /\ IF meta'[req[r]] = None THEN req[r] \in small' ELSE meta'[req[r]] \in large'
  <1>1. /\ req[r] \in Blobs /\ meta' = meta /\ large' = large /\ removed' = removed
        /\ pc[r] = "looked" /\ had[r] \in {"row", "norow"}
    BY RequestFacts DEF RecvStore, TypeOK
  <1>2. CASE meta[req[r]] # None
    BY <1>1, <1>2, RowReadable
  <1>3. CASE meta[req[r]] = None
    <2>1. had[r] = "norow"
      BY <1>1, <1>3 DEF FlightOK
    <2>2. req[r] \in small'
      BY <2>1 DEF RecvStore
    <2> QED
      BY <1>1, <1>3, <2>2
  <1> QED
    BY <1>1, <1>2, <1>3

\* What a request has stored or seen stays so.
LEMMA NextFlightOK ==
  ASSUME TypeOK, RequestsOK, RowsOK, FlightOK, ProgressOK, [Next]_vars
  PROVE  FlightOK'
  <1> DEFINE Seen(r) == pc[r] = "looked" /\ had[r] = "row" /\ req[r] \notin removed =>
                          meta[req[r]] # None
             Stored(r) == pc[r] \notin {"idle", "looked"} /\ req[r] \notin removed =>
                            Readable(req[r])
             Made(r) == pc[r] = "written" => ZipOK(Zip(r))
  <1>0. /\ removed \subseteq removed'
        /\ \A y \in Zips : ZipOK(y) => ZipOK(y)'
        /\ \A x \in Blobs : x \notin removed' /\ meta[x] # None => meta'[x] # None
        /\ \A x \in Blobs : x \notin removed' /\ Readable(x) => Readable(x)'
    BY Frames, ZipStable, RowStable, ReadableStable
  <1>00. ASSUME NEW r \in Requests PROVE Seen(r) /\ Stored(r) /\ Made(r)
    BY DEF FlightOK
  <1>1. ASSUME NEW r \in Requests,
               pc'[r] = pc[r], req'[r] = req[r], zi'[r] = zi[r], had'[r] = had[r]
        PROVE  Seen(r)' /\ Stored(r)' /\ Made(r)'
    <2>1. /\ pc[r] # "idle" => req[r] \in Blobs
          /\ pc[r] = "written" => Zip(r) \in Zips
      BY RequestFacts
    <2>2. Seen(r)'
      BY <1>0, <1>00, <1>1, <2>1, Zenon
    <2>3. Stored(r)'
      BY <1>0, <1>00, <1>1, <2>1 DEF Readable
    <2>4. Made(r)'
      BY <1>0, <1>00, <1>1, <2>1 DEF Zip, ZipOK
    <2> QED
      BY <2>2, <2>3, <2>4
  <1>2. ASSUME NEW r \in Requests, RequestStep(r)
        PROVE  Seen(r)' /\ Stored(r)' /\ Made(r)'
    <2>1. /\ pc[r] # "idle" => req[r] \in Blobs
          /\ pc[r] = "zip" => Zip(r) \in Zips
      BY RequestFacts
    <2>2. Seen(r)'
      BY <1>2, RequestOwn
    <2>3. CASE RecvStore(r) /\ req' = req /\ pc'[r] = "gate"
      <3>1. Stored(r)'
        BY <1>0, <2>3, StoredReadable DEF Readable
      <3> QED
        BY <2>2, <2>3, <3>1
    <2>4. CASE pc'[r] \in {"idle", "looked"}
      BY <2>2, <2>4
    <2>5. CASE /\ pc[r] \notin {"idle", "looked"} /\ req' = req
               /\ pc'[r] = "written" => ZipWrite(r) /\ pc[r] = "zip" /\ zi' = zi
      <3>1. Stored(r)'
        BY <1>0, <1>00, <2>1, <2>5 DEF Readable
      <3>2. Made(r)'
        <4>1. ASSUME pc'[r] = "written" PROVE Zip(r) \in large'
          BY <2>5, <4>1 DEF ZipWrite
        <4> QED
          BY <2>5, <4>1 DEF Zip, ZipOK
      <3> QED
        BY <2>2, <3>1, <3>2
    <2> QED
      BY <1>2, <2>3, <2>4, <2>5, RequestOwn
  <1>3. ASSUME NEW r \in Requests, RequestStep(r), NEW k \in Requests
        PROVE  Seen(k)' /\ Stored(k)' /\ Made(k)'
    BY <1>1, <1>2, <1>3, RequestOthers
  <1>4. ASSUME Crash, NEW k \in Requests
        PROVE  Seen(k)' /\ Stored(k)' /\ Made(k)'
    <2>1. pc'[k] = "idle"
      BY <1>4 DEF Crash
    <2> QED
      BY <2>1
  <1>5. \A k \in Requests : Seen(k)' /\ Stored(k)' /\ Made(k)'
    BY <1>1, <1>3, <1>4, ClientFrames
  <1> QED
    BY <1>5 DEF FlightOK

\* A packer's zips keep their rows.
LEMMA NextProgressOK ==
  ASSUME TypeOK, RequestsOK, ProgressOK, [Next]_vars
  PROVE  ProgressOK'
  <1> DEFINE Behind(r, j) == \/ pc[r] \in {"zip", "written"} /\ j < zi[r]
                             \/ pc[r] = "committed" /\ j <= zi[r]
                             \/ pc[r] = "whole"
             Rows(r) == pc[r] \notin {"idle", "looked"} =>
                          \A j \in 1..Len(Packs[req[r]]) :
                             Behind(r, j) => Packs[req[r]][j] \in zrows
  <1>0. \A r \in Requests : Rows(r)
    BY DEF ProgressOK
  <1>1. ASSUME NEW r \in Requests, zrows \subseteq zrows',
               pc'[r] = pc[r], req'[r] = req[r], zi'[r] = zi[r]
        PROVE  Rows(r)'
    BY <1>0, <1>1
  <1>2. ASSUME NEW r \in Requests, RequestStep(r)
        PROVE  zrows \subseteq zrows'
    <2>1. ASSUME ZipCommit(r) PROVE zrows \subseteq zrows'
      BY <2>1 DEF ZipCommit
    <2>2. ASSUME ~ZipCommit(r) PROVE zrows' = zrows
      BY <1>2, <2>2 DEF RequestStep, RecvLookup, RecvStore, RecvFails, PackStart,
         PackFails, ZipWrite, ZipRemove, WholeSet
    <2> QED
      BY <2>1, <2>2
  <1>3. ASSUME NEW r \in Requests, RequestStep(r)
        PROVE  Rows(r)'
    <2>1. /\ pc[r] \notin {"idle", "looked"} => Len(Packs[req[r]]) \in Nat
          /\ zi[r] \in Nat
      BY RequestFacts DEF TypeOK
    <2>2. CASE pc'[r] \in {"idle", "looked", "gate"}
      BY <2>2
    <2>3. CASE pc'[r] = "zip" /\ zi'[r] = 1 /\ req' = req
      <3>1. \A j \in 1..Len(Packs[req[r]]) : ~(j < 1)
        BY SMT
      <3> QED
        BY <2>3, <3>1
    <2>4. CASE ZipWrite(r) /\ pc[r] = "zip" /\ pc'[r] = "written" /\ req' = req /\ zi' = zi
      BY <1>0, <1>2, <1>3, <2>4
    <2>5. CASE ZipCommit(r) /\ pc[r] = "written" /\ pc'[r] = "committed" /\ req' = req /\ zi' = zi
      <3>1. zrows' = zrows \cup {Packs[req[r]][zi[r]]}
        BY <2>5 DEF ZipCommit, Zip
      <3>2. \A j \in 1..Len(Packs[req[r]]) : j <= zi[r] => j < zi[r] \/ j = zi[r]
        BY SMT, <2>1, <2>5
      <3>3. \A j \in 1..Len(Packs[req[r]]) : j < zi[r] => Packs[req[r]][j] \in zrows
        BY <1>0, <2>5
      <3> QED
        BY <2>5, <3>1, <3>2, <3>3
    <2>6. CASE /\ pc[r] = "committed" /\ pc'[r] = "zip" /\ req' = req
               /\ zi'[r] = zi[r] + 1 /\ zrows' = zrows
      <3>1. \A j \in 1..Len(Packs[req[r]]) : j < zi'[r] => j <= zi[r]
        BY SMT, <2>1, <2>6
      <3> QED
        BY <1>0, <2>6, <3>1
    <2>7. CASE /\ pc[r] = "committed" /\ pc'[r] = "whole" /\ req' = req
               /\ ~(zi[r] < Len(Packs[req[r]])) /\ zrows' = zrows
      <3>0. Len(Packs[req[r]]) \in Nat /\ zi[r] \in Nat /\ Len(Packs[req[r]]) <= zi[r]
        BY SMT, <2>1, <2>7
      <3>1. \A j \in 1..Len(Packs[req[r]]) : j <= zi[r]
        BY SMT, <3>0
      <3> QED
        BY <1>0, <2>7, <3>1
    <2> QED
      BY <1>3, <2>2, <2>3, <2>4, <2>5, <2>6, <2>7, RequestOwn
  <1>4. ASSUME NEW r \in Requests, RequestStep(r), NEW k \in Requests
        PROVE  Rows(k)'
    BY <1>1, <1>2, <1>3, <1>4, RequestOthers
  <1>5. ASSUME NEW mode \in {"fast", "full"}, Recover(mode), NEW k \in Requests
        PROVE  Rows(k)'
    <2>1. pc'[k] = "idle"
      BY <1>5, RecoverFacts DEF RequestsOK
    <2> QED
      BY <2>1
  <1>6. ASSUME Crash, NEW k \in Requests
        PROVE  Rows(k)'
    <2>1. pc'[k] = "idle"
      BY <1>6 DEF Crash
    <2> QED
      BY <2>1
  <1>7. \A k \in Requests : Rows(k)'
    BY <1>1, <1>4, <1>5, <1>6, Frames, ClientFrames DEF Committing, Recovering, RequestStep
  <1> QED
    BY <1>7 DEF ProgressOK

\* The zip of a row that a reader has read stays.
LEMMA NextReadersOK ==
  ASSUME TypeOK, RequestsOK, RowsOK, ReadersOK, [Next]_vars
  PROVE  ReadersOK'
  <1> DEFINE Good(q) == fpc[q] = "looked" /\ frow[q] # None =>
                          freq[q] \in Contents[frow[q]] /\ ZipOK(frow[q])
  <1>0. \A q \in Readers : Good(q) /\ frow[q] \in Zips \cup {None}
    BY DEF ReadersOK, TypeOK
  <1>1. ASSUME NEW q \in Readers, fpc'[q] = "idle" \/ fpc'[q] = fpc[q],
               freq'[q] = freq[q], frow'[q] = frow[q]
        PROVE  Good(q)'
    BY <1>0, <1>1, ZipStable DEF ZipOK
  <1>2. ASSUME NEW q \in Readers, NEW b \in Blobs, FetchLookup(q, b), NEW k \in Readers
        PROVE  Good(k)'
    <2>0. /\ fpc \in [Readers -> {"idle", "looked"}] /\ freq \in [Readers -> Blobs \cup {None}]
          /\ frow \in [Readers -> Zips \cup {None}]
      BY DEF TypeOK
    <2>1. /\ fpc' = [fpc EXCEPT ![q] = "looked"] /\ freq' = [freq EXCEPT ![q] = b]
          /\ frow' = [frow EXCEPT ![q] = meta[b]] /\ large' = large /\ removed' = removed
      BY <1>2 DEF FetchLookup
    <2>2. CASE k # q
      BY <1>1, <2>0, <2>1, <2>2
    <2>3. CASE k = q
      <3>1. meta[b] # None => b \in Contents[meta[b]] /\ ZipOK(meta[b])
        BY DEF RowsOK
      <3> QED
        BY <2>0, <2>1, <2>3, <3>1 DEF ZipOK
    <2> QED
      BY <2>2, <2>3
  <1>3. ASSUME NEW q \in Readers, FetchRead(q), NEW k \in Readers
        PROVE  Good(k)'
    <2>1. fpc' = [fpc EXCEPT ![q] = "idle"] /\ freq' = freq /\ frow' = frow
      BY <1>3 DEF FetchRead
    <2>2. fpc'[k] = "idle" \/ fpc'[k] = fpc[k]
      BY <2>1 DEF TypeOK
    <2> QED
      BY <1>1, <2>1, <2>2
  <1>4. ASSUME Crash, NEW k \in Readers
        PROVE  Good(k)'
    <2>1. fpc'[k] = "idle"
      BY <1>4 DEF Crash
    <2> QED
      BY <2>1
  <1>5. \A k \in Readers : Good(k)'
    BY <1>1, <1>2, <1>3, <1>4, ClientFrames
  <1> QED
    BY <1>5 DEF ReadersOK

\* Acknowledged blobs stay readable.
LEMMA NextDurable ==
  ASSUME IInv, [Next]_vars
  PROVE  Durable'
  <1>0. /\ TypeOK /\ RequestsOK /\ RowsOK /\ FlightOK /\ ProgressOK /\ Durable
        /\ removed \subseteq removed' /\ acked \subseteq Blobs
    BY Frames DEF IInv, TypeOK
  <1> DEFINE Found(x) == IF meta'[x] = None THEN x \in small' ELSE meta'[x] \in large'
  <1>1. \A x \in Blobs : x \notin removed' /\ Readable(x) => Found(x)
    BY <1>0, ReadableStable DEF Readable
  <1>2. \A x \in acked : x \notin removed' => Found(x)
    BY <1>0, <1>1 DEF Durable
  <1>3. ASSUME NEW r \in Requests, RequestStep(r), acked' # acked, req[r] \notin removed'
        PROVE  Found(req[r])
    <2>0. req[r] \notin removed
      BY <1>0, <1>3
    <2>1. CASE RecvStore(r)
      BY <1>0, <2>0, <2>1, StoredReadable
    <2>2. CASE ~RecvStore(r)
      <3>1. pc[r] \notin {"idle", "looked"}
        BY <1>3, <2>2 DEF RequestStep, RecvLookup, RecvFails, PackStart, PackFails,
           ZipWrite, ZipCommit, ZipRemove, WholeSet
      <3>2. req[r] \in Blobs /\ Readable(req[r])
        BY <1>0, <2>0, <3>1, RequestFacts DEF FlightOK
      <3> QED
        BY <1>1, <1>3, <3>2
    <2> QED
      BY <2>1, <2>2
  <1>4. ASSUME NEW x \in acked', x \notin removed', x \notin acked PROVE Found(x)
    <2>1. PICK r \in Requests : RequestStep(r)
      BY <1>4, ClientFrames
    <2>2. x = req[r] /\ acked' # acked
      BY <1>0, <1>4, <2>1, RequestOthers
    <2> QED
      BY <1>3, <1>4, <2>1, <2>2
  <1>5. \A x \in acked' : x \notin removed' => Found(x)
    BY <1>2, <1>4
  <1> QED
    BY <1>5 DEF Durable, Readable

\* A reader with a row finds the zip.
LEMMA NextFetchFinds ==
  ASSUME ReadersOK, PackedFetchFinds, [Next]_vars
  PROVE  PackedFetchFinds'
  <1>0. removed \subseteq removed'
    BY Frames
  <1>1. CASE misses' = misses
    BY <1>0, <1>1 DEF PackedFetchFinds
  <1>2. ASSUME NEW q \in Readers, FetchRead(q), misses' # misses
        PROVE  PackedFetchFinds'
    <2>1. /\ misses' = misses \cup {<<freq[q], frow[q]>>} /\ fpc[q] = "looked"
          /\ frow[q] # None => frow[q] \notin large
      BY <1>2 DEF FetchRead
    <2>2. frow[q] # None => freq[q] \in removed
      BY <2>1 DEF ReadersOK, ZipOK
    <2> QED
      BY SMT, <1>0, <2>1, <2>2 DEF PackedFetchFinds
  <1> QED
    BY <1>1, <1>2, Frames

\* More zips make no contents less complete.
LEMMA AddUpGrows ==
  ASSUME NEW zs, NEW zt, zs \subseteq zt, NEW v, NEW n, AddUp(v, n, zs)
  PROVE  AddUp(v, n, zt)
  <1>1. PICK s \in [1..n -> zs] :
          /\ \A i \in 1..n : s[i] \in PartZips(v, i, zs)
          /\ \E f \in Files : Whole[f] = v /\ Bytes(s) = Bytes(Packs[f])
    BY DEF AddUp
  <1>2. s \in [1..n -> zt] BY <1>1
  <1>3. \A i \in 1..n : s[i] \in PartZips(v, i, zt) BY <1>1 DEF PartZips
  <1> QED BY <1>1, <1>2, <1>3 DEF AddUp

\* The contents of a file all of whose zips are there are complete.
LEMMA AddUpOf ==
  ASSUME NEW x \in Files, NEW zs,
         \A j \in 1..Len(Packs[x]) : Packs[x][j] \in zs
  PROVE  AddUp(Whole[x], Len(Packs[x]), zs) /\ Len(Packs[x]) \in PartNumbers
  <1>1. Packs[x] \in [1..Len(Packs[x]) -> zs]
    <2>1. Packs[x] \in Seq(Zips) BY PackedAssumption
    <2>2. Packs[x] = [j \in 1..Len(Packs[x]) |-> Packs[x][j]] BY SMT, <2>1
    <2> QED BY <2>2
  <1>2. ASSUME NEW j \in 1..Len(Packs[x])
        PROVE  Packs[x][j] \in PartZips(Whole[x], j, zs)
    <2>1. <<Whole[x], j, Packs[x][j]>> \in
            {<<Whole[x], i, Packs[x][i]>> : i \in 1..Len(Packs[x])}
      OBVIOUS
    <2>2. <<Whole[x], j, Packs[x][j]>> \in Manifests BY <2>1 DEF Manifests
    <2> QED BY <2>2 DEF PartZips
  <1>3. Len(Packs[x]) \in 1..Len(Packs[x])
    <2>1. Len(Packs[x]) \in Nat \ {0} BY ConstFacts
    <2> QED BY SMT, <2>1
  <1>4. Len(Packs[x]) \in PartNumbers BY <1>3 DEF PartNumbers
  <1> QED BY <1>1, <1>2, <1>4 DEF AddUp

\* The final "w:" rows stay those of complete files.
LEMMA NextWholeRows ==
  ASSUME RequestsOK, ProgressOK, WholeRowsComplete, [Next]_vars
  PROVE  WholeRowsComplete'
  <1> DEFINE Packed(v, zs) == \E n \in PartNumbers : AddUp(v, n, zs)
  <1>0. \A v \in wrows : Packed(v, zrows)
    BY DEF WholeRowsComplete
  <1>1. ASSUME NEW zs, NEW zt, zs \subseteq zt, NEW v, Packed(v, zs)
        PROVE  Packed(v, zt)
    BY <1>1, AddUpGrows
  <1>2. ASSUME NEW r \in Requests, WholeSet(r)
        PROVE  \A v \in wrows' : Packed(v, zrows')
    <2>1. pc[r] = "whole" /\ wrows' = wrows \cup {Whole[req[r]]} /\ zrows' = zrows
      BY <1>2 DEF WholeSet
    <2>2. req[r] \in Files /\ \A j \in 1..Len(Packs[req[r]]) : Packs[req[r]][j] \in zrows
      BY <2>1, RequestFacts DEF ProgressOK
    <2>3. Packed(Whole[req[r]], zrows)
      BY <2>2, AddUpOf
    <2> QED
      BY <1>0, <2>1, <2>3
  <1>3. ASSUME NEW mode \in {"fast", "full"}, Recover(mode), NEW v \in wrows'
        PROVE  Packed(v, zrows')
    <2>1. zrows' = large \cup (IF mode = "fast" THEN zrows ELSE {})
      BY <1>3, RecoverFacts
    <2>2. Packed(v, large) \/ (mode = "fast" /\ v \in wrows)
      BY <1>3 DEF Recover, Complete
    <2> HIDE DEF Packed
    <2>3. CASE Packed(v, large)
      BY <1>1, <2>1, <2>3
    <2>4. CASE mode = "fast" /\ v \in wrows
      BY <1>0, <1>1, <2>1, <2>4
    <2> QED
      BY <2>2, <2>3, <2>4
  <1>4. ASSUME wrows' = wrows, zrows \subseteq zrows', NEW v \in wrows'
        PROVE  Packed(v, zrows')
    BY <1>0, <1>1, <1>4
  <1>5. ASSUME NEW r \in Requests, ZipCommit(r)
        PROVE  zrows \subseteq zrows'
    BY <1>5 DEF ZipCommit
  <1>6. \A v \in wrows' : Packed(v, zrows')
    <2> HIDE DEF Packed
    <2> QED BY <1>2, <1>3, <1>4, <1>5, Frames DEF Committing, Recovering
  <1> QED
    BY <1>6 DEF WholeRowsComplete, AddUp, PartZips

-----------------------------------------------------------------------------
\* The inductive invariant holds in every reachable state.
THEOREM PackedInvariance == Spec => []IInv
  <1>1. IInv /\ [Next]_vars => IInv'
    BY NextTypeOK, NextRequestsOK, NextRowsOK, NextFlightOK, NextProgressOK,
       NextReadersOK, NextDurable, NextWholeRows, NextFetchFinds DEF IInv
  <1> QED
    BY <1>1, InitIInv, PTL DEF Spec

\* Every variable of the storage keeps its type: in particular rows only
\* ever name zips.
THEOREM PackedTypeCorrect == Spec => []TypeOK
  BY PackedInvariance, PTL DEF IInv

\* An acknowledged blob that nobody removed can be fetched in every state:
\* during packing by any number of clients, after any failure, and after any
\* number of crashes, restarts and recoveries.
THEOREM PackedDurability == Spec => []Durable
  BY PackedInvariance, PTL DEF IInv

\* Every final "w:" row belongs to contents of which zips with rows hold the
\* first part to the last byte, however the files with these contents are cut
\* into zips.
THEOREM WholeRefsComplete == Spec => []WholeRowsComplete
  BY PackedInvariance, PTL DEF IInv

\* A Fetch that has read a blob's row finds the zip, unless the blob was
\* removed.
THEOREM PackedFetches == Spec => []PackedFetchFinds
  BY PackedInvariance, PTL DEF IInv

-----------------------------------------------------------------------------
\* ReceiveBlob returns for the blob of one request, and takes nothing away.
LEMMA AckStep ==
  ASSUME TypeOK, [Next]_vars, acked' # acked
  PROVE  /\ removed' = removed /\ meta' = meta /\ large' = large /\ small \subseteq small'
         /\ \E r \in Requests : acked' = acked \cup {req[r]}
  <1>1. PICK r \in Requests : RequestStep(r)
    BY ClientFrames
  <1>2. CASE RecvStore(r)
    BY <1>2 DEF RecvStore, Ack
  <1>3. CASE PackStart(r)
    BY <1>3 DEF PackStart, Ack
  <1>4. CASE PackFails(r) \/ WholeSet(r)
    BY <1>4 DEF PackFails, WholeSet, Ack
  <1>5. CASE \/ \E b \in Blobs : RecvLookup(r, b)
             \/ RecvFails(r) \/ ZipWrite(r) \/ ZipCommit(r) \/ ZipRemove(r)
    BY <1>5 DEF RecvLookup, RecvFails, ZipWrite, ZipCommit, ZipRemove
  <1> QED
    BY <1>1, <1>2, <1>3, <1>4, <1>5 DEF RequestStep

\* Only the beginning of RemoveBlobs gives up a blob.
LEMMA GiveUpStep ==
  ASSUME [Next]_vars, removed' # removed
  PROVE  \E b \in Blobs : removed' = removed \cup {b} /\ UNCHANGED <<disk, acked>>
  <1>1. ASSUME NEW m \in Removers, NEW b \in Blobs, RemoveLookup(m, b)
        PROVE  removed' = removed \cup {b} /\ UNCHANGED <<disk, acked>>
    BY <1>1 DEF RemoveLookup
  <1>2. ASSUME NEW r \in Requests, RequestStep(r)
        PROVE  removed' = removed
    BY <1>2 DEF RequestStep, RecvLookup, RecvStore, RecvFails, PackStart, PackFails,
         ZipWrite, ZipCommit, ZipRemove, WholeSet
  <1>3. ASSUME NEW m \in Removers, RemoveAct(m) \/ RemoveFails(m)
        PROVE  removed' = removed
    BY <1>3 DEF RemoveAct, RemoveFails
  <1>4. ASSUME \/ \E z \in Zips : ZipPartsInUse(z)
               \/ DeleteZipPack \/ Crash \/ Restart \/ Recovering
               \/ \E q \in Readers : FetchRead(q) \/ \E b \in Blobs : FetchLookup(q, b)
        PROVE  removed' = removed
    BY <1>4 DEF ZipPartsInUse, DeleteZipPack, Crash, Restart, Recovering, Recover,
         FetchRead, FetchLookup
  <1>5. CASE UNCHANGED vars
    BY <1>5 DEF vars
  <1> QED
    BY <1>1, <1>2, <1>3, <1>4, <1>5 DEF Next, RequestStep, Recovering

\* Every step is a step of the abstract storage.
LEMMA StorageStep ==
  ASSUME TypeOK, TypeOK', Durable', [Next]_vars
  PROVE  Storage!Next
  <1> DEFINE Found(x) == IF meta'[x] = None THEN x \in small' ELSE meta'[x] \in large'
  <1>1. \A x \in acked' \ removed' : x \in Blobs /\ Found(x)
    BY DEF TypeOK, Durable, Readable
  <1>2. CASE acked' \ removed' = acked \ removed
    BY <1>1, <1>2 DEF Storage!Next, Storage!Internal, Readable
  <1>3. CASE removed' # removed
    <2>1. PICK b \in Blobs : removed' = removed \cup {b} /\ UNCHANGED <<disk, acked>>
      BY <1>3, GiveUpStep
    <2>2. acked' \ removed' = (acked \ removed) \ {b}
      BY <2>1
    <2>3. \A x : Readable(x)' <=> Readable(x)
      BY <2>1 DEF Readable
    <2> QED
      BY <2>2, <2>3 DEF Storage!Next, Storage!RemoveBlobs
  <1>4. CASE removed' = removed /\ acked' \ removed' # acked \ removed
    <2>1. PICK r \in Requests : acked' = acked \cup {req[r]}
      BY <1>4, AckStep
    <2>2. req[r] \notin removed /\ acked' \ removed' = (acked \ removed) \cup {req[r]}
      BY <1>4, <2>1
    <2>3. req[r] \in Blobs /\ Found(req[r])
      BY <1>1, <2>2
    <2>4. meta' = meta /\ large' = large /\ small \subseteq small'
      BY <1>4, AckStep
    <2>5. \A x : Readable(x) => Found(x)
      BY <2>4 DEF Readable
    <2> QED
      BY <2>2, <2>3, <2>5 DEF Storage!Next, Storage!ReceiveBlob, Readable
  <1> QED
    BY <1>2, <1>3, <1>4

\* The storage implements the contract of pkg/blobserver/interface.go: every
\* step, a crash or a recovery included, is one of BlobStorage.
THEOREM PackedRefinement == Spec => StorageContract
  <1>1. Init => Storage!Init
    BY DEF Init, Storage!Init, Readable
  <1>2. IInv /\ IInv' /\ [Next]_vars => Storage!Next
    BY StorageStep DEF IInv
  <1> QED
    BY <1>1, <1>2, PackedInvariance, PTL DEF Spec, StorageContract, Storage!Spec
=============================================================================
