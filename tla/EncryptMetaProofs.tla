-------------------------- MODULE EncryptMetaProofs --------------------------
(***************************************************************************)
(* Proofs about EncryptMeta: with any number of uploads, packers, failures *)
(* and crashes, what was acknowledged can always be recovered from the two *)
(* storages, and is served while the server is up.                         *)
(*                                                                         *)
(* Most steps leave most of the state alone.  The lemma Frames says which  *)
(* steps can change what; each conjunct of the invariant is then shown for *)
(* the few steps that matter to it.                                        *)
(***************************************************************************)
EXTENDS EncryptMeta, TLAPS

USE ZenonT(30) DEF disk, mem, request, packer, start

\* The group that is left at the end of the popping is not a single blob.
Several == \E x, y \in group : x # y

\* The steps of one client that calls ReceiveBlob.
RequestStep(r) ==
    \/ \E p \in Plains : RecvCheck(r, p)
    \/ RecvStore(r) \/ RecvMeta(r) \/ RecvRecord(r) \/ RecvIndex(r) \/ RecvFails(r)

Receiving == \E r \in Requests : RequestStep(r)
Packing == \E t \in Packers : Packer(t) \/ PackFails(t)
Making == (\E r \in Requests : RecvMeta(r)) \/ (\E t \in Packers : PackUpload(t))
Deleting == \E t \in Packers : PackDelete(t)
Recording ==
    (\E r \in Requests : RecvRecord(r)) \/ (\E t \in Packers : PackRecord(t)) \/ StartRecord
Restarting == \E wipe \in BOOLEAN : Restart(wipe)
Processing == \E m \in Metas : StartProcess(m)
ProcessFailing == \E m \in Metas : StartProcessFails(m)
Indexing == (\E r \in Requests : RecvIndex(r)) \/ Processing \/ ProcessFailing
Fetching == \E m \in Metas : StartFetch(m)

\* Which steps change what.
LEMMA Frames ==
  ASSUME [Next]_vars
  PROVE  /\ blobs \subseteq blobs'
         /\ Making \/ (line' = line /\ lines' = lines)
         /\ Making \/ Deleting \/ metas' = metas
         /\ Indexing \/ Restarting \/ index' = index
         /\ Recording \/ Popping \/ Crash \/ UNCHANGED <<heap, group, gn>>
         /\ Receiving \/ Crash \/ UNCHANGED request
         /\ Popping \/ Packing \/ Crash \/ UNCHANGED packer
         /\ Processing \/ StartDone \/ Crash \/ Restarting \/ UNCHANGED <<must, done>>
         /\ Starting \/ Crash \/ Restarting \/ UNCHANGED start
         /\ Fetching \/ ProcessFailing \/ StartEnumFails \/ StartDone \/ Crash \/ Restarting
            \/ up' = up
         /\ Receiving \/ acked' = acked
  <1>1. CASE Popping
    <2>1. UNCHANGED <<disk, up, request, start, acked>>
      BY <1>1 DEF Popping, Pop, PopEnd
    <2> QED
      BY <1>1, <2>1
  <1>3. ASSUME NEW r \in Requests, NEW q \in Plains, RecvCheck(r, q)
        PROVE  UNCHANGED <<disk, up, mem, packer, start>>
    BY <1>3 DEF RecvCheck
  <1>4. ASSUME NEW r \in Requests, RecvStore(r)
        PROVE  UNCHANGED <<metas, line, lines, index, up, mem, packer, start>> /\ blobs \subseteq blobs'
    BY <1>4 DEF RecvStore
  <1>5. ASSUME NEW r \in Requests, RecvMeta(r)
        PROVE  UNCHANGED <<blobs, index, up, mem, packer, start>>
    BY <1>5 DEF RecvMeta
  <1>6. ASSUME NEW r \in Requests, RecvRecord(r)
        PROVE  UNCHANGED <<disk, up, packer, start>>
    BY <1>6 DEF RecvRecord
  <1>7. ASSUME NEW r \in Requests, RecvIndex(r)
        PROVE  UNCHANGED <<blobs, metas, line, lines, up, mem, packer, start>>
    BY <1>7 DEF RecvIndex
  <1>8. ASSUME NEW r \in Requests, RecvFails(r)
        PROVE  UNCHANGED <<disk, up, mem, packer, start>>
    BY <1>8 DEF RecvFails
  <1>9. ASSUME NEW t \in Packers, NEW q \in Plains, PackRead(t, q)
        PROVE  UNCHANGED <<disk, up, mem, request, start, acked>>
    BY <1>9 DEF PackRead
  <1>10. ASSUME NEW t \in Packers, PackUpload(t)
        PROVE  UNCHANGED <<blobs, index, up, mem, request, start, acked>>
    BY <1>10 DEF PackUpload
  <1>11. ASSUME NEW t \in Packers, PackRecord(t)
        PROVE  UNCHANGED <<disk, up, request, start, acked>>
    BY <1>11 DEF PackRecord
  <1>12. ASSUME NEW t \in Packers, PackDelete(t)
        PROVE  UNCHANGED <<blobs, line, lines, index, up, mem, request, start, acked>>
    BY <1>12 DEF PackDelete
  <1>13. ASSUME NEW t \in Packers, PackFails(t)
        PROVE  UNCHANGED <<disk, up, mem, request, start, acked>>
    BY <1>13 DEF PackFails
  <1>14. CASE Crash
    <2>1. UNCHANGED <<disk, acked>>
      BY <1>14 DEF Crash
    <2> QED
      BY <1>14, <2>1
  <1>15. ASSUME NEW wipe \in BOOLEAN, Restart(wipe)
        PROVE  UNCHANGED <<blobs, metas, line, lines, mem, request, packer, acked>>
    BY <1>15 DEF Restart
  <1>16. ASSUME NEW m \in Metas, StartEnum(m)
        PROVE  UNCHANGED <<disk, up, mem, request, packer, must, done, acked>>
    BY <1>16 DEF StartEnum
  <1>17. ASSUME NEW m \in Metas, StartFetch(m)
        PROVE  UNCHANGED <<disk, mem, request, packer, must, done, acked>>
    BY <1>17 DEF StartFetch
  <1>18. ASSUME NEW m \in Metas, StartProcess(m)
        PROVE  UNCHANGED <<blobs, metas, line, lines, up, mem, request, packer, acked>>
    BY <1>18 DEF StartProcess
  <1>19. ASSUME NEW m \in Metas, StartProcessFails(m)
        PROVE  UNCHANGED <<blobs, metas, line, lines, mem, request, packer, start, acked>>
    BY <1>19 DEF StartProcessFails
  <1>20. CASE StartRecord
    <2>1. UNCHANGED <<disk, up, request, packer, must, done, acked>>
      BY <1>20 DEF StartRecord
    <2> QED
      BY <1>20, <2>1 DEF Recording, Starting
  <1>21. CASE StartDone
    <2>1. UNCHANGED <<disk, mem, request, packer, acked>>
      BY <1>21 DEF StartDone
    <2> QED
      BY <1>21, <2>1 DEF Starting
  <1>23. CASE StartEnumFails
    <2>1. UNCHANGED <<disk, mem, request, packer, start, acked>>
      BY <1>23 DEF StartEnumFails
    <2> QED
      BY <1>23, <2>1
  <1>22. CASE UNCHANGED vars
    BY <1>22 DEF vars
  <1>r. CASE Receiving
    <2>1. PICK r \in Requests : RequestStep(r)
      BY <1>r DEF Receiving
    <2> QED
      BY <1>r, <2>1, <1>3, <1>4, <1>5, <1>6, <1>7, <1>8 DEF RequestStep, Making,
         Indexing, Recording
  <1>p. CASE Packing
    <2>1. PICK t \in Packers : Packer(t) \/ PackFails(t)
      BY <1>p DEF Packing
    <2> QED
      BY <1>p, <2>1, <1>9, <1>10, <1>11, <1>12, <1>13 DEF Packer, Making, Deleting,
         Recording
  <1>s. CASE Starting
    BY <1>s, <1>16, <1>17, <1>18, <1>20, <1>21 DEF Starting, Indexing, Fetching, Processing
  <1>f. CASE ProcessFailing
    BY <1>f, <1>19 DEF ProcessFailing, Indexing
  <1>w. CASE Restarting
    BY <1>w, <1>15 DEF Restarting
  <1> QED
    BY <1>1, <1>r, <1>p, <1>s, <1>f, <1>w, <1>14, <1>22, <1>23 DEF Next, Receiving, Packing,
       RequestStep, ProcessFailing, Restarting

\* The initial state satisfies the inductive invariant.
LEMMA InitIInv == Init => IInv
  <1> SUFFICES ASSUME Init PROVE IInv
    OBVIOUS
  <1>1. TypeOK
    BY DEF Init, TypeOK, NoLines
  <1>2. NamesOK /\ LinesOK /\ RequestsOK
    BY DEF Init, NamesOK, LinesOK, MetaLinesOK, IndexOK, ReadOK, RequestsOK,
       NoLines, Used
  <1>3. PackersOK
    BY SMT DEF Init, PackersOK, Has, Used
  <1>4. StartOK /\ RecordedOK /\ Served
    BY DEF Init, StartOK, RecordedOK, Served, NoLines
  <1> QED
    BY <1>1, <1>2, <1>3, <1>4 DEF IInv

\* What recordMeta may change.
LEMMA RecordFacts ==
  ASSUME TypeOK, NEW who \in {Start} \cup Requests \cup Packers,
         NEW m \in Metas, NEW tag \in {"made", "read"}, recordMeta(who, m, tag)
  PROVE  /\ heap' \subseteq heap \cup {<<m, tag>>}
         /\ heap' \subseteq Metas \X {"made", "read"}
         /\ group' = group /\ gn' = gn
         /\ holder' \in {None, Start} \cup Requests \cup Packers
  BY SMT DEF recordMeta, TypeOK

\* What starting a packer changes.
LEMMA SpawnFacts ==
  ASSUME TypeOK, NEW g \in SUBSET (Metas \X {"made", "read"}), NEW n \in Nat,
         Spawn(g, n)
  PROVE  /\ Names(g) \subseteq Metas
         /\ \E t \in Packers :
            /\ tpc[t] = "idle"
            /\ tpc' = [tpc EXCEPT ![t] = "read"]
            /\ tgroup' = [tgroup EXCEPT ![t] = Names(g)]
            /\ tleft' = [tleft EXCEPT ![t] = PlainsOf(Names(g))]
            /\ tn' = [tn EXCEPT ![t] = n]
            /\ tread' = [tread EXCEPT ![t] = NoLines]
            /\ tnew' = tnew
  <1> DEFINE idle == {t \in Packers : tpc[t] = "idle"}
             t0 == CHOOSE x \in idle : TRUE
  <1>1. t0 \in idle
    BY DEF Spawn
  <1>2. Names(g) \subseteq Metas
    BY DEF Names
  <1> QED
    BY <1>1, <1>2 DEF Spawn

LEMMA SpawnType ==
  ASSUME TypeOK, NEW g \in SUBSET (Metas \X {"made", "read"}), NEW n \in Nat,
         Spawn(g, n)
  PROVE  /\ tpc' \in [Packers -> {"idle", "read", "record", "delete"}]
         /\ tgroup' \in [Packers -> SUBSET Metas] /\ tn' \in [Packers -> Nat]
         /\ tleft' \in [Packers -> SUBSET Plains]
         /\ tread' \in [Packers -> [Plains -> Encs \cup {None}]]
         /\ tnew' = tnew
  <1>1. PICK t \in Packers :
            /\ tpc' = [tpc EXCEPT ![t] = "read"]
            /\ tgroup' = [tgroup EXCEPT ![t] = Names(g)]
            /\ tleft' = [tleft EXCEPT ![t] = PlainsOf(Names(g))]
            /\ tn' = [tn EXCEPT ![t] = n]
            /\ tread' = [tread EXCEPT ![t] = NoLines]
            /\ tnew' = tnew
    BY SMT, SpawnFacts
  <1>2. /\ PlainsOf(Names(g)) \subseteq Plains /\ Names(g) \subseteq Metas
        /\ NoLines \in [Plains -> Encs \cup {None}]
    BY SpawnFacts DEF PlainsOf, NoLines
  <1> QED
    BY <1>1, <1>2 DEF TypeOK

\* What the end of a packer changes.
LEMMA PackEndType ==
  ASSUME TypeOK, NEW t \in Packers, PackEnd(t)
  PROVE  /\ tpc' \in [Packers -> {"idle", "read", "record", "delete"}]
         /\ tgroup' \in [Packers -> SUBSET Metas] /\ tn' \in [Packers -> Nat]
         /\ tleft' \in [Packers -> SUBSET Plains]
         /\ tread' \in [Packers -> [Plains -> Encs \cup {None}]]
         /\ tnew' \in [Packers -> Metas \cup {None}]
  BY DEF PackEnd, TypeOK, NoLines

\* A new meta blob gets a name that was never used.
LEMMA PutFacts ==
  ASSUME TypeOK, NEW ls \in [Plains -> Encs \cup {None}], NEW n \in Nat, n > 0,
         PutMeta(ls, n)
  PROVE  /\ NewMeta \in Metas /\ NewMeta \notin Used
         /\ metas' = metas \cup {NewMeta}
         /\ line' = [line EXCEPT ![NewMeta] = ls]
         /\ lines' = [lines EXCEPT ![NewMeta] = n]
         /\ line' \in [Metas -> [Plains -> Encs \cup {None}]]
         /\ lines' \in [Metas -> Nat]
         /\ Used' = Used \cup {NewMeta}
  <1>1. NewMeta \in NewMetas
    BY DEF PutMeta, NewMeta
  <1>2. NewMeta \in Metas /\ NewMeta \notin Used
    BY SMT, <1>1 DEF NewMetas, Used, TypeOK
  <1> QED
    BY <1>2 DEF PutMeta, TypeOK, Used

\* The one line of a new meta blob.
LEMMA OneLine ==
  ASSUME NEW p \in Plains, NEW e \in Encs
  PROVE  /\ [NoLines EXCEPT ![p] = e] \in [Plains -> Encs \cup {None}]
         /\ [NoLines EXCEPT ![p] = e][p] = e
         /\ \A q \in Plains \ {p} : [NoLines EXCEPT ![p] = e][q] = None
  BY DEF NoLines

\* Every step keeps the state well typed.
LEMMA NextTypeOK ==
  ASSUME TypeOK, NamesOK, LinesOK, RequestsOK, [Next]_vars
  PROVE  TypeOK'
  <1>1. ASSUME NEW x \in heap, Pop(x)
        PROVE  TypeOK'
    <2>1. group \cup {x} \in SUBSET (Metas \X {"made", "read"}) /\ x[1] \in Metas
      BY DEF TypeOK
    <2>2. lines[x[1]] \in Nat /\ gn + lines[x[1]] \in Nat
      BY SMT, <2>1 DEF TypeOK
    <2>3. CASE gn + lines[x[1]] > FullMetaBlobSize
      <3>1. Spawn(group \cup {x}, gn + lines[x[1]]) /\ group' = {} /\ gn' = 0
        BY <1>1, <2>3 DEF Pop
      <3>2. /\ tpc' \in [Packers -> {"idle", "read", "record", "delete"}]
            /\ tgroup' \in [Packers -> SUBSET Metas] /\ tn' \in [Packers -> Nat]
            /\ tleft' \in [Packers -> SUBSET Plains]
            /\ tread' \in [Packers -> [Plains -> Encs \cup {None}]]
            /\ tnew' = tnew
        BY <2>1, <2>2, <3>1, SpawnType
      <3> QED
        BY <1>1, <3>1, <3>2 DEF Pop, TypeOK
    <2>4. CASE ~(gn + lines[x[1]] > FullMetaBlobSize)
      BY <1>1, <2>1, <2>2, <2>4 DEF Pop, TypeOK
    <2> QED
      BY <2>3, <2>4
  <1>2. CASE PopEnd
    <2>1. CASE Several
      <3>1. Spawn(group, gn) /\ heap' = heap
        BY <1>2, <2>1 DEF PopEnd, Several
      <3>2. /\ tpc' \in [Packers -> {"idle", "read", "record", "delete"}]
            /\ tgroup' \in [Packers -> SUBSET Metas] /\ tn' \in [Packers -> Nat]
            /\ tleft' \in [Packers -> SUBSET Plains]
            /\ tread' \in [Packers -> [Plains -> Encs \cup {None}]]
            /\ tnew' = tnew
        BY <3>1, SpawnType DEF TypeOK
      <3> QED
        BY <1>2, <3>1, <3>2 DEF PopEnd, TypeOK
    <2>2. CASE ~Several
      BY <1>2, <2>2 DEF PopEnd, Several, TypeOK
    <2> QED
      BY <2>1, <2>2
  <1>3. ASSUME NEW r \in Requests, NEW q \in Plains, RecvCheck(r, q)
        PROVE  TypeOK'
    <2>1. CASE acked' = acked \cup {q} /\ pc' = pc /\ req' = req
      BY <1>3, <2>1 DEF RecvCheck, TypeOK
    <2>2. CASE /\ pc' = [pc EXCEPT ![r] = "store"] /\ req' = [req EXCEPT ![r] = q]
               /\ acked' = acked
      BY <1>3, <2>2 DEF RecvCheck, TypeOK
    <2> QED
      BY <1>3, <2>1, <2>2 DEF RecvCheck
  <1>4. ASSUME NEW r \in Requests, RecvStore(r)
        PROVE  TypeOK'
    BY SMT, <1>4 DEF RecvStore, TypeOK
  <1>5. ASSUME NEW r \in Requests, RecvMeta(r)
        PROVE  TypeOK'
    <2>1. req[r] \in Plains /\ enc[r] \in Encs
      BY <1>5 DEF RecvMeta, RequestsOK, Good, TypeOK
    <2>2. PICK ls \in [Plains -> Encs \cup {None}] :
            ls = [NoLines EXCEPT ![req[r]] = enc[r]]
      BY <2>1, OneLine
    <2> PutMeta(ls, 1)
      BY <1>5, <2>2 DEF RecvMeta
    <2>3. /\ NewMeta \in Metas /\ metas' = metas \cup {NewMeta}
          /\ line' \in [Metas -> [Plains -> Encs \cup {None}]]
          /\ lines' \in [Metas -> Nat]
      BY SMT, PutFacts
    <2> QED
      BY <1>5, <2>3 DEF RecvMeta, TypeOK
  <1>6. ASSUME NEW r \in Requests, RecvRecord(r)
        PROVE  TypeOK'
    <2>1. new[r] \in Metas
      BY <1>6 DEF RecvRecord, NamesOK, Used
    <2> QED
      BY <1>6, <2>1, RecordFacts DEF RecvRecord, TypeOK
  <1>7. ASSUME NEW r \in Requests, RecvIndex(r)
        PROVE  TypeOK'
    BY <1>7 DEF RecvIndex, RecvEnd, RequestsOK, Good, TypeOK
  <1>8. ASSUME NEW r \in Requests, RecvFails(r)
        PROVE  TypeOK'
    BY <1>8 DEF RecvFails, RecvEnd, TypeOK
  <1>9. ASSUME NEW t \in Packers, NEW q \in Plains, PackRead(t, q)
        PROVE  TypeOK'
    <2>1. CASE index[q] = None
      BY <1>9, <2>1, PackEndType DEF PackRead, TypeOK
    <2>2. CASE index[q] # None
      <3>1. [tread[t] EXCEPT ![q] = index[q]] \in [Plains -> Encs \cup {None}]
        BY DEF TypeOK
      <3>2. /\ tleft' = [tleft EXCEPT ![t] = tleft[t] \ {q}]
            /\ tread' = [tread EXCEPT ![t] = [tread[t] EXCEPT ![q] = index[q]]]
        BY <1>9, <2>2 DEF PackRead, TypeOK
      <3> QED
        BY <1>9, <2>2, <3>1, <3>2 DEF PackRead, TypeOK
    <2> QED
      BY <2>1, <2>2
  <1>10. ASSUME NEW t \in Packers, PackUpload(t)
        PROVE  TypeOK'
    <2>1. tread[t] \in [Plains -> Encs \cup {None}] /\ tn[t] \in Nat /\ tn[t] > 0
      BY <1>10 DEF PackUpload, TypeOK, NamesOK
    <2>2. /\ NewMeta \in Metas /\ metas' = metas \cup {NewMeta}
          /\ line' \in [Metas -> [Plains -> Encs \cup {None}]]
          /\ lines' \in [Metas -> Nat]
      BY <1>10, <2>1, PutFacts DEF PackUpload
    <2> QED
      BY <1>10, <2>2 DEF PackUpload, TypeOK
  <1>11. ASSUME NEW t \in Packers, PackRecord(t)
        PROVE  TypeOK'
    <2>1. tnew[t] \in Metas
      BY <1>11 DEF PackRecord, NamesOK, Used
    <2>2. /\ heap' \subseteq Metas \X {"made", "read"}
          /\ group' = group /\ gn' = gn
          /\ holder' \in {None, Start} \cup Requests \cup Packers
      BY <1>11, <2>1, RecordFacts DEF PackRecord, TypeOK
    <2> QED
      BY <1>11, <2>2 DEF PackRecord, TypeOK
  <1>12. ASSUME NEW t \in Packers, PackDelete(t)
        PROVE  TypeOK'
    BY <1>12, PackEndType DEF PackDelete, TypeOK
  <1>13. ASSUME NEW t \in Packers, PackFails(t)
        PROVE  TypeOK'
    BY <1>13, PackEndType DEF PackFails, TypeOK
  <1>14. CASE Crash
    BY <1>14 DEF Crash, TypeOK, NoLines
  <1>15. ASSUME NEW wipe \in BOOLEAN, Restart(wipe)
        PROVE  TypeOK'
    BY <1>15 DEF Restart, TypeOK, NoLines
  <1>16. ASSUME NEW m \in Metas, StartEnum(m)
        PROVE  TypeOK'
    BY <1>16 DEF StartEnum, TypeOK
  <1>17. ASSUME NEW m \in Metas, StartFetch(m)
        PROVE  TypeOK'
    BY <1>17 DEF StartFetch, TypeOK
  <1>18. ASSUME NEW m \in Metas, StartProcess(m)
        PROVE  TypeOK'
    BY SMT, <1>18 DEF StartProcess, TypeOK
  <1>19. ASSUME NEW m \in Metas, StartProcessFails(m)
        PROVE  TypeOK'
    BY SMT, <1>19 DEF StartProcessFails, TypeOK
  <1>20. CASE StartRecord
    <2>1. working \in Metas
      BY <1>20 DEF StartRecord, TypeOK
    <2> QED
      BY <1>20, <2>1, RecordFacts DEF StartRecord, TypeOK
  <1>21. CASE StartDone
    BY <1>21 DEF StartDone, TypeOK
  <1>23. CASE StartEnumFails
    BY <1>23 DEF StartEnumFails, TypeOK
  <1>22. CASE UNCHANGED vars
    BY <1>22 DEF vars, TypeOK
  <1> QED
    BY <1>1, <1>2, <1>3, <1>4, <1>5, <1>6, <1>7, <1>8, <1>9, <1>10, <1>11, <1>12, <1>13, <1>14, <1>15, <1>16, <1>17, <1>18, <1>19, <1>20, <1>21, <1>22, <1>23 DEF Next, Popping, Packer, Starting

\* The step that stores a meta blob with one line.
LEMMA RecvMetaFacts ==
  ASSUME IInv, NEW r \in Requests, RecvMeta(r)
  PROVE  /\ req[r] \in Plains /\ enc[r] \in Encs /\ Good(enc[r], req[r])
         /\ NewMeta \in Metas /\ NewMeta \notin Used
         /\ metas' = metas \cup {NewMeta} /\ Used' = Used \cup {NewMeta}
         /\ line'[NewMeta][req[r]] = enc[r]
         /\ \A q \in Plains \ {req[r]} : line'[NewMeta][q] = None
         /\ \A m \in Metas \ {NewMeta} : line'[m] = line[m]
  <1> USE DEF IInv
  <1>1. req[r] \in Plains /\ enc[r] \in Encs /\ Good(enc[r], req[r])
    BY DEF RecvMeta, RequestsOK, Good, TypeOK
  <1> DEFINE ls == [NoLines EXCEPT ![req[r]] = enc[r]]
  <1>2. /\ ls \in [Plains -> Encs \cup {None}]
        /\ ls[req[r]] = enc[r] /\ \A q \in Plains \ {req[r]} : ls[q] = None
    BY <1>1 DEF NoLines
  <1>5. PutMeta(ls, 1)
    BY DEF RecvMeta
  <1> HIDE DEF ls
  <1>3. /\ NewMeta \in Metas /\ NewMeta \notin Used
        /\ metas' = metas \cup {NewMeta} /\ Used' = Used \cup {NewMeta}
        /\ line' = [line EXCEPT ![NewMeta] = ls]
    BY SMT, <1>2, <1>5, PutFacts
  <1>4. line'[NewMeta] = ls /\ \A m \in Metas \ {NewMeta} : line'[m] = line[m]
    BY <1>3 DEF TypeOK
  <1> QED
    BY <1>1, <1>2, <1>3, <1>4

\* The step that stores a packed meta blob.
LEMMA PackUploadFacts ==
  ASSUME IInv, NEW t \in Packers, PackUpload(t)
  PROVE  /\ NewMeta \in Metas /\ NewMeta \notin Used
         /\ metas' = metas \cup {NewMeta} /\ Used' = Used \cup {NewMeta}
         /\ line'[NewMeta] = tread[t]
         /\ \A m \in Metas \ {NewMeta} : line'[m] = line[m]
  <1> USE DEF IInv
  <1>1. tread[t] \in [Plains -> Encs \cup {None}] /\ tn[t] \in Nat /\ tn[t] > 0
    BY DEF PackUpload, TypeOK, NamesOK
  <1>2. PutMeta(tread[t], tn[t])
    BY DEF PackUpload
  <1>3. /\ NewMeta \in Metas /\ NewMeta \notin Used
        /\ metas' = metas \cup {NewMeta} /\ Used' = Used \cup {NewMeta}
        /\ line' = [line EXCEPT ![NewMeta] = tread[t]]
    BY <1>1, <1>2, PutFacts
  <1> QED
    BY <1>3 DEF TypeOK

\* A packer was started for meta blobs in use.
Spawned ==
  \E t \in Packers, ms \in SUBSET Used, n \in Nat \ {0} :
    /\ tpc[t] = "idle"
    /\ tpc' = [tpc EXCEPT ![t] = "read"]
    /\ tgroup' = [tgroup EXCEPT ![t] = ms]
    /\ tleft' = [tleft EXCEPT ![t] = PlainsOf(ms)]
    /\ tn' = [tn EXCEPT ![t] = n]
    /\ tread' = [tread EXCEPT ![t] = NoLines]
    /\ tnew' = tnew

LEMMA SpawnSpawned ==
  ASSUME IInv, NEW g \in SUBSET (Metas \X {"made", "read"}), NEW n \in Nat, n > 0,
         Spawn(g, n), \A x \in g : x[1] \in Used
  PROVE  Spawned
  <1>1. TypeOK /\ Names(g) \in SUBSET Used
    BY DEF Names, IInv
  <1> QED
    <2>1. PICK t \in Packers :
            /\ tpc[t] = "idle"
            /\ tpc' = [tpc EXCEPT ![t] = "read"]
            /\ tgroup' = [tgroup EXCEPT ![t] = Names(g)]
            /\ tleft' = [tleft EXCEPT ![t] = PlainsOf(Names(g))]
            /\ tn' = [tn EXCEPT ![t] = n]
            /\ tread' = [tread EXCEPT ![t] = NoLines]
            /\ tnew' = tnew
      BY <1>1, SpawnFacts
    <2>2. n \in Nat \ {0}
      BY SMT
    <2> QED
      BY <1>1, <2>1, <2>2 DEF Spawned

\* Popping an entry moves it to the group, or starts a packer.
LEMMA PopFacts ==
  ASSUME IInv, NEW x \in heap, Pop(x)
  PROVE  /\ heap' \subseteq heap
         /\ \/ packer' = packer /\ gn' > 0 /\ group' = group \cup {x}
            \/ Spawned /\ group' = {}
  <1>1. /\ group \cup {x} \in SUBSET (Metas \X {"made", "read"}) /\ x[1] \in Used
        /\ lines[x[1]] \in Nat /\ gn \in Nat /\ gn + lines[x[1]] > 0
    BY SMT DEF IInv, TypeOK, NamesOK, Used
  <1>2. \A y \in group \cup {x} : y[1] \in Used
    BY DEF IInv, NamesOK
  <1>3. CASE gn + lines[x[1]] > FullMetaBlobSize
    <2>1. Spawn(group \cup {x}, gn + lines[x[1]]) /\ group' = {} /\ heap' \subseteq heap
      BY <1>3 DEF Pop
    <2> QED
      BY SMT, <1>1, <1>2, <2>1, SpawnSpawned
  <1>4. CASE ~(gn + lines[x[1]] > FullMetaBlobSize)
    BY <1>1, <1>4 DEF Pop
  <1> QED
    BY <1>3, <1>4

\* The rest is given to a packer or goes back to the heap.
LEMMA PopEndFacts ==
  ASSUME IInv, PopEnd
  PROVE  /\ group' = {}
         /\ \/ packer' = packer /\ heap' = group
            \/ Spawned /\ heap' = heap
  <1>1. CASE Several
    <2>1. group # {}
      BY <1>1 DEF Several
    <2>2. /\ group \in SUBSET (Metas \X {"made", "read"}) /\ gn \in Nat /\ gn > 0
          /\ \A y \in group : y[1] \in Used
      BY <2>1 DEF IInv, TypeOK, NamesOK
    <2>3. Spawn(group, gn) /\ heap' = heap /\ group' = {}
      BY <1>1 DEF PopEnd, Several
    <2> QED
      BY <2>2, <2>3, SpawnSpawned
  <1>2. CASE ~Several
    BY <1>2 DEF PopEnd, Several
  <1> QED
    BY <1>1, <1>2

\* The packers' part of NamesOK.
PackerNames ==
  /\ \A t \in Packers : tgroup[t] \subseteq Used
  /\ \A t \in Packers : tpc[t] = "read" => tn[t] > 0
  /\ \A t \in Packers : tpc[t] = "record" => tnew[t] \in Used

LEMMA SpawnedNames ==
  ASSUME TypeOK, PackerNames, Used \subseteq Used', Spawned \/ packer' = packer
  PROVE  PackerNames'
  <1>1. CASE packer' = packer
    BY <1>1 DEF PackerNames
  <1>2. CASE Spawned
    <2>1. PICK t \in Packers, ms \in SUBSET Used, n \in Nat \ {0} :
            /\ tpc' = [tpc EXCEPT ![t] = "read"]
            /\ tgroup' = [tgroup EXCEPT ![t] = ms]
            /\ tn' = [tn EXCEPT ![t] = n]
            /\ tnew' = tnew
      BY <1>2 DEF Spawned
    <2> QED
      BY SMT, <2>1 DEF PackerNames, TypeOK
  <1> QED
    BY <1>1, <1>2

LEMMA EndNames ==
  ASSUME TypeOK, PackerNames, Used \subseteq Used', NEW t \in Packers, PackEnd(t)
  PROVE  PackerNames'
  BY DEF PackerNames, PackEnd, TypeOK

\* Meta blobs keep their names and lines.
LEMMA LineStable ==
  ASSUME IInv, [Next]_vars
  PROVE  /\ Used \subseteq Used'
         /\ \A m \in Used : line'[m] = line[m]
         /\ blobs \subseteq blobs'
  <1>1. ASSUME NEW r \in Requests, RecvMeta(r)
        PROVE  /\ Used \subseteq Used' /\ \A m \in Used : line'[m] = line[m]
               /\ blobs \subseteq blobs'
    BY <1>1, RecvMetaFacts DEF Used, RecvMeta
  <1>2. ASSUME NEW t \in Packers, PackUpload(t)
        PROVE  /\ Used \subseteq Used' /\ \A m \in Used : line'[m] = line[m]
               /\ blobs \subseteq blobs'
    BY <1>2, PackUploadFacts DEF Used, PackUpload
  <1>3. CASE line' = line /\ lines' = lines
    BY <1>3, Frames DEF Used
  <1> QED
    BY <1>1, <1>2, <1>3, Frames DEF Making

\* Only names in use are passed around.
LEMMA NextNamesOK ==
  ASSUME IInv, [Next]_vars
  PROVE  NamesOK'
  <1> USE DEF IInv
  <1>0. Used \subseteq Used'
    BY LineStable
  <1>1. ASSUME NEW x \in heap, Pop(x)
        PROVE  NamesOK'
    <2>1. PackerNames'
      BY <1>0, <1>1, PopFacts, SpawnedNames DEF NamesOK, PackerNames
    <2> QED
      BY <1>0, <2>1, <1>1, PopFacts DEF Pop, NamesOK, PackerNames
  <1>2. CASE PopEnd
    <2>1. PackerNames'
      BY <1>0, <1>2, PopEndFacts, SpawnedNames DEF NamesOK, PackerNames
    <2> QED
      BY <1>0, <2>1, <1>2, PopEndFacts DEF PopEnd, NamesOK, PackerNames
  <1>3. ASSUME NEW r \in Requests, NEW q \in Plains, RecvCheck(r, q)
        PROVE  NamesOK'
    BY <1>0, <1>3 DEF RecvCheck, NamesOK, TypeOK
  <1>4. ASSUME NEW r \in Requests, RecvStore(r)
        PROVE  NamesOK'
    BY SMT, <1>0, <1>4 DEF RecvStore, NamesOK
  <1>5. ASSUME NEW r \in Requests, RecvMeta(r)
        PROVE  NamesOK'
    <2>1. NewMeta \in Used' /\ metas' = metas \cup {NewMeta}
      BY <1>5, RecvMetaFacts
    <2> QED
      BY <1>0, <1>5, <2>1 DEF RecvMeta, NamesOK, TypeOK
  <1>6. ASSUME NEW r \in Requests, RecvRecord(r)
        PROVE  NamesOK'
    <2>1. /\ heap' \subseteq heap \cup {<<new[r], "made">>} /\ group' = group /\ gn' = gn
          /\ new[r] \in Used
      BY <1>6, RecordFacts DEF RecvRecord, NamesOK, Used
    <2> QED
      BY SMT, <1>0, <1>6, <2>1 DEF RecvRecord, NamesOK
  <1>7. ASSUME NEW r \in Requests, RecvIndex(r)
        PROVE  NamesOK'
    BY SMT, <1>0, <1>7 DEF RecvIndex, RecvEnd, NamesOK
  <1>8. ASSUME NEW r \in Requests, RecvFails(r)
        PROVE  NamesOK'
    BY SMT, <1>0, <1>8 DEF RecvFails, RecvEnd, NamesOK
  <1>9. ASSUME NEW t \in Packers, NEW q \in Plains, PackRead(t, q)
        PROVE  NamesOK'
    <2>1. CASE index[q] = None
      <3>1. PackEnd(t)
        BY <2>1, <1>9 DEF PackRead
      <3>2. PackerNames'
        BY <1>0, <3>1, EndNames DEF NamesOK, PackerNames
      <3> QED
        BY <1>0, <3>2, <1>9 DEF PackRead, NamesOK, PackerNames
    <2>2. CASE index[q] # None
      BY <1>0, <1>9, <2>2 DEF PackRead, NamesOK
    <2> QED
      BY <2>1, <2>2
  <1>10. ASSUME NEW t \in Packers, PackUpload(t)
        PROVE  NamesOK'
    <2>1. NewMeta \in Used' /\ metas' = metas \cup {NewMeta}
      BY <1>10, PackUploadFacts
    <2> QED
      BY <1>0, <1>10, <2>1 DEF PackUpload, NamesOK, TypeOK
  <1>11. ASSUME NEW t \in Packers, PackRecord(t)
        PROVE  NamesOK'
    <2>1. tnew[t] \in Used
      BY <1>11 DEF PackRecord, NamesOK
    <2>2. heap' \subseteq heap \cup {<<tnew[t], "made">>} /\ group' = group /\ gn' = gn
      BY <1>11, <2>1, RecordFacts DEF PackRecord, Used
    <2> QED
      BY SMT, <1>0, <1>11, <2>1, <2>2 DEF PackRecord, NamesOK
  <1>12. ASSUME NEW t \in Packers, PackDelete(t)
        PROVE  NamesOK'
    <2>1. PackerNames'
      BY <1>0, <1>12, EndNames DEF NamesOK, PackerNames, PackDelete
    <2> QED
      BY <1>0, <2>1, <1>12 DEF PackDelete, NamesOK, PackerNames
  <1>13. ASSUME NEW t \in Packers, PackFails(t)
        PROVE  NamesOK'
    <2>1. PackerNames'
      BY <1>0, <1>13, EndNames DEF NamesOK, PackerNames, PackFails
    <2> QED
      BY <1>0, <2>1, <1>13 DEF PackFails, NamesOK, PackerNames
  <1>14. CASE Crash
    BY <1>0, <1>14 DEF Crash, NamesOK
  <1>15. ASSUME NEW wipe \in BOOLEAN, Restart(wipe)
        PROVE  NamesOK'
    BY <1>0, <1>15 DEF Restart, NamesOK
  <1>16. ASSUME NEW m \in Metas, StartEnum(m)
        PROVE  NamesOK'
    BY <1>0, <1>16 DEF StartEnum, NamesOK
  <1>17. ASSUME NEW m \in Metas, StartFetch(m)
        PROVE  NamesOK'
    BY <1>0, <1>17 DEF StartFetch, NamesOK
  <1>18. ASSUME NEW m \in Metas, StartProcess(m)
        PROVE  NamesOK'
    BY <1>0, <1>18 DEF StartProcess, NamesOK
  <1>19. ASSUME NEW m \in Metas, StartProcessFails(m)
        PROVE  NamesOK'
    BY <1>0, <1>19 DEF StartProcessFails, NamesOK
  <1>20. CASE StartRecord
    <2>1. working \in Used
      BY <1>20 DEF StartRecord, NamesOK
    <2>2. heap' \subseteq heap \cup {<<working, "read">>} /\ group' = group /\ gn' = gn
      BY <1>20, <2>1, RecordFacts DEF StartRecord, Used
    <2> QED
      BY SMT, <1>0, <1>20, <2>1, <2>2 DEF StartRecord, NamesOK
  <1>21. CASE StartDone
    BY <1>0, <1>21 DEF StartDone, NamesOK
  <1>23. CASE StartEnumFails
    BY <1>0, <1>23 DEF StartEnumFails, NamesOK
  <1>22. CASE UNCHANGED vars
    BY <1>0, <1>22 DEF vars, NamesOK
  <1> QED
    BY <1>1, <1>2, <1>3, <1>4, <1>5, <1>6, <1>7, <1>8, <1>9, <1>10, <1>11, <1>12, <1>13, <1>14, <1>15, <1>16, <1>17, <1>18, <1>19, <1>20, <1>21, <1>22, <1>23 DEF Next, Popping, Packer, Starting

\* What a step may do to a packer: nothing, end it, start it, let it read
\* one line, upload or record.
Same(k) == tgroup'[k] = tgroup[k] /\ tleft'[k] = tleft[k] /\ tread'[k] = tread[k]
Kept(k) == tpc'[k] = tpc[k] /\ Same(k)
Ended(k) == tpc'[k] = "idle" /\ tgroup'[k] = {} /\ tleft'[k] = {} /\ tread'[k] = NoLines
Begun(k) ==
    /\ tpc[k] = "idle" /\ tpc'[k] = "read" /\ tgroup'[k] \subseteq Used
    /\ tleft'[k] = PlainsOf(tgroup'[k]) /\ tread'[k] = NoLines
ReadOne(k) ==
    /\ tpc[k] = "read" /\ tpc'[k] = "read" /\ tgroup'[k] = tgroup[k]
    /\ \E q \in Plains :
        /\ tleft'[k] = tleft[k] \ {q} /\ index[q] # None /\ tread'[k][q] = index[q]
        /\ \A p \in Plains \ {q} : tread'[k][p] = tread[k][p]
Uploaded(k) ==
    /\ tpc[k] = "read" /\ tpc'[k] = "record" /\ Same(k) /\ tleft[k] = {}
    /\ PackUpload(k)
RecordedStep(k) == tpc[k] = "record" /\ tpc'[k] = "delete" /\ Same(k)
Step(k) ==
    Kept(k) \/ Ended(k) \/ Begun(k) \/ ReadOne(k) \/ Uploaded(k) \/ RecordedStep(k)

LEMMA SpawnedSteps ==
  ASSUME TypeOK, NEW k \in Packers, packer' = packer \/ Spawned
  PROVE  Kept(k) \/ Begun(k)
  <1>1. CASE packer' = packer
    BY <1>1 DEF Kept, Same
  <1>2. CASE Spawned
    <2>1. PICK t \in Packers, ms \in SUBSET Used, n \in Nat \ {0} :
            /\ tpc[t] = "idle"
            /\ tpc' = [tpc EXCEPT ![t] = "read"]
            /\ tgroup' = [tgroup EXCEPT ![t] = ms]
            /\ tleft' = [tleft EXCEPT ![t] = PlainsOf(ms)]
            /\ tread' = [tread EXCEPT ![t] = NoLines]
      BY <1>2 DEF Spawned
    <2>2. CASE k = t
      <3>1. tgroup'[k] = ms
        BY <2>1, <2>2 DEF TypeOK
      <3>2. /\ tpc[k] = "idle" /\ tpc'[k] = "read" /\ tleft'[k] = PlainsOf(ms)
            /\ tread'[k] = NoLines
        BY <2>1, <2>2 DEF TypeOK
      <3> QED
        BY <3>1, <3>2 DEF Begun
    <2>3. CASE k # t
      BY <2>1, <2>3 DEF TypeOK, Kept, Same
    <2> QED
      BY <2>2, <2>3
  <1> QED
    BY <1>1, <1>2

LEMMA EndSteps ==
  ASSUME TypeOK, NEW k \in Packers, NEW t \in Packers, PackEnd(t)
  PROVE  Kept(k) \/ Ended(k)
  BY DEF TypeOK, PackEnd, Kept, Same, Ended

\* These are the steps of a packer.
LEMMA PackerSteps ==
  ASSUME IInv, [Next]_vars, NEW k \in Packers
  PROVE  Step(k)
  <1>0. TypeOK
    BY DEF IInv
  <1>1. ASSUME NEW x \in heap, Pop(x)
        PROVE  Step(k)
    BY <1>0, <1>1, PopFacts, SpawnedSteps DEF Step
  <1>2. CASE PopEnd
    BY <1>0, <1>2, PopEndFacts, SpawnedSteps DEF Step
  <1>3. ASSUME NEW r \in Requests, NEW q \in Plains, RecvCheck(r, q)
        PROVE  Step(k)
    BY <1>3 DEF RecvCheck, Step, Kept, Same
  <1>4. ASSUME NEW r \in Requests, RecvStore(r)
        PROVE  Step(k)
    BY <1>4 DEF RecvStore, Step, Kept, Same
  <1>5. ASSUME NEW r \in Requests, RecvMeta(r)
        PROVE  Step(k)
    BY <1>5 DEF RecvMeta, Step, Kept, Same
  <1>6. ASSUME NEW r \in Requests, RecvRecord(r)
        PROVE  Step(k)
    BY <1>6 DEF RecvRecord, Step, Kept, Same
  <1>7. ASSUME NEW r \in Requests, RecvIndex(r)
        PROVE  Step(k)
    BY <1>7 DEF RecvIndex, RecvEnd, Step, Kept, Same
  <1>8. ASSUME NEW r \in Requests, RecvFails(r)
        PROVE  Step(k)
    BY <1>8 DEF RecvFails, RecvEnd, Step, Kept, Same
  <1>9. ASSUME NEW t \in Packers, NEW q \in Plains, PackRead(t, q)
        PROVE  Step(k)
    <2>1. CASE index[q] = None
      BY <1>0, <2>1, <1>9, EndSteps DEF PackRead, Step
    <2>2. CASE index[q] # None
      <3>1. /\ tpc[t] = "read" /\ tpc' = tpc /\ tgroup' = tgroup
            /\ tleft' = [tleft EXCEPT ![t] = tleft[t] \ {q}]
            /\ tread' = [tread EXCEPT ![t] = [tread[t] EXCEPT ![q] = index[q]]]
        BY <2>2, <1>9 DEF PackRead
      <3>2. CASE k = t
        <4>1. tread'[k] = [tread[t] EXCEPT ![q] = index[q]]
          BY <1>0, <3>1, <3>2 DEF TypeOK
        <4>2. /\ tread'[k][q] = index[q]
              /\ \A p \in Plains \ {q} : tread'[k][p] = tread[k][p]
          BY <1>0, <3>2, <4>1 DEF TypeOK
        <4>3. tleft'[k] = tleft[k] \ {q} /\ tgroup'[k] = tgroup[k]
          BY <1>0, <3>1, <3>2 DEF TypeOK
        <4> QED
          BY <2>2, <3>1, <3>2, <4>2, <4>3 DEF Step, ReadOne
      <3>3. CASE k # t
        BY <1>0, <3>1, <3>3 DEF TypeOK, Step, Kept, Same
      <3> QED
        BY <3>2, <3>3
    <2> QED
      BY <2>1, <2>2
  <1>10. ASSUME NEW t \in Packers, PackUpload(t)
        PROVE  Step(k)
    <2>1. CASE k = t
      BY <1>0, <2>1, <1>10 DEF PackUpload, TypeOK, Step, Uploaded, Same
    <2>2. CASE k # t
      BY <1>0, <2>2, <1>10 DEF PackUpload, TypeOK, Step, Kept, Same
    <2> QED
      BY <2>1, <2>2
  <1>11. ASSUME NEW t \in Packers, PackRecord(t)
        PROVE  Step(k)
    BY <1>0, <1>11 DEF PackRecord, TypeOK, Step, Kept, RecordedStep, Same
  <1>12. ASSUME NEW t \in Packers, PackDelete(t)
        PROVE  Step(k)
    BY <1>0, <1>12, EndSteps DEF PackDelete, Step
  <1>13. ASSUME NEW t \in Packers, PackFails(t)
        PROVE  Step(k)
    BY <1>0, <1>13, EndSteps DEF PackFails, Step
  <1>14. CASE Crash
    BY <1>14 DEF Crash, Step, Ended
  <1>15. ASSUME NEW wipe \in BOOLEAN, Restart(wipe)
        PROVE  Step(k)
    BY <1>15 DEF Restart, Step, Kept, Same
  <1>16. ASSUME NEW m \in Metas, StartEnum(m)
        PROVE  Step(k)
    BY <1>16 DEF StartEnum, Step, Kept, Same
  <1>17. ASSUME NEW m \in Metas, StartFetch(m)
        PROVE  Step(k)
    BY <1>17 DEF StartFetch, Step, Kept, Same
  <1>18. ASSUME NEW m \in Metas, StartProcess(m)
        PROVE  Step(k)
    BY <1>18 DEF StartProcess, Step, Kept, Same
  <1>19. ASSUME NEW m \in Metas, StartProcessFails(m)
        PROVE  Step(k)
    BY <1>19 DEF StartProcessFails, Step, Kept, Same
  <1>20. CASE StartRecord
    BY <1>20 DEF StartRecord, Step, Kept, Same
  <1>21. CASE StartDone
    BY <1>21 DEF StartDone, Step, Kept, Same
  <1>23. CASE StartEnumFails
    BY <1>23 DEF StartEnumFails, Step, Kept, Same
  <1>22. CASE UNCHANGED vars
    BY <1>22 DEF vars, Step, Kept, Same
  <1> QED
    BY <1>1, <1>2, <1>3, <1>4, <1>5, <1>6, <1>7, <1>8, <1>9, <1>10, <1>11, <1>12, <1>13, <1>14, <1>15, <1>16, <1>17, <1>18, <1>19, <1>20, <1>21, <1>22, <1>23 DEF Next, Popping, Packer, Starting

\* What packers have read comes from the index.
LEMMA ReadFacts ==
  ASSUME IInv, [Next]_vars, NEW k \in Packers, NEW p \in Plains
  PROVE  tread'[k][p] \in {None, tread[k][p], index[p]}
  BY PackerSteps DEF Step, Kept, Same, Ended, Begun, ReadOne, Uploaded,
     RecordedStep, NoLines

\* Lines and index entries are of encrypted blobs that are stored.
LEMMA NextLinesOK ==
  ASSUME IInv, [Next]_vars
  PROVE  LinesOK'
  <1>r. \A k \in Packers : \A p \in Plains :
            tread'[k][p] \in {None, tread[k][p], index[p]}
    BY ReadFacts
  <1>l. MetaLinesOK /\ IndexOK /\ ReadOK /\ RequestsOK
    BY DEF IInv, LinesOK
  <1> USE <1>l
  <1>0. blobs \subseteq blobs'
    BY LineStable
  <1>1. ReadOK'
    <2> SUFFICES ASSUME NEW k \in Packers, NEW p \in Plains, tread'[k][p] # None
                 PROVE  tread'[k][p] \in blobs' /\ Plain[tread'[k][p]] = p
      BY DEF ReadOK, Good
    <2>1. tread'[k][p] \in {None, tread[k][p], index[p]}
      BY <1>r
    <2> QED
      BY SMT, <1>0, <2>1 DEF ReadOK, IndexOK, Good
  <1>2. MetaLinesOK'
    <2>1. ASSUME NEW r \in Requests, RecvMeta(r),
                 NEW m \in Metas, NEW p \in Plains, line'[m][p] # None
          PROVE  Good(line'[m][p], p)
      <3>1. CASE m = NewMeta
        BY <2>1, <3>1, RecvMetaFacts
      <3>2. CASE m # NewMeta
        BY <2>1, <3>2, RecvMetaFacts DEF MetaLinesOK
      <3> QED
        BY <3>1, <3>2
    <2>2. ASSUME NEW t \in Packers, PackUpload(t),
                 NEW m \in Metas, NEW p \in Plains, line'[m][p] # None
          PROVE  Good(line'[m][p], p)
      BY SMT, <2>2, PackUploadFacts DEF MetaLinesOK, ReadOK
    <2>3. ASSUME line' = line, NEW m \in Metas, NEW p \in Plains, line'[m][p] # None
          PROVE  Good(line'[m][p], p)
      BY <2>3 DEF MetaLinesOK
    <2>4. ASSUME NEW m \in Metas, NEW p \in Plains, line'[m][p] # None
          PROVE  line'[m][p] \in blobs' /\ Plain[line'[m][p]] = p
      BY <1>0, <2>1, <2>2, <2>3, <2>4, Frames DEF Making, Good
    <2> QED
      BY <2>4 DEF MetaLinesOK, Good
  <1>3. IndexOK'
    <2>0. index \in [Plains -> Encs \cup {None}]
      BY DEF IInv, TypeOK
    <2>1. ASSUME NEW r \in Requests, RecvIndex(r), NEW p \in Plains, index'[p] # None
          PROVE  Good(index'[p], p)
      BY <2>0, <2>1 DEF RecvIndex, RequestsOK, IndexOK
    <2>2. ASSUME NEW m \in Metas, StartProcess(m) \/ StartProcessFails(m),
                 NEW p \in Plains, index'[p] # None
          PROVE  Good(index'[p], p)
      BY <2>2 DEF StartProcess, StartProcessFails, MetaLinesOK, IndexOK
    <2>3. ASSUME NEW wipe \in BOOLEAN, Restart(wipe), NEW p \in Plains, index'[p] # None
          PROVE  Good(index'[p], p)
      BY <2>3 DEF Restart, NoLines, IndexOK
    <2>4. ASSUME NEW p \in Plains, index'[p] # None
          PROVE  index'[p] \in blobs' /\ Plain[index'[p]] = p
      <3>1. Good(index'[p], p)
        BY <2>1, <2>2, <2>3, <2>4, Frames DEF Indexing, Processing, ProcessFailing,
           Restarting, IndexOK
      <3> QED
        BY <1>0, <3>1 DEF Good
    <2> QED
      BY <2>4 DEF IndexOK, Good
  <1> QED
    BY <1>1, <1>2, <1>3 DEF LinesOK

\* Which meta blobs packers will delete.
LEMMA DoomedDef ==
  \A m : m \in Doomed <=>
    \E t \in Packers : tpc[t] \in {"record", "delete"} /\ m \in tgroup[t]
  BY DEF Doomed

\* A step adds at most one meta blob, under a new name, and deletes only what
\* packers were about to delete.
LEMMA MetasStep ==
  ASSUME IInv, [Next]_vars
  PROVE  /\ metas \ Doomed \subseteq metas'
         /\ Used' = Used \/ (metas' \cap Used = metas /\ Used' \ Used \subseteq metas')
  <1>1. ASSUME NEW r \in Requests, RecvMeta(r)
        PROVE  /\ metas \subseteq metas' /\ Used' \ Used \subseteq metas'
               /\ metas' \cap Used = metas
    BY <1>1, RecvMetaFacts DEF IInv, NamesOK
  <1>2. ASSUME NEW t \in Packers, PackUpload(t)
        PROVE  /\ metas \subseteq metas' /\ Used' \ Used \subseteq metas'
               /\ metas' \cap Used = metas
    BY <1>2, PackUploadFacts DEF IInv, NamesOK
  <1>3. ASSUME NEW t \in Packers, PackDelete(t)
        PROVE  metas \ Doomed \subseteq metas' /\ Used' = Used
    BY <1>3, DoomedDef DEF PackDelete, Used
  <1>4. CASE metas' = metas /\ lines' = lines
    BY <1>4 DEF Used
  <1> QED
    BY <1>1, <1>2, <1>3, <1>4, Frames DEF Making, Deleting

\* Only an upload adds to what packers will delete.
LEMMA DoomedStep ==
  ASSUME IInv, [Next]_vars, \A t \in Packers : ~PackUpload(t)
  PROVE  Doomed' \subseteq Doomed
  <1> SUFFICES ASSUME NEW m \in Doomed'
               PROVE  m \in Doomed
    OBVIOUS
  <1>1. PICK t \in Packers : tpc'[t] \in {"record", "delete"} /\ m \in tgroup'[t]
    BY DEF Doomed
  <1>2. Step(t)
    BY PackerSteps
  <1>3. tpc[t] \in {"record", "delete"} /\ m \in tgroup[t]
    BY <1>1, <1>2 DEF Step, Kept, Same, Ended, Begun, ReadOne, Uploaded, RecordedStep
  <1> QED
    BY <1>3 DEF Doomed

\* What a packer has read covers what it will delete, and whatever a meta
\* blob said stays in a meta blob.
LEMMA NextPackersOK ==
  ASSUME IInv, [Next]_vars
  PROVE  PackersOK'
  <1>1. /\ Used \subseteq Used' /\ \A m \in Used : line'[m] = line[m]
    BY LineStable
  <1>2. /\ metas \ Doomed \subseteq metas'
        /\ Used' = Used \/ Used' \ Used \subseteq metas'
    BY MetasStep
  <1>3. Doomed \subseteq Used
    BY DoomedDef DEF IInv, NamesOK
  <1>4. ASSUME NEW k \in Packers, tpc'[k] = "read",
               NEW p \in Plains, p \notin tleft'[k],
               NEW m \in tgroup'[k], line'[m][p] # None
        PROVE  tread'[k][p] # None
    <2>1. tgroup'[k] \subseteq Used
      BY PackerSteps, <1>4 DEF Step, Kept, Same, Ended, Begun, ReadOne, Uploaded,
         RecordedStep, IInv, NamesOK
    <2>2. p \in PlainsOf(tgroup'[k])
      BY <1>1, <1>4, <2>1 DEF PlainsOf
    <2>3. Step(k)
      BY PackerSteps
    <2>4. CASE Begun(k)
      BY <1>4, <2>2, <2>4 DEF Begun
    <2>5. CASE Kept(k) \/ ReadOne(k)
      <3>1. tgroup'[k] = tgroup[k] /\ tpc[k] = "read"
        BY <1>4, <2>5 DEF Kept, Same, ReadOne
      <3>2. p \notin tleft[k] => tread[k][p] # None
        BY <2>2, <3>1 DEF IInv, PackersOK
      <3>3. CASE Kept(k)
        BY <1>4, <3>2, <3>3 DEF Kept, Same
      <3>4. CASE ReadOne(k)
        BY <1>4, <3>2, <3>4 DEF ReadOne
      <3> QED
        BY <2>5, <3>3, <3>4
    <2> QED
      BY <1>4, <2>3, <2>4, <2>5 DEF Step, Ended, Uploaded, RecordedStep
  <1>5. ASSUME NEW p \in Plains, NEW m \in Used', line'[m][p] # None
        PROVE  \E y \in metas' \ Doomed' : line'[y][p] # None
    <2>1. CASE \A t \in Packers : ~PackUpload(t)
      <3>1. Doomed' \subseteq Doomed
        BY <2>1, DoomedStep
      <3>2. CASE m \in Used
        <4>1. PICK y \in metas \ Doomed : line[y][p] # None
          BY <1>1, <1>5, <3>2 DEF IInv, PackersOK, Has
        <4>2. y \in Used
          BY <4>1 DEF IInv, NamesOK
        <4> QED
          BY <1>1, <1>2, <3>1, <4>1, <4>2
      <3>3. CASE m \notin Used
        BY <1>2, <1>3, <1>5, <3>1, <3>3
      <3> QED
        BY <3>2, <3>3
    <2>2. ASSUME NEW t \in Packers, PackUpload(t)
          PROVE  \E y \in metas' \ Doomed' : line'[y][p] # None
      <3>1. /\ NewMeta \in Metas /\ NewMeta \notin Used
            /\ metas' = metas \cup {NewMeta} /\ Used' = Used \cup {NewMeta}
            /\ line'[NewMeta] = tread[t]
        BY <2>2, PackUploadFacts
      <3>2. /\ tpc[t] = "read" /\ tleft[t] = {} /\ tgroup' = tgroup
            /\ tpc' = [tpc EXCEPT ![t] = "record"]
        BY <2>2 DEF PackUpload
      <3>3. Doomed' \subseteq Doomed \cup tgroup[t]
        BY SMT, <3>2 DEF Doomed, IInv, TypeOK
      <3>4. NewMeta \notin Doomed'
        BY <1>3, <3>1, <3>3 DEF IInv, NamesOK
      <3>5. CASE tread[t][p] # None
        BY <3>1, <3>4, <3>5
      <3>6. CASE tread[t][p] = None
        <4>1. m \in Used /\ line[m][p] # None
          BY <1>1, <1>5, <3>1, <3>6
        <4>2. PICK y \in metas \ Doomed : line[y][p] # None
          BY <4>1 DEF IInv, PackersOK, Has
        <4>3. p \notin PlainsOf(tgroup[t])
          BY <3>2, <3>6 DEF IInv, PackersOK
        <4>4. y \notin tgroup[t]
          BY <4>2, <4>3 DEF PlainsOf
        <4>5. y \in Used
          BY <4>2 DEF IInv, NamesOK
        <4> QED
          BY <1>1, <3>1, <3>3, <4>2, <4>4, <4>5
      <3> QED
        BY <3>5, <3>6
    <2> QED
      BY <2>1, <2>2
  <1> QED
    BY <1>4, <1>5 DEF PackersOK, Has, PlainsOf

\* What is said stays said.
LEMMA HasStable ==
  ASSUME IInv, [Next]_vars, NEW p \in Plains, Has(Used, p)
  PROVE  \E m \in metas' : line'[m][p] # None
  <1>1. PICK m \in metas \ Doomed : line[m][p] # None
    BY DEF IInv, PackersOK, Has
  <1>2. m \in Used
    BY <1>1 DEF IInv, NamesOK
  <1> QED
    BY <1>1, <1>2, MetasStep, LineStable

\* An upload under way is of a plaintext, its encrypted blob and its meta
\* blob are stored, and there is none before the server is up.
LEMMA NextRequestsOK ==
  ASSUME IInv, [Next]_vars
  PROVE  RequestsOK'
  <1> DEFINE H(p) == \E m \in metas' : line'[m][p] # None
             ReqOK(r) ==
               /\ pc'[r] # "idle" => req'[r] \in Plains
               /\ pc'[r] \in {"meta", "record", "index"} =>
                     enc'[r] \in blobs' /\ Plain[enc'[r]] = req'[r]
               /\ pc'[r] \in {"record", "index"} => H(req'[r])
  <1>0. TypeOK /\ metas \subseteq Used /\ blobs \subseteq blobs' /\ RequestsOK
    BY LineStable DEF IInv, NamesOK
  <1>1. \A p \in Plains : Has(metas, p) => H(p)
    BY <1>0, HasStable DEF Has
  <1> HIDE DEF H
  <1>2. ASSUME NEW r \in Requests, pc'[r] = pc[r], req'[r] = req[r], enc'[r] = enc[r]
        PROVE  ReqOK(r)
    BY <1>0, <1>1, <1>2 DEF RequestsOK, Good
  <1>3. ASSUME NEW r \in Requests PROVE ReqOK(r)
    <2>1. ASSUME NEW k \in Requests, NEW q \in Plains, RecvCheck(k, q)
          PROVE  ReqOK(r)
      <3>1. CASE k = r /\ pc' # pc
        BY <1>0, <2>1, <3>1 DEF RecvCheck, TypeOK
      <3>2. CASE k # r \/ pc' = pc
        <4>1. pc'[r] = pc[r] /\ req'[r] = req[r] /\ enc' = enc
          BY <1>0, <2>1, <3>2 DEF RecvCheck, TypeOK
        <4> QED
          BY <1>2, <4>1
      <3> QED
        BY <3>1, <3>2
    <2>2. ASSUME NEW k \in Requests, RecvStore(k)
          PROVE  ReqOK(r)
      <3>1. CASE k = r
        BY <1>0, <2>2, <3>1 DEF RecvStore, TypeOK, RequestsOK
      <3>2. CASE k # r
        BY <1>0, <1>2, <2>2, <3>2 DEF RecvStore, TypeOK
      <3> QED
        BY <3>1, <3>2
    <2>3. ASSUME NEW k \in Requests, RecvMeta(k)
          PROVE  ReqOK(r)
      <3>1. CASE k = r
        <4>1. H(req[r])
          <5>1. NewMeta \in metas' /\ line'[NewMeta][req[r]] = enc[r] /\ enc[r] \in Encs
            BY <2>3, <3>1, RecvMetaFacts
          <5>2. enc[r] # None
            BY <5>1, EncryptAssumption
          <5> QED
            BY <5>1, <5>2 DEF H
        <4>2. /\ pc[r] = "meta" /\ pc'[r] = "record"
              /\ req' = req /\ enc' = enc
          BY <1>0, <2>3, <3>1 DEF RecvMeta, TypeOK
        <4> QED
          BY <1>0, <4>1, <4>2 DEF RequestsOK, Good
      <3>2. CASE k # r
        BY <1>0, <1>2, <2>3, <3>2 DEF RecvMeta, TypeOK
      <3> QED
        BY <3>1, <3>2
    <2>4. ASSUME NEW k \in Requests, RecvRecord(k)
          PROVE  ReqOK(r)
      <3>1. CASE k = r
        <4>1. /\ pc[r] = "record" /\ pc'[r] = "index"
              /\ req' = req /\ enc' = enc
          BY <1>0, <2>4, <3>1 DEF RecvRecord, TypeOK
        <4> QED
          BY <1>0, <1>1, <4>1 DEF RequestsOK, Good
      <3>2. CASE k # r
        BY <1>0, <1>2, <2>4, <3>2 DEF RecvRecord, TypeOK
      <3> QED
        BY <3>1, <3>2
    <2>5. ASSUME NEW k \in Requests, RecvIndex(k) \/ RecvFails(k)
          PROVE  ReqOK(r)
      <3>1. CASE k = r
        BY <1>0, <2>5, <3>1 DEF RecvIndex, RecvFails, RecvEnd, TypeOK
      <3>2. CASE k # r
        BY <1>0, <1>2, <2>5, <3>2 DEF RecvIndex, RecvFails, RecvEnd, TypeOK
      <3> QED
        BY <3>1, <3>2
    <2>6. CASE Crash
      BY <2>6 DEF Crash
    <2>7. CASE request' = request
      BY <1>2, <2>7
    <2> QED
      BY <2>1, <2>2, <2>3, <2>4, <2>5, <2>6, <2>7, Frames DEF Receiving, RequestStep
  <1>4. ASSUME up' # "up", NEW r \in Requests
        PROVE  pc'[r] = "idle"
    <2>1. CASE Crash
      BY <2>1 DEF Crash
    <2>2. CASE up # "up" /\ pc' = pc
      BY <1>0, <2>2 DEF RequestsOK
    <2>3. up # "up" \/ Crash
      BY <1>4, Frames DEF Fetching, StartFetch, ProcessFailing, StartProcessFails, StartEnumFails,
         StartDone, Restarting, Restart
    <2>4. ASSUME Receiving
          PROVE  up = "up"
      BY <1>0, <2>4 DEF Receiving, RequestStep, RecvCheck, RecvStore, RecvMeta,
         RecvRecord, RecvIndex, RecvFails, RequestsOK
    <2> QED
      BY <2>1, <2>2, <2>3, <2>4, Frames
  <1> QED
    BY <1>3, <1>4 DEF RequestsOK, Good, Has, H

\* How index and acked change.
LEMMA IndexStep ==
  ASSUME IInv, [Next]_vars
  PROVE  /\ \A p \in Plains :
             index'[p] # None =>
                index[p] # None \/ Has(Used, p)
         /\ \A p \in acked' \ acked :
             /\ p \in Plains /\ Has(Used, p) /\ index'[p] # None /\ up = "up"
             /\ up' = "up"
         /\ \/ up = "down" /\ up' = "starting" /\ must' = metas /\ done' = {}
                /\ acked' = acked
            \/ \A p \in Plains : index[p] # None => index'[p] # None
  <1>t. /\ index \in [Plains -> Encs \cup {None}] /\ acked \subseteq Plains
        /\ RequestsOK /\ RecordedOK /\ NamesOK /\ None \notin Encs /\ blobs \subseteq Encs
    BY EncryptAssumption DEF IInv, TypeOK
  <1> USE <1>t
  <1>u. metas \subseteq Used /\ got \subseteq Used
    BY DEF NamesOK
  <1>1. ASSUME NEW r \in Requests, RecvIndex(r)
        PROVE  /\ req[r] \in Plains /\ enc[r] # None /\ Has(Used, req[r])
               /\ up = "up" /\ up' = "up" /\ acked' = acked \cup {req[r]}
               /\ index' = [index EXCEPT ![req[r]] = enc[r]]
    BY <1>1, <1>u DEF RecvIndex, RequestsOK, Good, Has
  <1>2. ASSUME NEW r \in Requests, NEW q \in Plains, RecvCheck(r, q)
        PROVE  /\ acked' = acked \/ (acked' = acked \cup {q} /\ index[q] # None)
               /\ up = "up" /\ up' = "up" /\ index' = index
    BY <1>2 DEF RecvCheck
  <1>3. ASSUME NEW m \in Metas, StartProcess(m)
        PROVE  /\ m \in Used /\ acked' = acked
               /\ index' = [p \in Plains |-> IF line[m][p] # None THEN line[m][p]
                                             ELSE index[p]]
    BY <1>3, <1>u DEF StartProcess
  <1>f. ASSUME NEW m \in Metas, StartProcessFails(m)
        PROVE  /\ m \in Used /\ acked' = acked
               /\ \E ps \in SUBSET Plains : index' =
                    [p \in Plains |-> IF p \in ps /\ line[m][p] # None
                                      THEN line[m][p] ELSE index[p]]
    BY <1>f, <1>u DEF StartProcessFails
  <1>4. ASSUME NEW wipe \in BOOLEAN, Restart(wipe)
        PROVE  /\ up = "down" /\ up' = "starting" /\ must' = metas /\ done' = {}
               /\ acked' = acked /\ index' \in {index, NoLines}
    BY <1>4 DEF Restart
  <1>5. \A p \in Plains : index[p] # None => Has(Used, p)
    BY <1>u DEF RecordedOK, Has
  <1>a. CASE \E r \in Requests : RecvIndex(r)
    BY SMT, <1>a, <1>1
  <1>b. CASE \E r \in Requests, q \in Plains : RecvCheck(r, q)
    BY <1>b, <1>2, <1>5
  <1>c. CASE \E m \in Metas : StartProcess(m)
    BY <1>c, <1>3 DEF Has
  <1>g. CASE \E m \in Metas : StartProcessFails(m)
    BY <1>g, <1>f DEF Has
  <1>d. CASE \E wipe \in BOOLEAN : Restart(wipe)
    BY <1>d, <1>4 DEF NoLines
  <1>e. CASE index' = index /\ acked' = acked
    BY <1>e
  <1> QED
    <2>1. CASE Receiving
      <3>1. \/ index' = index /\ acked' = acked
            \/ \E r \in Requests : RecvIndex(r)
            \/ \E r \in Requests, q \in Plains : RecvCheck(r, q)
        BY <2>1 DEF Receiving, RequestStep, RecvStore, RecvMeta, RecvRecord, RecvFails
      <3> QED
        BY <3>1, <1>a, <1>b, <1>e
    <2>2. CASE ~Receiving
      BY <2>2, <1>a, <1>c, <1>d, <1>e, <1>g, Frames DEF Indexing, Processing,
         ProcessFailing, Restarting
    <2> QED
      BY <2>1, <2>2

\* What is acknowledged or in the index is said by a stored meta blob.
LEMMA NextRecordedOK ==
  ASSUME IInv, [Next]_vars
  PROVE  RecordedOK'
  <1>1. metas \subseteq Used
    BY DEF IInv, NamesOK
  <1>2. ASSUME NEW p \in Plains, p \in acked' \/ index'[p] # None
        PROVE  Has(Used, p)
    <2>1. p \in acked \/ index[p] # None \/ Has(Used, p)
      BY <1>2, IndexStep
    <2> QED
      BY <1>1, <2>1 DEF IInv, RecordedOK, Has
  <1> QED
    BY <1>2, HasStable DEF RecordedOK, Has

\* Start-up covers what was acknowledged and fills the index.
LEMMA NextStartOK ==
  ASSUME IInv, [Next]_vars
  PROVE  StartOK'
  <1>0. /\ Used \subseteq Used' /\ must \subseteq Used /\ done \subseteq Used
        /\ metas \subseteq Used /\ \A m \in Used : line'[m] = line[m]
        /\ acked \subseteq Plains
    BY LineStable, IndexStep DEF IInv, NamesOK, TypeOK
  <1>1. ASSUME up' = "starting", NEW p \in acked'
        PROVE  \E m \in must' : line'[m][p] # None
    <2>1. CASE up = "starting" /\ must' = must
      <3>1. p \in acked
        BY <2>1, IndexStep
      <3> QED
        BY <1>0, <2>1, <3>1 DEF IInv, StartOK, Has
    <2>2. CASE up = "down" /\ must' = metas /\ acked' = acked
      BY <1>0, <2>2 DEF IInv, RecordedOK, Has
    <2>3. CASE up = "starting" /\ (Processing \/ StartDone \/ Crash \/ Restarting)
      BY <1>1, <2>1, <2>3 DEF Processing, StartProcess, StartDone, Crash, Restarting,
         Restart
    <2>4. CASE Restarting
      BY <2>2, <2>4 DEF Restarting, Restart
    <2>5. up = "starting" \/ Restarting
      BY <1>1, Frames DEF Fetching, StartFetch, ProcessFailing, StartProcessFails, StartEnumFails,
         StartDone, Crash
    <2> QED
      BY <2>1, <2>3, <2>4, <2>5, Frames
  <1>2. ASSUME NEW m \in done', NEW p \in Plains, line'[m][p] # None
        PROVE  index'[p] # None
    <2>1. CASE m \in done
      <3>1. line[m][p] # None
        BY <1>0, <1>2, <2>1
      <3>2. index[p] # None
        BY <2>1, <3>1 DEF IInv, StartOK
      <3> QED
        BY <1>2, <3>2, IndexStep
    <2>2. CASE m \notin done
      <3>1. PICK y \in Metas : StartProcess(y)
        BY <1>2, <2>2, Frames DEF Processing, StartDone, Crash, Restarting, Restart
      <3>2. m = y /\ line' = line
        BY <1>2, <2>2, <3>1 DEF StartProcess
      <3> QED
        BY <1>2, <3>1, <3>2 DEF StartProcess
    <2> QED
      BY <2>1, <2>2
  <1>3. up' = "down" => done' = {}
    <2>1. up = "down" => done = {}
      BY DEF IInv, StartOK
    <2> QED
      BY <2>1, Frames DEF Fetching, StartFetch, Processing, StartProcess,
         ProcessFailing, StartProcessFails, StartEnumFails, StartDone, Crash, Restarting, Restart
  <1> QED
    BY <1>1, <1>2, <1>3 DEF StartOK, Has

\* While the server is up the index has what was acknowledged.
LEMMA NextServed ==
  ASSUME IInv, [Next]_vars
  PROVE  Served'
  <1>1. IndexOK'
    BY NextLinesOK DEF LinesOK
  <1>2. ASSUME up' = "up", NEW p \in acked'
        PROVE  p \in Plains /\ index'[p] # None
    <2>1. CASE p \notin acked
      BY <2>1, IndexStep
    <2>2. CASE p \in acked
      <3>0. p \in Plains
        BY <2>2 DEF IInv, TypeOK
      <3>1. up = "up" \/ StartDone
        BY <1>2, Frames DEF Fetching, StartFetch, ProcessFailing, StartProcessFails, StartEnumFails,
           Crash, Restarting, Restart
      <3>2. index[p] # None
        <4>1. CASE up = "up"
          BY ZenonT(40), <2>2, <4>1, EncryptAssumption DEF IInv, Served, TypeOK
        <4>2. CASE StartDone
          BY <2>2, <3>0, <4>2 DEF StartDone, IInv, StartOK, Has
        <4> QED
          BY <3>1, <4>1, <4>2
      <3> QED
        BY <1>2, <3>0, <3>2, IndexStep
    <2> QED
      BY <2>1, <2>2
  <1> QED
    BY <1>1, <1>2 DEF Served, IndexOK, Good

\* The invariant holds in every state: NamesOK, LinesOK and PackersOK say why
\* the compactions lose nothing.
THEOREM EncryptInvariance == Spec => []IInv
  <1>1. IInv /\ [Next]_vars => IInv'
    <2> SUFFICES ASSUME IInv, [Next]_vars PROVE IInv'
      OBVIOUS
    <2>1. TypeOK'
      BY NextTypeOK DEF IInv
    <2> QED
      BY <2>1, NextNamesOK, NextLinesOK, NextRequestsOK, NextPackersOK,
         NextStartOK, NextRecordedOK, NextServed DEF IInv
  <1> QED
    BY InitIInv, <1>1, PTL DEF Spec

\* The state is well typed: only meta blobs are recorded and packed.
THEOREM EncryptTypeCorrect == Spec => []TypeOK
  BY EncryptInvariance, PTL DEF IInv

\* The invariant says that what was acknowledged is in a stored meta blob.
LEMMA IInvDurable == IInv => Durable
  <1> SUFFICES ASSUME IInv, NEW p \in acked
               PROVE  Recorded(p)
    BY DEF Durable
  <1>1. p \in Plains
    BY DEF IInv, TypeOK
  <1>2. PICK m \in metas : line[m][p] # None
    BY <1>1 DEF IInv, RecordedOK, Has
  <1>3. m \in Metas
    BY DEF IInv, TypeOK
  <1> QED
    BY <1>1, <1>2, <1>3 DEF Recorded, IInv, LinesOK, MetaLinesOK, Good

\* makePackedMetaBlob deletes the blobs it packed, while others pack what it
\* made: what ReceiveBlob acknowledged is in a stored meta blob throughout.
THEOREM EncryptDurability == Spec => []Durable
  BY EncryptInvariance, IInvDurable, PTL

\* readAllMetaBlobs restores the index, a wiped one included: Fetch finds
\* what was acknowledged whenever the server is up.
THEOREM EncryptServes == Spec => []Served
  BY EncryptInvariance, PTL DEF IInv

-----------------------------------------------------------------------------
\* ReceiveBlob returns for one plaintext, and what is stored stays.
LEMMA AckStep ==
  ASSUME [Next]_vars, acked' # acked
  PROVE  /\ blobs' = blobs /\ metas' = metas /\ line' = line
         /\ \E p : acked' = acked \cup {p}
  <1>1. PICK r \in Requests : RequestStep(r)
    BY Frames DEF Receiving
  <1>2. ASSUME NEW p \in Plains, RecvCheck(r, p)
        PROVE  UNCHANGED disk /\ (acked' = acked \/ acked' = acked \cup {p})
    BY <1>2 DEF RecvCheck
  <1>3. CASE RecvIndex(r)
    BY <1>3 DEF RecvIndex
  <1>4. CASE RecvStore(r) \/ RecvMeta(r) \/ RecvRecord(r) \/ RecvFails(r)
    BY <1>4 DEF RecvStore, RecvMeta, RecvRecord, RecvFails
  <1> QED
    BY <1>1, <1>2, <1>3, <1>4 DEF RequestStep

\* Every step is a step of the abstract storage.
LEMMA StorageStep ==
  ASSUME TypeOK', Durable', [Next]_vars
  PROVE  Storage!Next
  <1>1. \A p \in acked' : p \in Plains /\ Recorded(p)'
    BY DEF TypeOK, Durable
  <1>2. CASE acked' = acked
    BY <1>1, <1>2 DEF Storage!Next, Storage!Internal
  <1>3. CASE acked' # acked
    <2>1. PICK p : acked' = acked \cup {p}
      BY <1>3, AckStep
    <2>2. \A x : Recorded(x)' <=> Recorded(x)
      BY <1>3, AckStep DEF Recorded
    <2>3. p \in Plains /\ Recorded(p)'
      BY <1>1, <2>1
    <2> QED
      BY <2>1, <2>2, <2>3 DEF Storage!Next, Storage!ReceiveBlob
  <1> QED
    BY <1>2, <1>3

\* The storage implements the contract of pkg/blobserver/interface.go: every
\* step, a compaction, a crash or a start-up included, is one of BlobStorage.
THEOREM EncryptRefinement == Spec => StorageContract
  <1>1. Init => Storage!Init
    BY DEF Init, Storage!Init, Recorded
  <1>2. TypeOK' /\ Durable' /\ [Next]_vars => Storage!Next
    BY StorageStep
  <1> QED
    BY <1>1, <1>2, EncryptTypeCorrect, EncryptDurability, PTL
    DEF Spec, StorageContract, Storage!Spec
=============================================================================
