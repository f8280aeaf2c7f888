------------------------- MODULE IndexReceiveProofs -------------------------
(***************************************************************************)
(* Proofs about IndexReceive, for any set of blobs with any dependencies,  *)
(* any number of failures and crashes.  The inductive invariant IInv of    *)
(* IndexReceive is preserved by what ReceiveBlob does, whoever calls it    *)
(* (first part), and by the other actions (second part).                   *)
(***************************************************************************)
EXTENDS IndexReceive, FiniteSetTheorems, TLAPS

USE ZenonT(30), IndexAssumption DEF store, waiting, async, mutex, reindex

\* What a call of ReceiveBlob on a blob of the source establishes.
Called(b) == b \in Blobs /\ b \in src /\ ReceiveBlob(b)

LEMMA NoteNeededType ==
  ASSUME TypeOK, NEW b \in Blobs, NEW M \in SUBSET Blobs, NoteNeeded(b, M)
  PROVE  /\ rows' \subseteq Blobs \X Blobs
         /\ needs' \in [Blobs -> SUBSET Blobs]
         /\ neededBy' \in [Blobs -> SUBSET Blobs]
  BY SMT DEF TypeOK, NoteNeeded, NoteNeededMemory

\* The failures of a step are counted, and no others.
LEMMA FailsType ==
  ASSUME TypeOK, NEW ks \in SUBSET FailKinds, Fails(ks)
  PROVE  /\ fails' \in [FailKinds -> Nat]
         /\ \A x \in FailKinds : fails'[x] >= fails[x]
         /\ \A x \in ks : fails'[x] > 0
  BY SMT DEF TypeOK, Fails

LEMMA FailType ==
  ASSUME TypeOK, NEW k \in FailKinds, Fail(k)
  PROVE  /\ fails' \in [FailKinds -> Nat]
         /\ \A x \in FailKinds : fails'[x] >= fails[x]
         /\ fails'[k] > 0
  <1>1. {k} \in SUBSET FailKinds /\ Fails({k}) BY DEF Fail
  <1> QED BY <1>1, FailsType

\* What commit and addBlob leave behind.
WrittenTo(b, h, ks) ==
  /\ Fails(ks) /\ have' = [have EXCEPT ![b] = h]
  /\ \/ ret' = "ok" /\ unnoted' = unnoted
     \/ ret' = "failed" /\ unnoted' = unnoted \cup {b} /\ "corpus" \in ks

NotWrittenTo(ks) ==
  Fails(ks) /\ "set" \in ks /\ ret' = "err" /\ UNCHANGED <<have, unnoted>>

LEMMA WrittenCases ==
  ASSUME NEW b, NEW h, NEW ks \in SUBSET FailKinds, Written(b, h, ks)
  PROVE  \E all \in SUBSET FailKinds : ks \subseteq all /\ WrittenTo(b, h, all)
  <1>0. "corpus" \in FailKinds BY DEF FailKinds
  <1>1. CASE Fails(ks) /\ ret' = "ok" /\ UNCHANGED unnoted
    <2>1. WrittenTo(b, h, ks) BY <1>1 DEF Written, WrittenTo
    <2> QED BY <2>1
  <1>2. CASE Fails(ks \cup {"corpus"}) /\ ret' = "failed" /\ unnoted' = unnoted \cup {b}
    <2>1. WrittenTo(b, h, ks \cup {"corpus"}) BY <1>2 DEF Written, WrittenTo
    <2>2. ks \cup {"corpus"} \in SUBSET FailKinds BY <1>0
    <2> QED BY <2>1, <2>2
  <1> QED BY <1>1, <1>2 DEF Written

LEMMA NotWrittenCases ==
  ASSUME NEW ks \in SUBSET FailKinds, NotWritten(ks)
  PROVE  \E all \in SUBSET FailKinds : ks \subseteq all /\ NotWrittenTo(all)
  <1>1. ks \cup {"set"} \in SUBSET FailKinds BY DEF FailKinds
  <1>2. NotWrittenTo(ks \cup {"set"}) BY DEF NotWritten, NotWrittenTo
  <1> QED BY <1>1, <1>2

\* A commit, with the failures ks.
Committed(b, noted, unread, lost, ks) ==
  /\ unread => "fetch" \in ks
  /\ lost => "meta" \in ks
  /\ DepsRead(b, unread) /\ TargetFound(b, noted, lost)
  /\ \/ /\ WrittenTo(b, "indexed", ks)
        /\ unlisted' = IF unread THEN unlisted \cup {b} ELSE unlisted \ {b}
        /\ deleted' = IF noted THEN deleted \cup {b} ELSE deleted
        /\ deletes' = IF Target[b] # None THEN deletes \cup {b} ELSE deletes
     \/ NotWrittenTo(ks) /\ UNCHANGED <<unlisted, deleted, deletes>>

LEMMA CommitCases ==
  ASSUME NEW b, Commit(b)
  PROVE  /\ have[b] # "indexed" /\ UNCHANGED <<src, rows, needs, neededBy, ready>>
         /\ \E noted, unread, lost \in BOOLEAN : \E ks \in SUBSET FailKinds :
              Committed(b, noted, unread, lost, ks)
  <1> DEFINE K(unread, lost) == (IF unread THEN {"fetch"} ELSE {})
                                   \cup (IF lost THEN {"meta"} ELSE {})
  <1>1. PICK noted, unread, lost \in BOOLEAN :
          /\ DepsRead(b, unread) /\ TargetFound(b, noted, lost)
          /\ \/ /\ Written(b, "indexed", K(unread, lost))
                /\ unlisted' = IF unread THEN unlisted \cup {b} ELSE unlisted \ {b}
                /\ deleted' = IF noted THEN deleted \cup {b} ELSE deleted
                /\ deletes' = IF Target[b] # None THEN deletes \cup {b} ELSE deletes
             \/ /\ NotWritten(K(unread, lost))
                /\ UNCHANGED <<unlisted, deleted, deletes>>
    BY DEF Commit
  <1>2. /\ K(unread, lost) \in SUBSET FailKinds
        /\ unread => "fetch" \in K(unread, lost)
        /\ lost => "meta" \in K(unread, lost)
    BY DEF FailKinds
  <1> HIDE DEF K
  <1>3. CASE Written(b, "indexed", K(unread, lost))
             /\ unlisted' = (IF unread THEN unlisted \cup {b} ELSE unlisted \ {b})
             /\ deleted' = (IF noted THEN deleted \cup {b} ELSE deleted)
             /\ deletes' = (IF Target[b] # None THEN deletes \cup {b} ELSE deletes)
    <2>1. PICK all \in SUBSET FailKinds :
            K(unread, lost) \subseteq all /\ WrittenTo(b, "indexed", all)
      BY <1>2, <1>3, WrittenCases
    <2>2. Committed(b, noted, unread, lost, all)
      BY <1>1, <1>2, <1>3, <2>1 DEF Committed
    <2> QED BY <2>2 DEF Commit
  <1>4. CASE NotWritten(K(unread, lost)) /\ UNCHANGED <<unlisted, deleted, deletes>>
    <2>1. PICK all \in SUBSET FailKinds :
            K(unread, lost) \subseteq all /\ NotWrittenTo(all)
      BY <1>2, <1>4, NotWrittenCases
    <2>2. Committed(b, noted, unread, lost, all)
      BY <1>1, <1>2, <1>4, <2>1 DEF Committed
    <2> QED BY <2>2 DEF Commit
  <1> QED BY <1>1, <1>3, <1>4

\* A claim whose target is missing: its miss is noted and it is committed as
\* unfinished, or a write has failed.
LEMMA TargetCases ==
  ASSUME NEW b, MissingTarget(b)
  PROVE  /\ have[b] # "indexed" /\ Target[b] # None /\ have[Target[b]] = "none"
         /\ UNCHANGED <<src, deleted, unlisted, ready, deletes>>
         /\ \/ /\ NoteNeeded(b, {Target[b]})
               /\ \E ks \in SUBSET FailKinds :
                    WrittenTo(b, "partial", ks) \/ NotWrittenTo(ks)
            \/ /\ Fail("set") /\ ret' = "failed"
               /\ UNCHANGED <<rows, needs, neededBy, have, unnoted>>
  <1>1. {} \in SUBSET FailKinds OBVIOUS
  <1>2. Written(b, "partial", {}) =>
          \E ks \in SUBSET FailKinds : WrittenTo(b, "partial", ks)
    BY <1>1, WrittenCases
  <1>3. NotWritten({}) => \E ks \in SUBSET FailKinds : NotWrittenTo(ks)
    BY <1>1, NotWrittenCases
  <1> QED BY <1>2, <1>3 DEF MissingTarget

\* The blobs that a missing dependency leaves on record, if any.
LEMMA DepCases ==
  ASSUME NEW b \in Blobs, MissingDep(b)
  PROVE  /\ have[b] # "indexed"
         /\ UNCHANGED <<src, have, deleted, unlisted, ready, unnoted, deletes>>
         /\ \E M \in SUBSET (Deps[b] \ src) :
              /\ NoteNeeded(b, M)
              /\ \/ M # {} /\ ret' = "noted" /\ UNCHANGED fails
                 \/ Fail("set") /\ ret' = "failed"
  <1>1. PICK M \in SUBSET (Deps[b] \ src) : M # {} /\
          \/ NoteNeeded(b, M) /\ ret' = "noted" /\ UNCHANGED fails
          \/ /\ Fail("set") /\ ret' = "failed"
             /\ \E N \in SUBSET M : N # M /\ NoteNeeded(b, N)
    BY DEF MissingDep
  <1>2. CASE NoteNeeded(b, M) /\ ret' = "noted" /\ UNCHANGED fails
    BY <1>1, <1>2 DEF MissingDep
  <1>3. CASE /\ Fail("set") /\ ret' = "failed"
             /\ \E N \in SUBSET M : N # M /\ NoteNeeded(b, N)
    <2>1. PICK N \in SUBSET M : NoteNeeded(b, N) BY <1>3
    <2>2. N \in SUBSET (Deps[b] \ src) BY <1>1, <2>1
    <2> QED BY <1>3, <2>1, <2>2 DEF MissingDep
  <1> QED BY <1>1, <1>2, <1>3

\* The variables that ReceiveBlob may change keep their types.
LEMMA ReceiveType ==
  ASSUME TypeOK, NEW b, Called(b)
  PROVE  /\ src' = src /\ ready' = ready /\ lock = None /\ lock' = b
         /\ have' \in [Blobs -> {"none", "partial", "indexed"}]
         /\ rows' \subseteq Blobs \X Blobs
         /\ deleted' \subseteq Blobs /\ deletes' \subseteq Blobs
         /\ unlisted' \subseteq Blobs /\ unnoted' \subseteq Blobs
         /\ needs' \in [Blobs -> SUBSET Blobs]
         /\ neededBy' \in [Blobs -> SUBSET Blobs]
         /\ ret' \in {"ok", "noted", "err", "failed"}
         /\ fails' \in [FailKinds -> Nat]
         /\ \A k \in FailKinds : fails'[k] >= fails[k]
  <1> USE DEF Called
  <1>0. {"set", "fetch", "meta"} \subseteq FailKinds BY DEF FailKinds
  <1>1. CASE AlreadyIndexed(b)
    BY SMT, <1>1 DEF AlreadyIndexed, TypeOK, ReceiveBlob
  <1>2. CASE MissingDep(b)
    <2>1. PICK M \in SUBSET (Deps[b] \ src) :
            /\ NoteNeeded(b, M) /\ ret' \in {"noted", "failed"}
            /\ UNCHANGED fails \/ Fail("set")
      BY <1>2, DepCases
    <2>2. M \in SUBSET Blobs OBVIOUS
    <2>3. /\ fails' \in [FailKinds -> Nat]
          /\ \A k \in FailKinds : fails'[k] >= fails[k]
      BY SMT, <1>0, <2>1, FailType DEF TypeOK
    <2> QED BY <1>2, <2>1, <2>2, <2>3, NoteNeededType, DepCases DEF TypeOK, ReceiveBlob
  <1>3. CASE MissingTarget(b)
    <2>1. Target[b] \in Blobs BY <1>3, TargetCases
    <2>2. {Target[b]} \in SUBSET Blobs BY <2>1
    <2>3. CASE UNCHANGED <<rows, needs, neededBy, have, unnoted>> /\ Fail("set")
               /\ ret' = "failed"
      BY <1>0, <1>3, <2>3, TargetCases, FailType DEF TypeOK, ReceiveBlob
    <2>4. CASE /\ NoteNeeded(b, {Target[b]})
               /\ \E ks \in SUBSET FailKinds :
                    WrittenTo(b, "partial", ks) \/ NotWrittenTo(ks)
      <3>1. PICK ks \in SUBSET FailKinds :
              WrittenTo(b, "partial", ks) \/ NotWrittenTo(ks)
        BY <2>4
      <3>2. Fails(ks) BY <3>1 DEF WrittenTo, NotWrittenTo
      <3>3. /\ have' \in [Blobs -> {"none", "partial", "indexed"}]
            /\ unnoted' \subseteq Blobs /\ ret' \in {"ok", "err", "failed"}
        BY <3>1 DEF WrittenTo, NotWrittenTo, TypeOK
      <3> QED
        BY <1>3, <2>2, <2>4, <3>2, <3>3, FailsType, NoteNeededType, TargetCases
        DEF TypeOK, ReceiveBlob
    <2> QED BY <1>3, <2>3, <2>4, TargetCases
  <1>4. CASE Commit(b)
    <2>1. PICK noted, unread, lost \in BOOLEAN, ks \in SUBSET FailKinds :
            Committed(b, noted, unread, lost, ks)
      BY <1>4, CommitCases
    <2>2. Fails(ks) BY <2>1 DEF Committed, WrittenTo, NotWrittenTo
    <2>3. /\ have' \in [Blobs -> {"none", "partial", "indexed"}]
          /\ unnoted' \subseteq Blobs /\ ret' \in {"ok", "err", "failed"}
      BY <2>1 DEF Committed, WrittenTo, NotWrittenTo, TypeOK
    <2>4. /\ deleted' \subseteq Blobs /\ deletes' \subseteq Blobs
          /\ unlisted' \subseteq Blobs
      BY <2>1 DEF Committed, TypeOK
    <2> QED BY <1>4, <2>2, <2>3, <2>4, FailsType, CommitCases DEF TypeOK, ReceiveBlob
  <1>5. CASE FetchError(b)
    BY <1>5, <1>0, FailType DEF FetchError, TypeOK, ReceiveBlob
  <1> QED
    BY <1>1, <1>2, <1>3, <1>4, <1>5 DEF ReceiveBlob

\* A row is never taken back, and only b's rows change.
LEMMA ReceiveHave ==
  ASSUME TypeOK, NEW b, Called(b)
  PROVE  /\ \A x \in Blobs : x # b => have'[x] = have[x]
         /\ \A x \in Blobs : have[x] # "none" => have'[x] # "none"
         /\ \A x \in Blobs : have[x] = "indexed" => have'[x] = "indexed"
         /\ \A x \in Blobs : x # b \/ have[x] = "indexed" =>
              (x \in unlisted' <=> x \in unlisted)
         /\ deleted \subseteq deleted'
         /\ \A e \in rows' : e \in rows \/ e[1] = b
  <1> USE DEF Called, TypeOK
  <1>1. CASE AlreadyIndexed(b)
    BY <1>1 DEF AlreadyIndexed
  <1>2. CASE MissingDep(b)
    <2>1. PICK M : NoteNeeded(b, M) BY <1>2, DepCases
    <2>2. \A e \in rows' : e \in rows \/ e[1] = b BY SMT, <2>1 DEF NoteNeeded
    <2> QED BY <1>2, <2>2, DepCases
  <1>3. CASE MissingTarget(b)
    <2>1. NoteNeeded(b, {Target[b]}) \/ rows' = rows BY <1>3, TargetCases
    <2>2. \A e \in rows' : e \in rows \/ e[1] = b BY SMT, <2>1 DEF NoteNeeded
    <2>3. have' = have \/ have' = [have EXCEPT ![b] = "partial"]
      BY <1>3, TargetCases DEF WrittenTo, NotWrittenTo
    <2>4. have[b] # "indexed" /\ UNCHANGED <<deleted, unlisted>> BY <1>3, TargetCases
    <2> QED BY <2>2, <2>3, <2>4
  <1>4. CASE Commit(b)
    <2>1. PICK noted, unread, lost \in BOOLEAN, ks \in SUBSET FailKinds :
            Committed(b, noted, unread, lost, ks)
      BY <1>4, CommitCases
    <2>2. have' = have \/ have' = [have EXCEPT ![b] = "indexed"]
      BY <2>1 DEF Committed, WrittenTo, NotWrittenTo
    <2>3. /\ deleted \subseteq deleted'
          /\ \A x \in Blobs : x # b => (x \in unlisted' <=> x \in unlisted)
      BY <2>1 DEF Committed
    <2>4. have[b] # "indexed" /\ rows' = rows BY <1>4, CommitCases
    <2> QED BY <2>2, <2>3, <2>4
  <1>5. CASE FetchError(b)
    BY <1>5 DEF FetchError
  <1> QED
    BY <1>1, <1>2, <1>3, <1>4, <1>5 DEF ReceiveBlob

LEMMA ReceiveComplete ==
  ASSUME TypeOK, IndexedIsComplete, NEW b, Called(b)
  PROVE  IndexedIsComplete'
  <1> SUFFICES ASSUME NEW x \in Blobs, have'[x] = "indexed"
               PROVE  /\ \/ Deps[x] \subseteq src' /\ x \notin unlisted'
                         \/ x \in Dirs /\ x \in unlisted' /\ fails'["fetch"] > 0
                      /\ Target[x] # None /\ fails'["meta"] = 0 =>
                          /\ have'[Target[x]] # "none"
                          /\ Target[x] \in Deletable => x \in deleted'
    BY DEF IndexedIsComplete
  <1>0. "meta" \in FailKinds /\ "fetch" \in FailKinds BY DEF FailKinds
  <1>1. /\ fails'["meta"] = 0 => fails["meta"] = 0
        /\ fails["fetch"] > 0 => fails'["fetch"] > 0
    BY SMT, <1>0, ReceiveType DEF TypeOK
  <1>2. CASE have[x] = "indexed"
    <2>1. Target[x] # None => Target[x] \in Blobs OBVIOUS
    <2>2. \/ Deps[x] \subseteq src' /\ x \notin unlisted'
          \/ x \in Dirs /\ x \in unlisted' /\ fails'["fetch"] > 0
      BY <1>1, <1>2, ReceiveType, ReceiveHave DEF IndexedIsComplete
    <2> QED
      BY <1>1, <1>2, <2>1, <2>2, ReceiveType, ReceiveHave DEF IndexedIsComplete
  <1>3. CASE have[x] # "indexed"
    <2>1. x = b /\ b \in Blobs BY SMT, <1>3, ReceiveHave DEF Called
    <2>2. Commit(b)
      <3>1. ~AlreadyIndexed(b) BY <1>3, <2>1 DEF AlreadyIndexed
      <3>2. ~MissingDep(b) BY <1>3, <2>1, DepCases
      <3>3. ~FetchError(b) BY <1>3, <2>1 DEF FetchError
      <3>4. ~MissingTarget(b)
        <4>1. SUFFICES ASSUME MissingTarget(b) PROVE FALSE OBVIOUS
        <4>2. have' = have \/ have' = [have EXCEPT ![b] = "partial"]
          BY <4>1, TargetCases DEF WrittenTo, NotWrittenTo
        <4> QED BY <1>3, <2>1, <4>2 DEF TypeOK
      <3> QED BY <3>1, <3>2, <3>3, <3>4 DEF Called, ReceiveBlob
    <2>3. PICK noted, unread, lost \in BOOLEAN, ks \in SUBSET FailKinds :
            Committed(b, noted, unread, lost, ks)
      BY <2>2, CommitCases
    <2>4. WrittenTo(b, "indexed", ks)
      BY <1>3, <2>1, <2>3 DEF Committed, NotWrittenTo
    <2>5. /\ unlisted' = IF unread THEN unlisted \cup {b} ELSE unlisted \ {b}
          /\ deleted' = IF noted THEN deleted \cup {b} ELSE deleted
      <3>1. ~NotWrittenTo(ks) BY <2>4 DEF WrittenTo, NotWrittenTo
      <3> QED BY <2>3, <3>1 DEF Committed
    <2>6. Fails(ks) BY <2>4 DEF WrittenTo
    <2>7. ASSUME Target[b] # None, fails'["meta"] = 0
          PROVE  have[Target[b]] # "none" /\ (Target[b] \in Deletable => noted)
      <3>1. ~(fails'["meta"] > 0) BY SMT, <2>7
      <3>2. ~lost BY <2>3, <2>6, <3>1, FailsType DEF Committed
      <3> QED BY <2>3, <2>7, <3>2 DEF Committed, TargetFound
    <2>8. \/ Deps[b] \subseteq src /\ ~unread
          \/ b \in Dirs /\ unread /\ fails'["fetch"] > 0
      BY <2>3, <2>6, FailsType DEF Committed, DepsRead
    <2>9. src' = src BY ReceiveType
    <2> QED BY <2>1, <2>5, <2>7, <2>8, <2>9, ReceiveHave
  <1> QED BY <1>2, <1>3

LEMMA NoteNeededInverse ==
  ASSUME TypeOK, NeededByIsInverse, NEW b \in Blobs, NEW M \in SUBSET Blobs,
         NoteNeeded(b, M)
  PROVE  NeededByIsInverse'
  <1>1. /\ \A x \in Blobs : needs'[x] = IF x = b THEN needs[b] \cup M ELSE needs[x]
        /\ \A m \in Blobs : neededBy'[m] = IF m \in M THEN neededBy[m] \cup {b}
                                                      ELSE neededBy[m]
    BY DEF TypeOK, NoteNeeded, NoteNeededMemory
  <1> SUFFICES ASSUME NEW x \in Blobs, NEW m \in Blobs
               PROVE  m \in needs'[x] <=> x \in neededBy'[m]
    BY DEF NeededByIsInverse
  <1>2. m \in needs[x] <=> x \in neededBy[m] BY DEF NeededByIsInverse
  <1>3. CASE x = b BY <1>1, <1>2, <1>3
  <1>4. CASE x # b BY <1>1, <1>2, <1>4
  <1> QED BY <1>3, <1>4

\* ReceiveBlob notes blobs that b names, or nothing.
LEMMA ReceiveNotes ==
  ASSUME NEW b, Called(b)
  PROVE  \/ UNCHANGED <<needs, neededBy, rows>>
         \/ \E M \in SUBSET (Refs(b) \cap Blobs) : NoteNeeded(b, M)
  <1> USE DEF Called
  <1>1. CASE MissingDep(b)
    <2>1. PICK M \in SUBSET (Deps[b] \ src) : NoteNeeded(b, M) BY <1>1, DepCases
    <2>2. M \in SUBSET (Refs(b) \cap Blobs) BY DEF Refs
    <2> QED BY <2>1, <2>2
  <1>2. CASE MissingTarget(b)
    <2>1. Target[b] # None BY <1>2, TargetCases
    <2>2. {Target[b]} \in SUBSET (Refs(b) \cap Blobs) BY <2>1 DEF Refs
    <2> QED BY <1>2, <2>2, TargetCases
  <1>3. CASE Commit(b) BY <1>3, CommitCases
  <1> QED
    BY <1>1, <1>2, <1>3 DEF ReceiveBlob, AlreadyIndexed, FetchError

LEMMA ReceiveInverse ==
  ASSUME TypeOK, NeededByIsInverse, NEW b, Called(b)
  PROVE  NeededByIsInverse'
  <1>1. CASE UNCHANGED <<needs, neededBy, rows>>
    BY <1>1 DEF NeededByIsInverse
  <1>2. CASE \E M \in SUBSET (Refs(b) \cap Blobs) : NoteNeeded(b, M)
    BY <1>2, NoteNeededInverse DEF Called
  <1> QED BY <1>1, <1>2, ReceiveNotes

\* How ReceiveBlob changes needs: not at all, or b gets needs for blobs that
\* are not indexed; and what the outcomes "ok" and "noted" mean.
LEMMA ReceiveNeeds ==
  ASSUME TypeOK, InSource, NEW b, Called(b)
  PROVE  /\ \A x \in Blobs : x # b => needs'[x] = needs[x]
         /\ needs[b] \subseteq needs'[b]
         /\ \A m \in needs'[b] : m \in needs[b] \/ have[m] = "none"
         /\ ret' \in {"ok", "noted"} =>
              have'[b] = "indexed" \/ needs'[b] # {}
         /\ have' # have => ret' \in {"ok", "err"} \/ b \in unnoted'
         /\ unnoted \subseteq unnoted'
  <1> USE DEF Called, TypeOK
  <1>1. CASE AlreadyIndexed(b)
    BY <1>1 DEF AlreadyIndexed
  <1>2. CASE MissingDep(b)
    <2>1. PICK M \in SUBSET (Deps[b] \ src) :
            NoteNeeded(b, M) /\ (M # {} \/ ret' = "failed")
      BY <1>2, DepCases
    <2>2. \A m \in M : m \in Blobs /\ have[m] = "none" BY DEF InSource
    <2>3. have' = have /\ unnoted' = unnoted BY <1>2, DepCases
    <2>4. needs' = [needs EXCEPT ![b] = needs[b] \cup M]
      BY <2>1 DEF NoteNeeded, NoteNeededMemory
    <2> QED BY <2>1, <2>2, <2>3, <2>4
  <1>3. CASE MissingTarget(b)
    <2>1. Target[b] \in Blobs /\ have[Target[b]] = "none"
      BY <1>3, TargetCases
    <2>2. CASE /\ NoteNeeded(b, {Target[b]})
               /\ \E ks \in SUBSET FailKinds :
                    WrittenTo(b, "partial", ks) \/ NotWrittenTo(ks)
      <3>1. needs' = [needs EXCEPT ![b] = needs[b] \cup {Target[b]}]
        BY <2>2 DEF NoteNeeded, NoteNeededMemory
      <3>2. ret' \in {"ok", "err"} \/ b \in unnoted'
        BY <2>2 DEF WrittenTo, NotWrittenTo
      <3>3. unnoted \subseteq unnoted'
        BY <2>2 DEF WrittenTo, NotWrittenTo
      <3> QED BY <2>1, <3>1, <3>2, <3>3
    <2>3. CASE UNCHANGED <<rows, needs, neededBy, have, unnoted>> /\ ret' = "failed"
      BY <2>3
    <2> QED BY <1>3, <2>2, <2>3, TargetCases
  <1>4. CASE Commit(b)
    <2>1. PICK noted, unread, lost \in BOOLEAN, ks \in SUBSET FailKinds :
            Committed(b, noted, unread, lost, ks)
      BY <1>4, CommitCases
    <2>2. needs' = needs BY <1>4, CommitCases
    <2>3. CASE WrittenTo(b, "indexed", ks)
      BY <2>2, <2>3 DEF WrittenTo
    <2>4. CASE NotWrittenTo(ks)
      BY <2>2, <2>4 DEF NotWrittenTo
    <2> QED BY <2>1, <2>3, <2>4 DEF Committed
  <1>5. CASE FetchError(b)
    BY <1>5 DEF FetchError
  <1> QED
    BY <1>1, <1>2, <1>3, <1>4, <1>5 DEF ReceiveBlob

LEMMA ReceiveFresh ==
  ASSUME IInv, NEW b, Called(b), crashes' = crashes
  PROVE  FreshNeeds'
  <1> SUFFICES ASSUME crashes = 0, NEW x \in Blobs, NEW m \in needs'[x]
               PROVE  \/ have'[m] = "none" \/ m \in unnoted'
                      \/ lock' = m /\ ret' \in {"ok", "err"}
    BY DEF FreshNeeds
  <1> USE DEF IInv
  <1>0. b \in Blobs BY DEF Called
  <1>1. lock = None /\ lock' = b BY ReceiveType
  <1>2. m \in Blobs BY ReceiveType
  <1>3. have[m] = "none" \/ m \in unnoted
    <2>1. CASE m \in needs[x]
      BY ZenonT(40), <1>1, <1>2, <2>1 DEF FreshNeeds
    <2>2. CASE m \notin needs[x]
      BY <2>2, <1>0, ReceiveNeeds
    <2> QED BY <2>1, <2>2
  <1>4. CASE m \notin unnoted /\ have'[m] # "none"
    <2>1. m = b BY SMT, <1>2, <1>3, <1>4, ReceiveHave
    <2>2. have' # have BY <1>3, <1>4
    <2> QED BY <2>1, <2>2, <1>1, ReceiveNeeds
  <1>5. CASE m \in unnoted BY <1>5, ReceiveNeeds
  <1> QED BY <1>4, <1>5

\* Callers keep b's trace, unless ReceiveBlob leaves a new one.
LEMMA ReceiveSettled ==
  ASSUME IInv, NEW b, Called(b), UNCHANGED <<acked, crashes>>,
         dropped \subseteq dropped',
         \A x \in Blobs : x # b => hand'[x] = hand[x],
         hand'[b] = hand[b] \/ (ret' \in {"err", "failed"} => b \in dropped')
  PROVE  AckedSettled'
  <1> SUFFICES ASSUME crashes = 0, NEW x \in Blobs,
                      x \in acked \/ (lock' = x /\ ret' \in {"ok", "noted"})
               PROVE  Settled(x)'
    BY DEF AckedSettled
  <1> USE DEF IInv
  <1>0. b \in Blobs BY DEF Called
  <1>1. ready' = ready /\ lock' = b /\ ret' \in {"ok", "noted", "err", "failed"}
    BY ReceiveType
  <1>2. needs[x] \subseteq needs'[x] BY ReceiveNeeds
  <1>3. CASE ret' \in {"ok", "noted"} /\ x = b
    BY <1>3, ReceiveNeeds DEF Settled
  <1>4. CASE x # b
    <2>1. Settled(x) BY <1>1, <1>4 DEF AckedSettled
    <2> QED BY <2>1, <1>1, <1>2, <1>4, ReceiveHave DEF Settled
  <1>5. CASE x = b /\ ret' \in {"err", "failed"}
    <2>1. Settled(x) BY <1>1, <1>5 DEF AckedSettled
    <2> QED BY <2>1, <1>0, <1>1, <1>2, <1>5, ReceiveHave DEF Settled
  <1> QED BY <1>1, <1>3, <1>4, <1>5

LEMMA ReceiveInSource ==
  ASSUME TypeOK, InSource, NEW b, Called(b), todo' \subseteq todo,
         \A x \in Blobs : hand'[x] > 0 => hand[x] > 0
  PROVE  InSource'
  <1>1. b \in src /\ b \in Blobs BY DEF Called
  <1>2. src' = src /\ ready' = ready /\ lock' = b BY ReceiveType
  <1>3. \A x \in Blobs : have'[x] # "none" \/ needs'[x] # {} \/ hand'[x] > 0 =>
          x \in src
    BY SMT, <1>1, ReceiveHave, ReceiveNeeds DEF InSource
  <1>4. \A e \in rows' : e[1] \in src
    BY SMT, <1>1, ReceiveHave DEF InSource
  <1> QED BY <1>1, <1>2, <1>3, <1>4 DEF InSource

\* The three callers of ReceiveBlob.
LEMMA NextReceive ==
  ASSUME IInv, NEW b \in Blobs, Receive(b) \/ ReindexOne(b) \/ IndexReady(b)
  PROVE  IInv'
  <1> USE DEF IInv
  <1>1. Called(b)
    BY DEF Called, Receive, ReindexOne, IndexReady, InSource
  <1>2. /\ UNCHANGED <<acked, crashes>> /\ dropped \subseteq dropped'
        /\ \A x \in Blobs : x # b => hand'[x] = hand[x]
        /\ hand'[b] = hand[b] \/ (ret' \in {"err", "failed"} => b \in dropped')
        /\ todo' \subseteq todo
        /\ \A x \in Blobs : hand'[x] > 0 => hand[x] > 0
    BY DEF Receive, ReindexOne, IndexReady, TypeOK
  <1>3. /\ hand' \in [Blobs -> Nat] /\ dropped' \subseteq Blobs
        /\ nerr' \in Nat /\ todo' \subseteq Blobs /\ result' = result /\ mode' = mode
        /\ loopers' \in Nat /\ loopers' >= loopers
    BY SMT DEF Receive, ReindexOne, IndexReady, TypeOK
  <1>4. TypeOK' BY <1>1, <1>2, <1>3, ReceiveType DEF TypeOK
  <1>5. InSource' BY <1>1, <1>2, ReceiveInSource
  <1>6. IndexedIsComplete' /\ NeededByIsInverse'
    BY <1>1, ReceiveComplete, ReceiveInverse
  <1>7. ReadyIsServed'
    <2>1. Cardinality(ready) \in Nat
      BY FS_Subset, FS_CardinalityType DEF TypeOK
    <2> QED BY SMT, <1>1, <1>3, <2>1, ReceiveType DEF ReadyIsServed, TypeOK
  <1>8. FreshNeeds' /\ AckedSettled'
    BY <1>1, <1>2, ReceiveFresh, ReceiveSettled
  <1> QED BY <1>4, <1>5, <1>6, <1>7, <1>8
-----------------------------------------------------------------------------
LEMMA NowReadyFinite ==
  ASSUME TypeOK, NEW br \in Blobs
  PROVE  /\ NowReady(br) \subseteq Blobs
         /\ IsFiniteSet(NowReady(br)) /\ Cardinality(NowReady(br)) \in Nat
         /\ IsFiniteSet(ready) /\ Cardinality(ready) \in Nat
  <1>1. NowReady(br) \subseteq Blobs /\ ready \subseteq Blobs
    BY DEF NowReady, TypeOK
  <1> QED BY <1>1, FS_Subset, FS_CardinalityType

\* The deferred function when the blob counts as indexed.
LEMMA NextNoted ==
  ASSUME IInv, lock # None, ret \in {"ok", "err"}, Return
  PROVE  IInv'
  <1> DEFINE br == lock
  <1> USE DEF IInv
  <1>1. br \in Blobs /\ NoteBlobIndexed(br) /\ RemoveAllMissingEdges(br)
    BY DEF Return, TypeOK
  <1>2. /\ UNCHANGED <<src, have, deleted, unlisted, hand, dropped, deletes,
                       reindex, crashes>>
        /\ lock' = None /\ ret' = "ok"
        /\ acked' = IF ret = "ok" THEN acked \cup {br} ELSE acked
    BY DEF Return
  <1> HIDE DEF br
  <1>3. /\ ready' = ready \cup NowReady(br)
        /\ loopers' = loopers + Cardinality(NowReady(br))
        /\ needs' = [n \in Blobs |-> IF n \in neededBy[br]
                                     THEN needs[n] \ {br} ELSE needs[n]]
        /\ neededBy' = [neededBy EXCEPT ![br] = {}]
        /\ unnoted' = unnoted \ {br}
    BY <1>1 DEF NoteBlobIndexed
  <1>4. \A n \in Blobs : needs'[n] = needs[n] \ {br}
    BY ZenonT(40), <1>1, <1>3 DEF NeededByIsInverse, TypeOK
  <1>5. /\ rows' \subseteq rows /\ fails' \in [FailKinds -> Nat]
        /\ \A k \in FailKinds : fails'[k] >= fails[k]
    <2>1. "set" \in FailKinds BY DEF FailKinds
    <2>2. fails' = fails \/ Fail("set")
      BY <1>1 DEF RemoveAllMissingEdges
    <2>3. rows' \subseteq rows
      BY <1>1 DEF RemoveAllMissingEdges
    <2> QED BY SMT, <2>1, <2>2, <2>3, FailType DEF TypeOK
  <1>6. TypeOK'
    BY SMT, <1>1, <1>2, <1>3, <1>5, NowReadyFinite DEF TypeOK
  <1>7. InSource'
    <2>1. NowReady(br) \subseteq src
      BY <1>1 DEF NowReady, NeededByIsInverse, InSource, TypeOK
    <2> QED BY <1>2, <1>3, <1>4, <1>5, <2>1 DEF InSource
  <1>8. IndexedIsComplete'
    <2>1. "meta" \in FailKinds /\ "fetch" \in FailKinds BY DEF FailKinds
    <2>2. /\ fails'["meta"] = 0 => fails["meta"] = 0
          /\ fails["fetch"] > 0 => fails'["fetch"] > 0
      BY SMT, <1>5, <2>1 DEF TypeOK
    <2> QED BY <1>2, <2>2 DEF IndexedIsComplete
  <1>9. NeededByIsInverse'
    BY <1>1, <1>3, <1>4 DEF NeededByIsInverse, TypeOK
  <1>10. ReadyIsServed'
    <2>1. /\ IsFiniteSet(ready \cup NowReady(br))
          /\ Cardinality(ready \cup NowReady(br)) =
               Cardinality(ready) + Cardinality(NowReady(br))
                 - Cardinality(ready \cap NowReady(br))
      BY <1>1, NowReadyFinite, FS_Union
    <2>2. Cardinality(ready \cap NowReady(br)) \in Nat
      BY <1>1, NowReadyFinite, FS_Intersection, FS_CardinalityType
    <2> QED
      BY SMT, <1>1, <1>3, <2>1, <2>2, NowReadyFinite DEF ReadyIsServed, TypeOK
  <1>11. FreshNeeds'
    BY SMT, <1>2, <1>3, <1>4 DEF FreshNeeds, br
  <1>12. AckedSettled'
    <2> SUFFICES ASSUME crashes = 0, NEW x \in Blobs, x \in acked'
                 PROVE  Settled(x)'
      BY <1>1, <1>2 DEF AckedSettled
    <2>1. Settled(x) BY <1>2 DEF AckedSettled, br
    <2>2. CASE needs[x] # {} /\ needs'[x] = {}
      <3>0. needs'[x] = needs[x] \ {br} BY <1>4
      <3>1. needs[x] = {br} BY <2>2, <3>0
      <3>2. x \in NowReady(br)
        BY <1>1, <3>1 DEF NowReady, NeededByIsInverse
      <3> QED BY <1>3, <3>2 DEF Settled
    <2>3. CASE needs[x] = {} \/ needs'[x] # {}
      BY <1>2, <1>3, <2>1, <2>3 DEF Settled
    <2> QED BY <2>2, <2>3
  <1> QED BY <1>6, <1>7, <1>8, <1>9, <1>10, <1>11, <1>12

\* ReceiveBlob returns without having indexed anything.
LEMMA NextNotIndexed ==
  ASSUME IInv, lock # None, ret \in {"noted", "failed"}, Return
  PROVE  IInv'
  <1> USE DEF IInv
  <1>1. /\ UNCHANGED <<store, waiting, loopers, fails, hand, dropped, deletes,
                       reindex, crashes>>
        /\ lock' = None /\ ret' = "ok"
        /\ acked' = IF ret = "noted" THEN acked \cup {lock} ELSE acked
    BY DEF Return
  <1>2. lock \in Blobs BY DEF TypeOK
  <1>3. TypeOK' BY <1>1, <1>2 DEF TypeOK
  <1>4. InSource' BY <1>1 DEF InSource
  <1>5. IndexedIsComplete' /\ NeededByIsInverse' /\ ReadyIsServed'
    BY <1>1 DEF IndexedIsComplete, NeededByIsInverse, ReadyIsServed
  <1>6. FreshNeeds'
    BY <1>1, <1>2 DEF FreshNeeds
  <1>7. AckedSettled'
    BY <1>1, <1>2 DEF AckedSettled, Settled
  <1> QED BY <1>3, <1>4, <1>5, <1>6, <1>7

LEMMA NextGoroutine ==
  ASSUME IInv, (\E b \in Blobs : TakeReady(b)) \/ NothingReady
  PROVE  IInv'
  <1> USE DEF IInv
  <1>0. UNCHANGED <<store, needs, neededBy, unnoted, dropped, deletes, mutex,
                    reindex, acked, fails, crashes>>
    BY DEF TakeReady, NothingReady
  <1>1. TypeOK' BY SMT, <1>0 DEF TypeOK, TakeReady, NothingReady
  <1>2. InSource' BY SMT, <1>0 DEF InSource, TakeReady, NothingReady, TypeOK
  <1>3. IndexedIsComplete' /\ NeededByIsInverse' /\ FreshNeeds'
    BY <1>0 DEF IndexedIsComplete, NeededByIsInverse, FreshNeeds
  <1>4. ReadyIsServed'
    <2>0. IsFiniteSet(ready) /\ Cardinality(ready) \in Nat
      BY FS_Subset, FS_CardinalityType DEF TypeOK
    <2>1. ASSUME NEW b \in Blobs, TakeReady(b) PROVE ReadyIsServed'
      <3>1. Cardinality(ready \ {b}) = Cardinality(ready) - 1
        BY <2>0, <2>1, FS_RemoveElement DEF TakeReady
      <3> QED BY SMT, <2>0, <2>1, <3>1 DEF TakeReady, ReadyIsServed, TypeOK
    <2>2. CASE NothingReady
      <3>1. ready' = {} BY <2>2 DEF NothingReady
      <3> QED BY SMT, <2>2, <3>1, FS_EmptySet DEF NothingReady, ReadyIsServed, TypeOK
    <2> QED BY <2>1, <2>2
  <1>5. AckedSettled'
    <2>1. ASSUME NEW b \in Blobs, TakeReady(b) PROVE AckedSettled'
      BY SMT, <1>0, <2>1 DEF AckedSettled, Settled, TakeReady, TypeOK
    <2>2. CASE NothingReady
      BY <1>0, <2>2 DEF AckedSettled, Settled, NothingReady
    <2> QED BY <2>1, <2>2
  <1> QED BY <1>1, <1>2, <1>3, <1>4, <1>5

LEMMA NextStore ==
  ASSUME IInv, \E b \in Blobs : Store(b)
  PROVE  IInv'
  <1> USE DEF IInv
  <1>1. UNCHANGED <<have, rows, deleted, unlisted, waiting, async, deletes, mutex,
                    reindex, acked, fails, crashes>>
    BY DEF Store
  <1>2. src \subseteq src' /\ src' \subseteq Blobs
    BY DEF Store, TypeOK
  <1>3. TypeOK' BY <1>1, <1>2 DEF TypeOK
  <1>4. InSource' BY <1>1, <1>2 DEF InSource
  <1>5. IndexedIsComplete' BY <1>1, <1>2 DEF IndexedIsComplete
  <1>6. NeededByIsInverse' /\ ReadyIsServed' /\ FreshNeeds'
    BY <1>1 DEF NeededByIsInverse, ReadyIsServed, FreshNeeds
  <1>7. AckedSettled' BY <1>1 DEF AckedSettled, Settled
  <1> QED BY <1>3, <1>4, <1>5, <1>6, <1>7

\* How Reindex ends: nothing but its own state and the deletes cache changes.
LEMMA ReindexEnds ==
  ASSUME TypeOK, ReindexReturns \/ ReindexEnumFails
  PROVE  /\ UNCHANGED <<store, waiting, async, mutex, mode, nerr, acked, crashes>>
         /\ todo' \subseteq todo /\ result' \in {"ok", "error"}
         /\ deletes' \subseteq Blobs /\ fails' \in [FailKinds -> Nat]
         /\ \A x \in FailKinds : fails'[x] >= fails[x]
  <1>0. "meta" \in FailKinds /\ "enum" \in FailKinds BY DEF FailKinds
  <1>1. fails' = fails \/ Fail("meta") \/ Fail("enum")
    BY DEF ReindexReturns, ReindexEnumFails
  <1>2. /\ fails' \in [FailKinds -> Nat]
        /\ \A x \in FailKinds : fails'[x] >= fails[x]
    BY SMT, <1>0, <1>1, FailType DEF TypeOK
  <1>3. deletes' \subseteq Blobs
    BY DEF ReindexReturns, ReindexEnumFails, TypeOK
  <1> QED BY <1>2, <1>3 DEF ReindexReturns, ReindexEnumFails

LEMMA NextReindexEnds ==
  ASSUME IInv, ReindexReturns \/ ReindexEnumFails
  PROVE  IInv'
  <1> USE DEF IInv
  <1>1. /\ UNCHANGED <<store, waiting, async, mutex, mode, nerr, acked, crashes>>
        /\ todo' \subseteq todo /\ result' \in {"ok", "error"}
        /\ deletes' \subseteq Blobs /\ fails' \in [FailKinds -> Nat]
        /\ \A x \in FailKinds : fails'[x] >= fails[x]
    BY ReindexEnds
  <1>2. TypeOK' BY <1>1 DEF TypeOK
  <1>3. InSource' BY <1>1 DEF InSource
  <1>4. IndexedIsComplete'
    <2>1. "meta" \in FailKinds /\ "fetch" \in FailKinds BY DEF FailKinds
    <2>2. /\ fails'["meta"] = 0 => fails["meta"] = 0
          /\ fails["fetch"] > 0 => fails'["fetch"] > 0
      BY SMT, <1>1, <2>1 DEF TypeOK
    <2> QED BY <1>1, <2>2 DEF IndexedIsComplete
  <1>5. NeededByIsInverse' /\ ReadyIsServed' /\ FreshNeeds'
    BY <1>1 DEF NeededByIsInverse, ReadyIsServed, FreshNeeds
  <1>6. AckedSettled' BY <1>1 DEF AckedSettled, Settled
  <1> QED BY <1>2, <1>3, <1>4, <1>5, <1>6

LEMMA NextCrash ==
  ASSUME IInv, CrashAndRestart
  PROVE  IInv'
  <1> USE DEF IInv
  <1>1. /\ UNCHANGED <<store, unnoted, dropped, reindex, acked, fails>>
        /\ ready' = {} /\ loopers' = 0 /\ hand' = [b \in Blobs |-> 0]
        /\ deletes' = {} /\ lock' = None /\ ret' = "ok"
        /\ crashes' = crashes + 1
        /\ needs' = [b \in Blobs |-> {m \in Blobs : <<b, m>> \in rows}]
        /\ neededBy' = [m \in Blobs |-> {b \in Blobs : <<b, m>> \in rows}]
    BY DEF CrashAndRestart, InitNeededMaps
  <1>2. TypeOK' BY SMT, <1>1 DEF TypeOK
  <1>3. InSource'
    <2>1. \A b \in Blobs : needs'[b] # {} => b \in src
      BY <1>1 DEF InSource
    <2>2. \A b \in Blobs : ~(hand'[b] > 0)
      BY SMT, <1>1
    <2>3. \A b \in Blobs : have'[b] # "none" => b \in src
      BY <1>1 DEF InSource
    <2>4. /\ todo' \subseteq src' /\ ready' \subseteq src'
          /\ lock' \in src' \cup {None} /\ \A e \in rows' : e[1] \in src'
      BY <1>1 DEF InSource
    <2>5. src' = src BY <1>1
    <2> QED BY <2>1, <2>2, <2>3, <2>4, <2>5 DEF InSource
  <1>4. IndexedIsComplete' BY <1>1 DEF IndexedIsComplete
  <1>5. NeededByIsInverse' BY <1>1 DEF NeededByIsInverse
  <1>6. ReadyIsServed' BY SMT, <1>1, FS_EmptySet DEF ReadyIsServed
  <1>7. crashes' # 0 BY SMT, <1>1 DEF TypeOK
  <1>8. FreshNeeds' /\ AckedSettled' BY <1>7 DEF FreshNeeds, AckedSettled
  <1> QED BY <1>2, <1>3, <1>4, <1>5, <1>6, <1>8

LEMMA InitIInv == Init => IInv
  <1> SUFFICES ASSUME Init PROVE IInv OBVIOUS
  <1>1. TypeOK BY DEF Init, TypeOK, Nothing
  <1>2. InSource BY SMT DEF Init, InSource, Nothing
  <1>3. IndexedIsComplete BY DEF Init, IndexedIsComplete
  <1>4. NeededByIsInverse BY DEF Init, NeededByIsInverse, Nothing
  <1>5. ReadyIsServed BY SMT, FS_EmptySet DEF Init, ReadyIsServed
  <1>6. FreshNeeds BY DEF Init, FreshNeeds, Nothing
  <1>7. AckedSettled BY DEF Init, AckedSettled
  <1> QED BY <1>1, <1>2, <1>3, <1>4, <1>5, <1>6, <1>7 DEF IInv

LEMMA NextIInv == IInv /\ [Next]_vars => IInv'
  <1> SUFFICES ASSUME IInv, [Next]_vars PROVE IInv' OBVIOUS
  <1>1. CASE UNCHANGED vars
    BY <1>1 DEF vars, IInv, TypeOK, InSource, IndexedIsComplete,
       NeededByIsInverse, ReadyIsServed, FreshNeeds, AckedSettled, Settled
  <1>2. CASE Next
    <2>1. CASE Return
      <3>1. lock # None /\ ret \in {"ok", "err", "noted", "failed"}
        BY <2>1 DEF Return, IInv, TypeOK
      <3> QED BY <2>1, <3>1, NextNoted, NextNotIndexed
    <2> QED
      BY <1>2, <2>1, NextReceive, NextGoroutine, NextStore,
         NextReindexEnds, NextCrash DEF Next
  <1> QED BY <1>1, <1>2

\* The inductive invariant holds in every reachable state.
THEOREM IndexInvariance == Spec => []IInv
  BY InitIInv, NextIInv, PTL DEF Spec

\* Type correctness of IndexReceive.
THEOREM IndexTypeCorrect == Spec => []TypeOK
  <1>1. IInv => TypeOK BY DEF IInv
  <1> QED BY <1>1, IndexInvariance, PTL

\* A blob that ReceiveBlob marks as indexed was indexed with all it needs, or
\* is a directory that was committed after a failed fetch of its members.
THEOREM IndexedCompletely == Spec => []IndexedIsComplete
  <1>1. IInv => IndexedIsComplete BY DEF IInv
  <1> QED BY <1>1, IndexInvariance, PTL

\* needs and neededBy are inverses of each other, restarts included.
THEOREM NeedsAndNeededBy == Spec => []NeededByIsInverse
  <1>1. IInv => NeededByIsInverse BY DEF IInv
  <1> QED BY <1>1, IndexInvariance, PTL

\* indexReadyBlobs has a goroutine for every ready blob.
THEOREM ReadyServed == Spec => []ReadyIsServed
  <1>1. IInv => ReadyIsServed BY DEF IInv
  <1> QED BY <1>1, IndexInvariance, PTL

\* A write that failed is counted.
LEMMA SetFails ==
  ASSUME TypeOK, NEW kinds \in SUBSET FailKinds, Fails(kinds), "set" \in kinds
  PROVE  fails'["set"] # 0
  <1>1. fails'["set"] > 0 BY FailsType
  <1> QED BY SMT, <1>1

\* What a blob's call leaves behind, when the store takes every write.
LEMMA ReceiveOnRecord ==
  ASSUME TypeOK, NEW b, Called(b), fails'["set"] = 0
  PROVE  /\ fails["set"] = 0 /\ rows \subseteq rows'
         /\ ret' = "noted" => OnRecord(b)'
         /\ Target[b] = None /\ ret' \in {"ok", "err"} => have'[b] = "indexed"
  <1> USE DEF Called
  <1>0. "set" \in FailKinds BY DEF FailKinds
  <1>1. fails["set"] = 0
    <2>1. fails["set"] \in Nat /\ fails'["set"] >= fails["set"]
      BY <1>0, ReceiveType DEF TypeOK
    <2> QED BY SMT, <2>1
  <1>2. ~Fail("set")
    BY <1>0, SetFails DEF Fail
  <1>3. CASE AlreadyIndexed(b)
    BY <1>1, <1>3 DEF AlreadyIndexed
  <1>4. CASE MissingDep(b)
    <2>1. PICK M \in SUBSET (Deps[b] \ src) : NoteNeeded(b, M) /\ M # {}
      BY <1>2, <1>4, DepCases
    <2>2. PICK m \in M : m \in Blobs BY <2>1
    <2>3. rows' = rows \cup ({b} \X M) BY <2>1 DEF NoteNeeded
    <2>4. <<b, m>> \in rows' BY SMT, <2>2, <2>3
    <2> QED BY <1>1, <1>2, <1>4, <2>2, <2>3, <2>4, DepCases DEF OnRecord
  <1>5. CASE MissingTarget(b)
    <2>1. /\ Target[b] # None
          /\ NoteNeeded(b, {Target[b]}) \/ rows' = rows
      BY <1>5, TargetCases
    <2>2. ret' # "noted"
      BY <1>5, TargetCases DEF WrittenTo, NotWrittenTo
    <2> QED BY <1>1, <2>1, <2>2 DEF NoteNeeded
  <1>6. CASE Commit(b)
    <2>1. PICK noted, unread, lost \in BOOLEAN, ks \in SUBSET FailKinds :
            Committed(b, noted, unread, lost, ks)
      BY <1>6, CommitCases
    <2>2. ~NotWrittenTo(ks) BY SetFails DEF NotWrittenTo
    <2>3. have' = [have EXCEPT ![b] = "indexed"] /\ ret' # "noted"
      BY <2>1, <2>2 DEF Committed, WrittenTo
    <2> QED BY <1>1, <1>6, <2>3, CommitCases DEF TypeOK
  <1>7. CASE FetchError(b)
    BY <1>1, <1>7 DEF FetchError
  <1> QED
    BY <1>3, <1>4, <1>5, <1>6, <1>7 DEF ReceiveBlob

\* Calls, restarts and the removal of rows keep what is acknowledged indexed
\* or on record.
LEMMA NextOnRecord ==
  ASSUME TypeOK, InSource, AckedOnRecord, [Next]_vars
  PROVE  AckedOnRecord'
  <1> SUFFICES ASSUME fails'["set"] = 0, NEW x \in Blobs, Target[x] = None
               PROVE  /\ x \in acked' \/ (lock' = x /\ ret' = "noted") =>
                           have'[x] = "indexed" \/ OnRecord(x)'
                      /\ lock' = x /\ ret' \in {"ok", "err"} => have'[x] = "indexed"
    BY DEF AckedOnRecord
  <1>1. CASE \E b \in Blobs : Receive(b) \/ ReindexOne(b) \/ IndexReady(b)
    <2>1. PICK b \in Blobs : Called(b) /\ acked' = acked
      BY <1>1 DEF Called, Receive, ReindexOne, IndexReady, InSource
    <2>2. lock' = b /\ fails["set"] = 0 /\ rows \subseteq rows'
      BY <2>1, ReceiveType, ReceiveOnRecord
    <2>3. OnRecord(x) => OnRecord(x)' BY <2>2 DEF OnRecord
    <2>4. have[x] = "indexed" => have'[x] = "indexed" BY <2>1, ReceiveHave
    <2>5. x \in acked => have[x] = "indexed" \/ OnRecord(x)
      BY <2>2 DEF AckedOnRecord
    <2> QED BY <2>1, <2>2, <2>3, <2>4, <2>5, ReceiveOnRecord
  <1>2. CASE Return
    <2>0. UNCHANGED have /\ lock \in Blobs /\ lock' = None
      BY <1>2 DEF Return, TypeOK
    <2>1. CASE ret \in {"ok", "err"}
      <3>1. /\ RemoveAllMissingEdges(lock)
            /\ acked' = IF ret \in {"ok", "noted"} THEN acked \cup {lock} ELSE acked
        BY <1>2, <2>1 DEF Return
      <3>0. ~Fail("set") BY SetFails DEF Fail, FailKinds
      <3>2. fails' = fails BY <3>0, <3>1 DEF RemoveAllMissingEdges
      <3>3. rows' = {e \in rows : e[1] # lock}
        BY <3>0, <3>1 DEF RemoveAllMissingEdges
      <3>4. fails["set"] = 0 BY <3>2
      <3>5. CASE x = lock BY <2>0, <2>1, <3>4, <3>5 DEF AckedOnRecord
      <3>6. CASE x # lock
        <4>1. \A m \in Blobs : <<x, m>> \in rows => <<x, m>> \in rows'
          BY SMT, <3>3, <3>6
        <4>2. OnRecord(x) => OnRecord(x)' BY <4>1 DEF OnRecord
        <4> QED BY <2>0, <3>1, <3>4, <3>6, <4>2 DEF AckedOnRecord
      <3> QED BY <3>5, <3>6
    <2>2. CASE ret \notin {"ok", "err"}
      <3>1. /\ UNCHANGED <<rows, fails>>
            /\ acked' = IF ret \in {"ok", "noted"} THEN acked \cup {lock} ELSE acked
        BY <1>2, <2>2 DEF Return
      <3>2. OnRecord(x)' <=> OnRecord(x) BY <3>1 DEF OnRecord
      <3> QED BY <2>0, <2>2, <3>1, <3>2 DEF AckedOnRecord
    <2> QED BY <2>1, <2>2
  <1>3. CASE \/ \E b \in Blobs : Store(b) \/ TakeReady(b)
             \/ NothingReady \/ CrashAndRestart \/ UNCHANGED vars
    <2>1. /\ UNCHANGED <<fails, rows, have, acked>>
          /\ UNCHANGED <<lock, ret>> \/ lock' = None
      BY <1>3 DEF Store, TakeReady, NothingReady, CrashAndRestart, vars
    <2>2. OnRecord(x)' <=> OnRecord(x) BY <2>1 DEF OnRecord
    <2> QED BY <2>1, <2>2 DEF AckedOnRecord
  <1>4. CASE ReindexReturns \/ ReindexEnumFails
    <2>1. UNCHANGED <<rows, have, acked, lock, ret>> BY <1>4, ReindexEnds
    <2>2. "set" \in FailKinds BY DEF FailKinds
    <2>3. fails["set"] \in Nat /\ fails'["set"] >= fails["set"]
      BY <1>4, <2>2, ReindexEnds DEF TypeOK
    <2>4. fails["set"] = 0 BY SMT, <2>3
    <2>5. OnRecord(x)' <=> OnRecord(x) BY <2>1 DEF OnRecord
    <2> QED BY <2>1, <2>4, <2>5 DEF AckedOnRecord
  <1> QED BY <1>1, <1>2, <1>3, <1>4 DEF Next

\* Until a crash, an acknowledged blob is indexed, in work, or waits for a
\* blob that has not come or whose call failed after the commit, unless its
\* own out-of-order indexing failed; and across crashes it is indexed or has
\* a row, while no write fails.
THEOREM NothingForgotten == Spec => []AckedIsPending
  <1>1. IInv /\ AckedOnRecord => AckedIsPending
    <2> SUFFICES ASSUME IInv, AckedOnRecord, NEW b \in acked
                 PROVE  /\ crashes = 0 =>
                             have[b] = "indexed" \/ Pending(b) \/ b \in dropped
                        /\ fails["set"] = 0 /\ Target[b] = None =>
                             have[b] = "indexed" \/ OnRecord(b)
      BY DEF AckedIsPending
    <2>1. b \in Blobs BY DEF IInv, TypeOK
    <2>2. ASSUME crashes = 0
          PROVE  have[b] = "indexed" \/ Pending(b) \/ b \in dropped
      <3>1. Settled(b) BY <2>1, <2>2 DEF IInv, AckedSettled
      <3>2. \A m \in needs[b] : have[m] = "none" \/ lock = m \/ m \in unnoted
        BY <2>1, <2>2 DEF IInv, FreshNeeds
      <3> QED BY <3>1, <3>2 DEF Settled, Pending
    <2>3. fails["set"] = 0 /\ Target[b] = None => have[b] = "indexed" \/ OnRecord(b)
      BY <2>1 DEF AckedOnRecord
    <2> QED BY <2>2, <2>3
  <1>2. Init => AckedOnRecord
    BY DEF Init, AckedOnRecord
  <1>3. IInv /\ AckedOnRecord /\ [Next]_vars => AckedOnRecord'
    BY NextOnRecord DEF IInv
  <1> QED BY <1>1, <1>2, <1>3, IndexInvariance, PTL DEF Spec
-----------------------------------------------------------------------------
(***************************************************************************)
(* At rest.                                                                *)
(***************************************************************************)

\* ReceiveBlob notes only blobs that the received one names.
LEMMA ReceiveRefs ==
  ASSUME TypeOK, NeedsAreRefs, NEW b, Called(b)
  PROVE  NeedsAreRefs'
  <1> USE DEF Called
  <1>1. CASE UNCHANGED <<needs, neededBy, rows>>
    BY <1>1 DEF NeedsAreRefs
  <1>2. CASE \E M \in SUBSET (Refs(b) \cap Blobs) : NoteNeeded(b, M)
    <2>1. PICK M \in SUBSET (Refs(b) \cap Blobs) : NoteNeeded(b, M) BY <1>2
    <2>2. \A x \in Blobs : needs'[x] = IF x = b THEN needs[b] \cup M ELSE needs[x]
      BY <2>1 DEF NoteNeeded, NoteNeededMemory, TypeOK
    <2>3. \A x \in Blobs : needs'[x] \subseteq Refs(x)
      BY <2>1, <2>2 DEF NeedsAreRefs
    <2>4. rows' = rows \cup ({b} \X M) BY <2>1 DEF NoteNeeded
    <2>5. ASSUME NEW e \in {b} \X M PROVE e[2] \in Refs(e[1])
      <3>1. e[1] = b /\ e[2] \in M BY SMT, <2>5
      <3> QED BY <3>1, <2>1
    <2>6. \A e \in rows' : e[2] \in Refs(e[1])
      BY <2>4, <2>5 DEF NeedsAreRefs
    <2> QED BY <2>3, <2>6 DEF NeedsAreRefs
  <1> QED BY <1>1, <1>2, ReceiveNotes

\* A blob waits only for blobs it names, across restarts.
LEMMA NextRefs ==
  ASSUME TypeOK, InSource, NeedsAreRefs, [Next]_vars
  PROVE  NeedsAreRefs'
  <1>1. CASE \E b \in Blobs : Receive(b) \/ ReindexOne(b) \/ IndexReady(b)
    <2>1. PICK b \in Blobs : Called(b)
      BY <1>1 DEF Called, Receive, ReindexOne, IndexReady, InSource
    <2> QED BY <2>1, ReceiveRefs
  <1>2. CASE Return
    <2>1. CASE ret \in {"ok", "err"}
      <3>1. NoteBlobIndexed(lock) /\ RemoveAllMissingEdges(lock)
        BY <1>2, <2>1 DEF Return
      <3>2. \A x \in Blobs : needs'[x] \subseteq needs[x]
        BY <3>1 DEF NoteBlobIndexed
      <3>3. rows' \subseteq rows
        BY <3>1 DEF RemoveAllMissingEdges
      <3> QED BY <3>2, <3>3 DEF NeedsAreRefs
    <2>2. CASE ret \notin {"ok", "err"}
      BY <1>2, <2>2 DEF Return, NeedsAreRefs
    <2> QED BY <2>1, <2>2
  <1>3. CASE CrashAndRestart
    <2>1. /\ \A x \in Blobs : needs'[x] = {m \in Blobs : <<x, m>> \in rows}
          /\ rows' = rows
      BY <1>3 DEF CrashAndRestart, InitNeededMaps
    <2>2. ASSUME NEW x \in Blobs, NEW m \in needs'[x]
          PROVE  m \in Refs(x)
      <3>1. <<x, m>> \in rows BY <2>1, <2>2
      <3>2. <<x, m>>[2] \in Refs(<<x, m>>[1]) BY <3>1 DEF NeedsAreRefs
      <3> QED BY SMT, <3>2
    <2> QED BY <2>1, <2>2 DEF NeedsAreRefs
  <1>4. CASE \/ \E b \in Blobs : Store(b) \/ TakeReady(b)
             \/ NothingReady \/ ReindexReturns \/ ReindexEnumFails \/ UNCHANGED vars
    <2>1. UNCHANGED <<needs, rows>>
      BY <1>4 DEF Store, TakeReady, NothingReady, ReindexReturns, ReindexEnumFails, vars
    <2> QED BY <2>1 DEF NeedsAreRefs
  <1> QED BY <1>1, <1>2, <1>3, <1>4 DEF Next

\* Without goroutines there is no ready blob.
LEMMA NoneReady ==
  ASSUME TypeOK, ReadyIsServed, AtRest
  PROVE  ready = {}
  <1>1. Cardinality(ready) <= 0 BY DEF ReadyIsServed, AtRest
  <1>2. IsFiniteSet(ready) BY FS_Subset DEF TypeOK
  <1>3. Cardinality(ready) = 0 BY SMT, <1>1, <1>2, FS_CardinalityType
  <1> QED BY <1>2, <1>3, FS_EmptySet

\* Nothing else is ever waited for.
LEMMA NeedsNameRefs == Spec => []NeedsAreRefs
  <1>1. Init => NeedsAreRefs
    BY DEF Init, NeedsAreRefs, Nothing
  <1>2. IInv /\ NeedsAreRefs /\ [Next]_vars => NeedsAreRefs'
    BY NextRefs DEF IInv
  <1> QED BY <1>1, <1>2, IndexInvariance, PTL DEF Spec

\* The order in which blobs arrive does not matter: at rest, acknowledged
\* blobs that name only each other are indexed, unless the call of one failed
\* after it was acknowledged or after its commit.  Among those that are not, the
\* acyclic references give one that names none of the others, and it would
\* have to wait for one of them.
THEOREM ArrivalOrderIrrelevant == Spec => []AtRestAllIndexed
  <1>1. IInv /\ NeedsAreRefs => AtRestAllIndexed
    <2> SUFFICES ASSUME IInv, NeedsAreRefs, crashes = 0, AtRest,
                        NEW S \in SUBSET (acked \ (dropped \cup unnoted)), Closed(S)
                 PROVE  \A b \in S : have[b] = "indexed"
      BY DEF AtRestAllIndexed
    <2> DEFINE U == {b \in S : have[b] # "indexed"}
    <2>0. S \subseteq Blobs BY DEF IInv, TypeOK
    <2>1. ready = {} BY NoneReady DEF IInv
    <2>2. ASSUME NEW b \in U PROVE \E m \in U : m \in Refs(b)
      <3>1. b \in Blobs /\ b \in acked /\ b \notin dropped BY <2>0
      <3>2. Settled(b) BY <3>1 DEF IInv, AckedSettled
      <3>3. hand[b] = 0 BY <3>1 DEF AtRest
      <3>4. ~(hand[b] > 0) BY SMT, <3>3
      <3>5. needs[b] # {} BY <2>1, <3>1, <3>2, <3>4 DEF Settled
      <3>6. PICK m \in needs[b] : TRUE BY <3>5
      <3>7. lock = None /\ m \in Blobs BY <3>1, <3>6 DEF AtRest, IInv, TypeOK
      <3>9. m \in Refs(b) BY <3>1, <3>6 DEF NeedsAreRefs
      <3>10. m \in S BY <3>9 DEF Closed
      <3>8. have[m] = "none"
        <4>1. \A n \in needs[b] : have[n] = "none" \/ lock = n \/ n \in unnoted
          BY <3>1 DEF IInv, FreshNeeds
        <4>2. lock # m BY <3>7, IndexAssumption
        <4>3. m \notin unnoted BY <3>10
        <4> QED BY <3>6, <4>1, <4>2, <4>3
      <3> QED BY <3>8, <3>9, <3>10
    <2>3. U \in SUBSET Blobs BY <2>0
    <2> HIDE DEF U
    <2>4. ASSUME U # {} PROVE FALSE
      <3>1. PICK b \in U : Refs(b) \cap U = {}
        BY <2>3, <2>4, AcyclicAssumption
      <3>2. PICK m \in U : m \in Refs(b) BY <2>2, <3>1
      <3> QED BY <3>1, <3>2
    <2> QED BY <2>4 DEF U
  <1> QED BY <1>1, IndexInvariance, NeedsNameRefs, PTL
-----------------------------------------------------------------------------
(***************************************************************************)
(* The deletes cache.                                                      *)
(***************************************************************************)

\* commit gives a delete claim of a deletable target its row and its entry
\* in the cache together, when the target's "meta:" row could be read.
LEMMA ReceiveCache ==
  ASSUME TypeOK, CacheMatchesRows, NEW b, Called(b), crashes' = crashes
  PROVE  CacheMatchesRows'
  <1> SUFFICES ASSUME crashes = 0, fails'["meta"] = 0, NEW x \in Blobs,
                      Target[x] \in Deletable
               PROVE  x \in deletes' <=> x \in deleted'
    BY DEF CacheMatchesRows
  <1>0. "meta" \in FailKinds BY DEF FailKinds
  <1>1. fails["meta"] = 0
    BY SMT, <1>0, ReceiveType DEF TypeOK
  <1>2. x \in deletes <=> x \in deleted
    BY <1>1 DEF CacheMatchesRows
  <1>3. CASE UNCHANGED <<deletes, deleted>>
    BY <1>2, <1>3
  <1>4. CASE ~UNCHANGED <<deletes, deleted>>
    <2>1. Commit(b)
      <3>1. ~MissingDep(b) BY <1>4, DepCases DEF Called
      <3>2. ~MissingTarget(b) BY <1>4, TargetCases
      <3> QED BY <1>4, <3>1, <3>2 DEF Called, ReceiveBlob, AlreadyIndexed, FetchError
    <2>2. PICK noted, unread, lost \in BOOLEAN, ks \in SUBSET FailKinds :
            Committed(b, noted, unread, lost, ks)
      BY <2>1, CommitCases
    <2>3. /\ deleted' = IF noted THEN deleted \cup {b} ELSE deleted
          /\ deletes' = IF Target[b] # None THEN deletes \cup {b} ELSE deletes
      BY <1>4, <2>2 DEF Committed
    <2>4. CASE x # b
      BY <1>2, <2>3, <2>4
    <2>5. CASE x = b
      <3>1. Target[b] # None BY <2>5
      <3>2. Fails(ks) BY <2>2 DEF Committed, WrittenTo, NotWrittenTo
      <3>3. ~(fails'["meta"] > 0) BY SMT
      <3>4. ~lost BY <2>2, <3>2, <3>3, FailsType DEF Committed
      <3> QED BY <2>2, <2>3, <2>5, <3>1, <3>4 DEF Committed, TargetFound
    <2> QED BY <2>4, <2>5
  <1> QED BY <1>3, <1>4

LEMMA NextCache ==
  ASSUME IInv, CacheMatchesRows, [Next]_vars
  PROVE  CacheMatchesRows'
  <1> USE DEF IInv
  <1>0. "meta" \in FailKinds BY DEF FailKinds
  <1>1. ASSUME NEW b \in Blobs, Receive(b) \/ ReindexOne(b) \/ IndexReady(b)
        PROVE  CacheMatchesRows'
    <2>1. Called(b)
      BY <1>1 DEF Called, Receive, ReindexOne, IndexReady, InSource
    <2>2. crashes' = crashes
      BY <1>1 DEF Receive, ReindexOne, IndexReady
    <2> QED BY <2>1, <2>2, ReceiveCache
  <1>2. CASE Return
    <2>1. UNCHANGED <<deletes, deleted, crashes>> BY <1>2 DEF Return
    <2>2. fails' = fails \/ Fail("set")
      BY <1>2 DEF Return, RemoveAllMissingEdges
    <2>3. "set" \in FailKinds BY DEF FailKinds
    <2>4. fails'["meta"] = 0 => fails["meta"] = 0
      BY SMT, <1>0, <2>2, <2>3, FailType DEF TypeOK
    <2> QED BY <2>1, <2>4 DEF CacheMatchesRows
  <1>3. CASE ReindexReturns \/ ReindexEnumFails
    <2>1. fails["meta"] \in Nat /\ fails'["meta"] \in Nat /\ fails'["meta"] >= fails["meta"]
      BY <1>0, <1>3, ReindexEnds DEF TypeOK
    <2>2. fails'["meta"] = 0 => fails["meta"] = 0 BY SMT, <2>1
    <2>3. ASSUME fails'["meta"] = 0
          PROVE  deletes' = deleted \/ deletes' = deletes
      <3>1. ~Fail("meta")
        <4>1. ~(fails'["meta"] > 0) BY SMT, <2>3
        <4> QED BY <1>0, <4>1, FailsType DEF Fail
      <3> QED BY <1>3, <3>1 DEF ReindexReturns, ReindexEnumFails
    <2>4. UNCHANGED <<deleted, crashes>> BY <1>3, ReindexEnds
    <2> QED BY <2>2, <2>3, <2>4 DEF CacheMatchesRows
  <1>4. CASE CrashAndRestart
    <2>1. crashes' # 0 BY SMT, <1>4 DEF CrashAndRestart, TypeOK
    <2> QED BY <2>1 DEF CacheMatchesRows
  <1>5. CASE (\E b \in Blobs : Store(b) \/ TakeReady(b)) \/ NothingReady
    BY <1>5 DEF Store, TakeReady, NothingReady, CacheMatchesRows
  <1>6. CASE UNCHANGED vars
    BY <1>6 DEF vars, CacheMatchesRows
  <1> QED BY <1>1, <1>2, <1>3, <1>4, <1>5, <1>6 DEF Next

\* IsDeleted's cache agrees with the "deleted|" rows until a restart, as long
\* as no target's "meta:" row failed to be read.
THEOREM DeletesCache == Spec => []CacheMatchesRows
  <1>1. Init => CacheMatchesRows BY DEF Init, CacheMatchesRows
  <1>2. IInv /\ CacheMatchesRows /\ [Next]_vars => CacheMatchesRows'
    BY NextCache
  <1> QED BY <1>1, <1>2, IndexInvariance, PTL DEF Spec
-----------------------------------------------------------------------------
(***************************************************************************)
(* Reindex.                                                                *)
(***************************************************************************)

\* A blob that has left a trace keeps one, in every step of a process.
LEMMA SettledKept ==
  ASSUME IInv, NEW x \in Blobs, Settled(x), Next, ~CrashAndRestart
  PROVE  Settled(x)'
  <1> USE DEF IInv
  <1>1. ASSUME NEW b \in Blobs, Receive(b) \/ ReindexOne(b) \/ IndexReady(b)
        PROVE  Settled(x)'
    <2>1. Called(b)
      BY <1>1 DEF Called, Receive, ReindexOne, IndexReady, InSource
    <2>2. /\ dropped \subseteq dropped'
          /\ x # b => hand'[x] = hand[x]
          /\ hand'[b] = hand[b] \/ (ret' \in {"err", "failed"} => b \in dropped')
      BY <1>1 DEF Receive, ReindexOne, IndexReady, TypeOK
    <2>3. ready' = ready /\ ret' \in {"ok", "noted", "err", "failed"}
      BY <2>1, ReceiveType
    <2>4. needs[x] \subseteq needs'[x] BY <2>1, ReceiveNeeds
    <2>5. have[x] = "indexed" => have'[x] = "indexed" BY <2>1, ReceiveHave
    <2>6. CASE x # b \/ hand'[b] = hand[b]
      BY <2>2, <2>3, <2>4, <2>5, <2>6 DEF Settled
    <2>7. CASE x = b /\ ret' \in {"ok", "noted"}
      BY <2>1, <2>7, ReceiveNeeds DEF Settled
    <2>8. CASE x = b /\ b \in dropped'
      BY <2>8 DEF Settled
    <2> QED BY <2>2, <2>3, <2>6, <2>7, <2>8
  <1>2. CASE Return /\ ret \in {"ok", "err"}
    <2>1. lock \in Blobs /\ NoteBlobIndexed(lock)
      BY <1>2 DEF Return, TypeOK
    <2>2. UNCHANGED <<have, hand, dropped>> BY <1>2 DEF Return
    <2>3. ready' = ready \cup NowReady(lock)
      BY <2>1 DEF NoteBlobIndexed
    <2>4. needs'[x] = IF x \in neededBy[lock] THEN needs[x] \ {lock} ELSE needs[x]
      BY <2>1 DEF NoteBlobIndexed
    <2>5. CASE needs[x] # {} /\ needs'[x] = {}
      <3>1. x \in neededBy[lock] /\ needs[x] \subseteq {lock}
        BY <2>4, <2>5
      <3> QED BY <2>3, <3>1 DEF NowReady, Settled
    <2>6. CASE needs[x] = {} \/ needs'[x] # {}
      BY <2>2, <2>3, <2>6 DEF Settled
    <2> QED BY <2>5, <2>6
  <1>3. CASE Return /\ ret \notin {"ok", "err"}
    BY <1>3 DEF Return, Settled
  <1>4. ASSUME NEW b \in Blobs, TakeReady(b)
        PROVE  Settled(x)'
    <2>1. UNCHANGED <<have, needs, dropped>> /\ ready' = ready \ {b}
      BY <1>4 DEF TakeReady
    <2>2. hand'[x] >= hand[x] /\ hand'[b] > 0
      BY SMT, <1>4 DEF TakeReady, TypeOK
    <2>3. hand[x] > 0 => hand'[x] > 0
      BY SMT, <1>4, <2>2 DEF TakeReady, TypeOK
    <2> QED BY <2>1, <2>2, <2>3 DEF Settled
  <1>5. CASE (\E b \in Blobs : Store(b)) \/ NothingReady \/ ReindexReturns
             \/ ReindexEnumFails
    BY <1>5 DEF Store, NothingReady, ReindexReturns, ReindexEnumFails, Settled
  <1> QED BY <1>1, <1>2, <1>3, <1>4, <1>5 DEF Next

\* Reindex counts an error, or the blob it has just taken has left a trace.
LEMMA ReindexOneAccounted ==
  ASSUME IInv, NEW b \in Blobs, ReindexOne(b), nerr' = 0
  PROVE  Settled(b)' /\ nerr = 0
  <1> USE DEF IInv
  <1>1. Called(b) BY DEF Called, ReindexOne, InSource
  <1>2. ret' \in {"ok", "noted", "err", "failed"} BY <1>1, ReceiveType
  <1>3. ret' \notin {"err", "failed"} /\ nerr = 0
    BY SMT DEF ReindexOne, TypeOK
  <1> QED BY <1>1, <1>2, <1>3, ReceiveNeeds DEF Settled

\* A failure is counted.
LEMMA FailsFailed ==
  ASSUME TypeOK, NEW kinds \in SUBSET FailKinds, Fails(kinds), kinds # {}
  PROVE  Failed'
  BY FailsType DEF Failed

LEMMA FailFailed ==
  ASSUME TypeOK, NEW k \in FailKinds, Fail(k)
  PROVE  Failed'
  BY FailsFailed DEF Fail

\* ReceiveBlob goes wrong, or leaves needers waiting, only when an access or
\* the corpus failed.
LEMMA ReceiveFailed ==
  ASSUME TypeOK, NEW b, Called(b), ret' \in {"err", "failed"} \/ unnoted' # unnoted
  PROVE  Failed'
  <1>0. {"set", "fetch", "meta"} \subseteq FailKinds BY DEF FailKinds
  <1> USE DEF Called
  <1>1. CASE AlreadyIndexed(b) BY <1>1 DEF AlreadyIndexed
  <1>2. CASE MissingDep(b) BY <1>0, <1>2, FailFailed, DepCases
  <1>3. CASE MissingTarget(b)
    <2>1. CASE Fail("set") BY <1>0, <2>1, FailFailed
    <2>2. CASE \E ks \in SUBSET FailKinds :
                 WrittenTo(b, "partial", ks) \/ NotWrittenTo(ks)
      BY <2>2, FailsFailed DEF WrittenTo, NotWrittenTo
    <2> QED BY <1>3, <2>1, <2>2, TargetCases
  <1>4. CASE Commit(b)
    <2>1. PICK noted, unread, lost \in BOOLEAN, ks \in SUBSET FailKinds :
            Committed(b, noted, unread, lost, ks)
      BY <1>4, CommitCases
    <2>2. WrittenTo(b, "indexed", ks) \/ NotWrittenTo(ks) BY <2>1 DEF Committed
    <2> QED BY <2>2, FailsFailed DEF WrittenTo, NotWrittenTo
  <1>5. CASE FetchError(b) BY <1>0, <1>5, FailFailed DEF FetchError
  <1> QED BY <1>1, <1>2, <1>3, <1>4, <1>5 DEF ReceiveBlob

\* A failure is never forgotten.
LEMMA FailedKept ==
  ASSUME TypeOK, InSource, Failed, [Next]_vars
  PROVE  Failed'
  <1>0. "set" \in FailKinds BY DEF FailKinds
  <1>1. CASE \E b \in Blobs : Receive(b) \/ ReindexOne(b) \/ IndexReady(b)
    <2>1. PICK b \in Blobs : Called(b)
      BY <1>1 DEF Called, Receive, ReindexOne, IndexReady, InSource
    <2>2. PICK k \in FailKinds : fails[k] > 0 BY DEF Failed
    <2>3. fails[k] \in Nat /\ fails'[k] \in Nat /\ fails'[k] >= fails[k]
      BY <2>1, ReceiveType DEF TypeOK
    <2>4. fails'[k] > 0 BY SMT, <2>2, <2>3
    <2> QED BY <2>4 DEF Failed
  <1>2. CASE Return
    <2>1. fails' = fails \/ Fail("set")
      BY <1>2 DEF Return, RemoveAllMissingEdges
    <2> QED BY <1>0, <2>1, FailFailed DEF Failed
  <1>3. CASE \/ \E b \in Blobs : Store(b) \/ TakeReady(b)
             \/ NothingReady \/ CrashAndRestart \/ UNCHANGED vars
    <2>1. fails' = fails
      BY <1>3 DEF Store, TakeReady, NothingReady, CrashAndRestart, vars
    <2> QED BY <2>1 DEF Failed
  <1>4. CASE ReindexReturns \/ ReindexEnumFails
    <2>1. fails' = fails \/ Fail("meta") \/ Fail("enum")
      BY <1>4 DEF ReindexReturns, ReindexEnumFails
    <2>2. "meta" \in FailKinds /\ "enum" \in FailKinds BY DEF FailKinds
    <2> QED BY <2>1, <2>2, FailFailed DEF Failed
  <1> QED BY <1>1, <1>2, <1>3, <1>4 DEF Next

\* An error counted or logged came from an access that failed.
LEMMA NextCounted ==
  ASSUME TypeOK, InSource, [Next]_vars,
         nerr > 0 \/ dropped # {} \/ unnoted # {} => Failed
  PROVE  nerr' > 0 \/ dropped' # {} \/ unnoted' # {} => Failed'
  <1>1. CASE \E b \in Blobs : Receive(b) \/ ReindexOne(b) \/ IndexReady(b)
    <2>1. PICK b \in Blobs : Receive(b) \/ ReindexOne(b) \/ IndexReady(b) BY <1>1
    <2>2. Called(b)
      BY <2>1 DEF Called, Receive, ReindexOne, IndexReady, InSource
    <2>3. CASE ret' \in {"err", "failed"} \/ unnoted' # unnoted
      BY <2>2, <2>3, ReceiveFailed
    <2>4. CASE ret' \notin {"err", "failed"} /\ unnoted' = unnoted
      <3>1. nerr' = nerr /\ dropped' = dropped
        BY <2>1, <2>4 DEF Receive, ReindexOne, IndexReady
      <3> QED BY <2>4, <3>1, FailedKept
    <2> QED BY <2>3, <2>4
  <1>2. CASE ~\E b \in Blobs : Receive(b) \/ ReindexOne(b) \/ IndexReady(b)
    <2>1. UNCHANGED <<nerr, dropped>> /\ unnoted' \subseteq unnoted
      <3>1. CASE Return
        BY <3>1 DEF Return, NoteBlobIndexed
      <3>2. CASE ~Return
        BY <1>2, <3>2 DEF Next, vars, Store, TakeReady, NothingReady, ReindexReturns,
           ReindexEnumFails, CrashAndRestart
      <3> QED BY <3>1, <3>2
    <2> QED BY <2>1, FailedKept
  <1> QED BY <1>1, <1>2

LEMMA NextAccounted ==
  ASSUME IInv, ReindexAccounted, [Next]_vars
  PROVE  ReindexAccounted'
  <1> USE DEF IInv
  <1>0. mode' = mode
    BY DEF Next, vars, Store, Receive, ReindexOne, TakeReady, IndexReady, Return,
           NothingReady, ReindexReturns, ReindexEnumFails, CrashAndRestart
  <1>1. result' # "running" => Reindexing'
    BY <1>0 DEF ReindexAccounted, Reindexing, Next, vars, Store, Receive, ReindexOne,
           TakeReady, IndexReady, Return, NothingReady, ReindexReturns,
           ReindexEnumFails, CrashAndRestart
  <1>2. ASSUME Reindexing, nerr' = 0, result' # "error", NEW x \in src' \ todo'
        PROVE  Settled(x)'
    <2>1. CASE UNCHANGED vars
      BY <1>2, <2>1 DEF vars, ReindexAccounted, Settled
    <2>2. CASE Next
      <3>0. ~CrashAndRestart /\ \A b \in Blobs : ~Store(b)
        BY <1>2 DEF CrashAndRestart, Store
      <3>5. result # "error" /\ ~ReindexEnumFails
        BY <1>2, <2>2 DEF Next, Store, Receive, ReindexOne, TakeReady, IndexReady,
           Return, NothingReady, ReindexReturns, ReindexEnumFails, CrashAndRestart
      <3>1. src' = src
        <4>1. ASSUME NEW b \in Blobs, Receive(b) \/ ReindexOne(b) \/ IndexReady(b)
              PROVE  src' = src
          <5>1. Called(b)
            BY <4>1 DEF Called, Receive, ReindexOne, IndexReady, InSource
          <5> QED BY <5>1, ReceiveType
        <4> QED
          BY <2>2, <3>0, <3>5, <4>1 DEF Next, TakeReady, Return, NothingReady,
             ReindexReturns
      <3>2. x \in Blobs BY <1>2, <3>1 DEF TypeOK
      <3>3. CASE \E b \in Blobs : ReindexOne(b)
        <4>1. PICK b \in Blobs : ReindexOne(b) BY <3>3
        <4>2. Settled(b)' /\ nerr = 0 BY <1>2, <4>1, ReindexOneAccounted
        <4>3. x = b \/ x \notin todo BY <1>2, <4>1 DEF ReindexOne
        <4>4. CASE x \notin todo
          <5>1. Settled(x) BY <1>2, <3>1, <3>5, <4>2, <4>4 DEF ReindexAccounted
          <5> QED BY <2>2, <3>0, <3>2, <5>1, SettledKept
        <4> QED BY <4>2, <4>3, <4>4
      <3>4. CASE ~\E b \in Blobs : ReindexOne(b)
        <4>1. todo' = todo /\ nerr' = nerr
          BY <2>2, <3>0, <3>4, <3>5 DEF Next, Receive, TakeReady, IndexReady, Return,
             NothingReady, ReindexReturns
        <4>2. Settled(x) BY <1>2, <3>1, <3>5, <4>1 DEF ReindexAccounted
        <4> QED BY <2>2, <3>0, <3>2, <4>2, SettledKept
      <3> QED BY <3>3, <3>4
    <2> QED BY <2>1, <2>2
  <1>3. Reindexing' => crashes' = 0
    BY <1>0 DEF ReindexAccounted, Reindexing, Next, vars, Store, Receive, ReindexOne,
           TakeReady, IndexReady, Return, NothingReady, ReindexReturns,
           ReindexEnumFails, CrashAndRestart
  <1>4. nerr' > 0 \/ dropped' # {} \/ unnoted' # {} => Failed'
    BY NextCounted DEF ReindexAccounted
  <1> QED BY <1>0, <1>1, <1>2, <1>3, <1>4 DEF ReindexAccounted, Reindexing

\* When Reindex returns, nothing failed and the source is closed, no blob
\* waits: one that waited would wait for a blob of the source that waits too.
LEMMA NothingWaits ==
  ASSUME IInv, NeedsAreRefs, ReindexAccounted, Reindexing, AtRest, todo = {},
         result = "running", ~Failed, Closed(src)
  PROVE  ready = {} /\ needs = Nothing /\ nerr = 0
  <1> USE DEF IInv
  <1>0. nerr = 0 /\ dropped = {} /\ unnoted = {} /\ crashes = 0
    <2>1. ~(nerr > 0) /\ dropped = {} /\ unnoted = {} /\ crashes = 0
      BY DEF ReindexAccounted
    <2> QED BY SMT, <2>1 DEF TypeOK
  <1>1. ready = {} BY NoneReady
  <1>2. ASSUME NEW b \in Blobs, NEW m \in needs[b]
        PROVE  m \in Blobs /\ m \in Refs(b) /\ have[m] = "none" /\ needs[m] # {}
    <2>1. m \in Blobs /\ m \in Refs(b) BY <1>2 DEF TypeOK, NeedsAreRefs
    <2>2. have[m] = "none"
      <3>1. FreshNeeds /\ m \notin unnoted BY <1>0
      <3>2. have[m] = "none" \/ m \in unnoted \/ lock = m
        BY <1>0, <1>2, <3>1 DEF FreshNeeds
      <3>3. lock # m BY <2>1 DEF AtRest
      <3> QED BY <3>1, <3>2, <3>3
    <2>3. b \in src BY <1>2 DEF InSource
    <2>4. m \in src BY <2>1, <2>3 DEF Closed
    <2>5. Settled(m) BY <1>0, <2>4 DEF ReindexAccounted
    <2>6. hand[m] = 0
      <3>1. \A x \in Blobs : hand[x] = 0 BY DEF AtRest
      <3> QED BY <2>1, <3>1
    <2>7. ~(0 > 0) BY SMT
    <2>8. ~(hand[m] > 0) BY <2>6, <2>7
    <2>9. have[m] # "indexed" /\ m \notin ready /\ m \notin dropped
      BY <1>0, <1>1, <2>2
    <2>10. needs[m] # {} BY <2>5, <2>8, <2>9 DEF Settled
    <2> QED BY <2>1, <2>2, <2>10
  <1> DEFINE U == {m \in Blobs : needs[m] # {}}
  <1>3. ASSUME U # {} PROVE FALSE
    <2>1. PICK b \in U : Refs(b) \cap U = {} BY <1>3, AcyclicAssumption
    <2>2. PICK m \in needs[b] : TRUE BY <2>1
    <2>3. m \in U /\ m \in Refs(b) BY <1>2, <2>1, <2>2
    <2> QED BY <2>1, <2>3
  <1>4. \A b \in Blobs : needs[b] = {} BY <1>3
  <1>5. needs = Nothing BY SMT, <1>4 DEF Nothing, TypeOK
  <1> QED BY <1>0, <1>1, <1>5

\* Reindex reports an error only for a reason, and the reason stays.
LEMMA NextErrorHasReason ==
  ASSUME IInv, NeedsAreRefs, ReindexAccounted, ReindexHonest, [Next]_vars,
         result' = "error"
  PROVE  (Failed \/ ~Closed(src))'
  <1> USE DEF IInv
  <1>0. ASSUME Reindexing PROVE src' = src
    <2>1. ASSUME NEW b \in Blobs, Receive(b) \/ ReindexOne(b) \/ IndexReady(b)
          PROVE  src' = src
      <3>1. Called(b)
        BY <2>1 DEF Called, Receive, ReindexOne, IndexReady, InSource
      <3> QED BY <3>1, ReceiveType
    <2> QED
      BY <1>0, <2>1 DEF Next, vars, Store, TakeReady, Return, NothingReady,
         ReindexReturns, ReindexEnumFails, CrashAndRestart
  <1>1. CASE result = "error"
    <2>1. Reindexing BY <1>1 DEF ReindexAccounted
    <2>2. Failed \/ ~Closed(src) BY <1>1 DEF ReindexHonest
    <2>3. src' = src BY <1>0, <2>1
    <2> QED BY <2>2, <2>3, FailedKept DEF Closed
  <1>2. CASE result # "error"
    <2>1. ReindexReturns \/ ReindexEnumFails
      BY <1>2 DEF Next, vars, Store, Receive, ReindexOne, TakeReady, IndexReady,
         Return, NothingReady, CrashAndRestart
    <2>2. CASE Fail("meta") \/ Fail("enum")
      BY <2>2, FailFailed DEF FailKinds
    <2>3. CASE ~(Fail("meta") \/ Fail("enum"))
      <3>1. /\ Reindexing /\ todo = {} /\ AtRest /\ UNCHANGED <<src, fails>>
            /\ result = "running" /\ ~(ready = {} /\ needs = Nothing /\ nerr = 0)
        BY <2>1, <2>3 DEF ReindexReturns, ReindexEnumFails, AtRest
      <3>2. Failed \/ ~Closed(src) BY <3>1, NothingWaits
      <3> QED BY <3>1, <3>2 DEF Failed, Closed
    <2> QED BY <2>2, <2>3
  <1> QED BY <1>1, <1>2

\* What Reindex reported stays true: nothing is taken out of the index, and a
\* process that reindexes receives no new blobs.
LEMMA NextHonest ==
  ASSUME IInv, NeedsAreRefs, ReindexAccounted, ReindexHonest, [Next]_vars
  PROVE  ReindexHonest'
  <1> USE DEF IInv
  <1> SUFFICES ASSUME result' = "ok", NEW x \in src'
               PROVE  have'[x] = "indexed" \/ x \in dropped'
    BY NextErrorHasReason DEF ReindexHonest
  <1>1. CASE UNCHANGED vars
    BY <1>1 DEF vars, ReindexHonest
  <1>2. CASE ReindexReturns
    <2>1. /\ Reindexing /\ todo = {} /\ ready = {} /\ needs = Nothing /\ nerr = 0
          /\ result = "running" /\ \A b \in Blobs : hand[b] = 0
          /\ UNCHANGED <<src, have, dropped>>
      BY <1>2 DEF ReindexReturns
    <2>2. x \in Blobs /\ Settled(x)
      BY <2>1 DEF ReindexAccounted, TypeOK
    <2>3. needs[x] = {} BY <2>1, <2>2 DEF Nothing
    <2>4. ~(hand[x] > 0) BY SMT, <2>1, <2>2
    <2> QED BY <2>1, <2>2, <2>3, <2>4 DEF Settled
  <1>3. CASE Next /\ ~ReindexReturns
    <2>1. result = "ok"
      BY <1>3 DEF Next, Store, Receive, ReindexOne, TakeReady, IndexReady, Return,
         NothingReady, ReindexEnumFails, CrashAndRestart
    <2>2. Reindexing BY <2>1 DEF ReindexAccounted
    <2>3. CASE \E b \in Blobs : Receive(b) \/ ReindexOne(b) \/ IndexReady(b)
      <3>1. PICK b \in Blobs : Receive(b) \/ ReindexOne(b) \/ IndexReady(b)
        BY <2>3
      <3>2. Called(b)
        BY <3>1 DEF Called, Receive, ReindexOne, IndexReady, InSource
      <3>3. dropped \subseteq dropped'
        BY <3>1 DEF Receive, ReindexOne, IndexReady
      <3>4. src' = src BY <3>2, ReceiveType
      <3>5. x \in Blobs BY <3>4 DEF TypeOK
      <3> QED BY <2>1, <3>2, <3>3, <3>4, <3>5, ReceiveHave DEF ReindexHonest
    <2>4. CASE (\E b \in Blobs : TakeReady(b)) \/ Return \/ NothingReady
      BY <2>1, <2>4 DEF TakeReady, Return, NothingReady, ReindexHonest
    <2> QED
      BY <1>3, <2>1, <2>2, <2>3, <2>4 DEF Next, Store, ReindexEnumFails,
         CrashAndRestart
  <1> QED BY <1>1, <1>2, <1>3

\* A nil error from Reindex means that every blob of the source is indexed,
\* but for those whose out-of-order indexing failed; an error means that an
\* access, the corpus or the enumeration failed or that the source lacks a blob one of its blobs names.
THEOREM ReindexReports == Spec => []ReindexHonest
  <1>1. Init => ReindexAccounted /\ ReindexHonest
    <2>1. ~(0 > 0) BY SMT
    <2> QED BY <2>1 DEF Init, ReindexAccounted, ReindexHonest, Reindexing
  <1>2. IInv /\ NeedsAreRefs /\ ReindexAccounted /\ ReindexHonest /\ [Next]_vars =>
          (ReindexAccounted /\ ReindexHonest)'
    BY NextAccounted, NextHonest
  <1> QED BY <1>1, <1>2, IndexInvariance, NeedsNameRefs, PTL DEF Spec
=============================================================================
