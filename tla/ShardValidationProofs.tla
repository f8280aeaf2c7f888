----------------------- MODULE ShardValidationProofs -----------------------
(***************************************************************************)
(* Safety of the validation of a shard, for shards and channels of any     *)
(* size: only missing blobs are queued for a copy, a validation that       *)
(* returns no error was complete, and a shard takes finitely many steps    *)
(* with a next one until the validator is done.                            *)
(*                                                                         *)
(* The invariant follows the two sorted streams.  Rest(s) is what the      *)
(* merge has yet to consume of side s; it is consumed in ascending order   *)
(* (Ordered), and whatever of the destination is consumed is smaller than  *)
(* all that is left of the source (Merged).  A head of the source that is  *)
(* smaller than the destination's can therefore not be in the              *)
(* destination, neither behind nor ahead of the merge.                     *)
(***************************************************************************)
EXTENDS ShardValidation, FiniteSetTheorems, WellFoundedInduction, TLAPS

Sorted(q) == \A i, j \in 1..Len(q) : i < j => q[i] < q[j]

\* What the enumeration of s has handed over and the merge has not consumed,
\* and all that it has not consumed.
Ahead(s) == Refs \cap (Range(ch[s]) \cup {peek[s]})
Rest(s) == left[s] \cup Ahead(s)

Types ==
    /\ stored \in [Sides -> SUBSET Refs] /\ left \in [Sides -> SUBSET Refs]
    /\ epc \in [Sides -> {"enum", "zero", "errc", "close", "exited"}]
    /\ failed \in [Sides -> BOOLEAN] /\ closed \in [Sides -> BOOLEAN]
    /\ ch \in [Sides -> Seq(Refs \cup {Zero})]
    /\ errc \in [Sides -> {"empty", "nil", "error"}]
    /\ count \in [Sides -> Nat]
    /\ peek \in [Sides -> {NoRef, Zero, End} \cup Refs]
    /\ lpc \in {"src", "dst", "compare", "emit", "exited"}
    /\ missingc \in Seq(Refs)
    /\ vpc \in {"drain", "srcErr", "dstErr", "enqueue", "done"}
    /\ missing \subseteq Refs /\ enqueued \subseteq Refs /\ verr \in BOOLEAN

\* The channels keep to their capacities.
Bounded == Len(missingc) <= MissingCap /\ \A s \in Sides : Len(ch[s]) <= EnumCap

\* Every blob was counted or is still to be enumerated.
Counted ==
    \A s \in Sides : count[s] + Cardinality(left[s]) = Cardinality(stored[s])

\* How an enumeration ends: the zero ref is sent exactly when it failed, and
\* is still to be seen or was seen last; without it nothing is left.
Ending(s) ==
    /\ epc[s] \in {"enum", "zero"} => (failed[s] <=> epc[s] = "zero")
    /\ Zero \in Range(ch[s]) \cup {peek[s]} <=>
        failed[s] /\ epc[s] \in {"errc", "close", "exited"}
    /\ epc[s] \in {"errc", "close", "exited"} /\ ~failed[s] => left[s] = {}
    /\ closed[s] <=> epc[s] = "exited"
    /\ errc[s] = IF epc[s] \in {"enum", "zero", "errc"} THEN "empty"
                 ELSE IF failed[s] THEN "error" ELSE "nil"
    /\ peek[s] = End => closed[s] /\ ch[s] = <<>> /\ ~failed[s]

\* What the merge has peeked at when it is where it is.
Peeked ==
    /\ lpc \in {"dst", "compare", "emit"} => peek["src"] \in Refs
    /\ lpc = "src" => peek["dst"] # Zero
    /\ lpc = "compare" => peek["dst"] \in Refs
    /\ lpc = "emit" => \/ peek["dst"] = End
                       \/ peek["dst"] \in Refs /\ peek["src"] < peek["dst"]
    /\ lpc = "exited" => peek["src"] \in {End, Zero} \/ peek["dst"] = Zero

\* A stream is sorted, from the peeked blob to the last one.
Ordered(s) ==
    /\ Sorted(ch[s])
    /\ \A x \in Ahead(s) : \A y \in left[s] : x < y
    /\ peek[s] \in Refs => \A x \in Range(ch[s]) : peek[s] < x

\* What of the destination is consumed is smaller than what of the source is
\* not.
Merged ==
    /\ \A s \in Sides : Rest(s) \subseteq stored[s]
    /\ \A d \in stored["dst"] \ Rest("dst") : \A x \in Rest("src") : d < x

\* The blobs reported as missing are, and no missing blob is passed over.
Reported ==
    Range(missingc) \cup missing \cup enqueued \subseteq stored["src"] \ stored["dst"]
Accounted ==
    verr \/ stored["src"] \ stored["dst"] \subseteq
                Rest("src") \cup Range(missingc) \cup missing \cup enqueued

\* What the validator knows.
Known ==
    /\ vpc # "drain" /\ (vpc = "done" => ~verr) => lpc = "exited" /\ missingc = <<>>
    /\ vpc \in {"dstErr", "enqueue"} \/ (vpc = "done" /\ ~verr) => errc["src"] = "nil"
    /\ vpc = "enqueue" \/ (vpc = "done" /\ ~verr) => errc["dst"] = "nil"
    /\ vpc = "done" /\ ~verr => missing = {}

IInv ==
    /\ Types /\ Bounded /\ Counted /\ Peeked /\ Merged /\ Reported /\ Accounted /\ Known
    /\ \A s \in Sides : Ending(s) /\ Ordered(s)
-----------------------------------------------------------------------------
USE ZenonT(20) DEF enumerators, merge, validator

\* A set of refs that is not empty has a least element, which is its Min.
LEMMA MinOf ==
    ASSUME NEW S \in SUBSET Nat, S # {}
    PROVE  Min(S) \in S /\ \A y \in S : Min(S) <= y
<1>. DEFINE R == {ss \in Nat \X Nat : ss[1] < ss[2]}
<1>1. IsWellFoundedOn(R, Nat)
  BY NatLessThanWellFounded DEF OpToRel
<1>. HIDE DEF R
<1>2. PICK x \in S : \A y \in S : <<y, x>> \notin R
  BY <1>1, WFMin
<1>3. ASSUME NEW y \in S PROVE x <= y
  <2>1. ~(y < x)
    BY <1>2, <1>3 DEF R
  <2>. QED BY <2>1, SMTT(20)
<1>. QED
  BY <1>3 DEF Min

\* Refs, the marker and the states of a peeker are different numbers.
LEMMA Markers ==
    /\ Refs \subseteq Nat /\ Zero \in Nat /\ End \in Nat
    /\ NoRef \notin Refs /\ Zero \notin Refs /\ End \notin Refs
    /\ Zero # NoRef /\ Zero # End /\ End # NoRef
    /\ \A r \in Refs : r < Zero
BY ShardAssumption, SMTT(20) DEF Refs, Zero, End, NoRef

\* What a channel holds after a send and after a receive.
LEMMA AppendRange ==
    ASSUME NEW S, NEW q \in Seq(S), NEW e \in S
    PROVE  Append(q, e) \in Seq(S) /\ Range(Append(q, e)) = Range(q) \cup {e}
<1>1. /\ Append(q, e) \in Seq(S) /\ Len(q) \in Nat /\ DOMAIN q = 1..Len(q)
      /\ DOMAIN Append(q, e) = 1..(Len(q) + 1) /\ Append(q, e)[Len(q) + 1] = e
      /\ \A i \in 1..Len(q) : Append(q, e)[i] = q[i]
  BY SMTT(20)
<1>2. \A i \in 1..(Len(q) + 1) : i \in 1..Len(q) \/ i = Len(q) + 1
  BY <1>1, SMTT(20)
<1>3. Len(q) + 1 \in 1..(Len(q) + 1) /\ \A i \in 1..Len(q) : i \in 1..(Len(q) + 1)
  BY <1>1, SMTT(20)
<1>4. Range(Append(q, e)) \subseteq Range(q) \cup {e}
  BY <1>1, <1>2 DEF Range
<1>5. Range(q) \cup {e} \subseteq Range(Append(q, e))
  BY <1>1, <1>3 DEF Range
<1>. QED
  BY <1>1, <1>4, <1>5

LEMMA TailRange ==
    ASSUME NEW S, NEW q \in Seq(S), q # <<>>
    PROVE  /\ Head(q) \in S /\ Tail(q) \in Seq(S)
           /\ Range(q) = {Head(q)} \cup Range(Tail(q))
<1>1. Len(q) \in Nat \ {0} /\ Head(q) = q[1] /\ DOMAIN q = 1..Len(q)
  BY SMTT(20)
<1>2. Tail(q) \in Seq(S) /\ DOMAIN Tail(q) = 1..(Len(q) - 1)
  BY SMTT(20)
<1>3. \A i \in 1..(Len(q) - 1) : Tail(q)[i] = q[i + 1]
  BY SMTT(20)
<1>4. ASSUME NEW i \in 1..Len(q) PROVE q[i] \in {Head(q)} \cup Range(Tail(q))
  <2>1. CASE i = 1
    BY <1>1, <2>1
  <2>2. CASE i # 1
    <3>1. i - 1 \in 1..(Len(q) - 1) /\ q[i] = Tail(q)[i - 1]
      BY <1>1, <1>3, <2>2, SMTT(20)
    <3>. QED BY <3>1, <1>2 DEF Range
  <2>. QED BY <2>1, <2>2
<1>5. ASSUME NEW i \in 1..(Len(q) - 1) PROVE Tail(q)[i] \in Range(q)
  <2>1. i + 1 \in 1..Len(q)
    BY <1>1, SMTT(20)
  <2>. QED BY <2>1, <1>1, <1>3 DEF Range
<1>6. Head(q) \in Range(q) /\ Head(q) \in S
  BY <1>1, SMTT(20) DEF Range
<1>7. Range(q) \subseteq {Head(q)} \cup Range(Tail(q))
  BY <1>4, <1>1 DEF Range
<1>8. Range(Tail(q)) \subseteq Range(q)
  BY <1>5, <1>2 DEF Range
<1>. QED
  BY <1>2, <1>6, <1>7, <1>8

LEMMA EmptyRange == Range(<<>>) = {}
BY SMTT(20) DEF Range

LEMMA RangeType ==
    ASSUME NEW S, NEW q \in Seq(S)
    PROVE  Range(q) \subseteq S
BY SMTT(20) DEF Range

LEMMA SortedAppend ==
    ASSUME NEW q \in Seq(Nat), NEW e \in Nat, Sorted(q), \A x \in Range(q) : x < e
    PROVE  Sorted(Append(q, e))
<1>1. \A i \in 1..Len(q) : q[i] < e
  BY SMTT(20) DEF Range
<1>. QED
  BY <1>1, SMTT(20) DEF Sorted

LEMMA SortedTail ==
    ASSUME NEW q \in Seq(Nat), Sorted(q), q # <<>>
    PROVE  Sorted(Tail(q)) /\ \A x \in Range(Tail(q)) : Head(q) < x
<1>1. /\ Len(q) \in Nat \ {0} /\ Len(Tail(q)) = Len(q) - 1 /\ Head(q) = q[1]
      /\ DOMAIN Tail(q) = 1..(Len(q) - 1)
      /\ \A i \in 1..(Len(q) - 1) : Tail(q)[i] = q[i + 1]
  BY SMTT(20)
<1>2. Sorted(Tail(q))
  BY <1>1, SMTT(20) DEF Sorted
<1>3. \A i \in 1..(Len(q) - 1) : Head(q) < Tail(q)[i]
  BY <1>1, SMTT(20) DEF Sorted
<1>. QED
  BY <1>1, <1>2, <1>3 DEF Range
-----------------------------------------------------------------------------
\* The lemmas *Step say that a conjunct of the invariant is preserved, with one
\* step for each action, always in the same order.

\* Types are kept.
LEMMA TypesStep ==
    ASSUME Types, Peeked, [Next]_vars
    PROVE  Types'
<1>1. ASSUME NEW s \in Sides, EnumSend(s) PROVE Types'
  <2>1. left[s] \subseteq Refs /\ left[s] # {} /\ Refs \subseteq Nat
    BY <1>1, Markers DEF EnumSend, Types
  <2>2. Min(left[s]) \in Refs
    BY <2>1, MinOf
  <2>3. Append(ch[s], Min(left[s])) \in Seq(Refs \cup {Zero})
    BY <2>2, AppendRange DEF Types
  <2>4. count[s] + 1 \in Nat
    BY SMTT(20) DEF Types
  <2>. QED BY <1>1, <2>2, <2>3, <2>4 DEF EnumSend, Types
<1>2. ASSUME NEW s \in Sides, EnumEnds(s) PROVE Types'
  BY <1>2 DEF EnumEnds, Types
<1>3. ASSUME NEW s \in Sides, EnumFails(s) PROVE Types'
  BY <1>3 DEF EnumFails, Types
<1>4. ASSUME NEW s \in Sides, SendZero(s) PROVE Types'
  <2>1. Append(ch[s], Zero) \in Seq(Refs \cup {Zero})
    BY AppendRange DEF Types
  <2>. QED BY <1>4, <2>1 DEF SendZero, Types
<1>5. ASSUME NEW s \in Sides, SendErr(s) PROVE Types'
  BY <1>5 DEF SendErr, Types
<1>6. ASSUME NEW s \in Sides, CloseEnum(s) PROVE Types'
  BY <1>6 DEF CloseEnum, Types
<1>7. ASSUME NEW s \in Sides, Fill(s) PROVE Types'
  <2>1. CASE ch[s] # <<>>
    <3>1. Head(ch[s]) \in Refs \cup {Zero} /\ Tail(ch[s]) \in Seq(Refs \cup {Zero})
      BY <2>1, TailRange DEF Types
    <3>2. /\ peek' = [peek EXCEPT ![s] = Head(ch[s])]
          /\ ch' = [ch EXCEPT ![s] = Tail(@)]
      BY <1>7, <2>1 DEF Fill
    <3>3. ch' \in [Sides -> Seq(Refs \cup {Zero})]
      BY <3>1, <3>2 DEF Types
    <3>4. peek' \in [Sides -> {NoRef, Zero, End} \cup Refs]
      BY <3>1, <3>2 DEF Types
    <3>. QED BY <1>7, <3>3, <3>4 DEF Fill, Types
  <2>2. CASE ch[s] = <<>>
    BY <1>7, <2>2 DEF Fill, Types
  <2>. QED BY <2>1, <2>2
<1>8. ASSUME SrcPeeked PROVE Types'
  BY <1>8 DEF SrcPeeked, Types
<1>9. ASSUME DstPeeked PROVE Types'
  BY <1>9 DEF DstPeeked, Types
<1>10. ASSUME Compare PROVE Types'
  BY <1>10 DEF Compare, Types
<1>11. ASSUME Emit PROVE Types'
  <2>1. peek["src"] \in Refs
    BY <1>11 DEF Emit, Peeked
  <2>2. Append(missingc, peek["src"]) \in Seq(Refs)
    BY <2>1, AppendRange DEF Types
  <2>. QED BY <1>11, <2>2 DEF Emit, Types, Sides
<1>12. ASSUME CollectMissing PROVE Types'
  <2>1. CASE missingc # <<>>
    <3>1. Head(missingc) \in Refs /\ Tail(missingc) \in Seq(Refs)
      BY <2>1, TailRange DEF Types
    <3>. QED BY <1>12, <2>1, <3>1 DEF CollectMissing, Types
  <2>2. CASE missingc = <<>>
    BY <1>12, <2>2 DEF CollectMissing, Types
  <2>. QED BY <2>1, <2>2
<1>13. ASSUME GetErrs PROVE Types'
  BY <1>13 DEF GetErrs, GetErr, Types
<1>14. ASSUME NEW b \in Refs, EnqueueMissing(b) PROVE Types'
  BY <1>14 DEF EnqueueMissing, Types
<1>15. ASSUME ShardDone PROVE Types'
  BY <1>15 DEF ShardDone, Types
<1>16. ASSUME UNCHANGED vars PROVE Types'
  BY <1>16 DEF vars, Types
<1>. QED
  BY <1>1, <1>2, <1>3, <1>4, <1>5, <1>6, <1>7, <1>8,
     <1>9, <1>10, <1>11, <1>12, <1>13, <1>14, <1>15, <1>16
     DEF Next, Enumerator, ListMissing, Validator

\* The channels keep to their capacities.
LEMMA BoundedStep ==
    ASSUME Types, Bounded, [Next]_vars
    PROVE  Bounded'
<1>1. ASSUME NEW s \in Sides, EnumSend(s) PROVE Bounded'
  <2>1. Len(ch'[s]) = Len(ch[s]) + 1 /\ Len(ch[s]) < EnumCap /\ Len(ch[s]) \in Nat
    BY <1>1, SMTT(20) DEF EnumSend, Types
  <2>2. Len(ch'[s]) <= EnumCap
    BY <2>1, ShardAssumption, SMTT(20)
  <2>. QED BY <1>1, <2>2 DEF EnumSend, Bounded, Types
<1>2. ASSUME NEW s \in Sides, EnumEnds(s) PROVE Bounded'
  BY <1>2 DEF EnumEnds, Bounded
<1>3. ASSUME NEW s \in Sides, EnumFails(s) PROVE Bounded'
  BY <1>3 DEF EnumFails, Bounded
<1>4. ASSUME NEW s \in Sides, SendZero(s) PROVE Bounded'
  <2>1. Len(ch'[s]) = Len(ch[s]) + 1 /\ Len(ch[s]) < EnumCap /\ Len(ch[s]) \in Nat
    BY <1>4, SMTT(20) DEF SendZero, Types
  <2>2. Len(ch'[s]) <= EnumCap
    BY <2>1, ShardAssumption, SMTT(20)
  <2>. QED BY <1>4, <2>2 DEF SendZero, Bounded, Types
<1>5. ASSUME NEW s \in Sides, SendErr(s) PROVE Bounded'
  BY <1>5 DEF SendErr, Bounded
<1>6. ASSUME NEW s \in Sides, CloseEnum(s) PROVE Bounded'
  BY <1>6 DEF CloseEnum, Bounded
<1>7. ASSUME NEW s \in Sides, Fill(s) PROVE Bounded'
  <2>1. CASE ch[s] # <<>>
    <3>1. Len(ch'[s]) = Len(ch[s]) - 1 /\ Len(ch[s]) <= EnumCap /\ Len(ch[s]) \in Nat
      BY <1>7, <2>1, SMTT(20) DEF Fill, Types, Bounded
    <3>2. Len(ch'[s]) <= EnumCap
      BY <3>1, ShardAssumption, SMTT(20)
    <3>. QED BY <1>7, <2>1, <3>2 DEF Fill, Bounded, Types
  <2>2. CASE ch[s] = <<>>
    BY <1>7, <2>2 DEF Fill, Bounded
  <2>. QED BY <2>1, <2>2
<1>8. ASSUME SrcPeeked PROVE Bounded'
  BY <1>8 DEF SrcPeeked, Bounded
<1>9. ASSUME DstPeeked PROVE Bounded'
  BY <1>9 DEF DstPeeked, Bounded
<1>10. ASSUME Compare PROVE Bounded'
  BY <1>10 DEF Compare, Bounded
<1>11. ASSUME Emit PROVE Bounded'
  <2>1. Len(missingc') = Len(missingc) + 1 /\ Len(missingc) < MissingCap
    BY <1>11, SMTT(20) DEF Emit, Types
  <2>2. Len(missingc') <= MissingCap
    BY <2>1, ShardAssumption, SMTT(20) DEF Types
  <2>. QED BY <1>11, <2>2 DEF Emit, Bounded
<1>12. ASSUME CollectMissing PROVE Bounded'
  <2>1. CASE missingc # <<>>
    <3>1. Len(missingc') = Len(missingc) - 1 /\ Len(missingc) \in Nat
      BY <1>12, <2>1, SMTT(20) DEF CollectMissing, Types
    <3>2. Len(missingc') <= MissingCap
      BY <3>1, ShardAssumption, SMTT(20) DEF Bounded
    <3>. QED BY <1>12, <3>2 DEF CollectMissing, Bounded
  <2>2. CASE missingc = <<>>
    BY <1>12, <2>2 DEF CollectMissing, Bounded
  <2>. QED BY <2>1, <2>2
<1>13. ASSUME GetErrs PROVE Bounded'
  BY <1>13 DEF GetErrs, GetErr, Bounded
<1>14. ASSUME NEW b \in Refs, EnqueueMissing(b) PROVE Bounded'
  BY <1>14 DEF EnqueueMissing, Bounded
<1>15. ASSUME ShardDone PROVE Bounded'
  BY <1>15 DEF ShardDone, Bounded
<1>16. ASSUME UNCHANGED vars PROVE Bounded'
  BY <1>16 DEF vars, Bounded
<1>. QED
  BY <1>1, <1>2, <1>3, <1>4, <1>5, <1>6, <1>7, <1>8,
     <1>9, <1>10, <1>11, <1>12, <1>13, <1>14, <1>15, <1>16
     DEF Next, Enumerator, ListMissing, Validator

\* The sets of refs are finite.
LEMMA FiniteRefs ==
    ASSUME NEW S \in SUBSET Refs
    PROVE  /\ IsFiniteSet(S) /\ Cardinality(S) \in Nat /\ Cardinality(S) <= MaxRef
<1>1. MaxRef \in Nat \ {0}
  BY ShardAssumption
<1>2. IsFiniteSet(Refs) /\ Cardinality(Refs) = MaxRef
  BY <1>1, FS_Interval, SMTT(20) DEF Refs
<1>3. IsFiniteSet(S) /\ Cardinality(S) <= Cardinality(Refs)
  BY <1>2, FS_Subset
<1>. QED
  BY <1>2, <1>3, FS_CardinalityType

\* A blob that is enumerated is counted.
LEMMA CountedStep ==
    ASSUME Types, Counted, [Next]_vars
    PROVE  Counted'
<1>1. ASSUME NEW s \in Sides, EnumSend(s) PROVE Counted'
  <2>1. left[s] \in SUBSET Refs /\ left[s] # {} /\ Refs \subseteq Nat
    BY <1>1, Markers DEF EnumSend, Types
  <2>2. Min(left[s]) \in left[s]
    BY <2>1, MinOf
  <2>3. IsFiniteSet(left[s]) /\ Cardinality(left[s]) \in Nat
    BY <2>1, FiniteRefs
  <2>4. Cardinality(left[s] \ {Min(left[s])}) = Cardinality(left[s]) - 1
    BY <2>2, <2>3, FS_RemoveElement
  <2>5. left'[s] = left[s] \ {Min(left[s])} /\ count'[s] = count[s] + 1 /\ count[s] \in Nat
    BY <1>1 DEF EnumSend, Types
  <2>6. count[s] + Cardinality(left[s]) = Cardinality(stored[s])
    BY DEF Counted
  <2>7. count'[s] + Cardinality(left'[s]) = Cardinality(stored[s])
    BY <2>3, <2>4, <2>5, <2>6, SMTT(20)
  <2>8. \A t \in Sides \ {s} : left'[t] = left[t] /\ count'[t] = count[t]
    BY <1>1 DEF EnumSend, Types
  <2>9. stored' = stored
    BY <1>1 DEF EnumSend
  <2>. QED BY <2>7, <2>8, <2>9 DEF Counted
<1>2. ASSUME NEW s \in Sides, EnumEnds(s) PROVE Counted'
  BY <1>2 DEF EnumEnds, Counted
<1>3. ASSUME NEW s \in Sides, EnumFails(s) PROVE Counted'
  BY <1>3 DEF EnumFails, Counted
<1>4. ASSUME NEW s \in Sides, SendZero(s) PROVE Counted'
  BY <1>4 DEF SendZero, Counted
<1>5. ASSUME NEW s \in Sides, SendErr(s) PROVE Counted'
  BY <1>5 DEF SendErr, Counted
<1>6. ASSUME NEW s \in Sides, CloseEnum(s) PROVE Counted'
  BY <1>6 DEF CloseEnum, Counted
<1>7. ASSUME NEW s \in Sides, Fill(s) PROVE Counted'
  BY <1>7 DEF Fill, Counted
<1>8. ASSUME SrcPeeked PROVE Counted'
  BY <1>8 DEF SrcPeeked, Counted
<1>9. ASSUME DstPeeked PROVE Counted'
  BY <1>9 DEF DstPeeked, Counted
<1>10. ASSUME Compare PROVE Counted'
  BY <1>10 DEF Compare, Counted
<1>11. ASSUME Emit PROVE Counted'
  BY <1>11 DEF Emit, Counted
<1>12. ASSUME CollectMissing PROVE Counted'
  BY <1>12 DEF CollectMissing, Counted
<1>13. ASSUME GetErrs PROVE Counted'
  BY <1>13 DEF GetErrs, GetErr, Counted
<1>14. ASSUME NEW b \in Refs, EnqueueMissing(b) PROVE Counted'
  BY <1>14 DEF EnqueueMissing, Counted
<1>15. ASSUME ShardDone PROVE Counted'
  BY <1>15 DEF ShardDone, Counted
<1>16. ASSUME UNCHANGED vars PROVE Counted'
  BY <1>16 DEF vars, Counted
<1>. QED
  BY <1>1, <1>2, <1>3, <1>4, <1>5, <1>6, <1>7, <1>8,
     <1>9, <1>10, <1>11, <1>12, <1>13, <1>14, <1>15, <1>16
     DEF Next, Enumerator, ListMissing, Validator

\* The merge is where its peekers are.
LEMMA PeekedStep ==
    ASSUME Types, Peeked, [Next]_vars
    PROVE  Peeked'
<1>1. ASSUME NEW s \in Sides, EnumSend(s) PROVE Peeked'
  BY <1>1 DEF EnumSend, Peeked
<1>2. ASSUME NEW s \in Sides, EnumEnds(s) PROVE Peeked'
  BY <1>2 DEF EnumEnds, Peeked
<1>3. ASSUME NEW s \in Sides, EnumFails(s) PROVE Peeked'
  BY <1>3 DEF EnumFails, Peeked
<1>4. ASSUME NEW s \in Sides, SendZero(s) PROVE Peeked'
  BY <1>4 DEF SendZero, Peeked
<1>5. ASSUME NEW s \in Sides, SendErr(s) PROVE Peeked'
  BY <1>5 DEF SendErr, Peeked
<1>6. ASSUME NEW s \in Sides, CloseEnum(s) PROVE Peeked'
  BY <1>6 DEF CloseEnum, Peeked
<1>7. ASSUME NEW s \in Sides, Fill(s) PROVE Peeked'
  <2>1. \A t \in Sides \ {s} : peek'[t] = peek[t]
    BY <1>7 DEF Fill, Types
  <2>2. lpc = s /\ lpc' = s
    BY <1>7 DEF Fill
  <2>. QED BY <2>1, <2>2 DEF Peeked, Sides
<1>8. ASSUME SrcPeeked PROVE Peeked'
  BY <1>8 DEF SrcPeeked, Peeked, Types, Sides
<1>9. ASSUME DstPeeked PROVE Peeked'
  BY <1>9 DEF DstPeeked, Peeked, Types, Sides
<1>10. ASSUME Compare PROVE Peeked'
  BY <1>10, Markers DEF Compare, Peeked, Types, Sides
<1>11. ASSUME Emit PROVE Peeked'
  BY <1>11, Markers DEF Emit, Peeked, Types, Sides
<1>12. ASSUME CollectMissing PROVE Peeked'
  BY <1>12 DEF CollectMissing, Peeked
<1>13. ASSUME GetErrs PROVE Peeked'
  BY <1>13 DEF GetErrs, GetErr, Peeked
<1>14. ASSUME NEW b \in Refs, EnqueueMissing(b) PROVE Peeked'
  BY <1>14 DEF EnqueueMissing, Peeked
<1>15. ASSUME ShardDone PROVE Peeked'
  BY <1>15 DEF ShardDone, Peeked
<1>16. ASSUME UNCHANGED vars PROVE Peeked'
  BY <1>16 DEF vars, Peeked
<1>. QED
  BY <1>1, <1>2, <1>3, <1>4, <1>5, <1>6, <1>7, <1>8,
     <1>9, <1>10, <1>11, <1>12, <1>13, <1>14, <1>15, <1>16
     DEF Next, Enumerator, ListMissing, Validator

\* What the actions that move a blob along a stream do to it.
LEMMA SendView ==
    ASSUME Types, NEW s \in Sides, EnumSend(s)
    PROVE  LET m == Min(left[s])
           IN  /\ m \in left[s] /\ m \in Refs /\ \A y \in left[s] : m <= y
               /\ left'[s] = left[s] \ {m} /\ ch'[s] = Append(ch[s], m)
               /\ Range(ch'[s]) = Range(ch[s]) \cup {m}
               /\ \A t \in Sides \ {s} : left'[t] = left[t] /\ ch'[t] = ch[t]
<1>1. left[s] \subseteq Refs /\ left[s] # {} /\ Refs \subseteq Nat
  BY Markers DEF EnumSend, Types
<1>2. Min(left[s]) \in left[s] /\ \A y \in left[s] : Min(left[s]) <= y
  BY <1>1, MinOf
<1>. DEFINE S == Refs \cup {Zero}
<1>3. ch[s] \in Seq(S) /\ Min(left[s]) \in S
  BY <1>1, <1>2 DEF Types
<1>. HIDE DEF S
<1>4. Range(Append(ch[s], Min(left[s]))) = Range(ch[s]) \cup {Min(left[s])}
  BY <1>3, AppendRange, SMTT(20)
<1>. QED
  BY <1>1, <1>2, <1>4 DEF EnumSend, Types

LEMMA ZeroView ==
    ASSUME Types, NEW s \in Sides, SendZero(s)
    PROVE  /\ ch'[s] = Append(ch[s], Zero) /\ Range(ch'[s]) = Range(ch[s]) \cup {Zero}
           /\ \A t \in Sides \ {s} : ch'[t] = ch[t]
<1>. DEFINE S == Refs \cup {Zero}
<1>1. ch[s] \in Seq(S) /\ Zero \in S
  BY DEF Types
<1>. HIDE DEF S
<1>2. Range(Append(ch[s], Zero)) = Range(ch[s]) \cup {Zero}
  BY <1>1, AppendRange, SMTT(20)
<1>. QED
  BY <1>2 DEF SendZero, Types

LEMMA FillView ==
    ASSUME Types, NEW s \in Sides, Fill(s)
    PROVE  /\ peek[s] = NoRef
           /\ \/ /\ ch[s] # <<>> /\ ch'[s] = Tail(ch[s]) /\ peek'[s] = Head(ch[s])
                 /\ peek'[s] \in Refs \cup {Zero}
                 /\ Range(ch[s]) = {peek'[s]} \cup Range(ch'[s])
              \/ /\ ch[s] = <<>> /\ ch'[s] = ch[s] /\ peek'[s] = End /\ closed[s]
                 /\ Range(ch[s]) = {} /\ Range(ch'[s]) = {}
           /\ \A t \in Sides \ {s} : peek'[t] = peek[t] /\ ch'[t] = ch[t]
<1>1. CASE ch[s] # <<>>
  <2>1. ch[s] \in Seq(Refs \cup {Zero})
    BY DEF Types
  <2>2. /\ Head(ch[s]) \in Refs \cup {Zero}
        /\ Range(ch[s]) = {Head(ch[s])} \cup Range(Tail(ch[s]))
    BY <1>1, <2>1, TailRange
  <2>. QED BY <1>1, <2>2 DEF Fill, Types
<1>2. CASE ch[s] = <<>>
  BY <1>2, EmptyRange DEF Fill, Types
<1>. QED
  BY <1>1, <1>2

\* Comparing and emitting take a peeked blob, or leave the peeker alone.
LEMMA TakeView ==
    ASSUME Types, Peeked, NEW t \in Sides, Compare \/ Emit
    PROVE  /\ peek'[t] = peek[t] \/ (peek[t] \in Refs /\ peek'[t] = NoRef)
           /\ ch' = ch /\ left' = left /\ stored' = stored
BY DEF Compare, Emit, Peeked, Types, Sides

\* How an enumeration ends.
LEMMA EndingStep ==
    ASSUME NEW t \in Sides, Types, Peeked, Ending(t), [Next]_vars
    PROVE  Ending(t)'
<1>1. ASSUME NEW s \in Sides, EnumSend(s) PROVE Ending(t)'
  <2>1. CASE s # t
    BY <1>1, <2>1 DEF EnumSend, Types, Ending
  <2>2. CASE s = t
    <3>1. Zero \in Range(ch'[t]) <=> Zero \in Range(ch[t])
      <4>1. PICK m \in Refs : Range(ch'[t]) = Range(ch[t]) \cup {m}
        BY <1>1, <2>2, SendView
      <4>2. m # Zero
        BY Markers
      <4>. QED BY <4>1, <4>2
    <3>2. epc[t] = "enum"
      BY <1>1, <2>2 DEF EnumSend
    <3>3. epc' = epc /\ failed' = failed /\ closed' = closed /\ errc' = errc /\ peek' = peek
      BY <1>1 DEF EnumSend
    <3>. QED BY <3>1, <3>2, <3>3 DEF Ending
  <2>. QED BY <2>1, <2>2
<1>2. ASSUME NEW s \in Sides, EnumEnds(s) PROVE Ending(t)'
  <2>1. CASE s # t
    BY <1>2, <2>1 DEF EnumEnds, Types, Ending
  <2>2. CASE s = t
    BY <1>2, <2>2 DEF EnumEnds, Types, Ending
  <2>. QED BY <2>1, <2>2
<1>3. ASSUME NEW s \in Sides, EnumFails(s) PROVE Ending(t)'
  <2>1. CASE s # t
    BY <1>3, <2>1 DEF EnumFails, Types, Ending
  <2>2. CASE s = t
    BY <1>3, <2>2 DEF EnumFails, Types, Ending
  <2>. QED BY <2>1, <2>2
<1>4. ASSUME NEW s \in Sides, SendZero(s) PROVE Ending(t)'
  <2>1. CASE s # t
    BY <1>4, <2>1 DEF SendZero, Types, Ending
  <2>2. CASE s = t
    <3>1. Zero \in Range(ch'[t])
      BY <1>4, <2>2, ZeroView
    <3>2. epc[t] = "zero" /\ epc'[t] = "errc"
      BY <1>4, <2>2 DEF SendZero, Types
    <3>3. failed' = failed /\ closed' = closed /\ errc' = errc /\ peek' = peek /\ left' = left
      BY <1>4 DEF SendZero
    <3>. QED BY <3>1, <3>2, <3>3 DEF Ending
  <2>. QED BY <2>1, <2>2
<1>5. ASSUME NEW s \in Sides, SendErr(s) PROVE Ending(t)'
  <2>1. CASE s # t
    BY <1>5, <2>1 DEF SendErr, Types, Ending
  <2>2. CASE s = t
    BY <1>5, <2>2 DEF SendErr, Types, Ending
  <2>. QED BY <2>1, <2>2
<1>6. ASSUME NEW s \in Sides, CloseEnum(s) PROVE Ending(t)'
  <2>1. CASE s # t
    BY <1>6, <2>1 DEF CloseEnum, Types, Ending
  <2>2. CASE s = t
    BY <1>6, <2>2 DEF CloseEnum, Types, Ending
  <2>. QED BY <2>1, <2>2
<1>7. ASSUME NEW s \in Sides, Fill(s) PROVE Ending(t)'
  <2>1. CASE s # t
    BY <1>7, <2>1 DEF Fill, Types, Ending
  <2>2. CASE s = t
    <3>1. CASE ch[t] # <<>>
      <4>1. Zero \in Range(ch'[t]) \cup {peek'[t]} <=> Zero \in Range(ch[t]) \cup {peek[t]}
        BY <1>7, <2>2, <3>1, FillView, Markers
      <4>2. peek'[t] # End
        BY <1>7, <2>2, <3>1, FillView, Markers
      <4>. QED BY <1>7, <4>1, <4>2 DEF Fill, Ending
    <3>2. CASE ch[t] = <<>>
      <4>1. ch'[t] = <<>> /\ peek'[t] = End /\ closed[t]
        BY <1>7, <2>2, <3>2, FillView
      <4>2. Zero \notin Range(ch[t]) \cup {peek[t]} /\ Zero \notin Range(ch'[t]) \cup {peek'[t]}
        BY <1>7, <2>2, <3>2, FillView, Markers
      <4>3. ~failed[t]
        BY <4>1, <4>2 DEF Ending
      <4>. QED BY <1>7, <4>1, <4>2, <4>3 DEF Fill, Ending
    <3>. QED BY <3>1, <3>2
  <2>. QED BY <2>1, <2>2
<1>8. ASSUME SrcPeeked PROVE Ending(t)'
  BY <1>8 DEF SrcPeeked, Ending
<1>9. ASSUME DstPeeked PROVE Ending(t)'
  BY <1>9 DEF DstPeeked, Ending
<1>10. ASSUME Compare PROVE Ending(t)'
  <2>1. peek'[t] = peek[t] \/ (peek[t] \in Refs /\ peek'[t] = NoRef)
    BY <1>10, TakeView
  <2>2. Zero \in Range(ch[t]) \cup {peek'[t]} <=> Zero \in Range(ch[t]) \cup {peek[t]}
    BY <2>1, Markers
  <2>3. peek'[t] = End => peek[t] = End
    BY <2>1, Markers
  <2>. QED BY <1>10, <2>2, <2>3 DEF Compare, Ending
<1>11. ASSUME Emit PROVE Ending(t)'
  <2>1. peek'[t] = peek[t] \/ (peek[t] \in Refs /\ peek'[t] = NoRef)
    BY <1>11, TakeView
  <2>2. Zero \in Range(ch[t]) \cup {peek'[t]} <=> Zero \in Range(ch[t]) \cup {peek[t]}
    BY <2>1, Markers
  <2>3. peek'[t] = End => peek[t] = End
    BY <2>1, Markers
  <2>. QED BY <1>11, <2>2, <2>3 DEF Emit, Ending
<1>12. ASSUME CollectMissing PROVE Ending(t)'
  BY <1>12 DEF CollectMissing, Ending
<1>13. ASSUME GetErrs PROVE Ending(t)'
  BY <1>13 DEF GetErrs, GetErr, Ending
<1>14. ASSUME NEW b \in Refs, EnqueueMissing(b) PROVE Ending(t)'
  BY <1>14 DEF EnqueueMissing, Ending
<1>15. ASSUME ShardDone PROVE Ending(t)'
  BY <1>15 DEF ShardDone, Ending
<1>16. ASSUME UNCHANGED vars PROVE Ending(t)'
  BY <1>16 DEF vars, Ending
<1>. QED
  BY <1>1, <1>2, <1>3, <1>4, <1>5, <1>6, <1>7, <1>8,
     <1>9, <1>10, <1>11, <1>12, <1>13, <1>14, <1>15, <1>16
     DEF Next, Enumerator, ListMissing, Validator

\* A stream is a sequence of numbers; what it holds besides the marker is Ahead.
LEMMA StreamType ==
    ASSUME Types, NEW t \in Sides
    PROVE  /\ ch[t] \in Seq(Nat) /\ left[t] \subseteq Nat /\ Ahead(t) \subseteq Nat
           /\ Range(ch[t]) \subseteq Ahead(t) \cup {Zero}
           /\ peek[t] \in Refs => peek[t] \in Ahead(t)
<1>1. ch[t] \in Seq(Refs \cup {Zero}) /\ left[t] \subseteq Refs
  BY DEF Types
<1>2. ch[t] \in Seq(Nat)
  <2>1. Len(ch[t]) \in Nat /\ ch[t] \in [1..Len(ch[t]) -> Refs \cup {Zero}]
    BY <1>1, SMTT(20)
  <2>2. ch[t] \in [1..Len(ch[t]) -> Nat]
    BY <2>1, Markers
  <2>. QED BY <2>1, <2>2, SMTT(20)
<1>3. Range(ch[t]) \subseteq Refs \cup {Zero}
  BY <1>1, RangeType, SMTT(20)
<1>. QED
  BY <1>1, <1>2, <1>3, Markers DEF Ahead

\* The streams stay sorted.
LEMMA OrderedStep ==
    ASSUME NEW t \in Sides, Types, Peeked, Ending(t), Ordered(t), [Next]_vars
    PROVE  Ordered(t)'
<1>1. ASSUME NEW s \in Sides, EnumSend(s) PROVE Ordered(t)'
  <2>1. CASE s # t
    BY <1>1, <2>1 DEF EnumSend, Types, Ordered, Ahead
  <2>2. CASE s = t
    <3>. DEFINE m == Min(left[t])
    <3>1. /\ m \in left[t] /\ m \in Refs /\ \A y \in left[t] : m <= y
          /\ left'[t] = left[t] \ {m} /\ ch'[t] = Append(ch[t], m)
          /\ Range(ch'[t]) = Range(ch[t]) \cup {m}
      BY <1>1, <2>2, SendView
    <3>2. peek' = peek /\ epc[t] = "enum"
      BY <1>1, <2>2 DEF EnumSend
    <3>. HIDE DEF m
    <3>3. Zero \notin Range(ch[t])
      BY <3>2 DEF Ending
    <3>4. \A x \in Ahead(t) : x < m
      BY <3>1 DEF Ordered
    <3>5. Range(ch[t]) \subseteq Ahead(t)
      BY <3>3, StreamType
    <3>6. m \in Nat /\ ch[t] \in Seq(Nat) /\ left[t] \subseteq Nat
      BY <3>1, StreamType
    <3>7. Sorted(ch'[t])
      BY <3>1, <3>4, <3>5, <3>6, SortedAppend DEF Ordered
    <3>8. Ahead(t)' = Ahead(t) \cup {m}
      BY <3>1, <3>2 DEF Ahead
    <3>9. \A y \in left'[t] : m < y
      BY <3>1, <3>6, SMTT(20)
    <3>10. \A x \in Ahead(t)' : \A y \in left'[t] : x < y
      BY <3>1, <3>8, <3>9 DEF Ordered
    <3>11. peek'[t] \in Refs => \A x \in Range(ch'[t]) : peek'[t] < x
      BY <3>1, <3>2, <3>4, StreamType DEF Ordered
    <3>. QED BY <3>7, <3>10, <3>11 DEF Ordered
  <2>. QED BY <2>1, <2>2
<1>2. ASSUME NEW s \in Sides, EnumEnds(s) PROVE Ordered(t)'
  <2>1. CASE s # t
    BY <1>2, <2>1 DEF EnumEnds, Types, Ordered, Ahead
  <2>2. CASE s = t
    BY <1>2, <2>2 DEF EnumEnds, Ordered, Ahead
  <2>. QED BY <2>1, <2>2
<1>3. ASSUME NEW s \in Sides, EnumFails(s) PROVE Ordered(t)'
  <2>1. CASE s # t
    BY <1>3, <2>1 DEF EnumFails, Types, Ordered, Ahead
  <2>2. CASE s = t
    BY <1>3, <2>2 DEF EnumFails, Ordered, Ahead
  <2>. QED BY <2>1, <2>2
<1>4. ASSUME NEW s \in Sides, SendZero(s) PROVE Ordered(t)'
  <2>1. CASE s # t
    BY <1>4, <2>1 DEF SendZero, Types, Ordered, Ahead
  <2>2. CASE s = t
    <3>1. ch'[t] = Append(ch[t], Zero) /\ Range(ch'[t]) = Range(ch[t]) \cup {Zero}
      BY <1>4, <2>2, ZeroView
    <3>2. peek' = peek /\ left' = left /\ epc[t] = "zero"
      BY <1>4, <2>2 DEF SendZero
    <3>3. Zero \notin Range(ch[t])
      BY <3>2 DEF Ending
    <3>4. \A x \in Range(ch[t]) : x < Zero
      BY <3>3, StreamType, Markers DEF Ahead
    <3>5. Sorted(ch'[t])
      BY <3>1, <3>4, StreamType, Markers, SortedAppend DEF Ordered
    <3>6. Ahead(t)' = Ahead(t)
      BY <3>1, <3>2, Markers DEF Ahead
    <3>. QED BY <3>1, <3>2, <3>5, <3>6, Markers DEF Ordered
  <2>. QED BY <2>1, <2>2
<1>5. ASSUME NEW s \in Sides, SendErr(s) PROVE Ordered(t)'
  <2>1. CASE s # t
    BY <1>5, <2>1 DEF SendErr, Types, Ordered, Ahead
  <2>2. CASE s = t
    BY <1>5, <2>2 DEF SendErr, Ordered, Ahead
  <2>. QED BY <2>1, <2>2
<1>6. ASSUME NEW s \in Sides, CloseEnum(s) PROVE Ordered(t)'
  <2>1. CASE s # t
    BY <1>6, <2>1 DEF CloseEnum, Types, Ordered, Ahead
  <2>2. CASE s = t
    BY <1>6, <2>2 DEF CloseEnum, Ordered, Ahead
  <2>. QED BY <2>1, <2>2
<1>7. ASSUME NEW s \in Sides, Fill(s) PROVE Ordered(t)'
  <2>1. CASE s # t
    BY <1>7, <2>1 DEF Fill, Types, Ordered, Ahead
  <2>2. CASE s = t
    <3>1. left' = left /\ peek[t] = NoRef /\ Sorted(ch[t]) /\ ch[t] \in Seq(Nat)
      BY <1>7, <2>2, StreamType DEF Fill, Ordered
    <3>2. CASE ch[t] # <<>>
      <4>1. /\ ch'[t] = Tail(ch[t]) /\ peek'[t] = Head(ch[t])
            /\ Range(ch[t]) = {peek'[t]} \cup Range(ch'[t])
        BY <1>7, <2>2, <3>2, FillView
      <4>2. Sorted(ch'[t]) /\ \A x \in Range(ch'[t]) : peek'[t] < x
        BY <3>1, <3>2, <4>1, SortedTail
      <4>3. Ahead(t)' = Ahead(t)
        BY <3>1, <4>1, Markers DEF Ahead
      <4>. QED BY <3>1, <4>2, <4>3 DEF Ordered
    <3>3. CASE ch[t] = <<>>
      <4>1. ch'[t] = ch[t] /\ peek'[t] = End
        BY <1>7, <2>2, <3>3, FillView
      <4>2. Ahead(t)' = Ahead(t)
        BY <3>1, <4>1, Markers DEF Ahead
      <4>. QED BY <3>1, <4>1, <4>2, Markers DEF Ordered
    <3>. QED BY <3>2, <3>3
  <2>. QED BY <2>1, <2>2
<1>8. ASSUME SrcPeeked PROVE Ordered(t)'
  BY <1>8 DEF SrcPeeked, Ordered, Ahead
<1>9. ASSUME DstPeeked PROVE Ordered(t)'
  BY <1>9 DEF DstPeeked, Ordered, Ahead
<1>10. ASSUME Compare PROVE Ordered(t)'
  BY <1>10, TakeView, Markers DEF Ordered, Ahead
<1>11. ASSUME Emit PROVE Ordered(t)'
  BY <1>11, TakeView, Markers DEF Ordered, Ahead
<1>12. ASSUME CollectMissing PROVE Ordered(t)'
  BY <1>12 DEF CollectMissing, Ordered, Ahead
<1>13. ASSUME GetErrs PROVE Ordered(t)'
  BY <1>13 DEF GetErrs, GetErr, Ordered, Ahead
<1>14. ASSUME NEW b \in Refs, EnqueueMissing(b) PROVE Ordered(t)'
  BY <1>14 DEF EnqueueMissing, Ordered, Ahead
<1>15. ASSUME ShardDone PROVE Ordered(t)'
  BY <1>15 DEF ShardDone, Ordered, Ahead
<1>16. ASSUME UNCHANGED vars PROVE Ordered(t)'
  BY <1>16 DEF vars, Ordered, Ahead
<1>. QED
  BY <1>1, <1>2, <1>3, <1>4, <1>5, <1>6, <1>7, <1>8,
     <1>9, <1>10, <1>11, <1>12, <1>13, <1>14, <1>15, <1>16
     DEF Next, Enumerator, ListMissing, Validator

\* The peeked blob is the least of its side.
LEMMA HeadIsLeast ==
    ASSUME Types, NEW t \in Sides, Ordered(t), peek[t] \in Refs
    PROVE  /\ peek[t] \in Rest(t) /\ peek[t] \notin left[t] \cup Range(ch[t])
           /\ \A x \in Rest(t) \ {peek[t]} : peek[t] < x
<1>1. peek[t] \in Ahead(t) /\ peek[t] \in Nat
  BY Markers DEF Ahead
<1>2. \A x \in left[t] \cup Range(ch[t]) : peek[t] < x
  BY <1>1 DEF Ordered
<1>3. ~(peek[t] < peek[t])
  BY <1>1, SMTT(20)
<1>. QED
  BY <1>1, <1>2, <1>3 DEF Rest, Ahead

\* When the merge takes a blob, it is gone from its side.
LEMMA TakeRest ==
    ASSUME Types, Peeked, NEW t \in Sides, Ordered(t), Compare \/ Emit
    PROVE  \/ peek'[t] = peek[t] /\ Rest(t)' = Rest(t)
           \/ peek[t] \in Refs /\ peek'[t] = NoRef /\ Rest(t)' = Rest(t) \ {peek[t]}
<1>1. CASE peek'[t] = peek[t]
  BY <1>1, TakeView DEF Rest, Ahead
<1>2. CASE peek[t] \in Refs /\ peek'[t] = NoRef
  BY <1>2, TakeView, HeadIsLeast, Markers DEF Rest, Ahead
<1>. QED
  BY <1>1, <1>2, TakeView


\* Nothing else changes what the merge has yet to consume.
LEMMA RestSame ==
    ASSUME NEW t \in Sides, Types, ~Compare, ~Emit, [Next]_vars
    PROVE  Rest(t)' = Rest(t) /\ stored' = stored
<1>1. ASSUME NEW s \in Sides, EnumSend(s) PROVE Rest(t)' = Rest(t) /\ stored' = stored
  <2>1. CASE s # t
    BY <1>1, <2>1 DEF EnumSend, Types, Rest, Ahead
  <2>2. CASE s = t
    <3>. DEFINE m == Min(left[t])
    <3>1. /\ m \in left[t] /\ m \in Refs /\ left'[t] = left[t] \ {m}
          /\ Range(ch'[t]) = Range(ch[t]) \cup {m}
      BY <1>1, <2>2, SendView
    <3>. HIDE DEF m
    <3>2. peek' = peek /\ stored' = stored
      BY <1>1 DEF EnumSend
    <3>3. Ahead(t)' = Ahead(t) \cup {m}
      BY <3>1, <3>2 DEF Ahead
    <3>. QED BY <3>1, <3>2, <3>3 DEF Rest
  <2>. QED BY <2>1, <2>2
<1>2. ASSUME NEW s \in Sides, EnumEnds(s) PROVE Rest(t)' = Rest(t) /\ stored' = stored
  BY <1>2 DEF EnumEnds, Rest, Ahead
<1>3. ASSUME NEW s \in Sides, EnumFails(s) PROVE Rest(t)' = Rest(t) /\ stored' = stored
  BY <1>3 DEF EnumFails, Rest, Ahead
<1>4. ASSUME NEW s \in Sides, SendZero(s) PROVE Rest(t)' = Rest(t) /\ stored' = stored
  <2>1. CASE s # t
    BY <1>4, <2>1 DEF SendZero, Types, Rest, Ahead
  <2>2. CASE s = t
    BY <1>4, <2>2, ZeroView, Markers DEF SendZero, Rest, Ahead
  <2>. QED BY <2>1, <2>2
<1>5. ASSUME NEW s \in Sides, SendErr(s) PROVE Rest(t)' = Rest(t) /\ stored' = stored
  BY <1>5 DEF SendErr, Rest, Ahead
<1>6. ASSUME NEW s \in Sides, CloseEnum(s) PROVE Rest(t)' = Rest(t) /\ stored' = stored
  BY <1>6 DEF CloseEnum, Rest, Ahead
<1>7. ASSUME NEW s \in Sides, Fill(s) PROVE Rest(t)' = Rest(t) /\ stored' = stored
  <2>1. CASE s # t
    BY <1>7, <2>1 DEF Fill, Types, Rest, Ahead
  <2>2. CASE s = t
    <3>1. \/ peek'[t] \in Refs \cup {Zero} /\ Range(ch[t]) = {peek'[t]} \cup Range(ch'[t])
          \/ peek'[t] = End /\ Range(ch[t]) = {} /\ Range(ch'[t]) = {}
      BY <1>7, <2>2, FillView
    <3>2. peek[t] = NoRef /\ left' = left /\ stored' = stored
      BY <1>7, <2>2 DEF Fill
    <3>3. Ahead(t)' = Ahead(t)
      BY <3>1, <3>2, Markers DEF Ahead
    <3>. QED BY <3>2, <3>3 DEF Rest
  <2>. QED BY <2>1, <2>2
<1>8. ASSUME SrcPeeked PROVE Rest(t)' = Rest(t) /\ stored' = stored
  BY <1>8 DEF SrcPeeked, Rest, Ahead
<1>9. ASSUME DstPeeked PROVE Rest(t)' = Rest(t) /\ stored' = stored
  BY <1>9 DEF DstPeeked, Rest, Ahead
<1>10. ASSUME Compare PROVE Rest(t)' = Rest(t) /\ stored' = stored
  BY <1>10
<1>11. ASSUME Emit PROVE Rest(t)' = Rest(t) /\ stored' = stored
  BY <1>11
<1>12. ASSUME CollectMissing PROVE Rest(t)' = Rest(t) /\ stored' = stored
  BY <1>12 DEF CollectMissing, Rest, Ahead
<1>13. ASSUME GetErrs PROVE Rest(t)' = Rest(t) /\ stored' = stored
  BY <1>13 DEF GetErrs, GetErr, Rest, Ahead
<1>14. ASSUME NEW b \in Refs, EnqueueMissing(b) PROVE Rest(t)' = Rest(t) /\ stored' = stored
  BY <1>14 DEF EnqueueMissing, Rest, Ahead
<1>15. ASSUME ShardDone PROVE Rest(t)' = Rest(t) /\ stored' = stored
  BY <1>15 DEF ShardDone, Rest, Ahead
<1>16. ASSUME UNCHANGED vars PROVE Rest(t)' = Rest(t) /\ stored' = stored
  BY <1>16 DEF vars, Rest, Ahead
<1>. QED
  BY <1>1, <1>2, <1>3, <1>4, <1>5, <1>6, <1>7, <1>8,
     <1>9, <1>10, <1>11, <1>12, <1>13, <1>14, <1>15, <1>16
     DEF Next, Enumerator, ListMissing, Validator

\* What of the destination is consumed stays smaller than what of the source
\* is not.
LEMMA MergedStep ==
    ASSUME Types, Peeked, \A s \in Sides : Ordered(s), Merged, [Next]_vars
    PROVE  Merged'
<1>. DEFINE p == peek["src"]
            q == peek["dst"]
<1>. "src" \in Sides /\ "dst" \in Sides /\ Sides = {"src", "dst"}
  BY DEF Sides
<1>1. ASSUME ~Compare, ~Emit PROVE Merged'
  BY <1>1, RestSame DEF Merged
<1>2. ASSUME Compare PROVE Merged'
  <2>1. p \in Refs /\ q \in Refs /\ p \in Nat /\ q \in Nat
    BY <1>2, Markers DEF Compare, Peeked
  <2>2. /\ \A x \in Rest("src") \ {p} : p < x
        /\ \A x \in Rest("dst") \ {q} : q < x
    BY <2>1, HeadIsLeast
  <2>3. /\ Rest("src")' \in {Rest("src"), Rest("src") \ {p}}
        /\ Rest("dst")' \in {Rest("dst"), Rest("dst") \ {q}}
        /\ stored' = stored
    BY <1>2, TakeRest, TakeView
  <2>4. \A s \in Sides : Rest(s)' \subseteq stored'[s]
    BY <2>3 DEF Merged
  <2>5. Rest("src") \subseteq Nat
    BY StreamType DEF Rest
  <2>6. ASSUME NEW d \in stored["dst"] \ Rest("dst")', NEW x \in Rest("src")' PROVE d < x
    <3>1. CASE d \notin Rest("dst")
      BY <2>3, <2>6, <3>1 DEF Merged
    <3>2. CASE d \in Rest("dst")
      <4>1. d = q /\ Rest("dst")' = Rest("dst") \ {q}
        BY <2>3, <2>6, <3>2
      <4>2. q # peek'["dst"]
        <5>1. NoRef # q
          BY <2>1, Markers
        <5>2. Rest("dst")' # Rest("dst")
          BY <3>2, <4>1
        <5>. QED BY <1>2, <5>1, <5>2, TakeRest
      <4>3. CASE p = q
        <5>1. p = peek["dst"] /\ ~(p < p)
          BY <2>1, <4>3, SMTT(20)
        <5>2. peek'["src"] = NoRef
          BY <1>2, <5>1 DEF Compare
        <5>3. p # peek'["src"]
          BY <2>1, <5>2, Markers
        <5>4. x \in Rest("src") \ {p}
          BY <1>2, <2>6, <5>3, TakeRest
        <5>. QED BY <2>2, <4>1, <4>3, <5>4
      <4>4. CASE p # q
        <5>1. q < p
          BY <1>2, <4>2, <4>4 DEF Compare
        <5>2. x \in Rest("src") /\ (x = p \/ p < x)
          BY <2>2, <2>3, <2>6
        <5>. QED BY <2>1, <2>5, <4>1, <5>1, <5>2, SMTT(20)
      <4>. QED BY <4>3, <4>4
    <3>. QED BY <3>1, <3>2
  <2>. QED BY <2>3, <2>4, <2>6 DEF Merged
<1>3. ASSUME Emit PROVE Merged'
  <2>1. Rest("src")' \subseteq Rest("src") /\ stored' = stored
    BY <1>3, TakeRest, TakeView
  <2>2. peek'["dst"] = peek["dst"]
    BY <1>3 DEF Emit, Types
  <2>3. Rest("dst")' = Rest("dst")
    BY <1>3, <2>2, TakeRest, Markers
  <2>. QED BY <2>1, <2>3 DEF Merged
<1>. QED
  BY <1>1, <1>2, <1>3

\* The blob that is emitted is in the source and not in the destination: what
\* the merge has consumed there is smaller, what it has not is larger.
LEMMA EmittedIsMissing ==
    ASSUME Types, Peeked, Merged, \A s \in Sides : Ending(s) /\ Ordered(s), lpc = "emit"
    PROVE  peek["src"] \in stored["src"] \ stored["dst"]
<1>. DEFINE p == peek["src"]
            q == peek["dst"]
<1>. "src" \in Sides /\ "dst" \in Sides
  BY DEF Sides
<1>1. p \in Refs /\ p \in Rest("src") /\ p \in Nat
  BY HeadIsLeast, Markers DEF Peeked
<1>2. p \in stored["src"]
  BY <1>1 DEF Merged
<1>3. p \notin Rest("dst")
  <2>1. CASE q = End
    <3>1. closed["dst"] /\ ch["dst"] = <<>> /\ ~failed["dst"]
      BY <2>1 DEF Ending
    <3>2. left["dst"] = {}
      BY <3>1 DEF Ending
    <3>. QED BY <2>1, <3>1, <3>2, EmptyRange, Markers DEF Rest, Ahead
  <2>2. CASE q \in Refs /\ p < q
    <3>1. q \in Nat /\ \A x \in Rest("dst") \ {q} : q < x
      BY <2>2, HeadIsLeast, Markers
    <3>2. p # q /\ ~(q < p)
      BY <1>1, <2>2, <3>1, SMTT(20)
    <3>. QED BY <3>1, <3>2
  <2>. QED BY <2>1, <2>2 DEF Peeked
<1>4. ~(p < p)
  BY <1>1, SMTT(20)
<1>5. p \notin stored["dst"]
  BY <1>1, <1>3, <1>4 DEF Merged
<1>. QED
  BY <1>2, <1>5

\* Only missing blobs are reported.
LEMMA ReportedStep ==
    ASSUME Types, Peeked, Merged, Reported,
           \A s \in Sides : Ending(s) /\ Ordered(s), [Next]_vars
    PROVE  Reported'
<1>1. ASSUME NEW s \in Sides, EnumSend(s) PROVE Reported'
  BY <1>1 DEF EnumSend, Reported
<1>2. ASSUME NEW s \in Sides, EnumEnds(s) PROVE Reported'
  BY <1>2 DEF EnumEnds, Reported
<1>3. ASSUME NEW s \in Sides, EnumFails(s) PROVE Reported'
  BY <1>3 DEF EnumFails, Reported
<1>4. ASSUME NEW s \in Sides, SendZero(s) PROVE Reported'
  BY <1>4 DEF SendZero, Reported
<1>5. ASSUME NEW s \in Sides, SendErr(s) PROVE Reported'
  BY <1>5 DEF SendErr, Reported
<1>6. ASSUME NEW s \in Sides, CloseEnum(s) PROVE Reported'
  BY <1>6 DEF CloseEnum, Reported
<1>7. ASSUME NEW s \in Sides, Fill(s) PROVE Reported'
  BY <1>7 DEF Fill, Reported
<1>8. ASSUME SrcPeeked PROVE Reported'
  BY <1>8 DEF SrcPeeked, Reported
<1>9. ASSUME DstPeeked PROVE Reported'
  BY <1>9 DEF DstPeeked, Reported
<1>10. ASSUME Compare PROVE Reported'
  BY <1>10 DEF Compare, Reported
<1>11. ASSUME Emit PROVE Reported'
  <2>1. missingc \in Seq(Refs) /\ peek["src"] \in Refs
    BY <1>11 DEF Emit, Types, Peeked
  <2>2. Range(missingc') = Range(missingc) \cup {peek["src"]}
    BY <1>11, <2>1, AppendRange, SMTT(20) DEF Emit
  <2>3. peek["src"] \in stored["src"] \ stored["dst"]
    BY <1>11, EmittedIsMissing DEF Emit
  <2>. QED BY <1>11, <2>2, <2>3 DEF Emit, Reported
<1>12. ASSUME CollectMissing PROVE Reported'
  <2>1. CASE missingc # <<>>
    <3>1. Range(missingc) = {Head(missingc)} \cup Range(Tail(missingc))
      BY <2>1, TailRange DEF Types
    <3>. QED BY <1>12, <2>1, <3>1 DEF CollectMissing, Reported
  <2>2. CASE missingc = <<>>
    BY <1>12, <2>2 DEF CollectMissing, Reported
  <2>. QED BY <2>1, <2>2
<1>13. ASSUME GetErrs PROVE Reported'
  BY <1>13 DEF GetErrs, GetErr, Reported
<1>14. ASSUME NEW b \in Refs, EnqueueMissing(b) PROVE Reported'
  BY <1>14 DEF EnqueueMissing, Reported
<1>15. ASSUME ShardDone PROVE Reported'
  BY <1>15 DEF ShardDone, Reported
<1>16. ASSUME UNCHANGED vars PROVE Reported'
  BY <1>16 DEF vars, Reported
<1>. QED
  BY <1>1, <1>2, <1>3, <1>4, <1>5, <1>6, <1>7, <1>8,
     <1>9, <1>10, <1>11, <1>12, <1>13, <1>14, <1>15, <1>16
     DEF Next, Enumerator, ListMissing, Validator

\* No missing blob is passed over: what the merge takes of the source without
\* reporting it is in the destination.
LEMMA AccountedStep ==
    ASSUME Types, Peeked, Merged, Accounted, \A s \in Sides : Ordered(s), [Next]_vars
    PROVE  Accounted'
<1>. "src" \in Sides /\ "dst" \in Sides
  BY DEF Sides
<1>1. ASSUME Compare PROVE Accounted'
  <2>1. /\ missingc' = missingc /\ missing' = missing /\ enqueued' = enqueued /\ verr' = verr
        /\ stored' = stored
    BY <1>1 DEF Compare
  <2>2. CASE peek["src"] = peek["dst"]
    <3>1. peek["src"] \in stored["dst"]
      BY <1>1, <2>2, HeadIsLeast DEF Compare, Peeked, Merged
    <3>2. Rest("src") \ {peek["src"]} \subseteq Rest("src")'
      BY <1>1, TakeRest
    <3>. QED BY <2>1, <3>1, <3>2 DEF Accounted
  <2>3. CASE peek["src"] # peek["dst"]
    <3>1. peek'["src"] = peek["src"]
      BY <1>1, <2>3 DEF Compare, Types
    <3>2. Rest("src")' = Rest("src")
      BY <1>1, <3>1, TakeRest, Markers
    <3>. QED BY <2>1, <3>2 DEF Accounted
  <2>. QED BY <2>2, <2>3
<1>2. ASSUME Emit PROVE Accounted'
  <2>1. missingc \in Seq(Refs) /\ peek["src"] \in Refs
    BY <1>2 DEF Emit, Types, Peeked
  <2>2. Range(missingc') = Range(missingc) \cup {peek["src"]}
    BY <1>2, <2>1, AppendRange, SMTT(20) DEF Emit
  <2>3. Rest("src") \ {peek["src"]} \subseteq Rest("src")'
    BY <1>2, TakeRest
  <2>. QED BY <1>2, <2>2, <2>3 DEF Emit, Accounted
<1>3. ASSUME ~Compare, ~Emit PROVE Accounted'
  <2>1. Rest("src")' = Rest("src") /\ stored' = stored
    BY <1>3, RestSame
  <2>. DEFINE Found == Range(missingc) \cup missing \cup enqueued
              Kept == verr' = TRUE \/ (verr' = verr /\ Found \subseteq Found')
  <2>2. Kept
    <3>1. ASSUME NEW s \in Sides, Enumerator(s) PROVE Kept
      BY <3>1 DEF Enumerator, EnumSend, EnumEnds, EnumFails, SendZero, SendErr, CloseEnum
    <3>2. ASSUME ListMissing PROVE Kept
      BY <3>2, <1>3 DEF ListMissing, Fill, SrcPeeked, DstPeeked
    <3>3. ASSUME CollectMissing PROVE Kept
      <4>1. CASE missingc # <<>>
        <5>1. Range(missingc) = {Head(missingc)} \cup Range(Tail(missingc))
          BY <4>1, TailRange DEF Types
        <5>. QED BY <3>3, <4>1, <5>1 DEF CollectMissing
      <4>2. CASE missingc = <<>>
        BY <3>3, <4>2 DEF CollectMissing
      <4>. QED BY <4>1, <4>2
    <3>4. ASSUME GetErrs PROVE Kept
      BY <3>4 DEF GetErrs, GetErr
    <3>5. ASSUME NEW b \in Refs, EnqueueMissing(b) PROVE Kept
      BY <3>5 DEF EnqueueMissing
    <3>6. ASSUME ShardDone PROVE Kept
      BY <3>6 DEF ShardDone
    <3>7. ASSUME UNCHANGED vars PROVE Kept
      BY <3>7 DEF vars
    <3>. QED BY <3>1, <3>2, <3>3, <3>4, <3>5, <3>6, <3>7 DEF Next, Validator
  <2>. QED BY <2>1, <2>2 DEF Accounted
<1>. QED
  BY <1>1, <1>2, <1>3

\* What the validator knows stays so: the merge is over, and an error once
\* reported does not change.
LEMMA KnownStep ==
    ASSUME Types, Known, \A s \in Sides : Ending(s), [Next]_vars
    PROVE  Known'
<1>1. ASSUME NEW s \in Sides, EnumSend(s) PROVE Known'
  BY <1>1 DEF EnumSend, Known
<1>2. ASSUME NEW s \in Sides, EnumEnds(s) PROVE Known'
  BY <1>2 DEF EnumEnds, Known
<1>3. ASSUME NEW s \in Sides, EnumFails(s) PROVE Known'
  BY <1>3 DEF EnumFails, Known
<1>4. ASSUME NEW s \in Sides, SendZero(s) PROVE Known'
  BY <1>4 DEF SendZero, Known
<1>5. ASSUME NEW s \in Sides, SendErr(s) PROVE Known'
  <2>1. errc[s] = "empty"
    BY <1>5 DEF SendErr, Ending
  <2>2. \A t \in Sides : errc[t] = "nil" => errc'[t] = "nil"
    BY <1>5, <2>1 DEF SendErr, Types
  <2>3. UNCHANGED <<lpc, missingc, validator>>
    BY <1>5 DEF SendErr
  <2>. QED BY <2>2, <2>3 DEF Known, Sides
<1>6. ASSUME NEW s \in Sides, CloseEnum(s) PROVE Known'
  BY <1>6 DEF CloseEnum, Known
<1>7. ASSUME NEW s \in Sides, Fill(s) PROVE Known'
  BY <1>7 DEF Fill, Known, Sides
<1>8. ASSUME SrcPeeked PROVE Known'
  BY <1>8 DEF SrcPeeked, Known
<1>9. ASSUME DstPeeked PROVE Known'
  BY <1>9 DEF DstPeeked, Known
<1>10. ASSUME Compare PROVE Known'
  BY <1>10 DEF Compare, Known
<1>11. ASSUME Emit PROVE Known'
  BY <1>11 DEF Emit, Known
<1>12. ASSUME CollectMissing PROVE Known'
  BY <1>12 DEF CollectMissing, Known
<1>13. ASSUME GetErrs PROVE Known'
  BY <1>13 DEF GetErrs, GetErr, Known
<1>14. ASSUME NEW b \in Refs, EnqueueMissing(b) PROVE Known'
  BY <1>14 DEF EnqueueMissing, Known
<1>15. ASSUME ShardDone PROVE Known'
  BY <1>15 DEF ShardDone, Known
<1>16. ASSUME UNCHANGED vars PROVE Known'
  BY <1>16 DEF vars, Known
<1>. QED
  BY <1>1, <1>2, <1>3, <1>4, <1>5, <1>6, <1>7, <1>8,
     <1>9, <1>10, <1>11, <1>12, <1>13, <1>14, <1>15, <1>16
     DEF Next, Enumerator, ListMissing, Validator

-----------------------------------------------------------------------------
\* IInv is an inductive invariant of the validation of a shard.
THEOREM ShardInvariance == Spec => []IInv
<1>1. Init => IInv
  <2>. SUFFICES ASSUME Init PROVE IInv
    OBVIOUS
  <2>. \A S : <<>> \in Seq(S) /\ Len(<<>>) = 0
    BY SMTT(20)
  <2>. "src" \in Sides /\ "dst" \in Sides
    BY DEF Sides
  <2>1. Types
    BY DEF Init, Types
  <2>2. Bounded
    BY ShardAssumption, SMTT(20) DEF Init, Bounded, Sides
  <2>3. Counted
    <3>1. ASSUME NEW s \in Sides PROVE count[s] + Cardinality(left[s]) = Cardinality(stored[s])
      <4>1. Cardinality(stored[s]) \in Nat /\ left[s] = stored[s] /\ count[s] = 0
        BY FiniteRefs DEF Init
      <4>. QED BY <4>1, SMTT(20)
    <3>. QED BY <3>1 DEF Counted
  <2>4. Peeked
    BY Markers DEF Init, Peeked
  <2>5. ASSUME NEW s \in Sides PROVE Ahead(s) = {} /\ Rest(s) = stored[s]
    BY EmptyRange, Markers DEF Init, Ahead, Rest
  <2>6. Merged
    BY <2>5 DEF Merged
  <2>7. Reported /\ Accounted
    BY <2>5, EmptyRange DEF Init, Reported, Accounted
  <2>8. Known
    BY DEF Init, Known
  <2>9. Sorted(<<>>)
    BY SMTT(20) DEF Sorted
  <2>10. ASSUME NEW s \in Sides PROVE Ending(s)
    BY EmptyRange, Markers DEF Init, Ending
  <2>11. ASSUME NEW s \in Sides PROVE Ordered(s)
    BY <2>5, <2>9, EmptyRange, Markers DEF Init, Ordered
  <2>. QED BY <2>1, <2>2, <2>3, <2>4, <2>6, <2>7, <2>8, <2>10, <2>11 DEF IInv
<1>2. IInv /\ [Next]_vars => IInv'
  BY TypesStep, BoundedStep, CountedStep, PeekedStep, EndingStep, OrderedStep,
     MergedStep, ReportedStep, AccountedStep, KnownStep DEF IInv
<1>. QED
  BY <1>1, <1>2, PTL DEF Spec

\* The model is type correct: the channels keep to their capacities and no
\* blob is counted twice.
THEOREM ShardTypeCorrect == Spec => []TypeOK
<1>1. IInv => TypeOK
  <2>. SUFFICES ASSUME IInv PROVE TypeOK
    OBVIOUS
  <2>1. ASSUME NEW s \in Sides PROVE count[s] \in 0..MaxRef
    <3>1. left[s] \in SUBSET Refs /\ stored[s] \in SUBSET Refs /\ count[s] \in Nat
      BY DEF IInv, Types
    <3>2. /\ Cardinality(left[s]) \in Nat /\ Cardinality(stored[s]) \in Nat
          /\ Cardinality(stored[s]) <= MaxRef
      BY <3>1, FiniteRefs
    <3>3. count[s] + Cardinality(left[s]) = Cardinality(stored[s])
      BY DEF IInv, Counted
    <3>. QED BY <3>1, <3>2, <3>3, ShardAssumption, SMTT(20)
  <2>2. count \in [Sides -> 0..MaxRef]
    BY <2>1 DEF IInv, Types
  <2>3. ASSUME NEW s \in Sides, NEW i \in 1..Len(ch[s]) PROVE ch[s][i] \in Refs \cup {Zero}
    <3>1. ch[s] \in Seq(Refs \cup {Zero})
      BY DEF IInv, Types
    <3>. QED BY <3>1, SMTT(20)
  <2>. QED BY <2>2, <2>3 DEF IInv, Types, Bounded, TypeOK
<1>. QED
  BY <1>1, ShardInvariance, PTL

\* Only blobs of the source that the destination lacks are queued for a copy,
\* however the enumerations, the merge and failures interleave.
THEOREM OnlyMissing == Spec => []OnlyMissingEnqueued
<1>1. IInv => OnlyMissingEnqueued
  BY DEF IInv, Reported, OnlyMissingEnqueued
<1>. QED
  BY <1>1, ShardInvariance, PTL

\* A validation that returns no error has counted every blob of both sides and
\* queued every missing one.
THEOREM CompleteValidation == Spec => []ValidatedCompletely
<1>1. IInv => ValidatedCompletely
  <2>. SUFFICES ASSUME IInv, vpc = "done", ~verr
                PROVE  /\ enqueued = stored["src"] \ stored["dst"]
                       /\ \A s \in Sides : count[s] = Cardinality(stored[s])
    BY DEF ValidatedCompletely
  <2>. Sides = {"src", "dst"} /\ "src" \in Sides /\ "dst" \in Sides
    BY DEF Sides
  <2>1. ASSUME NEW s \in Sides PROVE left[s] = {} /\ ~failed[s]
    <3>1. errc[s] = "nil"
      BY DEF IInv, Known
    <3>. QED BY <3>1 DEF IInv, Ending, Types
  <2>2. peek["src"] = End
    <3>1. \A s \in Sides : peek[s] # Zero
      BY <2>1 DEF IInv, Ending
    <3>2. lpc = "exited"
      BY DEF IInv, Known
    <3>. QED BY <3>1, <3>2 DEF IInv, Peeked
  <2>3. ch["src"] = <<>>
    BY <2>2 DEF IInv, Ending
  <2>4. Rest("src") = {}
    BY <2>1, <2>2, <2>3, EmptyRange, Markers DEF Rest, Ahead
  <2>5. missing = {} /\ Range(missingc) = {}
    BY EmptyRange DEF IInv, Known
  <2>6. enqueued = stored["src"] \ stored["dst"]
    BY <2>4, <2>5 DEF IInv, Reported, Accounted
  <2>7. ASSUME NEW s \in Sides PROVE count[s] = Cardinality(stored[s])
    <3>1. count[s] + Cardinality({}) = Cardinality(stored[s]) /\ count[s] \in Nat
      BY <2>1 DEF IInv, Counted, Types
    <3>2. Cardinality({}) = 0
      BY FS_EmptySet
    <3>. QED BY <3>1, <3>2, SMTT(20)
  <2>. QED BY <2>6, <2>7
<1>. QED
  BY <1>1, ShardInvariance, PTL
-----------------------------------------------------------------------------
\* Until an enumerator has ended, its channel holds no more than it counted.
InFlight == \A s \in Sides : epc[s] \in {"enum", "zero"} => Len(ch[s]) <= count[s]

LEMMA InFlightStep ==
    ASSUME Types, InFlight, [Next]_vars
    PROVE  InFlight'
<1>. \A s \in Sides : Len(ch[s]) \in Nat /\ count[s] \in Nat
  BY SMTT(20) DEF Types
\* What is not sent or received leaves the channels and counts alone.
<1>1. ASSUME UNCHANGED <<ch, count>>,
             \A s \in Sides : epc'[s] \in {"enum", "zero"} => epc[s] \in {"enum", "zero"}
      PROVE  InFlight'
  BY <1>1 DEF InFlight
<1>2. ASSUME NEW s \in Sides, EnumSend(s) PROVE InFlight'
  <2>1. Len(ch'[s]) = Len(ch[s]) + 1 /\ count'[s] = count[s] + 1
    BY <1>2, SMTT(20) DEF EnumSend, Types
  <2>2. Len(ch[s]) <= count[s]
    BY <1>2 DEF EnumSend, InFlight
  <2>3. Len(ch'[s]) <= count'[s]
    BY <2>1, <2>2, SMTT(20)
  <2>4. \A t \in Sides \ {s} : ch'[t] = ch[t] /\ count'[t] = count[t]
    BY <1>2 DEF EnumSend, Types
  <2>. QED BY <1>2, <2>3, <2>4 DEF EnumSend, InFlight
<1>3. ASSUME NEW s \in Sides, EnumEnds(s) PROVE InFlight'
  BY <1>1, <1>3 DEF EnumEnds, Types
<1>4. ASSUME NEW s \in Sides, EnumFails(s) PROVE InFlight'
  BY <1>1, <1>4 DEF EnumFails, Types
<1>5. ASSUME NEW s \in Sides, SendZero(s) PROVE InFlight'
  <2>1. \A t \in Sides \ {s} : ch'[t] = ch[t] /\ epc'[t] = epc[t]
    BY <1>5 DEF SendZero, Types
  <2>2. epc'[s] = "errc" /\ count' = count
    BY <1>5 DEF SendZero, Types
  <2>. QED BY <2>1, <2>2 DEF InFlight
<1>6. ASSUME NEW s \in Sides, SendErr(s) PROVE InFlight'
  BY <1>1, <1>6 DEF SendErr, Types
<1>7. ASSUME NEW s \in Sides, CloseEnum(s) PROVE InFlight'
  BY <1>1, <1>7 DEF CloseEnum, Types
<1>8. ASSUME NEW s \in Sides, Fill(s) PROVE InFlight'
  <2>1. CASE ch[s] # <<>>
    <3>1. Len(ch'[s]) = Len(ch[s]) - 1
      BY <1>8, <2>1, SMTT(20) DEF Fill, Types
    <3>2. Len(ch[s]) <= count[s] => Len(ch'[s]) <= count[s]
      BY <3>1, SMTT(20)
    <3>3. \A t \in Sides \ {s} : ch'[t] = ch[t]
      BY <1>8, <2>1 DEF Fill, Types
    <3>. QED BY <1>8, <3>2, <3>3 DEF Fill, InFlight
  <2>2. CASE ch[s] = <<>>
    BY <1>1, <1>8, <2>2 DEF Fill
  <2>. QED BY <2>1, <2>2
<1>9. ASSUME SrcPeeked \/ DstPeeked \/ Compare \/ Emit PROVE InFlight'
  BY <1>1, <1>9 DEF SrcPeeked, DstPeeked, Compare, Emit
<1>10. ASSUME Validator PROVE InFlight'
  BY <1>1, <1>10 DEF Validator, CollectMissing, GetErrs, GetErr, EnqueueMissing,
                     ShardDone
<1>11. ASSUME UNCHANGED vars PROVE InFlight'
  BY <1>1, <1>11 DEF vars
<1>. QED
  BY <1>2, <1>3, <1>4, <1>5, <1>6, <1>7, <1>8, <1>9, <1>10, <1>11
     DEF Next, Enumerator, ListMissing

LEMMA ShardInFlight == Spec => []InFlight
<1>1. Init => InFlight
  <2>1. Init => \A s \in Sides : Len(ch[s]) = 0 /\ count[s] = 0
    BY SMTT(20) DEF Init
  <2>2. 0 <= 0
    BY SMTT(20)
  <2>. QED BY <2>1, <2>2 DEF InFlight
<1>2. IInv /\ InFlight /\ [Next]_vars => InFlight'
  BY InFlightStep DEF IInv
<1>. QED
  BY <1>1, <1>2, ShardInvariance, PTL DEF Spec

\* A shard that fits in the channels cannot block its enumerators, so both
\* report and close their channels; the merge then never waits for a ref, nor
\* the validator for an error.
LEMMA SomeoneCanStep ==
    ASSUME IInv, InFlight, FitsChannels, vpc # "done"
    PROVE  CanStep
<1>. SUFFICES ASSUME ~CanStep PROVE FALSE
  OBVIOUS
<1>. "src" \in Sides /\ "dst" \in Sides
  BY DEF Sides
<1>1. ASSUME NEW s \in Sides PROVE epc[s] = "exited"
  <2>1. ASSUME epc[s] \in {"enum", "zero"} PROVE Len(ch[s]) < EnumCap
    <3>1. left[s] \in SUBSET Refs /\ stored[s] \in SUBSET Refs /\ count[s] \in Nat
      BY DEF IInv, Types
    <3>2. Cardinality(left[s]) \in Nat /\ Cardinality(stored[s]) \in Nat
      BY <3>1, FiniteRefs
    <3>3. count[s] + Cardinality(left[s]) = Cardinality(stored[s])
      BY DEF IInv, Counted
    <3>4. Len(ch[s]) \in Nat
      BY SMTT(20) DEF IInv, Types
    <3>5. Len(ch[s]) <= count[s] /\ Cardinality(stored[s]) < EnumCap
      BY <2>1 DEF InFlight, FitsChannels
    <3>. QED BY <3>1, <3>2, <3>3, <3>4, <3>5, ShardAssumption, SMTT(20)
  <2>. QED BY <2>1 DEF CanStep, IInv, Types
<1>2. ASSUME NEW s \in Sides PROVE closed[s] /\ errc[s] # "empty"
  BY <1>1 DEF IInv, Ending
<1>3. lpc \in {"emit", "exited"}
  BY <1>2 DEF CanStep, IInv, Types
<1>4. vpc = "drain"
  BY <1>2 DEF CanStep, IInv, Types
<1>5. lpc = "emit" /\ missingc = <<>>
  BY <1>3, <1>4 DEF CanStep
<1>6. Len(missingc) < MissingCap
  BY <1>5, ShardAssumption, SMTT(20)
<1>. QED BY <1>5, <1>6 DEF CanStep

\* The parts of StepsLeft are natural numbers.
LEMMA LeftIsNat ==
    ASSUME IInv
    PROVE  /\ \A s \in Sides :
               /\ MaxRef - count[s] \in Nat /\ Len(ch[s]) \in Nat
               /\ EnumeratorLeft(s) \in Nat /\ PeekLeft(s) \in Nat
               /\ count[s] \in Nat /\ SideLeft(s) \in Nat
           /\ MergeLeft \in Nat /\ ValidatorLeft \in Nat
           /\ Len(missingc) \in Nat /\ Cardinality(missing) \in Nat
           /\ IsFiniteSet(missing)
           /\ StepsLeft \in Nat
<1>1. ASSUME NEW s \in Sides
      PROVE  /\ MaxRef - count[s] \in Nat /\ Len(ch[s]) \in Nat
             /\ EnumeratorLeft(s) \in Nat /\ PeekLeft(s) \in Nat
             /\ count[s] \in Nat /\ SideLeft(s) \in Nat
  <2>1. left[s] \in SUBSET Refs /\ stored[s] \in SUBSET Refs /\ count[s] \in Nat
    BY DEF IInv, Types
  <2>2. /\ Cardinality(left[s]) \in Nat /\ Cardinality(stored[s]) \in Nat
        /\ Cardinality(stored[s]) <= MaxRef
    BY <2>1, FiniteRefs
  <2>3. count[s] + Cardinality(left[s]) = Cardinality(stored[s])
    BY DEF IInv, Counted
  <2>4. MaxRef - count[s] \in Nat
    BY <2>1, <2>2, <2>3, ShardAssumption, SMTT(20)
  <2>5. Len(ch[s]) \in Nat
    BY SMTT(20) DEF IInv, Types
  <2>6. EnumeratorLeft(s) \in Nat /\ PeekLeft(s) \in Nat
    BY SMTT(20) DEF EnumeratorLeft, PeekLeft
  <2>7. SideLeft(s) \in Nat
    BY <2>4, <2>5, <2>6, SMTT(20) DEF SideLeft
  <2>. QED BY <2>1, <2>4, <2>5, <2>6, <2>7
<1>2. MergeLeft \in Nat /\ ValidatorLeft \in Nat
  BY SMTT(20) DEF MergeLeft, ValidatorLeft
<1>3. Len(missingc) \in Nat
  BY SMTT(20) DEF IInv, Types
<1>4. IsFiniteSet(missing) /\ Cardinality(missing) \in Nat
  BY FiniteRefs DEF IInv, Types
<1>5. StepsLeft \in Nat
  <2>1. SideLeft("src") \in Nat /\ SideLeft("dst") \in Nat
    BY <1>1 DEF Sides
  <2>. QED BY <1>2, <1>3, <1>4, <2>1, SMTT(20) DEF StepsLeft
<1>. QED BY <1>1, <1>2, <1>3, <1>4, <1>5

\* A step of one side that leaves the merge and the validator where they are.
LEMMA SideGoesOn ==
    ASSUME IInv, NEW s \in Sides,
           SideLeft(s)' \in Int, SideLeft(s)' < SideLeft(s),
           \A t \in Sides \ {s} : SideLeft(t)' = SideLeft(t),
           UNCHANGED <<lpc, missingc, missing, vpc>>
    PROVE  StepsLeft' < StepsLeft
<1>1. MergeLeft' = MergeLeft /\ ValidatorLeft' = ValidatorLeft
  BY DEF MergeLeft, ValidatorLeft
<1>2. /\ SideLeft("src") \in Nat /\ SideLeft("dst") \in Nat
      /\ MergeLeft \in Nat /\ ValidatorLeft \in Nat
      /\ Len(missingc) \in Nat /\ Cardinality(missing) \in Nat
  BY LeftIsNat DEF Sides
<1>3. CASE s = "src"
  <2>1. SideLeft("dst")' = SideLeft("dst")
    BY <1>3 DEF Sides
  <2>2. SideLeft("src")' \in Int /\ SideLeft("src")' < SideLeft("src")
    BY <1>3
  <2>. QED BY <1>1, <1>2, <2>1, <2>2, SMTT(20) DEF StepsLeft
<1>4. CASE s = "dst"
  <2>1. SideLeft("src")' = SideLeft("src")
    BY <1>4 DEF Sides
  <2>2. SideLeft("dst")' \in Int /\ SideLeft("dst")' < SideLeft("dst")
    BY <1>4
  <2>. QED BY <1>1, <1>2, <2>1, <2>2, SMTT(20) DEF StepsLeft
<1>. QED BY <1>3, <1>4 DEF Sides

\* A step of the enumerator of s, seen from the counters of the side.
LEMMA EnumeratorGoesOn ==
    ASSUME IInv, NEW s \in Sides, Enumerator(s)
    PROVE  StepsLeft' < StepsLeft
<1>1. UNCHANGED <<lpc, missingc, missing, vpc, peek>>
  BY DEF Enumerator, EnumSend, EnumEnds, EnumFails, SendZero, SendErr, CloseEnum
<1>2. \A t \in Sides \ {s} : epc'[t] = epc[t] /\ count'[t] = count[t] /\ ch'[t] = ch[t]
  BY DEF Enumerator, EnumSend, EnumEnds, EnumFails, SendZero, SendErr, CloseEnum,
         IInv, Types
<1>3. \A t \in Sides \ {s} : SideLeft(t)' = SideLeft(t)
  BY <1>1, <1>2 DEF SideLeft, EnumeratorLeft, PeekLeft
<1>4. PICK m \in Nat, c \in Nat, e \in Nat, l \in Nat, p \in Nat :
          /\ m = MaxRef /\ c = count[s] /\ e = EnumeratorLeft(s)
          /\ l = Len(ch[s]) /\ p = PeekLeft(s)
  BY LeftIsNat, ShardAssumption
<1>5. SideLeft(s) = 8 * (m - c) + e + 7 * l + p
  BY <1>4 DEF SideLeft
<1>6. SideLeft(s)' = 8 * (m - count'[s]) + EnumeratorLeft(s)' + 7 * Len(ch'[s]) + p
  <2>1. PeekLeft(s)' = PeekLeft(s)
    BY <1>1 DEF PeekLeft
  <2>. QED BY <1>4, <2>1 DEF SideLeft
<1>7. SideLeft(s)' \in Int /\ SideLeft(s)' < SideLeft(s)
  <2>1. CASE EnumSend(s)
    <3>1. Len(ch'[s]) = Len(ch[s]) + 1 /\ count'[s] = count[s] + 1
      BY <2>1, SMTT(20) DEF EnumSend, IInv, Types
    <3>2. EnumeratorLeft(s)' = EnumeratorLeft(s)
      BY <2>1 DEF EnumSend, EnumeratorLeft
    <3>3. SideLeft(s)' = 8 * (m - (c + 1)) + e + 7 * (l + 1) + p
      BY <1>4, <1>6, <3>1, <3>2
    <3>. QED BY <1>5, <3>3, SMTT(20)
  <2>2. CASE SendZero(s)
    <3>1. Len(ch'[s]) = Len(ch[s]) + 1 /\ count'[s] = count[s]
      BY <2>2, SMTT(20) DEF SendZero, IInv, Types
    <3>2. epc[s] = "zero" /\ epc'[s] = "errc"
      BY <2>2 DEF SendZero, IInv, Types
    <3>3. EnumeratorLeft(s) = 10 /\ EnumeratorLeft(s)' = 2
      BY <3>2, SMTT(20) DEF EnumeratorLeft
    <3>4. SideLeft(s)' = 8 * (m - c) + 2 + 7 * (l + 1) + p /\ e = 10
      BY <1>4, <1>6, <3>1, <3>3
    <3>. QED BY <1>5, <3>4, SMTT(20)
  <2>3. CASE EnumEnds(s) \/ EnumFails(s) \/ SendErr(s) \/ CloseEnum(s)
    <3>1. ch' = ch /\ count' = count
      BY <2>3 DEF EnumEnds, EnumFails, SendErr, CloseEnum
    <3>2. \/ epc[s] = "enum" /\ epc'[s] \in {"errc", "zero"}
          \/ epc[s] = "errc" /\ epc'[s] = "close"
          \/ epc[s] = "close" /\ epc'[s] = "exited"
      BY <2>3 DEF EnumEnds, EnumFails, SendErr, CloseEnum, IInv, Types
    <3>3. EnumeratorLeft(s)' \in Nat /\ EnumeratorLeft(s)' < EnumeratorLeft(s)
      <4>1. CASE epc[s] = "enum" /\ epc'[s] \in {"errc", "zero"}
        BY <4>1, SMTT(20) DEF EnumeratorLeft
      <4>2. CASE epc[s] = "errc" /\ epc'[s] = "close"
        BY <4>2, SMTT(20) DEF EnumeratorLeft
      <4>3. CASE epc[s] = "close" /\ epc'[s] = "exited"
        BY <4>3, SMTT(20) DEF EnumeratorLeft
      <4>. QED BY <3>2, <4>1, <4>2, <4>3
    <3>4. PICK f \in Nat : f = EnumeratorLeft(s)' /\ f < e
      BY <1>4, <3>3
    <3>5. SideLeft(s)' = 8 * (m - c) + f + 7 * l + p
      BY <1>4, <1>6, <3>1, <3>4
    <3>. QED BY <1>5, <3>4, <3>5, SMTT(20)
  <2>. QED BY <2>1, <2>2, <2>3 DEF Enumerator
<1>. QED BY <1>1, <1>3, <1>7, SideGoesOn

\* A ref is received from the channel of s, or its end is.
LEMMA FillGoesOn ==
    ASSUME IInv, NEW s \in Sides, Fill(s)
    PROVE  StepsLeft' < StepsLeft
<1>1. UNCHANGED <<lpc, missingc, missing, vpc, epc, count>>
  BY DEF Fill
<1>2. \A t \in Sides \ {s} : peek'[t] = peek[t] /\ ch'[t] = ch[t]
  BY DEF Fill, IInv, Types
<1>3. \A t \in Sides \ {s} : SideLeft(t)' = SideLeft(t)
  BY <1>1, <1>2 DEF SideLeft, EnumeratorLeft, PeekLeft
<1>4. PICK m \in Nat, c \in Nat, e \in Nat, l \in Nat :
          m = MaxRef /\ c = count[s] /\ e = EnumeratorLeft(s) /\ l = Len(ch[s])
  BY LeftIsNat, ShardAssumption
<1>5. SideLeft(s) = 8 * (m - c) + e + 7 * l + 1
  <2>1. peek[s] = NoRef /\ End # NoRef
    BY Markers DEF Fill
  <2>2. PeekLeft(s) = 1
    BY <2>1 DEF PeekLeft
  <2>. QED BY <1>4, <2>2 DEF SideLeft
<1>6. SideLeft(s)' = 8 * (m - c) + e + 7 * Len(ch'[s]) + PeekLeft(s)'
  <2>1. EnumeratorLeft(s)' = EnumeratorLeft(s)
    BY <1>1 DEF EnumeratorLeft
  <2>. QED BY <1>1, <1>4, <2>1 DEF SideLeft
<1>7. SideLeft(s)' \in Int /\ SideLeft(s)' < SideLeft(s)
  <2>1. CASE ch[s] # <<>>
    <3>1. Len(ch'[s]) = Len(ch[s]) - 1
      BY <2>1, SMTT(20) DEF Fill, IInv, Types
    <3>2. PICK p \in 0..7 : p = PeekLeft(s)'
      <4>1. PeekLeft(s)' \in 0..7
        BY SMTT(20) DEF PeekLeft
      <4>. QED BY <4>1
    <3>3. SideLeft(s)' = 8 * (m - c) + e + 7 * (l - 1) + p
      BY <1>4, <1>6, <3>1, <3>2
    <3>. QED BY <1>5, <3>3, SMTT(20)
  <2>2. CASE ch[s] = <<>>
    <3>1. ch' = ch /\ peek'[s] = End
      BY <2>2 DEF Fill, IInv, Types
    <3>2. PeekLeft(s)' = 0
      BY <3>1, Markers DEF PeekLeft
    <3>3. SideLeft(s)' = 8 * (m - c) + e + 7 * l + 0
      BY <1>4, <1>6, <3>1, <3>2
    <3>. QED BY <1>5, <3>3, SMTT(20)
  <2>. QED BY <2>1, <2>2
<1>. QED BY <1>1, <1>3, <1>7, SideGoesOn

\* A ref that the merge takes off a peeker brings its side six steps on.
LEMMA TakenOff ==
    ASSUME IInv, NEW s \in Sides, peek[s] \in Refs, peek'[s] = NoRef,
           UNCHANGED <<epc, count, ch>>
    PROVE  SideLeft(s)' = SideLeft(s) - 6
<1>1. PICK m \in Nat, c \in Nat, e \in Nat, l \in Nat :
          m = MaxRef /\ c = count[s] /\ e = EnumeratorLeft(s) /\ l = Len(ch[s])
  BY LeftIsNat, ShardAssumption
<1>2. PeekLeft(s) = 7 /\ PeekLeft(s)' = 1
  BY Markers DEF PeekLeft
<1>3. EnumeratorLeft(s)' = EnumeratorLeft(s)
  BY DEF EnumeratorLeft
<1>4. /\ SideLeft(s) = 8 * (m - c) + e + 7 * l + 7
      /\ SideLeft(s)' = 8 * (m - c) + e + 7 * l + 1
  BY <1>1, <1>2, <1>3 DEF SideLeft
<1>. QED BY <1>4, SMTT(20)

\* The merge peeks, compares, takes and emits.
LEMMA MergeGoesOn ==
    ASSUME IInv, SrcPeeked \/ DstPeeked \/ Compare \/ Emit
    PROVE  StepsLeft' < StepsLeft
<1>. "src" \in Sides /\ "dst" \in Sides /\ "src" # "dst"
  BY DEF Sides
<1>1. UNCHANGED <<epc, count, ch, missing, vpc>>
  BY DEF SrcPeeked, DstPeeked, Compare, Emit
<1>2. PICK a \in Nat, b \in Nat, q \in Nat, k \in Nat, v \in Nat :
          /\ a = SideLeft("src") /\ b = SideLeft("dst") /\ q = Len(missingc)
          /\ k = Cardinality(missing) /\ v = ValidatorLeft
  BY LeftIsNat
<1>3. /\ StepsLeft = a + b + MergeLeft + 2 * q + k + v
      /\ StepsLeft' = SideLeft("src")' + SideLeft("dst")' + MergeLeft'
                      + 2 * Len(missingc') + k + v
  <2>1. ValidatorLeft' = ValidatorLeft
    BY <1>1 DEF ValidatorLeft
  <2>. QED BY <1>1, <1>2, <2>1 DEF StepsLeft
<1>4. ASSUME NEW s \in Sides, peek'[s] = peek[s] PROVE SideLeft(s)' = SideLeft(s)
  BY <1>1, <1>4 DEF SideLeft, EnumeratorLeft, PeekLeft
\* The merge goes on without taking a ref.
<1>5. ASSUME UNCHANGED <<peek, missingc>>, NEW g \in Nat, NEW h \in Nat,
             g = MergeLeft, h = MergeLeft', h < g
      PROVE  StepsLeft' < StepsLeft
  <2>1. StepsLeft = a + b + g + 2 * q + k + v
    BY <1>3, <1>5
  <2>2. StepsLeft' = a + b + h + 2 * q + k + v
    BY <1>2, <1>3, <1>4, <1>5
  <2>3. \A x, y \in Nat : x < y => a + b + x + 2 * q + k + v < a + b + y + 2 * q + k + v
    BY SMTT(20)
  <2>. QED BY <1>5, <2>1, <2>2, <2>3
<1>6. CASE SrcPeeked
  <2>1. lpc = "src" /\ lpc' \in {"dst", "exited"}
    BY <1>6 DEF SrcPeeked
  <2>2. MergeLeft = 4 /\ MergeLeft' \in {0, 3}
    BY <2>1, SMTT(20) DEF MergeLeft
  <2>3. 4 \in Nat /\ \A h \in {0, 3} : h \in Nat /\ h < 4
    BY SMTT(20)
  <2>. QED BY <1>5, <1>6, <2>2, <2>3 DEF SrcPeeked
<1>7. CASE DstPeeked
  <2>1. lpc = "dst" /\ lpc' \in {"emit", "exited", "compare"}
    BY <1>7 DEF DstPeeked
  <2>2. MergeLeft = 3 /\ MergeLeft' \in {0, 1, 2}
    BY <2>1, SMTT(20) DEF MergeLeft
  <2>3. 3 \in Nat /\ \A h \in {0, 1, 2} : h \in Nat /\ h < 3
    BY SMTT(20)
  <2>. QED BY <1>5, <1>7, <2>2, <2>3 DEF DstPeeked
<1>8. CASE Compare
  <2>1. lpc = "compare" /\ missingc' = missingc
    BY <1>8 DEF Compare
  <2>2. peek["src"] \in Refs /\ peek["dst"] \in Refs
    BY <2>1 DEF IInv, Peeked
  <2>3. MergeLeft = 2
    BY <2>1, SMTT(20) DEF MergeLeft
  <2>4. CASE lpc' = "emit" /\ UNCHANGED peek
    <3>1. MergeLeft' = 1
      BY <2>4, SMTT(20) DEF MergeLeft
    <3>2. 1 \in Nat /\ 2 \in Nat /\ 1 < 2
      BY SMTT(20)
    <3>. QED BY <1>5, <2>1, <2>3, <2>4, <3>1, <3>2
  <2>5. CASE lpc' = "src" /\ peek' = [s \in Sides |-> NoRef]
    <3>1. SideLeft("src")' = a - 6 /\ SideLeft("dst")' = b - 6
      BY <1>1, <1>2, <2>2, <2>5, TakenOff
    <3>2. MergeLeft' = 4
      BY <2>5, SMTT(20) DEF MergeLeft
    <3>3. /\ StepsLeft = a + b + 2 + 2 * q + k + v
          /\ StepsLeft' = (a - 6) + (b - 6) + 4 + 2 * q + k + v
      BY <1>2, <1>3, <2>1, <2>3, <3>1, <3>2
    <3>. QED BY <3>3, SMTT(20)
  <2>6. CASE lpc' = "src" /\ peek' = [peek EXCEPT !["dst"] = NoRef]
    <3>1. peek'["src"] = peek["src"] /\ peek'["dst"] = NoRef
      BY <2>6 DEF IInv, Types
    <3>2. SideLeft("src")' = a /\ SideLeft("dst")' = b - 6
      BY <1>1, <1>2, <1>4, <2>2, <3>1, TakenOff
    <3>3. MergeLeft' = 4
      BY <2>6, SMTT(20) DEF MergeLeft
    <3>4. /\ StepsLeft = a + b + 2 + 2 * q + k + v
          /\ StepsLeft' = a + (b - 6) + 4 + 2 * q + k + v
      BY <1>2, <1>3, <2>1, <2>3, <3>2, <3>3
    <3>. QED BY <3>4, SMTT(20)
  <2>. QED BY <1>8, <2>4, <2>5, <2>6 DEF Compare
<1>9. CASE Emit
  <2>1. peek["src"] \in Refs /\ lpc = "emit" /\ lpc' = "src"
    BY <1>9 DEF Emit, IInv, Peeked
  <2>2. peek'["src"] = NoRef /\ peek'["dst"] = peek["dst"]
    BY <1>9 DEF Emit, IInv, Types
  <2>3. SideLeft("src")' = a - 6 /\ SideLeft("dst")' = b
    BY <1>1, <1>2, <1>4, <2>1, <2>2, TakenOff
  <2>4. MergeLeft = 1 /\ MergeLeft' = 4
    BY <2>1, SMTT(20) DEF MergeLeft
  <2>5. Len(missingc') = Len(missingc) + 1
    BY <1>9, SMTT(20) DEF Emit, IInv, Types
  <2>6. /\ StepsLeft = a + b + 1 + 2 * q + k + v
        /\ StepsLeft' = (a - 6) + b + 4 + 2 * (q + 1) + k + v
    BY <1>2, <1>3, <2>3, <2>4, <2>5
  <2>. QED BY <2>6, SMTT(20)
<1>. QED BY <1>6, <1>7, <1>8, <1>9

\* The validator collects, waits for the errors and enqueues.
LEMMA ValidatorGoesOn ==
    ASSUME IInv, Validator
    PROVE  StepsLeft' < StepsLeft
<1>1. UNCHANGED <<epc, count, ch, peek, lpc>>
  BY DEF Validator, CollectMissing, GetErrs, GetErr, EnqueueMissing, ShardDone
<1>2. PICK a \in Nat, b \in Nat, g \in Nat, q \in Nat, k \in Nat, v \in Nat :
          /\ a = SideLeft("src") /\ b = SideLeft("dst") /\ g = MergeLeft
          /\ q = Len(missingc) /\ k = Cardinality(missing) /\ v = ValidatorLeft
  BY LeftIsNat DEF Sides
<1>3. /\ StepsLeft = a + b + g + 2 * q + k + v
      /\ StepsLeft' = a + b + g + 2 * Len(missingc') + Cardinality(missing')
                      + ValidatorLeft'
  <2>1. /\ SideLeft("src")' = SideLeft("src") /\ SideLeft("dst")' = SideLeft("dst")
        /\ MergeLeft' = MergeLeft
    BY <1>1 DEF SideLeft, EnumeratorLeft, PeekLeft, MergeLeft
  <2>. QED BY <1>2, <2>1 DEF StepsLeft
<1>4. IsFiniteSet(missing)
  BY LeftIsNat
\* The validator passes from one phase to the next.
<1>5. ASSUME UNCHANGED <<missingc, missing>>, NEW w \in Nat, w = ValidatorLeft', w < v
      PROVE  StepsLeft' < StepsLeft
  <2>1. StepsLeft' = a + b + g + 2 * q + k + w
    BY <1>2, <1>3, <1>5
  <2>2. \A x, y \in Nat : x < y => a + b + g + 2 * q + k + x < a + b + g + 2 * q + k + y
    BY SMTT(20)
  <2>. QED BY <1>3, <1>5, <2>1, <2>2
<1>6. CASE CollectMissing
  <2>1. CASE missingc # <<>>
    <3>1. /\ missing' = missing \cup {Head(missingc)} /\ missingc' = Tail(missingc)
          /\ vpc' = vpc
      BY <1>6, <2>1 DEF CollectMissing
    <3>2. Len(missingc') = Len(missingc) - 1
      BY <2>1, <3>1, SMTT(20) DEF IInv, Types
    <3>3. Cardinality(missing') = Cardinality(missing)
          \/ Cardinality(missing') = Cardinality(missing) + 1
      BY <1>4, <3>1, FS_AddElement
    <3>4. ValidatorLeft' = ValidatorLeft
      BY <3>1 DEF ValidatorLeft
    <3>5. PICK j \in Nat : j = Cardinality(missing') /\ (j = k \/ j = k + 1)
      <4>1. k + 1 \in Nat
        BY SMTT(20)
      <4>. QED BY <1>2, <3>3, <4>1
    <3>6. StepsLeft' = a + b + g + 2 * (q - 1) + j + v
      BY <1>2, <1>3, <3>2, <3>4, <3>5
    <3>. QED BY <1>3, <3>5, <3>6, SMTT(20)
  <2>2. CASE missingc = <<>>
    <3>1. vpc = "drain" /\ vpc' = "srcErr" /\ UNCHANGED <<missingc, missing>>
      BY <1>6, <2>2 DEF CollectMissing
    <3>2. ValidatorLeft = 4 /\ ValidatorLeft' = 3
      BY <3>1, SMTT(20) DEF ValidatorLeft
    <3>3. 3 \in Nat /\ 3 < 4
      BY SMTT(20)
    <3>. QED BY <1>2, <1>5, <3>1, <3>2, <3>3
  <2>. QED BY <2>1, <2>2
<1>7. CASE GetErrs
  <2>1. UNCHANGED <<missingc, missing>>
    BY <1>7 DEF GetErrs, GetErr
  <2>2. \/ vpc = "srcErr" /\ vpc' \in {"done", "dstErr"}
        \/ vpc = "dstErr" /\ vpc' \in {"done", "enqueue"}
    BY <1>7 DEF GetErrs, GetErr
  <2>3. \/ ValidatorLeft = 3 /\ ValidatorLeft' \in {0, 2}
        \/ ValidatorLeft = 2 /\ ValidatorLeft' \in {0, 1}
    BY <2>2, SMTT(20) DEF ValidatorLeft
  <2>4. /\ \A w \in {0, 2} : w \in Nat /\ w < 3
        /\ \A w \in {0, 1} : w \in Nat /\ w < 2
    BY SMTT(20)
  <2>. QED BY <1>2, <1>5, <2>1, <2>3, <2>4
<1>8. ASSUME NEW r \in Refs, EnqueueMissing(r) PROVE StepsLeft' < StepsLeft
  <2>1. r \in missing /\ missing' = missing \ {r} /\ UNCHANGED <<missingc, vpc>>
    BY <1>8 DEF EnqueueMissing
  <2>2. Cardinality(missing') = Cardinality(missing) - 1
    BY <1>4, <2>1, FS_RemoveElement
  <2>3. ValidatorLeft' = ValidatorLeft
    BY <2>1 DEF ValidatorLeft
  <2>4. StepsLeft' = a + b + g + 2 * q + (k - 1) + v
    BY <1>2, <1>3, <2>1, <2>2, <2>3
  <2>. QED BY <1>3, <2>4, SMTT(20)
<1>9. CASE ShardDone
  <2>1. vpc = "enqueue" /\ vpc' = "done" /\ UNCHANGED <<missingc, missing>>
    BY <1>9 DEF ShardDone
  <2>2. ValidatorLeft = 1 /\ ValidatorLeft' = 0
    BY <2>1, SMTT(20) DEF ValidatorLeft
  <2>3. 0 \in Nat /\ 0 < 1
    BY SMTT(20)
  <2>. QED BY <1>2, <1>5, <2>1, <2>2, <2>3
<1>. QED BY <1>6, <1>7, <1>8, <1>9 DEF Validator

\* Whatever the sizes of the shard and the channels, a shard takes finitely
\* many steps; one that fits in the channels has a next one until the
\* validator is done.
THEOREM ShardTerminates == Spec => Terminates
<1>1. IInv /\ InFlight => NeverStalls
  BY LeftIsNat, SomeoneCanStep DEF NeverStalls
<1>2. IInv /\ [Next]_vars => [StepsLeft' < StepsLeft]_vars
  BY EnumeratorGoesOn, FillGoesOn, MergeGoesOn, ValidatorGoesOn DEF Next, ListMissing
<1>. QED
  BY ShardInvariance, ShardInFlight, <1>1, <1>2, PTL DEF Spec, Terminates
=============================================================================
