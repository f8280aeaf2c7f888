--------------------------- MODULE ShardValidation ---------------------------
(***************************************************************************)
(* pkg/server/sync.go, validateShardPrefix: one shard of a full validation *)
(* of a sync.  Two goroutines (startValidatePrefix) enumerate the shard on *)
(* the source and on the destination into channels, a third               *)
(* (blobserver.ListMissingDestinationBlobs) merges them into the channel   *)
(* of missing blobs, and validateShardPrefix collects those, waits for     *)
(* both enumeration errors and enqueues the missing blobs for copying.     *)
(*                                                                         *)
(* Blob refs of the shard are 1..MaxRef in their sort order.  A storage is *)
(* modelled by the blobs its enumeration yields.                           *)
(***************************************************************************)
EXTENDS Integers, Sequences, FiniteSets, FiniteSetsExt

CONSTANTS
    MaxRef,      \* bound of the model: refs of the shard
    EnumCap,     \* capacity of an enumeration channel (64)
    MissingCap,  \* capacity of missingc (8)
    MayFail      \* the sides whose enumeration may fail

Refs == 1..MaxRef
Sides == {"src", "dst"}
NoRef == 0           \* nothing peeked yet
Zero == MaxRef + 1   \* blob.SizedRef{}, the shut-down marker
End == MaxRef + 2    \* the peeker saw the closed channel

ASSUME ShardAssumption ==
    /\ {MaxRef, EnumCap, MissingCap} \subseteq Nat \ {0}
    /\ MayFail \subseteq Sides

VARIABLES
    stored,    \* per side: the blobs of the shard
    left,      \* per side: blobs still to enumerate
    epc,       \* per side: "enum", "zero", "errc", "close", "exited"
    failed,    \* per side: the enumeration returned an error
    ch,        \* per side: contents of the channel
    closed,    \* per side: the channel is closed
    errc,      \* per side: "empty", "nil", "error"
    count,     \* vsrcCount and vdestCount
    peek,      \* per side: the ChanPeeker of the merge
    lpc,       \* merge: "src", "dst", "compare", "emit", "exited"
    missingc,  \* contents of missingc
    vpc,       \* validator: "drain", "srcErr", "dstErr", "enqueue", "done"
    missing,   \* missing
    enqueued,  \* blobs whose enqueue succeeded
    verr       \* validateShardPrefix returns an error

enumerators == <<left, epc, failed, errc, count>>
merge == <<peek, lpc>>
validator == <<vpc, missing, enqueued, verr>>
vars == <<stored, enumerators, ch, closed, merge, missingc, validator>>

Init ==
    /\ stored \in [Sides -> SUBSET Refs]
    /\ left = stored
    /\ epc = [s \in Sides |-> "enum"] /\ failed = [s \in Sides |-> FALSE]
    /\ ch = [s \in Sides |-> <<>>] /\ closed = [s \in Sides |-> FALSE]
    /\ errc = [s \in Sides |-> "empty"] /\ count = [s \in Sides |-> 0]
    /\ peek = [s \in Sides |-> NoRef] /\ lpc = "src"
    /\ missingc = <<>>
    /\ vpc = "drain" /\ missing = {} /\ enqueued = {} /\ verr = FALSE
-----------------------------------------------------------------------------
\* startValidatePrefix, the goroutine of side s

\* EnumerateAllFrom hands the next ref to the callback, which sends it.
EnumSend(s) ==
    /\ epc[s] = "enum" /\ left[s] # {}
    /\ Len(ch[s]) < EnumCap
    /\ ch' = [ch EXCEPT ![s] = Append(@, Min(left[s]))]
    /\ left' = [left EXCEPT ![s] = @ \ {Min(@)}]
    /\ count' = [count EXCEPT ![s] = @ + 1]
    /\ UNCHANGED <<stored, epc, failed, errc, closed, merge, missingc,
                   validator>>

\* The last ref of the shard is past: errNotPrefix, or the end.
EnumEnds(s) ==
    /\ epc[s] = "enum" /\ left[s] = {}
    /\ epc' = [epc EXCEPT ![s] = "errc"]
    /\ UNCHANGED <<stored, left, failed, errc, count, ch, closed, merge,
                   missingc, validator>>

\* EnumerateBlobs failed, or ctx was cancelled by the validator's return.
EnumFails(s) ==
    /\ epc[s] = "enum" /\ (s \in MayFail \/ vpc = "done")
    /\ failed' = [failed EXCEPT ![s] = TRUE]
    /\ epc' = [epc EXCEPT ![s] = "zero"]
    /\ UNCHANGED <<stored, left, errc, count, ch, closed, merge, missingc,
                   validator>>

SendZero(s) ==
    /\ epc[s] = "zero" /\ Len(ch[s]) < EnumCap
    /\ ch' = [ch EXCEPT ![s] = Append(@, Zero)]
    /\ epc' = [epc EXCEPT ![s] = "errc"]
    /\ UNCHANGED <<stored, left, failed, errc, count, closed, merge, missingc,
                   validator>>

SendErr(s) ==
    /\ epc[s] = "errc"
    /\ errc' = [errc EXCEPT ![s] = IF failed[s] THEN "error" ELSE "nil"]
    /\ epc' = [epc EXCEPT ![s] = "close"]
    /\ UNCHANGED <<stored, left, failed, count, ch, closed, merge, missingc,
                   validator>>

\* Mutant: the deferred close(c) is forgotten.
CloseEnumForgotten(s) ==
    /\ epc[s] = "close"
    /\ epc' = [epc EXCEPT ![s] = "exited"]
    /\ UNCHANGED <<stored, left, failed, errc, count, ch, closed, merge,
                   missingc, validator>>

CloseEnum(s) ==
    /\ epc[s] = "close"
    /\ closed' = [closed EXCEPT ![s] = TRUE]
    /\ epc' = [epc EXCEPT ![s] = "exited"]
    /\ UNCHANGED <<stored, left, failed, errc, count, ch, merge, missingc,
                   validator>>
-----------------------------------------------------------------------------
\* ListMissingDestinationBlobs

\* ChanPeeker.Peek on an empty peeker blocks for a value or the close.
Fill(s) ==
    /\ lpc = s /\ peek[s] = NoRef
    /\ \/ /\ ch[s] # <<>>
          /\ peek' = [peek EXCEPT ![s] = Head(ch[s])]
          /\ ch' = [ch EXCEPT ![s] = Tail(@)]
       \/ /\ ch[s] = <<>> /\ closed[s]
          /\ peek' = [peek EXCEPT ![s] = End]
          /\ UNCHANGED ch
    /\ UNCHANGED <<stored, enumerators, closed, lpc, missingc, validator>>

SrcPeeked ==
    /\ lpc = "src" /\ peek["src"] # NoRef
    /\ lpc' = IF peek["src"] \in {End, Zero} THEN "exited" ELSE "dst"
    /\ UNCHANGED <<stored, enumerators, ch, closed, peek, missingc, validator>>

DstPeeked ==
    /\ lpc = "dst" /\ peek["dst"] # NoRef
    /\ lpc' = CASE peek["dst"] = End -> "emit"
                [] peek["dst"] = Zero -> "exited"
                [] OTHER -> "compare"
    /\ UNCHANGED <<stored, enumerators, ch, closed, peek, missingc, validator>>

\* Mutant: the two "sorts first" cases are swapped.
CompareSwapped ==
    /\ lpc = "compare"
    /\ \/ /\ peek["src"] = peek["dst"]
          /\ peek' = [s \in Sides |-> NoRef]
          /\ lpc' = "src"
       \/ /\ peek["dst"] < peek["src"]
          /\ lpc' = "emit" /\ UNCHANGED peek
       \/ /\ peek["src"] < peek["dst"]
          /\ peek' = [peek EXCEPT !["dst"] = NoRef]
          /\ lpc' = "src"
    /\ UNCHANGED <<stored, enumerators, ch, closed, missingc, validator>>

Compare ==
    /\ lpc = "compare"
    /\ \/ /\ peek["src"] = peek["dst"]
          /\ peek' = [s \in Sides |-> NoRef]
          /\ lpc' = "src"
       \/ /\ peek["src"] < peek["dst"]
          /\ lpc' = "emit" /\ UNCHANGED peek
       \/ /\ peek["dst"] < peek["src"]
          /\ peek' = [peek EXCEPT !["dst"] = NoRef]
          /\ lpc' = "src"
    /\ UNCHANGED <<stored, enumerators, ch, closed, missingc, validator>>

\* Mutant: the source's blob is not taken off its peeker.
EmitNotTaken ==
    /\ lpc = "emit" /\ Len(missingc) < MissingCap
    /\ missingc' = Append(missingc, peek["src"])
    /\ lpc' = "src"
    /\ UNCHANGED <<stored, enumerators, ch, closed, peek, validator>>

Emit ==
    /\ lpc = "emit" /\ Len(missingc) < MissingCap
    /\ missingc' = Append(missingc, peek["src"])
    /\ peek' = [peek EXCEPT !["src"] = NoRef]
    /\ lpc' = "src"
    /\ UNCHANGED <<stored, enumerators, ch, closed, validator>>
-----------------------------------------------------------------------------
\* validateShardPrefix

CollectMissing ==
    /\ vpc = "drain"
    /\ \/ /\ missingc # <<>>
          /\ missing' = missing \cup {Head(missingc)}
          /\ missingc' = Tail(missingc)
          /\ UNCHANGED vpc
       \/ /\ missingc = <<>> /\ lpc = "exited"   \* missingc is closed
          /\ vpc' = "srcErr"
          /\ UNCHANGED <<missing, missingc>>
    /\ UNCHANGED <<stored, enumerators, ch, closed, merge, enqueued, verr>>

\* srcErr.Get, then dstErr.Get.
GetErr(s, here, next) ==
    /\ vpc = here /\ errc[s] # "empty"
    /\ \/ /\ errc[s] = "error"
          /\ vpc' = "done" /\ verr' = TRUE
       \/ /\ errc[s] = "nil"
          /\ vpc' = next /\ UNCHANGED verr
    /\ UNCHANGED <<stored, enumerators, ch, closed, merge, missingc, missing,
                   enqueued>>

\* Mutant: the destination's error is never looked at.
GetErrsOnlySrc == GetErr("src", "srcErr", "enqueue")

GetErrs == GetErr("src", "srcErr", "dstErr") \/ GetErr("dst", "dstErr", "enqueue")

EnqueueMissing(b) ==
    /\ vpc = "enqueue" /\ b \in missing
    /\ missing' = missing \ {b}
    /\ \/ enqueued' = enqueued \cup {b} /\ UNCHANGED verr
       \/ verr' = TRUE /\ UNCHANGED enqueued       \* enqueue failed
    /\ UNCHANGED <<stored, enumerators, ch, closed, merge, missingc, vpc>>

\* The deferred cancel and vshardDone++.
ShardDone ==
    /\ vpc = "enqueue" /\ missing = {}
    /\ vpc' = "done"
    /\ UNCHANGED <<stored, enumerators, ch, closed, merge, missingc, missing,
                   enqueued, verr>>
-----------------------------------------------------------------------------
Enumerator(s) ==
    \/ EnumSend(s) \/ EnumEnds(s) \/ EnumFails(s)
    \/ SendZero(s) \/ SendErr(s) \/ CloseEnum(s)
ListMissing ==
    \/ \E s \in Sides : Fill(s)
    \/ SrcPeeked \/ DstPeeked \/ Compare \/ Emit
Validator ==
    \/ CollectMissing \/ GetErrs
    \/ (\E b \in Refs : EnqueueMissing(b)) \/ ShardDone

Next == (\E s \in Sides : Enumerator(s)) \/ ListMissing \/ Validator

Spec == Init /\ [][Next]_vars
FairSpec ==
    /\ Spec
    /\ \A s \in Sides : WF_vars(Enumerator(s))
    /\ WF_vars(ListMissing) /\ WF_vars(Validator)
-----------------------------------------------------------------------------
TypeOK ==
    /\ stored \in [Sides -> SUBSET Refs] /\ left \in [Sides -> SUBSET Refs]
    /\ epc \in [Sides -> {"enum", "zero", "errc", "close", "exited"}]
    /\ failed \in [Sides -> BOOLEAN] /\ closed \in [Sides -> BOOLEAN]
    /\ \A s \in Sides :
        /\ Len(ch[s]) <= EnumCap
        /\ \A i \in 1..Len(ch[s]) : ch[s][i] \in Refs \cup {Zero}
    /\ errc \in [Sides -> {"empty", "nil", "error"}]
    /\ count \in [Sides -> 0..MaxRef]
    /\ peek \in [Sides -> {NoRef, Zero, End} \cup Refs]
    /\ lpc \in {"src", "dst", "compare", "emit", "exited"}
    /\ Len(missingc) <= MissingCap
    /\ vpc \in {"drain", "srcErr", "dstErr", "enqueue", "done"}
    /\ missing \subseteq Refs /\ enqueued \subseteq Refs /\ verr \in BOOLEAN

\* The merge of two interrupted, concurrent enumerations never makes a blob
\* that the destination's enumeration yielded a missing one: only blobs of
\* the source that the destination lacks are queued for a copy.
OnlyMissingEnqueued == enqueued \subseteq stored["src"] \ stored["dst"]

\* A shard validated without an error was validated completely: every
\* missing blob is queued and both sides' blobs were counted.
ValidatedCompletely ==
    vpc = "done" /\ ~verr =>
        /\ enqueued = stored["src"] \ stored["dst"]
        /\ \A s \in Sides : count[s] = Cardinality(stored[s])

\* The channels hold both sides of the shard and an end marker.
FitsChannels == \A s \in Sides : Cardinality(stored[s]) < EnumCap

\* vshardDone: "shards already processed (incl. errors)".  Every shard that
\* fits in the channels is processed in the end, and counted.  (A larger one
\* need not be: the merge stops at the end of one side without draining the
\* other, whose enumerator then blocks before it can report.)
ShardProcessed == FitsChannels ~> vpc = "done"
-----------------------------------------------------------------------------
\* A goroutine is not blocked: the guards of its steps.
CanStep ==
    \/ \E s \in Sides :
        \/ epc[s] = "enum" /\ (left[s] = {} \/ Len(ch[s]) < EnumCap)
        \/ epc[s] = "zero" /\ Len(ch[s]) < EnumCap
        \/ epc[s] \in {"errc", "close"}
        \/ lpc = s /\ (peek[s] # NoRef \/ ch[s] # <<>> \/ closed[s])
    \/ lpc = "compare"
    \/ lpc = "emit" /\ Len(missingc) < MissingCap
    \/ vpc = "drain" /\ (missingc # <<>> \/ lpc = "exited")
    \/ vpc = "srcErr" /\ errc["src"] # "empty"
    \/ vpc = "dstErr" /\ errc["dst"] # "empty"
    \/ vpc = "enqueue"

\* The steps a shard has left: how far every ref of a side is from the merge,
\* every missing blob from the queue and every goroutine from its end.
EnumeratorLeft(s) ==
    CASE epc[s] = "enum" -> 11 [] epc[s] = "zero" -> 10 [] epc[s] = "errc" -> 2
      [] epc[s] = "close" -> 1 [] OTHER -> 0
PeekLeft(s) ==
    CASE peek[s] = NoRef -> 1 [] peek[s] = End -> 0 [] OTHER -> 7
SideLeft(s) ==
    8 * (MaxRef - count[s]) + EnumeratorLeft(s) + 7 * Len(ch[s]) + PeekLeft(s)
MergeLeft ==
    CASE lpc = "src" -> 4 [] lpc = "dst" -> 3 [] lpc = "compare" -> 2
      [] lpc = "emit" -> 1 [] OTHER -> 0
ValidatorLeft ==
    CASE vpc = "drain" -> 4 [] vpc = "srcErr" -> 3 [] vpc = "dstErr" -> 2
      [] vpc = "enqueue" -> 1 [] OTHER -> 0
StepsLeft ==
    SideLeft("src") + SideLeft("dst") + MergeLeft + 2 * Len(missingc)
    + Cardinality(missing) + ValidatorLeft

\* Of the four goroutines of a shard that fits in the channels, one is not
\* blocked until the validator is done, wherever an enumeration failed.
NeverStalls ==
    /\ StepsLeft \in Nat
    /\ FitsChannels /\ vpc # "done" => CanStep

\* The two halves of ShardProcessed that hold of every behaviour, fair or
\* not: no step is for nothing, and until the end there is a next one.
Terminates == []NeverStalls /\ [][StepsLeft' < StepsLeft]_vars
=============================================================================
