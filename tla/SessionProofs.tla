--------------------------- MODULE SessionProofs ---------------------------
(***************************************************************************)
(* What the search session of the web UI promises to the page that shows   *)
(* its results, for any number of XHRs, sockets, blobs and messages:       *)
(*                                                                         *)
(*  - Paged: as long as data_ was not replaced under a page that is being  *)
(*    loaded, at most one continuation is out, as a token or as an XHR,    *)
(*    and what it will bring comes after all that data_ has;               *)
(*  - Shown: the last result that the hub has put into the channel of the  *)
(*    session's socket is in the channel still, or is what data_ has.      *)
(*  - Wired: only the session's socket is open, every registered          *)
(*    connection has had a writePump, and channels hold what fits.         *)
(*                                                                         *)
(* With the freshness of the hub (SearchSessionProofs) they give the       *)
(* invariants PagesCollapsed, SessionFresh and OnlyHubStuckHangs.          *)
(***************************************************************************)
EXTENDS SearchSessionProofs, FiniteSetTheorems, WellFoundedInduction

USE ZenonT(30) DEF index, channels, run, pumps, query
-----------------------------------------------------------------------------
(***************************************************************************)
(* Sorted lists of results.                                                *)
(***************************************************************************)

\* A set of numbers has a least one: the last result of a page exists.
LEMMA LeastOf ==
  ASSUME NEW S \in SUBSET Nat, S # {}
  PROVE  \E x \in S : \A y \in S : x <= y
  <1> DEFINE R == {ss \in Nat \X Nat : ss[1] < ss[2]}
  <1>1. IsWellFoundedOn(R, Nat)
    BY NatLessThanWellFounded DEF OpToRel
  <1> HIDE DEF R
  <1>2. PICK x \in S : \A y \in S : <<y, x>> \notin R
    BY <1>1, WFMin
  <1>3. ASSUME NEW y \in S PROVE x <= y
    <2>1. ~(y < x)
      BY <1>2, <1>3 DEF R
    <2> QED
      BY SMTT(30), <2>1
  <1> QED
    BY <1>3

\* S can be listed in descending order.
Sortable(S) == \E s \in [1..Cardinality(S) -> S] : Descending(s)

\* A list is extended at its end by a number below all others.
LEMMA SortableStep ==
  ASSUME NEW S \in SUBSET Nat, IsFiniteSet(S), NEW x \in S, \A y \in S : x <= y,
         Sortable(S \ {x})
  PROVE  Sortable(S)
  <1>1. Cardinality(S) \in Nat \ {0} /\ Cardinality(S \ {x}) = Cardinality(S) - 1
    <2>1. Cardinality(S \ {x}) = Cardinality(S) - 1 /\ IsFiniteSet(S \ {x})
      BY FS_RemoveElement
    <2>2. Cardinality(S \ {x}) \in Nat /\ Cardinality(S) \in Nat
      BY <2>1, FS_CardinalityType
    <2> QED
      BY SMTT(30), <2>1, <2>2
  <1> DEFINE n == Cardinality(S)
  <1>2. PICK s \in [1..Cardinality(S \ {x}) -> S \ {x}] : Descending(s)
    BY DEF Sortable
  <1> DEFINE t == [i \in 1..n |-> IF i < n THEN s[i] ELSE x]
  <1>3. \A i \in 1..n : i < n => i \in 1..Cardinality(S \ {x})
    BY SMTT(30), <1>1
  <1>4. \A i \in 1..n : i < n => s[i] \in S \ {x}
    BY <1>2, <1>3
  <1>5. t \in [1..n -> S]
    BY <1>4
  <1>6. ASSUME NEW i \in 1..n, NEW k \in 1..n, i < k PROVE t[i] > t[k]
    <2>a. i < n
      BY SMTT(30), <1>1, <1>6
    <2>1. i < n /\ t[i] = s[i] /\ s[i] \in S \ {x}
      BY <2>a, <1>4
    <2>2. CASE k = n
      <3>1. t[k] = x
        BY SMTT(30), <2>2, <1>1
      <3>2. x <= s[i] /\ s[i] # x
        BY <2>1
      <3>3. s[i] > x
        <4>1. s[i] \in Nat /\ x \in Nat
          BY <2>1
        <4> HIDE DEF t
        <4> QED
          BY SMTT(30), <3>2, <4>1
      <3> QED
        BY <2>1, <3>1, <3>3
    <2>3. CASE k # n
      <3>1. k < n /\ t[k] = s[k]
        BY SMTT(30), <1>1, <2>3
      <3>2. i \in DOMAIN s /\ k \in DOMAIN s
        BY <1>2, <1>3, <2>1, <3>1
      <3> QED
        BY <1>2, <1>6, <2>1, <3>1, <3>2 DEF Descending
    <2> QED
      BY <2>2, <2>3
  <1>7. Descending(t)
    BY <1>6 DEF Descending
  <1> QED
    BY <1>5, <1>7 DEF Sortable

\* Every finite set of numbers can be listed in descending order: the smallest
\* one that could not would have a least element to take away.
LEMMA AllSortable ==
  ASSUME NEW T \in SUBSET Nat, IsFiniteSet(T)
  PROVE  Sortable(T)
  <1> DEFINE R == {ss \in Nat \X Nat : ss[1] < ss[2]}
  <1> DEFINE Bad == {n \in Nat : \E S \in SUBSET T : ~Sortable(S) /\ Cardinality(S) = n}
  <1>1. IsWellFoundedOn(R, Nat)
    BY NatLessThanWellFounded DEF OpToRel
  <1>2. ASSUME NEW n \in Bad PROVE \E m \in Bad : <<m, n>> \in R
    <2>1. PICK S \in SUBSET T : ~Sortable(S) /\ Cardinality(S) = n
      BY <1>2
    <2>2. IsFiniteSet(S) /\ S \in SUBSET Nat
      BY <2>1, FS_Subset
    <2>3. S # {}
      <3>1. ASSUME S = {} PROVE Sortable(S)
        <4>1. Cardinality(S) = 0
          BY <3>1, FS_EmptySet
        <4>2. 1..Cardinality(S) = {}
          BY SMTT(30), <4>1
        <4>3. [i \in {} |-> 0] \in [{} -> S] /\ Descending([i \in {} |-> 0])
          BY DEF Descending
        <4> QED
          BY <4>2, <4>3 DEF Sortable
      <3> QED
        BY <2>1, <3>1
    <2>4. PICK x \in S : \A y \in S : x <= y
      BY <2>2, <2>3, LeastOf
    <2>5. ~Sortable(S \ {x})
      BY <2>1, <2>2, <2>4, SortableStep
    <2>6. IsFiniteSet(S \ {x}) /\ Cardinality(S \ {x}) = n - 1
      BY <2>1, <2>2, FS_RemoveElement
    <2>7. Cardinality(S \ {x}) \in Nat
      BY <2>6, FS_CardinalityType
    <2>8. n - 1 \in Nat /\ n - 1 < n
      BY SMTT(30), <1>2, <2>6, <2>7
    <2>9. n - 1 \in Bad
      BY <2>5, <2>6, <2>8
    <2>10. <<n - 1, n>> \in R
      BY SMTT(30), <2>8, <1>2
    <2> QED
      BY <2>9, <2>10
  <1> HIDE DEF R
  <1>3. Bad = {}
    <2>1. Bad \subseteq Nat
      OBVIOUS
    <2> HIDE DEF Bad
    <2> QED
      BY <1>1, <1>2, <2>1, WFMin
  <1>4. Cardinality(T) \in Nat
    BY FS_CardinalityType
  <1> QED
    BY <1>3, <1>4

\* What the session makes of a page: a list of its results, the largest first.
LEMMA SortedOK ==
  ASSUME NEW S \in SUBSET Items
  PROVE  /\ Sorted(S) \in Seq(Items) /\ Descending(Sorted(S))
         /\ \A i \in DOMAIN Sorted(S) : Sorted(S)[i] \in S
  <1>1. IsFiniteSet(S) /\ S \in SUBSET Nat
    BY HubAssumption, FS_Subset
  <1>2. Cardinality(S) \in Nat
    BY <1>1, FS_CardinalityType
  <1>3. \E s \in [1..Cardinality(S) -> S] : Descending(s)
    BY <1>1, AllSortable DEF Sortable
  <1>4. Sorted(S) \in [1..Cardinality(S) -> S] /\ Descending(Sorted(S))
    BY <1>3 DEF Sorted
  <1>5. Sorted(S) \in [1..Cardinality(S) -> Items]
    BY <1>4
  <1>6. Sorted(S) \in Seq(Items)
    BY SMTT(30), <1>2, <1>5
  <1> QED
    BY <1>4, <1>6

\* The continue token of a page is one of its results, the last one.
LEMMA TokenOK ==
  ASSUME NEW p \in SUBSET Items, NEW n \in Nat \ {0}
  PROVE  \/ Token(p, n) = 0
         \/ Token(p, n) \in p /\ \A k \in p : Token(p, n) <= k
  <1>1. CASE Cardinality(p) # n
    BY <1>1 DEF Token
  <1>2. CASE Cardinality(p) = n
    <2>1. p # {}
      BY <1>2, FS_EmptySet
    <2>2. p \in SUBSET Nat
      BY HubAssumption
    <2>3. \E i \in p : \A k \in p : i <= k
      BY <2>1, <2>2, LeastOf
    <2> QED
      BY <1>2, <2>3 DEF Token
  <1> QED
    BY <1>1, <1>2
-----------------------------------------------------------------------------
(***************************************************************************)
(* Types, and what a socket and an XHR that exist have.                    *)
(***************************************************************************)

QueryRec == [type : {None, "NEW", "APPEND", "UPDATE"}, limit : Nat, after : Items \cup {0}]
XhrRec == [at : {"free", "sent", "ok", "refused", "garbled"}, q : QueryRec,
           page : SUBSET Items]

\* A continuation is bound to the next page.
ContOK == cont = NoCont \/ \E t \in Items : cont = Query("APPEND", PageSize, t)

\* An XHR asks for something.
XhrOK ==
    /\ xhr \in [Xhrs -> XhrRec]
    /\ \A x \in Xhrs : xhr[x].at # "free" =>
          xhr[x].q.limit # 0 /\ xhr[x].q.type # None

\* A socket is opened only where there are sockets, and its first message
\* shows that the server supports it.
Watched == sock # 0 => hasWS /\ (first \/ supports) /\ limit[sock] # 0

Flagged ==
    /\ hasWS \in BOOLEAN /\ undef \in BOOLEAN /\ complete \in BOOLEAN
    /\ supports \in BOOLEAN /\ sockErr \in BOOLEAN /\ first \in BOOLEAN
    /\ closed \in BOOLEAN /\ mixed \in BOOLEAN /\ gap \in BOOLEAN

SessType ==
    /\ limit \in [Conns -> Nat] /\ left \in [Kinds -> Nat] /\ data \in Seq(Items)
    /\ SockOK /\ ContOK /\ XhrOK /\ Watched /\ Flagged

LEMMA SpendOK ==
  ASSUME left \in [Kinds -> Nat], NEW k \in Kinds, Spend(k)
  PROVE  left' \in [Kinds -> Nat]
  BY SMTT(30) DEF Spend

\* The steps of the server leave limits and TCP connections alone.
LEMMA ServerFrame ==
  ASSUME ServerNext, left \in [Kinds -> Nat]
  PROVE  limit' = limit /\ link' = link /\ left' \in [Kinds -> Nat]
  <1> USE DEF Kinds, Types
  <1>1. ASSUME NEW t \in Types, Upload(t) PROVE left' \in [Kinds -> Nat] /\ UNCHANGED pumps
    BY <1>1, SpendOK DEF Upload
  <1>2. ASSUME UploadIndexed \/ Listening PROVE left' = left /\ UNCHANGED pumps
    BY <1>2 DEF UploadIndexed, Listening, ListenerSends, Listen
  <1>3. ASSUME Selecting PROVE left' = left /\ UNCHANGED <<limit, link>>
    BY <1>3 DEF Selecting, HubNewBlob, HubWatch, HubUpdated, HubRegister, HubUnregister
  <1>4. ASSUME HubStatus PROVE left' \in [Kinds -> Nat] /\ UNCHANGED pumps
    BY <1>4, SpendOK DEF HubStatus
  <1>5. ASSUME NEW c \in Conns, HubSend(c) \/ Pumping(c)
        PROVE  left' = left /\ UNCHANGED <<limit, link>>
    BY <1>5 DEF HubSend, Pumping, ReadMessage, WriterEnds
  <1>6. ASSUME NEW c \in Conns, Searching(c) PROVE left' = left /\ UNCHANGED pumps
    BY <1>6 DEF Searching, RedoLocks, RedoChecks, DoSearch, StoreResult, Announce
  <1>7. ASSUME NEW c \in Conns, NEW k \in Jobs, SearchFails(c, k)
        PROVE  left' \in [Kinds -> Nat] /\ UNCHANGED pumps
    BY <1>7, SpendOK DEF SearchFails
  <1>8. ASSUME SyncIndexes \/ \E t \in Types : ListenSkips(t)
        PROVE  left' \in [Kinds -> Nat] /\ UNCHANGED pumps
    BY <1>8, SpendOK DEF SyncIndexes, ListenSkips
  <1> QED
    BY <1>1, <1>2, <1>3, <1>4, <1>5, <1>6, <1>7, <1>8 DEF ServerNext

\* A new XHR.
LEMMA SearchView ==
  ASSUME XhrOK, NEW q \in QueryRec, q.limit # 0, q.type # None, Search(q)
  PROVE  /\ XhrOK'
         /\ \E x \in Xhrs :
              /\ xhr'[x].at = "sent" /\ xhr'[x].q = q /\ xhr'[x].page = {}
              /\ \A y \in Xhrs \ {x} : xhr'[y] = xhr[y]
  <1>1. Asking(q).at = "sent" /\ Asking(q).q = q /\ Asking(q).page = {} /\ Asking(q) \in XhrRec
    BY DEF Asking, XhrRec
  <1>2. PICK x \in Xhrs : xhr' = [xhr EXCEPT ![x] = Asking(q)]
    BY DEF Search
  <1>3. /\ xhr' \in [Xhrs -> XhrRec] /\ xhr'[x] = Asking(q)
        /\ \A y \in Xhrs \ {x} : xhr'[y] = xhr[y]
    BY <1>1, <1>2 DEF XhrOK
  <1> QED
    BY <1>1, <1>3 DEF XhrOK

LEMMA AnswerView ==
  ASSUME XhrOK, NEW x \in Xhrs, xhr[x].at = "sent", NEW p \in SUBSET Items,
         NEW how \in {"ok", "refused", "garbled"}, Answer(x, how, p)
  PROVE  /\ XhrOK'
         /\ xhr'[x].at = how /\ xhr'[x].q = xhr[x].q /\ xhr'[x].page = p
         /\ \A y \in Xhrs \ {x} : xhr'[y] = xhr[y]
  <1> DEFINE new == [at |-> how, q |-> xhr[x].q, page |-> p]
  <1>1. xhr[x].q \in QueryRec
    BY DEF XhrOK, XhrRec
  <1>2. new.at = how /\ new.q = xhr[x].q /\ new.page = p /\ new \in XhrRec
    BY <1>1 DEF XhrRec
  <1>3. xhr' = [xhr EXCEPT ![x] = new]
    BY DEF Answer
  <1> HIDE DEF new
  <1>4. /\ xhr' \in [Xhrs -> XhrRec] /\ xhr'[x] = new
        /\ \A y \in Xhrs \ {x} : xhr'[y] = xhr[y]
    BY <1>2, <1>3 DEF XhrOK
  <1> QED
    BY <1>2, <1>4 DEF XhrOK

\* An XHR that is answered.
LEMMA ServeView ==
  ASSUME HubTypeOK, XhrOK, NEW x \in Xhrs, Serve(x)
  PROVE  /\ XhrOK'
         /\ xhr[x].at = "sent" /\ xhr'[x].at = "ok" /\ xhr'[x].q = xhr[x].q
         /\ xhr'[x].page = Page(xhr[x].q.limit, xhr[x].q.after)
         /\ \A y \in Xhrs \ {x} : xhr'[y] = xhr[y]
  <1> DEFINE p == Page(xhr[x].q.limit, xhr[x].q.after)
  <1>1. p \in SUBSET Items
    BY PageOK DEF HubTypeOK, FeedType
  <1>2. xhr[x].at = "sent" /\ Answer(x, "ok", p)
    BY DEF Serve
  <1> HIDE DEF p
  <1>3. /\ XhrOK'
        /\ xhr[x].at = "sent" /\ xhr'[x].at = "ok" /\ xhr'[x].q = xhr[x].q
        /\ xhr'[x].page = p
        /\ \A y \in Xhrs \ {x} : xhr'[y] = xhr[y]
    BY <1>1, <1>2, AnswerView
  <1> QED
    BY <1>3 DEF p

\* An XHR whose answer is no result.
LEMMA FailView ==
  ASSUME XhrOK, NEW x \in Xhrs, ServeFails(x)
  PROVE  /\ XhrOK'
         /\ xhr[x].at = "sent" /\ xhr'[x].at # "free" /\ xhr'[x].q = xhr[x].q
         /\ xhr'[x].page = {}
         /\ \A y \in Xhrs \ {x} : xhr'[y] = xhr[y]
  <1>1. PICK how \in {"refused", "garbled"} : xhr[x].at = "sent" /\ Answer(x, how, {})
    BY DEF ServeFails
  <1>2. {} \in SUBSET Items
    OBVIOUS
  <1> QED
    BY <1>1, <1>2, AnswerView

\* An XHR that is done.
LEMMA ReleaseView ==
  ASSUME XhrOK, NEW x \in Xhrs, Release(x)
  PROVE  XhrOK' /\ xhr'[x].at = "free" /\ \A y \in Xhrs \ {x} : xhr'[y] = xhr[y]
  <1>1. Free.at = "free" /\ Free \in XhrRec
    BY SMTT(30) DEF Free, XhrRec, QueryRec, NoCont, Query
  <1>2. xhr' \in [Xhrs -> XhrRec] /\ xhr'[x] = Free /\ \A y \in Xhrs \ {x} : xhr'[y] = xhr[y]
    BY <1>1 DEF Release, XhrOK
  <1> QED
    BY <1>1, <1>2 DEF XhrOK

\* The queries that the session makes are queries.
LEMMA QueriesOK ==
  /\ NoCont \in QueryRec /\ NoCont.type = None
  /\ \A t \in Items : /\ Query("APPEND", PageSize, t) \in QueryRec
                      /\ Query("APPEND", PageSize, t).type = "APPEND"
                      /\ Query("APPEND", PageSize, t).limit = PageSize
                      /\ Query("APPEND", PageSize, t).after = t
  /\ \A n \in Nat, type \in {"NEW", "UPDATE"} :
                      /\ Query(type, n, 0) \in QueryRec
                      /\ Query(type, n, 0).type = type
                      /\ Query(type, n, 0).limit = n
  <1> USE DEF NoCont, Query, QueryRec
  <1>1. NoCont \in QueryRec /\ NoCont.type = None
    BY SMTT(30)
  <1>2. \A t \in Items : /\ Query("APPEND", PageSize, t) \in QueryRec
                         /\ Query("APPEND", PageSize, t).type = "APPEND"
                         /\ Query("APPEND", PageSize, t).limit = PageSize
                         /\ Query("APPEND", PageSize, t).after = t
    BY SessionAssumption
  <1>3. \A n \in Nat, type \in {"NEW", "UPDATE"} :
                         /\ Query(type, n, 0) \in QueryRec
                         /\ Query(type, n, 0).type = type
                         /\ Query(type, n, 0).limit = n
    BY SMTT(30)
  <1> QED
    BY <1>1, <1>2, <1>3

LEMMA MaxOfOK ==
  ASSUME NEW s \in Seq(Items) PROVE MaxOf(Len(s), PageSize) \in Nat \ {0}
  BY SMTT(30), SessionAssumption DEF MaxOf

\* data_ and continuation_ after searchDone_ with a page, and with none.
LEMMA SearchDoneOK ==
  ASSUME data \in Seq(Items), NEW type, NEW p \in SUBSET Items, NEW n \in Nat \ {0},
         SearchDone(type, Sorted(p), Token(p, n))
  PROVE  data' \in Seq(Items) /\ ContOK'
  <1>1. Sorted(p) \in Seq(Items)
    BY SortedOK
  <1>2. data \o Sorted(p) \in Seq(Items)
    BY SMTT(30), <1>1
  <1>3. Token(p, n) = 0 \/ Token(p, n) \in Items
    BY TokenOK
  <1> QED
    BY <1>1, <1>2, <1>3 DEF SearchDone, ContOK

LEMMA EmptyDoneOK ==
  ASSUME data \in Seq(Items), NEW type, type # "APPEND", SearchDone(type, <<>>, 0)
  PROVE  data' = <<>> /\ data' \in Seq(Items) /\ cont' = NoCont
  <1>1. <<>> \in Seq(Items)
    BY SMTT(30)
  <1> QED
    BY <1>1 DEF SearchDone

\* The new socket.
LEMMA StartView ==
  ASSUME limit \in [Conns -> Nat], data' \in Seq(Items), StartSocket
  PROVE  /\ limit' \in [Conns -> Nat] /\ sock' \in Conns /\ first' = TRUE
         /\ limit'[sock'] # 0 /\ cst[sock'] = "none"
         /\ told' = told /\ send' = send
  <1>1. PICK c \in Conns :
          /\ cst[c] = "none" /\ sock' = c /\ first' = TRUE
          /\ Open(c, MaxOf(Len(data'), PageSize), {sock})
    BY DEF StartSocket
  <1>2. MaxOf(Len(data'), PageSize) \in Nat \ {0}
    BY MaxOfOK
  <1>3. limit' = [limit EXCEPT ![c] = MaxOf(Len(data'), PageSize)] /\ told' = told /\ send' = send
    BY <1>1 DEF Open
  <1> QED
    BY <1>1, <1>2, <1>3

\* An XHR whose result, or something that is none, reaches searchDone_.
LEMMA DoneType ==
  ASSUME HubTypeOK, SessType, NEW x \in Xhrs, XhrDone(x) \/ XhrGarbled(x)
  PROVE  SessType'
  <1> USE DEF SessType
  <1>1. XhrOK' /\ left' = left
    BY ReleaseView DEF XhrDone, XhrGarbled
  <1>2. data' \in Seq(Items) /\ ContOK'
    <2>1. CASE XhrDone(x)
      <3>1. xhr[x].page \in SUBSET Items /\ xhr[x].q.limit \in Nat \ {0}
        BY <2>1 DEF XhrDone, XhrOK, XhrRec, QueryRec
      <3> QED
        BY <2>1, <3>1, SearchDoneOK DEF XhrDone
    <2>2. CASE XhrGarbled(x)
      BY <2>2, EmptyDoneOK DEF XhrGarbled, ContOK
    <2> QED
      BY <2>1, <2>2
  <1>3. /\ undef' \in BOOLEAN /\ complete' \in BOOLEAN /\ mixed' \in BOOLEAN /\ gap' \in BOOLEAN
        /\ UNCHANGED <<hasWS, supports, sockErr, closed>>
    BY DEF XhrDone, XhrGarbled, SearchDone, UnderWay, Flagged
  <1>4. CASE StartSocket /\ hasWS
    BY <1>1, <1>2, <1>3, <1>4, StartView DEF SockOK, Watched, Flagged
  <1>5. CASE UNCHANGED <<hubVars, sock, first>>
    <2>1. limit' = limit
      BY <1>5 DEF hubVars
    <2> QED
      BY <1>1, <1>2, <1>3, <1>5, <2>1 DEF SockOK, Watched, Flagged
  <1> QED
    BY <1>4, <1>5 DEF XhrDone, XhrGarbled, Starts

LEMMA SessTypeStep ==
  ASSUME HubTypeOK, SessType, [Next]_vars
  PROVE  SessType'
  <1> USE DEF SessType
  <1>a. {"schema", "data", "status", "call", "fault"} = Kinds
    BY DEF Kinds
  <1>1. ASSUME ServerNext /\ UNCHANGED <<xhr, sessVars>> PROVE SessType'
    BY <1>1, ServerFrame DEF sessVars, SockOK, ContOK, XhrOK, Watched, Flagged
  <1>2. ASSUME LoadMore PROVE SessType'
    <2>1. cont \in QueryRec /\ cont.limit # 0 /\ cont.type # None
      <3>1. PICK t \in Items : cont = Query("APPEND", PageSize, t)
        BY <1>2 DEF LoadMore, ContOK
      <3> QED
        BY <3>1, QueriesOK, SessionAssumption DEF None
    <2>2. XhrOK'
      BY <1>2, <2>1, SearchView DEF LoadMore
    <2>3. left' \in [Kinds -> Nat]
      BY <1>2, <1>a, SpendOK DEF LoadMore
    <2> QED
      BY <1>2, <2>2, <2>3 DEF LoadMore, hubVars, SockOK, ContOK, Watched, Flagged
  <1>3. ASSUME Refresh PROVE SessType'
    <2> DEFINE n == MaxOf(Len(data), PageSize)
    <2>1. n \in Nat \ {0}
      BY MaxOfOK
    <2> HIDE DEF n
    <2>a. n \in Nat /\ n # 0 /\ "UPDATE" \in {"NEW", "UPDATE"}
      BY <2>1
    <2>b. /\ Query("UPDATE", n, 0) \in QueryRec /\ Query("UPDATE", n, 0).limit = n
          /\ Query("UPDATE", n, 0).type = "UPDATE"
      BY <2>a, QueriesOK
    <2>2. /\ Query("UPDATE", n, 0) \in QueryRec /\ Query("UPDATE", n, 0).limit # 0
          /\ Query("UPDATE", n, 0).type # None
      BY <2>a, <2>b DEF None
    <2>3. XhrOK'
      BY <1>3, <2>2, SearchView DEF Refresh, n
    <2>4. left' \in [Kinds -> Nat]
      BY <1>3, <1>a, SpendOK DEF Refresh
    <2>5. data' \in Seq(Items) /\ ContOK'
      <3>1. <<>> \in Seq(Items)
        BY SMTT(30)
      <3> QED
        BY <1>3, <3>1 DEF Refresh, ContOK
    <2>6. mixed' \in BOOLEAN
      BY <1>3 DEF Refresh, UnderWay
    <2> QED
      BY <1>3, <2>3, <2>4, <2>5, <2>6 DEF Refresh, hubVars, SockOK, Watched, Flagged
  <1>4. ASSUME Close PROVE SessType'
    <2>1. left' \in [Kinds -> Nat]
      BY <1>4, <1>a, SpendOK DEF Close
    <2>2. limit' = limit
      BY <1>4 DEF Close, Drop, hubVars
    <2>3. /\ closed' \in BOOLEAN
          /\ UNCHANGED <<xhr, hasWS, data, undef, cont, complete, supports, sockErr, sock,
                         first, mixed, gap>>
      BY <1>4 DEF Close
    <2>4. XhrOK' /\ ContOK'
      BY <2>3 DEF XhrOK, ContOK
    <2> QED
      BY <2>1, <2>2, <2>3, <2>4 DEF SockOK, Watched, Flagged
  <1>5. ASSUME NEW x \in Xhrs, Serve(x) PROVE SessType'
    <2>1. XhrOK' /\ limit' = limit /\ UNCHANGED <<left, sessVars>>
      BY <1>5, ServeView DEF Serve, hubVars
    <2> QED
      BY <2>1 DEF sessVars, SockOK, ContOK, Watched, Flagged
  <1>6. ASSUME NEW x \in Xhrs, ServeFails(x) PROVE SessType'
    <2>1. left' \in [Kinds -> Nat]
      BY <1>6, <1>a, SpendOK DEF ServeFails
    <2>2. XhrOK' /\ limit' = limit /\ UNCHANGED sessVars
      BY <1>6, FailView DEF ServeFails, hubVars
    <2> QED
      BY <2>1, <2>2 DEF sessVars, SockOK, ContOK, Watched, Flagged
  <1>7. ASSUME NEW x \in Xhrs, XhrDone(x) \/ XhrGarbled(x) PROVE SessType'
    BY <1>7, DoneType
  <1>8. ASSUME NEW x \in Xhrs, XhrDropped(x) PROVE SessType'
    BY <1>8, ReleaseView DEF XhrDropped, hubVars, sessVars, SockOK, ContOK, Watched, Flagged
  <1>9. ASSUME FirstMessage PROVE SessType'
    <2>1. limit' = limit
      BY <1>9 DEF FirstMessage, Deliver
    <2>2. first' \in BOOLEAN /\ gap' \in BOOLEAN /\ supports' = TRUE
      BY <1>9 DEF FirstMessage
    <2> QED
      BY <1>9, <2>1, <2>2 DEF FirstMessage, SockOK, ContOK, XhrOK, Watched, Flagged
  <1>10. ASSUME Message PROVE SessType'
    <2>1. limit' = limit
      BY <1>10 DEF Message, Deliver
    <2>2. sock \in Conns /\ send[sock] # <<>>
      BY <1>10 DEF Message, Deliver, SockOK
    <2>3. Head(send[sock]) \in Messages
      BY <2>2, InTail DEF HubTypeOK, RunType
    <2>4. Head(send[sock]).page \in SUBSET Items /\ limit[sock] \in Nat \ {0}
      BY <1>10, <2>2, <2>3, MessagesOK DEF Message, Watched
    <2>5. data' \in Seq(Items) /\ ContOK'
      BY <1>10, <2>4, SearchDoneOK DEF Message, ContOK
    <2>6. complete' \in BOOLEAN /\ mixed' \in BOOLEAN /\ undef' \in BOOLEAN /\ gap' \in BOOLEAN
      BY <1>10 DEF Message, SearchDone, UnderWay, Flagged
    <2> QED
      BY <1>10, <2>1, <2>5, <2>6 DEF Message, SockOK, XhrOK, Watched, Flagged
  <1>11. ASSUME Break PROVE SessType'
    <2>1. left' \in [Kinds -> Nat]
      BY <1>11, <1>a, SpendOK DEF Break
    <2> QED
      BY <1>11, <2>1 DEF Break, Drop, sessVars, SockOK, ContOK, XhrOK, Watched, Flagged
  <1>12. ASSUME SocketError PROVE SessType'
    BY <1>12 DEF SocketError, hubVars, SockOK, ContOK, XhrOK, Watched, Flagged
  <1>13. ASSUME UNCHANGED vars PROVE SessType'
    BY <1>13 DEF vars, hubVars, sessVars, SockOK, ContOK, XhrOK, Watched, Flagged
  <1> QED
    BY <1>1, <1>2, <1>3, <1>4, <1>5, <1>6, <1>7, <1>8, <1>9, <1>10, <1>11, <1>12, <1>13
       DEF Next, SessionNext, Answering
-----------------------------------------------------------------------------
(***************************************************************************)
(* Pages.                                                                  *)
(***************************************************************************)

\* A page is being loaded by x.
Appending(x) == xhr[x].at # "free" /\ xhr[x].q.type = "APPEND"

\* All results in data_ come before those of a query with token t.
Before(t) == t # 0 /\ \A i \in DOMAIN data : data[i] >= t

Paged ==
    ~mixed =>
        /\ Descending(data)
        /\ cont # NoCont => Before(cont.after) /\ \A x \in Xhrs : ~Appending(x)
        /\ \A x \in Xhrs : Appending(x) =>
            /\ Before(xhr[x].q.after)
            /\ \A i \in xhr[x].page : i < xhr[x].q.after
            /\ \A y \in Xhrs : Appending(y) => y = x

\* What a continuation has.
LEMMA ContView ==
  ASSUME ContOK, cont # NoCont
  PROVE  cont \in QueryRec /\ cont.type = "APPEND" /\ cont.limit # 0
  <1>1. PICK t \in Items : cont = Query("APPEND", PageSize, t)
    BY DEF ContOK
  <1> QED
    BY <1>1, QueriesOK, SessionAssumption

LEMMA UnderWayView ==
  UnderWay("APPEND") <=> \E x \in Xhrs : Appending(x)
  BY DEF UnderWay, Appending

\* searchDone_ replaces data_ by a sorted page; what its token asks for comes
\* after it.
LEMMA ReplacedPaged ==
  ASSUME Flagged, NEW type, type # "APPEND", NEW p \in SUBSET Items, NEW n \in Nat \ {0},
         SearchDone(type, Sorted(p), Token(p, n)),
         \A y \in Xhrs : Appending(y)' => Appending(y)
  PROVE  Paged'
  <1> SUFFICES ASSUME ~mixed' PROVE Paged'
    BY DEF Paged
  <1>1. \A y \in Xhrs : ~Appending(y)'
    BY UnderWayView DEF SearchDone
  <1>2. data' = Sorted(p)
    BY DEF SearchDone
  <1>3. Descending(data')
    BY <1>2, SortedOK
  <1>4. ASSUME cont' # NoCont PROVE Before(cont.after)'
    <2>1. Token(p, n) # 0 /\ cont' = Query("APPEND", PageSize, Token(p, n))
      BY <1>4 DEF SearchDone
    <2>2. Token(p, n) \in p /\ \A k \in p : Token(p, n) <= k
      BY <2>1, TokenOK
    <2>3. cont'.after = Token(p, n)
      BY <2>1, <2>2, QueriesOK
    <2>4. \A i \in DOMAIN data' : data'[i] \in p
      BY <1>2, SortedOK
    <2>5. \A k \in p : k >= Token(p, n)
      BY SMTT(30), <2>2, HubAssumption
    <2> QED
      BY <2>1, <2>3, <2>4, <2>5 DEF Before
  <1> QED
    BY <1>1, <1>3, <1>4 DEF Paged

LEMMA ClearedPaged ==
  ASSUME data' = <<>>, cont' = NoCont, ~mixed' => \A y \in Xhrs : ~Appending(y)'
  PROVE  Paged'
  <1>1. DOMAIN data' = {}
    BY SMTT(30)
  <1>2. Descending(data')
    BY <1>1 DEF Descending
  <1> QED
    BY <1>2 DEF Paged

\* Two sorted lists one after the other.
LEMMA ConcatDescending ==
  ASSUME NEW s \in Seq(Items), NEW t \in Seq(Items), Descending(s), Descending(t),
         NEW a \in Nat, \A i \in DOMAIN s : s[i] >= a, \A i \in DOMAIN t : t[i] < a
  PROVE  Descending(s \o t)
  <1>a. Items \subseteq Nat
    BY HubAssumption
  <1>b. /\ Len(s) \in Nat /\ Len(t) \in Nat /\ DOMAIN s = 1..Len(s) /\ DOMAIN t = 1..Len(t)
        /\ \A i \in 1..Len(s) : s[i] \in Items
        /\ \A i \in 1..Len(t) : t[i] \in Items
    BY SMTT(30)
  <1>c. DOMAIN (s \o t) = 1..(Len(s) + Len(t))
    BY SMTT(30)
  <1>d. \A i \in 1..(Len(s) + Len(t)) :
              (s \o t)[i] = IF i <= Len(s) THEN s[i] ELSE t[i - Len(s)]
    BY SMTT(30)
  <1>0. /\ Len(s) \in Nat /\ Len(t) \in Nat /\ DOMAIN s = 1..Len(s) /\ DOMAIN t = 1..Len(t)
        /\ DOMAIN (s \o t) = 1..(Len(s) + Len(t))
        /\ \A i \in 1..(Len(s) + Len(t)) :
              (s \o t)[i] = IF i <= Len(s) THEN s[i] ELSE t[i - Len(s)]
        /\ \A i \in 1..Len(s) : s[i] \in Nat
        /\ \A i \in 1..Len(t) : t[i] \in Nat
    BY <1>a, <1>b, <1>c, <1>d
  <1> SUFFICES ASSUME NEW i \in 1..(Len(s) + Len(t)), NEW k \in 1..(Len(s) + Len(t)), i < k
               PROVE  (s \o t)[i] > (s \o t)[k]
    BY <1>0 DEF Descending
  <1>1. CASE k <= Len(s)
    <2>1. i \in 1..Len(s) /\ k \in 1..Len(s)
      BY SMTT(30), <1>0, <1>1
    <2>2. s[i] > s[k]
      BY <1>0, <2>1 DEF Descending
    <2> QED
      BY SMTT(30), <1>0, <2>1, <2>2
  <1>2. CASE i <= Len(s) /\ ~(k <= Len(s))
    <2>1. i \in 1..Len(s) /\ k - Len(s) \in 1..Len(t)
      BY SMTT(30), <1>0, <1>2
    <2>2. s[i] >= a /\ t[k - Len(s)] < a
      BY <1>0, <2>1
    <2> QED
      BY SMTT(30), <1>0, <1>2, <2>1, <2>2
  <1>3. CASE ~(i <= Len(s)) /\ ~(k <= Len(s))
    <2>1. /\ i - Len(s) \in 1..Len(t) /\ k - Len(s) \in 1..Len(t)
          /\ i - Len(s) < k - Len(s)
      BY SMTT(30), <1>0, <1>3
    <2>2. t[i - Len(s)] > t[k - Len(s)]
      BY <1>0, <2>1 DEF Descending
    <2> QED
      BY SMTT(30), <1>0, <1>3, <2>1, <2>2
  <1>4. k <= Len(s) \/ (i <= Len(s) /\ ~(k <= Len(s))) \/ (~(i <= Len(s)) /\ ~(k <= Len(s)))
    OBVIOUS
  <1> QED
    BY <1>1, <1>2, <1>3, <1>4

\* The elements of two lists one after the other.
LEMMA ConcatElements ==
  ASSUME NEW s \in Seq(Items), NEW t \in Seq(Items), NEW i \in DOMAIN (s \o t)
  PROVE  (\E k \in DOMAIN s : (s \o t)[i] = s[k]) \/ (\E k \in DOMAIN t : (s \o t)[i] = t[k])
  <1>1. /\ Len(s) \in Nat /\ Len(t) \in Nat /\ DOMAIN s = 1..Len(s) /\ DOMAIN t = 1..Len(t)
        /\ i \in 1..(Len(s) + Len(t))
        /\ (s \o t)[i] = IF i <= Len(s) THEN s[i] ELSE t[i - Len(s)]
    BY SMTT(30)
  <1>2. CASE i <= Len(s)
    <2>1. i \in DOMAIN s /\ (s \o t)[i] = s[i]
      BY SMTT(30), <1>1, <1>2
    <2> QED
      BY <2>1
  <1>3. CASE ~(i <= Len(s))
    <2>1. i - Len(s) \in DOMAIN t /\ (s \o t)[i] = t[i - Len(s)]
      BY SMTT(30), <1>1, <1>3
    <2> QED
      BY <2>1
  <1> QED
    BY <1>2, <1>3

\* A page that arrives is appended to results that come before it.
LEMMA AppendedPaged ==
  ASSUME HubTypeOK, SessType, Paged, NEW x \in Xhrs, XhrDone(x), xhr[x].q.type = "APPEND"
  PROVE  Paged'
  <1> USE DEF SessType
  <1> DEFINE p == xhr[x].page
             n == xhr[x].q.limit
             a == xhr[x].q.after
  <1>1. /\ p \in SUBSET Items /\ n \in Nat \ {0} /\ a \in Items \cup {0}
        /\ Appending(x)
    BY DEF XhrDone, XhrOK, XhrRec, QueryRec, Appending
  <1>2. /\ data' = data \o Sorted(p) /\ mixed' = mixed
        /\ cont' = IF Token(p, n) # 0 THEN Query("APPEND", PageSize, Token(p, n)) ELSE NoCont
    BY DEF XhrDone, SearchDone, Flagged
  <1>3. xhr'[x].at = "free" /\ \A y \in Xhrs \ {x} : xhr'[y] = xhr[y]
    BY ReleaseView DEF XhrDone
  <1> SUFFICES ASSUME ~mixed PROVE Paged'
    BY <1>2 DEF Paged
  <1>4. /\ Descending(data) /\ Before(a) /\ \A i \in p : i < a
        /\ \A y \in Xhrs : Appending(y) => y = x
    BY <1>1 DEF Paged
  <1> HIDE DEF p, n, a
  <1>5. \A y \in Xhrs : ~Appending(y)'
    BY <1>3, <1>4 DEF Appending
  <1>6. /\ Sorted(p) \in Seq(Items) /\ Descending(Sorted(p)) 
        /\ \A i \in DOMAIN Sorted(p) : Sorted(p)[i] \in p
    BY <1>1, SortedOK
  <1>7. a \in Nat /\ Items \subseteq Nat
    BY SMTT(30), <1>1, HubAssumption
  <1>8. Descending(data')
    BY <1>2, <1>4, <1>6, <1>7, ConcatDescending DEF Before
  <1>9. ASSUME cont' # NoCont PROVE Before(cont.after)'
    <2>1. Token(p, n) # 0 /\ cont' = Query("APPEND", PageSize, Token(p, n))
      BY <1>2, <1>9
    <2>2. Token(p, n) \in p /\ \A k \in p : Token(p, n) <= k
      BY <1>1, <2>1, TokenOK
    <2>3. cont'.after = Token(p, n)
      BY <1>1, <2>1, <2>2, QueriesOK
    <2>4. p \subseteq Nat /\ Token(p, n) < a
      BY <1>1, <1>4, <2>2, HubAssumption
    <2>5. \A k \in p : k >= Token(p, n)
      BY SMTT(30), <2>2, <2>4
    <2>a. Token(p, n) \in Nat
      BY <2>2, <2>4
    <2>6. \A k \in Items : k >= a => k >= Token(p, n)
      BY SMTT(30), <1>7, <2>a, <2>4
    <2>7. \A i \in DOMAIN data : data[i] \in Items
      BY SMTT(30)
    <2>8. ASSUME NEW i \in DOMAIN data' PROVE data'[i] >= Token(p, n)
      <3>1. \/ \E k \in DOMAIN data : data'[i] = data[k]
            \/ \E k \in DOMAIN Sorted(p) : data'[i] = Sorted(p)[k]
        BY <1>2, <1>6, <2>8, ConcatElements
      <3> QED
        BY <1>4, <1>6, <2>5, <2>6, <2>7, <3>1 DEF Before
    <2> QED
      BY <2>1, <2>3, <2>8 DEF Before
  <1> QED
    BY <1>5, <1>8, <1>9 DEF Paged

LEMMA PagedStep ==
  ASSUME HubTypeOK, SessType, Paged, [Next]_vars
  PROVE  Paged'
  <1> USE DEF SessType
  <1>1. ASSUME UNCHANGED <<mixed, data, cont, xhr>> PROVE Paged'
    BY <1>1 DEF Paged, Before, Appending
  <1>2. ASSUME (ServerNext /\ UNCHANGED <<xhr, sessVars>>) \/ Close \/ FirstMessage \/ Break
               \/ SocketError \/ UNCHANGED vars
        PROVE  Paged'
    BY <1>1, <1>2 DEF sessVars, vars, Close, FirstMessage, Break, SocketError
  <1>3. ASSUME LoadMore PROVE Paged'
    <2>1. UNCHANGED <<data, mixed>> /\ cont' = NoCont /\ cont # NoCont
      BY <1>3 DEF LoadMore
    <2>2. cont \in QueryRec /\ cont.type = "APPEND" /\ cont.limit # 0
      BY <2>1, ContView
    <2>3. cont.type # None
      BY <2>2 DEF None
    <2>4. PICK x \in Xhrs :
            /\ xhr'[x].at = "sent" /\ xhr'[x].q = cont /\ xhr'[x].page = {}
            /\ \A y \in Xhrs \ {x} : xhr'[y] = xhr[y]
      BY <1>3, <2>2, <2>3, SearchView DEF LoadMore
    <2> SUFFICES ASSUME ~mixed PROVE Paged'
      BY <2>1 DEF Paged
    <2>5. Descending(data) /\ Before(cont.after) /\ \A y \in Xhrs : ~Appending(y)
      BY <2>1 DEF Paged
    <2>6. \A y \in Xhrs : Appending(y)' => y = x
      BY <2>4, <2>5 DEF Appending
    <2>7. Before(xhr[x].q.after)' /\ \A i \in xhr'[x].page : i < xhr'[x].q.after
      BY <2>1, <2>4, <2>5 DEF Before
    <2> QED
      BY <2>1, <2>5, <2>6, <2>7 DEF Paged
  <1>4. ASSUME Refresh PROVE Paged'
    <2> DEFINE n == MaxOf(Len(data), PageSize)
    <2>1. n \in Nat /\ n # 0 /\ "UPDATE" \in {"NEW", "UPDATE"}
      BY MaxOfOK
    <2>2. Search(Query("UPDATE", n, 0)) /\ data' = <<>> /\ cont' = NoCont
      BY <1>4 DEF Refresh
    <2> HIDE DEF n
    <2>3. /\ Query("UPDATE", n, 0) \in QueryRec /\ Query("UPDATE", n, 0).limit = n
          /\ Query("UPDATE", n, 0).type = "UPDATE"
      BY <2>1, QueriesOK
    <2>4. Query("UPDATE", n, 0).limit # 0 /\ Query("UPDATE", n, 0).type # None
      BY <2>1, <2>3 DEF None
    <2>5. PICK x \in Xhrs :
            /\ xhr'[x].at = "sent" /\ xhr'[x].q = Query("UPDATE", n, 0) /\ xhr'[x].page = {}
            /\ \A y \in Xhrs \ {x} : xhr'[y] = xhr[y]
      BY <2>2, <2>3, <2>4, SearchView
    <2>6. ~mixed' => \A y \in Xhrs : ~Appending(y)
      BY <1>4, UnderWayView DEF Refresh, Flagged
    <2>7. ~mixed' => \A y \in Xhrs : ~Appending(y)'
      BY <2>3, <2>5, <2>6 DEF Appending
    <2> QED
      BY <2>2, <2>7, ClearedPaged
  <1>5. ASSUME NEW x \in Xhrs, Serve(x) PROVE Paged'
    <2>1. UNCHANGED <<mixed, data, cont>>
      BY <1>5 DEF Serve, sessVars
    <2>2. /\ xhr[x].at = "sent" /\ xhr'[x].at = "ok" /\ xhr'[x].q = xhr[x].q
          /\ xhr'[x].page = Page(xhr[x].q.limit, xhr[x].q.after)
          /\ \A y \in Xhrs \ {x} : xhr'[y] = xhr[y]
      BY <1>5, ServeView
    <2>3. \A y \in Xhrs : Appending(y)' <=> Appending(y)
      BY <2>2 DEF Appending
    <2>4. xhr[x].q.after # 0 => \A i \in xhr'[x].page : i < xhr[x].q.after
      BY <2>2 DEF Page, After
    <2> QED
      BY <2>1, <2>2, <2>3, <2>4 DEF Paged, Before
  <1>6. ASSUME NEW x \in Xhrs, ServeFails(x) PROVE Paged'
    <2>1. UNCHANGED <<mixed, data, cont>>
      BY <1>6 DEF ServeFails, sessVars
    <2>2. /\ xhr[x].at = "sent" /\ xhr'[x].at # "free" /\ xhr'[x].q = xhr[x].q
          /\ xhr'[x].page = {}
          /\ \A y \in Xhrs \ {x} : xhr'[y] = xhr[y]
      BY <1>6, FailView
    <2>3. \A y \in Xhrs : Appending(y)' <=> Appending(y)
      BY <2>2 DEF Appending
    <2> QED
      BY <2>1, <2>2, <2>3 DEF Paged, Before
  <1>7. ASSUME NEW x \in Xhrs, Release(x)
        PROVE  \A y \in Xhrs : Appending(y)' => Appending(y) /\ xhr'[y] = xhr[y]
    BY <1>7, ReleaseView DEF Appending
  <1>8. ASSUME NEW x \in Xhrs, XhrDone(x) PROVE Paged'
    <2>1. CASE xhr[x].q.type = "APPEND"
      BY <1>8, <2>1, AppendedPaged
    <2>2. CASE xhr[x].q.type # "APPEND"
      <3>1. xhr[x].page \in SUBSET Items /\ xhr[x].q.limit \in Nat \ {0}
        BY <1>8 DEF XhrDone, XhrOK, XhrRec, QueryRec
      <3> QED
        BY <1>7, <1>8, <2>2, <3>1, ReplacedPaged DEF XhrDone
    <2> QED
      BY <2>1, <2>2
  <1>9. ASSUME NEW x \in Xhrs, XhrGarbled(x) PROVE Paged'
    <2>1. data' = <<>> /\ cont' = NoCont
      BY <1>9, EmptyDoneOK DEF XhrGarbled
    <2>2. ~mixed' => \A y \in Xhrs : ~Appending(y)'
      BY <1>7, <1>9, UnderWayView DEF XhrGarbled, SearchDone
    <2> QED
      BY <2>1, <2>2, ClearedPaged
  <1>10. ASSUME NEW x \in Xhrs, XhrDropped(x) PROVE Paged'
    <2>1. UNCHANGED <<mixed, data, cont>>
      BY <1>10 DEF XhrDropped, sessVars
    <2>2. \A y \in Xhrs : Appending(y)' => Appending(y) /\ xhr'[y] = xhr[y]
      BY <1>7, <1>10 DEF XhrDropped
    <2> QED
      BY <2>1, <2>2 DEF Paged, Before
  <1>11. ASSUME Message PROVE Paged'
    <2>1. CASE UNCHANGED <<data, cont, mixed>>
      BY <1>1, <1>11, <2>1 DEF Message
    <2>2. CASE SearchDone("UPDATE", Sorted(Head(send[sock]).page),
                          Token(Head(send[sock]).page, limit[sock]))
      <3>1. sock \in Conns /\ send[sock] # <<>> /\ xhr' = xhr
        BY <1>11 DEF Message, Deliver, SockOK
      <3>2. Head(send[sock]) \in Messages
        BY <3>1, InTail DEF HubTypeOK, RunType
      <3>3. Head(send[sock]).page \in SUBSET Items /\ limit[sock] \in Nat \ {0}
        BY <1>11, <3>1, <3>2, MessagesOK DEF Message, Watched
      <3>4. \A y \in Xhrs : Appending(y)' => Appending(y)
        BY <3>1 DEF Appending
      <3> QED
        BY <2>2, <3>3, <3>4, ReplacedPaged
    <2> QED
      BY <1>11, <2>1, <2>2 DEF Message
  <1> QED
    BY <1>2, <1>3, <1>4, <1>5, <1>6, <1>8, <1>9, <1>10, <1>11 DEF Next, SessionNext, Answering
-----------------------------------------------------------------------------
(***************************************************************************)
(* Results of the socket.                                                  *)
(***************************************************************************)

\* The last result in a channel is p; there is none.
LastIs(s, p) ==
    \E i \in 1..Len(s) : s[i] = Result(p) /\ \A j \in 1..Len(s) : i < j => s[j].kind # "result"
NoResult(s) == \A i \in 1..Len(s) : s[i].kind # "result"

Shown ==
    sock # 0 /\ link[sock] = "up" =>
        \/ told[sock] = {}
        \/ \E p \in SUBSET Items :
            /\ told[sock] = {p}
            /\ \/ LastIs(send[sock], p)
               \/ /\ NoResult(send[sock])
                  /\ gap \/ (~first /\ ~undef /\ data = Sorted(p))

\* What a message that is put into a channel does to them.
LEMMA AppendView ==
  ASSUME NEW s \in Seq(Messages), NEW m \in Messages
  PROVE  /\ \A p : m = Result(p) => LastIs(Append(s, m), p)
         /\ m.kind # "result" => /\ \A p : LastIs(s, p) => LastIs(Append(s, m), p)
                                 /\ NoResult(s) => NoResult(Append(s, m))
  <1>1. /\ Len(s) \in Nat /\ Len(Append(s, m)) = Len(s) + 1
        /\ Append(s, m)[Len(s) + 1] = m
        /\ \A i \in 1..Len(s) : Append(s, m)[i] = s[i]
    BY SMTT(30)
  <1> DEFINE t == Append(s, m)
  <1> HIDE DEF t
  <1>2. /\ Len(t) \in 1..Len(t) /\ t[Len(t)] = m
        /\ \A i \in 1..Len(t) : i = Len(t) \/ (i \in 1..Len(s) /\ t[i] = s[i])
        /\ \A i \in 1..Len(s) : i \in 1..Len(t) /\ t[i] = s[i]
        /\ \A i \in 1..Len(t) : ~(Len(t) < i)
    BY SMTT(30), <1>1 DEF t
  <1>3. ASSUME NEW p, m = Result(p) PROVE LastIs(t, p)
    BY <1>2, <1>3 DEF LastIs
  <1>4. ASSUME NEW p, m.kind # "result", LastIs(s, p) PROVE LastIs(t, p)
    <2>1. PICK i \in 1..Len(s) :
            s[i] = Result(p) /\ \A j \in 1..Len(s) : i < j => s[j].kind # "result"
      BY <1>4 DEF LastIs
    <2>2. i \in 1..Len(t) /\ t[i] = Result(p)
      BY <1>2, <2>1
    <2>3. ASSUME NEW j \in 1..Len(t), i < j PROVE t[j].kind # "result"
      BY <1>2, <1>4, <2>1, <2>3
    <2> QED
      BY <2>2, <2>3 DEF LastIs
  <1>5. ASSUME m.kind # "result", NoResult(s) PROVE NoResult(t)
    BY <1>2, <1>5 DEF NoResult
  <1> QED
    BY <1>3, <1>4, <1>5 DEF t

\* What a message that is taken from a channel does to them.
LEMMA TailView ==
  ASSUME NEW s \in Seq(Messages), s # <<>>
  PROVE  /\ \A p : LastIs(s, p) => \/ LastIs(Tail(s), p)
                                   \/ Head(s) = Result(p) /\ NoResult(Tail(s))
         /\ NoResult(s) => Head(s).kind # "result" /\ NoResult(Tail(s))
  <1>1. /\ Len(s) \in Nat \ {0} /\ Len(Tail(s)) = Len(s) - 1 /\ Head(s) = s[1]
        /\ \A i \in 1..Len(Tail(s)) : Tail(s)[i] = s[i + 1]
    BY SMTT(30)
  <1> DEFINE t == Tail(s)
  <1> HIDE DEF t
  <1>2. /\ \A i \in 1..Len(t) : i + 1 \in 1..Len(s) /\ t[i] = s[i + 1] /\ 1 < i + 1
        /\ \A i \in 1..Len(s) : i = 1 \/ (i - 1 \in 1..Len(t) /\ t[i - 1] = s[i])
        /\ \A i \in 1..Len(s), j \in 1..Len(t) : i - 1 < j => i < j + 1
        /\ 1 \in 1..Len(s)
    BY SMTT(30), <1>1 DEF t
  <1>3. ASSUME NEW p, LastIs(s, p)
        PROVE  LastIs(t, p) \/ (Head(s) = Result(p) /\ NoResult(t))
    <2>1. PICK i \in 1..Len(s) :
            s[i] = Result(p) /\ \A j \in 1..Len(s) : i < j => s[j].kind # "result"
      BY <1>3 DEF LastIs
    <2>2. CASE i = 1
      <3>1. ASSUME NEW j \in 1..Len(t) PROVE t[j].kind # "result"
        <4>1. j + 1 \in 1..Len(s) /\ t[j] = s[j + 1] /\ i < j + 1
          BY <1>2, <2>2
        <4> QED
          BY <2>1, <4>1
      <3> QED
        BY <1>1, <2>1, <2>2, <3>1 DEF NoResult
    <2>3. CASE i # 1
      <3>1. i - 1 \in 1..Len(t) /\ t[i - 1] = Result(p)
        BY <1>2, <2>1, <2>3
      <3>2. ASSUME NEW j \in 1..Len(t), i - 1 < j PROVE t[j].kind # "result"
        BY <1>2, <2>1, <3>2
      <3> QED
        BY <3>1, <3>2 DEF LastIs
    <2> QED
      BY <2>2, <2>3
  <1>4. ASSUME NoResult(s) PROVE Head(s).kind # "result" /\ NoResult(t)
    BY <1>1, <1>2, <1>4 DEF NoResult
  <1> QED
    BY <1>3, <1>4 DEF t

\* The page of a message that is a result.
LEMMA ResultView ==
  ASSUME NEW m \in Messages, m.kind = "result"
  PROVE  m = Result(m.page) /\ m.page \in SUBSET Items
  <1>1. Empty.kind = "empty" /\ Status.kind = "status" /\ \A p : Result(p).page = p
    BY DEF Empty, Status, Result
  <1> QED
    BY <1>1 DEF Messages

LEMMA ResultFields == \A p : Result(p).kind = "result" /\ Result(p).page = p
  BY DEF Result

\* What a step of the server does to the channel of an open connection: run
\* appends a message, and knows the last result that it has appended.
Appended(c) ==
    \E m \in Messages :
        /\ send'[c] = Append(send[c], m)
        /\ told'[c] = IF m.kind = "result" THEN {m.page} ELSE told[c]

LEMMA SendFrame ==
  ASSUME RunType, NEW c \in Conns, NEW d \in Conns, NEW m \in Messages, Send(d, m)
  PROVE  (send'[c] = send[c] /\ told'[c] = told[c]) \/ Appended(c)
  <1>1. CASE Len(send[d]) < SendCap /\ c = d
    <2>1. send'[c] = Append(send[c], m)
      BY <1>1 DEF Send, RunType
    <2>2. told'[c] = IF m.kind = "result" THEN {m.page} ELSE told[c]
      BY <1>1 DEF Send, RunType
    <2> QED
      BY <2>1, <2>2 DEF Appended
  <1>2. CASE ~(Len(send[d]) < SendCap) \/ c # d
    BY <1>2 DEF Send, RunType
  <1> QED
    BY <1>1, <1>2

LEMMA ServerSends ==
  ASSUME HubTypeOK, ServerNext, NEW c \in Conns, link[c] = "up"
  PROVE  (send'[c] = send[c] /\ told'[c] = told[c]) \/ Appended(c)
  <1> USE DEF HubTypeOK
  <1>1. ASSUME UNCHANGED <<send, told>> PROVE send'[c] = send[c] /\ told'[c] = told[c]
    BY <1>1
  <1>2. ASSUME (\E t \in Types : Upload(t)) \/ UploadIndexed \/ Listening \/ HubStatus
               \/ HubNewBlob \/ HubWatch \/ SyncIndexes \/ \E t \in Types : ListenSkips(t)
        PROVE  UNCHANGED <<send, told>>
    BY <1>2 DEF Upload, UploadIndexed, Listening, ListenerSends, Listen, HubStatus,
                HubNewBlob, HubWatch, SyncIndexes, ListenSkips
  <1>3. ASSUME NEW d \in Conns, Searching(d) \/ ReadMessage(d)
               \/ \E k \in Jobs : SearchFails(d, k)
        PROVE  UNCHANGED <<send, told>>
    BY <1>3 DEF Searching, RedoLocks, RedoChecks, DoSearch, StoreResult, Announce,
                ReadMessage, SearchFails
  <1>4. ASSUME NEW d \in Conns, HubRegister(d)
        PROVE  (send'[c] = send[c] /\ told'[c] = told[c]) \/ Appended(c)
    <2>1. last \in Messages /\ Send(d, last)
      BY <1>4, MessagesOK DEF HubRegister, RunType
    <2> QED
      BY <1>4, <2>1, SendFrame
  <1>5. ASSUME NEW d \in Conns, HubUnregister(d) \/ WriterEnds(d)
        PROVE  send'[c] = send[c] /\ told'[c] = told[c]
    <2>1. c # d
      BY <1>5 DEF HubUnregister, WriterEnds
    <2> QED
      BY <1>5, <2>1 DEF HubUnregister, WriterEnds, RunType
  <1>6. ASSUME HubUpdated
        PROVE  (send'[c] = send[c] /\ told'[c] = told[c]) \/ Appended(c)
    <2>1. Head(updated) \in Conns
      BY <1>6, InTail DEF HubUpdated, RunType
    <2>2. Result(UNION lastres[Head(updated)]) \in Messages
      BY <2>1, MessagesOK DEF QueryType
    <2> QED
      BY <1>6, <2>1, <2>2, SendFrame DEF HubUpdated
  <1>7. ASSUME NEW d \in Conns, HubSend(d)
        PROVE  (send'[c] = send[c] /\ told'[c] = told[c]) \/ Appended(c)
    <2>1. msg \in Messages
      BY DEF RunType
    <2>2. CASE c = d
      <3>1. send'[c] = Append(send[c], msg)
        BY <1>7, <2>2 DEF HubSend, RunType
      <3>2. told'[c] = IF msg.kind = "result" THEN {msg.page} ELSE told[c]
        BY <1>7, <2>2 DEF HubSend, RunType
      <3> QED
        BY <2>1, <3>1, <3>2 DEF Appended
    <2>3. CASE c # d
      BY <1>7, <2>3 DEF HubSend, RunType
    <2> QED
      BY <2>2, <2>3
  <1> QED
    BY <1>1, <1>2, <1>3, <1>4, <1>5, <1>6, <1>7 DEF ServerNext, Selecting, Pumping

\* A result that run sends is the last in the channel, anything else changes
\* nothing.
LEMMA ServerShown ==
  ASSUME HubTypeOK, SessType, Shown, ServerNext, UNCHANGED <<xhr, sessVars>>
  PROVE  Shown'
  <1> SUFFICES ASSUME sock # 0, link'[sock] = "up" PROVE Shown'
    BY DEF Shown, sessVars
  <1> USE DEF SessType
  <1>1. sock \in Conns
    BY DEF SockOK
  <1>2. UNCHANGED <<sock, gap, first, undef, data>>
    BY DEF sessVars
  <1>3. link' = link
    BY ServerFrame
  <1>4. CASE send'[sock] = send[sock] /\ told'[sock] = told[sock]
    BY <1>2, <1>3, <1>4 DEF Shown
  <1>5. CASE Appended(sock)
    <2>1. PICK m \in Messages :
            /\ send'[sock] = Append(send[sock], m)
            /\ told'[sock] = IF m.kind = "result" THEN {m.page} ELSE told[sock]
      BY <1>5 DEF Appended
    <2>2. send[sock] \in Seq(Messages)
      BY <1>1 DEF HubTypeOK, RunType
    <2>3. CASE m.kind = "result"
      <3>1. m = Result(m.page) /\ m.page \in SUBSET Items
        BY <2>3, ResultView
      <3>2. LastIs(send'[sock], m.page)
        BY <2>1, <2>2, <3>1, AppendView
      <3> QED
        BY <1>2, <2>1, <2>3, <3>1, <3>2 DEF Shown
    <2>4. CASE m.kind # "result"
      <3>1. /\ \A p : LastIs(send[sock], p) => LastIs(send'[sock], p)
            /\ NoResult(send[sock]) => NoResult(send'[sock])
        BY <2>1, <2>2, <2>4, AppendView
      <3>2. told'[sock] = told[sock]
        BY <2>1, <2>4
      <3> QED
        BY <1>2, <1>3, <3>1, <3>2 DEF Shown
    <2> QED
      BY <2>3, <2>4
  <1> QED
    BY <1>1, <1>3, <1>4, <1>5, ServerSends

\* The first message is ignored; if it is a result, that is remembered.
LEMMA FirstShown ==
  ASSUME HubTypeOK, SessType, Shown, FirstMessage
  PROVE  Shown'
  <1> USE DEF SessType
  <1>1. /\ sock \in Conns /\ send[sock] # <<>> /\ send' = [send EXCEPT ![sock] = Tail(@)]
        /\ first /\ UNCHANGED <<told, link, data, undef, sock>>
    BY DEF FirstMessage, Deliver, SockOK
  <1>2. send[sock] \in Seq(Messages) /\ send'[sock] = Tail(send[sock])
    BY <1>1 DEF HubTypeOK, RunType
  <1> SUFFICES ASSUME sock # 0, link[sock] = "up" PROVE Shown'
    BY <1>1 DEF Shown
  <1>3. gap' \in BOOLEAN /\ (gap \/ Head(send[sock]).kind = "result" => gap')
    BY DEF FirstMessage, Flagged
  <1>4. CASE told[sock] = {}
    BY <1>1, <1>4 DEF Shown
  <1>5. CASE told[sock] # {}
    <2>1. PICK p \in SUBSET Items :
            told[sock] = {p} /\ (LastIs(send[sock], p) \/ (NoResult(send[sock]) /\ gap))
      BY <1>1, <1>5 DEF Shown
    <2>2. CASE LastIs(send'[sock], p)
      BY <1>1, <2>1, <2>2 DEF Shown
    <2>3. CASE ~LastIs(send'[sock], p)
      <3>1. CASE LastIs(send[sock], p)
        <4>1. Head(send[sock]) = Result(p) /\ NoResult(send'[sock])
          BY <1>1, <1>2, <2>3, <3>1, TailView
        <4>2. gap'
          BY <1>3, <4>1, ResultFields
        <4> QED
          BY <1>1, <2>1, <4>1, <4>2 DEF Shown
      <3>2. CASE NoResult(send[sock]) /\ gap
        <4>1. NoResult(send'[sock])
          BY <1>1, <1>2, <3>2, TailView
        <4> QED
          BY <1>1, <1>3, <2>1, <3>2, <4>1 DEF Shown
      <3> QED
        BY <2>1, <3>1, <3>2
    <2> QED
      BY <2>2, <2>3
  <1> QED
    BY <1>4, <1>5

\* A result that arrives is what data_ has; the last one stays so.
LEMMA MessageShown ==
  ASSUME HubTypeOK, SessType, Shown, Message
  PROVE  Shown'
  <1> USE DEF SessType
  <1> DEFINE m == Head(send[sock])
  <1>1. /\ sock \in Conns /\ send[sock] # <<>> /\ send' = [send EXCEPT ![sock] = Tail(@)]
        /\ ~first /\ UNCHANGED <<told, link, first, sock>>
    BY DEF Message, Deliver, SockOK
  <1>2. send[sock] \in Seq(Messages) /\ send'[sock] = Tail(send[sock])
    BY <1>1 DEF HubTypeOK, RunType
  <1>3. m.kind = "result" => data' = Sorted(m.page) /\ undef' = FALSE
    BY DEF Message, SearchDone
  <1>4. m.kind # "result" => data' = data /\ undef' = undef /\ gap' = gap
    BY DEF Message
  <1> HIDE DEF m
  <1> SUFFICES ASSUME sock # 0, link[sock] = "up" PROVE Shown'
    BY <1>1 DEF Shown
  <1>5. CASE told[sock] = {}
    BY <1>1, <1>5 DEF Shown
  <1>6. CASE told[sock] # {}
    <2>1. PICK p \in SUBSET Items :
            /\ told[sock] = {p}
            /\ \/ LastIs(send[sock], p)
               \/ NoResult(send[sock]) /\ (gap \/ (~undef /\ data = Sorted(p)))
      BY <1>6 DEF Shown
    <2>2. CASE LastIs(send[sock], p)
      <3>1. CASE LastIs(Tail(send[sock]), p)
        BY <1>1, <1>2, <2>1, <3>1 DEF Shown
      <3>2. CASE m = Result(p) /\ NoResult(Tail(send[sock]))
        <4>1. data' = Sorted(p) /\ undef' = FALSE
          BY <1>3, <3>2, ResultFields
        <4> QED
          BY <1>1, <1>2, <2>1, <3>2, <4>1 DEF Shown
      <3> QED
        BY <1>1, <1>2, <2>2, <3>1, <3>2, TailView DEF m
    <2>3. CASE NoResult(send[sock]) /\ (gap \/ (~undef /\ data = Sorted(p)))
      <3>1. m.kind # "result" /\ NoResult(Tail(send[sock]))
        BY <1>1, <1>2, <2>3, TailView DEF m
      <3>2. gap' \/ (~undef' /\ data' = Sorted(p))
        BY <1>4, <2>3, <3>1
      <3> QED
        BY <1>1, <1>2, <2>1, <3>1, <3>2 DEF Shown
    <2> QED
      BY <2>1, <2>2, <2>3
  <1> QED
    BY <1>5, <1>6

\* What an XHR brings goes with a new socket, for which nothing was sent yet,
\* or comes before the first result of the socket, or is remembered as a gap.
LEMMA DoneShown ==
  ASSUME HubInv, SessType, Shown, NEW x \in Xhrs, XhrDone(x) \/ XhrGarbled(x)
  PROVE  Shown'
  <1> USE DEF SessType
  <1>1. CASE StartSocket
    <2>1. data' \in Seq(Items)
      BY DoneType DEF HubInv
    <2>2. sock' \in Conns /\ cst[sock'] = "none" /\ told' = told
      BY <1>1, <2>1, StartView
    <2>3. New(sock')
      BY <2>2 DEF HubInv, Life, New
    <2>4. told[sock'] = {}
      BY <2>2, <2>3 DEF HubInv, Unsubscribed
    <2> QED
      BY <2>2, <2>4 DEF Shown
  <1>2. CASE ~StartSocket
    <2>1. UNCHANGED <<hubVars, sock, first>>
      BY <1>2 DEF XhrDone, XhrGarbled
    <2>2. UNCHANGED <<told, send, link, sock, first>>
      BY <2>1 DEF hubVars
    <2>a. CASE gap'
      BY <2>2, <2>a DEF Shown
    <2> SUFFICES ASSUME sock # 0, ~gap', link[sock] = "up" PROVE Shown'
      BY <2>2, <2>a DEF Shown
    <2>b. hasWS
      BY DEF Watched
    <2>3. hasWS /\ ~gap
      BY <1>2, <2>b DEF XhrDone, XhrGarbled, Flagged
    <2>4. CASE first
      <3>1. told[sock] = {} \/ \E p \in SUBSET Items : told[sock] = {p} /\ LastIs(send[sock], p)
        BY <2>3, <2>4 DEF Shown
      <3> QED
        BY <2>2, <3>1 DEF Shown
    <2>5. CASE ~first
      <3>1. xhr[x].q.type # "NEW" /\ xhr[x].q.type # "UPDATE"
        BY <1>2, <2>3, <2>5 DEF XhrDone, XhrGarbled, Starts
      <3>2. xhr[x].q.type = "APPEND"
        BY <3>1 DEF XhrDone, XhrGarbled, XhrOK, XhrRec, QueryRec
      <3>3. XhrDone(x)
        BY <3>2 DEF XhrGarbled
      <3>4. Sorted(xhr[x].page) = <<>>
        BY <1>2, <2>3, <3>2, <3>3 DEF XhrDone, Starts
      <3>5. data' = data \o <<>> /\ undef' = FALSE
        BY <3>2, <3>3, <3>4 DEF XhrDone, SearchDone
      <3>6. data' = data
        BY SMTT(30), <3>5
      <3> QED
        BY <2>2, <2>3, <3>5, <3>6 DEF Shown
    <2> QED
      BY <2>4, <2>5
  <1> QED
    BY <1>1, <1>2

LEMMA ShownStep ==
  ASSUME HubInv, SessType, Shown, [Next]_vars
  PROVE  Shown'
  <1>0. HubTypeOK
    BY DEF HubInv
  <1>1. ASSUME ServerNext, UNCHANGED <<xhr, sessVars>> PROVE Shown'
    BY <1>0, <1>1, ServerShown
  <1>2. ASSUME UNCHANGED <<told, send, link, sock, gap, first, undef, data>> PROVE Shown'
    BY <1>2 DEF Shown
  <1>3. ASSUME LoadMore \/ SocketError \/ UNCHANGED vars PROVE Shown'
    BY <1>2, <1>3 DEF LoadMore, SocketError, vars, hubVars, sessVars
  <1>4. ASSUME NEW x \in Xhrs, Serve(x) \/ ServeFails(x) \/ XhrDropped(x) PROVE Shown'
    BY <1>2, <1>4 DEF Serve, ServeFails, XhrDropped, hubVars, sessVars
  <1>5. ASSUME Refresh PROVE Shown'
    <2>1. UNCHANGED <<told, send, link, sock, gap, first, undef>>
      BY <1>5 DEF Refresh, hubVars
    <2>2. sock = 0 \/ first
      BY <1>5 DEF Refresh, SessType, Watched
    <2> QED
      BY <2>1, <2>2 DEF Shown
  <1>6. ASSUME sock # 0, Drop(sock), sock' = sock PROVE Shown'
    <2>1. link'[sock] = "down"
      BY <1>0, <1>6 DEF Drop, SessType, SockOK, HubTypeOK, PumpType
    <2> QED
      BY <1>6, <2>1 DEF Shown
  <1>7. ASSUME Close \/ Break PROVE Shown'
    BY <1>2, <1>6, <1>7 DEF Close, Break, hubVars, sessVars
  <1>8. ASSUME FirstMessage \/ Message PROVE Shown'
    BY <1>0, <1>8, FirstShown, MessageShown
  <1>9. ASSUME NEW x \in Xhrs, XhrDone(x) \/ XhrGarbled(x) PROVE Shown'
    BY <1>9, DoneShown
  <1> QED
    BY <1>1, <1>3, <1>4, <1>5, <1>7, <1>8, <1>9 DEF Next, SessionNext, Answering
-----------------------------------------------------------------------------
\* The inductive invariant of the session.
SessInv == SessType /\ Paged /\ Shown

LEMMA SessInit == Init => SessInv
  <1> SUFFICES ASSUME Init PROVE SessInv
    OBVIOUS
  <1>1. limit \in [Conns -> Nat] /\ left \in [Kinds -> Nat]
    BY SMTT(30), HubAssumption DEF Init, HubInit
  <1>2. data \in Seq(Items) /\ DOMAIN data = {}
    BY SMTT(30) DEF Init
  <1>3. SockOK /\ ContOK /\ Watched /\ Flagged
    BY DEF Init, SockOK, ContOK, Watched, Flagged
  <1>4. PageSize \in Nat /\ PageSize # 0 /\ "NEW" \in {"NEW", "UPDATE"}
    BY SessionAssumption
  <1> DEFINE q == Query("NEW", PageSize, 0)
  <1>5. q \in QueryRec /\ q.limit = PageSize /\ q.type = "NEW"
    BY <1>4, QueriesOK
  <1>6. \A x \in Xhrs : xhr[x] = Asking(q) \/ xhr[x] = Free
    BY DEF Init
  <1>7. xhr = [x \in Xhrs |-> xhr[x]]
    BY DEF Init
  <1> HIDE DEF q
  <1>8. Free.at = "free" /\ Free \in XhrRec
    BY SMTT(30) DEF Free, XhrRec, QueryRec, NoCont, Query
  <1>9. Asking(q).q = q /\ Asking(q) \in XhrRec
    BY <1>5 DEF Asking, XhrRec
  <1>10. XhrOK
    <2>1. \A x \in Xhrs : xhr[x] \in XhrRec
      BY <1>6, <1>8, <1>9
    <2>2. xhr \in [Xhrs -> XhrRec]
      BY <1>7, <2>1
    <2>3. \A x \in Xhrs : xhr[x].at # "free" => xhr[x].q = q
      BY <1>6, <1>8, <1>9
    <2> QED
      BY <1>4, <1>5, <2>2, <2>3 DEF XhrOK, None
  <1>11. \A x \in Xhrs : ~Appending(x)
    BY <1>5, <1>6, <1>8, <1>9 DEF Appending
  <1>12. Paged
    BY <1>2, <1>11 DEF Paged, Descending, Init
  <1>13. Shown
    BY DEF Shown, Init
  <1> QED
    BY <1>1, <1>2, <1>3, <1>10, <1>12, <1>13 DEF SessInv, SessType

\* Every step of the session, of its XHRs and of the hub preserves it.
THEOREM SessionInvariance == Spec => [](HubInv /\ SessInv)
  <1>1. HubInv /\ SessInv /\ [Next]_vars => SessInv'
    <2> SUFFICES ASSUME HubInv, SessInv, [Next]_vars PROVE SessInv'
      OBVIOUS
    <2>1. HubTypeOK
      BY DEF HubInv
    <2> QED
      BY <2>1, SessTypeStep, PagedStep, ShownStep DEF SessInv
  <1>2. Spec => []HubInv
    BY SessionImplementsHub, HubInvariance, PTL
  <1> QED
    BY <1>1, <1>2, SessInit, PTL DEF Spec

\* Type correctness of the composition of session and hub.
THEOREM SessionTypeCorrect == Spec => []TypeOK
  <1>1. HubInv /\ SessInv => TypeOK
    <2> SUFFICES ASSUME HubInv, SessInv PROVE TypeOK
      OBVIOUS
    <2>1. cont \in [type : {None, "APPEND"}, limit : {0, PageSize}, after : Items \cup {0}]
      <3>1. NoCont \in [type : {None, "APPEND"}, limit : {0, PageSize}, after : Items \cup {0}]
        BY DEF NoCont, Query
      <3>2. \A t \in Items : Query("APPEND", PageSize, t) \in
              [type : {None, "APPEND"}, limit : {0, PageSize}, after : Items \cup {0}]
        BY DEF Query
      <3> QED
        BY <3>1, <3>2 DEF SessInv, SessType, ContOK
    <2>2. xhr \in [Xhrs -> [at : {"free", "sent", "ok", "refused", "garbled"},
                            q : [type : {None, "NEW", "APPEND", "UPDATE"}, limit : Nat,
                                 after : Items \cup {0}],
                            page : SUBSET Items]]
      BY DEF SessInv, SessType, XhrOK, XhrRec, QueryRec
    <2> QED
      BY <2>1, <2>2 DEF TypeOK, HubInv, SessInv, SessType, SockOK, Flagged
  <1> QED
    BY <1>1, SessionInvariance, PTL

\* "multiple calls for the same page will be collapsed": no result is in data_
\* twice or out of order, whatever XHRs, sockets and uploads do, unless data_
\* was replaced while a page was being loaded.
THEOREM PagesInOrder == Spec => []PagesCollapsed
  <1>1. SessInv => PagesCollapsed
    BY DEF SessInv, Paged, PagesCollapsed
  <1> QED
    BY <1>1, SessionInvariance, PTL

\* From the index through the hub and the socket to the list that is shown: once
\* nothing is left to do, the session has what the index has, up to the cases
\* that SessionFresh names.
THEOREM SessionShowsIndex == Spec => []SessionFresh
  <1>1. HubInv /\ SessInv => SessionFresh
    <2> SUFFICES ASSUME HubInv, SessInv, sock # 0, ~gap, link[sock] # "down", Quiet(sock),
                        send[sock] = <<>>, ~crossed[sock], ~failed[sock]
                 PROVE  ~undef /\ data = Sorted(Page(limit[sock], 0))
      BY DEF SessionFresh
    <2>1. sock \in Conns
      BY DEF SessInv, SessType, SockOK
    <2>2. link[sock] = "up"
      BY <2>1 DEF HubInv, HubTypeOK, PumpType
    <2>3. told[sock] = {Page(limit[sock], 0)}
      BY <2>1, InvIsEnough DEF HubFresh
    <2>4. \A p : ~LastIs(send[sock], p)
      BY SMTT(30) DEF LastIs
    <2>5. PICK p \in SUBSET Items : told[sock] = {p} /\ ~undef /\ data = Sorted(p)
      BY <2>2, <2>3, <2>4 DEF SessInv, Shown
    <2>6. p = Page(limit[sock], 0)
      BY <2>3, <2>5
    <2> QED
      BY <2>5, <2>6
  <1> QED
    BY <1>1, SessionInvariance, PTL
-----------------------------------------------------------------------------
(***************************************************************************)
(* Nobody waits for ever on everybody else.                                *)
(***************************************************************************)

\* Only the session's own socket is open, a registered connection has had a
\* writePump, and a channel holds what fits.
Wired(c) ==
    /\ link[c] = "up" => c = sock
    /\ cst[c] = "reading" => writer[c] # "off"
    /\ Len(send[c]) <= SendCap

\* What appending and taking away do to the length of a channel.
LEMMA Lengths ==
  ASSUME NEW s \in Seq(Messages), NEW m \in Messages
  PROVE  /\ Len(s) < SendCap => Len(Append(s, m)) <= SendCap
         /\ s # <<>> /\ Len(s) <= SendCap => Len(Tail(s)) <= SendCap
  <1>1. SendCap \in Nat /\ Len(s) \in Nat /\ Len(Append(s, m)) = Len(s) + 1
    BY SMTT(30), HubAssumption
  <1>2. s # <<>> => Len(Tail(s)) = Len(s) - 1
    BY SMTT(30)
  <1> QED
    BY SMTT(30), <1>1, <1>2

\* Send keeps to the capacity of the channel.
LEMMA SendBounded ==
  ASSUME RunType, NEW c \in Conns, NEW d \in Conns, NEW m \in Messages, Send(d, m),
         Len(send[c]) <= SendCap
  PROVE  Len(send'[c]) <= SendCap
  <1>1. CASE Len(send[d]) < SendCap /\ c = d
    <2>1. send'[c] = Append(send[c], m)
      BY <1>1 DEF Send, RunType
    <2> QED
      BY <1>1, <2>1, Lengths DEF RunType
  <1>2. CASE ~(Len(send[d]) < SendCap) \/ c # d
    BY <1>2 DEF Send, RunType
  <1> QED
    BY <1>1, <1>2

\* The steps of the server, but for its channels.
LEMMA ServerPumps ==
  ASSUME PumpType, ServerNext, NEW c \in Conns, cst[c] = "reading" => writer[c] # "off"
  PROVE  cst'[c] = "reading" => writer'[c] # "off"
  <1>1. ASSUME UNCHANGED <<cst, writer>> PROVE cst'[c] = "reading" => writer'[c] # "off"
    BY <1>1
  <1>2. ASSUME (\E t \in Types : Upload(t)) \/ UploadIndexed \/ Listening \/ HubStatus
               \/ HubNewBlob \/ HubWatch \/ HubUpdated
               \/ SyncIndexes \/ \E t \in Types : ListenSkips(t)
        PROVE  UNCHANGED <<cst, writer>>
    BY <1>2 DEF Upload, UploadIndexed, Listening, ListenerSends, Listen, HubStatus,
                HubNewBlob, HubWatch, HubUpdated, SyncIndexes, ListenSkips
  <1>3. ASSUME NEW d \in Conns, HubSend(d) \/ Searching(d) \/ ReadMessage(d)
               \/ \E k \in Jobs : SearchFails(d, k)
        PROVE  UNCHANGED <<cst, writer>>
    BY <1>3 DEF HubSend, Searching, RedoLocks, RedoChecks, DoSearch, StoreResult, Announce,
                ReadMessage, SearchFails
  <1>4. ASSUME NEW d \in Conns, HubRegister(d)
        PROVE  cst'[c] = "reading" => writer'[c] # "off"
    BY <1>4 DEF HubRegister, PumpType
  <1>5. ASSUME NEW d \in Conns, HubUnregister(d) \/ WriterEnds(d)
        PROVE  cst'[c] = "reading" => writer'[c] # "off"
    BY <1>5 DEF HubUnregister, WriterEnds, PumpType
  <1> QED
    BY <1>1, <1>2, <1>3, <1>4, <1>5 DEF ServerNext, Selecting, Pumping

\* The steps of the server keep to the capacity of c.send.
LEMMA ServerBounded ==
  ASSUME HubTypeOK, ServerNext, NEW c \in Conns, Len(send[c]) <= SendCap
  PROVE  Len(send'[c]) <= SendCap
  <1> USE DEF HubTypeOK
  <1>1. ASSUME UNCHANGED send PROVE Len(send'[c]) <= SendCap
    BY <1>1
  <1>2. ASSUME (\E t \in Types : Upload(t)) \/ UploadIndexed \/ Listening \/ HubStatus
               \/ HubNewBlob \/ HubWatch \/ SyncIndexes \/ \E t \in Types : ListenSkips(t)
        PROVE  UNCHANGED send
    BY <1>2 DEF Upload, UploadIndexed, Listening, ListenerSends, Listen, HubStatus,
                HubNewBlob, HubWatch, SyncIndexes, ListenSkips
  <1>3. ASSUME NEW d \in Conns, Searching(d) \/ ReadMessage(d)
               \/ \E k \in Jobs : SearchFails(d, k)
        PROVE  UNCHANGED send
    BY <1>3 DEF Searching, RedoLocks, RedoChecks, DoSearch, StoreResult, Announce,
                ReadMessage, SearchFails
  <1>4. ASSUME NEW d \in Conns, HubRegister(d) PROVE Len(send'[c]) <= SendCap
    <2>1. last \in Messages /\ Send(d, last)
      BY <1>4, MessagesOK DEF HubRegister, RunType
    <2> QED
      BY <1>4, <2>1, SendBounded
  <1>5. ASSUME NEW d \in Conns, HubUnregister(d) PROVE Len(send'[c]) <= SendCap
    <2>1. Len(<<>>) <= SendCap
      BY SMTT(30), HubAssumption
    <2> QED
      BY <1>5, <2>1 DEF HubUnregister, RunType
  <1>6. ASSUME NEW d \in Conns, WriterEnds(d) PROVE Len(send'[c]) <= SendCap
    <2>1. send' = send \/ (send[d] # <<>> /\ send' = [send EXCEPT ![d] = Tail(@)])
      BY <1>6 DEF WriterEnds
    <2>2. Empty \in Messages
      BY MessagesOK
    <2> QED
      BY <2>1, <2>2, Lengths DEF RunType
  <1>7. ASSUME HubUpdated PROVE Len(send'[c]) <= SendCap
    <2> DEFINE d == Head(updated)
    <2>1. d \in Conns
      BY SMTT(30), <1>7 DEF HubUpdated, RunType
    <2>2. CASE d \in conns \cap subs
      <3>1. Result(UNION lastres[d]) \in Messages
        BY <2>1, MessagesOK DEF QueryType
      <3>2. Send(d, Result(UNION lastres[d]))
        BY <1>7, <2>2 DEF HubUpdated
      <3> QED
        BY <2>1, <3>1, <3>2, SendBounded
    <2>3. CASE d \notin conns \cap subs
      BY <1>1, <1>7, <2>3 DEF HubUpdated
    <2> QED
      BY <2>2, <2>3
  <1>8. ASSUME NEW d \in Conns, HubSend(d) PROVE Len(send'[c]) <= SendCap
    BY <1>8, Lengths DEF HubSend, RunType
  <1> QED
    BY <1>1, <1>2, <1>3, <1>4, <1>5, <1>6, <1>7, <1>8 DEF ServerNext, Selecting, Pumping

\* Every step keeps the connections wired as they should be.
LEMMA WiredStep ==
  ASSUME HubTypeOK, SessType, \A c \in Conns : Wired(c), [Next]_vars
  PROVE  \A c \in Conns : Wired(c)'
  <1> SUFFICES ASSUME NEW c \in Conns PROVE Wired(c)'
    OBVIOUS
  <1>0. Wired(c)
    OBVIOUS
  <1>1. ASSUME ServerNext, UNCHANGED <<xhr, sessVars>> PROVE Wired(c)'
    <2>1. link' = link /\ sock' = sock
      BY <1>1, ServerFrame DEF SessType, sessVars
    <2> QED
      BY <1>0, <1>1, <2>1, ServerPumps, ServerBounded DEF Wired, HubTypeOK
  <1>2. ASSUME UNCHANGED <<link, cst, writer, send, sock>> PROVE Wired(c)'
    BY <1>0, <1>2 DEF Wired
  <1>3. ASSUME LoadMore \/ Refresh \/ SocketError \/ UNCHANGED vars PROVE Wired(c)'
    BY <1>2, <1>3 DEF LoadMore, Refresh, SocketError, vars, hubVars, sessVars
  <1>4. ASSUME NEW x \in Xhrs, Serve(x) \/ ServeFails(x) \/ XhrDropped(x) PROVE Wired(c)'
    BY <1>2, <1>4 DEF Serve, ServeFails, XhrDropped, hubVars, sessVars
  <1>5. ASSUME sock # 0, Drop(sock), sock' = sock PROVE Wired(c)'
    BY <1>0, <1>5 DEF Drop, Wired, HubTypeOK, PumpType
  <1>6. ASSUME Close \/ Break PROVE Wired(c)'
    BY <1>2, <1>5, <1>6 DEF Close, Break, hubVars, sessVars
  <1>7. ASSUME FirstMessage \/ Message PROVE Wired(c)'
    <2>1. Deliver(sock) /\ sock' = sock
      BY <1>7 DEF FirstMessage, Message
    <2>2. UNCHANGED <<link, cst, writer>> /\ send[sock] # <<>>
          /\ send' = [send EXCEPT ![sock] = Tail(@)]
      BY <2>1 DEF Deliver
    <2>3. Empty \in Messages /\ send \in [Conns -> Seq(Messages)]
      BY MessagesOK DEF HubTypeOK, RunType
    <2>4. Len(send'[c]) <= SendCap
      BY <1>0, <2>2, <2>3, Lengths DEF Wired
    <2> QED
      BY <1>0, <2>1, <2>2, <2>4 DEF Wired
  <1>8. ASSUME StartSocket PROVE Wired(c)'
    <2>1. PICK d \in Conns : sock' = d /\ \E n : Open(d, n, {sock})
      BY <1>8 DEF StartSocket
    <2>2. PICK n : Open(d, n, {sock})
      BY <2>1
    <2>3. /\ link' = [x \in Conns |-> IF x = d THEN "up"
                                      ELSE IF x \in {sock} THEN "down" ELSE link[x]]
          /\ cst' = [cst EXCEPT ![d] = "opening"] /\ writer' = writer /\ send' = send
      BY <2>2 DEF Open
    <2>4. link'[c] = "up" => c = sock'
      BY <1>0, <2>1, <2>3 DEF Wired
    <2>5. cst'[c] = "reading" => cst[c] = "reading"
      BY <2>3 DEF HubTypeOK, PumpType
    <2> QED
      BY <1>0, <2>3, <2>4, <2>5 DEF Wired
  <1>9. ASSUME NEW x \in Xhrs, XhrDone(x) \/ XhrGarbled(x) PROVE Wired(c)'
    BY <1>2, <1>8, <1>9 DEF XhrDone, XhrGarbled, hubVars
  <1> QED
    BY <1>1, <1>3, <1>4, <1>6, <1>7, <1>9 DEF Next, SessionNext, Answering

\* The chain from an upload that waits to run that waits ends in somebody who
\* can go on, or in a channel that nobody reads.
LEMMA ChainEnds ==
  ASSUME HubInv, SessType, \A c \in Conns : Wired(c)
  PROVE  OnlyHubStuckHangs
  <1> SUFFICES ASSUME ~CanRun, ~HubStuck PROVE AtRest
    BY DEF OnlyHubStuckHangs
  <1>0. HubTypeOK /\ Life
    BY DEF HubInv
  <1>1. ASSUME NEW c \in out PROVE FALSE
    <2>1. c \in Conns /\ cst[c] = "reading"
      BY <1>0, <1>1 DEF Life
    <2>2. Wired(c)
      BY <2>1
    <2>3. writer[c] # "off" /\ Len(send[c]) <= SendCap /\ ~(Len(send[c]) < SendCap)
      BY <1>1, <2>1, <2>2 DEF Wired, CanRun
    <2>4. send[c] \in Seq(Messages)
      BY <1>0, <2>1 DEF HubTypeOK, RunType
    <2>5. Len(send[c]) = SendCap
      BY SMTT(30), <2>3, <2>4, HubAssumption
    <2>6. writer[c] # "on"
      BY <1>1, <2>2 DEF CanRun, Wired
    <2>7. writer[c] = "ended"
      BY <1>0, <2>1, <2>3, <2>6 DEF HubTypeOK, PumpType
    <2> QED
      BY <1>1, <2>5, <2>7 DEF HubStuck
  <1>2. out = {}
    BY <1>1
  <1>3. kicks = <<>>
    BY <1>2 DEF CanRun
  <1>4. Len(kicks) < ChanCap
    BY SMTT(30), <1>3, HubAssumption
  <1>5. lis = None /\ ixw = None
    BY <1>4 DEF CanRun
  <1>6. ASSUME NEW c \in Conns PROVE link[c] = "up" \/ cst[c] \in {"none", "gone"}
    <2>1. link[c] \in {"up", "down"} /\ cst[c] \in {"none", "opening", "reading", "gone"}
      BY <1>0 DEF HubTypeOK, PumpType
    <2> QED
      BY <1>2, <2>1 DEF CanRun
  <1> QED
    BY <1>2, <1>5, <1>6 DEF AtRest

\* Nothing takes run out of the full channel of a connection whose writePump
\* has ended: run is at no select, so that the connection is not unregistered.
LEMMA StuckForEver ==
  ASSUME HubTypeOK, HubStuck, [HubNext]_hubVars
  PROVE  HubStuck'
  <1>1. PICK c \in out : writer[c] = "ended" /\ Len(send[c]) = SendCap
    BY DEF HubStuck
  <1>2. c \in Conns /\ out # {}
    BY <1>1 DEF HubTypeOK, RunType
  <1>3. ASSUME c \in out', writer'[c] = writer[c], send'[c] = send[c] PROVE HubStuck'
    BY <1>1, <1>3 DEF HubStuck
  <1>4. ASSUME Selecting \/ HubStatus PROVE FALSE
    BY <1>2, <1>4 DEF Selecting, HubNewBlob, HubWatch, HubUpdated, HubRegister, HubUnregister,
                      HubStatus
  <1>5. ASSUME (\E t \in Types : Upload(t)) \/ UploadIndexed \/ Listening \/ SyncIndexes
               \/ (\E t \in Types : ListenSkips(t)) \/ UNCHANGED hubVars
        PROVE  UNCHANGED <<out, writer, send>>
    BY <1>5 DEF Upload, UploadIndexed, Listening, ListenerSends, Listen, SyncIndexes,
                ListenSkips, hubVars
  <1>6. ASSUME NEW d \in Conns, Searching(d) \/ ReadMessage(d) \/ Drop(d) \/ Unsubscribe(d)
               \/ (\E k \in Jobs : SearchFails(d, k)) \/ (\E n, drop : Open(d, n, drop))
        PROVE  UNCHANGED <<out, writer, send>>
    BY <1>6 DEF Searching, RedoLocks, RedoChecks, DoSearch, StoreResult, Announce, SearchFails,
                ReadMessage, Drop, Unsubscribe, Open
  <1>7. ASSUME NEW d \in Conns, HubSend(d) PROVE HubStuck'
    <2>1. Len(send[d]) < SendCap /\ out' = out \ {d} /\ writer' = writer
          /\ send' = [send EXCEPT ![d] = Append(@, msg)]
      BY <1>7 DEF HubSend
    <2>2. c # d
      BY SMTT(30), <1>1, <2>1, HubAssumption
    <2> QED
      BY <1>2, <1>3, <2>1, <2>2 DEF HubTypeOK, RunType
  <1>8. ASSUME NEW d \in Conns, Deliver(d) \/ WriterEnds(d) PROVE HubStuck'
    <2>1. c # d
      BY <1>1, <1>8 DEF Deliver, WriterEnds
    <2>2. out' = out /\ writer'[c] = writer[c] /\ send'[c] = send[c]
      BY <1>2, <1>8, <2>1 DEF Deliver, WriterEnds, HubTypeOK, RunType, PumpType
    <2> QED
      BY <1>3, <2>2
  <1> QED
    BY <1>3, <1>4, <1>5, <1>6, <1>7, <1>8 DEF HubNext, ServerNext, Pumping

\* The server hangs in one way only, for any number of connections and any
\* capacities of the channels, and then for ever.  Uploads, the listener, the
\* hub, the pumps and the browser wait for each other in a circle only if run
\* is in the full c.send of a connection whose writePump has ended
\* (websocket.go:145 and 93); and once run is there, it stays.
THEOREM OnlyOneHang == Spec => []OnlyHubStuckHangs /\ [][HubStuck => HubStuck']_vars
  <1>1. Init => \A c \in Conns : Wired(c)
    <2> SUFFICES ASSUME Init, NEW c \in Conns PROVE Wired(c)
      OBVIOUS
    <2>1. link[c] = "down" /\ cst[c] = "none" /\ send[c] = <<>>
      BY DEF Init, HubInit
    <2>2. Len(send[c]) <= SendCap
      BY SMTT(30), <2>1, HubAssumption
    <2> QED
      BY <2>1, <2>2 DEF Wired
  <1> DEFINE AllWired == \A c \in Conns : Wired(c)
  <1>2. HubInv /\ SessInv /\ AllWired /\ [Next]_vars => AllWired'
    <2> SUFFICES ASSUME HubInv, SessInv, AllWired, [Next]_vars PROVE AllWired'
      OBVIOUS
    <2>1. HubTypeOK /\ SessType
      BY DEF HubInv, SessInv
    <2> QED
      BY <2>1, WiredStep
  <1>3. HubInv /\ SessInv /\ AllWired => OnlyHubStuckHangs
    BY ChainEnds DEF SessInv
  <1> HIDE DEF AllWired
  <1>4. Init => AllWired
    BY <1>1 DEF AllWired
  <1>5. HubInv /\ SessInv /\ [Next]_vars => [HubStuck => HubStuck']_vars
    <2> SUFFICES ASSUME HubInv, SessInv, [Next]_vars, HubStuck PROVE HubStuck'
      OBVIOUS
    <2>1. HubTypeOK /\ SockOK
      BY DEF HubInv, SessInv, SessType
    <2> QED
      BY <2>1, SessionStep, StuckForEver
  <1> QED
    BY <1>2, <1>3, <1>4, <1>5, SessionInvariance, PTL DEF Spec
=============================================================================
