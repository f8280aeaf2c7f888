------------------------ MODULE SearchSessionProofs ------------------------
(***************************************************************************)
(* What the hub of the standing queries promises, for any number of        *)
(* connections, blobs and messages and for all capacities of the channels: *)
(*                                                                         *)
(*  - HubInv is an inductive invariant of HubSpec, the hub with clients    *)
(*    that subscribe, unsubscribe and go at any time.  Its core is Fresh   *)
(*    (as long as nothing will start another search of a query, what is    *)
(*    stored or about to be stored for it is what the index has) and Sent  *)
(*    (unless an update is announced, the client was sent what is stored); *)
(*    the other conjuncts say who may do what at which time in the life of *)
(*    a connection and of its query;                                       *)
(*  - the session of the web UI with its XHRs and the hub (Spec)           *)
(*    implements HubSpec, and so inherits the hub's invariants.            *)
(*                                                                         *)
(* The lemmas *Step say that a conjunct is preserved, with one step for    *)
(* each action of the hub, always in the same order.                       *)
(***************************************************************************)
EXTENDS SearchSession, TLAPS

USE ZenonT(30) DEF index, channels, run, pumps, query

\* Something will make the query of c be searched again.
Pending(c) ==
    \/ notified["schema"] > 0 \/ lis = "schema" \/ In("schema", kicks)
    \/ spawned[c] > 0 \/ dirty[c]
    \/ \E k \in Jobs : at[c][k] = "query"

\* What is stored, or will be, is what the index has.
Settled(c) ==
    /\ \A k \in Jobs : at[c][k] = "store" => found[c][k] = Page(limit[c], 0)
    /\ lastres[c] = {Page(limit[c], 0)} \/ \E k \in Jobs : at[c][k] = "store"

Announced(c) == In(c, updated) \/ \E k \in Jobs : at[c][k] = "send"

\* The life of a connection.
Life ==
    /\ conns = {c \in Conns : cst[c] = "reading"} /\ out \subseteq conns
    /\ \A c \in Conns :
        /\ cst[c] = "gone" => send[c] = <<>>
        /\ cst[c] \in {"none", "opening"} => asked[c] \in {"none", "sent"}
        /\ asked[c] \in {"none", "sent"} => c \notin subs /\ ~In(Watch(c), watchReq)
        /\ asked[c] # "left" => ~In(Unwatch(c), watchReq)

Once(s) == \A i, j \in 1..Len(s) : s[i] = s[j] => i = j

\* A connection subscribes once, and nothing is done for it before.
Waiting == Once(watchReq)

New(c) == asked[c] \in {"none", "sent"} \/ In(Watch(c), watchReq)

Unsubscribed(c) ==
    New(c) => /\ c \notin subs /\ lastres[c] = {} /\ told[c] = {} /\ spawned[c] = 0
              /\ \A k \in Jobs : at[c][k] = "off"
              /\ ~(c \in out /\ msg.kind = "result")

\* refreshing says whether a refresh runs.
Flags(c) ==
    /\ dirty[c] => refreshing[c]
    /\ refreshing[c] <=> at[c]["refresh"] # "off"

\* There is a result when one is announced.
Held(c) ==
    /\ lastres[c] = {} \/ \E p \in SUBSET Items : lastres[c] = {p}
    /\ Announced(c) => lastres[c] # {}

\* Nothing is lost between the index and the query, and between the query and
\* the client.
Fresh(c) ==
    c \in conns \cap subs /\ ~crossed[c] /\ ~failed[c] => Pending(c) \/ Settled(c)

Sent(c) ==
    c \in conns \cap subs =>
        \/ Announced(c)
        \/ IF c \in out /\ msg.kind = "result" THEN lastres[c] = {msg.page}
                                               ELSE told[c] = lastres[c]

HubInv ==
    /\ HubTypeOK /\ Life /\ Waiting
    /\ \A c \in Conns : Unsubscribed(c) /\ Flags(c) /\ Held(c) /\ Fresh(c) /\ Sent(c)

\* What Append adds to the elements of a channel.
LEMMA InAppend ==
  ASSUME NEW S, NEW s \in Seq(S), NEW e \in S, NEW x
  PROVE  In(x, Append(s, e)) <=> In(x, s) \/ x = e
  BY SMTT(30) DEF In

\* What Head and Tail do to the elements of a channel.
LEMMA InTail ==
  ASSUME NEW S, NEW s \in Seq(S), s # <<>>, NEW x
  PROVE  /\ Tail(s) \in Seq(S) /\ Head(s) \in S
         /\ In(x, s) <=> x = Head(s) \/ In(x, Tail(s))
  <1>1. Tail(s) \in Seq(S) /\ Head(s) \in S /\ Len(s) \in Nat \ {0} /\ s[1] = Head(s)
        /\ Len(Tail(s)) = Len(s) - 1 /\ \A i \in 1..Len(Tail(s)) : Tail(s)[i] = s[i+1]
    BY SMTT(30)
  <1>2. In(x, Tail(s)) => In(x, s)
    BY SMTT(30), <1>1 DEF In
  <1>3. ASSUME In(x, s), x # Head(s) PROVE In(x, Tail(s))
    <2>1. PICK i \in 1..Len(s) : s[i] = x
      BY <1>3 DEF In
    <2>2. i - 1 \in 1..Len(Tail(s)) /\ Tail(s)[i - 1] = x
      BY SMTT(30), <1>1, <1>3, <2>1
    <2> QED
      BY <2>2 DEF In
  <1> QED
    BY SMTT(30), <1>1, <1>2, <1>3 DEF In

\* Two requests are equal when they are of the same connection and kind.
LEMMA WatchOK ==
  /\ \A c : Watch(c).conn = c /\ Watch(c).q # None
  /\ \A c : Unwatch(c).conn = c /\ Unwatch(c).q = None
  /\ \A c, d : Watch(c) # Unwatch(d) /\ (Watch(c) = Watch(d) => c = d)
                /\ (Unwatch(c) = Unwatch(d) => c = d)
  /\ \A c \in Conns : Watch(c) \in WatchReqs /\ Unwatch(c) \in WatchReqs
  <1>1. \A c : Watch(c).conn = c /\ Watch(c).q # None
    BY DEF Watch, None
  <1>2. \A c : Unwatch(c).conn = c /\ Unwatch(c).q = None
    BY DEF Unwatch
  <1>3. \A c \in Conns : Watch(c) \in WatchReqs /\ Unwatch(c) \in WatchReqs
    BY DEF WatchReqs
  <1> QED
    BY <1>1, <1>2, <1>3

\* What HubWatch does with the request that it takes from the channel.
LEMMA WatchCases ==
  ASSUME RunType, HubWatch
  PROVE  /\ watchReq' \in Seq(WatchReqs)
         /\ \A x : In(x, watchReq) <=> x = Head(watchReq) \/ In(x, watchReq')
         /\ \E d \in Conns :
             \/ /\ Head(watchReq) = Watch(d) /\ subs' = subs \cup {d}
                /\ at' = [at EXCEPT ![d]["first"] = "query"]
             \/ Head(watchReq) = Unwatch(d) /\ subs' = subs \ {d} /\ at' = at
  <1>1. /\ watchReq' = Tail(watchReq) /\ Tail(watchReq) \in Seq(WatchReqs)
        /\ Head(watchReq) \in WatchReqs
        /\ \A x : In(x, watchReq) <=> x = Head(watchReq) \/ In(x, Tail(watchReq))
    BY InTail DEF HubWatch, RunType
  <1>2. PICK d \in Conns : Head(watchReq) = Watch(d) \/ Head(watchReq) = Unwatch(d)
    BY <1>1 DEF WatchReqs
  <1>3. CASE Head(watchReq) = Watch(d)
    <2>1. Head(watchReq).conn = d /\ Head(watchReq).q # None
      BY <1>3, WatchOK
    <2> QED
      BY <1>1, <1>3, <2>1 DEF HubWatch
  <1>4. CASE Head(watchReq) = Unwatch(d)
    <2>1. Head(watchReq).conn = d /\ Head(watchReq).q = None
      BY <1>4, WatchOK
    <2> QED
      BY <1>1, <1>4, <2>1 DEF HubWatch
  <1> QED
    BY <1>2, <1>3, <1>4

\* What ReadMessage adds to the channel.
LEMMA ReadCases ==
  ASSUME RunType, PumpType, NEW d \in Conns, ReadMessage(d)
  PROVE  \/ /\ asked[d] = "sent" /\ asked' = [asked EXCEPT ![d] = "read"]
            /\ watchReq' = Append(watchReq, Watch(d))
            /\ \A x : In(x, watchReq') <=> In(x, watchReq) \/ x = Watch(d)
         \/ /\ asked[d] = "leaving" /\ asked' = [asked EXCEPT ![d] = "left"]
            /\ watchReq' = Append(watchReq, Unwatch(d))
            /\ \A x : In(x, watchReq') <=> In(x, watchReq) \/ x = Unwatch(d)
  <1>1. CASE asked[d] = "sent"
    <2>1. watchReq' = Append(watchReq, Watch(d)) /\ asked' = [asked EXCEPT ![d] = "read"]
      BY <1>1 DEF ReadMessage
    <2> QED
      BY <1>1, <2>1, InAppend, WatchOK DEF RunType
  <1>2. CASE asked[d] # "sent"
    <2>1. watchReq' = Append(watchReq, Unwatch(d)) /\ asked' = [asked EXCEPT ![d] = "left"]
      BY <1>2 DEF ReadMessage
    <2>2. asked[d] = "leaving"
      BY <1>2 DEF ReadMessage
    <2> QED
      BY <2>1, <2>2, InAppend, WatchOK DEF RunType
  <1> QED
    BY <1>1, <1>2

\* The messages that run makes are messages, and the page of one is a set of items.
LEMMA MessagesOK ==
  /\ Empty \in Messages /\ Status \in Messages
  /\ \A p \in SUBSET Items : Result(p) \in Messages
  /\ \A m \in Messages : m.page \in SUBSET Items
  <1>1. Empty.page = {} /\ Status.page = {} /\ \A p : Result(p).page = p
    BY DEF Empty, Status, Result
  <1> QED
    BY <1>1 DEF Messages

\* A page has results of the index.
LEMMA PageOK ==
  ASSUME NEW n, NEW token PROVE Page(n, token) \subseteq items
  BY DEF Page, After

\* c.send <- m keeps the types of what run sends.
LEMMA SendOK ==
  ASSUME RunType, NEW c \in Conns, NEW m \in Messages, Send(c, m)
  PROVE  /\ send' \in [Conns -> Seq(Messages)] /\ told' \in [Conns -> SUBSET SUBSET Items]
         /\ out' \subseteq Conns /\ msg' \in Messages
  <1>1. CASE Len(send[c]) < SendCap
    <2>1. Append(send[c], m) \in Seq(Messages)
      BY SMTT(30) DEF RunType
    <2>2. m.page \in SUBSET Items
      BY MessagesOK
    <2>a. {m.page} \in SUBSET SUBSET Items
      BY <2>2
    <2>b. told' = told \/ told' = [told EXCEPT ![c] = {m.page}]
      BY <1>1 DEF Send
    <2>3. told' \in [Conns -> SUBSET SUBSET Items]
      BY <2>a, <2>b DEF RunType
    <2>4. send' \in [Conns -> Seq(Messages)]
      BY <1>1, <2>1 DEF Send, RunType
    <2> QED
      BY <1>1, <2>3, <2>4 DEF Send, RunType
  <1>2. CASE ~(Len(send[c]) < SendCap)
    BY <1>2 DEF Send, RunType
  <1> QED
    BY <1>1, <1>2

\* The types of the index and of the way of a blob to the hub.
LEMMA FeedTypeStep ==
  ASSUME FeedType, [HubNext]_hubVars
  PROVE  FeedType'
  <1>1. ASSUME NEW t \in Types, Upload(t) PROVE FeedType'
    BY SMTT(30), <1>1 DEF Upload, Indexed, FeedType
  <1>2. ASSUME UploadIndexed PROVE FeedType'
    BY SMTT(30), <1>2 DEF UploadIndexed, Indexed, FeedType
  <1>3. ASSUME NEW t \in Types, Listen(t) PROVE FeedType'
    <2>1. notified' \in [Types -> Nat]
      BY SMTT(30), <1>3 DEF Listen, FeedType
    <2>a. Append(kicks, t) \in Seq(Types) /\ Len(Append(kicks, t)) = Len(kicks) + 1
      BY SMTT(30), <1>3 DEF FeedType
    <2>b. Len(kicks) \in Nat
      BY SMTT(30) DEF FeedType
    <2>c. kicks' = kicks \/ (Len(kicks) < ChanCap /\ kicks' = Append(kicks, t))
      BY <1>3 DEF Listen
    <2>2. kicks' \in Seq(Types) /\ Len(kicks') <= ChanCap
      BY SMTT(30), <2>a, <2>b, <2>c, HubAssumption DEF FeedType
    <2> QED
      BY <1>3, <2>1, <2>2 DEF Listen, FeedType
  <1>4. ASSUME ListenerSends PROVE FeedType'
    BY SMTT(30), <1>4, HubAssumption DEF ListenerSends, FeedType
  <1>5. ASSUME HubStatus PROVE FeedType'
    BY <1>5 DEF HubStatus, FeedType
  <1>6. ASSUME NEW d \in Conns, HubRegister(d) PROVE FeedType'
    BY <1>6 DEF HubRegister, FeedType
  <1>7. ASSUME NEW d \in Conns, HubUnregister(d) PROVE FeedType'
    BY <1>7 DEF HubUnregister, FeedType
  <1>8. ASSUME HubNewBlob PROVE FeedType'
    <2>1. Tail(kicks) \in Seq(Types) /\ Len(Tail(kicks)) <= ChanCap
      BY SMTT(30), <1>8, HubAssumption DEF HubNewBlob, FeedType
    <2> QED
      BY <1>8, <2>1 DEF HubNewBlob, FeedType
  <1>9. ASSUME HubWatch PROVE FeedType'
    BY <1>9 DEF HubWatch, FeedType
  <1>10. ASSUME HubUpdated PROVE FeedType'
    BY <1>10 DEF HubUpdated, FeedType
  <1>11. ASSUME NEW d \in Conns, HubSend(d) PROVE FeedType'
    BY <1>11 DEF HubSend, FeedType
  <1>12. ASSUME NEW d \in Conns, RedoLocks(d) PROVE FeedType'
    BY <1>12 DEF RedoLocks, FeedType
  <1>13. ASSUME NEW d \in Conns, RedoChecks(d) PROVE FeedType'
    BY <1>13 DEF RedoChecks, FeedType
  <1>14. ASSUME NEW d \in Conns, NEW k \in Jobs, DoSearch(d, k) PROVE FeedType'
    BY <1>14 DEF DoSearch, FeedType
  <1>15. ASSUME NEW d \in Conns, NEW k \in Jobs, SearchFails(d, k) PROVE FeedType'
    BY <1>15 DEF SearchFails, FeedType
  <1>16. ASSUME NEW d \in Conns, NEW k \in Jobs, StoreResult(d, k) PROVE FeedType'
    BY <1>16 DEF StoreResult, FeedType
  <1>17. ASSUME NEW d \in Conns, NEW k \in Jobs, Announce(d, k) PROVE FeedType'
    BY <1>17 DEF Announce, FeedType
  <1>18. ASSUME NEW d \in Conns, ReadMessage(d) PROVE FeedType'
    BY <1>18 DEF ReadMessage, FeedType
  <1>19. ASSUME NEW d \in Conns, Deliver(d) PROVE FeedType'
    BY <1>19 DEF Deliver, FeedType
  <1>20. ASSUME NEW d \in Conns, WriterEnds(d) PROVE FeedType'
    BY <1>20 DEF WriterEnds, FeedType
  <1>21. ASSUME NEW d \in Conns, NEW n, NEW drop, Open(d, n, drop) PROVE FeedType'
    BY <1>21 DEF Open, FeedType
  <1>22. ASSUME NEW d \in Conns, Drop(d) PROVE FeedType'
    BY <1>22 DEF Drop, FeedType
  <1>23. ASSUME UNCHANGED hubVars PROVE FeedType'
    BY <1>23 DEF hubVars, FeedType
  <1>24. ASSUME SyncIndexes PROVE FeedType'
    BY SMTT(30), <1>24 DEF SyncIndexes, FeedType
  <1>25. ASSUME NEW t \in Types, ListenSkips(t) PROVE FeedType'
    BY SMTT(30), <1>25 DEF ListenSkips, FeedType
  <1>26. ASSUME NEW d \in Conns, Unsubscribe(d) PROVE FeedType'
    BY <1>26 DEF Unsubscribe, FeedType
  <1> QED
    BY <1>1, <1>2, <1>3, <1>4, <1>5, <1>6, <1>7, <1>8, <1>9, <1>10, <1>11, <1>12,
       <1>13, <1>14, <1>15, <1>16, <1>17, <1>18, <1>19, <1>20, <1>21, <1>22, <1>23,
       <1>24, <1>25, <1>26
       DEF HubNext, ServerNext, Listening, Selecting, Searching, Pumping

\* The types of the channels and of the variables of run.
LEMMA RunTypeStep ==
  ASSUME RunType, QueryType, [HubNext]_hubVars
  PROVE  RunType'
  <1>1. ASSUME NEW t \in Types, Upload(t) PROVE RunType'
    BY <1>1 DEF Upload, RunType
  <1>2. ASSUME UploadIndexed PROVE RunType'
    BY <1>2 DEF UploadIndexed, RunType
  <1>3. ASSUME NEW t \in Types, Listen(t) PROVE RunType'
    BY <1>3 DEF Listen, RunType
  <1>4. ASSUME ListenerSends PROVE RunType'
    BY <1>4 DEF ListenerSends, RunType
  <1>5. ASSUME HubStatus PROVE RunType'
    BY <1>5, MessagesOK DEF HubStatus, RunType
  <1>6. ASSUME NEW d \in Conns, HubRegister(d) PROVE RunType'
    <2>1. last \in Messages
      BY MessagesOK DEF RunType
    <2> QED
      BY <1>6, <2>1, SendOK DEF HubRegister, RunType
  <1>7. ASSUME NEW d \in Conns, HubUnregister(d) PROVE RunType'
    BY SMTT(30), <1>7 DEF HubUnregister, RunType
  <1>8. ASSUME HubNewBlob PROVE RunType'
    BY <1>8 DEF HubNewBlob, RunType
  <1>9. ASSUME HubWatch PROVE RunType'
    BY <1>9, WatchCases DEF HubWatch, RunType
  <1>10. ASSUME HubUpdated PROVE RunType'
    <2>1. Head(updated) \in Conns /\ Tail(updated) \in Seq(Conns)
      BY <1>10, InTail DEF HubUpdated, RunType
    <2>2. UNION lastres[Head(updated)] \in SUBSET Items
      BY <2>1 DEF QueryType
    <2> QED
      BY <1>10, <2>1, <2>2, SendOK, MessagesOK DEF HubUpdated, RunType
  <1>11. ASSUME NEW d \in Conns, HubSend(d) PROVE RunType'
    BY SMTT(30), <1>11, MessagesOK DEF HubSend, RunType
  <1>12. ASSUME NEW d \in Conns, RedoLocks(d) PROVE RunType'
    BY <1>12 DEF RedoLocks, RunType
  <1>13. ASSUME NEW d \in Conns, RedoChecks(d) PROVE RunType'
    BY <1>13 DEF RedoChecks, RunType
  <1>14. ASSUME NEW d \in Conns, NEW k \in Jobs, DoSearch(d, k) PROVE RunType'
    BY <1>14 DEF DoSearch, RunType
  <1>15. ASSUME NEW d \in Conns, NEW k \in Jobs, SearchFails(d, k) PROVE RunType'
    BY <1>15 DEF SearchFails, RunType
  <1>16. ASSUME NEW d \in Conns, NEW k \in Jobs, StoreResult(d, k) PROVE RunType'
    BY SMTT(30), <1>16 DEF StoreResult, RunType
  <1>17. ASSUME NEW d \in Conns, NEW k \in Jobs, Announce(d, k) PROVE RunType'
    BY SMTT(30), <1>17 DEF Announce, RunType
  <1>18. ASSUME NEW d \in Conns, ReadMessage(d) PROVE RunType'
    BY SMTT(30), <1>18, WatchOK DEF ReadMessage, RunType
  <1>19. ASSUME NEW d \in Conns, Deliver(d) PROVE RunType'
    BY SMTT(30), <1>19 DEF Deliver, RunType
  <1>20. ASSUME NEW d \in Conns, WriterEnds(d) PROVE RunType'
    <2>1. send[d] # <<>> => Tail(send[d]) \in Seq(Messages)
      BY SMTT(30) DEF RunType
    <2> QED
      BY <1>20, <2>1 DEF WriterEnds, RunType
  <1>21. ASSUME NEW d \in Conns, NEW n, NEW drop, Open(d, n, drop) PROVE RunType'
    BY <1>21 DEF Open, RunType
  <1>22. ASSUME NEW d \in Conns, Drop(d) PROVE RunType'
    BY <1>22 DEF Drop, RunType
  <1>23. ASSUME UNCHANGED hubVars PROVE RunType'
    BY <1>23 DEF hubVars, RunType
  <1>24. ASSUME SyncIndexes PROVE RunType'
    BY <1>24 DEF SyncIndexes, RunType
  <1>25. ASSUME NEW t \in Types, ListenSkips(t) PROVE RunType'
    BY <1>25 DEF ListenSkips, RunType
  <1>26. ASSUME NEW d \in Conns, Unsubscribe(d) PROVE RunType'
    BY <1>26 DEF Unsubscribe, RunType
  <1> QED
    BY <1>1, <1>2, <1>3, <1>4, <1>5, <1>6, <1>7, <1>8, <1>9, <1>10, <1>11, <1>12,
       <1>13, <1>14, <1>15, <1>16, <1>17, <1>18, <1>19, <1>20, <1>21, <1>22, <1>23,
       <1>24, <1>25, <1>26
       DEF HubNext, ServerNext, Listening, Selecting, Searching, Pumping

\* The types of what readPump, writePump and the clients have.
LEMMA PumpTypeStep ==
  ASSUME PumpType, [HubNext]_hubVars
  PROVE  PumpType'
  <1>1. ASSUME NEW t \in Types, Upload(t) PROVE PumpType'
    BY <1>1 DEF Upload, PumpType
  <1>2. ASSUME UploadIndexed PROVE PumpType'
    BY <1>2 DEF UploadIndexed, PumpType
  <1>3. ASSUME NEW t \in Types, Listen(t) PROVE PumpType'
    BY <1>3 DEF Listen, PumpType
  <1>4. ASSUME ListenerSends PROVE PumpType'
    BY <1>4 DEF ListenerSends, PumpType
  <1>5. ASSUME HubStatus PROVE PumpType'
    BY <1>5 DEF HubStatus, PumpType
  <1>6. ASSUME NEW d \in Conns, HubRegister(d) PROVE PumpType'
    BY <1>6 DEF HubRegister, PumpType
  <1>7. ASSUME NEW d \in Conns, HubUnregister(d) PROVE PumpType'
    BY <1>7 DEF HubUnregister, PumpType
  <1>8. ASSUME HubNewBlob PROVE PumpType'
    BY <1>8 DEF HubNewBlob, PumpType
  <1>9. ASSUME HubWatch PROVE PumpType'
    BY <1>9 DEF HubWatch, PumpType
  <1>10. ASSUME HubUpdated PROVE PumpType'
    BY <1>10 DEF HubUpdated, PumpType
  <1>11. ASSUME NEW d \in Conns, HubSend(d) PROVE PumpType'
    BY <1>11 DEF HubSend, PumpType
  <1>12. ASSUME NEW d \in Conns, RedoLocks(d) PROVE PumpType'
    BY <1>12 DEF RedoLocks, PumpType
  <1>13. ASSUME NEW d \in Conns, RedoChecks(d) PROVE PumpType'
    BY <1>13 DEF RedoChecks, PumpType
  <1>14. ASSUME NEW d \in Conns, NEW k \in Jobs, DoSearch(d, k) PROVE PumpType'
    BY <1>14 DEF DoSearch, PumpType
  <1>15. ASSUME NEW d \in Conns, NEW k \in Jobs, SearchFails(d, k) PROVE PumpType'
    BY <1>15 DEF SearchFails, PumpType
  <1>16. ASSUME NEW d \in Conns, NEW k \in Jobs, StoreResult(d, k) PROVE PumpType'
    BY <1>16 DEF StoreResult, PumpType
  <1>17. ASSUME NEW d \in Conns, NEW k \in Jobs, Announce(d, k) PROVE PumpType'
    BY <1>17 DEF Announce, PumpType
  <1>18. ASSUME NEW d \in Conns, ReadMessage(d) PROVE PumpType'
    BY <1>18 DEF ReadMessage, PumpType
  <1>19. ASSUME NEW d \in Conns, Deliver(d) PROVE PumpType'
    BY <1>19 DEF Deliver, PumpType
  <1>20. ASSUME NEW d \in Conns, WriterEnds(d) PROVE PumpType'
    BY <1>20 DEF WriterEnds, PumpType
  <1>21. ASSUME NEW d \in Conns, NEW n, NEW drop, Open(d, n, drop) PROVE PumpType'
    BY <1>21 DEF Open, PumpType
  <1>22. ASSUME NEW d \in Conns, Drop(d) PROVE PumpType'
    BY <1>22 DEF Drop, PumpType
  <1>23. ASSUME UNCHANGED hubVars PROVE PumpType'
    BY <1>23 DEF hubVars, PumpType
  <1>24. ASSUME SyncIndexes PROVE PumpType'
    BY <1>24 DEF SyncIndexes, PumpType
  <1>25. ASSUME NEW t \in Types, ListenSkips(t) PROVE PumpType'
    BY <1>25 DEF ListenSkips, PumpType
  <1>26. ASSUME NEW d \in Conns, Unsubscribe(d) PROVE PumpType'
    BY <1>26 DEF Unsubscribe, PumpType
  <1> QED
    BY <1>1, <1>2, <1>3, <1>4, <1>5, <1>6, <1>7, <1>8, <1>9, <1>10, <1>11, <1>12,
       <1>13, <1>14, <1>15, <1>16, <1>17, <1>18, <1>19, <1>20, <1>21, <1>22, <1>23,
       <1>24, <1>25, <1>26
       DEF HubNext, ServerNext, Listening, Selecting, Searching, Pumping

\* The types of the watchedQuery and its goroutines.
LEMMA QueryTypeStep ==
  ASSUME FeedType, RunType, QueryType, [HubNext]_hubVars
  PROVE  QueryType'
  <1>1. ASSUME NEW t \in Types, Upload(t) PROVE QueryType'
    BY <1>1 DEF Upload, QueryType
  <1>2. ASSUME UploadIndexed PROVE QueryType'
    BY <1>2 DEF UploadIndexed, QueryType
  <1>3. ASSUME NEW t \in Types, Listen(t) PROVE QueryType'
    BY <1>3 DEF Listen, QueryType
  <1>4. ASSUME ListenerSends PROVE QueryType'
    BY <1>4 DEF ListenerSends, QueryType
  <1>5. ASSUME HubStatus PROVE QueryType'
    BY <1>5 DEF HubStatus, QueryType
  <1>6. ASSUME NEW d \in Conns, HubRegister(d) PROVE QueryType'
    BY <1>6 DEF HubRegister, QueryType
  <1>7. ASSUME NEW d \in Conns, HubUnregister(d) PROVE QueryType'
    BY <1>7 DEF HubUnregister, QueryType
  <1>8. ASSUME HubNewBlob PROVE QueryType'
    BY SMTT(30), <1>8 DEF HubNewBlob, QueryType
  <1>9. ASSUME HubWatch PROVE QueryType'
    <2>1. PICK d \in Conns :
            \/ subs' = subs \cup {d} /\ at' = [at EXCEPT ![d]["first"] = "query"]
            \/ subs' = subs \ {d} /\ at' = at
      BY <1>9, WatchCases
    <2>2. at' = [at EXCEPT ![d]["first"] = "query"]
          => at' \in [Conns -> [Jobs -> {"off", "query", "store", "send", "check"}]]
      BY SMTT(30) DEF QueryType, Jobs
    <2> QED
      BY <1>9, <2>1, <2>2 DEF HubWatch, QueryType
  <1>10. ASSUME HubUpdated PROVE QueryType'
    BY <1>10 DEF HubUpdated, QueryType
  <1>11. ASSUME NEW d \in Conns, HubSend(d) PROVE QueryType'
    BY <1>11 DEF HubSend, QueryType
  <1>12. ASSUME NEW d \in Conns, RedoLocks(d) PROVE QueryType'
    BY SMTT(30), <1>12 DEF RedoLocks, QueryType, Jobs
  <1>13. ASSUME NEW d \in Conns, RedoChecks(d) PROVE QueryType'
    BY <1>13 DEF RedoChecks, QueryType, Jobs
  <1>14. ASSUME NEW d \in Conns, NEW k \in Jobs, DoSearch(d, k) PROVE QueryType'
    BY <1>14, PageOK DEF DoSearch, QueryType, FeedType
  <1>15. ASSUME NEW d \in Conns, NEW k \in Jobs, SearchFails(d, k) PROVE QueryType'
    BY <1>15 DEF SearchFails, Done, QueryType
  <1>16. ASSUME NEW d \in Conns, NEW k \in Jobs, StoreResult(d, k) PROVE QueryType'
    BY SMTT(30), <1>16 DEF StoreResult, Done, QueryType
  <1>17. ASSUME NEW d \in Conns, NEW k \in Jobs, Announce(d, k) PROVE QueryType'
    BY <1>17 DEF Announce, Done, QueryType
  <1>18. ASSUME NEW d \in Conns, ReadMessage(d) PROVE QueryType'
    BY <1>18 DEF ReadMessage, QueryType
  <1>19. ASSUME NEW d \in Conns, Deliver(d) PROVE QueryType'
    BY <1>19 DEF Deliver, QueryType
  <1>20. ASSUME NEW d \in Conns, WriterEnds(d) PROVE QueryType'
    BY <1>20 DEF WriterEnds, QueryType
  <1>21. ASSUME NEW d \in Conns, NEW n, NEW drop, Open(d, n, drop) PROVE QueryType'
    BY <1>21 DEF Open, QueryType
  <1>22. ASSUME NEW d \in Conns, Drop(d) PROVE QueryType'
    BY <1>22 DEF Drop, QueryType
  <1>23. ASSUME UNCHANGED hubVars PROVE QueryType'
    BY <1>23 DEF hubVars, QueryType
  <1>24. ASSUME SyncIndexes PROVE QueryType'
    BY <1>24 DEF SyncIndexes, Unseen, QueryType
  <1>25. ASSUME NEW t \in Types, ListenSkips(t) PROVE QueryType'
    BY <1>25 DEF ListenSkips, Unseen, QueryType
  <1>26. ASSUME NEW d \in Conns, Unsubscribe(d) PROVE QueryType'
    BY <1>26 DEF Unsubscribe, QueryType
  <1> QED
    BY <1>1, <1>2, <1>3, <1>4, <1>5, <1>6, <1>7, <1>8, <1>9, <1>10, <1>11, <1>12,
       <1>13, <1>14, <1>15, <1>16, <1>17, <1>18, <1>19, <1>20, <1>21, <1>22, <1>23,
       <1>24, <1>25, <1>26
       DEF HubNext, ServerNext, Listening, Selecting, Searching, Pumping

\* run owns the connections that are read, and sends to no other.
LEMMA LifeStep ==
  ASSUME HubTypeOK, Life, [HubNext]_hubVars
  PROVE  Life'
  <1>1. ASSUME NEW t \in Types, Upload(t) PROVE Life'
    BY <1>1 DEF Upload, Life
  <1>2. ASSUME UploadIndexed PROVE Life'
    BY <1>2 DEF UploadIndexed, Life, HubTypeOK, RunType, PumpType
  <1>3. ASSUME NEW t \in Types, Listen(t) PROVE Life'
    BY <1>3 DEF Listen, Life, HubTypeOK, RunType, PumpType
  <1>4. ASSUME ListenerSends PROVE Life'
    BY <1>4 DEF ListenerSends, Life, HubTypeOK, RunType, PumpType
  <1>5. ASSUME HubStatus PROVE Life'
    BY <1>5 DEF HubStatus, Life, HubTypeOK, RunType, PumpType
  <1>6. ASSUME NEW d \in Conns, HubRegister(d) PROVE Life'
    BY SMTT(30), <1>6 DEF HubRegister, Send, Life, HubTypeOK, RunType, PumpType
  <1>7. ASSUME NEW d \in Conns, HubUnregister(d) PROVE Life'
    BY <1>7 DEF HubUnregister, Life, HubTypeOK, RunType, PumpType
  <1>8. ASSUME HubNewBlob PROVE Life'
    BY <1>8 DEF HubNewBlob, Life, HubTypeOK, RunType, PumpType
  <1>9. ASSUME HubWatch PROVE Life'
    <2>1. PICK d \in Conns : (Head(watchReq) = Watch(d) /\ subs' = subs \cup {d})
                              \/ (Head(watchReq) = Unwatch(d) /\ subs' = subs \ {d})
      BY <1>9, WatchCases DEF HubTypeOK
    <2>2. \A x : In(x, watchReq) <=> x = Head(watchReq) \/ In(x, watchReq')
      BY <1>9, WatchCases DEF HubTypeOK
    <2>3. \A c \in Conns : asked[c] \in {"none", "sent"} => c \notin subs'
      BY <2>1, <2>2 DEF Life
    <2> QED
      BY <1>9, <2>2, <2>3 DEF HubWatch, Life
  <1>10. ASSUME HubUpdated PROVE Life'
    <2>1. Head(updated) \in Conns
      BY <1>10, InTail DEF HubUpdated, HubTypeOK, RunType
    <2> QED
      BY SMTT(30), <1>10, <2>1 DEF HubUpdated, Send, Life, HubTypeOK, RunType, PumpType
  <1>11. ASSUME NEW d \in Conns, HubSend(d) PROVE Life'
    BY <1>11 DEF HubSend, Life, HubTypeOK, RunType, PumpType
  <1>12. ASSUME NEW d \in Conns, RedoLocks(d) PROVE Life'
    BY <1>12 DEF RedoLocks, Life, HubTypeOK, RunType, PumpType
  <1>13. ASSUME NEW d \in Conns, RedoChecks(d) PROVE Life'
    BY <1>13 DEF RedoChecks, Life, HubTypeOK, RunType, PumpType
  <1>14. ASSUME NEW d \in Conns, NEW k \in Jobs, DoSearch(d, k) PROVE Life'
    BY <1>14 DEF DoSearch, Life, HubTypeOK, RunType, PumpType
  <1>15. ASSUME NEW d \in Conns, NEW k \in Jobs, SearchFails(d, k) PROVE Life'
    BY <1>15 DEF SearchFails, Life, HubTypeOK, RunType, PumpType
  <1>16. ASSUME NEW d \in Conns, NEW k \in Jobs, StoreResult(d, k) PROVE Life'
    BY <1>16 DEF StoreResult, Life, HubTypeOK, RunType, PumpType
  <1>17. ASSUME NEW d \in Conns, NEW k \in Jobs, Announce(d, k) PROVE Life'
    BY <1>17 DEF Announce, Life, HubTypeOK, RunType, PumpType
  <1>18. ASSUME NEW d \in Conns, ReadMessage(d) PROVE Life'
    <2>1. \A c \in Conns : c # d => asked'[c] = asked[c]
      BY <1>18 DEF ReadMessage, HubTypeOK, PumpType
    <2>2. CASE asked[d] = "sent"
      <3>1. /\ asked'[d] = "read"
            /\ \A x : In(x, watchReq') <=> In(x, watchReq) \/ x = Watch(d)
        BY <1>18, <2>2, ReadCases DEF HubTypeOK, PumpType
      <3>2. ASSUME NEW c \in Conns, asked'[c] \in {"none", "sent"}
            PROVE  c \notin subs /\ ~In(Watch(c), watchReq')
        <4>1. c # d /\ asked[c] \in {"none", "sent"}
          BY <2>1, <3>1, <3>2
        <4>2. c \notin subs /\ ~In(Watch(c), watchReq)
          BY <4>1 DEF Life
        <4> QED
          BY <3>1, <4>1, <4>2, WatchOK
      <3>3. ASSUME NEW c \in Conns, asked'[c] # "left"
            PROVE  ~In(Unwatch(c), watchReq')
        <4>1. asked[c] # "left"
          BY <2>1, <2>2, <3>1, <3>3
        <4>2. ~In(Unwatch(c), watchReq)
          BY <4>1 DEF Life
        <4> QED
          BY <3>1, <3>3, <4>2, WatchOK
      <3>4. cst[d] = "reading"
        BY <1>18 DEF ReadMessage
      <3> QED
        BY <1>18, <2>1, <3>2, <3>3, <3>4 DEF ReadMessage, Life
    <2>3. CASE asked[d] # "sent"
      <3>1. /\ asked'[d] = "left"
            /\ \A x : In(x, watchReq') <=> In(x, watchReq) \/ x = Unwatch(d)
        BY <1>18, <2>3, ReadCases DEF HubTypeOK, PumpType
      <3>2. ASSUME NEW c \in Conns, asked'[c] \in {"none", "sent"}
            PROVE  c \notin subs /\ ~In(Watch(c), watchReq')
        <4>1. c # d /\ asked[c] \in {"none", "sent"}
          BY <2>1, <3>1, <3>2
        <4>2. c \notin subs /\ ~In(Watch(c), watchReq)
          BY <4>1 DEF Life
        <4> QED
          BY <3>1, <4>1, <4>2, WatchOK
      <3>3. ASSUME NEW c \in Conns, asked'[c] # "left"
            PROVE  ~In(Unwatch(c), watchReq')
        <4>1. asked[c] # "left"
          BY <2>1, <3>1, <3>3
        <4>2. ~In(Unwatch(c), watchReq)
          BY <4>1 DEF Life
        <4> QED
          BY <3>1, <3>3, <4>2, WatchOK
      <3>4. cst[d] = "reading"
        BY <1>18 DEF ReadMessage
      <3> QED
        BY <1>18, <2>1, <3>2, <3>3, <3>4 DEF ReadMessage, Life
    <2> QED
      BY <2>2, <2>3
  <1>19. ASSUME NEW d \in Conns, Deliver(d) PROVE Life'
    BY <1>19 DEF Deliver, Life, HubTypeOK, RunType, PumpType
  <1>20. ASSUME NEW d \in Conns, WriterEnds(d) PROVE Life'
    BY <1>20 DEF WriterEnds, Life, HubTypeOK, RunType, PumpType
  <1>21. ASSUME NEW d \in Conns, NEW n, NEW drop, Open(d, n, drop) PROVE Life'
    BY <1>21 DEF Open, Life, HubTypeOK, RunType, PumpType
  <1>22. ASSUME NEW d \in Conns, Drop(d) PROVE Life'
    BY <1>22 DEF Drop, Life, HubTypeOK, RunType, PumpType
  <1>23. ASSUME UNCHANGED hubVars PROVE Life'
    BY <1>23 DEF hubVars, Life, HubTypeOK, RunType, PumpType
  <1>24. ASSUME SyncIndexes PROVE Life'
    BY <1>24 DEF SyncIndexes, Life
  <1>25. ASSUME NEW t \in Types, ListenSkips(t) PROVE Life'
    BY <1>25 DEF ListenSkips, Life
  <1>26. ASSUME NEW d \in Conns, Unsubscribe(d) PROVE Life'
    BY <1>26 DEF Unsubscribe, Life, HubTypeOK, PumpType
  <1> QED
    BY <1>1, <1>2, <1>3, <1>4, <1>5, <1>6, <1>7, <1>8, <1>9, <1>10, <1>11, <1>12,
       <1>13, <1>14, <1>15, <1>16, <1>17, <1>18, <1>19, <1>20, <1>21, <1>22, <1>23,
       <1>24, <1>25, <1>26
       DEF HubNext, ServerNext, Listening, Selecting, Searching, Pumping

\* A new element keeps a sequence free of duplicates.
LEMMA OnceAppend ==
  ASSUME NEW S, NEW s \in Seq(S), NEW e \in S, ~In(e, s), Once(s)
  PROVE  Once(Append(s, e))
  BY SMTT(30) DEF In, Once

\* Without its head a sequence without duplicates does not have that element.
LEMMA OnceTail ==
  ASSUME NEW S, NEW s \in Seq(S), s # <<>>, Once(s)
  PROVE  Once(Tail(s)) /\ ~In(Head(s), Tail(s))
  <1>1. Len(s) \in Nat \ {0} /\ s[1] = Head(s)
        /\ Len(Tail(s)) = Len(s) - 1 /\ \A i \in 1..Len(Tail(s)) : Tail(s)[i] = s[i+1]
    BY SMTT(30)
  <1> QED
    BY SMTT(30), <1>1 DEF In, Once

\* No request is in watchReq twice.
LEMMA WaitingStep ==
  ASSUME HubTypeOK, Life, Waiting, [HubNext]_hubVars
  PROVE  Waiting'
  <1>1. ASSUME NEW t \in Types, Upload(t) PROVE Waiting'
    BY <1>1 DEF Upload, Waiting
  <1>2. ASSUME UploadIndexed PROVE Waiting'
    BY <1>2 DEF UploadIndexed, Waiting
  <1>3. ASSUME NEW t \in Types, Listen(t) PROVE Waiting'
    BY <1>3 DEF Listen, Waiting
  <1>4. ASSUME ListenerSends PROVE Waiting'
    BY <1>4 DEF ListenerSends, Waiting
  <1>5. ASSUME HubStatus PROVE Waiting'
    BY <1>5 DEF HubStatus, Waiting
  <1>6. ASSUME NEW d \in Conns, HubRegister(d) PROVE Waiting'
    BY <1>6 DEF HubRegister, Waiting
  <1>7. ASSUME NEW d \in Conns, HubUnregister(d) PROVE Waiting'
    BY <1>7 DEF HubUnregister, Waiting
  <1>8. ASSUME HubNewBlob PROVE Waiting'
    BY <1>8 DEF HubNewBlob, Waiting
  <1>9. ASSUME HubWatch PROVE Waiting'
    BY <1>9, OnceTail DEF HubWatch, HubTypeOK, RunType, Waiting
  <1>10. ASSUME HubUpdated PROVE Waiting'
    BY <1>10 DEF HubUpdated, Waiting
  <1>11. ASSUME NEW d \in Conns, HubSend(d) PROVE Waiting'
    BY <1>11 DEF HubSend, Waiting
  <1>12. ASSUME NEW d \in Conns, RedoLocks(d) PROVE Waiting'
    BY <1>12 DEF RedoLocks, Waiting
  <1>13. ASSUME NEW d \in Conns, RedoChecks(d) PROVE Waiting'
    BY <1>13 DEF RedoChecks, Waiting
  <1>14. ASSUME NEW d \in Conns, NEW k \in Jobs, DoSearch(d, k) PROVE Waiting'
    BY <1>14 DEF DoSearch, Waiting
  <1>15. ASSUME NEW d \in Conns, NEW k \in Jobs, SearchFails(d, k) PROVE Waiting'
    BY <1>15 DEF SearchFails, Waiting
  <1>16. ASSUME NEW d \in Conns, NEW k \in Jobs, StoreResult(d, k) PROVE Waiting'
    BY <1>16 DEF StoreResult, Waiting
  <1>17. ASSUME NEW d \in Conns, NEW k \in Jobs, Announce(d, k) PROVE Waiting'
    BY <1>17 DEF Announce, Waiting
  <1>18. ASSUME NEW d \in Conns, ReadMessage(d) PROVE Waiting'
    <2>1. CASE asked[d] = "sent"
      <3>1. watchReq' = Append(watchReq, Watch(d)) /\ ~In(Watch(d), watchReq)
        BY <1>18, <2>1, ReadCases DEF HubTypeOK, Life
      <3> QED
        BY <3>1, OnceAppend, WatchOK DEF HubTypeOK, RunType, Waiting
    <2>2. CASE asked[d] # "sent"
      <3>1. watchReq' = Append(watchReq, Unwatch(d)) /\ ~In(Unwatch(d), watchReq)
        BY <1>18, <2>2, ReadCases DEF HubTypeOK, Life
      <3> QED
        BY <3>1, OnceAppend, WatchOK DEF HubTypeOK, RunType, Waiting
    <2> QED
      BY <2>1, <2>2
  <1>19. ASSUME NEW d \in Conns, Deliver(d) PROVE Waiting'
    BY <1>19 DEF Deliver, Waiting
  <1>20. ASSUME NEW d \in Conns, WriterEnds(d) PROVE Waiting'
    BY <1>20 DEF WriterEnds, Waiting
  <1>21. ASSUME NEW d \in Conns, NEW n, NEW drop, Open(d, n, drop) PROVE Waiting'
    BY <1>21 DEF Open, Waiting
  <1>22. ASSUME NEW d \in Conns, Drop(d) PROVE Waiting'
    BY <1>22 DEF Drop, Waiting
  <1>23. ASSUME UNCHANGED hubVars PROVE Waiting'
    BY <1>23 DEF hubVars, Waiting
  <1>24. ASSUME SyncIndexes PROVE Waiting'
    BY <1>24 DEF SyncIndexes, Waiting
  <1>25. ASSUME NEW t \in Types, ListenSkips(t) PROVE Waiting'
    BY <1>25 DEF ListenSkips, Waiting
  <1>26. ASSUME NEW d \in Conns, Unsubscribe(d) PROVE Waiting'
    BY <1>26 DEF Unsubscribe, Waiting
  <1> QED
    BY <1>1, <1>2, <1>3, <1>4, <1>5, <1>6, <1>7, <1>8, <1>9, <1>10, <1>11, <1>12,
       <1>13, <1>14, <1>15, <1>16, <1>17, <1>18, <1>19, <1>20, <1>21, <1>22, <1>23,
       <1>24, <1>25, <1>26
       DEF HubNext, ServerNext, Listening, Selecting, Searching, Pumping

\* Nothing runs, is stored or is sent for a query before HubWatch.
LEMMA UnsubscribedStep ==
  ASSUME HubTypeOK, Life, Waiting, NEW c \in Conns, Unsubscribed(c), [HubNext]_hubVars
  PROVE  Unsubscribed(c)'
  <1>1. ASSUME NEW t \in Types, Upload(t) PROVE Unsubscribed(c)'
    BY <1>1 DEF Upload, Unsubscribed, New
  <1>2. ASSUME UploadIndexed PROVE Unsubscribed(c)'
    BY <1>2 DEF UploadIndexed, Unsubscribed, New
  <1>3. ASSUME NEW t \in Types, Listen(t) PROVE Unsubscribed(c)'
    BY <1>3 DEF Listen, Unsubscribed, New
  <1>4. ASSUME ListenerSends PROVE Unsubscribed(c)'
    BY <1>4 DEF ListenerSends, Unsubscribed, New
  <1>5. ASSUME HubStatus PROVE Unsubscribed(c)'
    BY <1>5 DEF HubStatus, Empty, Status, Unsubscribed, New, HubTypeOK, RunType, QueryType
  <1>6. ASSUME NEW d \in Conns, HubRegister(d) PROVE Unsubscribed(c)'
    BY SMTT(30), <1>6 DEF HubRegister, Send, Empty, Status, Unsubscribed, New, HubTypeOK, RunType, QueryType
  <1>7. ASSUME NEW d \in Conns, HubUnregister(d) PROVE Unsubscribed(c)'
    BY <1>7 DEF HubUnregister, Unsubscribed, New, HubTypeOK, RunType, QueryType
  <1>8. ASSUME HubNewBlob PROVE Unsubscribed(c)'
    BY SMTT(30), <1>8 DEF HubNewBlob, Unsubscribed, New, HubTypeOK, RunType, QueryType
  <1>9. ASSUME HubWatch PROVE Unsubscribed(c)'
    <2>1. PICK d \in Conns :
            \/ /\ Head(watchReq) = Watch(d) /\ subs' = subs \cup {d}
               /\ at' = [at EXCEPT ![d]["first"] = "query"]
            \/ Head(watchReq) = Unwatch(d) /\ subs' = subs \ {d} /\ at' = at
      BY <1>9, WatchCases DEF HubTypeOK
    <2>2. \A x : In(x, watchReq) <=> x = Head(watchReq) \/ In(x, watchReq')
      BY <1>9, WatchCases DEF HubTypeOK
    <2>3. ~In(Head(watchReq), watchReq')
      BY <1>9, OnceTail DEF HubWatch, HubTypeOK, RunType, Waiting
    <2>4. asked' = asked
      BY <1>9 DEF HubWatch
    <2>5. CASE c = d /\ Head(watchReq) = Watch(d)
      <3>1. ~New(c)'
        BY <2>2, <2>3, <2>4, <2>5 DEF New, Life
      <3> QED
        BY <3>1 DEF Unsubscribed
    <2>6. CASE ~(c = d /\ Head(watchReq) = Watch(d))
      <3>1. at'[c] = at[c] /\ (c \notin subs => c \notin subs') /\ (New(c)' => New(c))
        BY <2>1, <2>2, <2>4, <2>6 DEF New, HubTypeOK, QueryType
      <3> QED
        BY <1>9, <3>1 DEF HubWatch, Unsubscribed
    <2> QED
      BY <2>5, <2>6
  <1>10. ASSUME HubUpdated PROVE Unsubscribed(c)'
    <2>1. Head(updated) \in Conns
      BY <1>10, InTail DEF HubUpdated, HubTypeOK, RunType
    <2> QED
      BY <1>10, <2>1 DEF HubUpdated, Send, Unsubscribed, New, HubTypeOK, RunType, QueryType
  <1>11. ASSUME NEW d \in Conns, HubSend(d) PROVE Unsubscribed(c)'
    BY <1>11 DEF HubSend, Empty, Unsubscribed, New, HubTypeOK, RunType, QueryType
  <1>12. ASSUME NEW d \in Conns, RedoLocks(d) PROVE Unsubscribed(c)'
    BY SMTT(30), <1>12 DEF RedoLocks, Unsubscribed, New, HubTypeOK, RunType, QueryType
  <1>13. ASSUME NEW d \in Conns, RedoChecks(d) PROVE Unsubscribed(c)'
    BY <1>13 DEF RedoChecks, Jobs, Unsubscribed, New, HubTypeOK, RunType, QueryType
  <1>14. ASSUME NEW d \in Conns, NEW k \in Jobs, DoSearch(d, k) PROVE Unsubscribed(c)'
    BY <1>14 DEF DoSearch, Unsubscribed, New, HubTypeOK, RunType, QueryType
  <1>15. ASSUME NEW d \in Conns, NEW k \in Jobs, SearchFails(d, k) PROVE Unsubscribed(c)'
    BY <1>15 DEF SearchFails, Unsubscribed, New, HubTypeOK, RunType, QueryType
  <1>16. ASSUME NEW d \in Conns, NEW k \in Jobs, StoreResult(d, k) PROVE Unsubscribed(c)'
    BY <1>16 DEF StoreResult, Unsubscribed, New, HubTypeOK, RunType, QueryType
  <1>17. ASSUME NEW d \in Conns, NEW k \in Jobs, Announce(d, k) PROVE Unsubscribed(c)'
    BY <1>17 DEF Announce, Unsubscribed, New, HubTypeOK, RunType, QueryType
  <1>18. ASSUME NEW d \in Conns, ReadMessage(d) PROVE Unsubscribed(c)'
    <2>1. New(c)' => New(c)
      <3>1. CASE asked[d] = "sent"
        <4>1. /\ asked' = [asked EXCEPT ![d] = "read"]
              /\ \A x : In(x, watchReq') <=> In(x, watchReq) \/ x = Watch(d)
          BY <1>18, <3>1, ReadCases DEF HubTypeOK
        <4> QED
          BY <3>1, <4>1, WatchOK DEF New, HubTypeOK, PumpType
      <3>2. CASE asked[d] # "sent"
        <4>1. /\ asked' = [asked EXCEPT ![d] = "left"]
              /\ \A x : In(x, watchReq') <=> In(x, watchReq) \/ x = Unwatch(d)
          BY <1>18, <3>2, ReadCases DEF HubTypeOK
        <4> QED
          BY <3>2, <4>1, WatchOK DEF New, HubTypeOK, PumpType
      <3> QED
        BY <3>1, <3>2
    <2> QED
      BY <1>18, <2>1 DEF ReadMessage, Unsubscribed
  <1>19. ASSUME NEW d \in Conns, Deliver(d) PROVE Unsubscribed(c)'
    BY <1>19 DEF Deliver, Unsubscribed, New
  <1>20. ASSUME NEW d \in Conns, WriterEnds(d) PROVE Unsubscribed(c)'
    BY <1>20 DEF WriterEnds, Unsubscribed, New
  <1>21. ASSUME NEW d \in Conns, NEW n, NEW drop, Open(d, n, drop) PROVE Unsubscribed(c)'
    <2>1. asked[d] \in {"none", "sent"} /\ (c # d => asked'[c] = asked[c])
      BY <1>21 DEF Open, Life, HubTypeOK, PumpType
    <2>2. New(c)' => New(c)
      BY <1>21, <2>1 DEF Open, New
    <2> QED
      BY <1>21, <2>2 DEF Open, Unsubscribed
  <1>22. ASSUME NEW d \in Conns, Drop(d) PROVE Unsubscribed(c)'
    BY <1>22 DEF Drop, Unsubscribed, New
  <1>23. ASSUME UNCHANGED hubVars PROVE Unsubscribed(c)'
    BY <1>23 DEF hubVars, Unsubscribed, New
  <1>24. ASSUME SyncIndexes PROVE Unsubscribed(c)'
    BY <1>24 DEF SyncIndexes, Unsubscribed, New
  <1>25. ASSUME NEW t \in Types, ListenSkips(t) PROVE Unsubscribed(c)'
    BY <1>25 DEF ListenSkips, Unsubscribed, New
  <1>26. ASSUME NEW d \in Conns, Unsubscribe(d) PROVE Unsubscribed(c)'
    BY <1>26 DEF Unsubscribe, Unsubscribed, New, HubTypeOK, PumpType
  <1> QED
    BY <1>1, <1>2, <1>3, <1>4, <1>5, <1>6, <1>7, <1>8, <1>9, <1>10, <1>11, <1>12,
       <1>13, <1>14, <1>15, <1>16, <1>17, <1>18, <1>19, <1>20, <1>21, <1>22, <1>23,
       <1>24, <1>25, <1>26
       DEF HubNext, ServerNext, Listening, Selecting, Searching, Pumping

\* wq.refreshing is set while, and only while, a redoSearch is in its loop.
LEMMA FlagsStep ==
  ASSUME HubTypeOK, NEW c \in Conns, Flags(c), [HubNext]_hubVars
  PROVE  Flags(c)'
  <1>1. ASSUME NEW t \in Types, Upload(t) PROVE Flags(c)'
    BY <1>1 DEF Upload, Flags
  <1>2. ASSUME UploadIndexed PROVE Flags(c)'
    BY <1>2 DEF UploadIndexed, Flags
  <1>3. ASSUME NEW t \in Types, Listen(t) PROVE Flags(c)'
    BY <1>3 DEF Listen, Flags
  <1>4. ASSUME ListenerSends PROVE Flags(c)'
    BY <1>4 DEF ListenerSends, Flags
  <1>5. ASSUME HubStatus PROVE Flags(c)'
    BY <1>5 DEF HubStatus, Flags
  <1>6. ASSUME NEW d \in Conns, HubRegister(d) PROVE Flags(c)'
    BY <1>6 DEF HubRegister, Flags
  <1>7. ASSUME NEW d \in Conns, HubUnregister(d) PROVE Flags(c)'
    BY <1>7 DEF HubUnregister, Flags
  <1>8. ASSUME HubNewBlob PROVE Flags(c)'
    BY <1>8 DEF HubNewBlob, Flags
  <1>9. ASSUME HubWatch PROVE Flags(c)'
    <2>1. PICK d \in Conns : at' = [at EXCEPT ![d]["first"] = "query"] \/ at' = at
      BY <1>9, WatchCases DEF HubTypeOK
    <2>a. ASSUME at' = [at EXCEPT ![d]["first"] = "query"]
          PROVE  at'[c]["refresh"] = at[c]["refresh"]
      BY SMTT(30), <2>a DEF HubTypeOK, QueryType, Jobs
    <2>2. at'[c]["refresh"] = at[c]["refresh"]
      BY <2>1, <2>a
    <2> QED
      BY <1>9, <2>2 DEF HubWatch, Flags
  <1>10. ASSUME HubUpdated PROVE Flags(c)'
    BY <1>10 DEF HubUpdated, Flags
  <1>11. ASSUME NEW d \in Conns, HubSend(d) PROVE Flags(c)'
    BY <1>11 DEF HubSend, Flags
  <1>12. ASSUME NEW d \in Conns, RedoLocks(d) PROVE Flags(c)'
    BY <1>12 DEF RedoLocks, Flags, HubTypeOK, RunType, QueryType, Jobs
  <1>13. ASSUME NEW d \in Conns, RedoChecks(d) PROVE Flags(c)'
    BY <1>13 DEF RedoChecks, Flags, HubTypeOK, RunType, QueryType, Jobs
  <1>14. ASSUME NEW d \in Conns, NEW k \in Jobs, DoSearch(d, k) PROVE Flags(c)'
    BY SMTT(30), <1>14 DEF DoSearch, Flags, HubTypeOK, RunType, QueryType, Jobs
  <1>15. ASSUME NEW d \in Conns, NEW k \in Jobs, SearchFails(d, k) PROVE Flags(c)'
    BY SMTT(30), <1>15 DEF SearchFails, Done, Flags, HubTypeOK, RunType, QueryType, Jobs
  <1>16. ASSUME NEW d \in Conns, NEW k \in Jobs, StoreResult(d, k) PROVE Flags(c)'
    BY SMTT(30), <1>16 DEF StoreResult, Done, Flags, HubTypeOK, RunType, QueryType, Jobs
  <1>17. ASSUME NEW d \in Conns, NEW k \in Jobs, Announce(d, k) PROVE Flags(c)'
    BY SMTT(30), <1>17 DEF Announce, Done, Flags, HubTypeOK, RunType, QueryType, Jobs
  <1>18. ASSUME NEW d \in Conns, ReadMessage(d) PROVE Flags(c)'
    BY <1>18 DEF ReadMessage, Flags
  <1>19. ASSUME NEW d \in Conns, Deliver(d) PROVE Flags(c)'
    BY <1>19 DEF Deliver, Flags
  <1>20. ASSUME NEW d \in Conns, WriterEnds(d) PROVE Flags(c)'
    BY <1>20 DEF WriterEnds, Flags
  <1>21. ASSUME NEW d \in Conns, NEW n, NEW drop, Open(d, n, drop) PROVE Flags(c)'
    BY <1>21 DEF Open, Flags
  <1>22. ASSUME NEW d \in Conns, Drop(d) PROVE Flags(c)'
    BY <1>22 DEF Drop, Flags
  <1>23. ASSUME UNCHANGED hubVars PROVE Flags(c)'
    BY <1>23 DEF hubVars, Flags
  <1>24. ASSUME SyncIndexes PROVE Flags(c)'
    BY <1>24 DEF SyncIndexes, Flags
  <1>25. ASSUME NEW t \in Types, ListenSkips(t) PROVE Flags(c)'
    BY <1>25 DEF ListenSkips, Flags
  <1>26. ASSUME NEW d \in Conns, Unsubscribe(d) PROVE Flags(c)'
    BY <1>26 DEF Unsubscribe, Flags
  <1> QED
    BY <1>1, <1>2, <1>3, <1>4, <1>5, <1>6, <1>7, <1>8, <1>9, <1>10, <1>11, <1>12,
       <1>13, <1>14, <1>15, <1>16, <1>17, <1>18, <1>19, <1>20, <1>21, <1>22, <1>23,
       <1>24, <1>25, <1>26
       DEF HubNext, ServerNext, Listening, Selecting, Searching, Pumping

\* updatedResults names only queries that have a result.
LEMMA HeldStep ==
  ASSUME HubTypeOK, NEW c \in Conns, Unsubscribed(c), Held(c), [HubNext]_hubVars
  PROVE  Held(c)'
  <1>1. ASSUME NEW t \in Types, Upload(t) PROVE Held(c)'
    BY <1>1 DEF Upload, Held, Announced
  <1>2. ASSUME UploadIndexed PROVE Held(c)'
    BY <1>2 DEF UploadIndexed, Held, Announced
  <1>3. ASSUME NEW t \in Types, Listen(t) PROVE Held(c)'
    BY <1>3 DEF Listen, Held, Announced
  <1>4. ASSUME ListenerSends PROVE Held(c)'
    BY <1>4 DEF ListenerSends, Held, Announced
  <1>5. ASSUME HubStatus PROVE Held(c)'
    BY <1>5 DEF HubStatus, Held, Announced
  <1>6. ASSUME NEW d \in Conns, HubRegister(d) PROVE Held(c)'
    BY <1>6 DEF HubRegister, Held, Announced
  <1>7. ASSUME NEW d \in Conns, HubUnregister(d) PROVE Held(c)'
    BY <1>7 DEF HubUnregister, Held, Announced
  <1>8. ASSUME HubNewBlob PROVE Held(c)'
    BY <1>8 DEF HubNewBlob, Held, Announced
  <1>9. ASSUME HubWatch PROVE Held(c)'
    <2>1. PICK d \in Conns : at' = [at EXCEPT ![d]["first"] = "query"] \/ at' = at
      BY <1>9, WatchCases DEF HubTypeOK
    <2>a. ASSUME at' = [at EXCEPT ![d]["first"] = "query"], NEW k \in Jobs
          PROVE  at'[c][k] = "send" => at[c][k] = "send"
      BY SMTT(30), <2>a DEF HubTypeOK, QueryType, Jobs
    <2>2. \A k \in Jobs : at'[c][k] = "send" => at[c][k] = "send"
      BY <2>1, <2>a
    <2> QED
      BY <1>9, <2>2 DEF HubWatch, Held, Announced
  <1>10. ASSUME HubUpdated PROVE Held(c)'
    <2>1. In(c, updated)' => In(c, updated)
      BY <1>10, InTail DEF HubUpdated, HubTypeOK, RunType
    <2> QED
      BY <1>10, <2>1 DEF HubUpdated, Held, Announced, HubTypeOK, RunType, QueryType
  <1>11. ASSUME NEW d \in Conns, HubSend(d) PROVE Held(c)'
    BY <1>11 DEF HubSend, Held, Announced
  <1>12. ASSUME NEW d \in Conns, RedoLocks(d) PROVE Held(c)'
    BY <1>12 DEF RedoLocks, Jobs, Held, Announced, HubTypeOK, RunType, QueryType
  <1>13. ASSUME NEW d \in Conns, RedoChecks(d) PROVE Held(c)'
    BY <1>13 DEF RedoChecks, Jobs, Held, Announced, HubTypeOK, RunType, QueryType
  <1>14. ASSUME NEW d \in Conns, NEW k \in Jobs, DoSearch(d, k) PROVE Held(c)'
    BY <1>14 DEF DoSearch, Held, Announced, HubTypeOK, RunType, QueryType
  <1>15. ASSUME NEW d \in Conns, NEW k \in Jobs, SearchFails(d, k) PROVE Held(c)'
    BY <1>15 DEF SearchFails, Done, Held, Announced, HubTypeOK, RunType, QueryType
  <1>16. ASSUME NEW d \in Conns, NEW k \in Jobs, StoreResult(d, k) PROVE Held(c)'
    <2>1. In(c, updated)' => In(c, updated) \/ c = d
      BY <1>16, InAppend DEF StoreResult, HubTypeOK, RunType
    <2>2. CASE c = d
      <3>1. lastres'[c] = {found[c][k]} /\ found[c][k] \in SUBSET Items
        BY SMTT(30), <1>16, <2>2 DEF StoreResult, HubTypeOK, QueryType
      <3> QED
        BY <3>1 DEF Held
    <2>3. CASE c # d
      <3>1. lastres'[c] = lastres[c] /\ at'[c] = at[c]
        BY <1>16, <2>3 DEF StoreResult, HubTypeOK, QueryType
      <3> QED
        BY <2>1, <2>3, <3>1 DEF Held, Announced
    <2> QED
      BY <2>2, <2>3
  <1>17. ASSUME NEW d \in Conns, NEW k \in Jobs, Announce(d, k) PROVE Held(c)'
    <2>1. In(c, updated)' => In(c, updated) \/ c = d
      BY <1>17, InAppend DEF Announce, HubTypeOK, RunType
    <2> QED
      BY <1>17, <2>1 DEF Announce, Done, Held, Announced, HubTypeOK, RunType, QueryType
  <1>18. ASSUME NEW d \in Conns, ReadMessage(d) PROVE Held(c)'
    BY <1>18 DEF ReadMessage, Held, Announced
  <1>19. ASSUME NEW d \in Conns, Deliver(d) PROVE Held(c)'
    BY <1>19 DEF Deliver, Held, Announced
  <1>20. ASSUME NEW d \in Conns, WriterEnds(d) PROVE Held(c)'
    BY <1>20 DEF WriterEnds, Held, Announced
  <1>21. ASSUME NEW d \in Conns, NEW n, NEW drop, Open(d, n, drop) PROVE Held(c)'
    BY <1>21 DEF Open, Held, Announced
  <1>22. ASSUME NEW d \in Conns, Drop(d) PROVE Held(c)'
    BY <1>22 DEF Drop, Held, Announced
  <1>23. ASSUME UNCHANGED hubVars PROVE Held(c)'
    BY <1>23 DEF hubVars, Held, Announced
  <1>24. ASSUME SyncIndexes PROVE Held(c)'
    BY <1>24 DEF SyncIndexes, Held, Announced
  <1>25. ASSUME NEW t \in Types, ListenSkips(t) PROVE Held(c)'
    BY <1>25 DEF ListenSkips, Held, Announced
  <1>26. ASSUME NEW d \in Conns, Unsubscribe(d) PROVE Held(c)'
    BY <1>26 DEF Unsubscribe, Held, Announced
  <1> QED
    BY <1>1, <1>2, <1>3, <1>4, <1>5, <1>6, <1>7, <1>8, <1>9, <1>10, <1>11, <1>12,
       <1>13, <1>14, <1>15, <1>16, <1>17, <1>18, <1>19, <1>20, <1>21, <1>22, <1>23,
       <1>24, <1>25, <1>26
       DEF HubNext, ServerNext, Listening, Selecting, Searching, Pumping

\* No wakeup is lost: a change of the index is pending for every query or is in
\* its result.
LEMMA FreshStep ==
  ASSUME HubTypeOK, Life, NEW c \in Conns, Fresh(c), [HubNext]_hubVars
  PROVE  Fresh(c)'
  <1>1. ASSUME NEW t \in Types, Upload(t) PROVE Fresh(c)'
    <2>1. CASE lis # None
      <3>1. Page(limit[c], 0)' = Page(limit[c], 0)
        BY <1>1, <2>1 DEF Upload, Page, After
      <3> QED
        BY <1>1, <2>1, <3>1 DEF Upload, Fresh, Pending, Settled
    <2>2. CASE lis = None /\ t = "schema"
      <3>1. notified'["schema"] > 0
        BY SMTT(30), <1>1, <2>2 DEF Upload, Indexed, Types, HubTypeOK, FeedType
      <3> QED
        BY <3>1 DEF Fresh, Pending
    <2>3. CASE lis = None /\ t = "data"
      <3>1. Page(limit[c], 0)' = Page(limit[c], 0)
        BY <1>1, <2>3 DEF Upload, Indexed, Page, After
      <3>2. notified'["schema"] = notified["schema"]
        BY <1>1, <2>3 DEF Upload, Indexed, Types, HubTypeOK, FeedType
      <3> QED
        BY <1>1, <3>1, <3>2 DEF Upload, Fresh, Pending, Settled
    <2> QED
      BY <1>1, <2>1, <2>2, <2>3 DEF Types
  <1>2. ASSUME UploadIndexed PROVE Fresh(c)'
    <2>1. ixw \in Types
      BY <1>2 DEF UploadIndexed, HubTypeOK, FeedType
    <2>2. CASE ixw = "schema"
      <3>1. notified'["schema"] > 0
        BY SMTT(30), <1>2, <2>2 DEF UploadIndexed, Indexed, Types, HubTypeOK, FeedType
      <3> QED
        BY <3>1 DEF Fresh, Pending
    <2>3. CASE ixw = "data"
      <3>1. Page(limit[c], 0)' = Page(limit[c], 0)
        BY <1>2, <2>3 DEF UploadIndexed, Indexed, Page, After
      <3>2. notified'["schema"] = notified["schema"]
        BY <1>2, <2>3 DEF UploadIndexed, Indexed, Types, HubTypeOK, FeedType
      <3> QED
        BY <1>2, <3>1, <3>2 DEF UploadIndexed, Fresh, Pending, Settled
    <2> QED
      BY <2>1, <2>2, <2>3 DEF Types
  <1>3. ASSUME NEW t \in Types, Listen(t) PROVE Fresh(c)'
    <2>1. Page(limit[c], 0)' = Page(limit[c], 0)
      BY <1>3 DEF Listen, Page, After
    <2>2. \A x : In(x, Append(kicks, t)) <=> In(x, kicks) \/ x = t
      BY <1>3, InAppend DEF HubTypeOK, FeedType
    <2>3. CASE t = "schema"
      <3>1. lis' = "schema" \/ In("schema", kicks)'
        BY <1>3, <2>2, <2>3 DEF Listen
      <3> QED
        BY <3>1 DEF Fresh, Pending
    <2>4. CASE t = "data"
      <3>1. notified'["schema"] = notified["schema"] /\ (In("schema", kicks)' <=> In("schema", kicks))
        BY <1>3, <2>2, <2>4 DEF Listen, Types, HubTypeOK, FeedType
      <3>2. lis # "schema"
        BY <1>3 DEF Listen, None
      <3> QED
        BY <1>3, <2>1, <3>1, <3>2 DEF Listen, Fresh, Pending, Settled
    <2> QED
      BY <1>3, <2>3, <2>4 DEF Types
  <1>4. ASSUME ListenerSends PROVE Fresh(c)'
    <2>1. Page(limit[c], 0)' = Page(limit[c], 0)
      BY <1>4 DEF ListenerSends, Page, After
    <2>2. \A x : In(x, kicks)' <=> In(x, kicks) \/ x = lis
      BY <1>4, InAppend DEF ListenerSends, HubTypeOK, FeedType
    <2> QED
      BY <1>4, <2>1, <2>2 DEF ListenerSends, Fresh, Pending, Settled
  <1>5. ASSUME HubStatus PROVE Fresh(c)'
    <2>1. Page(limit[c], 0)' = Page(limit[c], 0)
      BY <1>5 DEF HubStatus, Page, After
    <2> QED
      BY <1>5, <2>1 DEF HubStatus, Fresh, Pending, Settled
  <1>6. ASSUME NEW d \in Conns, HubRegister(d) PROVE Fresh(c)'
    <2>1. Page(limit[c], 0)' = Page(limit[c], 0)
      BY <1>6 DEF HubRegister, Page, After
    <2>2. d \notin subs
      BY <1>6 DEF HubRegister, Life
    <2> QED
      BY <1>6, <2>1, <2>2 DEF HubRegister, Fresh, Pending, Settled
  <1>7. ASSUME NEW d \in Conns, HubUnregister(d) PROVE Fresh(c)'
    <2>1. Page(limit[c], 0)' = Page(limit[c], 0)
      BY <1>7 DEF HubUnregister, Page, After
    <2> QED
      BY <1>7, <2>1 DEF HubUnregister, Fresh, Pending, Settled
  <1>8. ASSUME HubNewBlob PROVE Fresh(c)'
    <2>1. Page(limit[c], 0)' = Page(limit[c], 0)
      BY <1>8 DEF HubNewBlob, Page, After
    <2>2. In("schema", kicks) <=> Head(kicks) = "schema" \/ In("schema", Tail(kicks))
      BY <1>8, InTail DEF HubNewBlob, HubTypeOK, FeedType
    <2>3. CASE Head(kicks) = "data"
      BY <1>8, <2>1, <2>2, <2>3 DEF HubNewBlob, Fresh, Pending, Settled
    <2>4. CASE Head(kicks) # "data"
      <3>1. c \in conns \cap subs => spawned'[c] > 0
        BY SMTT(30), <1>8, <2>4 DEF HubNewBlob, HubTypeOK, QueryType
      <3> QED
        BY <1>8, <3>1 DEF HubNewBlob, Fresh, Pending
    <2> QED
      BY <2>3, <2>4
  <1>9. ASSUME HubWatch PROVE Fresh(c)'
    <2>1. PICK d \in Conns :
            \/ /\ Head(watchReq) = Watch(d) /\ subs' = subs \cup {d}
               /\ at' = [at EXCEPT ![d]["first"] = "query"]
            \/ Head(watchReq) = Unwatch(d) /\ subs' = subs \ {d} /\ at' = at
      BY <1>9, WatchCases DEF HubTypeOK
    <2>2. Page(limit[c], 0)' = Page(limit[c], 0)
      BY <1>9 DEF HubWatch, Page, After
    <2>3. CASE c = d /\ Head(watchReq) = Watch(d)
      <3>a. at' = [at EXCEPT ![d]["first"] = "query"]
        BY <2>1, <2>3, WatchOK
      <3>1. at'[c]["first"] = "query"
        BY <2>3, <3>a DEF HubTypeOK, QueryType, Jobs
      <3> QED
        BY <3>1 DEF Fresh, Pending, Jobs
    <2>4. CASE ~(c = d /\ Head(watchReq) = Watch(d))
      <3>1. at'[c] = at[c] /\ (c \in subs' => c \in subs)
        BY <2>1, <2>4 DEF HubTypeOK, QueryType
      <3> QED
        BY <1>9, <2>2, <3>1 DEF HubWatch, Fresh, Pending, Settled
    <2> QED
      BY <2>3, <2>4
  <1>10. ASSUME HubUpdated PROVE Fresh(c)'
    <2>1. Page(limit[c], 0)' = Page(limit[c], 0)
      BY <1>10 DEF HubUpdated, Page, After
    <2> QED
      BY <1>10, <2>1 DEF HubUpdated, Fresh, Pending, Settled
  <1>11. ASSUME NEW d \in Conns, HubSend(d) PROVE Fresh(c)'
    <2>1. Page(limit[c], 0)' = Page(limit[c], 0)
      BY <1>11 DEF HubSend, Page, After
    <2> QED
      BY <1>11, <2>1 DEF HubSend, Fresh, Pending, Settled
  <1>12. ASSUME NEW d \in Conns, RedoLocks(d) PROVE Fresh(c)'
    <2>1. Page(limit[c], 0)' = Page(limit[c], 0)
      BY <1>12 DEF RedoLocks, Page, After
    <2>2. CASE c # d
      <3>1. at'[c] = at[c] /\ found'[c] = found[c] /\ lastres'[c] = lastres[c] /\ dirty'[c] = dirty[c]
            /\ spawned'[c] = spawned[c] /\ crossed'[c] = crossed[c] /\ failed'[c] = failed[c]
        BY <1>12, <2>2 DEF RedoLocks, HubTypeOK, QueryType
      <3> QED
        BY <1>12, <2>1, <3>1 DEF RedoLocks, Fresh, Pending, Settled
    <2>3. CASE c = d
      <3>1. dirty'[c] \/ at'[c]["refresh"] = "query"
        BY <1>12, <2>3 DEF RedoLocks, HubTypeOK, QueryType, Jobs
      <3> QED
        BY <3>1 DEF Fresh, Pending, Jobs
    <2> QED
      BY <2>2, <2>3
  <1>13. ASSUME NEW d \in Conns, RedoChecks(d) PROVE Fresh(c)'
    <2>1. Page(limit[c], 0)' = Page(limit[c], 0)
      BY <1>13 DEF RedoChecks, Page, After
    <2>2. CASE c # d
      <3>1. at'[c] = at[c] /\ found'[c] = found[c] /\ lastres'[c] = lastres[c] /\ dirty'[c] = dirty[c]
            /\ spawned'[c] = spawned[c] /\ crossed'[c] = crossed[c] /\ failed'[c] = failed[c]
        BY <1>13, <2>2 DEF RedoChecks, HubTypeOK, QueryType
      <3> QED
        BY <1>13, <2>1, <3>1 DEF RedoChecks, Fresh, Pending, Settled
    <2>3. CASE c = d
      <3>1. CASE dirty[c]
        <4>1. at'[c]["refresh"] = "query"
          BY <1>13, <2>3, <3>1 DEF RedoChecks, HubTypeOK, QueryType, Jobs
        <4> QED
          BY <4>1 DEF Fresh, Pending, Jobs
      <3>2. CASE ~dirty[c]
        <4>1. \A j \in Jobs : (at'[c][j] = "query" <=> at[c][j] = "query")
                              /\ (at'[c][j] = "store" <=> at[c][j] = "store")
          BY <1>13, <2>3, <3>2 DEF RedoChecks, HubTypeOK, QueryType, Jobs
        <4> QED
          BY <1>13, <2>1, <3>2, <4>1 DEF RedoChecks, Fresh, Pending, Settled
      <3> QED
        BY <3>1, <3>2
    <2> QED
      BY <2>2, <2>3
  <1>14. ASSUME NEW d \in Conns, NEW k \in Jobs, DoSearch(d, k) PROVE Fresh(c)'
    <2>1. Page(limit[c], 0)' = Page(limit[c], 0)
      BY <1>14 DEF DoSearch, Page, After
    <2>2. CASE c # d
      <3>1. at'[c] = at[c] /\ found'[c] = found[c] /\ lastres'[c] = lastres[c] /\ dirty'[c] = dirty[c]
            /\ spawned'[c] = spawned[c] /\ crossed'[c] = crossed[c] /\ failed'[c] = failed[c]
        BY <1>14, <2>2 DEF DoSearch, HubTypeOK, QueryType
      <3> QED
        BY <1>14, <2>1, <3>1 DEF DoSearch, Fresh, Pending, Settled
    <2>3. CASE c = d
      <3>1. at'[c][k] = "store" /\ found'[c][k] = Page(limit[c], 0)
        BY <1>14, <2>3 DEF DoSearch, HubTypeOK, QueryType
      <3>2. \A j \in Jobs \ {k} : at'[c][j] = at[c][j] /\ (at[c][j] = "store" => crossed'[c])
        BY <1>14, <2>3 DEF DoSearch, HubTypeOK, QueryType
      <3> QED
        BY <2>1, <3>1, <3>2 DEF Fresh, Settled
    <2> QED
      BY <2>2, <2>3
  <1>15. ASSUME NEW d \in Conns, NEW k \in Jobs, SearchFails(d, k) PROVE Fresh(c)'
    <2>1. Page(limit[c], 0)' = Page(limit[c], 0)
      BY <1>15 DEF SearchFails, Page, After
    <2>2. CASE c # d
      <3>1. at'[c] = at[c] /\ found'[c] = found[c] /\ lastres'[c] = lastres[c] /\ dirty'[c] = dirty[c]
            /\ spawned'[c] = spawned[c] /\ crossed'[c] = crossed[c] /\ failed'[c] = failed[c]
        BY <1>15, <2>2 DEF SearchFails, HubTypeOK, QueryType
      <3> QED
        BY <1>15, <2>1, <3>1 DEF SearchFails, Fresh, Pending, Settled
    <2>3. CASE c = d
      <3>1. failed'[c]
        BY <1>15, <2>3 DEF SearchFails, HubTypeOK, QueryType
      <3> QED
        BY <3>1 DEF Fresh
    <2> QED
      BY <2>2, <2>3
  <1>16. ASSUME NEW d \in Conns, NEW k \in Jobs, StoreResult(d, k) PROVE Fresh(c)'
    <2>1. Page(limit[c], 0)' = Page(limit[c], 0)
      BY <1>16 DEF StoreResult, Page, After
    <2>2. CASE c # d
      <3>1. at'[c] = at[c] /\ found'[c] = found[c] /\ lastres'[c] = lastres[c] /\ dirty'[c] = dirty[c]
            /\ spawned'[c] = spawned[c] /\ crossed'[c] = crossed[c] /\ failed'[c] = failed[c]
        BY <1>16, <2>2 DEF StoreResult, HubTypeOK, QueryType
      <3> QED
        BY <1>16, <2>1, <3>1 DEF StoreResult, Fresh, Pending, Settled
    <2>3. CASE c = d
      <3>1. /\ lastres'[c] = {found[c][k]}
            /\ \A j \in Jobs \ {k} : at'[c][j] = at[c][j] /\ found'[c][j] = found[c][j]
            /\ at[c][k] = "store" /\ at'[c][k] \notin {"store", "query"}
        BY <1>16, <2>3 DEF StoreResult, Done, HubTypeOK, QueryType
      <3>2. ASSUME Pending(c) PROVE Pending(c)'
        BY <1>16, <3>1, <3>2 DEF StoreResult, Pending
      <3>3. ASSUME Settled(c) PROVE Settled(c)'
        BY <2>1, <3>1, <3>3 DEF Settled
      <3> QED
        BY <1>16, <3>2, <3>3 DEF StoreResult, Fresh
    <2> QED
      BY <2>2, <2>3
  <1>17. ASSUME NEW d \in Conns, NEW k \in Jobs, Announce(d, k) PROVE Fresh(c)'
    <2>1. Page(limit[c], 0)' = Page(limit[c], 0)
      BY <1>17 DEF Announce, Page, After
    <2>2. CASE c # d
      <3>1. at'[c] = at[c] /\ found'[c] = found[c] /\ lastres'[c] = lastres[c] /\ dirty'[c] = dirty[c]
            /\ spawned'[c] = spawned[c] /\ crossed'[c] = crossed[c] /\ failed'[c] = failed[c]
        BY <1>17, <2>2 DEF Announce, HubTypeOK, QueryType
      <3> QED
        BY <1>17, <2>1, <3>1 DEF Announce, Fresh, Pending, Settled
    <2>3. CASE c = d
      <3>1. /\ \A j \in Jobs \ {k} : at'[c][j] = at[c][j]
            /\ at[c][k] = "send" /\ at'[c][k] \notin {"store", "query"}
        BY <1>17, <2>3 DEF Announce, Done, HubTypeOK, QueryType
      <3>2. ASSUME Pending(c) PROVE Pending(c)'
        BY <1>17, <3>1, <3>2 DEF Announce, Pending
      <3>3. ASSUME Settled(c) PROVE Settled(c)'
        BY <1>17, <2>1, <3>1, <3>3 DEF Announce, Settled
      <3> QED
        BY <1>17, <3>2, <3>3 DEF Announce, Fresh
    <2> QED
      BY <2>2, <2>3
  <1>18. ASSUME NEW d \in Conns, ReadMessage(d) PROVE Fresh(c)'
    <2>1. Page(limit[c], 0)' = Page(limit[c], 0)
      BY <1>18 DEF ReadMessage, Page, After
    <2> QED
      BY <1>18, <2>1 DEF ReadMessage, Fresh, Pending, Settled
  <1>19. ASSUME NEW d \in Conns, Deliver(d) PROVE Fresh(c)'
    <2>1. Page(limit[c], 0)' = Page(limit[c], 0)
      BY <1>19 DEF Deliver, Page, After
    <2> QED
      BY <1>19, <2>1 DEF Deliver, Fresh, Pending, Settled
  <1>20. ASSUME NEW d \in Conns, WriterEnds(d) PROVE Fresh(c)'
    <2>1. Page(limit[c], 0)' = Page(limit[c], 0)
      BY <1>20 DEF WriterEnds, Page, After
    <2> QED
      BY <1>20, <2>1 DEF WriterEnds, Fresh, Pending, Settled
  <1>21. ASSUME NEW d \in Conns, NEW n, NEW drop, Open(d, n, drop) PROVE Fresh(c)'
    <2>1. d \notin subs
      BY <1>21 DEF Open, Life
    <2>2. CASE c = d
      BY <1>21, <2>1, <2>2 DEF Open, Fresh
    <2>3. CASE c # d
      <3>1. limit'[c] = limit[c]
        BY SMTT(30), <1>21, <2>3 DEF Open
      <3>2. Page(limit[c], 0)' = Page(limit[c], 0)
        BY <1>21, <3>1 DEF Open, Page, After
      <3> QED
        BY <1>21, <3>2 DEF Open, Fresh, Pending, Settled
    <2> QED
      BY <2>2, <2>3
  <1>22. ASSUME NEW d \in Conns, Drop(d) PROVE Fresh(c)'
    <2>1. Page(limit[c], 0)' = Page(limit[c], 0)
      BY <1>22 DEF Drop, Page, After
    <2> QED
      BY <1>22, <2>1 DEF Drop, Fresh, Pending, Settled
  <1>23. ASSUME UNCHANGED hubVars PROVE Fresh(c)'
    <2>1. Page(limit[c], 0)' = Page(limit[c], 0)
      BY <1>23 DEF hubVars, Page, After
    <2> QED
      BY <1>23, <2>1 DEF hubVars, Fresh, Pending, Settled
  <1>24. ASSUME SyncIndexes PROVE Fresh(c)'
    <2>1. c \in subs => failed'[c]
      BY <1>24 DEF SyncIndexes, Unseen
    <2> QED
      BY <1>24, <2>1 DEF SyncIndexes, Fresh
  <1>25. ASSUME NEW t \in Types, ListenSkips(t) PROVE Fresh(c)'
    <2>1. Page(limit[c], 0)' = Page(limit[c], 0)
      BY <1>25 DEF ListenSkips, Page, After
    <2>2. CASE t = "schema"
      <3>1. c \in subs => failed'[c]
        BY <1>25, <2>2 DEF ListenSkips, Unseen
      <3> QED
        BY <1>25, <3>1 DEF ListenSkips, Fresh
    <2>3. CASE t = "data"
      <3>1. notified'["schema"] = notified["schema"]
        BY <1>25, <2>3 DEF ListenSkips, Types, HubTypeOK, FeedType
      <3>2. failed' = failed
        BY <1>25, <2>3 DEF ListenSkips
      <3> QED
        BY <1>25, <2>1, <3>1, <3>2 DEF ListenSkips, Fresh, Pending, Settled
    <2> QED
      BY <1>25, <2>2, <2>3 DEF Types
  <1>26. ASSUME NEW d \in Conns, Unsubscribe(d) PROVE Fresh(c)'
    <2>1. Page(limit[c], 0)' = Page(limit[c], 0)
      BY <1>26 DEF Unsubscribe, Page, After
    <2> QED
      BY <1>26, <2>1 DEF Unsubscribe, Fresh, Pending, Settled
  <1> QED
    BY <1>1, <1>2, <1>3, <1>4, <1>5, <1>6, <1>7, <1>8, <1>9, <1>10, <1>11, <1>12,
       <1>13, <1>14, <1>15, <1>16, <1>17, <1>18, <1>19, <1>20, <1>21, <1>22, <1>23,
       <1>24, <1>25, <1>26
       DEF HubNext, ServerNext, Listening, Selecting, Searching, Pumping

\* No update is lost: the result that is stored is announced, being sent or sent.
LEMMA SentStep ==
  ASSUME HubTypeOK, Life, Waiting, NEW c \in Conns,
         Unsubscribed(c), Flags(c), Held(c), Sent(c), [HubNext]_hubVars
  PROVE  Sent(c)'
  <1>1. ASSUME NEW t \in Types, Upload(t) PROVE Sent(c)'
    BY <1>1 DEF Upload, Sent, Announced
  <1>2. ASSUME UploadIndexed PROVE Sent(c)'
    BY <1>2 DEF UploadIndexed, Sent, Announced
  <1>3. ASSUME NEW t \in Types, Listen(t) PROVE Sent(c)'
    BY <1>3 DEF Listen, Sent, Announced
  <1>4. ASSUME ListenerSends PROVE Sent(c)'
    BY <1>4 DEF ListenerSends, Sent, Announced
  <1>5. ASSUME HubStatus PROVE Sent(c)'
    <2>1. Status.kind # "result" /\ Empty.kind # "result"
      BY DEF Status, Empty
    <2> QED
      BY <1>5, <2>1 DEF HubStatus, Sent, Announced
  <1>6. ASSUME NEW d \in Conns, HubRegister(d) PROVE Sent(c)'
    <2>1. last.kind # "result"
      BY SMTT(30) DEF Status, Empty, HubTypeOK, RunType
    <2>2. d \notin subs
      BY <1>6 DEF HubRegister, Life
    <2>3. c # d => told'[c] = told[c]
      BY <1>6, <2>1 DEF HubRegister, Send
    <2> QED
      BY <1>6, <2>1, <2>2, <2>3 DEF HubRegister, Send, Sent, Announced
  <1>7. ASSUME NEW d \in Conns, HubUnregister(d) PROVE Sent(c)'
    <2>1. c # d => told'[c] = told[c]
      BY SMTT(30), <1>7 DEF HubUnregister
    <2> QED
      BY <1>7, <2>1 DEF HubUnregister, Sent, Announced
  <1>8. ASSUME HubNewBlob PROVE Sent(c)'
    BY <1>8 DEF HubNewBlob, Sent, Announced
  <1>9. ASSUME HubWatch PROVE Sent(c)'
    <2>1. PICK d \in Conns :
            \/ /\ Head(watchReq) = Watch(d) /\ subs' = subs \cup {d}
               /\ at' = [at EXCEPT ![d]["first"] = "query"]
            \/ Head(watchReq) = Unwatch(d) /\ subs' = subs \ {d} /\ at' = at
      BY <1>9, WatchCases DEF HubTypeOK
    <2>2. CASE c = d /\ Head(watchReq) = Watch(d)
      <3>1. New(c)
        BY <1>9, <2>2, WatchCases DEF New, HubTypeOK
      <3> QED
        BY <1>9, <3>1 DEF HubWatch, Unsubscribed, Sent
    <2>3. CASE ~(c = d /\ Head(watchReq) = Watch(d))
      <3>1. at'[c] = at[c] /\ (c \in subs' => c \in subs)
        BY <2>1, <2>3 DEF HubTypeOK, QueryType
      <3> QED
        BY <1>9, <3>1 DEF HubWatch, Sent, Announced
    <2> QED
      BY <2>2, <2>3
  <1>10. ASSUME HubUpdated PROVE Sent(c)'
    <2>1. Head(updated) \in Conns /\ (In(c, updated) <=> c = Head(updated) \/ In(c, Tail(updated)))
      BY <1>10, InTail DEF HubUpdated, HubTypeOK, RunType
    <2>2. CASE c # Head(updated)
      <3>1. \A m : Send(Head(updated), m) => told'[c] = told[c] /\ (out' = out \/ out' = {Head(updated)})
        BY <2>2 DEF Send, HubTypeOK, RunType
      <3>2. told'[c] = told[c] /\ c \notin out /\ c \notin out'
        BY <1>10, <2>2, <3>1 DEF HubUpdated
      <3> QED
        BY <1>10, <2>1, <2>2, <3>2 DEF HubUpdated, Sent, Announced
    <2>3. CASE c = Head(updated) /\ c \in conns \cap subs
      <3>1. PICK p : lastres[c] = {p}
        BY <1>10, <2>1, <2>3 DEF HubUpdated, Held, Announced
      <3>2. UNION lastres[c] = p
        BY <3>1
      <3>3. Send(c, Result(p)) /\ lastres' = lastres /\ out = {}
        BY <1>10, <2>3, <3>2 DEF HubUpdated
      <3>4. Result(p).kind = "result" /\ Result(p).page = p
        BY DEF Result
      <3>5. \/ told'[c] = {p} /\ out' = {}
            \/ out' = {c} /\ msg' = Result(p)
        BY <3>3, <3>4 DEF Send, HubTypeOK, RunType
      <3> QED
        BY <3>1, <3>3, <3>4, <3>5 DEF Sent
    <2>4. CASE c \notin conns \cap subs
      BY <1>10, <2>4 DEF HubUpdated, Sent
    <2> QED
      BY <2>2, <2>3, <2>4
  <1>11. ASSUME NEW d \in Conns, HubSend(d) PROVE Sent(c)'
    <2>1. CASE c = d
      <3>1. c \in out /\ c \notin out'
        BY <1>11, <2>1 DEF HubSend
      <3>2. told'[c] = IF msg.kind = "result" THEN {msg.page} ELSE told[c]
        BY <1>11, <2>1 DEF HubSend, HubTypeOK, RunType
      <3> QED
        BY <1>11, <3>1, <3>2 DEF HubSend, Sent, Announced
    <2>2. CASE c # d
      <3>1. told'[c] = told[c] /\ (c \in out' <=> c \in out) /\ (c \in out => msg' = msg)
        BY SMTT(30), <1>11, <2>2 DEF HubSend
      <3> QED
        BY <1>11, <3>1 DEF HubSend, Sent, Announced
    <2> QED
      BY <2>1, <2>2
  <1>12. ASSUME NEW d \in Conns, RedoLocks(d) PROVE Sent(c)'
    <2>1. CASE c # d
      <3>1. at'[c] = at[c] /\ lastres'[c] = lastres[c]
        BY <1>12, <2>1 DEF RedoLocks, HubTypeOK, QueryType
      <3> QED
        BY <1>12, <3>1 DEF RedoLocks, Sent, Announced
    <2>2. CASE c = d
      <3>1. \A j \in Jobs : at[c][j] = "send" => at'[c][j] = "send"
        BY <1>12, <2>2 DEF RedoLocks, HubTypeOK, QueryType, Jobs, Flags
      <3> QED
        BY <1>12, <3>1 DEF RedoLocks, Sent, Announced
    <2> QED
      BY <2>1, <2>2
  <1>13. ASSUME NEW d \in Conns, RedoChecks(d) PROVE Sent(c)'
    <2>1. CASE c # d
      <3>1. at'[c] = at[c] /\ lastres'[c] = lastres[c]
        BY <1>13, <2>1 DEF RedoChecks, HubTypeOK, QueryType
      <3> QED
        BY <1>13, <3>1 DEF RedoChecks, Sent, Announced
    <2>2. CASE c = d
      <3>1. \A j \in Jobs : at[c][j] = "send" => at'[c][j] = "send"
        BY <1>13, <2>2 DEF RedoChecks, Done, HubTypeOK, QueryType, Jobs
      <3> QED
        BY <1>13, <3>1 DEF RedoChecks, Sent, Announced
    <2> QED
      BY <2>1, <2>2
  <1>14. ASSUME NEW d \in Conns, NEW k \in Jobs, DoSearch(d, k) PROVE Sent(c)'
    <2>1. CASE c # d
      <3>1. at'[c] = at[c] /\ lastres'[c] = lastres[c]
        BY <1>14, <2>1 DEF DoSearch, HubTypeOK, QueryType
      <3> QED
        BY <1>14, <3>1 DEF DoSearch, Sent, Announced
    <2>2. CASE c = d
      <3>1. \A j \in Jobs : at[c][j] = "send" => at'[c][j] = "send"
        BY <1>14, <2>2 DEF DoSearch, Done, HubTypeOK, QueryType, Jobs
      <3> QED
        BY <1>14, <3>1 DEF DoSearch, Sent, Announced
    <2> QED
      BY <2>1, <2>2
  <1>15. ASSUME NEW d \in Conns, NEW k \in Jobs, SearchFails(d, k) PROVE Sent(c)'
    <2>1. CASE c # d
      <3>1. at'[c] = at[c] /\ lastres'[c] = lastres[c]
        BY <1>15, <2>1 DEF SearchFails, HubTypeOK, QueryType
      <3> QED
        BY <1>15, <3>1 DEF SearchFails, Sent, Announced
    <2>2. CASE c = d
      <3>1. \A j \in Jobs : at[c][j] = "send" => at'[c][j] = "send"
        BY <1>15, <2>2 DEF SearchFails, Done, HubTypeOK, QueryType, Jobs
      <3> QED
        BY <1>15, <3>1 DEF SearchFails, Sent, Announced
    <2> QED
      BY <2>1, <2>2
  <1>16. ASSUME NEW d \in Conns, NEW k \in Jobs, StoreResult(d, k) PROVE Sent(c)'
    <2>a. In(c, updated) => In(c, updated)'
      BY <1>16, InAppend DEF StoreResult, HubTypeOK, RunType
    <2>1. CASE c # d
      <3>1. at'[c] = at[c] /\ lastres'[c] = lastres[c]
        BY <1>16, <2>1 DEF StoreResult, HubTypeOK, QueryType
      <3> QED
        BY <1>16, <2>a, <3>1 DEF StoreResult, Sent, Announced
    <2>2. CASE c = d
      <3>1. lastres[c] = {found[c][k]} \/ In(c, updated)' \/ at'[c][k] = "send"
        BY SMTT(30), <1>16, <2>2, InAppend DEF StoreResult, HubTypeOK, RunType, QueryType
      <3>2. lastres'[c] = {found[c][k]} /\ \A j \in Jobs : at[c][j] = "send" => at'[c][j] = "send"
        BY <1>16, <2>2 DEF StoreResult, HubTypeOK, QueryType
      <3> QED
        BY <1>16, <2>a, <3>1, <3>2 DEF StoreResult, Sent, Announced
    <2> QED
      BY <2>1, <2>2
  <1>17. ASSUME NEW d \in Conns, NEW k \in Jobs, Announce(d, k) PROVE Sent(c)'
    <2>a. In(c, updated)' <=> In(c, updated) \/ c = d
      BY <1>17, InAppend DEF Announce, HubTypeOK, RunType
    <2>1. CASE c # d
      <3>1. at'[c] = at[c] /\ lastres'[c] = lastres[c]
        BY <1>17, <2>1 DEF Announce, HubTypeOK, QueryType
      <3> QED
        BY <1>17, <2>a, <3>1 DEF Announce, Sent, Announced
    <2>2. CASE c = d
      BY <2>a, <2>2 DEF Sent, Announced
    <2> QED
      BY <2>1, <2>2
  <1>18. ASSUME NEW d \in Conns, ReadMessage(d) PROVE Sent(c)'
    BY <1>18 DEF ReadMessage, Sent, Announced
  <1>19. ASSUME NEW d \in Conns, Deliver(d) PROVE Sent(c)'
    BY <1>19 DEF Deliver, Sent, Announced
  <1>20. ASSUME NEW d \in Conns, WriterEnds(d) PROVE Sent(c)'
    BY <1>20 DEF WriterEnds, Sent, Announced
  <1>21. ASSUME NEW d \in Conns, NEW n, NEW drop, Open(d, n, drop) PROVE Sent(c)'
    BY <1>21 DEF Open, Sent, Announced
  <1>22. ASSUME NEW d \in Conns, Drop(d) PROVE Sent(c)'
    BY <1>22 DEF Drop, Sent, Announced
  <1>23. ASSUME UNCHANGED hubVars PROVE Sent(c)'
    BY <1>23 DEF hubVars, Sent, Announced
  <1>24. ASSUME SyncIndexes PROVE Sent(c)'
    BY <1>24 DEF SyncIndexes, Sent, Announced
  <1>25. ASSUME NEW t \in Types, ListenSkips(t) PROVE Sent(c)'
    BY <1>25 DEF ListenSkips, Sent, Announced
  <1>26. ASSUME NEW d \in Conns, Unsubscribe(d) PROVE Sent(c)'
    BY <1>26 DEF Unsubscribe, Sent, Announced
  <1> QED
    BY <1>1, <1>2, <1>3, <1>4, <1>5, <1>6, <1>7, <1>8, <1>9, <1>10, <1>11, <1>12,
       <1>13, <1>14, <1>15, <1>16, <1>17, <1>18, <1>19, <1>20, <1>21, <1>22, <1>23,
       <1>24, <1>25, <1>26
       DEF HubNext, ServerNext, Listening, Selecting, Searching, Pumping

\* The inductive invariant holds when the hub starts.
LEMMA InitHolds == HubInit => HubInv
  <1> SUFFICES ASSUME HubInit PROVE HubInv
    OBVIOUS
  <1>1. HubTypeOK
    BY SMTT(30), MessagesOK, HubAssumption DEF HubInit, HubTypeOK, FeedType, RunType, PumpType, QueryType
  <1>2. \A x : ~In(x, watchReq) /\ ~In(x, updated)
    BY SMTT(30) DEF HubInit, In
  <1>3. Life /\ Waiting
    BY SMTT(30), <1>2 DEF HubInit, Life, Waiting, Once
  <1>4. ASSUME NEW c \in Conns
        PROVE  Unsubscribed(c) /\ Flags(c) /\ Held(c) /\ Fresh(c) /\ Sent(c)
    BY <1>2 DEF HubInit, Unsubscribed, Flags, Held, Fresh, Sent, Announced, Jobs
  <1> QED
    BY <1>1, <1>3, <1>4 DEF HubInv

\* Every step of the hub and of its clients preserves the inductive invariant.
LEMMA StepHolds == HubInv /\ [HubNext]_hubVars => HubInv'
  <1> SUFFICES ASSUME HubInv, [HubNext]_hubVars PROVE HubInv'
    OBVIOUS
  <1>1. HubTypeOK'
    BY FeedTypeStep, RunTypeStep, PumpTypeStep, QueryTypeStep DEF HubInv, HubTypeOK
  <1>2. Life' /\ Waiting'
    BY LifeStep, WaitingStep DEF HubInv
  <1>3. ASSUME NEW c \in Conns
        PROVE  (Unsubscribed(c) /\ Flags(c) /\ Held(c) /\ Fresh(c) /\ Sent(c))'
    <2>1. /\ HubTypeOK /\ Life /\ Waiting
          /\ Unsubscribed(c) /\ Flags(c) /\ Held(c) /\ Fresh(c) /\ Sent(c)
      BY <1>3 DEF HubInv
    <2>2. Unsubscribed(c)' /\ Flags(c)'
      BY <1>3, <2>1, UnsubscribedStep, FlagsStep
    <2>3. Held(c)' /\ Fresh(c)'
      BY <1>3, <2>1, HeldStep, FreshStep
    <2>4. Sent(c)'
      BY <1>3, <2>1, SentStep
    <2> QED
      BY <2>2, <2>3, <2>4
  <1> QED
    BY <1>1, <1>2, <1>3 DEF HubInv

\* The inductive invariant implies the invariants of the hub.
LEMMA InvIsEnough == HubInv => NoSendOnClosed /\ HubFresh
  <1> SUFFICES ASSUME HubInv PROVE NoSendOnClosed /\ HubFresh
    OBVIOUS
  <1>1. NoSendOnClosed
    BY DEF HubInv, Life, NoSendOnClosed
  <1>2. ASSUME NEW c \in Conns, Quiet(c), ~crossed[c], ~failed[c]
        PROVE  told[c] = {Page(limit[c], 0)}
    <2>1. HubTypeOK /\ Flags(c) /\ Fresh(c) /\ Sent(c)
      BY <1>2 DEF HubInv
    <2>2. ~dirty[c]
      BY <1>2, <2>1 DEF Quiet, Flags, Jobs
    <2>3. ~Pending(c)
      BY SMTT(30), <1>2, <2>2 DEF Quiet, Pending
    <2>4. lastres[c] = {Page(limit[c], 0)}
      BY <1>2, <2>1, <2>3 DEF Quiet, Fresh, Settled
    <2>5. told[c] = lastres[c]
      BY <1>2, <2>1 DEF Quiet, Sent, Announced
    <2> QED
      BY <2>4, <2>5
  <1> QED
    BY <1>1, <1>2 DEF HubFresh

\* HubInv holds of the hub with clients that open and drop connections and
\* withdraw their subscriptions at any time: in every interleaving of run, the
\* pumps, the searches, the listener, uploads and the sync handler.
THEOREM HubInvariance == HubSpec => []HubInv
  <1> QED
    BY InitHolds, StepHolds, PTL DEF HubSpec

\* The session's socket is one of the connections, or none.
SockOK == sock \in Conns \cup {0}

\* startSocketQuery_ sets socket_ to a connection.
LEMMA SockStep == SockOK /\ [Next]_vars => SockOK'
  <1> SUFFICES ASSUME SockOK, [Next]_vars PROVE SockOK'
    OBVIOUS
  <1>1. ASSUME ServerNext /\ UNCHANGED <<xhr, sessVars>> PROVE sock' = sock
    BY <1>1 DEF sessVars
  <1>2. ASSUME LoadMore \/ Refresh \/ Close \/ FirstMessage \/ Message \/ Break \/ SocketError
        PROVE  sock' = sock
    BY <1>2 DEF LoadMore, Refresh, Close, FirstMessage, Message, Break, SocketError, sessVars
  <1>3. ASSUME NEW x \in Xhrs, Serve(x) \/ ServeFails(x) \/ XhrDropped(x) PROVE sock' = sock
    BY <1>3 DEF Serve, ServeFails, XhrDropped, sessVars
  <1>4. ASSUME StartSocket PROVE sock' \in Conns
    BY <1>4 DEF StartSocket
  <1>5. ASSUME NEW x \in Xhrs, XhrDone(x) \/ XhrGarbled(x) PROVE sock' \in Conns \/ sock' = sock
    BY <1>4, <1>5 DEF XhrDone, XhrGarbled
  <1>6. ASSUME UNCHANGED vars PROVE sock' = sock
    BY <1>6 DEF vars, sessVars
  <1> QED
    BY <1>1, <1>2, <1>3, <1>5, <1>6 DEF SockOK, Next, SessionNext, Answering

\* Every step of the composition of session, XHRs and hub is one that the hub
\* can take with its clients, or leaves the hub alone.
LEMMA SessionStep == SockOK /\ [Next]_vars => [HubNext]_hubVars
  <1> SUFFICES ASSUME SockOK, [Next]_vars PROVE [HubNext]_hubVars
    OBVIOUS
  <1>1. ASSUME ServerNext PROVE HubNext
    BY <1>1 DEF HubNext
  <1>2. ASSUME LoadMore \/ Refresh \/ SocketError PROVE UNCHANGED hubVars
    BY <1>2 DEF LoadMore, Refresh, SocketError
  <1>3. ASSUME sock # 0, Drop(sock) \/ Deliver(sock) PROVE HubNext
    BY <1>3 DEF SockOK, HubNext
  <1>4. ASSUME StartSocket PROVE HubNext
    BY <1>4 DEF StartSocket, HubNext
  <1>5. ASSUME NEW x \in Xhrs, Serve(x) \/ ServeFails(x) \/ Answering(x)
        PROVE  HubNext \/ UNCHANGED hubVars
    BY <1>4, <1>5 DEF Serve, ServeFails, Answering, XhrDone, XhrGarbled, XhrDropped
  <1>6. ASSUME FirstMessage \/ Message \/ Break PROVE HubNext
    BY <1>3, <1>6 DEF FirstMessage, Message, Break
  <1>7. ASSUME Close PROVE HubNext \/ UNCHANGED hubVars
    BY <1>3, <1>7 DEF Close
  <1>8. ASSUME UNCHANGED vars PROVE UNCHANGED hubVars
    BY <1>8 DEF vars
  <1> QED
    BY <1>1, <1>2, <1>5, <1>6, <1>7, <1>8 DEF Next, SessionNext

\* The composed system implements the hub's own specification, in which
\* clients may do anything.
THEOREM SessionImplementsHub == Spec => HubSpec
  <1>1. Init => HubInit /\ SockOK
    BY DEF Init, SockOK
  <1> QED
    BY <1>1, SockStep, SessionStep, PTL DEF Spec, HubSpec

\* run never sends to a channel that it has closed (which would panic), however
\* register, unregister and the updates of a query interleave.
THEOREM ClosedChannels == Spec => []NoSendOnClosed
  <1> QED
    BY SessionImplementsHub, HubInvariance, InvIsEnough, PTL

\* redoSearch and run lose no wakeup: when nothing is left to do for a
\* subscription, its client was sent the result that the index has, unless a
\* search of it failed or its first search crossed a refresh.
THEOREM FreshResults == Spec => []HubFresh
  <1> QED
    BY SessionImplementsHub, HubInvariance, InvIsEnough, PTL

====
