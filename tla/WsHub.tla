------------------------------- MODULE WsHub -------------------------------
(***************************************************************************)
(* pkg/search/websocket.go, with the part of handler.go that feeds it:     *)
(* standing queries over web sockets.  The goroutine run owns the          *)
(* connections and never waits for a search; searches are run by           *)
(* goroutines of their own, one for the first result of a subscription and *)
(* at most one that is redone while schema blobs arrive.  Every connection *)
(* has a readPump and a writePump, and the listener of new blobs sends to  *)
(* the hub while it holds the index's lock.                                *)
(*                                                                         *)
(* An item is the place of a search result in the order of the query, the  *)
(* largest first; a query with limit n has the n largest as its result.    *)
(* A connection has one subscription, which its client may withdraw (the   *)
(* web UI never does).                                                     *)
(***************************************************************************)
EXTENDS Naturals, Sequences, FiniteSets

CONSTANTS
    Items,      \* places that search results can have
    Conns,      \* the connections that clients open, each once
    SendCap,    \* capacity of wsConn.send
    ChanCap,    \* capacity of the hub's channels ("buffered")
    Budgets     \* bounds of the model: how often what comes from outside may
                \* happen in a behaviour, one of these for each kind of it

None == "none"
Types == {"schema", "data"}      \* data: blobs with no camliType
Jobs == {"first", "refresh"}     \* goroutines that run doSearch for a query
Kinds == {"schema", "data", "status", "call", "fault"}

ASSUME HubAssumption ==
    /\ Items \subseteq Nat \ {0} /\ IsFiniteSet(Items)
    /\ SendCap \in Nat \ {0} /\ ChanCap \in Nat \ {0}
    /\ Budgets \subseteq [Kinds -> Nat]

VARIABLES
    items,     \* what the query finds in the index
    ixw,       \* type of the blob whose ReceiveBlob waits for the index lock
    notified,  \* number of blobs on their way to the listener, by type
    lis,       \* type of the blob that the listener is sending, or None
    kicks,     \* h.newBlobRecv
    watchReq,  \* h.watchReq: subscriptions to be added or removed
    updated,   \* h.updatedResults
    last,      \* lastStatusMsg
    conns,     \* h.conns
    out, msg,  \* connections that run has yet to send msg to
    cst,       \* per connection: "none", "opening" (waits for register),
               \* "reading" (in readPump), "gone"
    asked,     \* its client's messages: a subscription that is "sent" and then
               \* "read" by readPump, one that is withdrawn: "leaving", "left"
    writer,    \* its writePump: "off", "on" or "ended"
    link,      \* its TCP connection: "up" or "down"
    send,      \* c.send
    limit,     \* limit of its query
    subs,      \* connections with an entry in c.queries
    dirty, refreshing, lastres,    \* the watchedQuery; lastres: {} or {page}
    spawned,   \* redoSearch goroutines that have not taken wq.mu yet
    at, found, \* per goroutine in doSearch: where it is, the page it has
    told,      \* history: the last page put into c.send
    crossed,   \* history: the last search of the query was made while another
               \* one had a result to store
    failed,    \* history: the last search of the query failed, or a change of
               \* the index after it was not passed on to the hub
    left       \* what is left of the budget

index == <<items, ixw, notified, lis>>
channels == <<kicks, watchReq, updated>>
run == <<last, conns, out, msg>>
pumps == <<cst, asked, writer, link, limit>>
query == <<dirty, refreshing, lastres, spawned, at, found, crossed, failed>>
hubVars == <<index, channels, run, pumps, send, told, subs, query>>

Empty == [kind |-> "empty", page |-> {}]
Status == [kind |-> "status", page |-> {}]
Result(p) == [kind |-> "result", page |-> p]
Messages == {Empty, Status} \cup {Result(p) : p \in SUBSET Items}

\* watchReq has a query, or none to unsubscribe.
Watch(c) == [conn |-> c, q |-> "query"]
Unwatch(c) == [conn |-> c, q |-> None]
WatchReqs == {Watch(c) : c \in Conns} \cup {Unwatch(c) : c \in Conns}

HubInit ==
    /\ items \in SUBSET Items /\ ixw = None
    /\ notified = [t \in Types |-> 0] /\ lis = None
    /\ kicks = <<>> /\ watchReq = <<>> /\ updated = <<>>
    /\ last \in {Empty, Status} /\ conns = {} /\ out = {} /\ msg = Empty
    /\ cst = [c \in Conns |-> "none"] /\ asked = [c \in Conns |-> "none"]
    /\ writer = [c \in Conns |-> "off"] /\ link = [c \in Conns |-> "down"]
    /\ send = [c \in Conns |-> <<>>] /\ limit = [c \in Conns |-> 0]
    /\ subs = {} /\ told = [c \in Conns |-> {}]
    /\ dirty = [c \in Conns |-> FALSE] /\ refreshing = [c \in Conns |-> FALSE]
    /\ lastres = [c \in Conns |-> {}] /\ spawned = [c \in Conns |-> 0]
    /\ at = [c \in Conns |-> [k \in Jobs |-> "off"]]
    /\ found = [c \in Conns |-> [k \in Jobs |-> {}]]
    /\ crossed = [c \in Conns |-> FALSE] /\ failed = [c \in Conns |-> FALSE]
    /\ left \in Budgets

Spend(k) == left[k] > 0 /\ left' = [left EXCEPT ![k] = @ - 1]
-----------------------------------------------------------------------------
\* The constraint that a continue token adds (0: no token): places after its own.
After(token) == {i \in items : token = 0 \/ i < token}

\* Handler.Query: the first n of these.
Page(n, token) ==
    {i \in After(token) : Cardinality({k \in After(token) : k > i}) < n}

\* setResultContinue: a full page has a token, the place of its last result.
Token(p, n) ==
    IF Cardinality(p) = n THEN CHOOSE i \in p : \A k \in p : i <= k ELSE 0

\* Query takes the index lock for reading: not behind a writer that waits for
\* the listener.
CanRead == ixw = None

\* ReceiveBlob of the index, under its lock, changes what the query finds (a
\* result appears or goes away, within its limit or beyond), and the hub of the
\* index notifies the listener, in a goroutine and so in any order.
Indexed(t) ==
    /\ IF t = "data" THEN UNCHANGED items
       ELSE \E i \in Items : items' = IF i \in items THEN items \ {i} ELSE items \cup {i}
    /\ notified' = [notified EXCEPT ![t] = @ + 1]

\* An upload has the lock, or waits for it while the listener has it.
Upload(t) ==
    /\ Spend(t) /\ ixw = None
    /\ IF lis = None THEN Indexed(t) /\ UNCHANGED ixw
                     ELSE ixw' = t /\ UNCHANGED <<items, notified>>
    /\ UNCHANGED <<lis, channels, run, pumps, send, told, subs, query>>

UploadIndexed ==
    /\ ixw # None /\ lis = None
    /\ Indexed(ixw) /\ ixw' = None
    /\ UNCHANGED <<lis, channels, run, pumps, send, told, subs, query, left>>

\* History: the change does not reach the queries that are there; a later one
\* finds it with its first search.
Unseen == failed' = [c \in Conns |-> failed[c] \/ c \in subs]

\* The sync handler, which copies what an upload could not index, calls
\* ReceiveBlob of the index itself: no hub is notified.
SyncIndexes ==
    /\ Spend("fault") /\ ixw = None /\ lis = None
    /\ \E i \in Items : items' = IF i \in items THEN items \ {i} ELSE items \cup {i}
    /\ Unseen
    /\ UNCHANGED <<ixw, notified, lis, channels, run, pumps, send, told, subs, dirty,
                   refreshing, lastres, spawned, at, found, crossed>>

\* subscribeToNewBlobs: the type is looked up and sent under RLock, which the
\* listener keeps while the channel is full.
Listen(t) ==
    /\ lis = None /\ ixw = None /\ notified[t] > 0
    /\ notified' = [notified EXCEPT ![t] = @ - 1]
    /\ IF Len(kicks) < ChanCap THEN kicks' = Append(kicks, t) /\ UNCHANGED lis
                               ELSE lis' = t /\ UNCHANGED kicks
    /\ UNCHANGED <<items, ixw, watchReq, updated, run, pumps, send, told, subs,
                   query, left>>

\* GetBlobMeta fails: the listener skips the blob.
ListenSkips(t) ==
    /\ lis = None /\ ixw = None /\ notified[t] > 0 /\ Spend("fault")
    /\ notified' = [notified EXCEPT ![t] = @ - 1]
    /\ IF t = "schema" THEN Unseen ELSE UNCHANGED failed
    /\ UNCHANGED <<items, ixw, lis, channels, run, pumps, send, told, subs, dirty,
                   refreshing, lastres, spawned, at, found, crossed>>

\* Mutant: the capacity of the channel is not respected.
ListenerSendsBlind ==
    /\ lis # None
    /\ kicks' = Append(kicks, lis) /\ lis' = None
    /\ UNCHANGED <<items, ixw, notified, watchReq, updated, run, pumps,
                   send, told, subs, query, left>>

ListenerSends ==
    /\ lis # None /\ Len(kicks) < ChanCap
    /\ kicks' = Append(kicks, lis) /\ lis' = None
    /\ UNCHANGED <<items, ixw, notified, watchReq, updated, run, pumps,
                   send, told, subs, query, left>>
-----------------------------------------------------------------------------
\* c.send <- m, which blocks run while the channel is full.
Send(c, m) ==
    IF Len(send[c]) < SendCap
    THEN /\ send' = [send EXCEPT ![c] = Append(@, m)]
         /\ told' = IF m.kind = "result" THEN [told EXCEPT ![c] = {m.page}] ELSE told
         /\ UNCHANGED <<out, msg>>
    ELSE out' = {c} /\ msg' = m /\ UNCHANGED <<send, told>>

\* run: one action per case of its select, which it reaches when all that
\* the last case had to send has been sent.

HubStatus ==
    /\ Spend("status") /\ out = {}
    /\ last' = Status
    /\ out' = conns /\ msg' = IF conns = {} THEN Empty ELSE Status
    /\ UNCHANGED <<index, channels, conns, pumps, send, told, subs, query>>

\* Mutant: serveWebSocket does not start writePump.
HubRegisterMute(c) ==
    /\ out = {} /\ cst[c] = "opening"
    /\ conns' = conns \cup {c}
    /\ Send(c, last)
    /\ cst' = [cst EXCEPT ![c] = "reading"]
    /\ UNCHANGED <<index, channels, last, asked, writer, link, limit, subs, query, left>>

\* h.register, after which serveWebSocket starts the pumps.
HubRegister(c) ==
    /\ out = {} /\ cst[c] = "opening"
    /\ conns' = conns \cup {c}
    /\ Send(c, last)
    /\ cst' = [cst EXCEPT ![c] = "reading"]
    /\ writer' = [writer EXCEPT ![c] = "on"]
    /\ UNCHANGED <<index, channels, last, asked, link, limit, subs, query, left>>

\* readPump could not read any more and waits to be unregistered; c.send is
\* closed, and what is in it does not matter any more.
HubUnregister(c) ==
    /\ out = {} /\ cst[c] = "reading" /\ link[c] = "down"
    /\ conns' = conns \ {c}
    /\ cst' = [cst EXCEPT ![c] = "gone"]
    /\ told' = [told EXCEPT ![c] = {}] /\ send' = [send EXCEPT ![c] = <<>>]
    /\ UNCHANGED <<index, channels, last, out, msg, asked, writer, link,
                   limit, subs, query, left>>

\* go h.redoSearch(wq), for every query.
HubNewBlob ==
    /\ out = {} /\ kicks # <<>>
    /\ kicks' = Tail(kicks)
    /\ spawned' = IF Head(kicks) = "data" THEN spawned
                  ELSE [c \in Conns |-> spawned[c] +
                                        (IF c \in conns \cap subs THEN 1 ELSE 0)]
    /\ UNCHANGED <<index, watchReq, updated, run, pumps, send, told, subs, dirty,
                   refreshing, lastres, at, found, crossed, failed, left>>

\* A subscription is removed, or added and searched for the first time, for a
\* connection that may have gone by now.
HubWatch ==
    /\ out = {} /\ watchReq # <<>>
    /\ LET c == Head(watchReq).conn IN
        IF Head(watchReq).q = None
        THEN subs' = subs \ {c} /\ UNCHANGED at
        ELSE subs' = subs \cup {c} /\ at' = [at EXCEPT ![c]["first"] = "query"]
    /\ watchReq' = Tail(watchReq)
    /\ UNCHANGED <<index, kicks, updated, run, pumps, send, told, dirty, refreshing,
                   lastres, spawned, found, crossed, failed, left>>

\* Mutant: the connection is not looked up.
HubUpdatedBlind ==
    /\ out = {} /\ updated # <<>>
    /\ Send(Head(updated), Result(UNION lastres[Head(updated)]))
    /\ updated' = Tail(updated)
    /\ UNCHANGED <<index, kicks, watchReq, last, conns, pumps, subs, query, left>>

HubUpdated ==
    /\ out = {} /\ updated # <<>>
    /\ LET c == Head(updated) IN
        IF c \in conns \cap subs
        THEN Send(c, Result(UNION lastres[c]))
        ELSE UNCHANGED <<out, msg, send, told>>
    /\ updated' = Tail(updated)
    /\ UNCHANGED <<index, kicks, watchReq, last, conns, pumps, subs, query, left>>

\* run goes on with what it has to send.
HubSend(c) ==
    /\ c \in out /\ Len(send[c]) < SendCap
    /\ send' = [send EXCEPT ![c] = Append(@, msg)]
    /\ told' = IF msg.kind = "result" THEN [told EXCEPT ![c] = {msg.page}] ELSE told
    /\ out' = out \ {c} /\ msg' = IF out = {c} THEN Empty ELSE msg
    /\ UNCHANGED <<index, channels, last, conns, pumps, subs, query, left>>
-----------------------------------------------------------------------------
\* redoSearch and doSearch

\* Mutant: a search that runs already is taken to be enough.
RedoLocksForgets(c) ==
    /\ spawned[c] > 0
    /\ spawned' = [spawned EXCEPT ![c] = @ - 1]
    /\ dirty' = dirty
    /\ refreshing' = [refreshing EXCEPT ![c] = TRUE]
    /\ at' = IF refreshing[c] THEN at ELSE [at EXCEPT ![c]["refresh"] = "query"]
    /\ UNCHANGED <<index, channels, run, pumps, send, told, subs, lastres, found,
                   crossed, failed, left>>

\* wq.mu is taken; dirty is set, and reset unless somebody else is refreshing.
RedoLocks(c) ==
    /\ spawned[c] > 0
    /\ spawned' = [spawned EXCEPT ![c] = @ - 1]
    /\ dirty' = [dirty EXCEPT ![c] = refreshing[c]]
    /\ refreshing' = [refreshing EXCEPT ![c] = TRUE]
    /\ at' = IF refreshing[c] THEN at ELSE [at EXCEPT ![c]["refresh"] = "query"]
    /\ UNCHANGED <<index, channels, run, pumps, send, told, subs, lastres, found,
                   crossed, failed, left>>

\* for wq.dirty: once more, or done.
RedoChecks(c) ==
    /\ at[c]["refresh"] = "check"
    /\ at' = [at EXCEPT ![c]["refresh"] = IF dirty[c] THEN "query" ELSE "off"]
    /\ refreshing' = [refreshing EXCEPT ![c] = dirty[c]]
    /\ dirty' = [dirty EXCEPT ![c] = FALSE]
    /\ UNCHANGED <<index, channels, run, pumps, send, told, subs, lastres, spawned,
                   found, crossed, failed, left>>

Done(k) == IF k = "first" THEN "off" ELSE "check"

DoSearch(c, k) ==
    /\ at[c][k] = "query" /\ CanRead
    /\ found' = [found EXCEPT ![c][k] = Page(limit[c], 0)]
    /\ at' = [at EXCEPT ![c][k] = "store"]
    /\ crossed' = [crossed EXCEPT ![c] = \E o \in Jobs \ {k} : at[c][o] = "store"]
    /\ failed' = [failed EXCEPT ![c] = FALSE]
    /\ UNCHANGED <<index, channels, run, pumps, send, told, subs, dirty, refreshing,
                   lastres, spawned, left>>

SearchFails(c, k) ==
    /\ at[c][k] = "query" /\ CanRead /\ Spend("fault")
    /\ failed' = [failed EXCEPT ![c] = TRUE]
    /\ at' = [at EXCEPT ![c][k] = Done(k)]
    /\ UNCHANGED <<index, channels, run, pumps, send, told, subs, dirty, refreshing,
                   lastres, spawned, found, crossed>>

\* Under wq.mu the result is stored; if it is another one than the last, wq is
\* sent to updatedResults.
StoreResult(c, k) ==
    LET eq == lastres[c] = {found[c][k]}
        full == Len(updated) >= ChanCap IN
    /\ at[c][k] = "store"
    /\ lastres' = [lastres EXCEPT ![c] = {found[c][k]}]
    /\ found' = [found EXCEPT ![c][k] = {}]
    /\ at' = [at EXCEPT ![c][k] = IF ~eq /\ full THEN "send" ELSE Done(k)]
    /\ updated' = IF eq \/ full THEN updated ELSE Append(updated, c)
    /\ UNCHANGED <<index, kicks, watchReq, run, pumps, send, told, subs, dirty, refreshing,
                   spawned, crossed, failed, left>>

\* The channel was full.
Announce(c, k) ==
    /\ at[c][k] = "send" /\ Len(updated) < ChanCap
    /\ updated' = Append(updated, c)
    /\ at' = [at EXCEPT ![c][k] = Done(k)]
    /\ UNCHANGED <<index, kicks, watchReq, run, pumps, send, told, subs, dirty,
                   refreshing, lastres, spawned, found, crossed, failed, left>>
-----------------------------------------------------------------------------
\* readPump and writePump

ReadMessage(c) ==
    /\ cst[c] = "reading" /\ asked[c] \in {"sent", "leaving"} /\ Len(watchReq) < ChanCap
    /\ watchReq' = Append(watchReq, IF asked[c] = "sent" THEN Watch(c) ELSE Unwatch(c))
    /\ asked' = [asked EXCEPT ![c] = IF @ = "sent" THEN "read" ELSE "left"]
    /\ UNCHANGED <<index, kicks, updated, run, cst, writer, link, limit, send, told,
                   subs, query, left>>

\* A message is written and reaches the client.
Deliver(c) ==
    /\ writer[c] = "on" /\ link[c] = "up" /\ send[c] # <<>>
    /\ send' = [send EXCEPT ![c] = Tail(@)]
    /\ UNCHANGED <<index, channels, run, pumps, told, subs, query>>

\* A message or a ping cannot be written within writeWait, or the channel is
\* closed: writePump ends, whatever else is in c.send.
WriterEnds(c) ==
    /\ writer[c] = "on" /\ link[c] = "down"
    /\ writer' = [writer EXCEPT ![c] = "ended"]
    /\ \/ UNCHANGED send
       \/ send[c] # <<>> /\ send' = [send EXCEPT ![c] = Tail(@)]
    /\ UNCHANGED <<index, channels, run, cst, asked, link, limit, told, subs, query, left>>
-----------------------------------------------------------------------------
\* What clients do.

\* A new socket, after dropping others; its subscription is sent when it is open.
Open(c, n, drop) ==
    /\ cst[c] = "none"
    /\ cst' = [cst EXCEPT ![c] = "opening"] /\ asked' = [asked EXCEPT ![c] = "sent"]
    /\ limit' = [limit EXCEPT ![c] = n]
    /\ link' = [x \in Conns |-> IF x = c THEN "up"
                                ELSE IF x \in drop THEN "down" ELSE link[x]]
    /\ UNCHANGED <<index, channels, run, writer, send, told, subs, query>>

\* A message without a query.
Unsubscribe(c) ==
    /\ link[c] = "up" /\ asked[c] = "read"
    /\ asked' = [asked EXCEPT ![c] = "leaving"]
    /\ UNCHANGED <<index, channels, run, cst, writer, link, limit, send, told, subs, query>>

\* The client closes the socket, or the network breaks.
Drop(c) ==
    /\ link[c] = "up"
    /\ link' = [link EXCEPT ![c] = "down"]
    /\ UNCHANGED <<index, channels, run, cst, asked, writer, limit, send, told,
                   subs, query>>
-----------------------------------------------------------------------------
\* The steps of the server, but for Deliver.
Listening == ListenerSends \/ \E t \in Types : Listen(t)
Selecting ==
    \/ HubNewBlob \/ HubWatch \/ HubUpdated
    \/ \E c \in Conns : HubRegister(c) \/ HubUnregister(c)
Searching(c) ==
    \/ RedoLocks(c) \/ RedoChecks(c)
    \/ \E k \in Jobs : DoSearch(c, k) \/ StoreResult(c, k) \/ Announce(c, k)
Pumping(c) == ReadMessage(c) \/ WriterEnds(c)

ServerNext ==
    \/ (\E t \in Types : Upload(t)) \/ UploadIndexed \/ Listening
    \/ SyncIndexes \/ (\E t \in Types : ListenSkips(t))
    \/ Selecting \/ HubStatus
    \/ \E c \in Conns :
        \/ HubSend(c) \/ Searching(c) \/ Pumping(c)
        \/ \E k \in Jobs : SearchFails(c, k)

HubNext ==
    \/ ServerNext
    \/ \E c \in Conns :
        \/ Deliver(c) \/ Drop(c) \/ Unsubscribe(c)
        \/ \E n, drop : Open(c, n, drop)

HubSpec == HubInit /\ [][HubNext]_hubVars
-----------------------------------------------------------------------------
FeedType ==
    /\ items \subseteq Items /\ ixw \in Types \cup {None} /\ lis \in Types \cup {None}
    /\ notified \in [Types -> Nat]
    /\ kicks \in Seq(Types) /\ Len(kicks) <= ChanCap
RunType ==
    /\ watchReq \in Seq(WatchReqs) /\ updated \in Seq(Conns)
    /\ last \in {Empty, Status} /\ conns \subseteq Conns
    /\ out \subseteq Conns /\ msg \in Messages
    /\ send \in [Conns -> Seq(Messages)] /\ told \in [Conns -> SUBSET SUBSET Items]
PumpType ==
    /\ cst \in [Conns -> {"none", "opening", "reading", "gone"}]
    /\ asked \in [Conns -> {"none", "sent", "read", "leaving", "left"}]
    /\ writer \in [Conns -> {"off", "on", "ended"}]
    /\ link \in [Conns -> {"up", "down"}]
QueryType ==
    /\ subs \subseteq Conns
    /\ dirty \in [Conns -> BOOLEAN] /\ refreshing \in [Conns -> BOOLEAN]
    /\ lastres \in [Conns -> SUBSET SUBSET Items]
    /\ spawned \in [Conns -> Nat]
    /\ at \in [Conns -> [Jobs -> {"off", "query", "store", "send", "check"}]]
    /\ found \in [Conns -> [Jobs -> SUBSET Items]]
    /\ crossed \in [Conns -> BOOLEAN] /\ failed \in [Conns -> BOOLEAN]
HubTypeOK == FeedType /\ RunType /\ PumpType /\ QueryType

In(x, s) == \E i \in 1..Len(s) : s[i] = x

\* No goroutine has anything left to do for the query of c.
Quiet(c) ==
    /\ c \in conns \cap subs /\ c \notin out
    /\ notified["schema"] = 0 /\ lis # "schema"
    /\ ~In("schema", kicks) /\ ~In(c, updated)
    /\ spawned[c] = 0 /\ \A k \in Jobs : at[c][k] = "off"

\* run sends to no channel that it has closed (that would panic): nothing is
\* in the channel of a connection after it was unregistered, and run has
\* nothing to send to it.
NoSendOnClosed == \A c \in Conns : cst[c] = "gone" => c \notin out /\ send[c] = <<>>

\* No wakeup is lost between dirty, refreshing and the search that runs
\* without wq.mu: once the server has nothing left to do for a subscription,
\* the last result that its client was sent is what the index has now - unless
\* the last search failed, a change since then was not passed on to the hub
\* (the listener skips a blob whose meta it cannot get, and the sync handler
\* notifies nobody), or the last search, a first one or a refresh, was made
\* while the other one had a result to store (redoSearch does not wait for the
\* first search, so that the older of the two may be stored last).  Whatever
\* went wrong, the next search that runs alone makes up for it.
HubFresh ==
    \A c \in Conns : Quiet(c) /\ ~crossed[c] /\ ~failed[c]
                        => told[c] = {Page(limit[c], 0)}
=============================================================================
