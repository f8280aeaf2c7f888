--------------------------- MODULE SearchSession ---------------------------
(***************************************************************************)
(* server/perkeepd/ui/search_session.js: a search session of the web UI,   *)
(* composed with the hub that serves its socket (WsHub).  Pages are loaded *)
(* by XHRs, which the server answers from the same index; changes come     *)
(* through a socket that is opened again, with a larger limit, whenever    *)
(* more has been loaded.  Handlers of the browser run one at a time, but   *)
(* an XHR that was sent before a change may be answered after it.          *)
(*                                                                         *)
(* The session is one without around_, of a query that the index keeps in  *)
(* the order of its sort.                                                  *)
(***************************************************************************)
EXTENDS WsHub

CONSTANTS
    PageSize,   \* PAGE_SIZE_
    Xhrs        \* XHRs that can be under way

ASSUME SessionAssumption ==
    /\ PageSize \in Nat \ {0} /\ Conns \subseteq Nat \ {0} /\ Xhrs \subseteq Nat

VARIABLES
    hasWS,      \* goog.global.WebSocket
    data,       \* data_.blobs
    undef,      \* data_.blobs is undefined
    cont,       \* continuation_: the query that it is bound to
    complete,   \* isComplete_
    supports,   \* supportsWebSocket_
    sockErr,    \* hasSocketError_
    sock,       \* socket_, 0 if there is none
    first,      \* socket_.onmessage is still the one that ignores a message
    xhr,        \* the XHRs
    closed,     \* close was called by the cache of sessions
    mixed,      \* history: when data_ was last replaced a page was being loaded
    gap         \* history: a result was ignored, or one that was older than a
                \* result of the socket replaced it, and this socket has
                \* delivered none since

sessVars == <<hasWS, data, undef, cont, complete, supports, sockErr, sock, first, closed,
              mixed, gap>>
vars == <<hubVars, left, xhr, sessVars>>

Query(type, n, token) == [type |-> type, limit |-> n, after |-> token]
NoCont == Query(None, 0, 0)
Free == [at |-> "free", q |-> NoCont, page |-> {}]
Asking(q) == [at |-> "sent", q |-> q, page |-> {}]
UnderWay(type) == \E x \in Xhrs : xhr[x].at # "free" /\ xhr[x].q.type = type

MaxOf(m, n) == IF m > n THEN m ELSE n
Descending(s) == \A i, k \in DOMAIN s : i < k => s[i] > s[k]
Sorted(S) == CHOOSE s \in [1..Cardinality(S) -> S] : Descending(s)

\* The constructor, and loadMoreResults of getSearchSession_.
Init ==
    /\ HubInit
    /\ hasWS \in BOOLEAN /\ data = <<>> /\ undef = FALSE /\ cont = NoCont
    /\ complete = FALSE /\ supports = FALSE /\ sockErr = FALSE
    /\ sock = 0 /\ first = FALSE /\ closed = FALSE
    /\ xhr = [x \in Xhrs |-> IF \A y \in Xhrs : x <= y
                              THEN Asking(Query("NEW", PageSize, 0))
                              ELSE Free]
    /\ mixed = FALSE /\ gap = FALSE
-----------------------------------------------------------------------------
\* connection_.search
Search(q) ==
    \E x \in Xhrs :
        /\ xhr[x].at = "free" /\ \A y \in Xhrs : xhr[y].at = "free" => x <= y
        /\ xhr' = [xhr EXCEPT ![x] = Asking(q)]

\* Mutant: the continuation is kept until the page has arrived.
LoadMoreKeeps ==
    /\ ~closed /\ Spend("call") /\ cont # NoCont
    /\ Search(cont)
    /\ UNCHANGED <<hubVars, sessVars>>

\* loadMoreResults
LoadMore ==
    /\ ~closed /\ Spend("call") /\ cont # NoCont
    /\ Search(cont) /\ cont' = NoCont
    /\ UNCHANGED <<hubVars, hasWS, data, undef, complete, supports, sockErr, sock,
                   first, closed, mixed, gap>>

\* refreshIfNecessary; data_.blobs.length throws if blobs is undefined.
Refresh ==
    /\ ~closed /\ Spend("call") /\ ~supports /\ ~undef
    /\ Search(Query("UPDATE", MaxOf(Len(data), PageSize), 0)) /\ cont' = NoCont
    /\ data' = <<>>
    /\ mixed' = UnderWay("APPEND")
    /\ UNCHANGED <<hubVars, hasWS, undef, complete, supports, sockErr, sock, first,
                   closed, gap>>

\* pruneSearchSessionCache_ closes the session; its XHRs go on.
Close ==
    /\ Spend("call") /\ ~closed /\ closed' = TRUE
    /\ IF sock # 0 /\ link[sock] = "up" THEN Drop(sock) ELSE UNCHANGED hubVars
    /\ UNCHANGED <<xhr, hasWS, data, undef, cont, complete, supports, sockErr, sock,
                   first, mixed, gap>>

\* Handler.Query for an XHR, or an answer that is no result: an error in JSON
\* ("refused"), or something that is not JSON ("garbled").
Answer(x, how, p) == xhr' = [xhr EXCEPT ![x] = [at |-> how, q |-> @.q, page |-> p]]

Serve(x) ==
    /\ xhr[x].at = "sent" /\ CanRead
    /\ Answer(x, "ok", Page(xhr[x].q.limit, xhr[x].q.after))
    /\ UNCHANGED <<left, hubVars, sessVars>>

ServeFails(x) ==
    /\ xhr[x].at = "sent" /\ Spend("fault")
    /\ \E how \in {"refused", "garbled"} : Answer(x, how, {})
    /\ UNCHANGED <<hubVars, sessVars>>
-----------------------------------------------------------------------------
\* searchDone_ up to its events.
SearchDone(type, blobs, token) ==
    /\ data' = IF type = "APPEND" THEN data \o blobs ELSE blobs
    /\ cont' = IF token # 0 THEN Query("APPEND", PageSize, token) ELSE NoCont
    /\ complete' = (complete \/ token = 0)
    /\ mixed' = IF type = "APPEND" THEN mixed ELSE UnderWay("APPEND")

\* startSocketQuery_: the next connection.
StartSocket ==
    \E c \in Conns :
        /\ cst[c] = "none" /\ \A d \in Conns : cst[d] = "none" => c <= d
        /\ Open(c, MaxOf(Len(data'), PageSize), {sock})
        /\ sock' = c /\ first' = TRUE

\* Mutant: the socket is not opened again for the pages that were appended.
StartsOnce(type, blobs) == hasWS /\ type = "NEW"

\* Events of searchDone_ that start the socket.
Starts(type, blobs) == hasWS /\ (type = "NEW" \/ (type = "APPEND" /\ blobs # <<>>))

Release(x) == xhr' = [xhr EXCEPT ![x] = Free]

\* The callback of getContinuation_, for a result; a page for undefined data
\* makes concat throw.
XhrDone(x) ==
    LET type == xhr[x].q.type
        blobs == Sorted(xhr[x].page) IN
    /\ xhr[x].at = "ok" /\ ~(undef /\ type = "APPEND")
    /\ Release(x)
    /\ SearchDone(type, blobs, Token(xhr[x].page, xhr[x].q.limit))
    /\ undef' = FALSE
    /\ gap' = (~Starts(type, blobs) /\ (gap \/ (type = "UPDATE" /\ sock # 0 /\ ~first)))
    /\ IF Starts(type, blobs) THEN StartSocket ELSE UNCHANGED <<hubVars, sock, first>>
    /\ UNCHANGED <<left, hasWS, supports, sockErr, closed>>

\* An answer that is not JSON is handed to searchDone_ as a string: a page is
\* not appended, other data_ has undefined blobs.
XhrGarbled(x) ==
    LET type == xhr[x].q.type IN
    /\ xhr[x].at = "garbled" /\ type # "APPEND"
    /\ Release(x)
    /\ SearchDone(type, <<>>, 0)
    /\ undef' = TRUE
    /\ gap' = (~Starts(type, <<>>) /\ (gap \/ (type = "UPDATE" /\ sock # 0 /\ ~first)))
    /\ IF Starts(type, <<>>) THEN StartSocket ELSE UNCHANGED <<hubVars, sock, first>>
    /\ UNCHANGED <<left, hasWS, supports, sockErr, closed>>

\* The dialog is shown, or the callback throws.
XhrDropped(x) ==
    /\ \/ xhr[x].at = "refused"
       \/ xhr[x].at = "garbled" /\ xhr[x].q.type = "APPEND"
       \/ xhr[x].at = "ok" /\ undef /\ xhr[x].q.type = "APPEND"
    /\ Release(x)
    /\ UNCHANGED <<left, hubVars, sessVars>>
-----------------------------------------------------------------------------
\* socket_.onmessage, the first one: it makes way for the second unless the
\* message is the empty status, which JSON.parse does not take.
FirstMessage ==
    /\ sock # 0 /\ first /\ Deliver(sock)
    /\ supports' = TRUE
    /\ LET m == Head(send[sock]) IN
        /\ first' = (m.kind = "empty")
        /\ gap' = (gap \/ m.kind = "result")
    /\ UNCHANGED <<left, xhr, hasWS, data, undef, cont, complete, sockErr, sock, closed, mixed>>

\* The second one.
Message ==
    /\ sock # 0 /\ ~first /\ Deliver(sock)
    /\ LET m == Head(send[sock]) IN
        IF m.kind = "result"
        THEN /\ SearchDone("UPDATE", Sorted(m.page), Token(m.page, limit[sock]))
             /\ undef' = FALSE /\ gap' = FALSE
        ELSE UNCHANGED <<data, cont, complete, undef, mixed, gap>>
    /\ UNCHANGED <<left, xhr, hasWS, supports, sockErr, sock, first, closed>>

\* The network breaks, or the server's pumps give up.
Break ==
    /\ sock # 0 /\ Spend("fault")
    /\ Drop(sock)
    /\ UNCHANGED <<xhr, sessVars>>

\* onclose or onerror, which close unsets: handleError_
SocketError ==
    /\ sock # 0 /\ link[sock] = "down" /\ ~closed /\ ~sockErr
    /\ sockErr' = TRUE
    /\ UNCHANGED <<left, hubVars, xhr, hasWS, data, undef, cont, complete, supports, sock,
                   first, closed, mixed, gap>>
-----------------------------------------------------------------------------
Answering(x) == XhrDone(x) \/ XhrGarbled(x) \/ XhrDropped(x)
SessionNext ==
    \/ LoadMore \/ Refresh \/ Close \/ FirstMessage \/ Message \/ Break \/ SocketError
    \/ \E x \in Xhrs : Serve(x) \/ ServeFails(x) \/ Answering(x)

Next == (ServerNext /\ UNCHANGED <<xhr, sessVars>>) \/ SessionNext

Spec == Init /\ [][Next]_vars

\* What the goroutines of the server and the browser's socket do by themselves.
Goroutines ==
    /\ \/ UploadIndexed \/ Listening \/ Selecting
       \/ \E c \in Conns : HubSend(c) \/ Searching(c) \/ Pumping(c)
    /\ UNCHANGED <<xhr, sessVars>>
Running == Goroutines \/ FirstMessage \/ Message
-----------------------------------------------------------------------------
TypeOK ==
    /\ HubTypeOK /\ limit \in [Conns -> Nat] /\ left \in [Kinds -> Nat]
    /\ data \in Seq(Items) /\ sock \in Conns \cup {0}
    /\ cont \in [type : {None, "APPEND"}, limit : {0, PageSize}, after : Items \cup {0}]
    /\ xhr \in [Xhrs -> [at : {"free", "sent", "ok", "refused", "garbled"},
                         q : [type : {None, "NEW", "APPEND", "UPDATE"}, limit : Nat,
                              after : Items \cup {0}],
                         page : SUBSET Items]]
    /\ \A b \in {hasWS, undef, complete, supports, sockErr, first, closed, mixed, gap} :
          b \in BOOLEAN

\* "multiple calls for the same page will be collapsed" (loadMoreResults):
\* whatever is loaded, changed or pushed in between, no result is in data_
\* twice or out of order - unless data_ was replaced, and with it the
\* continuation, while a page was still being loaded, and then only until
\* data_ is replaced again.
PagesCollapsed == ~mixed => Descending(data)

\* The session and the hub together show what is in the index: when nothing is
\* left to do for the session's open socket and no XHR is under way, the UI
\* has the first results of the index as it is now, as many as its socket
\* asked for - unless the socket's first message was ignored although it was a
\* result, or an XHR was answered after the socket's result, and the socket has
\* delivered none since; or the last search failed, crossed another one, or was
\* before a change that was not passed on to the hub.
SessionFresh ==
    /\ sock # 0 /\ ~closed /\ ~gap
    => \/ link[sock] = "down" \/ ~Quiet(sock) \/ send[sock] # <<>>
       \/ crossed[sock] \/ failed[sock]
       \/ \E x \in Xhrs : xhr[x].at # "free"
       \/ ~undef /\ data = Sorted(Page(limit[sock], 0))

\* A connection that has no reader of its channel any more while the channel
\* is full: run blocks in it for ever.
HubStuck == \E c \in out : writer[c] = "ended" /\ Len(send[c]) = SendCap

\* A part that others may be waiting for can go on: the upload that waits for
\* the index lock, the listener, run at its select, run in c.send, or the pump
\* or the browser that empties c.send.
CanRun ==
    \/ ixw # None /\ lis = None
    \/ lis # None /\ Len(kicks) < ChanCap
    \/ /\ out = {}
       /\ \/ kicks # <<>>
          \/ \E c \in Conns :
              cst[c] = "opening" \/ (cst[c] = "reading" /\ link[c] = "down")
    \/ \E c \in out :
        \/ Len(send[c]) < SendCap
        \/ writer[c] = "on" /\ (link[c] = "up" => c = sock)

\* Nobody waits: no upload for the index lock, not the listener, not run, and
\* no connection that is lost or opening for run to take note of it.
AtRest ==
    /\ ixw = None /\ lis = None /\ out = {}
    /\ \A c \in Conns : link[c] = "up" \/ cst[c] \in {"none", "gone"}

\* An upload waits for the index lock, the lock for the listener, the listener
\* for the hub, the hub for the channels of the connections, and readPump for
\* the hub to let go of a closed connection.  All of them wait for each other
\* in one case only, which the code does have (HubStuck): as long as run is not
\* in the full channel of a connection whose writePump has ended, one of them
\* can go on or nobody waits.
OnlyHubStuckHangs == ~HubStuck => CanRun \/ AtRest

\* The same of the actions: a part that can go on is a goroutine of the server,
\* or the browser's socket, that has a step to take.
NoOtherDeadlock == OnlyHubStuckHangs /\ (CanRun => ENABLED Running)
=============================================================================
