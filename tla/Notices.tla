------------------------------ MODULE Notices ------------------------------
(***************************************************************************)
(* Notifications from the row to the screen: the hub of the server process,*)
(* which writes a new notice to the open event streams of its user, and the*)
(* alert popover of each browser tab, which opens its stream again when it *)
(* breaks and fetches the list of notices when one comes in.               *)
(*                                                                         *)
(* Users log in and out of a tab. Each login mounts a popover of its own,  *)
(* over the list that the query client of the tab has cached. Other tabs of*)
(* the browser share the cookie with which a token is renewed, and nothing *)
(* else. Tokens of a tab are numbered as they are issued, and expire in    *)
(* that order. A request, or a stream, carries the token it was made with. *)
(***************************************************************************)
EXTENDS Integers, FiniteSets

CONSTANTS
    Users,
    Tabs,       \* browser tabs, each with its own user store and query client
    Notes,      \* rows that orders, inquiries and replies may create
    NoteOf,     \* [Notes -> Users], Notification.userId
    MaxLogins,  \* [Tabs -> Nat], bound: logins in a tab
    Visitors,   \* [Popovers -> SUBSET Users], bound: who may log in
    MaxTokens,  \* [Tabs -> Nat], bound: access tokens issued to a tab
    MaxStreams, \* [Popovers -> Nat], bound: streams that the server accepts
    MaxOpens,   \* [Tabs -> Nat], bound: times its popover is opened
    None        \* no user, no token, no list, no PATCH under way

\* The popover of each login in a tab.
Popovers == UNION {{t} \X (1..MaxLogins[t]) : t \in Tabs}

\* Access tokens, and the response objects of the server, by the popover they
\* answer, their number there and the user they are registered for.
Tokens == [of : Users, no : Nat]
Responses == UNION {{p} \X (1..MaxStreams[p]) \X Users : p \in Popovers}

ASSUME NoticesAssumption ==
    /\ NoteOf \in [Notes -> Users]
    /\ MaxLogins \in [Tabs -> Nat]
    /\ Visitors \in [Popovers -> SUBSET Users]
    /\ MaxTokens \in [Tabs -> Nat]
    /\ MaxStreams \in [Popovers -> Nat]
    /\ MaxOpens \in [Tabs -> Nat]
    /\ None \notin Users \union Tokens

VARIABLES
    \* rows and the server process
    note,       \* [Notes -> {"none", "new", "checked"}], isChecked of the rows
    clients,    \* [Users -> SUBSET Responses], the map of the hub
    beating,    \* responses whose heartbeat interval runs
    hungUp,     \* responses whose connection is gone, before their close event
    unsent,     \* notices committed and not emitted yet
    \* one popover each
    stream,     \* state of its EventSource
    current,    \* number of the stream the server accepted last
    header,     \* the token its EventSource was created with
    inbox,      \* notices written to its stream and not read yet
    \* who is logged in
    cookie,     \* [Tabs -> user of the refresh token of its browser, or None]
    user,       \* [Tabs -> user of the user store, or None]
    token,      \* [Tabs -> its accessToken, or None]
    issued,     \* number of tokens issued to a tab
    expired,    \* tokens up to this number have expired
    logins,     \* number of logins in a tab
    since,      \* history: number of the token of the last login
    crossed,    \* history: tabs beside which another user has logged in since
    \* the query client of one tab each
    fetch,      \* the GET of the list
    list,       \* the answer that is cached, or None
    patching,   \* the PATCH of a notice, or None
    opens       \* how often the popover has been opened

server == <<note, clients, beating, hungUp, unsent>>
connection == <<stream, current, header, inbox>>
session == <<cookie, user, token, issued, expired, logins, since, crossed>>
view == <<fetch, list, patching, opens>>
vars == <<server, connection, session, view>>

\* "retry" and "opening" wait for the server, "closed" has run into onerror,
\* "dead" has given up, "none" is not mounted.
StreamState == {"opening", "open", "closed", "dead", "none"}
Pages == [Notes -> {"none", "new", "checked"}]

Popover(t) == <<t, logins[t]>>
Mounted(t) == user[t] # None
Live(t, k) == k # None /\ k.no > expired[t]
Response(p) == <<p, current[p], header[p].of>>
Shown(t, n) == Mounted(t) /\ list[t] # None /\ list[t].got[n] # "none"

\* What a user's GET /notifications answers: rows of that user only.
Page(u) == [n \in Notes |-> IF NoteOf[n] = u THEN note[n] ELSE "none"]
NoPage == [n \in Notes |-> "none"]

Idle == [at |-> "idle", as |-> None, got |-> NoPage]
Asked(k) == [at |-> "asked", as |-> k, got |-> NoPage]

\* invalidateQueries: if the query is on the screen, it is asked for anew and an
\* answer on its way is thrown away, unless it is the first.
Refetch(t) ==
    fetch' = IF Mounted(t) /\ (list[t] # None \/ fetch[t] = Idle)
             THEN [fetch EXCEPT ![t] = Asked(token[t])] ELSE fetch

-----------------------------------------------------------------------------
Init ==
    /\ note = [n \in Notes |-> "none"]
    /\ clients = [u \in Users |-> {}]
    /\ beating = {}
    /\ hungUp = {}
    /\ unsent = {}
    /\ stream = [p \in Popovers |-> "none"]
    /\ current = [p \in Popovers |-> 0]
    /\ header = [p \in Popovers |-> None]
    /\ inbox = [p \in Popovers |-> {}]
    /\ cookie = [t \in Tabs |-> None]
    /\ user = [t \in Tabs |-> None]
    /\ token = [t \in Tabs |-> None]
    /\ issued = [t \in Tabs |-> 0]
    /\ expired = [t \in Tabs |-> 0]
    /\ logins = [t \in Tabs |-> 0]
    /\ since = [t \in Tabs |-> 0]
    /\ crossed = {}
    /\ fetch = [t \in Tabs |-> Idle]
    /\ list = [t \in Tabs |-> None]
    /\ patching = [t \in Tabs |-> None]
    /\ opens = [t \in Tabs |-> 0]

-----------------------------------------------------------------------------
\* A token of u is stored in the user store of t.
Issue(t, u) ==
    /\ issued[t] < MaxTokens[t]
    /\ issued' = [issued EXCEPT ![t] = @ + 1]
    /\ token' = [token EXCEPT ![t] = [of |-> u, no |-> issued[t] + 1]]

\* The login page, which a tab with a token leaves at once. The popover mounts
\* over what is cached, connects, and asks for the list or joins a GET that is
\* under way.
Login(t, u) ==
    LET p == <<t, logins[t] + 1>> IN
    /\ user[t] = None /\ token[t] = None
    /\ logins[t] < MaxLogins[t]
    /\ u \in Visitors[p]
    /\ Issue(t, u)
    /\ user' = [user EXCEPT ![t] = u]
    /\ cookie' = [cookie EXCEPT ![t] = u]
    /\ logins' = [logins EXCEPT ![t] = @ + 1]
    /\ since' = [since EXCEPT ![t] = issued[t] + 1]
    /\ crossed' = crossed \ {t}
    /\ stream' = [stream EXCEPT ![p] = "opening"]
    /\ header' = [header EXCEPT ![p] = token'[t]]
    /\ fetch' = IF fetch[t] = Idle THEN [fetch EXCEPT ![t] = Asked(token'[t])] ELSE fetch
    /\ UNCHANGED <<server, current, inbox, expired, list, patching, opens>>

\* In another tab of the browser u logs in. A logout there makes renewals fail,
\* which they may anyway.
Elsewhere(t, u) ==
    /\ cookie' = [cookie EXCEPT ![t] = u]
    /\ crossed' = IF Mounted(t) /\ u # user[t]
                  THEN crossed \union {t} ELSE crossed
    /\ UNCHANGED <<server, connection, user, token, issued, expired, logins, since,
                   view>>

\* The streams of popovers ps end: open connections are gone.
End(ps) ==
    /\ stream' = [p \in Popovers |-> IF p \in ps THEN "none" ELSE stream[p]]
    /\ inbox' = [p \in Popovers |-> IF p \in ps THEN {} ELSE inbox[p]]
    /\ hungUp' = hungUp \union {Response(p) : p \in {q \in ps : stream[q] = "open"}}
    /\ UNCHANGED <<note, clients, beating, unsent, current, header>>

\* logout() of the store.
Leave(t) ==
    /\ user' = [user EXCEPT ![t] = None]
    /\ token' = [token EXCEPT ![t] = None]
    /\ UNCHANGED <<issued, expired, logins, since, crossed>>

\* The menu: POST /auth/logout takes the cookie away or fails, and the popover
\* unmounts, which closes its stream. One whose stream is closed already goes on
\* with its onerror. What is cached and what has been sent stay.
Logout(t) ==
    /\ Mounted(t)
    /\ Leave(t)
    /\ cookie' \in {cookie, [cookie EXCEPT ![t] = None]}
    /\ End({Popover(t)} \ {p \in Popovers : stream[p] = "closed"})
    /\ UNCHANGED view

\* A list that is not on the screen is dropped after a while.
Forget(t) ==
    /\ ~Mounted(t)
    /\ list[t] # None /\ fetch[t] = Idle
    /\ list' = [list EXCEPT ![t] = None]
    /\ UNCHANGED <<server, connection, session, fetch, patching, opens>>

-----------------------------------------------------------------------------
\* GET /notifications/sse: authenticate, then connectSse.
Accept(p) ==
    LET u == header[p].of
        r == <<p, current[p] + 1, u>>
    IN
    /\ stream[p] = "opening"
    /\ Live(p[1], header[p])
    /\ current[p] < MaxStreams[p]
    /\ clients' = [clients EXCEPT ![u] = @ \union {r}]
    /\ beating' = beating \union {r}
    /\ stream' = [stream EXCEPT ![p] = "open"]
    /\ current' = [current EXCEPT ![p] = @ + 1]
    /\ UNCHANGED <<note, hungUp, unsent, header, inbox, session, view>>

\* A 401 is final for an EventSource: it is CLOSED and onerror runs.
Reject(p) ==
    /\ stream[p] = "opening"
    /\ ~Live(p[1], header[p])
    /\ stream' = [stream EXCEPT ![p] = "closed"]
    /\ UNCHANGED <<server, current, header, inbox, session, view>>

\* The network drops the stream. The EventSource connects again by itself.
Break(p) ==
    /\ stream[p] = "open"
    /\ current[p] < MaxStreams[p]
    /\ stream' = [stream EXCEPT ![p] = "opening"]
    /\ inbox' = [inbox EXCEPT ![p] = {}]
    /\ hungUp' = hungUp \union {Response(p)}
    /\ UNCHANGED <<note, clients, beating, unsent, current, header, session, view>>

\* Mutant: the interval is cleared and the response stays in the map.
CloseForgetsClient(r) ==
    /\ r \in hungUp
    /\ hungUp' = hungUp \ {r}
    /\ beating' = beating \ {r}
    /\ UNCHANGED <<note, clients, unsent, connection, session, view>>

\* The close event of a response: clearInterval, remove, end.
Close(r) ==
    /\ r \in hungUp
    /\ hungUp' = hungUp \ {r}
    /\ beating' = beating \ {r}
    /\ clients' = [clients EXCEPT ![r[3]] = @ \ {r}]
    /\ UNCHANGED <<note, unsent, connection, session, view>>

\* Mutant: the stream is opened again with the token it had.
ReconnectSameHeader(p) ==
    /\ stream[p] = "closed"
    /\ cookie[p[1]] # None
    /\ stream' = [stream EXCEPT ![p] = "opening"]
    /\ UNCHANGED <<server, current, header, inbox, session, view>>

\* The popover's own answer to a 401: POST /auth/refresh, and it connects with
\* the token of the store, which is not the one it has just been given. It does
\* so even when it is mounted no longer.
Reconnect(p) ==
    /\ stream[p] = "closed"
    /\ cookie[p[1]] # None
    /\ header' = [header EXCEPT ![p] = token[p[1]]]
    /\ stream' = [stream EXCEPT ![p] = "opening"]
    /\ UNCHANGED <<server, current, inbox, session, view>>

GiveUp(p) ==
    /\ stream[p] = "closed"
    /\ stream' = [stream EXCEPT ![p] = "dead"]
    /\ UNCHANGED <<server, current, header, inbox, session, view>>

-----------------------------------------------------------------------------
\* Some transaction commits the row of a notice; its push is a later step.
Create(n) ==
    /\ note[n] = "none"
    /\ note' = [note EXCEPT ![n] = "new"]
    /\ unsent' = unsent \union {n}
    /\ UNCHANGED <<clients, beating, hungUp, connection, session, view>>

\* Mutant: the notice is written to every stream there is.
EmitToAll(n) ==
    /\ n \in unsent
    /\ unsent' = unsent \ {n}
    /\ inbox' = [p \in Popovers |->
                    IF stream[p] = "open" THEN inbox[p] \union {n} ELSE inbox[p]]
    /\ UNCHANGED <<note, clients, beating, hungUp, stream, current, header,
                   session, view>>

\* hub.emit: to the responses of the user. What is written to a connection that
\* is gone is lost.
Emit(n) ==
    /\ n \in unsent
    /\ unsent' = unsent \ {n}
    /\ inbox' = [p \in Popovers |->
                    IF stream[p] = "open" /\ Response(p) \in clients[NoteOf[n]]
                    THEN inbox[p] \union {n} ELSE inbox[p]]
    /\ UNCHANGED <<note, clients, beating, hungUp, stream, current, header,
                   session, view>>

-----------------------------------------------------------------------------
\* Mutant: the badge lights up and the list is left as it was.
MessageBadgeOnly(p, n) ==
    /\ n \in inbox[p]
    /\ inbox' = [inbox EXCEPT ![p] = @ \ {n}]
    /\ UNCHANGED <<server, stream, current, header, session, view>>

\* onmessage: the query is invalidated.
Message(p, n) ==
    /\ n \in inbox[p]
    /\ inbox' = [inbox EXCEPT ![p] = @ \ {n}]
    /\ Refetch(p[1])
    /\ UNCHANGED <<server, stream, current, header, session, list, patching, opens>>

Open(t) ==
    /\ Mounted(t)
    /\ opens[t] < MaxOpens[t]
    /\ opens' = [opens EXCEPT ![t] = @ + 1]
    /\ Refetch(t)
    /\ UNCHANGED <<server, connection, session, list, patching>>

FetchRead(t) ==
    /\ fetch[t].at = "asked"
    /\ Live(t, fetch[t].as)
    /\ fetch' = [fetch EXCEPT ![t] = [at |-> "answered", as |-> fetch[t].as,
                                      got |-> Page(fetch[t].as.of)]]
    /\ UNCHANGED <<server, connection, session, list, patching, opens>>

FetchDone(t) ==
    /\ fetch[t].at = "answered"
    /\ fetch' = [fetch EXCEPT ![t] = Idle]
    /\ list' = [list EXCEPT ![t] = fetch[t]]
    /\ UNCHANGED <<server, connection, session, patching, opens>>

\* A click on a notice of the list, read or not; one PATCH of a tab at a time
\* (a bound).
Click(t, n) ==
    /\ Shown(t, n)
    /\ patching[t] = None
    /\ patching' = [patching EXCEPT ![t] = [note |-> n, as |-> token[t]]]
    /\ UNCHANGED <<server, connection, session, fetch, list, opens>>

\* checkNotification, and the query is invalidated again.
Check(t) ==
    /\ patching[t] # None
    /\ Live(t, patching[t].as)
    /\ NoteOf[patching[t].note] = patching[t].as.of
    /\ note' = [note EXCEPT ![patching[t].note] = "checked"]
    /\ patching' = [patching EXCEPT ![t] = None]
    /\ Refetch(t)
    /\ UNCHANGED <<clients, beating, hungUp, unsent, connection, session, list, opens>>

\* ensureNotificationOwner: the notice is somebody else's.
CheckRefused(t) ==
    /\ patching[t] # None
    /\ Live(t, patching[t].as)
    /\ NoteOf[patching[t].note] # patching[t].as.of
    /\ patching' = [patching EXCEPT ![t] = None]
    /\ UNCHANGED <<server, connection, session, fetch, list, opens>>

-----------------------------------------------------------------------------
Expire(t) ==
    /\ expired[t] < issued[t]
    /\ issued[t] < MaxTokens[t]
    /\ expired' = [expired EXCEPT ![t] = @ + 1]
    /\ UNCHANGED <<server, connection, cookie, user, token, issued, logins, since,
                   crossed, view>>

\* The interceptor of axios answers a 401 with POST /auth/refresh, stores the
\* token and sends the request again: for whomever the cookie of the browser
\* names, logged in here or not.
FetchExpired(t) == fetch[t].at = "asked" /\ ~Live(t, fetch[t].as)
PatchExpired(t) == patching[t] # None /\ ~Live(t, patching[t].as)

Renew(t) ==
    LET u == cookie[t] IN
    /\ u # None
    /\ Issue(t, u)
    /\ \/ /\ FetchExpired(t)
          /\ fetch' = [fetch EXCEPT ![t] = Asked(token'[t])]
          /\ UNCHANGED patching
       \/ /\ PatchExpired(t)
          /\ patching' = [patching EXCEPT ![t].as = token'[t]]
          /\ UNCHANGED fetch
    /\ UNCHANGED <<server, connection, cookie, user, expired, logins, since, crossed,
                   list, opens>>

\* When that fails, for whatever reason (the session may have ended in another
\* tab or by time), the user is logged out and the login page is loaded, which
\* empties the tab.
RenewFails(t) ==
    /\ FetchExpired(t) \/ PatchExpired(t)
    /\ Leave(t)
    /\ End({p \in Popovers : p[1] = t})
    /\ fetch' = [fetch EXCEPT ![t] = Idle]
    /\ list' = [list EXCEPT ![t] = None]
    /\ patching' = [patching EXCEPT ![t] = None]
    /\ UNCHANGED <<cookie, opens>>

-----------------------------------------------------------------------------
\* The server process dies and another starts: the hub is empty, notices that
\* were committed are not pushed any more, every stream breaks.
Crash ==
    /\ \E p \in Popovers : stream[p] = "open"
    /\ \A p \in Popovers : stream[p] = "open" => current[p] < MaxStreams[p]
    /\ clients' = [u \in Users |-> {}]
    /\ beating' = {}
    /\ hungUp' = {}
    /\ unsent' = {}
    /\ stream' = [p \in Popovers |-> IF stream[p] = "open" THEN "opening" ELSE stream[p]]
    /\ inbox' = [p \in Popovers |-> {}]
    /\ UNCHANGED <<note, current, header, session, view>>

\* What popover and server do about the stream, and about the other requests.
ConnectStep(p) == Accept(p) \/ Reject(p) \/ Reconnect(p) \/ GiveUp(p)
RequestStep(t) ==
    \/ FetchRead(t) \/ FetchDone(t)
    \/ Check(t) \/ CheckRefused(t)
    \/ Renew(t) \/ RenewFails(t)

Next ==
    \/ \E t \in Tabs :
          \/ RequestStep(t)
          \/ Open(t) \/ Expire(t) \/ Logout(t) \/ Forget(t)
          \/ \E u \in Users : Login(t, u) \/ Elsewhere(t, u)
          \/ \E n \in Notes : Click(t, n)
    \/ \E p \in Popovers :
          \/ ConnectStep(p) \/ Break(p)
          \/ \E n \in Notes : Message(p, n)
    \/ \E r \in hungUp : Close(r)
    \/ \E n \in Notes : Create(n) \/ Emit(n)
    \/ Crash

Spec == Init /\ [][Next]_vars

\* What was begun goes on: requests are answered or fail, messages are read.
\* No user has to do anything and nothing has to break, expire or come back.
FairSpec ==
    /\ Spec
    /\ \A t \in Tabs : WF_vars(RequestStep(t))
    /\ \A p \in Popovers :
          /\ WF_vars(ConnectStep(p))
          /\ \A n \in Notes : WF_vars(Message(p, n))

-----------------------------------------------------------------------------
\* Types of the rows, of the hub, of the popovers and of the tabs.
Fetches ==
    {Idle} \union [at : {"asked", "answered"}, as : Tokens, got : Pages]

TypeOK ==
    /\ note \in [Notes -> {"none", "new", "checked"}]
    /\ clients \in [Users -> SUBSET Responses]
    /\ beating \subseteq Responses
    /\ hungUp \subseteq Responses
    /\ unsent \subseteq Notes
    /\ stream \in [Popovers -> StreamState]
    /\ current \in [Popovers -> Nat] /\ \A p \in Popovers : current[p] \in 0..MaxStreams[p]
    /\ header \in [Popovers -> Tokens \union {None}]
    /\ inbox \in [Popovers -> SUBSET Notes]
    /\ cookie \in [Tabs -> Users \union {None}]
    /\ user \in [Tabs -> Users \union {None}]
    /\ token \in [Tabs -> Tokens \union {None}]
    /\ issued \in [Tabs -> Nat] /\ \A t \in Tabs : issued[t] \in 0..MaxTokens[t]
    /\ expired \in [Tabs -> Nat] /\ \A t \in Tabs : expired[t] \in 0..issued[t]
    /\ logins \in [Tabs -> Nat] /\ \A t \in Tabs : logins[t] \in 0..MaxLogins[t]
    /\ since \in [Tabs -> Nat] /\ \A t \in Tabs : since[t] \in 0..issued[t]
    /\ crossed \subseteq Tabs
    /\ fetch \in [Tabs -> Fetches]
    /\ list \in [Tabs -> {None} \union [at : {"answered"}, as : Tokens, got : Pages]]
    /\ patching \in [Tabs -> {None} \union [note : Notes, as : Tokens]]
    /\ opens \in [Tabs -> Nat] /\ \A t \in Tabs : opens[t] \in 0..MaxOpens[t]

\* The map of the hub holds the streams that are open and those whose close
\* event has still to come, under the right user and each with its heartbeat,
\* whatever connects, breaks and crashes in between, in popovers that are mounted
\* or left over: no response that has ended is written to, and no open one is
\* left out.
HubExact ==
    /\ \A p \in Popovers : stream[p] = "open" =>
          Response(p) \in clients[header[p].of] \ hungUp
    /\ \A u \in Users : \A r \in clients[u] :
          /\ r[3] = u
          /\ r \in hungUp \/ (stream[r[1]] = "open" /\ r = Response(r[1]))
    /\ beating = UNION {clients[u] : u \in Users}
    /\ hungUp \subseteq beating

\* What is written to a stream, and what an answer brings, are rows of the user
\* whose token asked for it, and a notice shows as read only when its row says
\* so. That user is the one who is logged in, through logouts, late answers,
\* joined requests and renewed tokens, with two exceptions of the code: the list
\* was asked for before the login and is cached still, or somebody else has
\* logged in in another tab of the browser since, and the cookie is theirs.
Own(n, k) == NoteOf[n] = k.of /\ note[n] # "none"

OwnNoticesShown ==
    /\ \A p \in Popovers, n \in Notes : n \in inbox[p] => Own(n, header[p])
    /\ \A t \in Tabs, n \in Notes : Shown(t, n) =>
          /\ Own(n, list[t].as)
          /\ list[t].got[n] = "checked" => note[n] = "checked"
          /\ NoteOf[n] = user[t] \/ list[t].as.no < since[t] \/ t \in crossed

\* A notice that reaches the open stream of a popover is on its list in the end,
\* if a list had arrived by then: a message joins the first GET, which may have
\* read before the notice was there.
NoticeShown ==
    \A p \in Popovers, n \in Notes :
        n \in inbox[p] /\ list[p[1]] # None ~>
            \/ Shown(p[1], n)
            \/ stream[p] # "open" \/ p # Popover(p[1]) \/ ~Mounted(p[1])
            \/ p[1] \in crossed

\* A stream that was refused for its old token is opened again when the user
\* store holds a good one.
StreamReopened ==
    \A p \in Popovers :
        stream[p] = "closed" /\ Live(p[1], token[p[1]]) ~>
            stream[p] \in {"open", "dead", "none"} \/ ~Live(p[1], token[p[1]])

=============================================================================
