--------------------------- MODULE NoticesProofs ---------------------------
(***************************************************************************)
(* Theorems about Notices for any users, tabs and notices, and any bounds. *)
(* Types come first, with what they rest on; then the map of the hub, for  *)
(* which responses must be numbered as they are accepted; then whose tokens*)
(* a tab has used since its login, and what the tabs show, which needs the *)
(* hub to know whose a stream is.                                          *)
(***************************************************************************)
EXTENDS Notices, TLAPS

OpenAccepted ==
    \A p \in Popovers : stream[p] = "open" => current[p] # 0 /\ header[p] # None

\* Who is logged in has a token and a popover, and no later one is mounted.
LoggedIn == \A t \in Tabs : Mounted(t) => token[t] # None /\ logins[t] # 0

NoneAhead == \A p \in Popovers : p[2] > logins[p[1]] => stream[p] = "none"

Typed == TypeOK /\ OpenAccepted /\ LoggedIn /\ NoneAhead

\* A popover is named by its tab and its number there, a response by its
\* popover, its number there and its user.
LEMMA PopoverParts ==
    \A p \in Popovers :
        p = <<p[1], p[2]>> /\ p[1] \in Tabs /\ p[2] \in 1..MaxLogins[p[1]]
BY DEF Popovers

LEMMA PopoverMade ==
    \A t \in Tabs : \A k \in 1..MaxLogins[t] : <<t, k>> \in Popovers
BY DEF Popovers

LEMMA ResponseParts ==
    \A r \in Responses :
        /\ r = <<r[1], r[2], r[3]>>
        /\ r[1] \in Popovers
        /\ r[2] \in 1..MaxStreams[r[1]]
        /\ r[3] \in Users
BY DEF Responses

LEMMA ResponseMade ==
    \A p \in Popovers : \A k \in 1..MaxStreams[p] : \A u \in Users :
        <<p, k, u>> \in Responses
BY DEF Responses

\* An open stream has a response.
LEMMA OpenResponse ==
    Typed => \A p \in Popovers : stream[p] = "open" => Response(p) \in Responses
<1>. SUFFICES ASSUME Typed, NEW p \in Popovers, stream[p] = "open"
              PROVE  Response(p) \in Responses
  OBVIOUS
<1>1. current[p] \in 1..MaxStreams[p] /\ header[p].of \in Users
  BY NoticesAssumption DEF Typed, TypeOK, OpenAccepted, Tokens
<1>. QED
  BY <1>1, ResponseMade DEF Response

LEMMA FetchTypes ==
    /\ Idle \in Fetches
    /\ \A k \in Tokens : Asked(k) \in Fetches
    /\ TypeOK => \A u : Page(u) \in Pages
BY DEF Fetches, Idle, Asked, NoPage, Page, Pages, TypeOK

LEMMA RefetchTyped ==
    ASSUME Typed, NEW t \in Tabs, Refetch(t)
    PROVE  fetch' \in [Tabs -> Fetches]
<1>1. Mounted(t) => Asked(token[t]) \in Fetches
  BY FetchTypes DEF Typed, TypeOK, LoggedIn
<1>. QED
  BY <1>1 DEF Refetch, Typed, TypeOK

LEMMA InitTyped == Init => Typed
<1>. SUFFICES ASSUME Init PROVE Typed
  OBVIOUS
<1>1. TypeOK
  <2>1. /\ note \in [Notes -> {"none", "new", "checked"}]
        /\ clients \in [Users -> SUBSET Responses]
        /\ beating \subseteq Responses /\ hungUp \subseteq Responses
        /\ unsent \subseteq Notes /\ crossed \subseteq Tabs
    BY DEF Init
  <2>2. /\ stream \in [Popovers -> StreamState]
        /\ current \in [Popovers -> Nat]
        /\ \A p \in Popovers : current[p] \in 0..MaxStreams[p]
        /\ header \in [Popovers -> Tokens \union {None}]
        /\ inbox \in [Popovers -> SUBSET Notes]
    <3>1. \A p \in Popovers : MaxStreams[p] \in Nat
      BY NoticesAssumption
    <3>. QED
      BY <3>1 DEF Init, StreamState
  <2>3. /\ cookie \in [Tabs -> Users \union {None}]
        /\ user \in [Tabs -> Users \union {None}]
        /\ token \in [Tabs -> Tokens \union {None}]
        /\ list \in [Tabs -> {None} \union [at : {"answered"}, as : Tokens, got : Pages]]
        /\ patching \in [Tabs -> {None} \union [note : Notes, as : Tokens]]
        /\ fetch \in [Tabs -> Fetches]
    BY FetchTypes DEF Init
  <2>4. /\ issued \in [Tabs -> Nat] /\ \A t \in Tabs : issued[t] \in 0..MaxTokens[t]
        /\ expired \in [Tabs -> Nat] /\ \A t \in Tabs : expired[t] \in 0..issued[t]
        /\ logins \in [Tabs -> Nat] /\ \A t \in Tabs : logins[t] \in 0..MaxLogins[t]
        /\ since \in [Tabs -> Nat] /\ \A t \in Tabs : since[t] \in 0..issued[t]
        /\ opens \in [Tabs -> Nat] /\ \A t \in Tabs : opens[t] \in 0..MaxOpens[t]
    BY NoticesAssumption DEF Init
  <2>. QED
    BY <2>1, <2>2, <2>3, <2>4 DEF TypeOK
<1>2. OpenAccepted /\ LoggedIn /\ NoneAhead
  BY DEF Init, OpenAccepted, LoggedIn, NoneAhead, Mounted
<1>. QED
  BY <1>1, <1>2 DEF Typed

\* Streams: what connects, breaks and closes.
LEMMA ConnectTyped ==
    ASSUME Typed, NEW p \in Popovers, ConnectStep(p) \/ Break(p)
    PROVE  Typed'
<1>. USE NoticesAssumption DEF Typed, OpenAccepted
<1>0. p[1] \in Tabs /\ current[p] \in Nat /\ MaxStreams[p] \in Nat
  BY PopoverParts DEF TypeOK
<1>1. CASE Accept(p)
  <2>1. header[p] # None /\ header[p].of \in Users
    BY <1>1 DEF Accept, Live, TypeOK, Tokens
  <2>2. <<p, current[p] + 1, header[p].of>> \in Responses
    <3>1. current[p] + 1 \in 1..MaxStreams[p]
      BY <1>0, <1>1 DEF Accept
    <3>. HIDE DEF Typed, OpenAccepted
    <3>. QED
      BY <2>1, <3>1, ResponseMade
  <2>3. clients' \in [Users -> SUBSET Responses] /\ beating' \subseteq Responses
    BY <1>1, <2>1, <2>2 DEF Accept, TypeOK
  <2>4. /\ current' \in [Popovers -> Nat]
        /\ \A q \in Popovers : current'[q] \in 0..MaxStreams[q]
    <3>1. \A q \in Popovers : current'[q] = IF q = p THEN current[p] + 1 ELSE current[q]
      BY <1>1 DEF Accept, TypeOK
    <3>2. current[p] + 1 \in 0..MaxStreams[p] /\ current[p] + 1 \in Nat
      BY <1>0, <1>1 DEF Accept
    <3>3. current' = [q \in Popovers |-> current'[q]]
      BY <1>1 DEF Accept, TypeOK
    <3>. QED
      BY <3>1, <3>2, <3>3 DEF TypeOK
  <2>5. stream' \in [Popovers -> StreamState]
    BY <1>1 DEF Accept, TypeOK, StreamState
  <2>6. OpenAccepted'
    <3>1. current'[p] # 0 /\ \A q \in Popovers \ {p} : stream'[q] = stream[q] /\ current'[q] = current[q]
      BY <1>0, <1>1 DEF Accept, TypeOK
    <3>. QED
      BY <1>1, <2>1, <3>1 DEF Accept
  <2>7. NoneAhead'
    BY <1>1 DEF Accept, TypeOK, session, NoneAhead
  <2>. QED
    BY <1>1, <2>3, <2>4, <2>5, <2>6, <2>7
       DEF Accept, TypeOK, LoggedIn, Mounted, session, view
<1>2. CASE Reject(p) \/ GiveUp(p)
  <2>1. stream' \in [Popovers -> StreamState] /\ OpenAccepted' /\ NoneAhead'
    BY <1>2 DEF Reject, GiveUp, TypeOK, StreamState, NoneAhead, session
  <2>. QED
    BY <1>2, <2>1 DEF Reject, GiveUp, TypeOK, LoggedIn, Mounted, server, session, view
<1>3. CASE Reconnect(p)
  <2>1. stream' \in [Popovers -> StreamState] /\ OpenAccepted' /\ NoneAhead'
    <3>1. /\ stream' = [stream EXCEPT ![p] = "opening"]
          /\ stream[p] = "closed"
          /\ UNCHANGED <<current, logins>>
          /\ \A q \in Popovers \ {p} : header'[q] = header[q]
      BY <1>3 DEF Reconnect, TypeOK, session
    <3>2. /\ stream'[p] = "opening"
          /\ \A q \in Popovers \ {p} : stream'[q] = stream[q]
          /\ stream' \in [Popovers -> StreamState]
      BY <3>1 DEF TypeOK, StreamState
    <3>. QED
      BY <3>1, <3>2 DEF NoneAhead
  <2>2. header' \in [Popovers -> Tokens \union {None}]
    BY <1>0, <1>3 DEF Reconnect, TypeOK
  <2>. QED
    BY <1>3, <2>1, <2>2 DEF Reconnect, TypeOK, LoggedIn, Mounted, server, session, view
<1>4. CASE Break(p)
  <2>1. Response(p) \in Responses
    BY <1>4, OpenResponse DEF Break
  <2>2. stream' \in [Popovers -> StreamState] /\ OpenAccepted' /\ NoneAhead'
    BY <1>4 DEF Break, TypeOK, StreamState, NoneAhead, session
  <2>. QED
    BY <1>4, <2>1, <2>2 DEF Break, TypeOK, LoggedIn, Mounted, session, view
<1>. QED
  BY <1>1, <1>2, <1>3, <1>4 DEF ConnectStep

\* A counter below its bound counts one on.
LEMMA CountOn ==
    ASSUME NEW S, NEW f \in [S -> Nat], NEW bound \in [S -> Nat],
           \A s \in S : f[s] \in 0..bound[s],
           NEW t \in S, f[t] < bound[t],
           NEW g, g = [f EXCEPT ![t] = @ + 1]
    PROVE  /\ g \in [S -> Nat]
           /\ \A s \in S : g[s] \in 0..bound[s]
           /\ g[t] = f[t] + 1
           /\ f[t] + 1 \in 1..bound[t]
           /\ \A s \in S \ {t} : g[s] = f[s]
OBVIOUS

\* A token more keeps the numbers in their bounds.
LEMMA IssueTyped ==
    ASSUME Typed, NEW t \in Tabs, NEW u \in Users, Issue(t, u)
    PROVE  /\ issued' \in [Tabs -> Nat]
           /\ \A s \in Tabs : issued'[s] \in 0..MaxTokens[s]
           /\ \A s \in Tabs : expired[s] \in 0..issued'[s] /\ since[s] \in 0..issued'[s]
           /\ token' \in [Tabs -> Tokens \union {None}]
           /\ token'[t] \in Tokens
           /\ token'[t] # None
           /\ issued'[t] = issued[t] + 1
           /\ token'[t] = [of |-> u, no |-> issued[t] + 1]
           /\ \A s \in Tabs \ {t} : token'[s] = token[s] /\ issued'[s] = issued[s]
<1>1. /\ issued \in [Tabs -> Nat] /\ \A s \in Tabs : issued[s] \in 0..MaxTokens[s]
      /\ \A s \in Tabs : expired[s] \in 0..issued[s] /\ since[s] \in 0..issued[s]
      /\ token \in [Tabs -> Tokens \union {None}]
      /\ MaxTokens \in [Tabs -> Nat]
      /\ None \notin Tokens
  BY NoticesAssumption DEF Typed, TypeOK
<1>2. /\ issued[t] < MaxTokens[t]
      /\ issued' = [issued EXCEPT ![t] = @ + 1]
      /\ token' = [token EXCEPT ![t] = [of |-> u, no |-> issued[t] + 1]]
  BY DEF Issue
<1>3. /\ issued' \in [Tabs -> Nat]
      /\ \A s \in Tabs : issued'[s] \in 0..MaxTokens[s]
      /\ issued'[t] = issued[t] + 1
      /\ \A s \in Tabs \ {t} : issued'[s] = issued[s]
  BY <1>1, <1>2, CountOn
<1>4. \A s \in Tabs : expired[s] \in 0..issued'[s] /\ since[s] \in 0..issued'[s]
  BY <1>1, <1>3
<1>5. [of |-> u, no |-> issued[t] + 1] \in Tokens
  BY <1>1 DEF Tokens
<1>6. /\ token' \in [Tabs -> Tokens \union {None}]
      /\ token'[t] \in Tokens
      /\ token'[t] = [of |-> u, no |-> issued[t] + 1]
      /\ \A s \in Tabs \ {t} : token'[s] = token[s]
  BY <1>1, <1>2, <1>5
<1>. QED
  BY <1>1, <1>3, <1>4, <1>6

\* A login mounts the next popover.
LEMMA LoginTyped ==
    ASSUME Typed, NEW t \in Tabs, NEW u \in Users, Login(t, u)
    PROVE  Typed'
<1>. DEFINE p == <<t, logins[t] + 1>>
<1>1. /\ Issue(t, u)
      /\ logins[t] < MaxLogins[t]
      /\ user' = [user EXCEPT ![t] = u]
      /\ cookie' = [cookie EXCEPT ![t] = u]
      /\ logins' = [logins EXCEPT ![t] = @ + 1]
      /\ since' = [since EXCEPT ![t] = issued[t] + 1]
      /\ crossed' = crossed \ {t}
      /\ stream' = [stream EXCEPT ![p] = "opening"]
      /\ header' = [header EXCEPT ![p] = token'[t]]
      /\ fetch' = IF fetch[t] = Idle THEN [fetch EXCEPT ![t] = Asked(token'[t])] ELSE fetch
      /\ UNCHANGED <<server, current, inbox, expired, list, patching, opens>>
  BY DEF Login
<1>2. /\ logins \in [Tabs -> Nat] /\ MaxLogins \in [Tabs -> Nat]
      /\ \A s \in Tabs : logins[s] \in 0..MaxLogins[s]
  BY NoticesAssumption DEF Typed, TypeOK
<1>3. /\ issued' \in [Tabs -> Nat]
      /\ \A s \in Tabs : issued'[s] \in 0..MaxTokens[s]
      /\ \A s \in Tabs : expired[s] \in 0..issued'[s] /\ since[s] \in 0..issued'[s]
      /\ token' \in [Tabs -> Tokens \union {None}]
      /\ token'[t] \in Tokens
      /\ token'[t] # None
      /\ issued'[t] = issued[t] + 1
      /\ \A s \in Tabs \ {t} : token'[s] = token[s] /\ issued'[s] = issued[s]
  BY <1>1, IssueTyped
<1>4. /\ logins' \in [Tabs -> Nat]
      /\ \A s \in Tabs : logins'[s] \in 0..MaxLogins[s]
      /\ logins'[t] = logins[t] + 1
      /\ \A s \in Tabs \ {t} : logins'[s] = logins[s]
      /\ logins[t] + 1 \in 1..MaxLogins[t]
  BY <1>1, <1>2, CountOn
<1>4a. p \in Popovers
  BY <1>4, PopoverMade
<1>5. since' \in [Tabs -> Nat] /\ \A s \in Tabs : since'[s] \in 0..issued'[s]
  BY <1>1, <1>3 DEF Typed, TypeOK
<1>6. /\ stream' \in [Popovers -> StreamState]
      /\ header' \in [Popovers -> Tokens \union {None}]
      /\ \A q \in Popovers \ {p} : stream'[q] = stream[q] /\ header'[q] = header[q]
      /\ stream'[p] = "opening"
  BY <1>1, <1>3, <1>4a DEF Typed, TypeOK, StreamState
<1>7. fetch' \in [Tabs -> Fetches]
  BY <1>1, <1>3, FetchTypes DEF Typed, TypeOK
<1>8. user' \in [Tabs -> Users \union {None}] /\ cookie' \in [Tabs -> Users \union {None}]
  BY <1>1 DEF Typed, TypeOK
<1>9. \A s \in Tabs : expired'[s] \in 0..issued'[s]
  BY <1>1, <1>3
<1>10. TypeOK'
  BY <1>1, <1>3, <1>4, <1>5, <1>6, <1>7, <1>8, <1>9 DEF Typed, TypeOK, server
<1>11. OpenAccepted'
  BY <1>1, <1>6 DEF Typed, OpenAccepted
<1>12. LoggedIn'
  BY <1>1, <1>3, <1>4 DEF Typed, TypeOK, LoggedIn, Mounted
<1>13. NoneAhead'
  <2>. SUFFICES ASSUME NEW q \in Popovers, q[2] > logins'[q[1]] PROVE stream'[q] = "none"
    BY DEF NoneAhead
  <2>1. q[1] \in Tabs /\ q[2] \in Nat /\ q = <<q[1], q[2]>>
    BY PopoverParts, NoticesAssumption
  <2>2. q # p /\ q[2] > logins[q[1]]
    <3>1. CASE q[1] = t
      BY <1>4, <2>1, <3>1 DEF Typed, TypeOK
    <3>2. CASE q[1] # t
      BY <1>4, <2>1, <3>2
    <3>. QED
      BY <3>1, <3>2
  <2>. QED
    BY <1>6, <2>2 DEF Typed, NoneAhead
<1>. QED
  BY <1>10, <1>11, <1>12, <1>13 DEF Typed

\* A tab is left, by the user or because its token cannot be renewed.
LEMMA EndTyped ==
    ASSUME Typed, NEW ps \in SUBSET Popovers, End(ps)
    PROVE  /\ stream' \in [Popovers -> StreamState]
           /\ inbox' \in [Popovers -> SUBSET Notes]
           /\ hungUp' \subseteq Responses
           /\ OpenAccepted'
           /\ logins' = logins => NoneAhead'
<1>1. hungUp' \subseteq Responses
  BY OpenResponse DEF End, Typed, TypeOK
<1>2. /\ stream' \in [Popovers -> StreamState]
      /\ \A p \in Popovers : stream'[p] \in {stream[p], "none"}
      /\ UNCHANGED <<current, header>>
  BY DEF End, Typed, TypeOK, StreamState
<1>3. inbox' \in [Popovers -> SUBSET Notes]
  BY DEF End, Typed, TypeOK
<1>. QED
  BY <1>1, <1>2, <1>3 DEF Typed, OpenAccepted, NoneAhead

LEMMA LeaveTyped ==
    ASSUME Typed, NEW t \in Tabs, Logout(t) \/ RenewFails(t)
    PROVE  Typed'
<1>0. Leave(t)
  BY DEF Logout, RenewFails
<1>1. PICK ps \in SUBSET Popovers : End(ps)
  <2>1. CASE Logout(t)
    <3>1. Popover(t) \in Popovers
      BY <2>1, PopoverMade DEF Logout, Popover, Typed, TypeOK, LoggedIn
    <3>. QED
      BY <2>1, <3>1 DEF Logout
  <2>2. CASE RenewFails(t)
    BY <2>2 DEF RenewFails
  <2>. QED
    BY <2>1, <2>2
<1>2. /\ stream' \in [Popovers -> StreamState]
      /\ inbox' \in [Popovers -> SUBSET Notes]
      /\ hungUp' \subseteq Responses
      /\ OpenAccepted' /\ NoneAhead'
  BY <1>0, <1>1, EndTyped DEF Leave
<1>3. /\ user' \in [Tabs -> Users \union {None}]
      /\ token' \in [Tabs -> Tokens \union {None}]
      /\ LoggedIn'
  BY <1>0 DEF Leave, Typed, TypeOK, LoggedIn, Mounted
<1>4. /\ cookie' \in [Tabs -> Users \union {None}]
      /\ fetch' \in [Tabs -> Fetches]
      /\ list' \in [Tabs -> {None} \union [at : {"answered"}, as : Tokens, got : Pages]]
      /\ patching' \in [Tabs -> {None} \union [note : Notes, as : Tokens]]
      /\ opens' = opens
  <2>1. CASE Logout(t)
    BY <2>1 DEF Logout, view, Typed, TypeOK
  <2>2. CASE RenewFails(t)
    BY <2>2, FetchTypes DEF RenewFails, Typed, TypeOK
  <2>. QED
    BY <2>1, <2>2
<1>5. TypeOK'
  BY <1>0, <1>1, <1>2, <1>3, <1>4 DEF Leave, End, Typed, TypeOK
<1>. QED
  BY <1>2, <1>3, <1>5 DEF Typed

\* The requests of a tab and what its user does.
LEMMA RequestTyped ==
    ASSUME Typed, NEW t \in Tabs,
           \/ FetchRead(t) \/ FetchDone(t) \/ Check(t) \/ CheckRefused(t) \/ Renew(t)
           \/ Open(t) \/ Expire(t) \/ Forget(t)
           \/ \E u \in Users : Elsewhere(t, u)
           \/ \E n \in Notes : Click(t, n)
    PROVE  Typed'
<1>. USE NoticesAssumption DEF Typed, OpenAccepted, LoggedIn, NoneAhead, Mounted
<1>1. CASE FetchRead(t)
  <2>1. fetch[t].as \in Tokens
    BY <1>1 DEF FetchRead, TypeOK, Fetches, Idle
  <2>2. [at |-> "answered", as |-> fetch[t].as, got |-> Page(fetch[t].as.of)] \in Fetches
    BY <2>1, FetchTypes DEF Fetches
  <2>3. fetch' \in [Tabs -> Fetches]
    BY <1>1, <2>2 DEF FetchRead, TypeOK
  <2>. QED
    BY <1>1, <2>3 DEF FetchRead, TypeOK, server, connection, session
<1>2. CASE FetchDone(t)
  <2>1. fetch[t] \in [at : {"answered"}, as : Tokens, got : Pages]
    BY <1>2 DEF FetchDone, TypeOK, Fetches, Idle
  <2>. QED
    BY <1>2, <2>1, FetchTypes DEF FetchDone, TypeOK, server, connection, session
<1>3. CASE Check(t) \/ Open(t)
  <2>1. fetch' \in [Tabs -> Fetches]
    BY <1>3, RefetchTyped DEF Check, Open
  <2>2. CASE Check(t)
    BY <2>1, <2>2 DEF Check, TypeOK, connection, session
  <2>3. CASE Open(t)
    <3>1. /\ opens' \in [Tabs -> Nat]
          /\ \A s \in Tabs : opens'[s] \in 0..MaxOpens[s]
      BY <2>3 DEF Open, TypeOK
    <3>. QED
      BY <2>1, <2>3, <3>1 DEF Open, TypeOK, server, connection, session
  <2>. QED
    BY <1>3, <2>2, <2>3
<1>4. CASE Renew(t)
  <2>1. PICK u \in Users : Issue(t, u)
    BY <1>4 DEF Renew, TypeOK
  <2>2. /\ issued' \in [Tabs -> Nat]
        /\ \A s \in Tabs : issued'[s] \in 0..MaxTokens[s]
        /\ \A s \in Tabs : expired[s] \in 0..issued'[s] /\ since[s] \in 0..issued'[s]
        /\ token' \in [Tabs -> Tokens \union {None}]
        /\ token'[t] \in Tokens
        /\ token'[t] # None
        /\ \A s \in Tabs \ {t} : token'[s] = token[s] /\ issued'[s] = issued[s]
    BY <2>1, IssueTyped
  <2>3. fetch' \in [Tabs -> Fetches]
    BY <1>4, <2>2, FetchTypes DEF Renew, TypeOK
  <2>4. patching' \in [Tabs -> {None} \union [note : Notes, as : Tokens]]
    <3>1. CASE UNCHANGED patching
      BY <3>1 DEF TypeOK
    <3>2. CASE PatchExpired(t) /\ patching' = [patching EXCEPT ![t].as = token'[t]]
      <4>1. patching[t] \in [note : Notes, as : Tokens]
        BY <3>2 DEF PatchExpired, TypeOK
      <4>2. [patching[t] EXCEPT !.as = token'[t]] \in [note : Notes, as : Tokens]
        BY <2>2, <4>1
      <4>3. patching' = [patching EXCEPT ![t] = [patching[t] EXCEPT !.as = token'[t]]]
        BY <3>2
      <4>. QED
        BY <4>2, <4>3 DEF TypeOK
    <3>. QED
      BY <1>4, <3>1, <3>2 DEF Renew
  <2>5. /\ UNCHANGED <<server, connection, cookie, user, expired, logins, since,
                       crossed, list, opens>>
        /\ TypeOK
    BY <1>4 DEF Renew
  <2>6. TypeOK'
    BY <2>2, <2>3, <2>4, <2>5 DEF TypeOK, server, connection
  <2>. QED
    BY <2>2, <2>5, <2>6 DEF connection
<1>5. CASE Expire(t)
  <2>1. /\ expired' \in [Tabs -> Nat]
        /\ \A s \in Tabs : expired'[s] \in 0..issued[s]
    BY <1>5 DEF Expire, TypeOK
  <2>. QED
    BY <1>5, <2>1 DEF Expire, TypeOK, server, connection, view
<1>6. CASE CheckRefused(t) \/ Forget(t)
  BY <1>6 DEF CheckRefused, Forget, TypeOK, server, connection, session
<1>7. CASE \E u \in Users : Elsewhere(t, u)
  BY <1>7 DEF Elsewhere, TypeOK, server, connection, view
<1>8. CASE \E n \in Notes : Click(t, n)
  BY <1>8 DEF Click, Shown, TypeOK, server, connection, session
<1>. QED
  BY <1>1, <1>2, <1>3, <1>4, <1>5, <1>6, <1>7, <1>8

\* Notices on their way, closed responses, and the death of the process.
LEMMA ServerTyped ==
    ASSUME Typed,
           \/ \E p \in Popovers, n \in Notes : Message(p, n)
           \/ \E r \in hungUp : Close(r)
           \/ \E n \in Notes : Create(n) \/ Emit(n)
           \/ Crash
    PROVE  Typed'
<1>. USE NoticesAssumption DEF Typed, OpenAccepted, LoggedIn, NoneAhead, Mounted
<1>1. ASSUME NEW p \in Popovers, NEW n \in Notes, Message(p, n) PROVE Typed'
  <2>1. fetch' \in [Tabs -> Fetches]
    BY <1>1, RefetchTyped, PopoverParts DEF Message
  <2>2. inbox' \in [Popovers -> SUBSET Notes]
    BY <1>1 DEF Message, TypeOK
  <2>. QED
    BY <1>1, <2>1, <2>2 DEF Message, TypeOK, server, session
<1>2. ASSUME NEW r \in hungUp, Close(r) PROVE Typed'
  <2>1. /\ clients' \in [Users -> SUBSET Responses]
        /\ beating' \subseteq Responses
        /\ hungUp' \subseteq Responses
    BY <1>2 DEF Close, TypeOK
  <2>. QED
    BY <1>2, <2>1 DEF Close, TypeOK, connection, session, view
<1>3. CASE \E n \in Notes : Create(n)
  BY <1>3 DEF Create, TypeOK, connection, session, view
<1>4. CASE \E n \in Notes : Emit(n)
  BY <1>4 DEF Emit, TypeOK, session, view
<1>5. CASE Crash
  <2>1. stream' \in [Popovers -> StreamState] /\ OpenAccepted' /\ NoneAhead'
    BY <1>5 DEF Crash, TypeOK, StreamState, session
  <2>. QED
    BY <1>5, <2>1 DEF Crash, TypeOK, session, view
<1>. QED
  BY <1>1, <1>2, <1>3, <1>4, <1>5

LEMMA NextTyped == Typed /\ [Next]_vars => Typed'
<1>. SUFFICES ASSUME Typed, [Next]_vars PROVE Typed'
  OBVIOUS
<1>1. CASE UNCHANGED vars
  BY <1>1 DEF Typed, TypeOK, OpenAccepted, LoggedIn, NoneAhead, Mounted,
              vars, server, connection, session, view
<1>2. ASSUME NEW t \in Tabs,
             \/ RequestStep(t)
             \/ Open(t) \/ Expire(t) \/ Logout(t) \/ Forget(t)
             \/ \E u \in Users : Login(t, u) \/ Elsewhere(t, u)
             \/ \E n \in Notes : Click(t, n)
      PROVE  Typed'
  BY <1>2, LoginTyped, LeaveTyped, RequestTyped DEF RequestStep
<1>. QED
  BY <1>1, <1>2, ConnectTyped, ServerTyped DEF Next

\* Every variable of Notices keeps its type, for any tabs and any bounds: no
\* token beyond the last is used, no response beyond those accepted is known.
THEOREM NoticesTypeCorrect == Spec => []TypeOK
<1>1. Typed => TypeOK
  BY DEF Typed
<1>. QED
  BY <1>1, InitTyped, NextTyped, PTL DEF Spec

-----------------------------------------------------------------------------
\* Responses are numbered as they are accepted: none the hub knows is to come.
Numbered == \A r \in beating : r[2] <= current[r[1]]

Hub == HubExact /\ Numbered

LEMMA InitHub == Init => Hub
BY DEF Init, Hub, HubExact, Numbered

\* Who is in the hub has a heartbeat, and the other way round.
LEMMA RegisteredBeats ==
    ASSUME Typed, Hub
    PROVE  /\ \A u \in Users : \A r \in clients[u] : r \in beating
           /\ \A r \in beating : r \in Responses /\ r \in clients[r[3]]
BY DEF Hub, HubExact, Typed, TypeOK

\* Whose an open stream is, and that the hub knows its response.
LEMMA OpenKnown ==
    ASSUME Typed, Hub, NEW p \in Popovers, stream[p] = "open"
    PROVE  /\ header[p].of \in Users
           /\ Response(p)[1] = p /\ Response(p)[3] = header[p].of
           /\ Response(p) \in clients[header[p].of] \ hungUp
           /\ Response(p) \in beating
<1>1. header[p].of \in Users
  BY DEF Typed, TypeOK, OpenAccepted, Tokens
<1>2. Response(p) \in clients[header[p].of] \ hungUp
  BY DEF Hub, HubExact
<1>. QED
  BY <1>1, <1>2, RegisteredBeats DEF Response

\* A step that leaves the hub and the streams that are open as they are.
LEMMA SameHub ==
    ASSUME Typed, Hub, UNCHANGED <<clients, beating, hungUp, current>>,
           \A p \in Popovers :
              /\ stream'[p] = "open" <=> stream[p] = "open"
              /\ stream[p] = "open" => header'[p] = header[p]
    PROVE  Hub'
<1>1. \A p \in Popovers : stream[p] = "open" => Response(p)' = Response(p)
  BY DEF Response
<1>2. \A p \in Popovers : stream'[p] = "open" =>
          (Response(p) \in clients[header[p].of] \ hungUp)'
  BY <1>1 DEF Hub, HubExact
<1>3. ASSUME NEW u \in Users, NEW r \in clients'[u]
      PROVE  /\ r[3] = u
             /\ r \in hungUp' \/ (stream'[r[1]] = "open" /\ r = Response(r[1])')
  <2>1. r[1] \in Popovers
    BY <1>3, ResponseParts DEF Typed, TypeOK
  <2>. QED
    BY <1>1, <1>3, <2>1 DEF Hub, HubExact
<1>. QED
  BY <1>2, <1>3 DEF Hub, HubExact, Numbered

\* A stream that is accepted has a number of its own.
LEMMA AcceptHub ==
    ASSUME Typed, Hub, NEW p \in Popovers, Accept(p)
    PROVE  Hub'
<1>. DEFINE u == header[p].of
            r == <<p, current[p] + 1, u>>
<1>0. /\ u \in Users /\ current[p] \in Nat
      /\ r[1] = p /\ r[2] = current[p] + 1 /\ r[3] = u
  BY NoticesAssumption DEF Accept, Live, Typed, TypeOK, Tokens
<1>1. /\ clients' = [clients EXCEPT ![u] = @ \union {r}]
      /\ beating' = beating \union {r}
      /\ UNCHANGED <<hungUp, header>>
      /\ stream' = [stream EXCEPT ![p] = "open"]
      /\ current' = [current EXCEPT ![p] = @ + 1]
      /\ stream[p] = "opening"
  BY DEF Accept
<1>2. r \notin beating /\ r \notin hungUp
  BY <1>0 DEF Hub, HubExact, Numbered
<1>3. /\ stream'[p] = "open" /\ Response(p)' = r
      /\ \A q \in Popovers \ {p} :
            stream'[q] = stream[q] /\ current'[q] = current[q] /\ Response(q)' = Response(q)
      /\ current'[p] = current[p] + 1
  BY <1>1 DEF Response, Typed, TypeOK
<1>4. /\ clients'[u] = clients[u] \union {r}
      /\ \A v \in Users \ {u} : clients'[v] = clients[v]
  BY <1>0, <1>1 DEF Typed, TypeOK
<1>5. ASSUME NEW q \in Popovers, stream'[q] = "open"
      PROVE  (Response(q) \in clients[header[q].of] \ hungUp)'
  <2>1. CASE q = p
    BY <1>1, <1>2, <1>3, <1>4, <2>1
  <2>2. CASE q # p
    <3>1. Response(q)' = Response(q) /\ stream[q] = "open"
      BY <1>3, <1>5, <2>2
    <3>2. Response(q) \in clients[header[q].of] \ hungUp /\ header[q].of \in Users
      BY <3>1, OpenKnown
    <3>. QED
      BY <1>1, <1>4, <3>1, <3>2
  <2>. QED
    BY <2>1, <2>2
<1>6. ASSUME NEW v \in Users, NEW q \in clients'[v]
      PROVE  /\ q[3] = v
             /\ q \in hungUp' \/ (stream'[q[1]] = "open" /\ q = Response(q[1])')
  <2>1. CASE q = r
    <3>1. q \notin clients[v]
      BY <1>2, <2>1, RegisteredBeats
    <3>2. v = u
      BY <1>4, <1>6, <3>1
    <3>. QED
      BY <1>0, <1>3, <2>1, <3>2
  <2>2. CASE q # r
    <3>1. q \in clients[v]
      BY <1>4, <1>6, <2>2
    <3>2. q[1] \in Popovers
      BY <3>1, ResponseParts DEF Typed, TypeOK
    <3>3. /\ q[3] = v
          /\ q \in hungUp \/ (stream[q[1]] = "open" /\ q = Response(q[1]))
      BY <3>1 DEF Hub, HubExact
    <3>. QED
      BY <1>1, <1>3, <3>2, <3>3
  <2>. QED
    BY <2>1, <2>2
<1>7. beating' = UNION {clients'[v] : v \in Users} /\ hungUp' \subseteq beating'
  BY <1>0, <1>1, <1>4 DEF Hub, HubExact
<1>8. Numbered'
  <2>. SUFFICES ASSUME NEW q \in beating' PROVE q[2] <= current'[q[1]]
    BY DEF Numbered
  <2>1. CASE q = r
    BY <1>0, <1>3, <2>1
  <2>2. CASE q # r
    <3>1. q \in beating /\ q[2] <= current[q[1]]
      BY <1>1, <2>2 DEF Hub, Numbered
    <3>2. q[1] \in Popovers /\ q[2] \in Int /\ current[q[1]] \in Nat
      BY <3>1, RegisteredBeats, ResponseParts, NoticesAssumption DEF Typed, TypeOK
    <3>. QED
      BY <1>0, <1>3, <3>1, <3>2
  <2>. QED
    BY <2>1, <2>2
<1>. QED
  BY <1>5, <1>6, <1>7, <1>8 DEF Hub, HubExact

\* Streams end and their close events are still to come.
LEMMA EndHub ==
    ASSUME Typed, Hub, NEW ps \in SUBSET Popovers,
           UNCHANGED <<clients, beating, current, header>>,
           hungUp' = hungUp \union {Response(p) : p \in {q \in ps : stream[q] = "open"}},
           \A p \in ps : stream'[p] # "open",
           \A p \in Popovers \ ps : stream'[p] = stream[p]
    PROVE  Hub'
<1>1. \A p \in Popovers : Response(p)' = Response(p) /\ Response(p)[1] = p
  BY DEF Response
<1>2. ASSUME NEW p \in Popovers, stream'[p] = "open"
      PROVE  (Response(p) \in clients[header[p].of] \ hungUp)'
  <2>1. p \notin ps /\ stream[p] = "open"
    BY <1>2
  <2>2. \A q \in ps : Response(q) # Response(p)
    BY <1>1, <2>1
  <2>3. Response(p) \in clients[header[p].of] \ hungUp
    BY <2>1, OpenKnown
  <2>. QED
    BY <1>1, <2>2, <2>3
<1>3. ASSUME NEW v \in Users, NEW r \in clients'[v]
      PROVE  /\ r[3] = v
             /\ r \in hungUp' \/ (stream'[r[1]] = "open" /\ r = Response(r[1])')
  <2>1. r[1] \in Popovers
    BY <1>3, ResponseParts DEF Typed, TypeOK
  <2>2. /\ r[3] = v
        /\ r \in hungUp \/ (stream[r[1]] = "open" /\ r = Response(r[1]))
    BY <1>3 DEF Hub, HubExact
  <2>3. CASE r[1] \in ps
    BY <2>1, <2>2, <2>3
  <2>4. CASE r[1] \notin ps
    BY <1>1, <2>1, <2>2, <2>4
  <2>. QED
    BY <2>3, <2>4
<1>4. hungUp' \subseteq beating'
  <2>1. \A p \in ps : stream[p] = "open" => Response(p) \in beating
    BY OpenKnown
  <2>. QED
    BY <2>1 DEF Hub, HubExact
<1>. QED
  BY <1>2, <1>3, <1>4 DEF Hub, HubExact, Numbered

\* The close event of a response removes that one and no other.
LEMMA CloseHub ==
    ASSUME Typed, Hub, NEW r \in hungUp, Close(r)
    PROVE  Hub'
<1>. DEFINE u == r[3]
<1>1. /\ hungUp' = hungUp \ {r}
      /\ beating' = beating \ {r}
      /\ clients' = [clients EXCEPT ![u] = @ \ {r}]
      /\ UNCHANGED <<stream, current, header>>
  BY DEF Close, connection
<1>2. u \in Users
  BY ResponseParts DEF Typed, TypeOK
<1>3. \A v \in Users : clients'[v] = clients[v] \ {r}
  <2>1. \A v \in Users \ {u} : clients'[v] = clients[v] /\ r \notin clients[v]
    BY <1>1, <1>2 DEF Typed, TypeOK, Hub, HubExact
  <2>2. clients'[u] = clients[u] \ {r}
    BY <1>1, <1>2 DEF Typed, TypeOK
  <2>. QED
    BY <2>1, <2>2
<1>4. \A p \in Popovers : Response(p)' = Response(p)
  BY <1>1 DEF Response
<1>5. ASSUME NEW p \in Popovers, stream'[p] = "open"
      PROVE  (Response(p) \in clients[header[p].of] \ hungUp)'
  <2>1. /\ Response(p) \in clients[header[p].of] \ hungUp
        /\ header[p].of \in Users
    BY <1>1, <1>5, OpenKnown
  <2>. QED
    BY <1>1, <1>3, <1>4, <2>1
<1>6. \A v \in Users : \A q \in clients'[v] :
          /\ q[3] = v
          /\ q \in hungUp' \/ (stream'[q[1]] = "open" /\ q = Response(q[1])')
  BY <1>1, <1>3 DEF Hub, HubExact, Response
<1>7. beating' = UNION {clients'[v] : v \in Users} /\ hungUp' \subseteq beating'
  BY <1>1, <1>3 DEF Hub, HubExact
<1>8. Numbered'
  BY <1>1 DEF Hub, Numbered
<1>. QED
  BY <1>5, <1>6, <1>7, <1>8 DEF Hub, HubExact

\* A process that dies takes the hub and the open streams with it.
LEMMA CrashHub ==
    ASSUME Typed, Crash
    PROVE  Hub'
<1>1. \A p \in Popovers : stream'[p] # "open"
  BY DEF Crash
<1>. QED
  BY <1>1 DEF Crash, Hub, HubExact, Numbered

\* The popover that a login mounts was not there, and has no response yet.
LEMMA LoginHub ==
    ASSUME Typed, Hub, NEW t \in Tabs, NEW u \in Users, Login(t, u)
    PROVE  Hub'
<1>. DEFINE p == <<t, logins[t] + 1>>
<1>1. /\ UNCHANGED <<server, current>>
      /\ stream' = [stream EXCEPT ![p] = "opening"]
      /\ header' = [header EXCEPT ![p] = token'[t]]
  BY DEF Login
<1>2. p \in Popovers => stream[p] = "none"
  BY DEF Typed, TypeOK, NoneAhead
<1>3. \A q \in Popovers :
          /\ stream'[q] = "open" <=> stream[q] = "open"
          /\ stream[q] = "open" => header'[q] = header[q]
  BY <1>1, <1>2 DEF Typed, TypeOK
<1>. QED
  BY <1>1, <1>3, SameHub DEF server

LEMMA NextHub == Typed /\ Hub /\ [Next]_vars => Hub'
<1>. SUFFICES ASSUME Typed, Hub, [Next]_vars PROVE Hub'
  OBVIOUS
<1>1. CASE UNCHANGED vars
  BY <1>1, SameHub DEF vars, server, connection
<1>2. ASSUME NEW p \in Popovers, Reject(p) \/ Reconnect(p) \/ GiveUp(p)
      PROVE  Hub'
  BY <1>2, SameHub DEF Reject, Reconnect, GiveUp, server, Typed, TypeOK
<1>3. ASSUME NEW p \in Popovers, Break(p)
      PROVE  Hub'
  <2>1. /\ UNCHANGED <<clients, beating, current, header>>
        /\ stream[p] = "open" /\ hungUp' = hungUp \union {Response(p)}
        /\ stream'[p] # "open"
        /\ \A q \in Popovers \ {p} : stream'[q] = stream[q]
    BY <1>3 DEF Break, Typed, TypeOK
  <2>2. /\ {p} \in SUBSET Popovers
        /\ {Response(q) : q \in {o \in {p} : stream[o] = "open"}} = {Response(p)}
    BY <2>1
  <2>. QED
    BY <2>1, <2>2, EndHub
<1>4. ASSUME NEW t \in Tabs, Logout(t) \/ RenewFails(t)
      PROVE  Hub'
  <2>1. PICK ps \in SUBSET Popovers : End(ps)
    <3>1. CASE Logout(t)
      <4>1. Popover(t) \in Popovers
        BY <3>1, PopoverMade DEF Logout, Popover, Typed, TypeOK, LoggedIn
      <4>. QED
        BY <3>1, <4>1 DEF Logout
    <3>2. CASE RenewFails(t)
      BY <3>2 DEF RenewFails
    <3>. QED
      BY <1>4, <3>1, <3>2
  <2>2. /\ \A p \in ps : stream'[p] # "open"
        /\ \A p \in Popovers \ ps : stream'[p] = stream[p]
    BY <2>1 DEF End
  <2>. QED
    BY <2>1, <2>2, EndHub DEF End
<1>5. ASSUME NEW t \in Tabs,
             \/ FetchRead(t) \/ FetchDone(t) \/ Check(t) \/ CheckRefused(t) \/ Renew(t)
             \/ Open(t) \/ Expire(t) \/ Forget(t)
             \/ \E u \in Users : Elsewhere(t, u)
             \/ \E n \in Notes : Click(t, n)
      PROVE  Hub'
  <2>1. UNCHANGED <<clients, beating, hungUp, stream, current, header>>
    BY <1>5 DEF FetchRead, FetchDone, Check, CheckRefused, Renew, Open, Expire, Forget,
                Elsewhere, Click, server, connection
  <2>. QED
    BY <2>1, SameHub
<1>6. ASSUME NEW p \in Popovers, NEW n \in Notes, Message(p, n)
      PROVE  Hub'
  BY <1>6, SameHub DEF Message, server
<1>7. ASSUME NEW n \in Notes, Create(n) \/ Emit(n)
      PROVE  Hub'
  BY <1>7, SameHub DEF Create, Emit, connection
<1>. QED
  BY <1>1, <1>2, <1>3, <1>4, <1>5, <1>6, <1>7, AcceptHub, CloseHub, CrashHub, LoginHub
     DEF Next, ConnectStep, RequestStep

\* The map of the hub holds exactly the streams that are open and those whose
\* close event has still to come, for any tabs, users, logins and breaks.
THEOREM TheHubIsExact == Spec => []HubExact
<1>1. Hub => HubExact
  BY DEF Hub
<1>. QED
  BY <1>1, InitTyped, NextTyped, InitHub, NextHub, PTL DEF Spec

-----------------------------------------------------------------------------
\* Whose tokens a tab has used: since its login, those of its user, unless the
\* cookie of its browser has become somebody else's.
Ours(t, k) == k.of = user[t] \/ k.no < since[t]

Session(t) ==
    /\ token[t] # None => token[t].no <= issued[t]
    /\ fetch[t] # Idle => fetch[t].as.no <= issued[t]
    /\ list[t] # None => list[t].as.no <= issued[t]
    /\ Mounted(t) /\ t \notin crossed =>
          /\ cookie[t] \in {None, user[t]}
          /\ token[t].of = user[t]
          /\ fetch[t] # Idle => Ours(t, fetch[t].as)
          /\ list[t] # None => Ours(t, list[t].as)

Sessions == \A t \in Tabs : Session(t)

LEMMA InitSessions == Init => Sessions
BY DEF Init, Sessions, Session, Mounted

\* What goes on in one tab is nothing to another.
LEMMA OtherSession ==
    ASSUME NEW s, Session(s), s \in crossed' <=> s \in crossed,
           cookie'[s] = cookie[s], user'[s] = user[s], token'[s] = token[s],
           issued'[s] = issued[s], since'[s] = since[s],
           fetch'[s] = fetch[s], list'[s] = list[s]
    PROVE  Session(s)'
BY DEF Session, Mounted, Ours

\* A step that asks again, reads, or caches what was read.
LEMMA SameSessions ==
    ASSUME Typed, Sessions, UNCHANGED <<cookie, user, token, issued, since, crossed>>,
           \A t \in Tabs :
              /\ \/ fetch'[t] = Idle
                 \/ fetch[t] # Idle /\ fetch'[t].as = fetch[t].as
                 \/ Mounted(t) /\ fetch'[t].as = token[t]
              /\ \/ list'[t] \in {list[t], None}
                 \/ fetch[t] # Idle /\ list'[t] = fetch[t]
    PROVE  Sessions'
<1>. SUFFICES ASSUME NEW t \in Tabs PROVE Session(t)'
  BY DEF Sessions
<1>1. Session(t) /\ (Mounted(t) => token[t] # None)
  BY DEF Sessions, Typed, LoggedIn
<1>2. fetch'[t] # Idle =>
         /\ fetch'[t].as.no <= issued[t]
         /\ Mounted(t) /\ t \notin crossed => Ours(t, fetch'[t].as)
  BY <1>1 DEF Session, Ours
<1>3. list'[t] # None =>
         /\ list'[t].as.no <= issued[t]
         /\ Mounted(t) /\ t \notin crossed => Ours(t, list'[t].as)
  BY <1>1 DEF Session
<1>. QED
  BY <1>1, <1>2, <1>3 DEF Session, Mounted, Ours

\* A login is later than all that was asked for before.
LEMMA LoginSessions ==
    ASSUME Typed, Sessions, NEW t \in Tabs, NEW u \in Users, Login(t, u)
    PROVE  Sessions'
<1>1. /\ Issue(t, u)
      /\ user' = [user EXCEPT ![t] = u]
      /\ cookie' = [cookie EXCEPT ![t] = u]
      /\ since' = [since EXCEPT ![t] = issued[t] + 1]
      /\ crossed' = crossed \ {t}
      /\ fetch' = IF fetch[t] = Idle THEN [fetch EXCEPT ![t] = Asked(token'[t])] ELSE fetch
      /\ list' = list
  BY DEF Login
<1>2. /\ token'[t] = [of |-> u, no |-> issued[t] + 1]
      /\ issued'[t] = issued[t] + 1
      /\ \A s \in Tabs \ {t} : token'[s] = token[s] /\ issued'[s] = issued[s]
  BY <1>1, IssueTyped
<1>3. /\ user'[t] = u /\ cookie'[t] = u /\ since'[t] = issued[t] + 1
      /\ \A s \in Tabs \ {t} :
            /\ user'[s] = user[s] /\ cookie'[s] = cookie[s] /\ since'[s] = since[s]
            /\ fetch'[s] = fetch[s]
  BY <1>1 DEF Typed, TypeOK
<1>4. issued[t] \in Nat
  BY DEF Typed, TypeOK
<1>5. fetch'[t] # Idle => \/ fetch'[t].as = token'[t]
                          \/ fetch'[t].as.no \in Nat /\ fetch'[t].as.no <= issued[t]
  <2>1. CASE fetch[t] = Idle
    <3>1. fetch'[t] = Asked(token'[t])
      BY <1>1, <2>1 DEF Typed, TypeOK
    <3>. QED
      BY <3>1 DEF Asked
  <2>2. CASE fetch[t] # Idle
    BY <1>1, <2>2 DEF Sessions, Session, Typed, TypeOK, Fetches, Tokens
  <2>. QED
    BY <2>1, <2>2
<1>6. list[t] # None => list[t].as.no \in Nat /\ list[t].as.no <= issued[t]
  BY DEF Sessions, Session, Typed, TypeOK, Tokens
<1>7. Session(t)'
  <2>1. token'[t].no <= issued'[t] /\ token'[t].of = user'[t]
    BY <1>2, <1>3, <1>4
  <2>2. fetch'[t] # Idle => fetch'[t].as.no <= issued'[t] /\ Ours(t, fetch[t].as)'
    BY <1>2, <1>3, <1>4, <1>5, <2>1 DEF Ours
  <2>3. list'[t] # None => list'[t].as.no <= issued'[t] /\ Ours(t, list[t].as)'
    BY <1>1, <1>2, <1>3, <1>4, <1>6 DEF Ours
  <2>. QED
    BY <1>3, <2>1, <2>2, <2>3 DEF Session
<1>8. ASSUME NEW s \in Tabs \ {t} PROVE Session(s)'
  BY <1>1, <1>2, <1>3, <1>8, OtherSession DEF Sessions
<1>. QED
  BY <1>7, <1>8 DEF Sessions

\* A login beside a tab crosses it, unless it is of the same user.
LEMMA ElsewhereSessions ==
    ASSUME Typed, Sessions, NEW t \in Tabs, NEW u \in Users, Elsewhere(t, u)
    PROVE  Sessions'
<1>1. /\ cookie' = [cookie EXCEPT ![t] = u]
      /\ crossed' = IF Mounted(t) /\ u # user[t] THEN crossed \union {t} ELSE crossed
      /\ UNCHANGED <<user, token, issued, since, fetch, list>>
  BY DEF Elsewhere, view
<1>2. Session(t)'
  BY <1>1 DEF Sessions, Session, Mounted, Ours, Typed, TypeOK
<1>3. ASSUME NEW s \in Tabs \ {t} PROVE Session(s)'
  BY <1>1, <1>3, OtherSession DEF Sessions, Typed, TypeOK
<1>. QED
  BY <1>2, <1>3 DEF Sessions

\* Nobody is logged in to a tab that has been left.
LEMMA LeaveSessions ==
    ASSUME Typed, Sessions, NEW t \in Tabs, Logout(t) \/ RenewFails(t)
    PROVE  Sessions'
<1>1. /\ user' = [user EXCEPT ![t] = None]
      /\ token' = [token EXCEPT ![t] = None]
      /\ UNCHANGED <<issued, since, crossed>>
      /\ cookie' \in {cookie, [cookie EXCEPT ![t] = None]}
      /\ fetch' \in {fetch, [fetch EXCEPT ![t] = Idle]}
      /\ list' \in {list, [list EXCEPT ![t] = None]}
  BY DEF Logout, RenewFails, Leave, view
<1>2. /\ user'[t] = None /\ token'[t] = None
      /\ fetch'[t] \in {fetch[t], Idle} /\ list'[t] \in {list[t], None}
  BY <1>1 DEF Typed, TypeOK
<1>3. Session(t)'
  BY <1>1, <1>2 DEF Sessions, Session, Mounted
<1>4. ASSUME NEW s \in Tabs \ {t} PROVE Session(s)'
  BY <1>1, <1>4, OtherSession DEF Sessions, Typed, TypeOK
<1>. QED
  BY <1>3, <1>4 DEF Sessions

\* A token is renewed for whomever the cookie names.
LEMMA RenewSessions ==
    ASSUME Typed, Sessions, NEW t \in Tabs, Renew(t)
    PROVE  Sessions'
<1>1. PICK u \in Users : u = cookie[t] /\ Issue(t, u)
  BY DEF Renew, Typed, TypeOK
<1>2. /\ token'[t] = [of |-> u, no |-> issued[t] + 1]
      /\ issued'[t] = issued[t] + 1
      /\ \A s \in Tabs \ {t} : token'[s] = token[s] /\ issued'[s] = issued[s]
  BY <1>1, IssueTyped
<1>3. /\ UNCHANGED <<cookie, user, since, crossed, list>>
      /\ fetch' \in {fetch, [fetch EXCEPT ![t] = Asked(token'[t])]}
  BY DEF Renew
<1>4. issued[t] \in Nat /\ u # None /\ Session(t)
  BY NoticesAssumption DEF Typed, TypeOK, Sessions
<1>5. fetch[t] # Idle => fetch[t].as.no \in Nat
  BY DEF Typed, TypeOK, Fetches, Tokens
<1>6. list[t] # None => list[t].as.no \in Nat
  BY DEF Typed, TypeOK, Tokens
<1>7. Session(t)'
  <2>1. Mounted(t) /\ t \notin crossed => u = user[t]
    BY <1>1, <1>4 DEF Session
  <2>2. token'[t].no <= issued'[t] /\ token'[t].of = u
    BY <1>2, <1>4
  <2>3. fetch'[t] # Idle =>
           /\ fetch'[t].as.no <= issued'[t]
           /\ Mounted(t) /\ t \notin crossed => Ours(t, fetch[t].as)'
    <3>1. CASE fetch' = fetch
      BY <1>2, <1>3, <1>4, <1>5, <3>1 DEF Session, Ours
    <3>2. CASE fetch' # fetch
      <4>1. fetch'[t].as = token'[t]
        BY <1>3, <3>2 DEF Asked, Typed, TypeOK
      <4>. QED
        BY <1>3, <2>1, <2>2, <4>1 DEF Ours
    <3>. QED
      BY <3>1, <3>2
  <2>4. list'[t] # None =>
           /\ list'[t].as.no <= issued'[t]
           /\ Mounted(t) /\ t \notin crossed => Ours(t, list[t].as)'
    BY <1>2, <1>3, <1>4, <1>6 DEF Session, Ours
  <2>. QED
    BY <1>3, <1>4, <2>1, <2>2, <2>3, <2>4 DEF Session, Mounted
<1>8. ASSUME NEW s \in Tabs \ {t} PROVE Session(s)'
  BY <1>2, <1>3, <1>8, OtherSession DEF Sessions, Typed, TypeOK
<1>. QED
  BY <1>7, <1>8 DEF Sessions

\* An invalidation asks with the token of the store.
LEMMA RefetchAsks ==
    ASSUME Typed, NEW t \in Tabs, Refetch(t)
    PROVE  \A s \in Tabs :
              \/ fetch'[s] = fetch[s]
              \/ Mounted(s) /\ fetch'[s].as = token[s] /\ fetch'[s].got = NoPage
<1>1. \A k : Asked(k).as = k /\ Asked(k).got = NoPage
  BY DEF Asked
<1>2. \A s \in Tabs :
          fetch'[s] = fetch[s] \/ (Mounted(s) /\ fetch'[s] = Asked(token[s]))
  BY DEF Refetch, Typed, TypeOK
<1>. QED
  BY <1>1, <1>2

LEMMA NextSessions == Typed /\ Sessions /\ [Next]_vars => Sessions'
<1>. SUFFICES ASSUME Typed, Sessions, [Next]_vars PROVE Sessions'
  OBVIOUS
<1>1. ASSUME UNCHANGED session, UNCHANGED fetch, UNCHANGED list PROVE Sessions'
  BY <1>1, SameSessions DEF session
<1>2. CASE UNCHANGED vars
  BY <1>1, <1>2 DEF vars, view
<1>3. ASSUME NEW p \in Popovers, ConnectStep(p) \/ Break(p) PROVE Sessions'
  BY <1>1, <1>3 DEF ConnectStep, Accept, Reject, Reconnect, GiveUp, Break, view
<1>4. ASSUME NEW n \in Notes, Create(n) \/ Emit(n) PROVE Sessions'
  BY <1>1, <1>4 DEF Create, Emit, view
<1>5. CASE Crash \/ \E r \in hungUp : Close(r)
  BY <1>1, <1>5 DEF Crash, Close, view
<1>6. ASSUME NEW t \in Tabs, Expire(t) PROVE Sessions'
  BY <1>6, SameSessions DEF Expire, view
<1>7. ASSUME NEW t \in Tabs, CheckRefused(t) \/ \E n \in Notes : Click(t, n)
      PROVE  Sessions'
  BY <1>1, <1>7 DEF CheckRefused, Click
<1>8. ASSUME NEW t \in Tabs,
             \/ Open(t) \/ Check(t)
             \/ \E p \in Popovers, n \in Notes : p[1] = t /\ Message(p, n)
      PROVE  Sessions'
  <2>1. Refetch(t) /\ UNCHANGED <<cookie, user, token, issued, since, crossed, list>>
    BY <1>8 DEF Open, Check, Message, session
  <2>2. \A s \in Tabs :
           \/ fetch'[s] = fetch[s]
           \/ Mounted(s) /\ fetch'[s].as = token[s]
    BY <2>1, RefetchAsks
  <2>. QED
    BY <2>1, <2>2, SameSessions
<1>9. ASSUME NEW t \in Tabs, FetchRead(t) \/ FetchDone(t) \/ Forget(t)
      PROVE  Sessions'
  <2>1. UNCHANGED <<cookie, user, token, issued, since, crossed>>
    BY <1>9 DEF FetchRead, FetchDone, Forget, session
  <2>2. \A s \in Tabs \ {t} : fetch'[s] = fetch[s] /\ list'[s] = list[s]
    BY <1>9 DEF FetchRead, FetchDone, Forget, Typed, TypeOK
  <2>3. CASE FetchRead(t)
    <3>1. fetch[t] # Idle /\ fetch'[t].as = fetch[t].as /\ list' = list
      BY <2>3 DEF FetchRead, Idle, Typed, TypeOK
    <3>. QED
      BY <2>1, <2>2, <3>1, SameSessions
  <2>4. CASE FetchDone(t)
    <3>1. fetch[t] # Idle /\ fetch'[t] = Idle /\ list'[t] = fetch[t]
      BY <2>4 DEF FetchDone, Idle, Typed, TypeOK
    <3>. QED
      BY <2>1, <2>2, <3>1, SameSessions
  <2>5. CASE Forget(t)
    <3>1. fetch' = fetch /\ list'[t] = None
      BY <2>5 DEF Forget, Typed, TypeOK
    <3>. QED
      BY <2>1, <2>2, <3>1, SameSessions
  <2>. QED
    BY <1>9, <2>3, <2>4, <2>5
<1>10. ASSUME NEW p \in Popovers, NEW n \in Notes, Message(p, n) PROVE Sessions'
  BY <1>8, <1>10, PopoverParts
<1>. QED
  BY <1>2, <1>3, <1>4, <1>5, <1>6, <1>7, <1>8, <1>9, <1>10,
     LoginSessions, ElsewhereSessions, LeaveSessions, RenewSessions
     DEF Next, RequestStep

-----------------------------------------------------------------------------
\* What was written to an open stream, and what an answer brought: rows that are
\* there, of the user of the token, as they say or as they said before they were
\* read.
OwnInbox ==
    \A p \in Popovers, n \in Notes :
        n \in inbox[p] => stream[p] = "open" /\ Own(n, header[p])

Seen(a) ==
    \A n \in Notes :
        /\ a.got[n] # "none" => Own(n, a.as)
        /\ a.got[n] = "checked" => note[n] = "checked"

AnswersSeen ==
    \A t \in Tabs : Seen(fetch[t]) /\ (list[t] # None => Seen(list[t]))

SentThere == \A n \in unsent : note[n] # "none"

Shows == OwnInbox /\ AnswersSeen /\ SentThere

LEMMA InitShows == Init => Shows
BY DEF Init, Shows, OwnInbox, AnswersSeen, SentThere, Seen, Idle, NoPage

\* Rows come and are marked as read, and never go.
RowsGrow ==
    \A n \in Notes :
        /\ note[n] # "none" => note'[n] # "none"
        /\ note[n] = "checked" => note'[n] = "checked"

\* A step after which the streams hold, and the tabs show and expect, what they
\* did, or less, or nothing yet.
LEMMA LessShows ==
    ASSUME Typed, Shows, RowsGrow,
           \A p \in Popovers : \A n \in inbox'[p] :
              n \in inbox[p] /\ stream'[p] = "open" /\ header'[p] = header[p],
           \A t \in Tabs :
              /\ fetch'[t] = fetch[t] \/ fetch'[t].got = NoPage
              /\ list'[t] \in {list[t], None, fetch[t]},
           \A n \in unsent' : note'[n] # "none"
    PROVE  Shows'
<1>1. OwnInbox'
  BY DEF Shows, OwnInbox, Own, RowsGrow
<1>2. ASSUME NEW a, Seen(a)
      PROVE  \A n \in Notes :
                /\ a.got[n] # "none" => NoteOf[n] = a.as.of /\ note'[n] # "none"
                /\ a.got[n] = "checked" => note'[n] = "checked"
  BY <1>2 DEF Seen, Own, RowsGrow
<1>3. ASSUME NEW t \in Tabs
      PROVE  Seen(fetch[t])' /\ (list'[t] # None => Seen(list[t])')
  <2>1. Seen(fetch[t])'
    <3>1. CASE fetch'[t] = fetch[t]
      <4>1. Seen(fetch[t])
        BY DEF Shows, AnswersSeen
      <4>. QED
        BY <1>2, <3>1, <4>1 DEF Seen, Own
    <3>2. CASE fetch'[t].got = NoPage
      BY <3>2 DEF Seen, NoPage
    <3>. QED
      BY <3>1, <3>2
  <2>2. ASSUME list'[t] # None PROVE Seen(list[t])'
    <3>1. Seen(list'[t])
      BY <2>2 DEF Shows, AnswersSeen
    <3>. QED
      BY <1>2, <3>1 DEF Seen, Own
  <2>. QED
    BY <2>1, <2>2
<1>. QED
  BY <1>1, <1>3 DEF Shows, AnswersSeen, SentThere

\* The same when the streams hold what they did.
LEMMA SameInbox ==
    ASSUME Typed, Shows, RowsGrow, UNCHANGED <<stream, header, inbox>>,
           \A t \in Tabs :
              /\ fetch'[t] = fetch[t] \/ fetch'[t].got = NoPage
              /\ list'[t] \in {list[t], None, fetch[t]},
           \A n \in unsent' : note'[n] # "none"
    PROVE  Shows'
<1>1. \A p \in Popovers : \A n \in inbox'[p] :
          n \in inbox[p] /\ stream'[p] = "open" /\ header'[p] = header[p]
  BY DEF Shows, OwnInbox, Typed, TypeOK
<1>. QED
  BY <1>1, LessShows

\* The same when the server and the query client do nothing.
LEMMA SameRows ==
    ASSUME Typed, Shows, UNCHANGED <<note, unsent, fetch, list>>,
           \A p \in Popovers : \A n \in inbox'[p] :
              n \in inbox[p] /\ stream'[p] = "open" /\ header'[p] = header[p]
    PROVE  Shows'
BY LessShows DEF RowsGrow, Shows, SentThere

\* A stream that connects, is refused, breaks or is opened again has nothing
\* unread.
LEMMA ConnectShows ==
    ASSUME Typed, Shows, NEW p \in Popovers, ConnectStep(p) \/ Break(p)
    PROVE  Shows'
<1>1. UNCHANGED <<note, unsent, fetch, list>>
  BY DEF ConnectStep, Accept, Reject, Reconnect, GiveUp, Break, server, view
<1>2. \A q \in Popovers \ {p} :
          inbox'[q] = inbox[q] /\ stream'[q] = stream[q] /\ header'[q] = header[q]
  BY DEF ConnectStep, Accept, Reject, Reconnect, GiveUp, Break, Typed, TypeOK
<1>3. inbox'[p] = {}
  <2>1. stream[p] # "open" => inbox[p] = {}
    BY DEF Shows, OwnInbox, Typed, TypeOK
  <2>. QED
    BY <2>1 DEF ConnectStep, Accept, Reject, Reconnect, GiveUp, Break, Typed, TypeOK
<1>4. \A q \in Popovers : \A n \in inbox'[q] :
          n \in inbox[q] /\ stream'[q] = "open" /\ header'[q] = header[q]
  BY <1>2, <1>3 DEF Shows, OwnInbox, Typed, TypeOK
<1>. QED
  BY <1>1, <1>4, SameRows

\* A popover that a login mounts has nothing unread either.
LEMMA LoginShows ==
    ASSUME Typed, Shows, NEW t \in Tabs, NEW u \in Users, Login(t, u)
    PROVE  Shows'
<1>. DEFINE p == <<t, logins[t] + 1>>
<1>1. /\ UNCHANGED <<note, unsent, inbox, list>>
      /\ stream' = [stream EXCEPT ![p] = "opening"]
      /\ header' = [header EXCEPT ![p] = token'[t]]
      /\ fetch' = IF fetch[t] = Idle THEN [fetch EXCEPT ![t] = Asked(token'[t])] ELSE fetch
  BY DEF Login, server
<1>2. p \in Popovers => stream[p] = "none" /\ inbox[p] = {}
  BY DEF Typed, TypeOK, NoneAhead, Shows, OwnInbox
<1>3. \A q \in Popovers : \A n \in inbox'[q] :
          n \in inbox[q] /\ stream'[q] = "open" /\ header'[q] = header[q]
  BY <1>1, <1>2 DEF Shows, OwnInbox, Typed, TypeOK
<1>4. \A s \in Tabs : fetch'[s] = fetch[s] \/ fetch'[s].got = NoPage
  <2>1. Asked(token'[t]).got = NoPage
    BY DEF Asked
  <2>2. \A s \in Tabs : fetch'[s] = fetch[s] \/ fetch'[s] = Asked(token'[t])
    BY <1>1 DEF Typed, TypeOK
  <2>. QED
    BY <2>1, <2>2
<1>5. RowsGrow /\ \A n \in unsent' : note'[n] # "none"
  BY <1>1 DEF RowsGrow, Shows, SentThere
<1>6. \A s \in Tabs : list'[s] = list[s]
  BY <1>1
<1>. QED
  BY <1>3, <1>4, <1>5, <1>6, LessShows

LEMMA LeaveShows ==
    ASSUME Typed, Shows, NEW t \in Tabs, Logout(t) \/ RenewFails(t)
    PROVE  Shows'
<1>1. PICK ps : End(ps)
  BY DEF Logout, RenewFails
<1>2. /\ UNCHANGED <<note, unsent>>
      /\ fetch' \in {fetch, [fetch EXCEPT ![t] = Idle]}
      /\ list' \in {list, [list EXCEPT ![t] = None]}
  BY <1>1 DEF End, Logout, RenewFails, view
<1>3. \A p \in Popovers : \A n \in inbox'[p] :
          n \in inbox[p] /\ stream'[p] = "open" /\ header'[p] = header[p]
  <2>1. \A p \in Popovers : header'[p] = header[p]
    BY <1>1 DEF End
  <2>2. \A p \in Popovers : p \in ps => inbox'[p] = {}
    BY <1>1 DEF End
  <2>3. \A p \in Popovers : p \notin ps => inbox'[p] = inbox[p] /\ stream'[p] = stream[p]
    BY <1>1 DEF End
  <2>. QED
    BY <2>1, <2>2, <2>3 DEF Shows, OwnInbox, Typed, TypeOK
<1>4. \A s \in Tabs :
          fetch'[s] \in {fetch[s], Idle} /\ list'[s] \in {list[s], None}
  BY <1>2 DEF Typed, TypeOK
<1>5. Idle.got = NoPage
  BY DEF Idle
<1>. QED
  BY <1>2, <1>3, <1>4, <1>5, LessShows DEF RowsGrow, Shows, SentThere

\* A token is renewed and the request asked again.
LEMMA RenewShows ==
    ASSUME Typed, Shows, NEW t \in Tabs, Renew(t)
    PROVE  Shows'
<1>1. /\ UNCHANGED <<note, unsent, stream, header, inbox, list>>
      /\ fetch' \in {fetch, [fetch EXCEPT ![t] = Asked(token'[t])]}
  BY DEF Renew, server, connection
<1>2. \A s \in Tabs : fetch'[s] \in {fetch[s], Asked(token'[t])}
  BY <1>1 DEF Typed, TypeOK
<1>3. Asked(token'[t]).got = NoPage
  BY DEF Asked
<1>. QED
  BY <1>1, <1>2, <1>3, SameInbox DEF RowsGrow, Shows, SentThere

\* A notice is written to streams that the hub has for its user.
LEMMA EmitShows ==
    ASSUME Typed, Hub, Shows, NEW n \in Notes, Emit(n)
    PROVE  Shows'
<1>1. /\ n \in unsent
      /\ unsent' = unsent \ {n}
      /\ UNCHANGED <<note, stream, header, fetch, list>>
  BY DEF Emit, view
<1>2. ASSUME NEW p \in Popovers, NEW m \in Notes, m \in inbox'[p]
      PROVE  stream[p] = "open" /\ Own(m, header[p])
  <2>1. CASE m \in inbox[p]
    BY <2>1 DEF Shows, OwnInbox
  <2>2. CASE m \notin inbox[p]
    <3>1. m = n /\ stream[p] = "open" /\ Response(p) \in clients[NoteOf[n]]
      BY <1>2, <2>2 DEF Emit
    <3>2. header[p].of = NoteOf[n]
      BY <3>1, NoticesAssumption DEF Hub, HubExact, Response
    <3>. QED
      BY <1>1, <3>1, <3>2 DEF Own, Shows, SentThere
  <2>. QED
    BY <2>1, <2>2
<1>3. OwnInbox'
  BY <1>1, <1>2 DEF OwnInbox, Own
<1>4. AnswersSeen' /\ SentThere'
  BY <1>1 DEF Shows, AnswersSeen, SentThere, Seen, Own
<1>. QED
  BY <1>3, <1>4 DEF Shows

\* A page is read of the rows of the token's user.
LEMMA FetchReadShows ==
    ASSUME Typed, Shows, NEW t \in Tabs, FetchRead(t)
    PROVE  Shows'
<1>. DEFINE a == [at |-> "answered", as |-> fetch[t].as, got |-> Page(fetch[t].as.of)]
<1>1. /\ UNCHANGED <<note, unsent, stream, header, inbox, list>>
      /\ fetch' = [fetch EXCEPT ![t] = a]
  BY DEF FetchRead, server, connection
<1>2. Seen(a)
  BY DEF Seen, Own, Page
<1>3. \A s \in Tabs : fetch'[s] \in {fetch[s], a}
  BY <1>1 DEF Typed, TypeOK
<1>4. \A s \in Tabs : Seen(fetch'[s])
  BY <1>2, <1>3 DEF Shows, AnswersSeen
<1>5. AnswersSeen'
  BY <1>1, <1>4 DEF Shows, AnswersSeen, Seen, Own
<1>. QED
  BY <1>1, <1>5 DEF Shows, OwnInbox, SentThere, Own

\* The list drops out of the cache, or is what was read.
LEMMA ListShows ==
    ASSUME Typed, Shows, NEW t \in Tabs, FetchDone(t) \/ Forget(t)
    PROVE  Shows'
<1>1. UNCHANGED <<note, unsent, stream, header, inbox>>
  BY DEF FetchDone, Forget, server, connection
<1>2. \A s \in Tabs :
          fetch'[s] \in {fetch[s], Idle} /\ list'[s] \in {list[s], None, fetch[s]}
  BY DEF FetchDone, Forget, Typed, TypeOK
<1>3. Idle.got = NoPage
  BY DEF Idle
<1>. QED
  BY <1>1, <1>2, <1>3, SameInbox DEF RowsGrow, Shows, SentThere

\* A row is made, or marked as read; its list is asked for again.
LEMMA RowShows ==
    ASSUME Typed, Shows,
           (\E t \in Tabs : Check(t)) \/ (\E n \in Notes : Create(n))
    PROVE  Shows'
<1>1. ASSUME NEW t \in Tabs, Check(t) PROVE Shows'
  <2>1. /\ note' = [note EXCEPT ![patching[t].note] = "checked"]
        /\ UNCHANGED <<unsent, stream, header, inbox, list>>
        /\ Refetch(t)
        /\ patching[t].note \in Notes
    BY <1>1 DEF Check, connection, Typed, TypeOK
  <2>2. \A n \in Notes : note'[n] \in {note[n], "checked"}
    BY <2>1 DEF Typed, TypeOK
  <2>3. RowsGrow
    BY <2>2 DEF RowsGrow
  <2>4. \A n \in unsent' : note'[n] # "none"
    BY <2>1, <2>2 DEF Shows, SentThere, Typed, TypeOK
  <2>. QED
    BY <2>1, <2>3, <2>4, RefetchAsks, SameInbox
<1>2. ASSUME NEW n \in Notes, Create(n) PROVE Shows'
  <2>1. /\ note' = [note EXCEPT ![n] = "new"]
        /\ note[n] = "none"
        /\ unsent' = unsent \union {n}
        /\ UNCHANGED <<stream, header, inbox, fetch, list>>
    BY <1>2 DEF Create, connection, view
  <2>2. note'[n] = "new" /\ \A m \in Notes \ {n} : note'[m] = note[m]
    BY <2>1 DEF Typed, TypeOK
  <2>3. RowsGrow
    BY <2>1, <2>2 DEF RowsGrow
  <2>4. \A m \in unsent' : note'[m] # "none"
    BY <2>1, <2>2 DEF Shows, SentThere, Typed, TypeOK
  <2>. QED
    BY <2>1, <2>3, <2>4, SameInbox
<1>. QED
  BY <1>1, <1>2

LEMMA NextShows == Typed /\ Hub /\ Shows /\ [Next]_vars => Shows'
<1>. SUFFICES ASSUME Typed, Hub, Shows, [Next]_vars PROVE Shows'
  OBVIOUS
<1>1. ASSUME UNCHANGED <<note, unsent, stream, header, inbox, fetch, list>> PROVE Shows'
  BY <1>1, SameInbox DEF RowsGrow, Shows, SentThere
<1>2. CASE UNCHANGED vars
  BY <1>1, <1>2 DEF vars, server, connection, view
<1>3. ASSUME NEW t \in Tabs,
             \/ Expire(t) \/ CheckRefused(t)
             \/ \E u \in Users : Elsewhere(t, u)
             \/ \E n \in Notes : Click(t, n)
      PROVE  Shows'
  BY <1>1, <1>3 DEF Expire, CheckRefused, Elsewhere, Click, server, connection, view
<1>4. ASSUME NEW r \in hungUp, Close(r) PROVE Shows'
  BY <1>1, <1>4 DEF Close, connection, view
<1>5. ASSUME NEW t \in Tabs, Open(t) PROVE Shows'
  <2>1. Refetch(t) /\ UNCHANGED <<note, unsent, stream, header, inbox, list>>
    BY <1>5 DEF Open, server, connection
  <2>. QED
    BY <2>1, RefetchAsks, SameInbox DEF RowsGrow, Shows, SentThere
<1>6. ASSUME NEW p \in Popovers, NEW n \in Notes, Message(p, n) PROVE Shows'
  <2>1. /\ Refetch(p[1]) /\ p[1] \in Tabs
        /\ UNCHANGED <<note, unsent, stream, header, list>>
        /\ inbox' = [inbox EXCEPT ![p] = @ \ {n}]
    BY <1>6, PopoverParts DEF Message, server
  <2>2. \A q \in Popovers : inbox'[q] \subseteq inbox[q]
    BY <2>1 DEF Typed, TypeOK
  <2>3. \A q \in Popovers : \A m \in inbox'[q] :
           m \in inbox[q] /\ stream'[q] = "open" /\ header'[q] = header[q]
    BY <2>1, <2>2 DEF Shows, OwnInbox, Typed, TypeOK
  <2>. QED
    BY <2>1, <2>3, RefetchAsks, LessShows DEF RowsGrow, Shows, SentThere
<1>7. CASE Crash
  <2>1. /\ UNCHANGED <<note, fetch, list>>
        /\ unsent' = {}
        /\ \A p \in Popovers : inbox'[p] = {}
    BY <1>7 DEF Crash, view
  <2>. QED
    BY <2>1, LessShows DEF RowsGrow
<1>. QED
  BY <1>2, <1>3, <1>4, <1>5, <1>6, <1>7, ConnectShows, LoginShows, LeaveShows,
     RenewShows, EmitShows, FetchReadShows, ListShows, RowShows
     DEF Next, RequestStep

\* What streams and answers bring are rows of the user whose token asked, and that
\* is who is logged in, for any tabs, logins and bounds, but for a list asked for
\* before the login and a cookie that another user has taken.
THEOREM OwnNoticesAreShown == Spec => []OwnNoticesShown
<1>1. Typed /\ Sessions /\ Shows => OwnNoticesShown
  <2>. SUFFICES ASSUME Sessions, Shows PROVE OwnNoticesShown
    OBVIOUS
  <2>1. \A p \in Popovers, n \in Notes : n \in inbox[p] => Own(n, header[p])
    BY DEF Shows, OwnInbox
  <2>2. ASSUME NEW t \in Tabs, NEW n \in Notes, Shown(t, n)
        PROVE  /\ Own(n, list[t].as)
               /\ list[t].got[n] = "checked" => note[n] = "checked"
               /\ NoteOf[n] = user[t] \/ list[t].as.no < since[t] \/ t \in crossed
    <3>1. Own(n, list[t].as) /\ (list[t].got[n] = "checked" => note[n] = "checked")
      BY <2>2 DEF Shown, Shows, AnswersSeen, Seen
    <3>2. Ours(t, list[t].as) \/ t \in crossed
      BY <2>2 DEF Shown, Sessions, Session
    <3>. QED
      BY <3>1, <3>2 DEF Own, Ours
  <2>. QED
    BY <2>1, <2>2 DEF OwnNoticesShown
<1>. QED
  BY <1>1, InitTyped, NextTyped, InitHub, NextHub, InitSessions, NextSessions,
     InitShows, NextShows, PTL DEF Spec

=============================================================================
