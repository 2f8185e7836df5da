---------------------------- MODULE SellerProofs ----------------------------
(***************************************************************************)
(* Theorems about what a seller has: the store and the dashboard, which do *)
(* not share a thing, of Stores and of Dashboard.                          *)
(*                                                                         *)
(* Stores, for any sellers and any number of calls, for weeks and retention*)
(* of any length, failed runs of the job and restarts included: types come *)
(* first; on them rest the log, which needs that of the calls that wrote a *)
(* store the last is known, and the erasure, which needs that whoever the  *)
(* job has read stays gone.                                                *)
(* Dashboard, for any sales, prices and calendar: a day that begins begins *)
(* a period or none, and the ranges of prices part the sales.              *)
(***************************************************************************)
EXTENDS Stores, Dashboard, SumTheorems

Places == {"idle", "read", "write", "audit", "done", "refused", "failed", "untraced"}

\* Stores that calls and the job are about to write are there.
StoresStay ==
    /\ \A c \in Calls : Asks(c, "change", "write") => store[request[c].store] # None
    /\ \A s \in targets : store[s] # None
    /\ \A c \in Calls : pc[c] = "audit" => after[c] # None
    /\ \A c \in Calls : audit[c] # None => pc[c] = "done" /\ audit[c].after = after[c]

Asked == \A c \in Calls : request[c] \in Requests[c]

Typed == TypeOK /\ StoresStay /\ Asked

\* The next run is within a week and never at once.
LEMMA NextRunType == TypeOK => NextRun \in 1..Week
<1>. SUFFICES ASSUME TypeOK PROVE NextRun \in 1..Week
  OBVIOUS
<1>1. Week \in Int /\ Week > 0 /\ Target - slot \in Int
  BY StoresAssumption DEF TypeOK
<1>2. (Target - slot) % Week \in 0..(Week - 1)
  BY <1>1
<1>. QED
  BY <1>1, <1>2 DEF NextRun

\* No row is mistaken for none.
LEMMA RowsApart ==
    /\ None \notin Calls
    /\ None \notin Int
    /\ None \notin StoreRow
    /\ None \notin Entry
    /\ \A row \in StoreRow : row.name \in Calls /\ row.info \in Calls \union {None}
BY StoresAssumption DEF StoreRow

LEMMA InitTyped == Init => Typed
<1>. SUFFICES ASSUME Init PROVE Typed
  OBVIOUS
<1>1. request \in [Calls -> RequestType]
  BY StoresAssumption DEF Init
<1>2. NextRun \in 1..Week
  <2>1. Week \in Int /\ Week > 0 /\ Target - slot \in Int
    BY StoresAssumption DEF Init
  <2>2. (Target - slot) % Week \in 0..(Week - 1)
    BY <2>1
  <2>. QED
    BY <2>1, <2>2 DEF NextRun
<1>3. TypeOK
  BY <1>1, <1>2, StoresAssumption DEF Init, TypeOK
<1>4. StoresStay
  BY DEF Init, StoresStay, Asks
<1>5. Asked
  BY DEF Init, Asked
<1>. QED
  BY <1>3, <1>4, <1>5 DEF Typed

LEMMA GoTyped ==
    ASSUME Typed, NEW c \in Calls, NEW place \in Places \ {"audit", "done"},
           Go(c, place), pc[c] # "done",
           place = "write" /\ request[c].op = "change" => store[request[c].store] # None
    PROVE  Typed'
<1>1. TypeOK'
  BY DEF Typed, TypeOK, Go, Goto, rows, process, Places
<1>2. (\A d \in Calls \ {c} : pc'[d] = pc[d]) /\ pc'[c] = place
  BY DEF Typed, TypeOK, Go, Goto
<1>3. StoresStay'
  BY <1>2 DEF Typed, StoresStay, Asks, Go, rows, process
<1>. QED
  BY <1>1, <1>3 DEF Typed, Asked, Go

\* The steps that read, and those that end a call without a write.
LEMMA PlainTyped ==
    ASSUME Typed, NEW c \in Calls,
           Submit(c) \/ OpenRead(c) \/ ChangeRead(c) \/ Fail(c)
    PROVE  Typed'
<1>1. CASE Submit(c)
  <2>1. PICK place \in {"read", "refused"} : Go(c, place)
    BY <1>1 DEF Submit
  <2>. QED
    BY <1>1, <2>1, GoTyped DEF Submit, Places
<1>2. CASE OpenRead(c)
  <2>1. PICK place \in {"write", "refused"} : Go(c, place)
    BY <1>2 DEF OpenRead
  <2>. QED
    BY <1>2, <2>1, GoTyped DEF OpenRead, Asks, Places
<1>3. CASE ChangeRead(c)
  <2>1. PICK place \in {"write", "refused"} :
           Go(c, place) /\ (place = "write" => store[request[c].store] # None)
    BY <1>3 DEF ChangeRead
  <2>. QED
    BY <1>3, <2>1, GoTyped DEF ChangeRead, Asks, Places
<1>4. CASE Fail(c)
  <2>1. PICK place \in {"untraced", "failed"} : Go(c, place)
    BY <1>4 DEF Fail
  <2>. QED
    BY <1>4, <2>1, GoTyped DEF Fail, Places
<1>. QED
  BY <1>1, <1>2, <1>3, <1>4

LEMMA WrittenTyped ==
    ASSUME Typed, NEW c \in Calls, NEW row \in StoreRow, Written(c, row),
           pc[c] = "write"
    PROVE  Typed'
<1>1. TypeOK'
  BY DEF Typed, TypeOK, Written, Goto, process, RequestType
<1>2. (\A d \in Calls \ {c} : pc'[d] = pc[d] /\ after'[d] = after[d])
      /\ pc'[c] = "audit" /\ after'[c] = row
  BY DEF Typed, TypeOK, Written, Goto
<1>3. \A s \in Sellers : store[s] # None => store'[s] # None
  BY RowsApart DEF Typed, TypeOK, Written
<1>4. \A d \in Calls : request[d].store \in Sellers
  BY DEF Typed, TypeOK, RequestType
<1>5. StoresStay'
  BY <1>2, <1>3, <1>4, RowsApart DEF Typed, StoresStay, TypeOK, Written, Asks, process
<1>. QED
  BY <1>1, <1>5 DEF Typed, Asked, Written

\* What the writes of a store leave there is a row of a store.
OpenedRow(c) == [name |-> c, info |-> IF request[c].info THEN c ELSE None]
ChangedRow(c) ==
    [ name |-> IF request[c].name THEN c ELSE store[request[c].store].name,
      info |-> IF request[c].info THEN c ELSE store[request[c].store].info ]

\* A call on a store is refused or writes a row, and takes no business info away.
LEMMA WriteKinds ==
    ASSUME Typed, NEW c \in Calls, OpenWrite(c) \/ ChangeWrite(c)
    PROVE  \/ Go(c, "refused")
           \/ \E row \in StoreRow :
                 /\ Written(c, row)
                 /\ request[c].op \in {"open", "change"}
                 /\ store[request[c].store] # None =>
                       (row.info = None => store[request[c].store].info = None)
<1>1. CASE OpenWrite(c) /\ ~Go(c, "refused")
  <2>1. store[request[c].by] = None /\ Written(c, OpenedRow(c)) /\ request[c].op = "open"
    BY <1>1 DEF OpenWrite, OpenedRow, Asks
  <2>2. request[c].store = request[c].by
    BY <2>1, StoresAssumption DEF Typed, Asked
  <2>3. OpenedRow(c) \in StoreRow
    BY DEF OpenedRow, StoreRow
  <2>. QED
    BY <2>1, <2>2, <2>3
<1>2. CASE ChangeWrite(c)
  <2>1. /\ Written(c, ChangedRow(c))
        /\ request[c].op = "change"
        /\ store[request[c].store] # None
    BY <1>2 DEF ChangeWrite, ChangedRow, Asks, Typed, StoresStay
  <2>2. store[request[c].store] \in StoreRow
    BY <2>1 DEF Typed, TypeOK, RequestType
  <2>3. /\ ChangedRow(c) \in StoreRow
        /\ ChangedRow(c).info = None => store[request[c].store].info = None
    BY <2>2, RowsApart DEF ChangedRow, StoreRow
  <2>. QED
    BY <2>1, <2>3
<1>. QED
  BY <1>1, <1>2

LEMMA WriteTyped ==
    ASSUME Typed, NEW c \in Calls, OpenWrite(c) \/ ChangeWrite(c)
    PROVE  Typed'
<1>0. pc[c] = "write"
  BY DEF OpenWrite, ChangeWrite, Asks
<1>1. CASE Go(c, "refused")
  BY <1>0, <1>1, GoTyped DEF Places
<1>2. CASE ~Go(c, "refused")
  BY <1>0, <1>2, WriteKinds, WrittenTyped
<1>. QED
  BY <1>1, <1>2

LEMMA DoneTyped ==
    ASSUME Typed, NEW c \in Calls, Audit(c) \/ Leave(c)
    PROVE  Typed'
<1>1. CASE Audit(c)
  <2>1. after[c] \in StoreRow
    BY <1>1, RowsApart DEF Audit, Typed, TypeOK, StoresStay
  <2>2. [after |-> after[c], age |-> 0] \in Entry
    BY <2>1, StoresAssumption DEF Entry
  <2>3. TypeOK'
    BY <1>1, <2>2 DEF Audit, Goto, Typed, TypeOK, process
  <2>4. /\ audit' = [audit EXCEPT ![c] = [after |-> after[c], age |-> 0]]
        /\ pc' = [pc EXCEPT ![c] = "done"]
        /\ UNCHANGED <<store, request, after, targets>>
    BY <1>1 DEF Audit, Goto, process
  <2>5. StoresStay'
    BY <2>4 DEF Typed, TypeOK, StoresStay, Asks
  <2>. QED
    BY <2>3, <2>4, <2>5 DEF Typed, Asked
<1>2. CASE Leave(c)
  <2>0. deletedFor' \in [Sellers -> (0..Retention) \union {None}]
    <3>1. 0 \in 0..Retention
      BY StoresAssumption
    <3>. QED
      BY <1>2, <3>1 DEF Leave, Typed, TypeOK
  <2>1. TypeOK'
    BY <1>2, <2>0 DEF Leave, Goto, Typed, TypeOK, process
  <2>2. /\ pc' = [pc EXCEPT ![c] = "done"]
        /\ UNCHANGED <<store, audit, request, after, targets>>
    BY <1>2 DEF Leave, Goto, process
  <2>3. StoresStay'
    BY <2>2 DEF Typed, TypeOK, StoresStay, Asks
  <2>. QED
    BY <2>1, <2>2, <2>3 DEF Typed, Asked
<1>. QED
  BY <1>1, <1>2

LEMMA JobTyped ==
    ASSUME Typed, Fire \/ JobRead \/ JobErase \/ JobClean \/ Finish \/ JobFail
    PROVE  Typed'
<1>0. UNCHANGED <<deletedFor, slot, request, pc, after>> /\ Asked'
  BY DEF Fire, JobRead, JobErase, JobClean, Finish, JobFail, rows, calls, Typed, Asked
<1>1. CASE Fire \/ Finish \/ JobFail
  <2>1. timer' \in (0..Week) \union {None}
    BY <1>1, NextRunType DEF Fire, Finish, JobFail, Typed, TypeOK
  <2>2. failures' \in 0..MaxFailures
    BY <1>1, StoresAssumption DEF Fire, Finish, JobFail, Typed, TypeOK
  <2>3. targets' \subseteq targets /\ again' \subseteq again /\ UNCHANGED <<store, audit, up>>
    BY <1>1 DEF Fire, Finish, JobFail, rows
  <2>4. job' \in {"idle", "read", "failed"}
    BY <1>1 DEF Fire, Finish, JobFail
  <2>. QED
    BY <1>0, <2>1, <2>2, <2>3, <2>4 DEF Typed, TypeOK, StoresStay, Asks
<1>2. CASE JobRead
  <2>1. targets' \subseteq Sellers /\ \A s \in targets' : store[s] # None
    BY <1>2 DEF JobRead, HasInfo
  <2>2. job' \in {"clean", "erase"} /\ UNCHANGED <<store, audit, up, timer, again, failures>>
    BY <1>2 DEF JobRead, rows
  <2>. QED
    BY <1>0, <2>1, <2>2 DEF Typed, TypeOK, StoresStay, Asks
<1>3. CASE JobErase
  <2>1. \A s \in targets : store[s] \in StoreRow
    BY DEF Typed, TypeOK, StoresStay
  <2>2. \A s \in targets : [store[s] EXCEPT !.info = None] \in StoreRow
    BY <2>1 DEF StoreRow
  <2>3. /\ store' \in [Sellers -> StoreRow \union {None}]
        /\ \A s \in Sellers : store[s] # None => store'[s] # None
    BY <1>3, <2>2, RowsApart DEF JobErase, Typed, TypeOK
  <2>4. job' = "clean" /\ UNCHANGED <<audit, up, timer, targets, again, failures>>
    BY <1>3 DEF JobErase
  <2>. QED
    BY <1>0, <2>3, <2>4 DEF Typed, TypeOK, StoresStay, Asks, RequestType
<1>4. CASE JobClean
  <2>1. /\ audit' \in [Calls -> Entry \union {None}]
        /\ \A c \in Calls : audit'[c] \in {audit[c], None}
    BY <1>4 DEF JobClean, Typed, TypeOK
  <2>2. job' = "done" /\ UNCHANGED <<store, up, timer, targets, again, failures>>
    BY <1>4 DEF JobClean
  <2>. QED
    BY <1>0, <2>1, <2>2 DEF Typed, TypeOK, StoresStay, Asks
<1>. QED
  BY <1>1, <1>2, <1>3, <1>4

LEMMA ProcessTyped ==
    ASSUME Typed, Crash \/ Restart
    PROVE  Typed'
<1>1. CASE Crash
  <2>1. /\ pc' \in [Calls -> Places]
        /\ \A c \in Calls : pc[c] # "write" /\ pc[c] # "audit" /\ pc[c] # "read" => pc'[c] = pc[c]
        /\ \A c \in Calls : pc'[c] # "write" /\ pc'[c] # "audit"
    BY <1>1 DEF Crash, Typed, TypeOK, Places
  <2>2. failures' \in 0..MaxFailures
    BY <1>1, StoresAssumption DEF Crash, Typed, TypeOK
  <2>3. /\ UNCHANGED <<store, deletedFor, audit, slot, request, after>>
        /\ up' = FALSE /\ timer' = None /\ job' = "idle" /\ targets' = {} /\ again' = {}
    BY <1>1 DEF Crash, rows
  <2>4. TypeOK'
    BY <2>1, <2>2, <2>3 DEF Typed, TypeOK, Places
  <2>5. StoresStay'
    BY <2>1, <2>3 DEF Typed, StoresStay, Asks
  <2>. QED
    BY <2>3, <2>4, <2>5 DEF Typed, Asked
<1>2. CASE Restart
  BY <1>2, NextRunType DEF Restart, Typed, TypeOK, StoresStay, Asks, Asked, rows, calls
<1>. QED
  BY <1>1, <1>2

LEMMA OlderType ==
    \A limit \in Nat : \A n \in 0..limit : Older(n, limit) \in 0..limit
BY DEF Older

LEMMA TickTyped ==
    ASSUME Typed, Tick
    PROVE  Typed'
<1>1. slot' \in 0..(Week - 1)
  <2>1. Week \in Int /\ Week > 0 /\ slot + 1 \in Int
    BY StoresAssumption DEF Typed, TypeOK
  <2>2. (slot + 1) % Week \in 0..(Week - 1)
    BY <2>1
  <2>. QED
    BY <2>2 DEF Tick
<1>2. timer' \in (0..Week) \union {None}
  <2>1. timer \in (0..Week) \union {None} /\ Week \in Nat
    BY StoresAssumption DEF Typed, TypeOK
  <2>2. timer \notin {None, 0} => timer - 1 \in 0..Week
    BY <2>1
  <2>3. timer' \in {timer, timer - 1} /\ (timer \in {None, 0} => timer' = timer)
    BY DEF Tick
  <2>. QED
    BY <2>1, <2>2, <2>3
<1>3. deletedFor' \in [Sellers -> (0..Retention) \union {None}]
  BY OlderType, StoresAssumption DEF Tick, Typed, TypeOK
<1>4. /\ audit' \in [Calls -> Entry \union {None}]
      /\ \A c \in Calls : audit'[c] # None =>
            audit[c] # None /\ audit'[c].after = audit[c].after
  <2>1. ASSUME NEW c \in Calls, audit[c] # None
        PROVE  /\ audit'[c] \in Entry
               /\ audit'[c].after = audit[c].after
    <3>1. audit[c] \in Entry
      BY <2>1 DEF Typed, TypeOK
    <3>2. Older(audit[c].age, AuditRetention) \in 0..AuditRetention
      BY <3>1, OlderType, StoresAssumption DEF Entry
    <3>. QED
      BY <2>1, <3>1, <3>2 DEF Tick, Entry
  <2>2. \A c \in Calls : audit[c] = None => audit'[c] = None
    BY DEF Tick
  <2>3. DOMAIN audit' = Calls /\ audit' = [c \in Calls |-> audit'[c]]
    BY DEF Tick
  <2>. QED
    BY <2>1, <2>2, <2>3
<1>5. UNCHANGED <<store, up, job, targets, again, failures, request, pc, after>>
  BY DEF Tick, calls
<1>. QED
  BY <1>1, <1>2, <1>3, <1>4, <1>5 DEF Typed, TypeOK, StoresStay, Asked, Asks

LEMMA NextTyped == Typed /\ [Next]_vars => Typed'
<1>. SUFFICES ASSUME Typed, [Next]_vars PROVE Typed'
  OBVIOUS
<1>1. CASE UNCHANGED vars
  BY <1>1 DEF vars, rows, process, calls, Typed, TypeOK, StoresStay, Asked, Asks
<1>. QED
  BY <1>1, PlainTyped, WriteTyped, DoneTyped, JobTyped, ProcessTyped, TickTyped
     DEF Next, Step, JobStep

\* Every variable of Stores keeps its type, for weeks and retentions of any
\* length: the next run is between one slot and a week ahead, never now.
THEOREM StoresTypeCorrect == Spec => []TypeOK
<1>1. Typed => TypeOK
  BY DEF Typed
<1>. QED
  BY <1>1, InitTyped, NextTyped, PTL DEF Spec

-----------------------------------------------------------------------------
\* The log.

\* Of the calls that wrote a store, the last answered with the row as it is.
LastKnown(s) ==
    \E c \in Calls :
        /\ Wrote(c, s)
        /\ after[c].name = store[s].name
        /\ store[s].info \in {None, after[c].info}

Logged == \A s \in Sellers : store[s] # None => LastKnown(s)

\* The call that has just written a store is the last one that did.
LEMMA WrittenLogged ==
    ASSUME Typed, Logged, NEW c \in Calls, NEW row \in StoreRow, Written(c, row),
           pc[c] = "write", request[c].op \in {"open", "change"}
    PROVE  Logged'
<1>1. (\A d \in Calls \ {c} : pc'[d] = pc[d] /\ after'[d] = after[d])
      /\ pc'[c] = "audit" /\ after'[c] = row /\ UNCHANGED request
  BY DEF Typed, TypeOK, Written, Goto
<1>2. SUFFICES ASSUME NEW s \in Sellers, store'[s] # None PROVE LastKnown(s)'
  BY DEF Logged
<1>3. CASE s = request[c].store
  <2>1. store'[s] = row
    BY <1>3 DEF Typed, TypeOK, Written
  <2>. QED
    BY <1>1, <1>3, <2>1 DEF LastKnown, Wrote
<1>4. CASE s # request[c].store
  <2>1. store'[s] = store[s]
    BY <1>4 DEF Typed, TypeOK, Written
  <2>2. PICK d \in Calls : /\ Wrote(d, s)
                           /\ after[d].name = store[s].name
                           /\ store[s].info \in {None, after[d].info}
    BY <1>2, <2>1 DEF Logged, LastKnown
  <2>3. d # c
    BY <2>2 DEF Wrote
  <2>. QED
    BY <1>1, <2>1, <2>2, <2>3 DEF LastKnown, Wrote
<1>. QED
  BY <1>3, <1>4

\* A step that writes no row leaves a call that wrote one where that shows.
LEMMA KeptLogged ==
    ASSUME Logged, UNCHANGED <<request, after>>,
           \A c \in Calls : pc[c] \in {"audit", "done", "untraced"}
                               => pc'[c] \in {"audit", "done", "untraced"},
           \A s \in Sellers :
              store'[s] # None => /\ store[s] # None
                                  /\ store'[s].name = store[s].name
                                  /\ store'[s].info \in {None, store[s].info}
    PROVE  Logged'
<1>1. SUFFICES ASSUME NEW s \in Sellers, store'[s] # None PROVE LastKnown(s)'
  BY DEF Logged
<1>2. PICK c \in Calls : /\ Wrote(c, s)
                         /\ after[c].name = store[s].name
                         /\ store[s].info \in {None, after[c].info}
  BY <1>1 DEF Logged, LastKnown
<1>3. Wrote(c, s)'
  BY <1>2 DEF Wrote
<1>. QED
  BY <1>1, <1>2, <1>3 DEF LastKnown

\* A call that moves on leaves the stores, and those that wrote stay known.
LEMMA GoKeeps ==
    ASSUME Typed, NEW c \in Calls, NEW place, Go(c, place),
           pc[c] = "audit" => place = "untraced", pc[c] \notin {"done", "untraced"}
    PROVE  /\ UNCHANGED <<store, request, after>>
           /\ \A d \in Calls : pc[d] \in {"audit", "done", "untraced"}
                                  => pc'[d] \in {"audit", "done", "untraced"}
BY DEF Typed, TypeOK, Go, Goto, rows

LEMMA NextLogged == Typed /\ Logged /\ [Next]_vars => Logged'
<1>. SUFFICES ASSUME Typed, Logged, [Next]_vars PROVE Logged'
  OBVIOUS
<1>1. ASSUME NEW c \in Calls, Submit(c) \/ OpenRead(c) \/ ChangeRead(c) \/ Fail(c)
      PROVE  Logged'
  <2>1. PICK place : /\ Go(c, place)
                     /\ pc[c] = "audit" => place = "untraced"
                     /\ pc[c] \notin {"done", "untraced"}
    BY <1>1 DEF Submit, OpenRead, ChangeRead, Fail, Asks
  <2>. QED
    BY <2>1, GoKeeps, KeptLogged
<1>2. ASSUME NEW c \in Calls, OpenWrite(c) \/ ChangeWrite(c)
      PROVE  Logged'
  <2>1. pc[c] = "write"
    BY <1>2 DEF OpenWrite, ChangeWrite, Asks
  <2>2. CASE Go(c, "refused")
    BY <2>1, <2>2, GoKeeps, KeptLogged
  <2>3. CASE ~Go(c, "refused")
    BY <1>2, <2>1, <2>3, WriteKinds, WrittenLogged
  <2>. QED
    BY <2>2, <2>3
<1>3. ASSUME NEW c \in Calls, Audit(c) \/ Leave(c)
      PROVE  Logged'
  <2>1. UNCHANGED <<store, request, after>> /\ pc' = [pc EXCEPT ![c] = "done"]
    BY <1>3 DEF Audit, Leave, Goto
  <2>. QED
    BY <2>1, KeptLogged DEF Typed, TypeOK
<1>4. CASE JobErase
  <2>1. UNCHANGED <<request, after, pc>>
    BY <1>4 DEF JobErase, calls
  <2>2. ASSUME NEW s \in Sellers, store'[s] # None
        PROVE  /\ store[s] # None
               /\ store'[s].name = store[s].name
               /\ store'[s].info \in {None, store[s].info}
    <3>1. CASE s \in targets
      <4>1. store[s] # None /\ store[s] \in StoreRow
        BY <3>1 DEF Typed, TypeOK, StoresStay
      <4>2. store'[s] = [store[s] EXCEPT !.info = None]
        BY <1>4, <3>1 DEF JobErase
      <4>. QED
        BY <4>1, <4>2 DEF StoreRow
    <3>2. CASE s \notin targets
      BY <1>4, <2>2, <3>2 DEF JobErase
    <3>. QED
      BY <3>1, <3>2
  <2>. QED
    BY <2>1, <2>2, KeptLogged
<1>5. CASE Fire \/ JobRead \/ JobClean \/ Finish \/ JobFail \/ Restart \/ Tick
  <2>1. UNCHANGED <<store, request, after, pc>>
    BY <1>5 DEF Fire, JobRead, JobClean, Finish, JobFail, Restart, Tick, rows, calls
  <2>. QED
    BY <2>1, KeptLogged
<1>6. CASE Crash
  <2>1. UNCHANGED <<store, request, after>>
    BY <1>6 DEF Crash, rows
  <2>2. \A d \in Calls : pc[d] \in {"audit", "done", "untraced"}
                            => pc'[d] \in {"audit", "done", "untraced"}
    BY <1>6 DEF Crash
  <2>. QED
    BY <2>1, <2>2, KeptLogged
<1>7. CASE UNCHANGED vars
  BY <1>7, KeptLogged DEF vars, rows, calls
<1>. QED
  BY <1>1, <1>2, <1>3, <1>4, <1>5, <1>6, <1>7 DEF Next, Step, JobStep

\* Where every call that wrote has logged, so has the last one.
LEMMA LoggedIsTraced == Typed /\ Logged => StoreTraced
<1>. SUFFICES ASSUME Typed, Logged, NEW s \in Sellers, store[s] # None,
                     \A c \in Calls : Wrote(c, s) => audit[c] # None
              PROVE  \E c \in Calls :
                        /\ Wrote(c, s)
                        /\ audit[c].after.name = store[s].name
                        /\ store[s].info \in {None, audit[c].after.info}
  BY DEF StoreTraced
<1>1. PICK c \in Calls : /\ Wrote(c, s)
                         /\ after[c].name = store[s].name
                         /\ store[s].info \in {None, after[c].info}
  BY DEF Logged, LastKnown
<1>2. audit[c].after = after[c]
  BY <1>1 DEF Typed, StoresStay
<1>. QED
  BY <1>1, <1>2

\* When each call that wrote a store has its entry in the audit log, one of the
\* entries shows the store as it is, also when changes of a store race.
THEOREM StoresAreTraced == Spec => []StoreTraced
<1>1. Init => Logged
  BY DEF Init, Logged
<1>. QED
  BY <1>1, InitTyped, NextTyped, NextLogged, LoggedIsTraced, PTL DEF Spec

-----------------------------------------------------------------------------
\* The erasure.

DueAtRead(s) == deletedFor[s] = Retention \/ s \in again

\* The owners of the stores that the job has read are due still, or were until they
\* left once more.
Gone == job = "erase" => \A s \in targets : DueAtRead(s)

LEMMA InitGone == Init => Gone
BY DEF Init, Gone

\* A step that neither deletes an account nor reads what to erase.
LEMMA SameGone ==
    ASSUME Typed, Gone, UNCHANGED <<deletedFor, again>>,
           job' = "erase" => UNCHANGED <<job, targets>>
    PROVE  Gone'
BY DEF Gone, DueAtRead

\* Who leaves again after the job has read them was gone for the retention.
LEMMA LeaveGone ==
    ASSUME Typed, Gone, NEW c \in Calls, Leave(c)
    PROVE  Gone'
<1>. DEFINE u == request[c].by
<1>1. /\ UNCHANGED <<job, targets>>
      /\ again' = IF job = "erase" /\ deletedFor[u] = Retention THEN again \union {u} ELSE again
      /\ \A s \in Sellers \ {u} : deletedFor'[s] = deletedFor[s]
      /\ targets \subseteq Sellers
  BY DEF Leave, Typed, TypeOK
<1>. SUFFICES ASSUME job = "erase", NEW s \in targets PROVE DueAtRead(s)'
  BY <1>1 DEF Gone
<1>2. DueAtRead(s)
  BY DEF Gone
<1>3. CASE s = u
  BY <1>1, <1>2, <1>3 DEF DueAtRead
<1>4. CASE s # u
  BY <1>1, <1>2, <1>4 DEF DueAtRead
<1>. QED
  BY <1>3, <1>4

LEMMA NextGone == Typed /\ Gone /\ [Next]_vars => Gone'
<1>. SUFFICES ASSUME Typed, Gone, [Next]_vars PROVE Gone'
  OBVIOUS
<1>1. ASSUME NEW c \in Calls,
             \/ Submit(c) \/ OpenRead(c) \/ ChangeRead(c) \/ Fail(c)
             \/ OpenWrite(c) \/ ChangeWrite(c) \/ Audit(c)
      PROVE  Gone'
  BY <1>1, SameGone DEF Submit, OpenRead, ChangeRead, Fail, OpenWrite, ChangeWrite, Audit,
                        Go, Written, rows, process
<1>2. CASE JobRead
  BY <1>2 DEF JobRead, Gone, DueAtRead, rows
<1>3. CASE Fire \/ JobErase \/ JobClean \/ Finish \/ JobFail \/ Crash \/ Restart \/ Tick
  <2>1. job' # "erase" \/ (UNCHANGED <<deletedFor, again, job, targets>>)
    BY <1>3 DEF Fire, JobErase, JobClean, Finish, JobFail, Crash, Restart, Tick, rows
  <2>. QED
    BY <2>1, SameGone DEF Gone
<1>4. CASE UNCHANGED vars
  BY <1>4, SameGone DEF vars, rows, process
<1>. QED
  BY <1>1, <1>2, <1>3, <1>4, LeaveGone DEF Next, Step, JobStep

\* What the step below must not do to a store whose owner is not gone.
Erases(s) == HasInfo(s) /\ ~HasInfo(s)'

\* Only the job takes business info away, of owners it has read as gone.
LEMMA StepErases ==
    ASSUME Typed, Gone, [Next]_vars, NEW s \in Sellers, Erases(s)
    PROVE  /\ job = "erase" /\ job' = "clean" /\ s \in targets
           /\ DueAtRead(s)
<1>1. store'[s] # store[s]
  BY DEF Erases, HasInfo
<1>2. CASE JobErase
  <2>1. job = "erase" /\ job' = "clean" /\ s \in targets
    BY <1>1, <1>2 DEF JobErase
  <2>. QED
    BY <2>1 DEF Gone
<1>3. ASSUME NEW c \in Calls, OpenWrite(c) \/ ChangeWrite(c)
      PROVE  FALSE
  <2>1. ~Go(c, "refused")
    BY <1>1 DEF Go, rows
  <2>2. PICK row \in StoreRow :
           /\ Written(c, row)
           /\ store[request[c].store] # None =>
                 (row.info = None => store[request[c].store].info = None)
    BY <1>3, <2>1, WriteKinds
  <2>3. s = request[c].store /\ store'[s] = row
    BY <1>1, <2>2 DEF Written, Typed, TypeOK
  <2>. QED
    BY <2>2, <2>3, RowsApart DEF Erases, HasInfo
<1>4. store' = store \/ JobErase \/ \E c \in Calls : OpenWrite(c) \/ ChangeWrite(c)
  BY DEF Next, Step, JobStep, Submit, OpenRead, ChangeRead, Fail, Go, Audit, Leave,
         Fire, JobRead, JobClean, Finish, JobFail, Crash, Restart, Tick, vars, rows
<1>. QED
  BY <1>1, <1>2, <1>3, <1>4

\* Business info goes only when the job writes, of owners it has read to erase and who
\* have been gone for the retention, or had been when they left once more since.
THEOREM ErasureIsDue == Spec => ErasedOnlyWhenDue
<1>1. Typed /\ Gone /\ [Next]_vars =>
        [\A s \in Sellers :
            HasInfo(s) /\ ~HasInfo(s)' =>
                /\ job = "erase" /\ job' = "clean" /\ s \in targets
                /\ deletedFor[s] = Retention \/ s \in again]_vars
  BY StepErases DEF Erases, DueAtRead
<1>. QED
  BY <1>1, InitTyped, NextTyped, InitGone, NextGone, PTL DEF Spec, ErasedOnlyWhenDue

-----------------------------------------------------------------------------
(***************************************************************************)
(* The dashboard.                                                          *)
(***************************************************************************)

\* Integers with an upper limit have a greatest one: of the intervals that lead
\* from one of them to the limit, a smallest begins there.
LEMMA Greatest ==
    ASSUME NEW S, S \subseteq Int, NEW low \in S, NEW high \in Int,
           \A e \in S : e <= high
    PROVE  \E m \in S : \A e \in S : e <= m
<1>. DEFINE D == low..high
            Tails == {T \in SUBSET D : \E e \in S : T = e..high}
<1>1. IsWellFoundedOn(StrictSubsetOrdering(D), SUBSET D)
  <2>1. IsFiniteSet(D)
    BY FS_Interval
  <2>. QED
    BY <2>1, FS_StrictSubsetOrderingWellFounded, FS_FiniteSubsetsOfFinite
<1>2. low..high \in Tails
  OBVIOUS
<1>3. PICK T \in Tails : \A U \in Tails : <<U, T>> \notin StrictSubsetOrdering(D)
  <2>1. Tails \subseteq SUBSET D
    OBVIOUS
  <2>. HIDE DEF Tails, D
  <2>. QED
    BY <1>1, <1>2, <2>1, WFMin
<1>4. PICK m \in S : T = m..high
  BY <1>3
<1>5. ASSUME NEW e \in S, ~(e <= m) PROVE FALSE
  <2>1. e..high \subseteq m..high /\ m \in m..high /\ m \notin e..high
    BY <1>5
  <2>2. e..high \in Tails /\ <<e..high, T>> \in StrictSubsetOrdering(D)
    BY <1>3, <1>4, <2>1 DEF StrictSubsetOrdering
  <2>. QED
    BY <1>3, <2>2
<1>. QED
  BY <1>5

\* Those with a lower limit have a least one.
LEMMA Least ==
    ASSUME NEW S, S \subseteq Int, NEW high \in S, NEW low \in Int,
           \A e \in S : low <= e
    PROVE  \E m \in S : \A e \in S : m <= e
<1>. DEFINE T == {-e : e \in S}
<1>1. /\ T \subseteq Int /\ -high \in T /\ -low \in Int
      /\ \A e \in T : e <= -low
  OBVIOUS
<1>2. PICK n \in T : \A e \in T : e <= n
  <2>. HIDE DEF T
  <2>. QED
    BY <1>1, Greatest
<1>3. PICK m \in S : n = -m
  OBVIOUS
<1>4. ASSUME NEW e \in S PROVE m <= e
  <2>1. -e \in T
    OBVIOUS
  <2>2. -e <= n
    BY <1>2, <2>1
  <2>. QED
    BY <1>3, <2>2
<1>. QED
  BY <1>4

\* The last of days up to d, and the first of them behind d.
LEMMA LastIs ==
    ASSUME NEW days, days \subseteq Int, NEW d \in Int, NEW y \in days, y <= d
    PROVE  /\ Last(days, d) \in days
           /\ Last(days, d) <= d
           /\ \A e \in days : e <= d => e <= Last(days, d)
<1>. DEFINE S == {e \in days : e <= d}
<1>1. \E m \in S : \A e \in S : e <= m
  <2>1. S \subseteq Int /\ y \in S /\ \A e \in S : e <= d
    OBVIOUS
  <2>. HIDE DEF S
  <2>. QED
    BY <2>1, Greatest
<1>2. \E m \in S : \A e \in S : m >= e
  BY <1>1
<1>3. Last(days, d) \in S /\ \A e \in S : Last(days, d) >= e
  <2>. HIDE DEF S
  <2>1. Max(S) \in S /\ \A e \in S : Max(S) >= e
    BY <1>2 DEF Max
  <2>. QED
    BY <2>1 DEF Last, S
<1>. QED
  BY <1>3

\* The first day after d on which a period begins, if there is one.
LEMMA FirstIs ==
    ASSUME NEW days, days \subseteq Int, NEW d \in Int, NEW y \in days, d < y
    PROVE  /\ First(days, d) \in days
           /\ d < First(days, d)
           /\ \A e \in days : d < e => First(days, d) <= e
<1>. DEFINE S == {e \in days : e > d}
<1>1. \E m \in S : \A e \in S : m <= e
  <2>1. \A e \in days : e > d => d <= e
    OBVIOUS
  <2>2. y > d /\ y \in S
    OBVIOUS
  <2>3. S \subseteq Int /\ \A e \in S : d <= e
    BY <2>1
  <2>. HIDE DEF S
  <2>. QED
    BY <2>2, <2>3, Least
<1>2. First(days, d) \in S /\ \A e \in S : First(days, d) <= e
  <2>. HIDE DEF S
  <2>1. Min(S) \in S /\ \A e \in S : Min(S) =< e
    BY <1>1 DEF Min
  <2>. QED
    BY <2>1 DEF First, S
<1>. QED
  BY <1>2

\* Today is within the run, a sale has its day, and sales are finite in number.
SalesTyped ==
    /\ today \in FirstDay..LastDay
    /\ createdAt \in [Items -> Int \union {NoOrder}]
    /\ status \in [Items -> {"WaitingPayment", "CompletedPayment", "Canceled"}]
    /\ paid \subseteq Items
    /\ IsFiniteSet({i \in Items : createdAt[i] # NoOrder})

\* Nothing has been sold yet.
LEMMA InitSales == DashboardInit => SalesTyped
<1>. SUFFICES ASSUME DashboardInit PROVE SalesTyped
  OBVIOUS
<1>1. {i \in Items : createdAt[i] # NoOrder} = {}
  BY DEF DashboardInit
<1>2. IsFiniteSet({i \in Items : createdAt[i] # NoOrder})
  BY <1>1, FS_EmptySet
<1>. QED
  BY <1>2, DashboardAssumption DEF DashboardInit, SalesTyped

\* One more sale leaves finitely many, each of a day.
LEMMA NextSales == SalesTyped /\ [DashboardNext]_dashboardVars => SalesTyped'
<1>. SUFFICES ASSUME SalesTyped, [DashboardNext]_dashboardVars PROVE SalesTyped'
  OBVIOUS
<1>. DEFINE sold == {i \in Items : createdAt[i] # NoOrder}
<1>1. IsFiniteSet(sold)
  BY DEF SalesTyped
<1>2. CASE UNCHANGED dashboardVars
  BY <1>2 DEF dashboardVars, SalesTyped
<1>3. CASE NextDay
  BY <1>3, DashboardAssumption DEF NextDay, SalesTyped
<1>4. ASSUME NEW i \in Items, Place(i) PROVE SalesTyped'
  <2>1. sold' = sold \union {i}
    BY <1>4, DashboardAssumption DEF Place, SalesTyped
  <2>2. IsFiniteSet(sold')
    <3>. HIDE DEF sold
    <3>. QED
      BY <1>1, <2>1, FS_AddElement
  <2>. QED
    BY <1>4, <2>2, DashboardAssumption DEF Place, SalesTyped
<1>5. ASSUME NEW i \in Items, Pay(i) \/ Cancel(i) PROVE SalesTyped'
  BY <1>5 DEF Pay, Cancel, SalesTyped
<1>. QED
  BY <1>2, <1>3, <1>4, <1>5 DEF DashboardNext

\* Sales are finitely many, of days.
LEMMA SalesAreTyped == DashboardSpec => []SalesTyped
  BY InitSales, NextSales, PTL DEF DashboardSpec

\* A week begins at most six days ago, and a new one begins seven days behind.
LEMMA WeekIs ==
    ASSUME today \in Int
    PROVE  StartOfWeek \in Int /\ StartOfWeek <= today /\ today < StartOfWeek + 7
<1>. DEFINE day == today % 7
<1>1. day \in 0..6
  OBVIOUS
<1>2. StartOfWeek = IF day = 0 THEN today - 6 ELSE today + 1 - day
  BY DEF StartOfWeek
<1>. HIDE DEF day
<1>. QED
  BY <1>1, <1>2

\* The next day is of the same week or of the one that follows it.
LEMMA WeekMoves ==
    ASSUME today \in Int, today' = today + 1
    PROVE  StartOfWeek' = StartOfWeek \/ StartOfWeek' = StartOfWeek + 7
<1>. DEFINE day == today % 7
            next == (today + 1) % 7
<1>1. day \in 0..6 /\ next = IF day = 6 THEN 0 ELSE day + 1
  OBVIOUS
<1>2. StartOfWeek = IF day = 0 THEN today - 6 ELSE today + 1 - day
  BY DEF StartOfWeek
<1>3. StartOfWeek' = IF next = 0 THEN today + 1 - 6 ELSE today + 1 + 1 - next
  BY DEF StartOfWeek
<1>. HIDE DEF day, next
<1>. QED
  BY <1>1, <1>2, <1>3

\* A day that is the first of a month (a year) ends the one before, and the last
\* first day up to a day that is none stays the last.
LEMMA CalendarMoves ==
    ASSUME NEW days, days \subseteq Int, today \in Int, today' = today + 1,
           NEW y \in days, y <= today
    PROVE  \/ Last(days, today)' = Last(days, today)
           \/ /\ Last(days, today)' = today + 1
              /\ First(days, Last(days, today)) = today + 1
<1>1. Last(days, today)' = Last(days, today + 1)
  BY DEF Last
<1>2. CASE today + 1 \notin days
  <2>1. ASSUME NEW e \in days PROVE e <= today + 1 <=> e <= today
    <3>1. e \in Int /\ e # today + 1
      BY <1>2
    <3>. QED
      BY <3>1
  <2>2. {e \in days : e <= today + 1} = {e \in days : e <= today}
    BY <2>1
  <2>. QED
    BY <1>1, <2>2 DEF Last
<1>3. CASE today + 1 \in days
  <2>. DEFINE m == Last(days, today)
              n == Last(days, today + 1)
              f == First(days, m)
  <2>1. /\ m \in days /\ m <= today
        /\ \A e \in days : e <= today => e <= m
    BY LastIs
  <2>2. n <= today + 1 /\ today + 1 <= n /\ n \in days
    <3>1. today + 1 \in Int /\ y <= today + 1 /\ today + 1 <= today + 1
      OBVIOUS
    <3>. QED
      BY <1>3, <3>1, LastIs
  <2>3. f \in days /\ m < f /\ f <= today + 1
    <3>. HIDE DEF m
    <3>1. m \in Int /\ m <= today
      BY <2>1
    <3>2. m < today + 1
      BY <3>1
    <3>. QED
      BY <1>3, <3>1, <3>2, FirstIs
  <2>. HIDE DEF m, n, f
  <2>4. n \in Int /\ f \in Int /\ m \in Int
    BY <2>1, <2>2, <2>3
  <2>5. n = today + 1
    BY <2>2, <2>4
  <2>6. ~(f <= today)
    BY <2>1, <2>3, <2>4
  <2>7. f = today + 1
    BY <2>3, <2>4, <2>6
  <2>. QED
    BY <1>1, <2>5, <2>7 DEF m, n, f
<1>. QED
  BY <1>2, <1>3

\* Every day has months and years that began before it and begin after it.
LEMMA CalendarBegins ==
    ASSUME SalesTyped
    PROVE  /\ today \in Int
           /\ MonthStarts \subseteq Int /\ YearStarts \subseteq Int
           /\ \E y \in YearStarts : y \in MonthStarts /\ y <= today
           /\ \E y \in YearStarts : y \in MonthStarts /\ today < y
<1>1. PICK y \in YearStarts, z \in YearStarts : y < z /\ z <= FirstDay
  BY DashboardAssumption
<1>2. PICK x \in YearStarts : LastDay < x
  BY DashboardAssumption
<1>3. /\ FirstDay \in Int /\ LastDay \in Int /\ z \in Int /\ x \in Int
      /\ today \in Int /\ FirstDay <= today /\ today <= LastDay
  BY DashboardAssumption DEF SalesTyped
<1>4. z <= today /\ today < x
  BY <1>1, <1>2, <1>3
<1>. QED
  BY <1>3, <1>4, DashboardAssumption

\* On a new day a period either goes on, or ends where it has been said to end
\* and is the one before from then on.
Rolls(p) ==
    IF Start(p)' # Start(p) THEN PreviousStart(p)' = Start(p) /\ Start(p)' = End(p)
    ELSE End(p)' = End(p) /\ PreviousStart(p)' = PreviousStart(p)

\* A day later each period is the same one or the one that follows, and the
\* period before it the one it was.
LEMMA PeriodsRoll ==
    ASSUME SalesTyped, today' = today + 1, NEW p \in Periods
    PROVE  Rolls(p)
<1>0. /\ today \in Int
      /\ MonthStarts \subseteq Int /\ YearStarts \subseteq Int
  BY CalendarBegins
<1>1. PICK y \in YearStarts : y \in MonthStarts /\ y <= today
  BY CalendarBegins
<1>2. CASE p = "today"
  BY <1>0, <1>2 DEF Rolls, Start, End, PreviousStart
<1>3. CASE p = "week"
  <2>1. StartOfWeek' = StartOfWeek \/ StartOfWeek' = StartOfWeek + 7
    BY <1>0, WeekMoves
  <2>2. StartOfWeek \in Int
    BY <1>0, WeekIs
  <2>. QED
    BY <1>3, <2>1, <2>2 DEF Rolls, Start, End, PreviousStart
<1>4. ASSUME NEW days, days \subseteq Int, y \in days,
             Start(p) = Last(days, today), Start(p)' = Last(days, today)',
             End(p) = First(days, Start(p)), End(p)' = First(days, Start(p)'),
             PreviousStart(p) = Last(days, Start(p) - 1),
             PreviousStart(p)' = Last(days, Start(p)' - 1)
      PROVE  Rolls(p)
  <2>1. \/ Start(p)' = Start(p)
        \/ Start(p)' = today + 1 /\ End(p) = today + 1
    BY <1>0, <1>1, <1>4, CalendarMoves
  <2>2. CASE Start(p)' = Start(p)
    BY <1>4, <2>2 DEF Rolls
  <2>3. CASE Start(p)' # Start(p)
    <3>1. Start(p)' = today + 1 /\ End(p) = today + 1
      BY <2>1, <2>3
    <3>2. PreviousStart(p)' = Last(days, today)
      <4>1. Start(p)' - 1 = today
        BY <1>0, <3>1
      <4>2. PreviousStart(p)' = Last(days, Start(p)' - 1)
        BY <1>4
      <4>. QED
        BY <4>1, <4>2
    <3>. QED
      BY <1>4, <2>3, <3>1, <3>2 DEF Rolls
  <2>. QED
    BY <2>2, <2>3
<1>5. CASE p = "month"
  BY <1>0, <1>1, <1>4, <1>5 DEF Start, End, PreviousStart
<1>6. CASE p = "year"
  BY <1>0, <1>1, <1>4, <1>6 DEF Start, End, PreviousStart
<1>. QED
  BY <1>2, <1>3, <1>5, <1>6 DEF Periods

\* When a period is over, what it showed is shown as the period before, for any
\* calendar: months and years of any length, weeks across their limits.
THEOREM PeriodsRollOver == DashboardSpec => RolledOver
<1>1. ASSUME SalesTyped, [DashboardNext]_dashboardVars, today' # today,
             NEW p \in Periods
      PROVE  IF Start(p)' # Start(p) THEN Previous(p)' = Current(p)
             ELSE Current(p)' = Current(p) /\ Previous(p)' = Previous(p)
  <2>1. NextDay
    BY <1>1 DEF DashboardNext, dashboardVars, Place, Pay, Cancel
  <2>2. Rolls(p)
    BY <1>1, <2>1, PeriodsRoll DEF NextDay
  <2>3. /\ Previous(p)' = Within(PreviousStart(p)', Start(p)')
        /\ Current(p)' = Within(Start(p)', End(p)')
    BY <2>1 DEF NextDay, Previous, Current, Within, Sales, Records
  <2>. QED
    BY <2>2, <2>3 DEF Rolls, Previous, Current
<1>2. SalesTyped /\ [DashboardNext]_dashboardVars =>
        [today' # today =>
           \A p \in Periods :
              IF Start(p)' # Start(p) THEN Previous(p)' = Current(p)
              ELSE Current(p)' = Current(p) /\ Previous(p)' = Previous(p)]_dashboardVars
  BY <1>1
<1>. QED
  BY <1>2, SalesAreTyped, PTL DEF DashboardSpec, RolledOver

-----------------------------------------------------------------------------
\* Every period holds the whole of today.
LEMMA TodayWithin ==
    ASSUME SalesTyped, NEW p \in Periods
    PROVE  /\ Start(p) \in Int /\ End(p) \in Int
           /\ Start(p) <= today /\ today < End(p)
<1>0. /\ today \in Int
      /\ MonthStarts \subseteq Int /\ YearStarts \subseteq Int
  BY CalendarBegins
<1>1. PICK y \in YearStarts : y \in MonthStarts /\ y <= today
  BY CalendarBegins
<1>2. PICK z \in YearStarts : z \in MonthStarts /\ today < z
  BY CalendarBegins
<1>3. CASE p = "today"
  BY <1>0, <1>3 DEF Start, End
<1>4. CASE p = "week"
  BY <1>0, <1>4, WeekIs DEF Start, End
<1>5. ASSUME NEW days, days \subseteq Int, y \in days, z \in days,
             Start(p) = Last(days, today), End(p) = First(days, Start(p))
      PROVE  /\ Start(p) \in days /\ End(p) \in days
             /\ Start(p) <= today /\ today < End(p)
  <2>. DEFINE m == Last(days, today)
              f == First(days, m)
  <2>1. /\ m \in days /\ m <= today
        /\ \A e \in days : e <= today => e <= m
    BY <1>0, <1>1, <1>5, LastIs
  <2>2. f \in days /\ m < f
    <3>. HIDE DEF m
    <3>1. m \in Int /\ z \in Int /\ m <= today
      BY <1>5, <2>1
    <3>2. m < z
      BY <1>0, <1>2, <3>1
    <3>. QED
      BY <1>5, <3>1, <3>2, FirstIs
  <2>3. today < f
    <3>. HIDE DEF m, f
    <3>1. m \in Int /\ f \in Int
      BY <1>5, <2>1, <2>2
    <3>. QED
      BY <1>0, <2>1, <2>2, <3>1
  <2>. QED
    BY <1>5, <2>1, <2>2, <2>3
<1>6. CASE p = "month"
  BY <1>0, <1>1, <1>2, <1>5, <1>6 DEF Start, End
<1>7. CASE p = "year"
  BY <1>0, <1>1, <1>2, <1>5, <1>7 DEF Start, End
<1>. QED
  BY <1>3, <1>4, <1>6, <1>7 DEF Periods

\* Every price is in one bucket.
LEMMA PricesPart ==
    ASSUME NEW price \in Nat
    PROVE  /\ \E b \in Buckets : InBucket(b, price)
           /\ \A b, c \in Buckets : InBucket(b, price) /\ InBucket(c, price) => b = c
<1>. DEFINE b1 == [min |-> 0, max |-> 10000]
            b2 == [min |-> 10000, max |-> 30000]
            b3 == [min |-> 30000, max |-> 50000]
            b4 == [min |-> 50000, max |-> 100000]
            b5 == [min |-> 100000]
<1>1. /\ InBucket(b1, price) <=> price < 10000
      /\ InBucket(b2, price) <=> 10000 <= price /\ price < 30000
      /\ InBucket(b3, price) <=> 30000 <= price /\ price < 50000
      /\ InBucket(b4, price) <=> 50000 <= price /\ price < 100000
      /\ InBucket(b5, price) <=> 100000 <= price
  BY DEF InBucket
<1>2. Buckets = {b1, b2, b3, b4, b5}
  BY DEF Buckets
<1>. HIDE DEF b1, b2, b3, b4, b5
<1>. QED
  BY <1>1, <1>2

\* There are five buckets.
LEMMA BucketsFinite == IsFiniteSet(Buckets)
<1>. DEFINE b1 == [min |-> 0, max |-> 10000]
            b2 == [min |-> 10000, max |-> 30000]
            b3 == [min |-> 30000, max |-> 50000]
            b4 == [min |-> 50000, max |-> 100000]
            b5 == [min |-> 100000]
<1>1. Buckets = ((({b1} \union {b2}) \union {b3}) \union {b4}) \union {b5}
  BY DEF Buckets
<1>. HIDE DEF b1, b2, b3, b4, b5
<1>2. IsFiniteSet({b1})
  BY FS_Singleton
<1>3. IsFiniteSet({b1} \union {b2})
  BY <1>2, FS_AddElement
<1>4. IsFiniteSet(({b1} \union {b2}) \union {b3})
  BY <1>3, FS_AddElement
<1>5. IsFiniteSet((({b1} \union {b2}) \union {b3}) \union {b4})
  BY <1>4, FS_AddElement
<1>. QED
  BY <1>1, <1>5, FS_AddElement

Amounts == [i \in Items |-> Price[i] * Quantity[i]]

\* What the dashboard counts are paid sales with a day, a price and a quantity.
LEMMA RecordsTyped ==
    ASSUME SalesTyped
    PROVE  /\ IsFiniteSet(Records) /\ Records \subseteq Items
           /\ \A i \in Records : createdAt[i] \in Int
           /\ \A i \in Items : Amounts[i] \in Nat /\ Price[i] \in Nat
           /\ \A S : Sales(S).sales = SumFunctionOnSet(Amounts, S)
<1>1. IsFiniteSet(Records)
  <2>1. Records \subseteq {i \in Items : createdAt[i] # NoOrder}
    BY DEF Records, SalesTyped
  <2>. QED
    BY <2>1, FS_Subset DEF SalesTyped
<1>2. ASSUME NEW i \in Items PROVE Amounts[i] \in Nat /\ Price[i] \in Nat
  <2>1. Price[i] \in Nat /\ Quantity[i] \in Nat
    BY DashboardAssumption
  <2>2. Price[i] * Quantity[i] \in Nat
    BY <2>1
  <2>. QED
    BY <2>1, <2>2 DEF Amounts
<1>. QED
  BY <1>1, <1>2 DEF SalesTyped, Records, Sales, Amounts

\* The dashboard adds up: today is part of each period, and every sale is in one
\* range of prices, for any prices, any sales and any calendar.
THEOREM DashboardAddsUp == DashboardSpec => []ShownAddsUp
<1>1. ASSUME SalesTyped, NEW p \in Periods
      PROVE  Current("today").sales <= Current(p).sales
  <2>. DEFINE A == {i \in Records : today <= createdAt[i] /\ createdAt[i] < today + 1}
              B == {i \in Records : Start(p) <= createdAt[i] /\ createdAt[i] < End(p)}
              C == B \ A
  <2>1. /\ Current("today").sales = SumFunctionOnSet(Amounts, A)
        /\ Current(p).sales = SumFunctionOnSet(Amounts, B)
    <3>1. Start("today") = today /\ End("today") = today + 1
      BY DEF Start, End
    <3>. QED
      BY <1>1, <3>1, RecordsTyped DEF Current, Within
  <2>2. A \subseteq B
    <3>1. /\ Start(p) \in Int /\ End(p) \in Int /\ today \in Int
          /\ Start(p) <= today /\ today < End(p)
      BY <1>1, TodayWithin, CalendarBegins
    <3>2. ASSUME NEW d \in Int, today <= d, d < today + 1
          PROVE  Start(p) <= d /\ d < End(p)
      BY <3>1, <3>2
    <3>. QED
      BY <1>1, <3>2, RecordsTyped
  <2>3. B = A \union C /\ A \cap C = {}
    BY <2>2
  <2>4. /\ IsFiniteSet(A) /\ IsFiniteSet(C)
        /\ \A i \in A \union C : Amounts[i] \in Nat
    <3>1. A \subseteq Records /\ C \subseteq Records
      OBVIOUS
    <3>. HIDE DEF A, C
    <3>. QED
      BY <1>1, <3>1, RecordsTyped, FS_Subset
  <2>. HIDE DEF A, B, C
  <2>5. /\ SumFunctionOnSet(Amounts, B)
               = SumFunctionOnSet(Amounts, A) + SumFunctionOnSet(Amounts, C)
        /\ SumFunctionOnSet(Amounts, A) \in Nat /\ SumFunctionOnSet(Amounts, C) \in Nat
    BY <2>3, <2>4, SumUnion, SumNat
  <2>6. \A m, n \in Nat : m <= m + n
    OBVIOUS
  <2>. QED
    BY <2>1, <2>5, <2>6
<1>2. ASSUME SalesTyped
      PROVE  SumFunctionOnSet([b \in Buckets |-> Sales(RangeOf(b)).sales], Buckets)
                 = Sales(Records).sales
  <2>. DEFINE P == [b \in Buckets |-> RangeOf(b)]
  <2>1. [b \in Buckets |-> Sales(RangeOf(b)).sales]
            = [b \in Buckets |-> SumFunctionOnSet(Amounts, P[b])]
    BY <1>2, RecordsTyped
  <2>2. UNION {P[b] : b \in Buckets} = Records
    BY <1>2, RecordsTyped, PricesPart DEF RangeOf
  <2>3. \A b \in Buckets : IsFiniteSet(P[b]) /\ \A i \in P[b] : Amounts[i] \in Nat
    <3>1. \A b \in Buckets : P[b] \subseteq Records
      BY DEF RangeOf
    <3>. HIDE DEF P
    <3>. QED
      BY <1>2, <3>1, RecordsTyped, FS_Subset
  <2>4. \A b, c \in Buckets : b # c => P[b] \cap P[c] = {}
    BY <1>2, RecordsTyped, PricesPart DEF RangeOf
  <2>5. Sales(Records).sales = SumFunctionOnSet(Amounts, Records)
    BY <1>2, RecordsTyped
  <2>. HIDE DEF P
  <2>. QED
    BY <2>1, <2>2, <2>3, <2>4, <2>5, BucketsFinite, SumOfParts
<1>3. SalesTyped => ShownAddsUp
  BY <1>1, <1>2 DEF ShownAddsUp
<1>. QED
  BY <1>3, SalesAreTyped, PTL

=============================================================================
