------------------------------- MODULE Stores -------------------------------
(***************************************************************************)
(* Stores of sellers: the calls that open and change a store and put every *)
(* change into its audit log, the deletion of an account, which only marks *)
(* it, and the weekly job that erases the business info of stores whose    *)
(* owner is gone and drops old entries of the log.                         *)
(*                                                                         *)
(* A call is a process whose steps are its statements. Time passes in slots*)
(* of the week; how long ago something was matters only up to the retention*)
(* that the job compares it with. A run of the job and a call that writes  *)
(* an entry are over within their slot.                                    *)
(***************************************************************************)
EXTENDS Integers, FiniteSets

CONSTANTS
    Sellers,        \* users of type SELLER; a store is named by its seller
    Calls,          \* identities of calls of the API
    Requests,       \* [Calls -> sets of RequestType], what each may ask
    Week,           \* slots of a week
    Target,         \* the slot that begins on Monday at 03:00
    Retention,      \* STORE_BUSINESS_INFO_RETENTION_DAYS, in slots
    AuditRetention, \* STORE_AUDIT_LOG_RETENTION_DAYS, in slots
    MaxFailures,    \* bound: failures of the job and of the process
    None            \* no row, no business info, no deletion, no timer

\* open: POST /stores, change: PATCH /stores/:id, leave: DELETE /users/delete.
\* valid: what the body alone shows is in order. info: it holds business info,
\* name: it holds any of the other fields, which opening a store has to.
RequestType ==
    [ op    : {"open", "change", "leave"},
      by    : Sellers,
      store : Sellers,
      name  : BOOLEAN,
      info  : BOOLEAN,
      valid : BOOLEAN ]

\* Fields are told apart by the call that wrote them last.
StoreRow == [name : Calls, info : Calls \union {None}]
Entry == [after : StoreRow, age : 0..AuditRetention]

ASSUME StoresAssumption ==
    /\ Requests \in [Calls -> SUBSET RequestType]
    /\ \A c \in Calls : \A r \in Requests[c] : r.op = "open" => r.name /\ r.store = r.by
    /\ Week \in Nat \ {0}
    /\ Target \in 0..(Week - 1)
    /\ Retention \in Nat
    /\ AuditRetention \in Nat
    /\ MaxFailures \in Nat
    /\ None \notin Calls \union Int \union StoreRow \union Entry

VARIABLES
    \* rows
    store,      \* [Sellers -> StoreRow or None]
    deletedFor, \* [Sellers -> None or slots since User.deletedAt]
    audit,      \* [Calls -> Entry or None], the entry each call has made
    \* the process
    up,         \* it runs
    timer,      \* slots until scheduledTimer fires, or None
    job,        \* where the run of the job is
    targets,    \* stores it is going to erase
    again,      \* history: owners who were gone that long and left once more since
    failures,   \* failures so far
    slot,       \* now, in the week
    \* one call each
    request,    \* what it asks
    pc,         \* where it is
    after       \* the row its write answered with

rows == <<store, deletedFor, audit>>
process == <<up, timer, job, targets, again, failures>>
calls == <<request, pc, after>>
vars == <<rows, process, slot, calls>>

Asks(c, op, place) == request[c].op = op /\ pc[c] = place
Goto(c, place) == pc' = [pc EXCEPT ![c] = place]
Go(c, place) == Goto(c, place) /\ UNCHANGED <<rows, process, slot, request, after>>

-----------------------------------------------------------------------------
\* Mutant: the days until the target without the + 7 and % 7.
NextRunUnwrapped ==
    LET ahead == Target - slot IN IF ahead = 0 THEN Week ELSE ahead

\* getNextRunDate, from now.
NextRun ==
    LET ahead == (Target - slot) % Week IN IF ahead = 0 THEN Week ELSE ahead

\* The server has just been started, at any time of the week.
Init ==
    /\ store = [s \in Sellers |-> None]
    /\ deletedFor = [s \in Sellers |-> None]
    /\ audit = [c \in Calls |-> None]
    /\ slot \in 0..(Week - 1)
    /\ up = TRUE
    /\ timer = NextRun
    /\ job = "idle"
    /\ targets = {}
    /\ again = {}
    /\ failures = 0
    /\ request \in {q \in [Calls -> UNION {Requests[c] : c \in Calls}] :
                       \A c \in Calls : q[c] \in Requests[c]}
    /\ pc = [c \in Calls |-> "idle"]
    /\ after = [c \in Calls |-> None]

\* authenticate asks for the row of the user, deleted or not.
Submit(c) ==
    /\ up
    /\ pc[c] = "idle"
    /\ Go(c, IF request[c].valid THEN "read" ELSE "refused")

\* create: findBySellerId, and the write, where sellerId is unique.
OpenRead(c) ==
    /\ Asks(c, "open", "read")
    /\ Go(c, IF store[request[c].by] = None THEN "write" ELSE "refused")

Written(c, row) ==
    /\ store' = [store EXCEPT ![request[c].store] = row]
    /\ after' = [after EXCEPT ![c] = row]
    /\ Goto(c, "audit")
    /\ UNCHANGED <<deletedFor, audit, process, slot, request>>

OpenWrite(c) ==
    /\ Asks(c, "open", "write")
    /\ IF store[request[c].by] # None
       THEN Go(c, "refused")
       ELSE Written(c, [name |-> c, info |-> IF request[c].info THEN c ELSE None])

\* update: findById and ensureStoreOwner.
ChangeRead(c) ==
    /\ Asks(c, "change", "read")
    /\ Go(c, IF store[request[c].store] # None /\ request[c].by = request[c].store
             THEN "write" ELSE "refused")

\* Fields that the body does not hold stay as they are. The answer is the row.
ChangeWrite(c) ==
    LET old == store[request[c].store] IN
    /\ Asks(c, "change", "write")
    /\ Written(c, [name |-> IF request[c].name THEN c ELSE old.name,
                   info |-> IF request[c].info THEN c ELSE old.info])

\* Mutant: the entry shows what the body held.
AuditOfBody(c) ==
    /\ pc[c] = "audit"
    /\ audit' = [audit EXCEPT ![c] =
           [after |-> [name |-> c, info |-> IF request[c].info THEN c ELSE None],
            age |-> 0]]
    /\ Goto(c, "done")
    /\ UNCHANGED <<store, deletedFor, process, slot, request, after>>

\* createAuditLog, a statement of its own. What the row was before the change,
\* as it was read, is stored too and not modelled.
Audit(c) ==
    /\ pc[c] = "audit"
    /\ audit' = [audit EXCEPT ![c] = [after |-> after[c], age |-> 0]]
    /\ Goto(c, "done")
    /\ UNCHANGED <<store, deletedFor, process, slot, request, after>>

\* deleteUser, also of an account that is deleted already.
Leave(c) ==
    LET u == request[c].by IN
    /\ Asks(c, "leave", "read")
    /\ deletedFor' = [deletedFor EXCEPT ![u] = 0]
    /\ again' = IF job = "erase" /\ deletedFor[u] = Retention THEN again \union {u} ELSE again
    /\ Goto(c, "done")
    /\ UNCHANGED <<store, audit, up, timer, job, targets, failures, slot, request, after>>

\* A statement or the upload of the image fails.
Fail(c) ==
    /\ pc[c] \in {"read", "write", "audit"}
    /\ Go(c, IF pc[c] = "audit" THEN "untraced" ELSE "failed")

-----------------------------------------------------------------------------
\* Mutant: the timer is not set when a run has failed.
FinishForgets ==
    /\ job \in {"done", "failed"}
    /\ job' = "idle"
    /\ targets' = {} /\ again' = {}
    /\ timer' = IF job = "failed" THEN None ELSE NextRun
    /\ UNCHANGED <<rows, up, failures, slot, calls>>

\* runStoreBusinessInfoPurge: the timer fires ...
Fire ==
    /\ up
    /\ timer = 0
    /\ timer' = None
    /\ job' = "read"
    /\ UNCHANGED <<rows, up, targets, again, failures, slot, calls>>

HasInfo(s) == store[s] # None /\ store[s].info # None

\* Mutant: owners count as gone from the moment they leave.
JobReadAnyDeleted ==
    /\ job = "read"
    /\ targets' = {s \in Sellers : HasInfo(s) /\ deletedFor[s] # None}
    /\ job' = IF targets' = {} THEN "clean" ELSE "erase"
    /\ UNCHANGED <<rows, up, timer, again, failures, slot, calls>>

\* ... the stores to erase are read ...
JobRead ==
    /\ job = "read"
    /\ targets' = {s \in Sellers : HasInfo(s) /\ deletedFor[s] = Retention}
    /\ job' = IF targets' = {} THEN "clean" ELSE "erase"
    /\ UNCHANGED <<rows, up, timer, again, failures, slot, calls>>

\* ... their info is set to null ...
JobErase ==
    /\ job = "erase"
    /\ store' = [s \in Sellers |-> IF s \in targets THEN [store[s] EXCEPT !.info = None]
                                   ELSE store[s]]
    /\ job' = "clean"
    /\ UNCHANGED <<deletedFor, audit, up, timer, targets, again, failures, slot, calls>>

\* ... and entries past their retention are deleted.
JobClean ==
    /\ job = "clean"
    /\ audit' = [c \in Calls |->
                    IF audit[c] # None /\ audit[c].age = AuditRetention
                    THEN None ELSE audit[c]]
    /\ job' = "done"
    /\ UNCHANGED <<store, deletedFor, up, timer, targets, again, failures, slot, calls>>

\* finally: the next run is scheduled, whatever has become of this one.
Finish ==
    /\ job \in {"done", "failed"}
    /\ job' = "idle"
    /\ targets' = {} /\ again' = {}
    /\ timer' = NextRun
    /\ UNCHANGED <<rows, up, failures, slot, calls>>

\* A statement of the job fails.
JobFail ==
    /\ job \in {"read", "erase", "clean"}
    /\ failures < MaxFailures
    /\ failures' = failures + 1
    /\ job' = "failed"
    /\ UNCHANGED <<rows, up, timer, targets, again, slot, calls>>

\* The process dies, with its timer, its run of the job and its calls.
Crash ==
    /\ up
    /\ failures < MaxFailures
    /\ failures' = failures + 1
    /\ up' = FALSE
    /\ timer' = None
    /\ job' = "idle"
    /\ targets' = {} /\ again' = {}
    /\ pc' = [c \in Calls |-> CASE pc[c] = "audit" -> "untraced"
                                [] pc[c] \in {"read", "write"} -> "failed"
                                [] OTHER -> pc[c]]
    /\ UNCHANGED <<rows, slot, request, after>>

\* startStoreBusinessInfoPurgeScheduler, when it has been started again.
Restart ==
    /\ ~up
    /\ up' = TRUE
    /\ timer' = NextRun
    /\ UNCHANGED <<rows, job, targets, again, failures, slot, calls>>

\* A slot passes. A timer that is due may still fire late.
Older(n, limit) == IF n = limit THEN limit ELSE n + 1

Tick ==
    /\ job = "idle"
    /\ \A c \in Calls : pc[c] # "audit"
    /\ slot' = (slot + 1) % Week
    /\ timer' = IF timer \in {None, 0} THEN timer ELSE timer - 1
    /\ deletedFor' = [s \in Sellers |-> IF deletedFor[s] = None THEN None
                                        ELSE Older(deletedFor[s], Retention)]
    /\ audit' = [c \in Calls |-> IF audit[c] = None THEN None
                                 ELSE [audit[c] EXCEPT !.age = Older(@, AuditRetention)]]
    /\ UNCHANGED <<store, up, job, targets, again, failures, calls>>

Step(c) ==
    \/ OpenRead(c) \/ OpenWrite(c)
    \/ ChangeRead(c) \/ ChangeWrite(c)
    \/ Audit(c)
    \/ Leave(c)

JobStep == JobRead \/ JobErase \/ JobClean \/ Finish

Next ==
    \/ \E c \in Calls : Submit(c) \/ Step(c) \/ Fail(c)
    \/ Fire \/ JobStep \/ JobFail
    \/ Crash \/ Restart
    \/ Tick

Spec == Init /\ [][Next]_vars

\* Time passes, a timer that is due fires, a run that has begun goes on, a call
\* that has begun is answered, and pm2 starts a process that died again.
FairSpec ==
    /\ Spec
    /\ WF_vars(Tick) /\ WF_vars(Fire) /\ WF_vars(JobStep) /\ WF_vars(Restart)
    /\ \A c \in Calls : WF_vars(Step(c))

-----------------------------------------------------------------------------
\* Types of the rows, of the process and of the calls.
TypeOK ==
    /\ store \in [Sellers -> StoreRow \union {None}]
    /\ deletedFor \in [Sellers -> (0..Retention) \union {None}]
    /\ audit \in [Calls -> Entry \union {None}]
    /\ up \in BOOLEAN
    /\ timer \in (0..Week) \union {None}
    /\ job \in {"idle", "read", "erase", "clean", "done", "failed"}
    /\ targets \subseteq Sellers
    /\ again \subseteq Sellers
    /\ failures \in 0..MaxFailures
    /\ slot \in 0..(Week - 1)
    /\ request \in [Calls -> RequestType]
    /\ pc \in [Calls -> {"idle", "read", "write", "audit", "done", "refused",
                         "failed", "untraced"}]
    /\ after \in [Calls -> StoreRow \union {None}]

\* Calls that have written the store of s.
Wrote(c, s) ==
    /\ request[c].op \in {"open", "change"}
    /\ request[c].store = s
    /\ pc[c] \in {"audit", "done", "untraced"}

\* When each call that wrote a store has its entry in the log, one of the
\* entries shows the store as it is, up to what the job has erased: of calls
\* that race, the one that wrote last has logged the fields of the others too.
StoreTraced ==
    \A s \in Sellers :
        /\ store[s] # None
        /\ \A c \in Calls : Wrote(c, s) => audit[c] # None
        => \E c \in Calls :
              /\ Wrote(c, s)
              /\ audit[c].after.name = store[s].name
              /\ store[s].info \in {None, audit[c].after.info}

\* Business info goes only when the job writes, from a store that its run has read
\* as one to erase, and only while the owner has been gone for the retention: an
\* owner who is deleted once more between that read and the write had been.
ErasedOnlyWhenDue ==
    [][\A s \in Sellers :
          HasInfo(s) /\ ~HasInfo(s)' =>
              /\ job = "erase" /\ job' = "clean" /\ s \in targets
              /\ deletedFor[s] = Retention \/ s \in again]_vars

\* The info of an owner who has been gone for the retention is erased in the
\* end, through failed runs and restarts, and also when it was entered again
\* after it had been erased once.
Due(s) == HasInfo(s) /\ deletedFor[s] = Retention

ErasedInTheEnd == \A s \in Sellers : Due(s) ~> ~Due(s)

=============================================================================
