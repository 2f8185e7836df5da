----------------------------- MODULE Inquiries -----------------------------
(***************************************************************************)
(* One inquiry about a product, and the calls of buyers and sellers that   *)
(* edit it, delete it, reply to it, reword the reply and take it back. The *)
(* calls are processes whose steps are their database statements; calls on *)
(* different inquiries share no row.                                       *)
(*                                                                         *)
(* PostgreSQL runs at READ COMMITTED: a SELECT sees committed rows and     *)
(* waits for nothing; an UPDATE or DELETE takes the row's lock, waits while*)
(* another transaction holds it, and finds out then whether the row is     *)
(* still there. The last statement of a transaction and its COMMIT are one *)
(* step: in between it holds every row it has written. Who holds a row     *)
(* follows from where the calls are.                                       *)
(***************************************************************************)
EXTENDS Integers, FiniteSets

CONSTANTS
    Users,
    Sellers,    \* users of type SELLER
    Asker,      \* Inquiry.buyerId
    Shopkeeper, \* seller of the product's store
    Calls,      \* identities of calls of the API; a reply is named by its call
    Requests,   \* what a call may ask, see RequestType
    NoReply     \* no row of InquiryAnswer

Status == {"WaitingAnswer", "CompletedAnswer"}

\* edit: PATCH /inquiries/:id, delete: DELETE /inquiries/:id (of a seller, the
\* reply), reply: POST /inquiries/:id/replies, reword: PATCH of a reply.
\* valid: what the body alone shows is in order.
RequestType ==
    [ op    : {"edit", "delete", "reply", "reword"},
      by    : Users,
      valid : BOOLEAN ]

ASSUME InquiryAssumption ==
    /\ Sellers \subseteq Users
    /\ Asker \in Users
    /\ Shopkeeper \in Users
    /\ Requests \subseteq RequestType
    /\ NoReply \notin Calls
    /\ NoReply \notin [id : Calls, text : Calls]

VARIABLES
    \* committed rows
    status,     \* Inquiry.status, or Gone when there is no such row
    text,       \* the call that wrote title and content last, or NoReply
    answer,     \* the row of InquiryAnswer or NoReply
    notices,    \* replies announced to the asker by a row of Notification
    \* one call each
    request,    \* what it asks
    pc,         \* where it is
    seen        \* the reply a reword names

rows == <<status, text, answer, notices>>
vars == <<rows, request, pc, seen>>

\* The reply that is there, by the call that made it.
ReplyId == IF answer = NoReply THEN NoReply ELSE answer.id

By(c) == request[c].by
Asks(c, op, place) == request[c].op = op /\ pc[c] = place
Goto(c, place) == pc' = [pc EXCEPT ![c] = place]
Go(c, place) == Goto(c, place) /\ UNCHANGED <<rows, request, seen>>

\* Rows a transaction has written and not committed.
HoldsInquiry(c) == pc[c] \in {"insert", "cascade"}
HoldsAnswer(c) == pc[c] = "unmark"

InquiryFree(c) == \A d \in Calls \ {c} : ~HoldsInquiry(d)
AnswerFree(c) == \A d \in Calls \ {c} : ~HoldsAnswer(d)

-----------------------------------------------------------------------------
\* As createInquiry leaves the row.
Init ==
    /\ status = "WaitingAnswer"
    /\ text = NoReply
    /\ answer = NoReply
    /\ notices = {}
    /\ request \in [Calls -> Requests]
    /\ pc = [c \in Calls |-> "idle"]
    /\ seen = [c \in Calls |-> NoReply]

\* A client that rewords a reply names one it has been shown before.
Submit(c) ==
    /\ pc[c] = "idle"
    /\ Goto(c, IF request[c].valid THEN "read" ELSE "refused")
    /\ seen' = [seen EXCEPT ![c] = ReplyId]
    /\ UNCHANGED <<rows, request>>

\* Who may do it: ensureInquiryBuyerOwner, ensureInquirySellerOwner.
Entitled(c) ==
    IF request[c].op = "edit" \/ (request[c].op = "delete" /\ By(c) \notin Sellers)
    THEN By(c) = Asker
    ELSE By(c) = Shopkeeper

\* findById: the inquiry, then its answer by a second query.
Read(c) ==
    /\ pc[c] = "read"
    /\ request[c].op # "reword"
    /\ Go(c, IF /\ status # "Gone"
                /\ Entitled(c)
                /\ request[c].op = "edit" => status # "CompletedAnswer"
             THEN "look" ELSE "refused")

-----------------------------------------------------------------------------
\* updateInquiry: ensureInquiryUpdatable, then an UPDATE that looks at nothing.
EditLook(c) ==
    /\ Asks(c, "edit", "look")
    /\ Go(c, IF answer = NoReply THEN "write" ELSE "refused")

EditWrite(c) ==
    /\ Asks(c, "edit", "write")
    /\ InquiryFree(c)
    /\ IF status = "Gone"
       THEN Go(c, "refused")
       ELSE /\ text' = c
            /\ Goto(c, "done")
            /\ UNCHANGED <<status, answer, notices, request, seen>>

-----------------------------------------------------------------------------
\* replyCreate: ensureReplyCreatable.
ReplyLook(c) ==
    /\ Asks(c, "reply", "look")
    /\ Go(c, IF answer = NoReply THEN "mark" ELSE "refused")

\* createReply: the status first ...
ReplyMark(c) ==
    /\ Asks(c, "reply", "mark")
    /\ InquiryFree(c)
    /\ Go(c, IF status = "Gone" THEN "refused" ELSE "insert")

\* Mutant: the reply is inserted and the status is not part of it.
ReplyInsertAlone(c) ==
    /\ Asks(c, "reply", "insert")
    /\ AnswerFree(c)
    /\ IF answer # NoReply
       THEN Go(c, "refused")
       ELSE /\ answer' = [id |-> c, text |-> c]
            /\ Goto(c, "announce")
            /\ UNCHANGED <<status, text, notices, request, seen>>

\* Mutant: inquiryId is not unique, the later reply replaces the earlier.
ReplyInsertOver(c) ==
    /\ Asks(c, "reply", "insert")
    /\ AnswerFree(c)
    /\ status' = "CompletedAnswer"
    /\ answer' = [id |-> c, text |-> c]
    /\ Goto(c, "announce")
    /\ UNCHANGED <<text, notices, request, seen>>

\* ... then the answer. inquiryId is unique: the INSERT waits for a transaction
\* that is deleting the old one, and fails when there is one.
ReplyInsert(c) ==
    /\ Asks(c, "reply", "insert")
    /\ AnswerFree(c)
    /\ IF answer # NoReply
       THEN Go(c, "refused")
       ELSE /\ status' = "CompletedAnswer"
            /\ answer' = [id |-> c, text |-> c]
            /\ Goto(c, "announce")
            /\ UNCHANGED <<text, notices, request, seen>>

\* Mutant: the asker is pushed the notice but no row is written.
AnnounceNothing(c) == Asks(c, "reply", "announce") /\ Go(c, "done")

\* The notification, a statement of its own behind the commit.
Announce(c) ==
    /\ Asks(c, "reply", "announce")
    /\ notices' = notices \union {c}
    /\ Goto(c, "done")
    /\ UNCHANGED <<status, text, answer, request, seen>>

-----------------------------------------------------------------------------
\* deleteInquiry. Of a seller it means the reply, ensureReplyDeletable.
DeleteLook(c) ==
    /\ Asks(c, "delete", "look")
    /\ Go(c, CASE By(c) \notin Sellers -> "drop"
               [] By(c) \in Sellers /\ answer # NoReply -> "remove"
               [] OTHER -> "refused")

\* deleteReplyByInquiryId: the answer first ...
Remove(c) ==
    /\ Asks(c, "delete", "remove")
    /\ AnswerFree(c)
    /\ Go(c, IF answer = NoReply THEN "refused" ELSE "unmark")

\* Mutant: the inquiry is left as it was.
UnmarkForgotten(c) ==
    /\ Asks(c, "delete", "unmark")
    /\ InquiryFree(c)
    /\ answer' = NoReply
    /\ Goto(c, "done")
    /\ UNCHANGED <<status, text, notices, request, seen>>

\* ... then the status.
Unmark(c) ==
    /\ Asks(c, "delete", "unmark")
    /\ InquiryFree(c)
    /\ status' = "WaitingAnswer"
    /\ answer' = NoReply
    /\ Goto(c, "done")
    /\ UNCHANGED <<text, notices, request, seen>>

\* deleteById: the inquiry, and by the foreign key its answer.
Drop(c) ==
    /\ Asks(c, "delete", "drop")
    /\ InquiryFree(c)
    /\ Go(c, IF status = "Gone" THEN "refused" ELSE "cascade")

Cascade(c) ==
    /\ Asks(c, "delete", "cascade")
    /\ AnswerFree(c)
    /\ status' = "Gone"
    /\ answer' = NoReply
    /\ Goto(c, "done")
    /\ UNCHANGED <<text, notices, request, seen>>

-----------------------------------------------------------------------------
\* replyUpdate: the reply is found by its id, and its seller is compared.
RewordRead(c) ==
    /\ Asks(c, "reword", "read")
    /\ Go(c, IF answer # NoReply /\ ReplyId = seen[c] /\ Entitled(c)
             THEN "write" ELSE "refused")

RewordWrite(c) ==
    /\ Asks(c, "reword", "write")
    /\ AnswerFree(c)
    /\ IF answer = NoReply \/ ReplyId # seen[c]
       THEN Go(c, "refused")
       ELSE /\ answer' = [answer EXCEPT !.text = c]
            /\ Goto(c, "done")
            /\ UNCHANGED <<status, text, notices, request, seen>>

-----------------------------------------------------------------------------
\* Places of a transaction or of a single statement, and what its end without
\* the commit leaves: nothing, or a reply nobody is told of.
InFlight == {"read", "look", "write", "mark", "insert", "remove", "unmark",
             "drop", "cascade"}
Answered == {"done", "refused", "failed", "unannounced"}

\* Mutant: the rows of a transaction that failed stay locked.
AbandonLocked(c) ==
    /\ pc[c] \in (InFlight \ {"insert", "unmark", "cascade"}) \union {"announce"}
    /\ Go(c, IF pc[c] = "announce" THEN "unannounced" ELSE "failed")

Abandon(c) ==
    /\ pc[c] \in InFlight \union {"announce"}
    /\ Go(c, IF pc[c] = "announce" THEN "unannounced" ELSE "failed")

\* A statement fails or the time limit of the transaction passes.
Fail(c) == Abandon(c)

\* The process dies: every transaction is rolled back by the database.
Crash ==
    /\ \E c \in Calls : pc[c] \in InFlight \union {"announce"}
    /\ pc' = [c \in Calls |->
                 CASE pc[c] = "announce" -> "unannounced"
                   [] pc[c] \in InFlight -> "failed"
                   [] OTHER -> pc[c]]
    /\ UNCHANGED <<rows, request, seen>>

\* c waits for a row that d holds.
WaitsFor(c, d) ==
    /\ c # d
    /\ \/ pc[c] \in {"mark", "unmark", "drop"} /\ HoldsInquiry(d)
       \/ Asks(c, "edit", "write") /\ HoldsInquiry(d)
       \/ pc[c] \in {"insert", "remove", "cascade"} /\ HoldsAnswer(d)
       \/ Asks(c, "reword", "write") /\ HoldsAnswer(d)

\* There are two rows, so a cycle of waiting transactions has two members.
AbortDeadlocked(c) ==
    /\ \E d \in Calls : WaitsFor(c, d) /\ WaitsFor(d, c)
    /\ Abandon(c)

Step(c) ==
    \/ Read(c)
    \/ EditLook(c) \/ EditWrite(c)
    \/ ReplyLook(c) \/ ReplyMark(c) \/ ReplyInsert(c) \/ Announce(c)
    \/ DeleteLook(c) \/ Remove(c) \/ Unmark(c) \/ Drop(c) \/ Cascade(c)
    \/ RewordRead(c) \/ RewordWrite(c)

Finished == (\A c \in Calls : pc[c] \in Answered) /\ UNCHANGED vars

Next ==
    \/ \E c \in Calls : Submit(c) \/ Step(c) \/ Fail(c) \/ AbortDeadlocked(c)
    \/ Crash
    \/ Finished

Spec == Init /\ [][Next]_vars

\* An accepted call runs on, and the database resolves deadlocks.
FairSpec ==
    /\ Spec
    /\ \A c \in Calls : WF_vars(Step(c))
    /\ WF_vars(\E c \in Calls : AbortDeadlocked(c))

-----------------------------------------------------------------------------
\* Types of the rows and of the calls, the status within the enum of the schema.
TypeOK ==
    /\ status \in Status \union {"Gone"}
    /\ text \in Calls \union {NoReply}
    /\ answer \in [id : Calls, text : Calls] \union {NoReply}
    /\ notices \subseteq Calls
    /\ request \in [Calls -> Requests]
    /\ pc \in [Calls -> InFlight \union Answered \union {"idle", "announce"}]
    /\ seen \in [Calls -> Calls \union {NoReply}]

\* A reader who sees CompletedAnswer finds a reply, and one who sees a reply
\* sees CompletedAnswer (createReply and deleteReplyByInquiryId each write both
\* rows, in opposite order); a deleted inquiry has none.
AnswerShown == status = "CompletedAnswer" <=> answer # NoReply

\* The replies that were given less those that were taken back are the one
\* that is there: no reply replaces another and none is taken back twice.
Given == {c \in Calls : request[c].op = "reply"
                        /\ pc[c] \in {"announce", "done", "unannounced"}}
TakenBack == {c \in Calls : Asks(c, "delete", "done") /\ By(c) \in Sellers}

RepliesCounted ==
    status # "Gone" =>
        Cardinality(Given) = Cardinality(TakenBack) + (IF answer = NoReply THEN 0 ELSE 1)

\* A row a transaction has written is there until it commits, and no other has
\* written it: nobody deletes an inquiry under the reply it is getting, or takes
\* back an answer that is being taken back.
RowsHeldOnce ==
    \A c \in Calls :
        /\ HoldsInquiry(c) => status # "Gone" /\ InquiryFree(c)
        /\ HoldsAnswer(c) => answer # NoReply /\ AnswerFree(c)

\* Every accepted call is answered, though a reply given and a reply taken back
\* lock the two rows in opposite order.
EveryCallAnswered == \A c \in Calls : pc[c] = "read" ~> pc[c] \in Answered

\* Who asked is told of the reply in the end, unless the server fails between
\* the commit of the reply and its notice.
ReplyAnnounced ==
    \A c \in Calls : ReplyId = c ~> c \in notices \/ pc[c] = "unannounced"

Desk == INSTANCE InquiryDesk WITH shown <- status, reply <- answer

\* The calls implement the desk: no committed state is between the two rows, and
\* every commit of theirs is something the desk does.
DeskSpec == Desk!Spec

=============================================================================
