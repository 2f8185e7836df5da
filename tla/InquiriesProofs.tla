-------------------------- MODULE InquiriesProofs --------------------------
(***************************************************************************)
(* Theorems about Inquiries for any users and any number of calls, failed  *)
(* statements, broken deadlocks and process deaths included. Each commit   *)
(* writes both rows; that no two commits meet is RowsHeldOnce, on which the*)
(* count of replies and the implementation of InquiryDesk rest, and        *)
(* PlacesOwned says which kind of call is at a place that writes.          *)
(***************************************************************************)
EXTENDS Inquiries, FiniteSetTheorems, TLAPS

Places == InFlight \union Answered \union {"idle", "announce"}

PlacesOwned ==
    \A c \in Calls :
        /\ pc[c] \in {"remove", "unmark"} => request[c].op = "delete" /\ By(c) \in Sellers
        /\ pc[c] \in {"drop", "cascade"} => request[c].op = "delete" /\ By(c) \notin Sellers
        /\ pc[c] \in {"mark", "insert", "announce", "unannounced"} => request[c].op = "reply"

Inv == TypeOK /\ AnswerShown /\ RowsHeldOnce /\ PlacesOwned

LEMMA InitInv == Init => Inv
<1>. SUFFICES ASSUME Init PROVE Inv
  OBVIOUS
<1>1. TypeOK
  BY InquiryAssumption DEF Init, TypeOK, Status
<1>2. AnswerShown
  BY DEF Init, AnswerShown
<1>3. RowsHeldOnce
  BY DEF Init, RowsHeldOnce, HoldsInquiry, HoldsAnswer
<1>4. PlacesOwned
  BY DEF Init, PlacesOwned
<1>. QED
  BY <1>1, <1>2, <1>3, <1>4 DEF Inv

\* A call that moves to a place where it holds a row found the row there and
\* free; then nothing is lost by moving.
LEMMA MoveInv ==
    ASSUME Inv, NEW c \in Calls, NEW place \in Places,
           UNCHANGED <<status, answer, request>>,
           text' \in Calls \union {NoReply},
           notices' \subseteq Calls,
           seen' \in [Calls -> Calls \union {NoReply}],
           pc' = [pc EXCEPT ![c] = place],
           place \in {"insert", "cascade"} => status # "Gone" /\ InquiryFree(c),
           place = "unmark" => answer # NoReply /\ AnswerFree(c),
           place \in {"remove", "unmark"} =>
               request[c].op = "delete" /\ By(c) \in Sellers,
           place \in {"drop", "cascade"} =>
               request[c].op = "delete" /\ By(c) \notin Sellers,
           place \in {"mark", "insert", "announce", "unannounced"} =>
               request[c].op = "reply"
    PROVE  Inv'
<1>0. pc \in [Calls -> Places]
  BY DEF Inv, TypeOK, Places
<1>1. TypeOK'
  BY <1>0 DEF Inv, TypeOK, Places
<1>2. AnswerShown'
  BY DEF Inv, AnswerShown
<1>3. /\ \A d \in Calls \ {c} : pc'[d] = pc[d]
      /\ pc'[c] = place
  BY <1>0
<1>4. RowsHeldOnce'
  BY <1>3 DEF Inv, RowsHeldOnce, HoldsInquiry, HoldsAnswer, InquiryFree, AnswerFree
<1>5. PlacesOwned'
  BY <1>3 DEF Inv, PlacesOwned, By
<1>. QED
  BY <1>1, <1>2, <1>4, <1>5 DEF Inv

\* A call that moves on without a write to the rows keeps what Inv says of the
\* places, given what it has found out.
LEMMA GoInv ==
    ASSUME Inv, NEW c \in Calls, NEW place \in Places, Go(c, place),
           place \in {"insert", "cascade"} => status # "Gone" /\ InquiryFree(c),
           place = "unmark" => answer # NoReply /\ AnswerFree(c),
           place \in {"remove", "unmark"} =>
               request[c].op = "delete" /\ By(c) \in Sellers,
           place \in {"drop", "cascade"} =>
               request[c].op = "delete" /\ By(c) \notin Sellers,
           place \in {"mark", "insert", "announce", "unannounced"} =>
               request[c].op = "reply"
    PROVE  Inv'
<1>1. /\ UNCHANGED <<status, answer, request>>
      /\ text' \in Calls \union {NoReply}
      /\ notices' \subseteq Calls
      /\ seen' \in [Calls -> Calls \union {NoReply}]
      /\ pc' = [pc EXCEPT ![c] = place]
  BY DEF Go, Goto, rows, Inv, TypeOK
<1>. QED
  BY <1>1, MoveInv

LEMMA SubmitInv ==
    ASSUME Inv, NEW c \in Calls, Submit(c)
    PROVE  Inv'
<1>1. PICK place \in {"read", "refused"} : pc' = [pc EXCEPT ![c] = place]
  BY DEF Submit, Goto
<1>2. ReplyId \in Calls \union {NoReply}
  BY DEF ReplyId, Inv, TypeOK
<1>3. /\ UNCHANGED <<status, answer, request>>
      /\ text' \in Calls \union {NoReply}
      /\ notices' \subseteq Calls
      /\ seen' \in [Calls -> Calls \union {NoReply}]
  BY <1>2 DEF Submit, rows, Inv, TypeOK
<1>. QED
  BY <1>1, <1>3, MoveInv DEF Places, InFlight, Answered

\* The steps that read, and decide where the call goes on.
LEMMA LookInv ==
    ASSUME Inv, NEW c \in Calls,
           Read(c) \/ EditLook(c) \/ ReplyLook(c) \/ DeleteLook(c) \/ RewordRead(c)
    PROVE  Inv'
<1>1. CASE Read(c)
  <2>1. PICK place \in {"look", "refused"} : Go(c, place)
    BY <1>1 DEF Read
  <2>. QED
    BY <2>1, GoInv DEF Places, InFlight, Answered
<1>2. CASE EditLook(c) \/ RewordRead(c)
  <2>1. PICK place \in {"write", "refused"} : Go(c, place)
    BY <1>2 DEF EditLook, RewordRead
  <2>. QED
    BY <2>1, GoInv DEF Places, InFlight, Answered
<1>3. CASE ReplyLook(c)
  <2>1. PICK place \in {"mark", "refused"} : Go(c, place)
    BY <1>3 DEF ReplyLook
  <2>2. request[c].op = "reply"
    BY <1>3 DEF ReplyLook, Asks
  <2>. QED
    BY <2>1, <2>2, GoInv DEF Places, InFlight, Answered
<1>4. CASE DeleteLook(c)
  <2>1. request[c].op = "delete"
    BY <1>4 DEF DeleteLook, Asks
  <2>2. CASE By(c) \notin Sellers
    <3>1. Go(c, "drop")
      BY <1>4, <2>2 DEF DeleteLook
    <3>. QED
      BY <2>1, <2>2, <3>1, GoInv DEF Places, InFlight, Answered
  <2>3. CASE By(c) \in Sellers
    <3>1. PICK place \in {"remove", "refused"} : Go(c, place)
      BY <1>4, <2>3 DEF DeleteLook
    <3>. QED
      BY <2>1, <2>3, <3>1, GoInv DEF Places, InFlight, Answered
  <2>. QED
    BY <2>2, <2>3
<1>. QED
  BY <1>1, <1>2, <1>3, <1>4

\* The steps that take the first row of a transaction.
LEMMA LockInv ==
    ASSUME Inv, NEW c \in Calls, ReplyMark(c) \/ Remove(c) \/ Drop(c)
    PROVE  Inv'
<1>1. CASE ReplyMark(c)
  <2>1. InquiryFree(c) /\ request[c].op = "reply"
    BY <1>1 DEF ReplyMark, Asks
  <2>2. PICK place \in {"insert", "refused"} :
           Go(c, place) /\ (place = "insert" => status # "Gone")
    BY <1>1 DEF ReplyMark
  <2>. QED
    BY <2>1, <2>2, GoInv DEF Places, InFlight, Answered
<1>2. CASE Remove(c)
  <2>1. AnswerFree(c) /\ request[c].op = "delete" /\ By(c) \in Sellers
    BY <1>2 DEF Remove, Asks, Inv, PlacesOwned
  <2>2. PICK place \in {"unmark", "refused"} :
           Go(c, place) /\ (place = "unmark" => answer # NoReply)
    BY <1>2 DEF Remove
  <2>. QED
    BY <2>1, <2>2, GoInv DEF Places, InFlight, Answered
<1>3. CASE Drop(c)
  <2>1. InquiryFree(c) /\ request[c].op = "delete" /\ By(c) \notin Sellers
    BY <1>3 DEF Drop, Asks, Inv, PlacesOwned
  <2>2. PICK place \in {"cascade", "refused"} :
           Go(c, place) /\ (place = "cascade" => status # "Gone")
    BY <1>3 DEF Drop
  <2>. QED
    BY <2>1, <2>2, GoInv DEF Places, InFlight, Answered
<1>. QED
  BY <1>1, <1>2, <1>3

\* The single statements: the question, the notice, the wording of a reply.
LEMMA StatementInv ==
    ASSUME Inv, NEW c \in Calls, EditWrite(c) \/ Announce(c) \/ RewordWrite(c)
    PROVE  Inv'
<1>0. {"refused", "done"} \subseteq Places
  BY DEF Places, Answered
<1>1. CASE Go(c, "refused")
  BY <1>0, <1>1, GoInv
<1>2. CASE EditWrite(c) /\ ~Go(c, "refused")
  <2>1. /\ UNCHANGED <<status, answer, request, notices, seen>>
        /\ text' = c
        /\ pc' = [pc EXCEPT ![c] = "done"]
    BY <1>2 DEF EditWrite, Goto
  <2>. QED
    BY <1>0, <2>1, MoveInv DEF Inv, TypeOK
<1>3. CASE Announce(c)
  <2>1. /\ UNCHANGED <<status, answer, request, text, seen>>
        /\ notices' = notices \union {c}
        /\ pc' = [pc EXCEPT ![c] = "done"]
    BY <1>3 DEF Announce, Goto
  <2>. QED
    BY <1>0, <2>1, MoveInv DEF Inv, TypeOK
<1>4. CASE RewordWrite(c) /\ ~Go(c, "refused")
  <2>1. /\ answer # NoReply
        /\ answer' = [answer EXCEPT !.text = c]
        /\ pc' = [pc EXCEPT ![c] = "done"]
        /\ UNCHANGED <<status, text, notices, request, seen>>
    BY <1>4 DEF RewordWrite, Goto
  <2>2. answer' \in [id : Calls, text : Calls] /\ answer' # NoReply
    BY <2>1, InquiryAssumption DEF Inv, TypeOK
  <2>3. pc \in [Calls -> Places]
    BY DEF Inv, TypeOK, Places
  <2>4. TypeOK'
    BY <1>0, <2>1, <2>2, <2>3 DEF Inv, TypeOK, Places
  <2>5. AnswerShown'
    BY <2>1, <2>2 DEF Inv, AnswerShown
  <2>6. (\A d \in Calls \ {c} : pc'[d] = pc[d]) /\ pc'[c] = "done"
    BY <2>1, <2>3
  <2>7. RowsHeldOnce'
    BY <2>1, <2>2, <2>6
       DEF Inv, RowsHeldOnce, HoldsInquiry, HoldsAnswer, InquiryFree, AnswerFree
  <2>8. PlacesOwned'
    BY <2>1, <2>6 DEF Inv, PlacesOwned, By
  <2>. QED
    BY <2>4, <2>5, <2>7, <2>8 DEF Inv
<1>. QED
  BY <1>1, <1>2, <1>3, <1>4

\* A transaction that writes both rows: no other holds either.
LEMMA CommitInv ==
    ASSUME Inv, NEW c \in Calls, NEW place \in {"announce", "done"},
           status' \in Status \union {"Gone"},
           answer' \in [id : Calls, text : Calls] \union {NoReply},
           status' = "CompletedAnswer" <=> answer' # NoReply,
           UNCHANGED <<text, notices, request, seen>>,
           pc' = [pc EXCEPT ![c] = place],
           place = "announce" => request[c].op = "reply",
           InquiryFree(c), AnswerFree(c)
    PROVE  Inv'
<1>0. pc \in [Calls -> Places]
  BY DEF Inv, TypeOK, Places
<1>1. TypeOK'
  BY <1>0 DEF Inv, TypeOK, Places, Answered
<1>2. AnswerShown'
  BY DEF AnswerShown
<1>3. (\A d \in Calls \ {c} : pc'[d] = pc[d]) /\ pc'[c] = place
  BY <1>0
<1>4. RowsHeldOnce'
  BY <1>3 DEF RowsHeldOnce, HoldsInquiry, HoldsAnswer, InquiryFree, AnswerFree
<1>5. PlacesOwned'
  BY <1>3 DEF Inv, PlacesOwned, By
<1>. QED
  BY <1>1, <1>2, <1>4, <1>5 DEF Inv

LEMMA WriteInv ==
    ASSUME Inv, NEW c \in Calls, ReplyInsert(c) \/ Unmark(c) \/ Cascade(c)
    PROVE  Inv'
<1>1. CASE ReplyInsert(c) /\ answer # NoReply
  BY <1>1, GoInv DEF ReplyInsert, Places, Answered
<1>2. CASE ReplyInsert(c) /\ answer = NoReply
  <2>1. /\ status' = "CompletedAnswer"
        /\ answer' = [id |-> c, text |-> c]
        /\ pc' = [pc EXCEPT ![c] = "announce"]
        /\ UNCHANGED <<text, notices, request, seen>>
        /\ request[c].op = "reply"
        /\ AnswerFree(c)
    BY <1>2 DEF ReplyInsert, Goto, Asks
  <2>2. InquiryFree(c)
    BY <1>2 DEF ReplyInsert, Asks, Inv, RowsHeldOnce, HoldsInquiry
  <2>3. answer' # NoReply
    BY <2>1, InquiryAssumption
  <2>. QED
    BY <2>1, <2>2, <2>3, CommitInv DEF Status
<1>3. CASE Unmark(c)
  <2>1. AnswerFree(c)
    BY <1>3 DEF Unmark, Asks, Inv, RowsHeldOnce, HoldsAnswer
  <2>. QED
    BY <1>3, <2>1, CommitInv DEF Unmark, Goto, Status
<1>4. CASE Cascade(c)
  <2>1. InquiryFree(c)
    BY <1>4 DEF Cascade, Asks, Inv, RowsHeldOnce, HoldsInquiry
  <2>. QED
    BY <1>4, <2>1, CommitInv DEF Cascade, Goto
<1>. QED
  BY <1>1, <1>2, <1>3, <1>4

\* A transaction that ends without its commit lets its rows go.
LEMMA AbandonInv ==
    ASSUME Inv, NEW c \in Calls, Abandon(c)
    PROVE  Inv'
<1>1. CASE pc[c] = "announce"
  <2>1. Go(c, "unannounced") /\ request[c].op = "reply"
    BY <1>1 DEF Abandon, Inv, PlacesOwned
  <2>. QED
    BY <2>1, GoInv DEF Places, Answered
<1>2. CASE pc[c] # "announce"
  BY <1>2, GoInv DEF Abandon, Places, Answered
<1>. QED
  BY <1>1, <1>2

LEMMA CrashInv == Inv /\ Crash => Inv'
<1>. SUFFICES ASSUME Inv, Crash PROVE Inv'
  OBVIOUS
<1>1. /\ UNCHANGED <<status, text, answer, notices, request, seen>>
      /\ \A c \in Calls : \/ pc'[c] \in {"unannounced"} /\ pc[c] = "announce"
                          \/ pc'[c] = "failed"
                          \/ pc'[c] = pc[c] /\ pc[c] \notin InFlight
  BY DEF Crash, rows
<1>2. TypeOK'
  BY <1>1 DEF Inv, TypeOK, Crash, Answered
<1>3. \A c \in Calls : ~HoldsInquiry(c)' /\ ~HoldsAnswer(c)'
  BY <1>1 DEF HoldsInquiry, HoldsAnswer, InFlight
<1>4. AnswerShown' /\ RowsHeldOnce'
  BY <1>1, <1>3 DEF Inv, AnswerShown, RowsHeldOnce
<1>5. PlacesOwned'
  BY <1>1 DEF Inv, PlacesOwned, By
<1>. QED
  BY <1>2, <1>4, <1>5 DEF Inv

LEMMA NextInv == Inv /\ [Next]_vars => Inv'
<1>. SUFFICES ASSUME Inv, [Next]_vars PROVE Inv'
  OBVIOUS
<1>1. CASE UNCHANGED vars
  BY <1>1 DEF vars, rows, Inv, TypeOK, AnswerShown, RowsHeldOnce, PlacesOwned,
              HoldsInquiry, HoldsAnswer, InquiryFree, AnswerFree, By
<1>2. ASSUME NEW c \in Calls, Submit(c) PROVE Inv'
  BY <1>2, SubmitInv
<1>3. ASSUME NEW c \in Calls, Step(c) PROVE Inv'
  BY <1>3, LookInv, LockInv, StatementInv, WriteInv DEF Step
<1>4. ASSUME NEW c \in Calls, Fail(c) \/ AbortDeadlocked(c) PROVE Inv'
  BY <1>4, AbandonInv DEF Fail, AbortDeadlocked
<1>5. CASE Crash
  BY <1>5, CrashInv
<1>. QED
  BY <1>1, <1>2, <1>3, <1>4, <1>5 DEF Next, Finished

LEMMA InvHolds == Spec => []Inv
<1>. QED
  BY InitInv, NextInv, PTL DEF Spec

-----------------------------------------------------------------------------
\* Every variable keeps its type, whatever calls meet on the inquiry.
THEOREM InquiriesTypeCorrect == Spec => []TypeOK
<1>1. Inv => TypeOK
  BY DEF Inv
<1>. QED
  BY <1>1, InvHolds, PTL

\* The inquiry shows as answered exactly while its reply is there: createReply
\* and deleteReplyByInquiryId commit the two rows together.
THEOREM AnswersAreShown == Spec => []AnswerShown
<1>1. Inv => AnswerShown
  BY DEF Inv
<1>. QED
  BY <1>1, InvHolds, PTL

\* What a transaction has written stays there for it until it ends.
THEOREM RowsAreHeldOnce == Spec => []RowsHeldOnce
<1>1. Inv => RowsHeldOnce
  BY DEF Inv
<1>. QED
  BY <1>1, InvHolds, PTL

-----------------------------------------------------------------------------
\* What each step does to the rows and to the calls, for the two results below:
\* it gives the reply, takes it back, or does neither.
GivesReply(c) ==
    /\ pc[c] = "insert" /\ pc' = [pc EXCEPT ![c] = "announce"]
    /\ request[c].op = "reply"
    /\ answer = NoReply /\ status = "WaitingAnswer"
    /\ answer' = [id |-> c, text |-> c] /\ status' = "CompletedAnswer"
    /\ UNCHANGED <<text, request>>

TakesReply(c) ==
    /\ pc[c] = "unmark" /\ pc' = [pc EXCEPT ![c] = "done"]
    /\ request[c].op = "delete" /\ By(c) \in Sellers
    /\ answer # NoReply /\ status = "CompletedAnswer"
    /\ answer' = NoReply /\ status' = "WaitingAnswer"
    /\ UNCHANGED <<text, request>>

Deletes(c) ==
    /\ pc[c] = "cascade" /\ pc' = [pc EXCEPT ![c] = "done"]
    /\ request[c].op = "delete" /\ By(c) \notin Sellers
    /\ status # "Gone"
    /\ answer' = NoReply /\ status' = "Gone"
    /\ UNCHANGED <<text, request>>

\* A commit gives the reply, takes it back, deletes the inquiry, or is refused.
LEMMA WriteKinds ==
    ASSUME Inv, NEW c \in Calls, ReplyInsert(c) \/ Unmark(c) \/ Cascade(c)
    PROVE  GivesReply(c) \/ TakesReply(c) \/ Deletes(c) \/ Go(c, "refused")
<1>1. CASE ReplyInsert(c) /\ answer # NoReply
  BY <1>1 DEF ReplyInsert
<1>2. CASE ReplyInsert(c) /\ answer = NoReply
  <2>1. status = "WaitingAnswer"
    BY <1>2 DEF ReplyInsert, Asks, Inv, TypeOK, Status, AnswerShown, RowsHeldOnce,
                HoldsInquiry
  <2>. QED
    BY <1>2, <2>1 DEF ReplyInsert, Asks, Goto, GivesReply
<1>3. CASE Unmark(c)
  <2>1. answer # NoReply /\ status = "CompletedAnswer"
    BY <1>3 DEF Unmark, Asks, Inv, AnswerShown, RowsHeldOnce, HoldsAnswer
  <2>2. request[c].op = "delete" /\ By(c) \in Sellers
    BY <1>3 DEF Unmark, Asks, Inv, PlacesOwned
  <2>. QED
    BY <1>3, <2>1, <2>2 DEF Unmark, Asks, Goto, TakesReply
<1>4. CASE Cascade(c)
  <2>1. status # "Gone"
    BY <1>4 DEF Cascade, Asks, Inv, RowsHeldOnce, HoldsInquiry
  <2>2. request[c].op = "delete" /\ By(c) \notin Sellers
    BY <1>4 DEF Cascade, Asks, Inv, PlacesOwned
  <2>. QED
    BY <1>4, <2>1, <2>2 DEF Cascade, Asks, Goto, Deletes
<1>. QED
  BY <1>1, <1>2, <1>3, <1>4

\* A step of the desk, or one that the desk does not see.
LEMMA DeskStep == Inv /\ [Next]_vars => [Desk!Next]_<<status, answer, text>>
<1>. SUFFICES ASSUME Inv, [Next]_vars PROVE [Desk!Next]_<<status, answer, text>>
  OBVIOUS
<1>. DEFINE Quiet == UNCHANGED <<status, answer, text>>
<1>0. \A c, place : Go(c, place) => Quiet
  BY DEF Go, rows
<1>1. CASE UNCHANGED vars
  BY <1>1 DEF vars, rows
<1>2. ASSUME NEW c \in Calls, Submit(c) PROVE Quiet
  BY <1>2 DEF Submit, rows
<1>3. ASSUME NEW c \in Calls,
             Read(c) \/ EditLook(c) \/ ReplyLook(c) \/ DeleteLook(c) \/ RewordRead(c)
      PROVE  Quiet
  BY <1>0, <1>3 DEF Read, EditLook, ReplyLook, DeleteLook, RewordRead
<1>4. ASSUME NEW c \in Calls, ReplyMark(c) \/ Remove(c) \/ Drop(c) PROVE Quiet
  BY <1>0, <1>4 DEF ReplyMark, Remove, Drop
<1>5. ASSUME NEW c \in Calls, Announce(c) PROVE Quiet
  BY <1>5 DEF Announce
<1>6. ASSUME NEW c \in Calls, EditWrite(c) PROVE Quiet \/ Desk!Edit(c)
  BY <1>0, <1>6 DEF EditWrite, Desk!Edit
<1>7. ASSUME NEW c \in Calls, RewordWrite(c) PROVE Quiet \/ Desk!Reword(c)
  <2>1. CASE Go(c, "refused")
    BY <1>0, <2>1
  <2>2. CASE ~Go(c, "refused")
    <3>1. /\ answer # NoReply
          /\ answer' = [answer EXCEPT !.text = c]
          /\ UNCHANGED <<status, text>>
      BY <1>7, <2>2 DEF RewordWrite
    <3>2. status = "CompletedAnswer"
      BY <3>1 DEF Inv, AnswerShown
    <3>. QED
      BY <3>1, <3>2 DEF Desk!Reword
  <2>. QED
    BY <2>1, <2>2
<1>8. ASSUME NEW c \in Calls, ReplyInsert(c) \/ Unmark(c) \/ Cascade(c)
      PROVE  Quiet \/ Desk!Give(c) \/ Desk!TakeBack \/ Desk!Delete
  <2>1. CASE GivesReply(c)
    BY <2>1 DEF GivesReply, Desk!Give
  <2>2. CASE TakesReply(c)
    BY <2>2 DEF TakesReply, Desk!TakeBack
  <2>3. CASE Deletes(c)
    BY <2>3 DEF Deletes, Desk!Delete
  <2>. QED
    BY <1>0, <1>8, <2>1, <2>2, <2>3, WriteKinds
<1>9. ASSUME NEW c \in Calls, Fail(c) \/ AbortDeadlocked(c) PROVE Quiet
  BY <1>0, <1>9 DEF Fail, AbortDeadlocked, Abandon
<1>10. CASE Crash
  BY <1>10 DEF Crash, rows
<1>11. ASSUME NEW c \in Calls, Step(c) PROVE [Desk!Next]_<<status, answer, text>>
  BY <1>3, <1>4, <1>5, <1>6, <1>7, <1>8, <1>11 DEF Step, Desk!Next
<1>. QED
  BY <1>1, <1>2, <1>9, <1>10, <1>11 DEF Next, Finished

\* Whatever calls race, readers see a desk that gives, rewords and takes back
\* one reply at a time and keeps a deleted inquiry deleted.
THEOREM InquiriesImplementDesk == Spec => DeskSpec
<1>1. Init => Desk!Init
  BY DEF Init, Desk!Init
<1>. QED
  BY <1>1, DeskStep, InvHolds, PTL DEF Spec, DeskSpec, Desk!Spec, Desk!desk

-----------------------------------------------------------------------------
\* A step that gives no reply and takes none: a call moves before its reply is
\* given, or after it, but not across.
Before == {"idle", "read", "look", "write", "mark", "insert", "remove", "unmark",
           "drop", "cascade", "refused", "failed"}

Moves(d) ==
    \/ pc'[d] = pc[d]
    \/ pc[d] = "announce" /\ pc'[d] \in {"done", "unannounced"}
    \/ pc[d] \in Before /\ pc'[d] \in Before
    \/ pc[d] \in Before /\ pc'[d] = "done" /\ request[d].op \in {"edit", "reword"}

Still ==
    /\ UNCHANGED <<status, request>>
    /\ answer = NoReply <=> answer' = NoReply
    /\ \A d \in Calls : Moves(d)

\* A call that is refused, waits or has announced changes neither reply nor status.
LEMMA GoStill ==
    ASSUME Inv, NEW c \in Calls, NEW place \in Places, Go(c, place),
           \/ pc[c] \in Before /\ place \in Before
           \/ pc[c] = "announce" /\ place \in {"done", "unannounced"}
    PROVE  Still
<1>1. pc' = [pc EXCEPT ![c] = place] /\ UNCHANGED <<status, answer, request>>
  BY DEF Go, Goto, rows
<1>2. (\A d \in Calls \ {c} : pc'[d] = pc[d]) /\ pc'[c] = place
  BY <1>1 DEF Inv, TypeOK
<1>. QED
  BY <1>1, <1>2 DEF Still, Moves

\* Nor does one that edits, rewords or announces: there is a reply or none as before.
LEMMA StatementStill ==
    ASSUME Inv, NEW c \in Calls, EditWrite(c) \/ Announce(c) \/ RewordWrite(c)
    PROVE  Still
<1>1. pc \in [Calls -> Places]
  BY DEF Inv, TypeOK, Places
<1>2. CASE Go(c, "refused")
  BY <1>2, GoStill DEF EditWrite, Announce, RewordWrite, Asks, Before, Places, Answered,
                       Go, Goto
<1>3. CASE EditWrite(c) /\ ~Go(c, "refused")
  BY <1>1, <1>3 DEF EditWrite, Asks, Goto, Still, Moves, Before
<1>4. CASE Announce(c)
  BY <1>1, <1>4 DEF Announce, Asks, Goto, Still, Moves, Before
<1>5. CASE RewordWrite(c) /\ ~Go(c, "refused")
  <2>1. /\ answer # NoReply
        /\ answer' = [answer EXCEPT !.text = c]
        /\ pc' = [pc EXCEPT ![c] = "done"]
        /\ UNCHANGED <<status, request>>
        /\ pc[c] = "write" /\ request[c].op = "reword"
    BY <1>5 DEF RewordWrite, Goto, Asks
  <2>2. answer' # NoReply
    BY <2>1, InquiryAssumption DEF Inv, TypeOK
  <2>3. (\A d \in Calls \ {c} : pc'[d] = pc[d]) /\ pc'[c] = "done"
    BY <1>1, <2>1
  <2>. QED
    BY <2>1, <2>2, <2>3 DEF Still, Moves, Before
<1>. QED
  BY <1>2, <1>3, <1>4, <1>5

\* Every step is one of these.
LEMMA StepKinds ==
    ASSUME Inv, [Next]_vars
    PROVE  Still \/ \E c \in Calls : GivesReply(c) \/ TakesReply(c) \/ Deletes(c)
<1>1. CASE UNCHANGED vars
  BY <1>1 DEF vars, rows, Still, Moves
<1>2. ASSUME NEW c \in Calls, Submit(c) PROVE Still
  BY <1>2 DEF Submit, Goto, rows, Still, Moves, Before, Inv, TypeOK
<1>3. ASSUME NEW c \in Calls,
             Read(c) \/ EditLook(c) \/ ReplyLook(c) \/ DeleteLook(c) \/ RewordRead(c)
      PROVE  Still
  <2>1. PICK place \in {"look", "refused", "write", "mark", "drop", "remove"} :
           Go(c, place)
    BY <1>3 DEF Read, EditLook, ReplyLook, DeleteLook, RewordRead
  <2>2. pc[c] \in {"read", "look"}
    BY <1>3 DEF Read, EditLook, ReplyLook, DeleteLook, RewordRead, Asks
  <2>. QED
    BY <2>1, <2>2, GoStill DEF Before, Places, InFlight, Answered
<1>4. ASSUME NEW c \in Calls, ReplyMark(c) \/ Remove(c) \/ Drop(c) PROVE Still
  <2>1. PICK place \in {"refused", "insert", "unmark", "cascade"} : Go(c, place)
    BY <1>4 DEF ReplyMark, Remove, Drop
  <2>2. pc[c] \in {"mark", "remove", "drop"}
    BY <1>4 DEF ReplyMark, Remove, Drop, Asks
  <2>. QED
    BY <2>1, <2>2, GoStill DEF Before, Places, InFlight, Answered
<1>5. ASSUME NEW c \in Calls, ReplyInsert(c) \/ Unmark(c) \/ Cascade(c)
      PROVE  Still \/ GivesReply(c) \/ TakesReply(c) \/ Deletes(c)
  <2>1. CASE Go(c, "refused")
    BY <1>5, <2>1, GoStill DEF ReplyInsert, Unmark, Cascade, Asks, Before, Places, Answered
  <2>. QED
    BY <1>5, <2>1, WriteKinds
<1>6. ASSUME NEW c \in Calls, Fail(c) \/ AbortDeadlocked(c) PROVE Still
  <2>1. Abandon(c)
    BY <1>6 DEF Fail, AbortDeadlocked
  <2>2. CASE pc[c] = "announce"
    BY <2>1, <2>2, GoStill DEF Abandon, Places, Answered
  <2>3. CASE pc[c] \in InFlight
    BY <2>1, <2>3, GoStill DEF Abandon, InFlight, Before, Places, Answered
  <2>. QED
    BY <2>1, <2>2, <2>3 DEF Abandon
<1>7. CASE Crash
  BY <1>7 DEF Crash, rows, Still, Moves, InFlight, Before
<1>8. ASSUME NEW c \in Calls, Step(c)
      PROVE  Still \/ GivesReply(c) \/ TakesReply(c) \/ Deletes(c)
  BY <1>3, <1>4, <1>5, <1>8, StatementStill DEF Step
<1>. QED
  BY <1>1, <1>2, <1>6, <1>7, <1>8 DEF Next, Finished

Counted ==
    /\ IsFiniteSet(Given)
    /\ IsFiniteSet(TakenBack)
    /\ RepliesCounted

LEMMA InitCounted == Init => Counted
<1>. SUFFICES ASSUME Init PROVE Counted
  OBVIOUS
<1>1. Given = {} /\ TakenBack = {}
  BY DEF Init, Given, TakenBack, Asks
<1>. QED
  BY <1>1, FS_EmptySet DEF Init, Counted, RepliesCounted

\* Each way to give or take the reply moves one count by one.
LEMMA NextCounted == Inv /\ Counted /\ [Next]_vars => Counted'
<1>. SUFFICES ASSUME Inv, Counted, [Next]_vars PROVE Counted'
  OBVIOUS
<1>0. /\ pc \in [Calls -> Places]
      /\ Cardinality(Given) \in Nat /\ Cardinality(TakenBack) \in Nat
  BY FS_CardinalityType DEF Inv, TypeOK, Places, Counted
<1>1. CASE Still
  <2>1. Given' = Given
    BY <1>1 DEF Still, Moves, Before, Given
  <2>2. TakenBack' = TakenBack
    BY <1>1, \A d \in Calls : pc[d] = "announce" => request[d].op = "reply"
       DEF Still, Moves, Before, TakenBack, Asks, By, Inv, PlacesOwned
  <2>. QED
    BY <1>1, <2>1, <2>2 DEF Still, Counted, RepliesCounted
<1>2. ASSUME NEW c \in Calls, GivesReply(c) PROVE Counted'
  <2>1. (\A d \in Calls \ {c} : pc'[d] = pc[d]) /\ pc'[c] = "announce"
    BY <1>0, <1>2 DEF GivesReply
  <2>2. Given' = Given \union {c} /\ c \notin Given
    BY <1>2, <2>1 DEF GivesReply, Given
  <2>3. TakenBack' = TakenBack
    BY <1>2, <2>1 DEF GivesReply, TakenBack, Asks, By
  <2>4. Cardinality(Given') = Cardinality(Given) + 1 /\ IsFiniteSet(Given')
    BY <2>2, FS_AddElement DEF Counted
  <2>5. answer' # NoReply
    BY <1>2, InquiryAssumption DEF GivesReply
  <2>6. Cardinality(Given) = Cardinality(TakenBack) + 0
    BY <1>2 DEF GivesReply, Counted, RepliesCounted
  <2>. QED
    BY <1>0, <2>3, <2>4, <2>5, <2>6 DEF Counted, RepliesCounted
<1>3. ASSUME NEW c \in Calls, TakesReply(c) PROVE Counted'
  <2>1. (\A d \in Calls \ {c} : pc'[d] = pc[d]) /\ pc'[c] = "done"
    BY <1>0, <1>3 DEF TakesReply
  <2>2. Given' = Given
    BY <1>3, <2>1 DEF TakesReply, Given
  <2>3. TakenBack' = TakenBack \union {c} /\ c \notin TakenBack
    BY <1>3, <2>1 DEF TakesReply, TakenBack, Asks, By
  <2>4. Cardinality(TakenBack') = Cardinality(TakenBack) + 1 /\ IsFiniteSet(TakenBack')
    BY <2>3, FS_AddElement DEF Counted
  <2>5. Cardinality(Given) = Cardinality(TakenBack) + 1
    BY <1>3 DEF TakesReply, Counted, RepliesCounted
  <2>. QED
    BY <1>0, <1>3, <2>2, <2>4, <2>5 DEF TakesReply, Counted, RepliesCounted
<1>4. ASSUME NEW c \in Calls, Deletes(c) PROVE Counted'
  <2>1. (\A d \in Calls \ {c} : pc'[d] = pc[d]) /\ pc'[c] = "done"
    BY <1>0, <1>4 DEF Deletes
  <2>2. Given' = Given /\ TakenBack' = TakenBack
    BY <1>4, <2>1 DEF Deletes, Given, TakenBack, Asks, By
  <2>. QED
    BY <1>4, <2>2 DEF Deletes, Counted, RepliesCounted
<1>. QED
  BY <1>1, <1>2, <1>3, <1>4, StepKinds

\* The replies given and those taken back account for the one that is there,
\* for any number of calls: no reply replaces another, none is lost by a failed
\* transaction and none is taken back twice.
THEOREM RepliesAreCounted == Spec => []RepliesCounted
<1>1. Counted => RepliesCounted
  BY DEF Counted
<1>. QED
  BY <1>1, InitCounted, NextCounted, InvHolds, PTL DEF Spec

=============================================================================
