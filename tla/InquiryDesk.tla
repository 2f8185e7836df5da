---------------------------- MODULE InquiryDesk ----------------------------
(***************************************************************************)
(* What the shop promises about one inquiry, without the calls that race   *)
(* for it: it has at most one reply, which is given when there is none,    *)
(* reworded, or taken back; the inquiry shows as answered exactly while the*)
(* reply is there; and when it is deleted its reply goes with it, for good.*)
(* That the question stays as it was once it is answered is not promised.  *)
(***************************************************************************)
CONSTANTS
    Calls,      \* identities of calls of the API, which replies are named by
    NoReply     \* there is no reply

VARIABLES
    shown,      \* what a reader is told: WaitingAnswer, CompletedAnswer, Gone
    reply,      \* NoReply, or who gave it and who worded it last
    text        \* who worded the question last

desk == <<shown, reply, text>>

Init ==
    /\ shown = "WaitingAnswer"
    /\ reply = NoReply
    /\ text = NoReply

Give(c) ==
    /\ shown = "WaitingAnswer"
    /\ reply = NoReply
    /\ shown' = "CompletedAnswer"
    /\ reply' = [id |-> c, text |-> c]
    /\ UNCHANGED text

Reword(c) ==
    /\ shown = "CompletedAnswer"
    /\ reply # NoReply
    /\ reply' = [reply EXCEPT !.text = c]
    /\ UNCHANGED <<shown, text>>

TakeBack ==
    /\ shown = "CompletedAnswer"
    /\ reply # NoReply
    /\ shown' = "WaitingAnswer"
    /\ reply' = NoReply
    /\ UNCHANGED text

Edit(c) ==
    /\ shown # "Gone"
    /\ text' = c
    /\ UNCHANGED <<shown, reply>>

Delete ==
    /\ shown # "Gone"
    /\ shown' = "Gone"
    /\ reply' = NoReply
    /\ UNCHANGED text

Next == TakeBack \/ Delete \/ \E c \in Calls : Give(c) \/ Reword(c) \/ Edit(c)

Spec == Init /\ [][Next]_desk

=============================================================================
