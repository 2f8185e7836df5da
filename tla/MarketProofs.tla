---------------------------- MODULE MarketProofs ----------------------------
(***************************************************************************)
(* Theorems about Market for any sizes, forms and number of calls, deaths  *)
(* of the process and broken deadlocks included. The inductive invariant   *)
(* says who holds which row, that a row that is held stays on sale, that no*)
(* size has two rows, and that a call has rows only when it is done. From  *)
(* it the forms that race are saved as wholes, and Shelf is implemented.   *)
(***************************************************************************)
EXTENDS Market, TLAPS

Places == InFlight \union Answered \union {"idle", "announce"}

LEMMA PlaceNames ==
    /\ {"read", "pin", "clear", "write", "take", "item", "drop", "cascade", "insert"}
           \subseteq Places
    /\ {"done", "refused", "failed", "unannounced", "announce"} \subseteq Places
BY DEF Places, InFlight, Answered

LocksExclude ==
    \A c \in Calls :
        /\ \A r \in Rows : Holds(c, r) => OnSale(r) /\ Free(c, r)
        /\ HoldsProduct(c) => there /\ ProductFree(c)

SizesOnce ==
    /\ \A r, q \in Rows : OnSale(r) /\ OnSale(q) /\ r[2] = q[2] => r = q
    /\ \A r \in Rows : OnSale(r) => there

DoneFirst ==
    /\ \A r \in Rows : OnSale(r) /\ r[1] \in Calls => pc[r[1]] = "done"
    /\ \A c \in ordered : pc[c] = "done"

\* What an order pins is the one row of the size it lists.
OnePinned(c) == \E r \in Rows : pinned[c] = {r} /\ Listed(request[c].form) = {r[2]}

TakesOne ==
    \A c \in Calls :
        request[c].op = "take" /\ pc[c] \in {"take", "item"} => OnePinned(c)

Asked == \A c \in Calls : request[c] \in Requests[c]

Inv ==
    /\ TypeOK /\ Asked
    /\ LocksExclude /\ SizesOnce /\ DoneFirst /\ TakesOne
    /\ ProductAsSaved

\* A stock row is named by the edit that made it and its size.
LEMMA RowParts ==
    \A r \in Rows :
        /\ r = <<r[1], r[2]>>
        /\ r[1] \in Calls \union {First}
        /\ r[2] \in Sizes
BY DEF Rows

LEMMA RowMade == \A c \in Calls \union {First} : \A s \in Sizes : <<c, s>> \in Rows
BY DEF Rows

LEMMA InitInv == Init => Inv
<1>. SUFFICES ASSUME Init PROVE Inv
  OBVIOUS
<1>. USE MarketAssumption
<1>1. Asked
  BY DEF Init, Asked
<1>2. request \in [Calls -> RequestType]
  BY DEF Init
<1>3. \A r \in Rows : OnSale(r) <=> r[1] = First /\ FirstForm[r[2]] # NoRow
  BY DEF Init, OnSale
<1>4. TypeOK
  <2>1. left \in [Rows -> Int \union {NoRow}]
    BY RowParts DEF Init
  <2>2. isSoldOut \in BOOLEAN
    BY DEF Init, SoldOut
  <2>. QED
    BY <1>2, <2>1, <2>2 DEF Init, TypeOK
<1>5. LocksExclude /\ TakesOne
  BY DEF Init, LocksExclude, TakesOne, Holds, HoldsProduct
<1>6. SizesOnce
  BY <1>3, RowParts DEF Init, SizesOnce
<1>7. DoneFirst
  BY <1>3 DEF Init, DoneFirst
<1>8. ProductAsSaved
  <2>1. SavedForm = FirstForm /\ saved = First
    BY DEF Init, SavedForm
  <2>2. ASSUME NEW s \in Listed(FirstForm)
        PROVE  RowsOf(s) = {<<First, s>>}
    <3>1. s \in Sizes /\ FirstForm[s] # NoRow
      BY DEF Listed
    <3>2. <<First, s>> \in Rows /\ OnSale(<<First, s>>)
      BY <1>3, <3>1, RowMade
    <3>. QED
      BY <1>3, <3>1, <3>2, RowParts DEF RowsOf
  <2>. QED
    BY <2>1, <2>2 DEF ProductAsSaved
<1>. QED
  BY <1>1, <1>4, <1>5, <1>6, <1>7, <1>8 DEF Inv

\* A call moves and the rows of the product stay as they are. What it comes to
\* hold was there and free.
LEMMA MoveInv ==
    ASSUME Inv, NEW c \in Calls, NEW place \in Places, NEW some \in SUBSET Rows,
           UNCHANGED <<there, saved, isSoldOut, left, ordered, request>>,
           asked' \subseteq Calls, notices' \subseteq Calls,
           pinned' = [pinned EXCEPT ![c] = some],
           pc' = [pc EXCEPT ![c] = place],
           pc[c] # "done",
           place \in {"write", "item"} => \A r \in some : OnSale(r) /\ Free(c, r),
           place = "cascade" => there /\ ProductFree(c),
           request[c].op = "take" /\ place \in {"take", "item"} =>
               \E r \in Rows : some = {r} /\ Listed(request[c].form) = {r[2]}
    PROVE  Inv'
<1>0. pc \in [Calls -> Places] /\ pinned \in [Calls -> SUBSET Rows]
  BY DEF Inv, TypeOK, Places
<1>1. /\ \A d \in Calls \ {c} : pc'[d] = pc[d] /\ pinned'[d] = pinned[d]
      /\ pc'[c] = place /\ pinned'[c] = some
  BY <1>0
<1>2. TypeOK' /\ Asked'
  BY <1>0 DEF Inv, TypeOK, Places, Asked
<1>3. LocksExclude'
  BY <1>1 DEF Inv, LocksExclude, Holds, HoldsProduct, Free, ProductFree, OnSale
<1>4. SizesOnce'
  BY DEF Inv, SizesOnce, OnSale
<1>5. DoneFirst'
  BY <1>1 DEF Inv, DoneFirst, OnSale, TypeOK
<1>6. TakesOne'
  BY <1>1 DEF Inv, TakesOne, OnePinned
<1>7. ProductAsSaved'
  BY DEF Inv, ProductAsSaved, SavedForm, RowsOf, OnSale
<1>. QED
  BY <1>2, <1>3, <1>4, <1>5, <1>6, <1>7 DEF Inv

\* A call that moves on with what it has pinned keeps the invariant.
LEMMA GoInv ==
    ASSUME Inv, NEW c \in Calls, NEW place \in Places, Go(c, place),
           pc[c] # "done",
           place \in {"write", "item"} => \A r \in pinned[c] : OnSale(r) /\ Free(c, r),
           place = "cascade" => there /\ ProductFree(c),
           request[c].op = "take" /\ place \in {"take", "item"} => OnePinned(c)
    PROVE  Inv'
<1>1. /\ UNCHANGED <<there, saved, isSoldOut, left, ordered, request>>
      /\ asked' \subseteq Calls /\ notices' \subseteq Calls
      /\ pc' = [pc EXCEPT ![c] = place]
      /\ pinned' = [pinned EXCEPT ![c] = pinned[c]]
      /\ pinned[c] \in SUBSET Rows
  BY DEF Go, Goto, rows, Inv, TypeOK
<1>. QED
  BY <1>1, MoveInv DEF OnePinned

\* The steps that read, refuse, end a call without a commit or announce.
LEMMA PlainInv ==
    ASSUME Inv, NEW c \in Calls,
           Submit(c) \/ Read(c) \/ RemoveRefused(c) \/ Abandon(c)
    PROVE  Inv'
<1>1. PICK place \in {"read", "refused", "pin", "drop", "insert", "failed",
                      "unannounced"} : Go(c, place)
  <2>1. CASE Submit(c)
    BY <2>1 DEF Submit
  <2>2. CASE Read(c)
    <3>1. request[c].op \in {"edit", "take", "remove", "ask"}
      BY DEF Inv, TypeOK, RequestType
    <3>. QED
      BY <2>2, <3>1 DEF Read
  <2>3. CASE RemoveRefused(c)
    BY <2>3 DEF RemoveRefused, Refuse
  <2>4. CASE Abandon(c)
    BY <2>4 DEF Abandon
  <2>. QED
    BY <2>1, <2>2, <2>3, <2>4
<1>2. pc[c] # "done"
  BY DEF Submit, Read, RemoveRefused, Abandon, Asks, InFlight
<1>. QED
  BY <1>1, <1>2, PlaceNames, GoInv

\* The steps that pin rows or take them.
LEMMA PinInv ==
    ASSUME Inv, NEW c \in Calls, NEW place \in Places, NEW some \in SUBSET Rows,
           Pin(c, some, place),
           pc[c] # "done",
           place \in {"write", "item"} => \A r \in some : OnSale(r) /\ Free(c, r),
           place # "cascade",
           request[c].op = "take" /\ place \in {"take", "item"} =>
               \E r \in Rows : some = {r} /\ Listed(request[c].form) = {r[2]}
    PROVE  Inv'
<1>1. /\ UNCHANGED <<there, saved, isSoldOut, left, ordered, request>>
      /\ asked' \subseteq Calls /\ notices' \subseteq Calls
      /\ pc' = [pc EXCEPT ![c] = place]
      /\ pinned' = [pinned EXCEPT ![c] = some]
  BY DEF Pin, Goto, rows, Inv, TypeOK
<1>. QED
  BY <1>1, MoveInv

\* Steps that look for rows, wait for them and lock them.
LEMMA LockInv ==
    ASSUME Inv, NEW c \in Calls,
           EditPin(c) \/ EditClear(c) \/ TakePin(c) \/ TakeTake(c) \/ RemoveDrop(c)
    PROVE  Inv'
<1>1. CASE EditPin(c)
  <2>1. Pin(c, {r \in Rows : OnSale(r)}, "clear") /\ pc[c] # "done"
    BY <1>1 DEF EditPin, Asks
  <2>. QED
    BY <2>1, PinInv, PlaceNames
<1>2. CASE EditClear(c)
  <2>1. /\ Pin(c, {r \in pinned[c] : OnSale(r)}, "write")
        /\ \A r \in pinned[c] : Free(c, r)
        /\ pc[c] # "done"
    BY <1>2 DEF EditClear, Asks
  <2>2. pinned[c] \subseteq Rows
    BY DEF Inv, TypeOK
  <2>. QED
    BY <2>1, <2>2, PinInv, PlaceNames
<1>3. CASE TakePin(c)
  <2>. DEFINE some == {r \in Rows : OnSale(r) /\ r[2] \in Listed(request[c].form)}
  <2>0. pc[c] # "done" /\ request[c].op = "take"
    BY <1>3 DEF TakePin, Asks
  <2>1. CASE some = {}
    BY <1>3, <2>0, <2>1, GoInv, PlaceNames DEF TakePin, Refuse
  <2>2. CASE some # {}
    <3>1. PICK s \in Sizes : Listed(request[c].form) = {s}
      BY <2>0, MarketAssumption DEF Inv, Asked
    <3>2. PICK r \in Rows : r \in some
      BY <2>2
    <3>3. some = {r} /\ r[2] = s
      BY <3>1, <3>2 DEF Inv, SizesOnce
    <3>4. Pin(c, some, "take")
      BY <1>3, <2>2 DEF TakePin
    <3>. QED
      BY <2>0, <3>1, <3>3, <3>4, PinInv, PlaceNames
  <2>. QED
    BY <2>1, <2>2
<1>4. CASE TakeTake(c)
  <2>1. /\ pc[c] = "take" /\ request[c].op = "take"
        /\ \A r \in pinned[c] : Free(c, r)
    BY <1>4 DEF TakeTake, Asks
  <2>2. OnePinned(c)
    BY <2>1 DEF Inv, TakesOne
  <2>3. Go(c, "refused") \/ (Go(c, "item") /\ \A r \in pinned[c] : OnSale(r))
    BY <1>4 DEF TakeTake
  <2>. QED
    BY <2>1, <2>2, <2>3, GoInv, PlaceNames
<1>5. CASE RemoveDrop(c)
  <2>1. pc[c] # "done" /\ ProductFree(c)
    BY <1>5 DEF RemoveDrop, Asks
  <2>2. Go(c, "refused") \/ (Go(c, "cascade") /\ there)
    BY <1>5 DEF RemoveDrop
  <2>. QED
    BY <2>1, <2>2, GoInv, PlaceNames
<1>. QED
  BY <1>1, <1>2, <1>3, <1>4, <1>5

\* An inquiry about the product holds it and leaves its rows alone.
LEMMA InquiryInv ==
    ASSUME Inv, NEW c \in Calls, AskInsert(c) \/ Announce(c)
    PROVE  Inv'
<1>0. pc[c] # "done"
  BY DEF AskInsert, Announce, Asks
<1>1. CASE Go(c, "refused")
  BY <1>0, <1>1, GoInv, PlaceNames
<1>2. CASE ~Go(c, "refused")
  <2>1. PICK place \in {"announce", "done"} :
           /\ UNCHANGED <<there, saved, isSoldOut, left, ordered, request>>
           /\ asked' \subseteq Calls /\ notices' \subseteq Calls
           /\ pc' = [pc EXCEPT ![c] = place]
           /\ pinned' = pinned
    BY <1>2 DEF AskInsert, Announce, Refuse, Goto, Inv, TypeOK
  <2>2. pinned' = [pinned EXCEPT ![c] = pinned[c]] /\ pinned[c] \in SUBSET Rows
    BY <2>1 DEF Inv, TypeOK
  <2>. QED
    BY <1>0, <2>1, <2>2, MoveInv, PlaceNames
<1>. QED
  BY <1>1, <1>2

LEMMA CrashInv ==
    ASSUME Inv, Crash
    PROVE  Inv'
<1>1. /\ UNCHANGED <<rows, request, pinned>>
      /\ pc' \in [Calls -> Places]
      /\ \A c \in Calls : pc'[c] = pc[c] \/ (pc'[c] \in {"failed", "unannounced"} /\ pc[c] # "done")
      /\ \A c \in Calls : pc'[c] \notin InFlight
  BY DEF Crash, Inv, TypeOK, Places, InFlight, Answered
<1>2. TypeOK' /\ Asked'
  BY <1>1 DEF Inv, TypeOK, Places, Asked, rows
<1>3. LocksExclude' /\ TakesOne'
  BY <1>1 DEF LocksExclude, TakesOne, Holds, HoldsProduct, InFlight
<1>4. SizesOnce' /\ DoneFirst'
  BY <1>1 DEF Inv, SizesOnce, DoneFirst, OnSale, rows, TypeOK
<1>5. ProductAsSaved'
  BY <1>1 DEF Inv, ProductAsSaved, SavedForm, RowsOf, OnSale, rows
<1>. QED
  BY <1>2, <1>3, <1>4, <1>5 DEF Inv

\* After a save the sizes of the form have the rows of the call that saved, and
\* other rows stand only for sizes that the form does not list.
LEMMA SavedRows ==
    ASSUME Inv, NEW c \in Calls, Asks(c, "edit", "write"), ~Clashes(c), Save(c)
    PROVE  \A r \in Rows :
               /\ r[1] = c => ~OnSale(r)
               /\ OnSale(r)' <=>
                     \/ r[1] = c /\ r[2] \in Listed(request[c].form)
                     \/ r[1] # c /\ OnSale(r) /\ r \notin pinned[c]
                        /\ r[2] \notin Listed(request[c].form)
<1>. SUFFICES ASSUME NEW r \in Rows
              PROVE  /\ r[1] = c => ~OnSale(r)
                     /\ OnSale(r)' <=>
                           \/ r[1] = c /\ r[2] \in Listed(request[c].form)
                           \/ r[1] # c /\ OnSale(r) /\ r \notin pinned[c]
                              /\ r[2] \notin Listed(request[c].form)
  OBVIOUS
<1>1. r[1] = c => ~OnSale(r)
  BY DEF Inv, DoneFirst, Asks
<1>2. left'[r] = IF r[1] = c THEN request[c].form[r[2]]
                 ELSE IF r \in pinned[c] THEN NoRow ELSE left[r]
  BY DEF Save, Restocked
<1>3. OnSale(r) /\ r \notin pinned[c] => r[2] \notin Listed(request[c].form)
  BY DEF Clashes
<1>. QED
  BY <1>1, <1>2, <1>3, RowParts DEF OnSale, Listed

LEMMA SaveInv ==
    ASSUME Inv, NEW c \in Calls, EditWrite(c)
    PROVE  Inv'
<1>0. Asks(c, "edit", "write") /\ pc[c] = "write"
  BY DEF EditWrite, Asks
<1>1. CASE Refuse(c)
  BY <1>0, <1>1, GoInv, PlaceNames DEF Refuse
<1>2. CASE ~Refuse(c)
  <2>1. there /\ ~Clashes(c) /\ Save(c)
    BY <1>2 DEF EditWrite
  <2>2. /\ saved' = c /\ left' = Restocked(c)
        /\ isSoldOut' = SoldOut(request[c].form)
        /\ pc' = [pc EXCEPT ![c] = "done"]
        /\ UNCHANGED <<there, ordered, asked, notices, request, pinned>>
    BY <2>1 DEF Save, Goto
  <2>3. \A r \in Rows :
            /\ r[1] = c => ~OnSale(r)
            /\ OnSale(r)' <=>
                  \/ r[1] = c /\ r[2] \in Listed(request[c].form)
                  \/ r[1] # c /\ OnSale(r) /\ r \notin pinned[c]
                     /\ r[2] \notin Listed(request[c].form)
    BY <1>0, <2>1, SavedRows
  <2>4. pc'[c] = "done" /\ \A d \in Calls \ {c} : pc'[d] = pc[d]
    BY <2>2 DEF Inv, TypeOK
  <2>5. TypeOK' /\ Asked'
    <3>1. request[c].form \in [Sizes -> Nat \union {NoRow}]
      BY MarketAssumption DEF Inv, TypeOK, RequestType
    <3>2. left' \in [Rows -> Int \union {NoRow}]
      BY <2>2, <3>1, RowParts DEF Restocked, Inv, TypeOK
    <3>3. isSoldOut' \in BOOLEAN
      BY <2>2 DEF SoldOut
    <3>. QED
      BY <2>2, <3>2, <3>3, PlaceNames DEF Inv, TypeOK, Asked, Places
  <2>6. LocksExclude'
    <3>1. ASSUME NEW d \in Calls, NEW r \in Rows, Holds(d, r)'
          PROVE  OnSale(r)' /\ Free(d, r)'
      <4>1. d # c /\ Holds(d, r)
        BY <2>2, <2>4, <3>1 DEF Holds
      <4>2. OnSale(r) /\ Free(d, r)
        BY <4>1 DEF Inv, LocksExclude
      <4>3. r \notin pinned[c]
        BY <1>0, <4>1, <4>2 DEF Free, Holds
      <4>4. r[1] # c
        BY <2>3, <4>2
      <4>5. OnSale(r)'
        BY <2>2, <4>2, <4>3, <4>4 DEF OnSale, Restocked
      <4>. QED
        BY <2>2, <2>4, <4>2, <4>5 DEF Free, Holds
    <3>2. \A d \in Calls : HoldsProduct(d)' => there' /\ ProductFree(d)'
      BY <2>2, <2>4 DEF Inv, LocksExclude, HoldsProduct, ProductFree
    <3>. QED
      BY <3>1, <3>2 DEF LocksExclude
  <2>7. SizesOnce'
    <3>1. ASSUME NEW r \in Rows, NEW q \in Rows, OnSale(r)', OnSale(q)', r[2] = q[2]
          PROVE  r = q
      BY <2>3, <3>1, RowParts DEF Inv, SizesOnce
    <3>. QED
      BY <2>1, <2>2, <3>1 DEF SizesOnce
  <2>8. DoneFirst'
    BY <2>2, <2>3, <2>4 DEF Inv, DoneFirst, TypeOK
  <2>9. TakesOne'
    BY <2>2, <2>4 DEF Inv, TakesOne, OnePinned
  <2>10. ProductAsSaved'
    <3>1. SavedForm' = request[c].form
      BY <2>2, MarketAssumption DEF SavedForm
    <3>2. ASSUME NEW s \in Listed(request[c].form)
          PROVE  RowsOf(s)' = {<<c, s>>}
      <4>1. s \in Sizes
        BY DEF Listed
      <4>2. <<c, s>> \in Rows /\ OnSale(<<c, s>>)'
        BY <2>3, <4>1, RowMade
      <4>3. \A r \in Rows : r[2] = s /\ OnSale(r)' => r = <<c, s>>
        BY <2>3, RowParts
      <4>. QED
        BY <4>2, <4>3 DEF RowsOf
    <3>. QED
      BY <2>2, <3>1, <3>2 DEF ProductAsSaved, Listed
  <2>. QED
    BY <2>5, <2>6, <2>7, <2>8, <2>9, <2>10 DEF Inv
<1>. QED
  BY <1>1, <1>2

\* What an order takes is of the one row of its size, which stays on sale.
LEMMA TakenRow ==
    ASSUME Inv, NEW c \in Calls, TakeItem(c)
    PROVE  \E r \in Rows :
               /\ Listed(request[c].form) = {r[2]}
               /\ left[r] \in Int /\ request[c].form[r[2]] \in Nat
               /\ OnSale(r)
               /\ left' = [left EXCEPT ![r] = @ - request[c].form[r[2]]]
<1>1. PICK r \in Rows : pinned[c] = {r} /\ Listed(request[c].form) = {r[2]}
  BY DEF TakeItem, Asks, Inv, TakesOne, OnePinned
<1>2. OnSale(r)
  BY <1>1 DEF TakeItem, Asks, Inv, LocksExclude, Holds
<1>3. left[r] \in Int
  BY <1>2 DEF Inv, TypeOK, OnSale
<1>4. request[c].form[r[2]] \in Nat
  BY <1>1, MarketAssumption, RowParts DEF Inv, TypeOK, RequestType, Listed
<1>5. left' = [left EXCEPT ![r] = @ - request[c].form[r[2]]]
  BY <1>1 DEF TakeItem, Inv, TypeOK
<1>. QED
  BY <1>1, <1>2, <1>3, <1>4, <1>5

LEMMA TakeInv ==
    ASSUME Inv, NEW c \in Calls, TakeItem(c)
    PROVE  Inv'
<1>1. PICK r \in Rows :
          /\ left[r] \in Int /\ request[c].form[r[2]] \in Nat
          /\ OnSale(r)
          /\ left' = [left EXCEPT ![r] = @ - request[c].form[r[2]]]
  BY TakenRow
<1>2. left' \in [Rows -> Int \union {NoRow}]
  BY <1>1 DEF Inv, TypeOK
<1>3. \A q \in Rows : OnSale(q)' <=> OnSale(q)
  BY <1>1, MarketAssumption DEF OnSale, Inv, TypeOK
<1>4. /\ UNCHANGED <<there, saved, isSoldOut, asked, notices, request, pinned>>
      /\ ordered' = ordered \union {c}
      /\ pc' = [pc EXCEPT ![c] = "done"]
      /\ pc[c] = "item"
  BY DEF TakeItem, Goto, Asks
<1>5. pc'[c] = "done" /\ \A d \in Calls \ {c} : pc'[d] = pc[d]
  BY <1>4 DEF Inv, TypeOK
<1>6. TypeOK' /\ Asked'
  BY <1>2, <1>4, PlaceNames DEF Inv, TypeOK, Asked, Places
<1>7. LocksExclude'
  BY <1>3, <1>4, <1>5 DEF Inv, LocksExclude, Holds, HoldsProduct, Free, ProductFree
<1>8. SizesOnce'
  BY <1>3, <1>4 DEF Inv, SizesOnce
<1>9. DoneFirst'
  BY <1>3, <1>4, <1>5 DEF Inv, DoneFirst, TypeOK
<1>10. TakesOne'
  BY <1>4, <1>5 DEF Inv, TakesOne, OnePinned
<1>11. ProductAsSaved'
  <2>1. SavedForm' = SavedForm
    BY <1>4 DEF SavedForm
  <2>2. \A s : RowsOf(s)' = RowsOf(s)
    BY <1>3 DEF RowsOf
  <2>. QED
    BY <1>4, <2>1, <2>2 DEF Inv, ProductAsSaved
<1>. QED
  BY <1>6, <1>7, <1>8, <1>9, <1>10, <1>11 DEF Inv

LEMMA CascadeInv ==
    ASSUME Inv, NEW c \in Calls, RemoveCascade(c)
    PROVE  Inv'
<1>1. /\ there' = FALSE
      /\ left' = [r \in Rows |-> NoRow]
      /\ asked' = {}
      /\ pc' = [pc EXCEPT ![c] = "done"]
      /\ UNCHANGED <<saved, isSoldOut, ordered, notices, request, pinned>>
      /\ pc[c] = "cascade"
      /\ \A r \in Rows : Free(c, r)
  BY DEF RemoveCascade, Goto, Asks
<1>2. pc'[c] = "done" /\ \A d \in Calls \ {c} : pc'[d] = pc[d]
  BY <1>1 DEF Inv, TypeOK
<1>3. \A r \in Rows : ~OnSale(r)'
  BY <1>1 DEF OnSale
<1>4. TypeOK' /\ Asked'
  BY <1>1, PlaceNames DEF Inv, TypeOK, Asked, Places
<1>5. LocksExclude'
  <2>1. \A d \in Calls : \A r \in Rows : ~Holds(d, r)'
    BY <1>1, <1>2 DEF Holds, Free
  <2>2. \A d \in Calls : ~HoldsProduct(d)'
    BY <1>1, <1>2 DEF Inv, LocksExclude, HoldsProduct, ProductFree
  <2>. QED
    BY <2>1, <2>2 DEF LocksExclude
<1>6. SizesOnce' /\ DoneFirst' /\ ProductAsSaved'
  BY <1>1, <1>2, <1>3 DEF Inv, SizesOnce, DoneFirst, ProductAsSaved, TypeOK
<1>7. TakesOne'
  BY <1>1, <1>2 DEF Inv, TakesOne, OnePinned
<1>. QED
  BY <1>4, <1>5, <1>6, <1>7 DEF Inv

LEMMA StutterInv == Inv /\ UNCHANGED vars => Inv'
BY DEF Inv, TypeOK, Asked, LocksExclude, SizesOnce, DoneFirst, TakesOne, OnePinned,
       ProductAsSaved, SavedForm, RowsOf, OnSale, Holds, HoldsProduct, Free,
       ProductFree, Listed, vars, rows

LEMMA NextInv == Inv /\ [Next]_vars => Inv'
<1>. SUFFICES ASSUME Inv, Next PROVE Inv'
  BY StutterInv
<1>1. ASSUME NEW c \in Calls,
             Submit(c) \/ Step(c) \/ Fail(c) \/ AbortDeadlocked(c)
      PROVE  Inv'
  BY <1>1, PlainInv, LockInv, SaveInv, TakeInv, CascadeInv, InquiryInv
     DEF Step, Fail, AbortDeadlocked
<1>. QED
  BY <1>1, CrashInv, StutterInv DEF Next, Finished

\* Every variable of Market keeps its type, for any sizes, forms and calls.
THEOREM MarketTypeCorrect == Spec => []TypeOK
<1>1. Inv => TypeOK
  BY DEF Inv
<1>. QED
  BY <1>1, InitInv, NextInv, PTL DEF Spec

\* The form that was saved last is on sale as a whole, one row for each size,
\* for any number of edits, orders and deletions that race, fail and deadlock.
THEOREM ProductsAreAsSaved == Spec => []ProductAsSaved
<1>1. Inv => ProductAsSaved
  BY DEF Inv
<1>. QED
  BY <1>1, InitInv, NextInv, PTL DEF Spec

-----------------------------------------------------------------------------
\* What the shelf shows of a size, of any quantities of the rows.
Value(f, s) ==
    LET some == {r \in Rows : r[2] = s /\ f[r] # NoRow}
    IN  IF some = {} THEN NoRow ELSE f[CHOOSE r \in some : TRUE]

OnShelf == [s \in Sizes |->
               IF RowsOf(s) = {} THEN NoRow ELSE left[CHOOSE r \in RowsOf(s) : TRUE]]

\* What a size has is what its only row has.
LEMMA ValueOfRow ==
    ASSUME NEW f, NEW r \in Rows, f[r] # NoRow,
           \A q \in Rows : q[2] = r[2] /\ f[q] # NoRow => q = r
    PROVE  Value(f, r[2]) = f[r]
<1>1. {q \in Rows : q[2] = r[2] /\ f[q] # NoRow} = {r}
  OBVIOUS
<1>2. (CHOOSE q \in {r} : TRUE) = r
  OBVIOUS
<1>. QED
  BY <1>1, <1>2 DEF Value

LEMMA ValueOfNone ==
    ASSUME NEW f, NEW s, \A r \in Rows : r[2] = s => f[r] = NoRow
    PROVE  Value(f, s) = NoRow
BY DEF Value

LEMMA ShelfValues ==
    /\ OnShelf = [s \in Sizes |-> Value(left, s)]
    /\ OnShelf' = [s \in Sizes |-> Value(left', s)]
BY DEF OnShelf, Value, RowsOf, OnSale

\* What is on the shelf of a size is what its row has.
LEMMA ShelfOfRow ==
    ASSUME SizesOnce, NEW r \in Rows, OnSale(r)
    PROVE  OnShelf[r[2]] = left[r]
<1>1. Value(left, r[2]) = left[r]
  BY ValueOfRow DEF SizesOnce, OnSale
<1>. QED
  BY <1>1, ShelfValues, RowParts

LEMMA ShelfOfRowNext ==
    ASSUME SizesOnce', NEW r \in Rows, OnSale(r)'
    PROVE  OnShelf'[r[2]] = left'[r]
<1>1. Value(left', r[2]) = left'[r]
  BY ValueOfRow DEF SizesOnce, OnSale
<1>. QED
  BY <1>1, ShelfValues, RowParts

LEMMA SoldOutSame ==
    ASSUME NEW form
    PROVE  SoldOut(form) = Stock!SoldOut(form)
BY DEF SoldOut, Listed, Stock!SoldOut

LEMMA InitShelf == Init => Stock!Init
<1>. SUFFICES ASSUME Init PROVE Stock!Init
  OBVIOUS
<1>1. OnShelf = FirstForm
  <2>1. SizesOnce
    BY InitInv DEF Inv
  <2>2. \A r \in Rows : left[r] = IF r[1] = First THEN FirstForm[r[2]] ELSE NoRow
    BY DEF Init
  <2>3. ASSUME NEW s \in Sizes
        PROVE  Value(left, s) = FirstForm[s]
    <3>1. CASE FirstForm[s] = NoRow
      BY <2>2, <3>1, ValueOfNone
    <3>2. CASE FirstForm[s] # NoRow
      <4>1. <<First, s>> \in Rows /\ left[<<First, s>>] = FirstForm[s]
        BY <2>2, RowMade
      <4>2. OnShelf[<<First, s>>[2]] = left[<<First, s>>]
        BY <2>1, <3>2, <4>1, ShelfOfRow DEF OnSale
      <4>. QED
        BY <4>1, <4>2, ShelfValues
    <3>. QED
      BY <3>1, <3>2
  <2>. QED
    BY <2>3, ShelfValues, MarketAssumption
<1>2. isSoldOut = Stock!SoldOut(FirstForm)
  BY SoldOutSame DEF Init
<1>. QED
  BY <1>1, <1>2, MarketAssumption DEF Init, Stock!Init, OnShelf

\* Steps that leave the rows alone leave the shelf alone.
LEMMA SameShelf ==
    ASSUME UNCHANGED <<there, isSoldOut, left, ordered>>
    PROVE  UNCHANGED Stock!vars
BY DEF Stock!vars, RowsOf, OnSale

\* A save writes every size of its form and leaves no other.
LEMMA SaveShelf ==
    ASSUME Inv, Inv', NEW c \in Calls, EditWrite(c), ~Refuse(c)
    PROVE  Stock!Next
<1>. DEFINE form == request[c].form
            kept == {s \in Sizes : OnShelf'[s] = OnShelf[s]}
<1>1. Asks(c, "edit", "write") /\ there /\ ~Clashes(c) /\ Save(c)
  BY DEF EditWrite
<1>2. /\ left' = Restocked(c)
      /\ isSoldOut' = SoldOut(form)
      /\ UNCHANGED <<there, ordered>>
      /\ form \in Forms
  BY <1>1 DEF Save, Inv, TypeOK, RequestType
<1>3. ASSUME NEW s \in Sizes
      PROVE  OnShelf'[s] = IF form[s] # NoRow THEN form[s]
                           ELSE IF s \in kept THEN OnShelf[s] ELSE NoRow
  <2>1. CASE form[s] # NoRow
    <3>1. <<c, s>> \in Rows
      BY RowMade
    <3>2. left'[<<c, s>>] = form[s]
      BY <1>2, <3>1 DEF Restocked
    <3>3. OnShelf'[<<c, s>>[2]] = left'[<<c, s>>]
      BY <2>1, <3>1, <3>2, ShelfOfRowNext DEF Inv, OnSale
    <3>. QED
      BY <2>1, <3>2, <3>3
  <2>2. CASE form[s] = NoRow
    <3>1. CASE \E r \in Rows : r[2] = s /\ OnSale(r)'
      <4>1. PICK r \in Rows : r[2] = s /\ OnSale(r)'
        BY <3>1
      <4>2. r[1] # c /\ OnSale(r) /\ r \notin pinned[c]
        BY <1>1, <2>2, <4>1, SavedRows DEF Listed
      <4>3. left'[r] = left[r]
        BY <1>2, <4>2 DEF Restocked
      <4>4. OnShelf'[s] = left'[r] /\ OnShelf[s] = left[r]
        BY <4>1, <4>2, ShelfOfRow, ShelfOfRowNext DEF Inv
      <4>. QED
        BY <2>2, <4>3, <4>4
    <3>2. CASE \A r \in Rows : r[2] = s => ~OnSale(r)'
      <4>1. Value(left', s) = NoRow
        BY <3>2, ValueOfNone DEF OnSale
      <4>. QED
        BY <2>2, <4>1, ShelfValues
    <3>. QED
      BY <3>1, <3>2
  <2>. QED
    BY <2>1, <2>2
<1>4. OnShelf' = [s \in Sizes |-> IF form[s] # NoRow THEN form[s]
                                  ELSE IF s \in kept THEN OnShelf[s] ELSE NoRow]
  BY <1>3, ShelfValues
<1>5. isSoldOut' = Stock!SoldOut(form)
  BY <1>2, SoldOutSame
<1>6. Stock!Save(form, kept)
  <2>. HIDE DEF form, kept
  <2>. QED
    BY <1>1, <1>2, <1>4, <1>5 DEF Stock!Save, OnShelf
<1>7. kept \in SUBSET Sizes
  OBVIOUS
<1>. QED
  BY <1>2, <1>6, <1>7 DEF Stock!Next

\* An order takes from the one size it has locked.
LEMMA TakeShelf ==
    ASSUME Inv, Inv', NEW c \in Calls, TakeItem(c)
    PROVE  Stock!Next
<1>. DEFINE form == request[c].form
<1>1. PICK r \in Rows :
          /\ Listed(form) = {r[2]}
          /\ left[r] \in Int /\ form[r[2]] \in Nat
          /\ OnSale(r)
          /\ left' = [left EXCEPT ![r] = @ - form[r[2]]]
  BY TakenRow
<1>. DEFINE s == r[2]
<1>2. /\ UNCHANGED <<there, isSoldOut>>
      /\ ordered' = ordered \union {c}
      /\ c \notin ordered
      /\ there
      /\ form \in Forms /\ s \in Sizes /\ form[s] # NoRow
  BY <1>1, RowParts, MarketAssumption
     DEF TakeItem, Asks, Inv, DoneFirst, SizesOnce, TypeOK, RequestType
<1>3. left'[r] = left[r] - form[s] /\ OnSale(r)'
  BY <1>1, MarketAssumption DEF OnSale, Inv, TypeOK
<1>4. OnShelf[s] = left[r] /\ OnShelf'[s] = left'[r]
  BY <1>1, <1>3, ShelfOfRow, ShelfOfRowNext DEF Inv
<1>5. ASSUME NEW q \in Sizes \ {s}
      PROVE  OnShelf'[q] = OnShelf[q]
  <2>1. \A p \in Rows : p[2] = q => left'[p] = left[p]
    BY <1>1 DEF Inv, TypeOK
  <2>2. {p \in Rows : p[2] = q /\ left'[p] # NoRow} = {p \in Rows : p[2] = q /\ left[p] # NoRow}
    BY <2>1
  <2>3. Value(left', q) = Value(left, q)
    <3>1. CASE \A p \in Rows : p[2] = q => left[p] = NoRow
      BY <2>1, <3>1, ValueOfNone
    <3>2. CASE \E p \in Rows : p[2] = q /\ left[p] # NoRow
      <4>1. PICK p \in Rows : p[2] = q /\ left[p] # NoRow
        BY <3>2
      <4>2. OnShelf[q] = left[p] /\ OnShelf'[q] = left'[p]
        BY <2>1, <4>1, ShelfOfRow, ShelfOfRowNext DEF Inv, OnSale
      <4>. QED
        BY <2>1, <4>1, <4>2, ShelfValues
    <3>. QED
      BY <3>1, <3>2
  <2>. QED
    BY <2>3, ShelfValues
<1>6. OnShelf' = [OnShelf EXCEPT ![s] = @ - form[s]]
  BY <1>2, <1>3, <1>4, <1>5, ShelfValues
<1>7. OnShelf[s] # NoRow
  BY <1>1, <1>4 DEF OnSale
<1>8. Stock!Take(c, s, form[s])
  <2>. HIDE DEF form, s
  <2>. QED
    BY <1>2, <1>6, <1>7 DEF Stock!Take, OnShelf
<1>. QED
  BY <1>2, <1>8 DEF Stock!Next

\* The cascade withdraws the product.
LEMMA RemoveShelf ==
    ASSUME Inv, NEW c \in Calls, RemoveCascade(c)
    PROVE  Stock!Next
<1>1. there
  BY DEF RemoveCascade, Asks, Inv, LocksExclude, HoldsProduct
<1>2. OnShelf' = [s \in Sizes |-> NoRow]
  <2>1. \A s \in Sizes : Value(left', s) = NoRow
    BY ValueOfNone DEF RemoveCascade
  <2>. QED
    BY <2>1, ShelfValues
<1>3. Stock!Remove
  BY <1>1, <1>2 DEF RemoveCascade, Stock!Remove, OnShelf
<1>. QED
  BY <1>3 DEF Stock!Next

LEMMA NextShelf == Inv /\ Inv' /\ [Next]_vars => [Stock!Next]_(Stock!vars)
<1>. SUFFICES ASSUME Inv, Inv', [Next]_vars
              PROVE  Stock!Next \/ UNCHANGED Stock!vars
  OBVIOUS
<1>1. CASE UNCHANGED rows
  BY <1>1, SameShelf DEF rows
<1>2. ASSUME NEW c \in Calls, Step(c), ~UNCHANGED rows
      PROVE  Stock!Next \/ UNCHANGED Stock!vars
  <2>1. CASE EditWrite(c)
    BY <1>2, <2>1, SaveShelf DEF Refuse, Go
  <2>2. CASE TakeItem(c)
    BY <2>2, TakeShelf
  <2>3. CASE RemoveCascade(c)
    BY <2>3, RemoveShelf
  <2>4. CASE AskInsert(c) \/ Announce(c)
    BY <2>4, SameShelf DEF AskInsert, Announce, Refuse, Go, rows
  <2>. QED
    BY <1>2, <2>1, <2>2, <2>3, <2>4
       DEF Step, Read, EditPin, EditClear, TakePin, TakeTake, RemoveDrop, RemoveRefused,
           Refuse, Go, Pin
<1>. QED
  BY <1>1, <1>2
     DEF Next, Submit, Fail, AbortDeadlocked, Abandon, Crash, Finished, Go, vars

\* Every step of the racing calls is a save of a whole form, an order's one
\* decrement of a size that is on sale, the removal of a product nobody has
\* ordered, or none of these.
THEOREM MarketImplementsShelf == Spec => ShelfSpec
<1>. QED
  BY InitInv, NextInv, InitShelf, NextShelf, PTL DEF Spec, ShelfSpec, Stock!Spec

=============================================================================
