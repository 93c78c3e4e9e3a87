--------------------------- MODULE PaymentsProofs ---------------------------
(***************************************************************************)
(* Proofs about payments, for every number of orders, requests and         *)
(* payment methods: the rows keep their types, an order is credited once   *)
(* and only when it was paid for, the balance is the journal, and an order *)
(* that has ended stays ended.                                             *)
(*                                                                         *)
(* The argument: a request that has got as far as settling an order knows  *)
(* of a trade that was paid, and a trade never becomes unpaid.  While a    *)
(* request credits an order, the order is pending, its rows are locked,    *)
(* and so no other request credits it or ends it.                          *)
(***************************************************************************)
EXTENDS Payments, TLAPS

PaidTrade(o) == trade[o] \in {"paid", "refunded"}

\* What a request knows of its order at each step.
Names(h)   == request[h].pc \in {"pay", "ask", "answered", "settle", "crediting"} => At(h) \in Orders
Learned(h) ==
    \/ request[h].pc \in {"settle", "crediting"}
    \/ Is(h, "answered") /\ request[h].answer = "paid"
    => PaidTrade(At(h))
Holds(h)   ==
    Is(h, "crediting") =>
        /\ order[At(h)].status = "pending"
        /\ \A g \in Handlers : Is(g, "crediting") /\ At(g) = At(h) => g = h
Affords(h) == Is(h, "deducting") => request[h].read >= 1
Reads(h)   == h \in Holding => request[h].read = balance

RequestsInv == \A h \in Handlers : Names(h) /\ Learned(h) /\ Holds(h) /\ Affords(h)
BalanceInv  == overtaken \/ (balance = journal /\ \A h \in Handlers : Reads(h))
PayInv      == PayTypeOK /\ ToppedUpOnce /\ RequestsInv /\ BalanceInv

\* What a step may do to an order that has ended.
Lawful == \A o \in Orders : order'[o].status # order[o].status =>
             order[o].status \in {"absent", "pending"} \/ order'[o].status = "refunded"

-----------------------------------------------------------------------------
LEMMA PayInit == Init => PayInv
<1> SUFFICES ASSUME Init PROVE PayInv
  OBVIOUS
<1> USE PaymentsAssumption DEF Init, Idle, NoOrder, Fresh, Reusable, Stale
<1>1. PayTypeOK
  <2>1. order \in [Orders -> OrderRow]
    BY DEF OrderRow
  <2>2. request \in [Handlers -> RequestRow]
    BY DEF RequestRow
  <2>3. /\ record \in [Orders -> {"none", "created", "requested", "paid", "closed"}]
        /\ trade \in [Orders -> {"none", "open", "paid", "closed", "refunded"}]
        /\ topups \in [Orders -> Nat]
    OBVIOUS
  <2>4. /\ balance \in Nat /\ journal \in Int /\ {requests, adjusts} \subseteq Nat
    OBVIOUS
  <2>5. overtaken \in BOOLEAN
    OBVIOUS
  <2> QED  BY <2>1, <2>2, <2>3, <2>4, <2>5, Zenon DEF PayTypeOK
<1>2. ToppedUpOnce  BY DEF ToppedUpOnce
<1>3. RequestsInv  BY DEF RequestsInv, Names, Learned, Holds, Affords, Is
<1>4. BalanceInv  BY DEF BalanceInv, Reads, Holding
<1> QED  BY <1>1, <1>2, <1>3, <1>4 DEF PayInv

-----------------------------------------------------------------------------
(***************************************************************************)
(* Steps that change one request at most and neither end an order that is  *)
(* not pending, nor touch a locked one, nor credit anything.               *)
(***************************************************************************)

\* The orders that a request may write: those that no transaction has locked.
Spared(o) ==
    \/ order'[o].status = order[o].status
    \/ order[o].status \in {"absent", "pending"} /\ order'[o].status \in {"pending", "failed", "expired"}
       /\ ~Locked(o)
    \/ order'[o].status = "refunded" /\ PaidTrade(o) /\ ~Locked(o)

\* A request h that goes on has to know what it claims to.
Steps(h) ==
    /\ \A g \in Handlers \ {h} : request'[g] = request[g]
    /\ Names(h)' /\ Learned(h)' /\ Affords(h)'
    /\ h \in Holding' => request'[h].read = balance
    /\ Is(h, "crediting")' => order[At(h)'].status = "pending" /\ ~Locked(At(h)')
                              /\ UNCHANGED order

LEMMA QuietStep ==
  ASSUME PayInv, PayTypeOK', UNCHANGED <<topups, balance, journal, overtaken>>,
         \A o \in Orders : Spared(o) /\ (PaidTrade(o) => PaidTrade(o)'),
         NEW h \in Handlers, Steps(h)
  PROVE  PayInv' /\ Lawful
<1> USE DEF PayInv, Steps
<1>0. Lawful
  BY DEF Lawful, Spared
<1>1. ToppedUpOnce'
  BY DEF ToppedUpOnce, Spared, PaidTrade
<1>2. ASSUME NEW g \in Handlers PROVE (Names(g) /\ Learned(g) /\ Affords(g))'
  <2>1. CASE g = h  BY <2>1
  <2>2. CASE g # h
    BY <2>2 DEF RequestsInv, Names, Learned, Affords, Is, At
  <2> QED  BY <2>1, <2>2
<1>3. ASSUME NEW g \in Handlers PROVE Holds(g)'
  <2>1. CASE g = h
    BY <2>1 DEF RequestsInv, Holds, Is, At, Locked
  <2>2. CASE g # h
    BY <2>2 DEF RequestsInv, Names, Holds, Is, At, Locked, Spared
  <2> QED  BY <2>1, <2>2
<1>4. BalanceInv'
  BY DEF BalanceInv, Reads, Holding
<1> QED  BY <1>0, <1>1, <1>2, <1>3, <1>4 DEF RequestsInv

LEMMA StillStep ==
  ASSUME PayInv, PayTypeOK', UNCHANGED <<topups, balance, journal, overtaken, request>>,
         \A o \in Orders : Spared(o) /\ (PaidTrade(o) => PaidTrade(o)')
  PROVE  PayInv' /\ Lawful
<1> USE DEF PayInv
<1>0. Lawful
  BY DEF Lawful, Spared
<1>1. ToppedUpOnce'
  BY DEF ToppedUpOnce, Spared, PaidTrade
<1>2. ASSUME NEW g \in Handlers PROVE (Names(g) /\ Learned(g) /\ Affords(g) /\ Holds(g))'
  BY DEF RequestsInv, Names, Learned, Affords, Holds, Is, At, Locked, Spared
<1>3. BalanceInv'
  BY DEF BalanceInv, Reads, Holding
<1> QED  BY <1>0, <1>1, <1>2, <1>3 DEF RequestsInv

-----------------------------------------------------------------------------
(***************************************************************************)
(* The types.                                                              *)
(***************************************************************************)

LEMMA GoesTyped ==
  ASSUME PayTypeOK, NEW h \in Handlers, NEW r \in RequestRow, Goes(h, r)
  PROVE  /\ request' \in [Handlers -> RequestRow] /\ requests' \in Nat
         /\ request'[h] = r /\ \A g \in Handlers \ {h} : request'[g] = request[g]
BY DEF PayTypeOK, Goes

LEMMA StartsTyped ==
  ASSUME PayTypeOK, NEW h \in Handlers, NEW r \in RequestRow, Starts(h, r)
  PROVE  /\ request' \in [Handlers -> RequestRow] /\ requests' \in Nat
         /\ request'[h] = r /\ \A g \in Handlers \ {h} : request'[g] = request[g]
BY PaymentsAssumption DEF PayTypeOK, Starts

-----------------------------------------------------------------------------
(***************************************************************************)
(* Requests that order, pay and ask.                                       *)
(***************************************************************************)

LEMMA ExpireKeeps ==
  ASSUME PayTypeOK, ExpireStale
  PROVE  order' \in [Orders -> OrderRow] /\ \A o \in Orders : Spared(o)
BY DEF ExpireStale, Overdue, PayTypeOK, OrderRow, Spared

LEMMA FailKeeps ==
  ASSUME PayTypeOK, NEW o \in Orders, ~Locked(o), FailPending(o)
  PROVE  order' \in [Orders -> OrderRow] /\ \A k \in Orders : Spared(k)
BY DEF FailPending, PayTypeOK, OrderRow, Spared

\* What a request has to know to go on to r.
Ready(r) ==
    /\ r.pc \in {"pay", "ask", "answered", "settle", "crediting"} => r.order \in Orders
    /\ r.pc \in {"settle", "crediting"} \/ (r.pc = "answered" /\ r.answer = "paid")
       => PaidTrade(r.order)
    /\ r.pc = "deducting" => r.read >= 1
    /\ r.pc \in {"crediting", "adding", "deducting"} => r.read = balance
    /\ r.pc = "crediting" => order[r.order].status = "pending" /\ ~Locked(r.order) /\ UNCHANGED order

RowsTyped ==
    /\ order \in [Orders -> OrderRow]
    /\ record \in [Orders -> {"none", "created", "requested", "paid", "closed"}]
    /\ trade \in [Orders -> {"none", "open", "paid", "closed", "refunded"}]

LEMMA IdleReady ==
  /\ Idle \in RequestRow /\ Ready(Idle)
BY DEF Idle, RequestRow, Ready

LEMMA RequestGoesOn ==
  ASSUME PayInv, NEW h \in Handlers, NEW r \in RequestRow, Goes(h, r) \/ Starts(h, r), Ready(r),
         UNCHANGED <<topups, balance, journal, overtaken>>, adjusts' \in Nat, RowsTyped',
         \A o \in Orders : Spared(o) /\ (PaidTrade(o) => PaidTrade(o)')
  PROVE  PayInv' /\ Lawful
<1>1. /\ request' \in [Handlers -> RequestRow] /\ requests' \in Nat
      /\ request'[h] = r /\ \A g \in Handlers \ {h} : request'[g] = request[g]
  BY GoesTyped, StartsTyped DEF PayInv
<1>2. PayTypeOK'  BY <1>1 DEF PayInv, PayTypeOK, RowsTyped
<1>3. Steps(h)
  BY <1>1 DEF Ready, Steps, Names, Learned, Affords, Holding, Is, At
<1> QED  BY <1>2, <1>3, QuietStep

LEMMA RowsStay ==
  ASSUME PayTypeOK, UNCHANGED <<order, record, trade>>
  PROVE  RowsTyped' /\ \A o \in Orders : Spared(o) /\ (PaidTrade(o) => PaidTrade(o)')
BY DEF PayTypeOK, RowsTyped, Spared, PaidTrade

LEMMA StartOrderKeeps ==
  ASSUME PayInv, NEW h \in Handlers, NEW m \in Methods, StartOrder(h, m)
  PROVE  PayInv' /\ Lawful
<1> DEFINE r == [Idle EXCEPT !.pc = "limit", !.method = m]
<1>1. r \in RequestRow /\ Ready(r)  BY DEF Idle, RequestRow, Ready
<1>2. Starts(h, r)  BY DEF StartOrder
<1>3. RowsTyped'  BY ExpireKeeps DEF StartOrder, PayInv, PayTypeOK, RowsTyped
<1>4. \A o \in Orders : Spared(o) /\ (PaidTrade(o) => PaidTrade(o)')
  BY ExpireKeeps DEF StartOrder, PayInv, PaidTrade
<1> QED  BY <1>1, <1>2, <1>3, <1>4, RequestGoesOn DEF StartOrder, Unpaid, PayInv, PayTypeOK

LEMMA ReuseOrderKeeps ==
  ASSUME PayInv, NEW h \in Handlers, ReuseOrder(h)
  PROVE  PayInv' /\ Lawful
<1> DEFINE r(o) == [request[h] EXCEPT !.pc = "ask", !.creates = TRUE, !.order = o]
<1>1. ASSUME NEW o \in Orders PROVE r(o) \in RequestRow /\ Ready(r(o))
  BY ZenonT(60) DEF PayInv, PayTypeOK, RequestRow, Ready
<1>2. RowsTyped' /\ \A o \in Orders : Spared(o) /\ (PaidTrade(o) => PaidTrade(o)')
  BY RowsStay DEF ReuseOrder, PayInv
<1>3. Ends(h) \/ \E o \in Orders : Goes(h, r(o))
  BY DEF ReuseOrder, ReusableOrders
<1> HIDE DEF r
<1> QED  BY <1>1, <1>2, <1>3, IdleReady, RequestGoesOn DEF ReuseOrder, Ends, Unpaid, PayInv, PayTypeOK

LEMMA ForceOrderKeeps ==
  ASSUME PayInv, NEW h \in Handlers, NEW o \in Orders, ForceOrder(h, o)
  PROVE  PayInv' /\ Lawful
<1> DEFINE r == [request[h] EXCEPT !.creates = TRUE,
                   !.pc = IF order[o].status = "pending" THEN "ask" ELSE "limit",
                   !.order = IF order[o].status = "pending" THEN o ELSE 0]
<1>1. r \in RequestRow /\ Ready(r)
  BY ZenonT(60) DEF PayInv, PayTypeOK, RequestRow, Ready
<1>2. Ends(h) \/ Goes(h, r)
  BY DEF ForceOrder
<1> HIDE DEF r
<1> QED  BY <1>1, <1>2, RowsStay, IdleReady, RequestGoesOn DEF ForceOrder, Ends, Unpaid, PayInv, PayTypeOK

LEMMA CheckLimitKeeps ==
  ASSUME PayInv, NEW h \in Handlers, CheckLimit(h)
  PROVE  PayInv' /\ Lawful
<1> DEFINE r == [request[h] EXCEPT !.pc = "insert"]
<1>1. r \in RequestRow /\ Ready(r)
  BY DEF PayInv, PayTypeOK, RequestRow, Ready
<1>2. Ends(h) \/ Goes(h, r)
  BY DEF CheckLimit
<1> HIDE DEF r
<1> QED  BY <1>1, <1>2, RowsStay, IdleReady, RequestGoesOn DEF CheckLimit, Ends, Unpaid, PayInv, PayTypeOK

LEMMA InsertOrderKeeps ==
  ASSUME PayInv, NEW h \in Handlers, InsertOrder(h)
  PROVE  PayInv' /\ Lawful
<1> USE DEF PayInv
<1> DEFINE r(o) == [Idle EXCEPT !.pc = "pay", !.order = o]
<1>1. ASSUME NEW o \in Orders PROVE r(o) \in RequestRow /\ Ready(r(o))
  BY DEF Idle, RequestRow, Ready
<1>2. PICK o \in Orders :
        /\ ~Known(o)
        /\ order' = [order EXCEPT ![o] = [status |-> "pending", method |-> request[h].method, age |-> Fresh]]
        /\ Mark(o, "created")
        /\ Ends(h) \/ Goes(h, r(o))
  BY DEF InsertOrder
<1>3. ~Locked(o)
  BY <1>2 DEF RequestsInv, Holds, Known, Locked, Is
<1>4. RowsTyped'
  BY <1>2 DEF InsertOrder, RowsTyped, PayTypeOK, OrderRow, RequestRow, Mark, Fresh, Stale
<1>5. \A k \in Orders : Spared(k) /\ (PaidTrade(k) => PaidTrade(k)')
  BY <1>2, <1>3 DEF InsertOrder, PayTypeOK, Known, Spared, PaidTrade
<1> HIDE DEF r
<1> QED  BY <1>1, <1>2, <1>4, <1>5, IdleReady, RequestGoesOn DEF InsertOrder, Ends, Unpaid, PayTypeOK

LEMMA PayAlipayKeeps ==
  ASSUME PayInv, NEW h \in Handlers, NEW o \in Orders, PayAlipay(h, o)
  PROVE  PayInv' /\ Lawful
<1> DEFINE r == [Idle EXCEPT !.pc = "pay", !.order = o]
<1>1. r \in RequestRow /\ Ready(r)
  BY DEF Idle, RequestRow, Ready
<1>2. RowsTyped' /\ \A k \in Orders : Spared(k) /\ (PaidTrade(k) => PaidTrade(k)')
  BY ExpireKeeps DEF PayAlipay, PayInv, PayTypeOK, RowsTyped, PaidTrade
<1> HIDE DEF r
<1> QED  BY <1>1, <1>2, RequestGoesOn DEF PayAlipay, r, Unpaid, PayInv, PayTypeOK

LEMMA RequestedKeeps ==
  ASSUME PayInv, NEW h \in Handlers, Requested(h)
  PROVE  PayInv' /\ Lawful
<1> USE DEF PayInv
<1>1. At(h) \in Orders  BY DEF Requested, Is, RequestsInv, Names
<1>2. RowsTyped' /\ \A k \in Orders : Spared(k) /\ (PaidTrade(k) => PaidTrade(k)')
  BY <1>1 DEF Requested, Mark, PayTypeOK, RowsTyped, Spared, PaidTrade
<1> QED  BY <1>2, IdleReady, RequestGoesOn DEF Requested, Ends, Unpaid, PayTypeOK

LEMMA AskAboutKeeps ==
  ASSUME PayInv, NEW h \in Handlers, NEW o \in Orders, NEW expires \in BOOLEAN, AskAbout(h, o, expires)
  PROVE  PayInv' /\ Lawful
<1> DEFINE r == [Idle EXCEPT !.pc = "ask", !.order = o]
<1>1. r \in RequestRow /\ Ready(r)
  BY DEF Idle, RequestRow, Ready
<1>2. RowsTyped' /\ \A k \in Orders : Spared(k) /\ (PaidTrade(k) => PaidTrade(k)')
  <2>1. CASE UNCHANGED order  BY <2>1, RowsStay DEF AskAbout, PayInv
  <2>2. CASE ExpireStale
    BY <2>2, ExpireKeeps DEF AskAbout, PayInv, PayTypeOK, RowsTyped, PaidTrade
  <2> QED  BY <2>1, <2>2 DEF AskAbout
<1> HIDE DEF r
<1> QED  BY <1>1, <1>2, RequestGoesOn DEF AskAbout, r, Unpaid, PayInv, PayTypeOK

LEMMA AnswerOfPaid ==
  ASSUME NEW o \in Orders
  PROVE  /\ Answer(o) \in {"open", "closed", "paid"}
         /\ Answer(o) = "paid" => trade[o] = "paid"
BY DEF Answer, AlipayAnswer, JsapiAnswer, VirtualAnswer

LEMMA AskedKeeps ==
  ASSUME PayInv, NEW h \in Handlers, Asked(h)
  PROVE  PayInv' /\ Lawful
<1> USE DEF PayInv
<1> DEFINE r == [request[h] EXCEPT !.pc = "answered", !.answer = Answer(At(h))]
<1>1. At(h) \in Orders  BY DEF Asked, Is, RequestsInv, Names
<1>2. r \in RequestRow  BY ZenonT(60), <1>1, AnswerOfPaid DEF PayTypeOK, RequestRow
<1>3. r.pc = "answered" /\ r.order = At(h) /\ r.answer = Answer(At(h))
  BY DEF PayTypeOK, RequestRow, At
<1>4. Ready(r)  BY <1>1, <1>3, AnswerOfPaid DEF Ready, PaidTrade
<1>5. Ends(h) \/ Goes(h, r)  BY DEF Asked
<1> HIDE DEF r
<1> QED  BY <1>2, <1>4, <1>5, RowsStay, IdleReady, RequestGoesOn DEF Asked, Noted, Ends, Unpaid, PayTypeOK

\* Back to the limit, or to the end.
LEMMA GoingOn ==
  ASSUME PayInv, NEW h \in Handlers, GoesOn(h)
  PROVE  \E r \in RequestRow : Goes(h, r) /\ Ready(r)
<1> DEFINE r == [request[h] EXCEPT !.pc = "limit", !.order = 0, !.answer = "none"]
<1>1. r \in RequestRow /\ Ready(r)
  BY ZenonT(60) DEF PayInv, PayTypeOK, RequestRow, Ready
<1>2. Ends(h) \/ Goes(h, r)
  BY DEF GoesOn
<1> HIDE DEF r
<1> QED  BY <1>1, <1>2, IdleReady DEF Ends

LEMMA AnsweredOpenKeeps ==
  ASSUME PayInv, NEW h \in Handlers, AnsweredOpen(h)
  PROVE  PayInv' /\ Lawful
<1>1. PICK r \in RequestRow : Goes(h, r) /\ Ready(r)
  BY GoingOn, IdleReady DEF AnsweredOpen, Ends
<1> QED  BY <1>1, RowsStay, RequestGoesOn DEF AnsweredOpen, Noted, Unpaid, PayInv, PayTypeOK

LEMMA ReplaceOpenKeeps ==
  ASSUME PayInv, NEW h \in Handlers, ReplaceOpen(h)
  PROVE  PayInv' /\ Lawful
<1> USE DEF PayInv
<1>1. At(h) \in Orders  BY DEF ReplaceOpen, Is, RequestsInv, Names
<1>2. RowsTyped' /\ \A k \in Orders : Spared(k) /\ (PaidTrade(k) => PaidTrade(k)')
  BY <1>1, FailKeeps DEF ReplaceOpen, Mark, PayTypeOK, RowsTyped, PaidTrade
<1> QED  BY <1>2, GoingOn, RequestGoesOn DEF ReplaceOpen, Unpaid, PayTypeOK

LEMMA AnsweredClosedKeeps ==
  ASSUME PayInv, NEW h \in Handlers, AnsweredClosed(h)
  PROVE  PayInv' /\ Lawful
<1> USE DEF PayInv
<1>1. At(h) \in Orders  BY DEF AnsweredClosed, Is, RequestsInv, Names
<1>2. RowsTyped' /\ \A k \in Orders : Spared(k) /\ (PaidTrade(k) => PaidTrade(k)')
  BY <1>1, FailKeeps DEF AnsweredClosed, Mark, Noted, PayTypeOK, RowsTyped, PaidTrade
<1> QED  BY <1>2, GoingOn, RequestGoesOn DEF AnsweredClosed, Unpaid, PayTypeOK

LEMMA AnsweredPaidKeeps ==
  ASSUME PayInv, NEW h \in Handlers, AnsweredPaid(h)
  PROVE  PayInv' /\ Lawful
<1> USE DEF PayInv
<1> DEFINE r == [Idle EXCEPT !.pc = "settle", !.order = At(h)]
<1>1. At(h) \in Orders /\ PaidTrade(At(h))
  BY DEF AnsweredPaid, Is, RequestsInv, Names, Learned
<1>2. r \in RequestRow /\ Ready(r)  BY <1>1 DEF Idle, RequestRow, Ready
<1>3. Goes(h, r)  BY DEF AnsweredPaid
<1> HIDE DEF r
<1> QED  BY <1>2, <1>3, RowsStay, RequestGoesOn DEF AnsweredPaid, Unpaid, PayTypeOK

LEMMA NotifyPaidKeeps ==
  ASSUME PayInv, NEW h \in Handlers, NEW o \in Orders, NotifyPaid(h, o)
  PROVE  PayInv' /\ Lawful
<1> USE DEF PayInv
<1> DEFINE r == [Idle EXCEPT !.pc = "settle", !.order = o]
<1>1. r \in RequestRow /\ Ready(r)  BY DEF NotifyPaid, PaidTrade, Idle, RequestRow, Ready
<1>2. Starts(h, r)  BY DEF NotifyPaid
<1> HIDE DEF r
<1> QED  BY <1>1, <1>2, RowsStay, RequestGoesOn DEF NotifyPaid, Unpaid, PayTypeOK

LEMMA SettleEndedKeeps ==
  ASSUME PayInv, NEW h \in Handlers, SettleEnded(h)
  PROVE  PayInv' /\ Lawful
<1> USE DEF PayInv
<1>1. At(h) \in Orders  BY DEF SettleEnded, Is, RequestsInv, Names
<1>2. RowsTyped' /\ \A k \in Orders : Spared(k) /\ (PaidTrade(k) => PaidTrade(k)')
  BY <1>1 DEF SettleEnded, Mark, PayTypeOK, RowsTyped, Spared, PaidTrade
<1> QED  BY <1>2, IdleReady, RequestGoesOn DEF SettleEnded, Ends, Unpaid, PayTypeOK

LEMMA SettlePendingKeeps ==
  ASSUME PayInv, NEW h \in Handlers, SettlePending(h)
  PROVE  PayInv' /\ Lawful
<1> USE DEF PayInv
<1> DEFINE r == [request[h] EXCEPT !.pc = "crediting", !.read = balance]
<1>1. At(h) \in Orders /\ PaidTrade(At(h))
  BY DEF SettlePending, Is, RequestsInv, Names, Learned
<1>2. r \in RequestRow /\ Ready(r)
  BY ZenonT(60), <1>1 DEF SettlePending, CanSettle, PayTypeOK, RequestRow, Ready, At
<1>3. Goes(h, r)  BY DEF SettlePending
<1> HIDE DEF r
<1> QED  BY <1>2, <1>3, RowsStay, RequestGoesOn DEF SettlePending, Unpaid, PayTypeOK

LEMMA AbortsKeeps ==
  ASSUME PayInv, NEW h \in Handlers, Aborts(h)
  PROVE  PayInv' /\ Lawful
BY IdleReady, RowsStay, RequestGoesOn DEF Aborts, Ends, Unpaid, PayInv, PayTypeOK

LEMMA AdjustKeeps ==
  ASSUME PayInv, NEW h \in Handlers, NEW way \in {"adding", "deducting"}, Adjust(h, way)
  PROVE  PayInv' /\ Lawful
<1> USE DEF PayInv
<1> DEFINE r == [Idle EXCEPT !.pc = way, !.read = balance]
<1>1. r \in RequestRow /\ Ready(r)  BY DEF Adjust, PayTypeOK, Idle, RequestRow, Ready
<1>2. Starts(h, r)  BY DEF Adjust
<1>3. adjusts' \in Nat  BY DEF Adjust, PayTypeOK
<1> HIDE DEF r
<1> QED  BY <1>1, <1>2, <1>3, RowsStay, RequestGoesOn DEF Adjust, PayTypeOK

-----------------------------------------------------------------------------
(***************************************************************************)
(* Steps that no request takes.                                            *)
(***************************************************************************)

LEMMA ProviderKeeps ==
  ASSUME PayInv, NEW o \in Orders, Provider(o)
  PROVE  PayInv' /\ Lawful
<1> USE DEF PayInv, Provider, Trade, Unpaid
<1>1. PayTypeOK'  BY DEF PayTypeOK
<1>2. \A k \in Orders : Spared(k) /\ (PaidTrade(k) => PaidTrade(k)')
  BY DEF PayTypeOK, Spared, PaidTrade
<1> QED  BY <1>1, <1>2, StillStep

LEMMA NotifyClosedKeeps ==
  ASSUME PayInv, NEW o \in Orders, NotifyClosed(o)
  PROVE  PayInv' /\ Lawful
<1>1. PayTypeOK'  BY DEF PayInv, PayTypeOK, NotifyClosed, Mark, Unpaid
<1> QED  BY <1>1, StillStep DEF NotifyClosed, Unpaid, Spared, PaidTrade

LEMMA RefundKeeps ==
  ASSUME PayInv, NEW o \in Orders, Refund(o)
  PROVE  PayInv' /\ Lawful
<1> USE DEF PayInv, Refund, Unpaid
<1>1. PayTypeOK'  BY DEF PayTypeOK, OrderRow
<1>2. \A k \in Orders : Spared(k) /\ (PaidTrade(k) => PaidTrade(k)')
  BY DEF PayTypeOK, Spared, PaidTrade
<1> QED  BY <1>1, <1>2, StillStep

LEMMA TimePassesKeeps ==
  ASSUME PayInv, NEW o \in Orders, TimePasses(o)
  PROVE  PayInv' /\ Lawful
<1> USE DEF PayInv, TimePasses, Unpaid
<1>1. PayTypeOK'  BY DEF PayTypeOK, OrderRow, Fresh, Stale
<1>2. \A k \in Orders : Spared(k) /\ (PaidTrade(k) => PaidTrade(k)')
  BY DEF PayTypeOK, OrderRow, Spared, PaidTrade
<1> QED  BY <1>1, <1>2, StillStep

LEMMA ListOrdersKeeps ==
  ASSUME PayInv, ListOrders
  PROVE  PayInv' /\ Lawful
<1> USE DEF PayInv, ListOrders, Unpaid
<1>1. PayTypeOK'  BY ExpireKeeps DEF PayTypeOK
<1>2. \A k \in Orders : Spared(k) /\ (PaidTrade(k) => PaidTrade(k)')
  BY ExpireKeeps DEF PaidTrade
<1> QED  BY <1>1, <1>2, StillStep

LEMMA StutterKeeps ==
  ASSUME PayInv, UNCHANGED vars
  PROVE  PayInv' /\ Lawful
<1> USE DEF PayInv, vars
<1>1. PayTypeOK'  BY DEF PayTypeOK
<1> QED  BY <1>1, StillStep DEF Spared, PaidTrade

-----------------------------------------------------------------------------
(***************************************************************************)
(* Steps that write the balance.                                           *)
(***************************************************************************)

LEMMA SpendKeeps ==
  ASSUME PayInv, Spend
  PROVE  PayInv' /\ Lawful
<1> USE DEF PayInv, Spend, Write
<1>1. PayTypeOK'
  <2>1. overtaken' \in BOOLEAN  BY Zenon DEF PayTypeOK
  <2>2. balance' \in Nat /\ journal' \in Int  BY DEF PayTypeOK
  <2> QED  BY <2>1, <2>2 DEF PayTypeOK
<1>2. ToppedUpOnce'  BY DEF ToppedUpOnce
<1>3. RequestsInv'
  BY DEF RequestsInv, Names, Learned, Holds, Affords, Is, At, PaidTrade
<1>4. BalanceInv'
  <2>1. CASE overtaken'  BY <2>1 DEF BalanceInv
  <2>2. CASE ~overtaken'
    <3>1. ~overtaken /\ Holding = {}  BY <2>2 DEF Holding
    <3>2. balance = journal  BY <3>1 DEF BalanceInv
    <3>3. balance' = journal'  BY <3>2 DEF PayTypeOK
    <3> QED  BY <3>1, <3>3 DEF BalanceInv, Reads, Holding
  <2> QED  BY <2>1, <2>2
<1>5. Lawful  BY DEF Lawful
<1> QED  BY <1>1, <1>2, <1>3, <1>4, <1>5

\* A request that has read the balance writes what follows from it, and ends.
LEMMA HolderWrites ==
  ASSUME PayInv, NEW h \in Holding, NEW amount \in Int, request[h].read + amount \in Nat,
         Write(request[h].read + amount, amount, Handlers \ {h}), Ends(h)
  PROVE  /\ BalanceInv' /\ balance' \in Nat /\ journal' \in Int /\ overtaken' \in BOOLEAN
         /\ request' \in [Handlers -> RequestRow] /\ requests' \in Nat
         /\ request'[h] = Idle /\ \A g \in Handlers \ {h} : request'[g] = request[g]
<1> USE DEF PayInv
<1>0. h \in Handlers  BY DEF Holding
<1>1. /\ request' \in [Handlers -> RequestRow] /\ requests' \in Nat
      /\ request'[h] = Idle /\ \A g \in Handlers \ {h} : request'[g] = request[g]
  BY <1>0, GoesTyped, IdleReady DEF Ends
<1>2. overtaken' \in BOOLEAN  BY Zenon DEF Write, PayTypeOK
<1>3. balance' \in Nat /\ journal' \in Int  BY DEF Write, PayTypeOK
<1>4. BalanceInv'
  <2>1. CASE overtaken'  BY <2>1 DEF BalanceInv
  <2>2. CASE ~overtaken'
    <3>1. ~overtaken /\ Holding \cap (Handlers \ {h}) = {}  BY <2>2 DEF Write
    <3>2. balance = journal /\ request[h].read = balance
      BY <1>0, <3>1 DEF BalanceInv, Reads
    <3>3. balance' = journal'  BY <3>2 DEF Write, PayTypeOK
    <3>4. Holding' = {}  BY <1>1, <3>1 DEF Holding, Idle
    <3> QED  BY <3>3, <3>4 DEF BalanceInv, Reads
  <2> QED  BY <2>1, <2>2
<1> QED  BY <1>1, <1>2, <1>3, <1>4

LEMMA AdjustedKeeps ==
  ASSUME PayInv, NEW h \in Handlers, Adjusted(h)
  PROVE  PayInv' /\ Lawful
<1> USE DEF PayInv
<1> DEFINE amount == IF Is(h, "adding") THEN 1 ELSE -1
<1>1. h \in Holding /\ amount \in Int  BY DEF Adjusted, Holding
<1>2. request[h].read \in Nat  BY DEF PayTypeOK, RequestRow
<1>3. request[h].read + amount \in Nat
  BY <1>2 DEF Adjusted, RequestsInv, Affords, Is
<1>4. Write(request[h].read + amount, amount, Handlers \ {h}) /\ Ends(h)
  BY DEF Adjusted
<1> HIDE DEF amount
<1>5. /\ BalanceInv' /\ balance' \in Nat /\ journal' \in Int /\ overtaken' \in BOOLEAN
      /\ request' \in [Handlers -> RequestRow] /\ requests' \in Nat
      /\ request'[h] = Idle /\ \A g \in Handlers \ {h} : request'[g] = request[g]
  BY <1>1, <1>3, <1>4, HolderWrites
<1>6. UNCHANGED <<order, record, trade, topups, adjusts>>  BY DEF Adjusted
<1>7. PayTypeOK'  BY <1>5, <1>6 DEF PayTypeOK
<1>8. ToppedUpOnce'  BY <1>6 DEF ToppedUpOnce
<1>9. RequestsInv'
  BY <1>5, <1>6 DEF RequestsInv, Names, Learned, Holds, Affords, Is, At, PaidTrade, Idle
<1>10. Lawful  BY <1>6 DEF Lawful
<1> QED  BY <1>5, <1>7, <1>8, <1>9, <1>10

LEMMA CreditKeeps ==
  ASSUME PayInv, NEW h \in Handlers, Credit(h)
  PROVE  PayInv' /\ Lawful
<1> USE DEF PayInv
<1> DEFINE o == At(h)
<1>1. Is(h, "crediting") /\ h \in Holding  BY DEF Credit, Holding, Is
<1>2. /\ o \in Orders /\ PaidTrade(o) /\ order[o].status = "pending"
      /\ \A g \in Handlers : Is(g, "crediting") /\ At(g) = o => g = h
  BY <1>1 DEF RequestsInv, Names, Learned, Holds, Is
<1>3. topups[o] = 0  BY <1>2 DEF ToppedUpOnce, PayTypeOK
<1>4. /\ order' = [order EXCEPT ![o].status = "paid"] /\ Mark(o, "paid")
      /\ Write(request[h].read + Credits, Credits, Handlers \ {h})
      /\ topups' = [topups EXCEPT ![o] = @ + 1]
      /\ Ends(h) /\ UNCHANGED <<trade, adjusts>>
  BY <1>3 DEF Credit
<1> HIDE DEF o
<1>5. Credits \in Int /\ request[h].read + Credits \in Nat
  BY PaymentsAssumption DEF PayTypeOK, RequestRow
<1>6. /\ BalanceInv' /\ balance' \in Nat /\ journal' \in Int /\ overtaken' \in BOOLEAN
      /\ request' \in [Handlers -> RequestRow] /\ requests' \in Nat
      /\ request'[h] = Idle /\ \A g \in Handlers \ {h} : request'[g] = request[g]
  BY <1>1, <1>4, <1>5, HolderWrites
<1>7. PayTypeOK'
  <2>1. order' \in [Orders -> OrderRow]  BY <1>2, <1>4 DEF PayTypeOK, OrderRow
  <2>2. record' \in [Orders -> {"none", "created", "requested", "paid", "closed"}]
        /\ topups' \in [Orders -> Nat]
    BY <1>2, <1>4 DEF PayTypeOK, Mark
  <2> QED  BY <1>4, <1>6, <2>1, <2>2 DEF PayTypeOK
<1>8. ToppedUpOnce'
  BY <1>2, <1>3, <1>4 DEF ToppedUpOnce, PayTypeOK, OrderRow, PaidTrade
<1>9. \A g \in Handlers \ {h} : Is(g, "crediting") => At(g) # o
  BY <1>2
<1>10. RequestsInv'
  <2>1. ASSUME NEW g \in Handlers PROVE (Names(g) /\ Learned(g) /\ Holds(g) /\ Affords(g))'
    <3>1. CASE g = h
      BY <1>6, <3>1 DEF Names, Learned, Holds, Affords, Is, At, Idle
    <3>2. CASE g # h
      <4>1. request'[g] = request[g]  BY <1>6, <3>2
      <4>2. (Names(g) /\ Learned(g) /\ Affords(g))'
        BY <1>4, <4>1 DEF RequestsInv, Names, Learned, Affords, Is, At, PaidTrade
      <4>3. Holds(g)'
        BY <1>4, <1>6, <1>9, <3>2, <4>1 DEF RequestsInv, Names, Holds, Is, At, PayTypeOK, Idle
      <4> QED  BY <4>2, <4>3
    <3> QED  BY <3>1, <3>2
  <2> QED  BY <2>1 DEF RequestsInv
<1>11. Lawful  BY <1>2, <1>4 DEF Lawful, PayTypeOK
<1> QED  BY <1>6, <1>7, <1>8, <1>10, <1>11

-----------------------------------------------------------------------------
LEMMA ServeKeeps ==
  ASSUME PayInv, NEW h \in Handlers, Serve(h)
  PROVE  PayInv' /\ Lawful
BY StartOrderKeeps, ReuseOrderKeeps, ForceOrderKeeps, CheckLimitKeeps, InsertOrderKeeps,
   PayAlipayKeeps, RequestedKeeps, AskAboutKeeps, AskedKeeps, AnsweredOpenKeeps, ReplaceOpenKeeps,
   AnsweredClosedKeeps, AnsweredPaidKeeps, NotifyPaidKeeps, SettleEndedKeeps, SettlePendingKeeps,
   CreditKeeps, AbortsKeeps, AdjustKeeps, AdjustedKeeps, Zenon DEF Serve

LEMMA NextKeeps == PayInv /\ [Next]_vars => PayInv' /\ Lawful
<1> SUFFICES ASSUME PayInv, [Next]_vars PROVE PayInv' /\ Lawful
  OBVIOUS
<1>1. CASE \E h \in Handlers : Serve(h)  BY <1>1, ServeKeeps
<1>2. CASE \E o \in Orders : Provider(o) \/ NotifyClosed(o) \/ Refund(o) \/ TimePasses(o)
  BY <1>2, ProviderKeeps, NotifyClosedKeeps, RefundKeeps, TimePassesKeeps
<1>3. CASE ListOrders \/ Spend  BY <1>3, ListOrdersKeeps, SpendKeeps
<1>4. CASE UNCHANGED vars  BY <1>4, StutterKeeps
<1> QED  BY <1>1, <1>2, <1>3, <1>4 DEF Next

LEMMA PayInvAlways == Spec => []PayInv
<1>1. PayInv /\ [Next]_vars => PayInv'  BY NextKeeps
<1> QED  BY PayInit, <1>1, PTL DEF Spec

-----------------------------------------------------------------------------
\* The rows of payments keep their types; the balance never goes below zero, whatever
\* lost updates and spending do to it (applyAdminCreditAdjustment checks what it read).
THEOREM PayTypesAlways == Spec => []PayTypeOK
<1>1. PayInv => PayTypeOK  BY DEF PayInv
<1> QED  BY PayInvAlways, <1>1, PTL

\* However notifications, queries and confirmations repeat, overtake each other or
\* fail, the complete...Order handlers issue the credits of an order once, and only
\* for a trade that was paid.
THEOREM AlwaysToppedUpOnce == Spec => []ToppedUpOnce
<1>1. PayInv => ToppedUpOnce  BY DEF PayInv
<1> QED  BY PayInvAlways, <1>1, PTL

\* The balance is the sum of its journal as long as no write of it came between the
\* read and the write of a request that credits or adjusts it.
THEOREM AlwaysBalanced == Spec => []BalanceIsJournal
<1>1. PayInv => BalanceIsJournal  BY DEF PayInv, BalanceInv, BalanceIsJournal
<1> QED  BY PayInvAlways, <1>1, PTL

\* The compare-and-set of completion and the conditional writes of failing and
\* expiring leave an order that has ended as it is, but for a refund.
THEOREM OrdersEndOnce == Spec => OrderEndsOnce
<1>1. PayInv /\ [Next]_vars => [\A o \in Orders : order'[o].status # order[o].status =>
          \/ order[o].status \in {"absent", "pending"}
          \/ order'[o].status = "refunded"]_vars
  BY NextKeeps DEF Lawful
<1> QED  BY PayInvAlways, <1>1, PTL DEF Spec, OrderEndsOnce
=============================================================================
