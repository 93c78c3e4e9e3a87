------------------------------ MODULE Payments ------------------------------
(***************************************************************************)
(* Buying credits with Alipay, WeChat pay and WeChat virtual goods: the    *)
(* orders of one user for one package, their payment records, the trades   *)
(* at the payment provider, and the balance that all of them and the       *)
(* administration top up while generations spend it.                       *)
(*                                                                         *)
(* Source: src/internal/app/alipay_handlers.go, wechat_handlers.go,        *)
(* payment_risk.go, finance_handlers.go, admin_user_handlers.go.           *)
(*                                                                         *)
(* The database runs at READ COMMITTED and no handler locks a row it only  *)
(* reads.  The transaction that credits an order writes the payment record *)
(* and the order first and the balance afterwards; the writes up to the    *)
(* read of the balance are one action, which leaves the rows locked, and   *)
(* the rest, with the commit, another.  What it wrote is seen at the       *)
(* commit.  The provider is external: a trade is paid, closed or refunded  *)
(* at any time, and what is known of it when it is asked, or told by a     *)
(* notification that may be late or repeated, may have changed when the    *)
(* answer is used.                                                         *)
(***************************************************************************)
EXTENDS Integers, FiniteSets

CONSTANTS
    MaxOrders,   \* orders are named by their row ids, in the order of creation
    Methods,     \* payment methods, among "alipay", "jsapi" and "virtual"
    Handlers,    \* requests served at one time
    OrderLimit,  \* paymentUserOrderLimit
    Credits,     \* credits of the package
    MaxRequests, \* bound on the requests
    MaxAdjusts   \* bound on those that are adjustments by an administrator

Orders == 1..MaxOrders
ASSUME PaymentsAssumption ==
    /\ {MaxOrders, OrderLimit, MaxRequests, MaxAdjusts} \subseteq Nat /\ Credits \in Nat \ {0}
    /\ Methods \subseteq {"alipay", "jsapi", "virtual"}

VARIABLES
    order,     \* FinanceOrder rows
    record,    \* status of the PaymentRecord row of an order
    trade,     \* the trade at the provider
    topups,    \* payment_topup rows of CreditTransaction for an order
    balance,   \* CreditBalance.AvailableCredits
    journal,   \* sum of the CreditTransaction rows
    request,   \* the requests under way
    requests,  \* requests made so far
    adjusts,   \* those that are adjustments
    overtaken  \* some write of the balance came between another's read and write

vars == <<order, record, trade, topups, balance, journal, request, requests, adjusts, overtaken>>

\* The age of an order: below 10 minutes (the window of the rate limit), below 30
\* minutes (the window of reuse), below 24 hours (paymentPendingMaxAge), above.
Fresh == 0
Reusable == 1
Stale == 3

NoOrder == [status |-> "absent", method |-> "none", age |-> Fresh]
Idle == [pc |-> "idle", order |-> 0, method |-> "none", creates |-> FALSE,
         answer |-> "none", read |-> 0]

OrderRow   == [status : {"absent", "pending", "paid", "failed", "expired", "refunded"},
               method : Methods \union {"none"}, age : Fresh..Stale]
RequestRow == [pc : {"idle", "limit", "insert", "pay", "ask", "answered",
                     "settle", "crediting", "adding", "deducting"},
               order : Orders \union {0}, method : Methods \union {"none"}, creates : BOOLEAN,
               answer : {"none", "open", "closed", "paid"}, read : Nat]

\* The rows keep their types.
PayTypeOK ==
    /\ order \in [Orders -> OrderRow]
    /\ record \in [Orders -> {"none", "created", "requested", "paid", "closed"}]
    /\ trade \in [Orders -> {"none", "open", "paid", "closed", "refunded"}]
    /\ topups \in [Orders -> Nat]
    /\ balance \in Nat /\ journal \in Int /\ {requests, adjusts} \subseteq Nat /\ overtaken \in BOOLEAN
    /\ request \in [Handlers -> RequestRow]

Init ==
    /\ order = [o \in Orders |-> NoOrder]
    /\ record = [o \in Orders |-> "none"]
    /\ trade = [o \in Orders |-> "none"]
    /\ topups = [o \in Orders |-> 0]
    /\ balance = 0 /\ journal = 0 /\ overtaken = FALSE
    /\ requests = 0 /\ adjusts = 0
    /\ request = [h \in Handlers |-> Idle]

-----------------------------------------------------------------------------
Is(h, pc) == request[h].pc = pc
Goes(h, r) == request' = [request EXCEPT ![h] = r] /\ UNCHANGED requests
Ends(h) == Goes(h, Idle)
Starts(h, r) ==
    /\ Is(h, "idle") /\ requests < MaxRequests
    /\ requests' = requests + 1
    /\ request' = [request EXCEPT ![h] = r]
At(h) == request[h].order
Known(o) == order[o].status # "absent"

\* The rows of an order that a transaction under way has written.
Locked(o) == \E h \in Handlers : Is(h, "crediting") /\ At(h) = o

\* expireStalePendingFinanceOrders: waits for the rows it would write.
Overdue == {o \in Orders : order[o].status = "pending" /\ order[o].age = Stale}
ExpireStale ==
    /\ \A o \in Overdue : ~Locked(o)
    /\ order' = [o \in Orders |-> IF o \in Overdue THEN [order[o] EXCEPT !.status = "expired"]
                                                   ELSE order[o]]

\* A pending order that ends without payment; any other status is left alone.
FailPending(o) ==
    order' = [order EXCEPT ![o].status = IF @ = "pending" THEN "failed" ELSE @]
\* markPaymentRecordClosed and markPaymentRecordRequested look at no earlier status.
Mark(o, status) == record' = [record EXCEPT ![o] = status]

Unpaid == <<topups, balance, journal, adjusts, overtaken>>

-----------------------------------------------------------------------------
(***************************************************************************)
(* Ordering and paying.                                                    *)
(***************************************************************************)

\* The newest order that reusablePendingFinanceOrder finds, if any.
ReusableOrders(m) == {o \in Orders : /\ order[o].status = "pending" /\ order[o].method = m
                                     /\ order[o].age <= Reusable}

\* handleCreateAlipayOrder, handleCreateWechatPayOrder, handleCreateWechatVirtualPayOrder:
\* stale orders expire first.
StartOrder(h, m) ==
    /\ ExpireStale
    /\ Starts(h, [Idle EXCEPT !.pc = "limit", !.method = m])
    /\ UNCHANGED <<record, trade, Unpaid>>

\* An Alipay order in reuse is the answer; one of virtual goods is synchronised first.
ReuseOrder(h) ==
    LET m == request[h].method IN
    /\ Is(h, "limit") /\ ~request[h].creates
    /\ ReusableOrders(m) # {}
    /\ \/ m = "alipay" /\ Ends(h)
       \/ m = "virtual" /\ \E o \in ReusableOrders(m) :
             /\ \A k \in ReusableOrders(m) : k <= o
             /\ Goes(h, [request[h] EXCEPT !.pc = "ask", !.creates = TRUE, !.order = o])
    /\ UNCHANGED <<order, record, trade, Unpaid>>

\* force_new of virtual goods: the client names the order that it wants replaced.
ForceOrder(h, o) ==
    /\ Is(h, "limit") /\ request[h].method = "virtual" /\ ~request[h].creates
    /\ order[o].method = "virtual"
    /\ IF order[o].status = "paid"
       THEN Ends(h)
       ELSE Goes(h, [request[h] EXCEPT !.creates = TRUE,
                       !.pc = IF order[o].status = "pending" THEN "ask" ELSE "limit",
                       !.order = IF order[o].status = "pending" THEN o ELSE 0])
    /\ UNCHANGED <<order, record, trade, Unpaid>>

\* enforcePaymentOrderRateLimit.  The limit by address is one more count of this
\* kind, which one user with one address never reaches first.
Recent == {o \in Orders : order[o].status \in {"pending", "paid"} /\ order[o].age = Fresh}
CheckLimit(h) ==
    /\ Is(h, "limit")
    /\ \/ request[h].method = "jsapi" \/ request[h].creates
       \/ ReusableOrders(request[h].method) = {}
    /\ IF Cardinality(Recent) >= OrderLimit
       THEN Ends(h) ELSE Goes(h, [request[h] EXCEPT !.pc = "insert"])
    /\ UNCHANGED <<order, record, trade, Unpaid>>

\* The order and its record are created in one transaction.  An Alipay order is
\* paid by a request of its own; the others ask for the parameters of the payment
\* at once, which may fail.
InsertOrder(h) ==
    /\ Is(h, "insert")
    /\ \E o \in Orders :
         /\ ~Known(o) /\ \A k \in 1..(o - 1) : Known(k)
         /\ order' = [order EXCEPT ![o] = [status |-> "pending", method |-> request[h].method,
                                           age |-> Fresh]]
         /\ Mark(o, "created")
         /\ \/ Ends(h)
            \/ request[h].method # "alipay" /\ Goes(h, [Idle EXCEPT !.pc = "pay", !.order = o])
    /\ UNCHANGED <<trade, Unpaid>>

\* handlePayAlipayOrder: an expired or paid order is refused, any other is paid.
PayAlipay(h, o) ==
    /\ order[o].method = "alipay"
    /\ ExpireStale
    /\ order'[o].status \notin {"expired", "paid"}
    /\ Starts(h, [Idle EXCEPT !.pc = "pay", !.order = o])
    /\ UNCHANGED <<record, trade, Unpaid>>

\* markPaymentRecordRequested; then the client has what it takes to pay.
Requested(h) ==
    /\ Is(h, "pay") /\ ~Locked(At(h))
    /\ Mark(At(h), "requested")
    /\ trade' = [trade EXCEPT ![At(h)] = IF @ = "none" THEN "open" ELSE @]
    /\ Ends(h)
    /\ UNCHANGED <<order, Unpaid>>

\* The list, the details and the export of orders, and the reading of an Alipay order.
ListOrders ==
    /\ Overdue # {} /\ ExpireStale
    /\ UNCHANGED <<record, trade, request, requests, Unpaid>>

TimePasses(o) ==
    /\ Known(o) /\ order[o].age < Stale
    /\ \A k \in 1..(o - 1) : order[k].age > order[o].age
    /\ order' = [order EXCEPT ![o].age = @ + 1]
    /\ UNCHANGED <<record, trade, request, requests, Unpaid>>

\* The provider.
Trade(o, from, to) ==
    /\ trade[o] = from
    /\ trade' = [trade EXCEPT ![o] = to]
    /\ UNCHANGED <<order, record, request, requests, Unpaid>>
Provider(o) == Trade(o, "open", "paid") \/ Trade(o, "open", "closed") \/ Trade(o, "paid", "refunded")

-----------------------------------------------------------------------------
(***************************************************************************)
(* Learning of a payment.                                                  *)
(***************************************************************************)

\* handleQueryAlipayOrder, handleAdminSyncFinanceOrderPayment, handleQueryWechatPayOrder
\* and handleConfirmWechatVirtualPayOrder: the provider is asked about an order that
\* is not paid.  The Alipay query of a user lets stale orders expire first.
AskAbout(h, o, expires) ==
    /\ order[o].status \notin {"absent", "paid"}
    /\ expires => order[o].method = "alipay"
    /\ IF expires THEN ExpireStale ELSE UNCHANGED order
    /\ Starts(h, [Idle EXCEPT !.pc = "ask", !.order = o])
    /\ UNCHANGED <<record, trade, Unpaid>>

\* What the provider says of a trade, as far as the handlers tell it apart.  Alipay
\* (QueryTrade) calls a refunded trade closed, ...
AlipayAnswer(t) == IF t = "paid" THEN "paid" ELSE IF t \in {"none", "open"} THEN "open" ELSE "closed"
\* ... in a JSAPI trade (QueryOrder) REFUND is neither SUCCESS nor one of the states
\* that end it, ...
JsapiAnswer(t) == IF t = "refunded" THEN "open" ELSE AlipayAnswer(t)
\* ... and virtual goods, by the numbers of their states, are terminal when refunded.
VirtualAnswer(t) == AlipayAnswer(t)
Answer(o) == CASE order[o].method = "alipay"  -> AlipayAnswer(trade[o])
               [] order[o].method = "jsapi"   -> JsapiAnswer(trade[o])
               [] OTHER                       -> VirtualAnswer(trade[o])

\* markAlipayQueryReceived, markWechatQueryReceived and their like count an answer and
\* keep its summary or error in the record, whose status stays.
Noted == UNCHANGED record

\* The answer, or no usable one: the query failed, or is about another order, payer or amount.
Asked(h) ==
    /\ Is(h, "ask")
    /\ \/ Goes(h, [request[h] EXCEPT !.pc = "answered", !.answer = Answer(At(h))])
       \/ Ends(h)
    /\ Noted
    /\ UNCHANGED <<order, trade, Unpaid>>

\* Where a request that only wanted to know stops, and one that replaces an order goes on.
GoesOn(h) ==
    IF request[h].creates
    THEN Goes(h, [request[h] EXCEPT !.pc = "limit", !.order = 0, !.answer = "none"])
    ELSE Ends(h)

\* Still open.  Synchronising an order to be replaced either answers with it, or
\* goes on to another one beside it (force_new), ...
AnsweredOpen(h) ==
    /\ Is(h, "answered") /\ request[h].answer = "open"
    /\ Ends(h) \/ GoesOn(h)
    /\ Noted
    /\ UNCHANGED <<order, trade, Unpaid>>
\* ... closing the old one when the client says that it is closed.
ReplaceOpen(h) ==
    /\ Is(h, "answered") /\ request[h].answer = "open" /\ request[h].creates
    /\ ~Locked(At(h))
    /\ FailPending(At(h)) /\ Mark(At(h), "closed")
    /\ GoesOn(h)
    /\ UNCHANGED <<trade, Unpaid>>

\* Closed at the provider; the confirmation of virtual goods leaves the record alone.
AnsweredClosed(h) ==
    /\ Is(h, "answered") /\ request[h].answer = "closed"
    /\ ~Locked(At(h))
    /\ FailPending(At(h))
    /\ IF order[At(h)].method = "virtual" /\ ~request[h].creates
       THEN Noted ELSE Mark(At(h), "closed")
    /\ GoesOn(h)
    /\ UNCHANGED <<trade, Unpaid>>

AnsweredPaid(h) ==
    /\ Is(h, "answered") /\ request[h].answer = "paid"
    /\ Goes(h, [Idle EXCEPT !.pc = "settle", !.order = At(h)])
    /\ UNCHANGED <<order, record, trade, Unpaid>>

\* handleAlipayNotify and handleWechatPayNotify: any time after the payment, and again.
NotifyPaid(h, o) ==
    /\ order[o].method \in {"alipay", "jsapi"}
    /\ trade[o] \in {"paid", "refunded"}
    /\ Starts(h, [Idle EXCEPT !.pc = "settle", !.order = o])
    /\ UNCHANGED <<order, record, trade, Unpaid>>
\* A closed Alipay trade closes the record and leaves the order pending.
NotifyClosed(o) ==
    /\ order[o].method = "alipay" /\ trade[o] \in {"closed", "refunded"} /\ ~Locked(o)
    /\ Mark(o, "closed")
    /\ UNCHANGED <<order, trade, request, requests, Unpaid>>

-----------------------------------------------------------------------------
(***************************************************************************)
(* Crediting an order: completeAlipayOrder, completeWechatOrder and        *)
(* completeWechatVirtualOrder.                                             *)
(***************************************************************************)

\* The compare-and-set of the order hits a row, ...
CanSettleUnchecked(o) == order[o].status # "paid"  \* mutant
CanSettle(o) == order[o].status = "pending"

\* ... or the order has ended already: the record says paid, and that is all.
SettleEnded(h) ==
    /\ Is(h, "settle") /\ ~Locked(At(h)) /\ ~CanSettle(At(h))
    /\ Mark(At(h), "paid")
    /\ Ends(h)
    /\ UNCHANGED <<order, trade, Unpaid>>

\* Up to the read of the balance.
SettlePending(h) ==
    /\ Is(h, "settle") /\ ~Locked(At(h)) /\ CanSettle(At(h))
    /\ Goes(h, [request[h] EXCEPT !.pc = "crediting", !.read = balance])
    /\ UNCHANGED <<order, record, trade, Unpaid>>

\* Requests that have read the balance and will write what they make of it.
Holding == {h \in Handlers : request[h].pc \in {"crediting", "adding", "deducting"}}
Write(b, amount, others) ==
    /\ balance' = b
    /\ journal' = journal + amount
    /\ overtaken' = (overtaken \/ Holding \cap others # {})

\* The balance, the top-up row and the commit.  Only the WeChat handlers leave the
\* balance alone when the order has a top-up row.
CreditAlipayRows(h) ==  \* mutant
    LET o == At(h) IN
    /\ Is(h, "crediting")
    /\ order' = [order EXCEPT ![o].status = "paid"] /\ Mark(o, "paid")
    /\ Write(request[h].read + Credits, Credits, Handlers \ {h})
    /\ topups' = [topups EXCEPT ![o] = IF order[o].method = "alipay" THEN @ + 1 ELSE @]
    /\ Ends(h)
    /\ UNCHANGED <<trade, adjusts>>
Credit(h) ==
    LET o == At(h)
        new == topups[o] = 0
        adds == new \/ order[o].method = "alipay"
    IN
    /\ Is(h, "crediting")
    /\ order' = [order EXCEPT ![o].status = "paid"]
    /\ Mark(o, "paid")
    /\ Write(IF adds THEN request[h].read + Credits ELSE balance,
             IF new THEN Credits ELSE 0, IF adds THEN Handlers \ {h} ELSE {})
    /\ topups' = [topups EXCEPT ![o] = IF new THEN @ + 1 ELSE @]
    /\ Ends(h)
    /\ UNCHANGED <<trade, adjusts>>

\* The transaction fails and is rolled back; so is the request when the process dies.
Aborts(h) ==
    /\ ~Is(h, "idle")
    /\ Ends(h)
    /\ UNCHANGED <<order, record, trade, Unpaid>>

\* deductGenerationCredits: one conditional statement.
SpendUnchecked ==  \* mutant
    /\ Write(balance - 1, -1, Handlers)
    /\ UNCHANGED <<order, record, trade, topups, request, requests, adjusts>>
Spend ==
    /\ balance >= 1
    /\ Write(balance - 1, -1, Handlers)
    /\ UNCHANGED <<order, record, trade, topups, request, requests, adjusts>>

\* applyAdminCreditAdjustment: a read, and later a write of what follows from it.
Adjust(h, way) ==
    /\ adjusts < MaxAdjusts
    /\ way = "deducting" => balance >= 1
    /\ adjusts' = adjusts + 1
    /\ Starts(h, [Idle EXCEPT !.pc = way, !.read = balance])
    /\ UNCHANGED <<order, record, trade, topups, balance, journal, overtaken>>
AdjustedUp(h) ==  \* mutant
    /\ request[h].pc \in {"adding", "deducting"}
    /\ Write(request[h].read + 1, IF Is(h, "adding") THEN 1 ELSE -1, Handlers \ {h})
    /\ Ends(h)
    /\ UNCHANGED <<order, record, trade, topups, adjusts>>
Adjusted(h) ==
    /\ request[h].pc \in {"adding", "deducting"}
    /\ LET amount == IF Is(h, "adding") THEN 1 ELSE -1
       IN  Write(request[h].read + amount, amount, Handlers \ {h})
    /\ Ends(h)
    /\ UNCHANGED <<order, record, trade, topups, adjusts>>

\* handleUpdateFinanceRefund: a completed refund of the whole amount of an order that
\* was paid for.  The order's status is not looked at, and its credits stay.
Refund(o) ==
    /\ trade[o] \in {"paid", "refunded"} /\ ~Locked(o)
    /\ order' = [order EXCEPT ![o].status = "refunded"]
    /\ UNCHANGED <<record, trade, request, requests, Unpaid>>

-----------------------------------------------------------------------------
Serve(h) ==
    \/ ReuseOrder(h) \/ CheckLimit(h) \/ InsertOrder(h) \/ Requested(h) \/ Asked(h)
    \/ AnsweredOpen(h) \/ ReplaceOpen(h) \/ AnsweredClosed(h) \/ AnsweredPaid(h)
    \/ SettleEnded(h) \/ SettlePending(h) \/ Credit(h) \/ Adjusted(h) \/ Aborts(h)
    \/ \E m \in Methods : StartOrder(h, m)
    \/ \E way \in {"adding", "deducting"} : Adjust(h, way)
    \/ \E o \in Orders : \/ ForceOrder(h, o) \/ PayAlipay(h, o) \/ NotifyPaid(h, o)
                         \/ \E expires \in BOOLEAN : AskAbout(h, o, expires)

Next ==
    \/ \E h \in Handlers : Serve(h)
    \/ \E o \in Orders : Provider(o) \/ NotifyClosed(o) \/ Refund(o) \/ TimePasses(o)
    \/ ListOrders \/ Spend

Spec == Init /\ [][Next]_vars

-----------------------------------------------------------------------------
\* However often and in whatever order notifications, queries, synchronisations and
\* confirmations settle an order, its credits are issued once, to an order that was
\* paid for, and an order that is paid has them.
ToppedUpOnce ==
    \A o \in Orders :
        /\ topups[o] <= 1
        /\ order[o].status = "paid" => topups[o] = 1
        /\ topups[o] = 1 => /\ order[o].status \in {"paid", "refunded"}
                            /\ trade[o] \in {"paid", "refunded"}

\* The balance is what the journal adds up to, unless a write of the balance came
\* between the read and the write of a request that credits or adjusts it.
BalanceIsJournal == overtaken \/ balance = journal

\* An order that is paid is never again anything but refunded, and one that has
\* failed or expired is not paid by a late or repeated answer.
OrderEndsOnce ==
    [][\A o \in Orders : order'[o].status # order[o].status =>
          \/ order[o].status \in {"absent", "pending"}
          \/ order'[o].status = "refunded"]_vars

\* What completeAlipayOrder says of an update without a row: another callback has
\* settled the order.  So an order whose payment is recorded, and has not been
\* returned, has its credits.
CollectedIsCredited ==
    \A o \in Orders : record[o] = "paid" /\ trade[o] = "paid" => order[o].status \in {"paid", "refunded"}
=============================================================================
