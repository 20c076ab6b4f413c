----------------------------- MODULE RechargePage -----------------------------
(* The recharge page (views/recharge) over the server's orders               *)
(* (services/billing_service): orders that are created, shown as the one to  *)
(* be paid, listed by status and paid; and the balance of the user, which    *)
(* the auth store holds and a payment must renew.  Every request takes a     *)
(* while, and may be lost before the server or after it.                     *)
EXTENDS Naturals, FiniteSets

CONSTANTS MaxOrders,     \* orders created
          MaxShopActs,   \* what the user does and what is lost, all in all
          MaxShopFails,  \* requests that are lost
          MaxShopLists   \* lists on their way before another tab is chosen

ASSUME RechargeAssumption == {MaxOrders, MaxShopActs, MaxShopFails, MaxShopLists} \subseteq Nat

OrderNumbers == 1..MaxOrders
OrderTabs == {"all", "NOT_PAY", "SUCCEED"}   \* the tab of failed orders is always empty

VARIABLES
    shop,    \* the page: currentTradeNo (0: none), paying, activeTab, orders, the balance shown;
              \* known: the orders there were when the list shown was made
    ledgerOf, \* the server: the status of each order; its payments are the balance
    asks,    \* requests on their way
    journal  \* budgets; what went wrong on the way

shopVars == <<shop, ledgerOf, asks, journal>>

Paid == {o \in OrderNumbers : ledgerOf[o] = "SUCCEED"}
ListedOn(tab) == {o \in OrderNumbers : ledgerOf[o] # "none" /\ (tab = "all" \/ ledgerOf[o] = tab)}

Asks == [op : {"create", "pay", "user", "orders"}, order : 0..MaxOrders, tab : OrderTabs,
         chained : BOOLEAN, done : BOOLEAN, orders : SUBSET (OrderNumbers \X {"NOT_PAY", "SUCCEED"}),
         known : SUBSET OrderNumbers, balance : SUBSET OrderNumbers, n : Nat]

RechargeTypeOK ==
    /\ shop \in [current : 0..MaxOrders, paying : BOOLEAN, tab : OrderTabs,
                 listed : SUBSET (OrderNumbers \X {"NOT_PAY", "SUCCEED"}),
                 known : SUBSET OrderNumbers, balance : SUBSET OrderNumbers, left : BOOLEAN]
    /\ journal \in [acts : 0..MaxShopActs, fails : 0..MaxShopFails, slips : SUBSET {"crossed", "lost"}]
    /\ ledgerOf \in [OrderNumbers -> {"none", "NOT_PAY", "SUCCEED"}]
    /\ asks \subseteq Asks

Ask(op, o, chained) ==
    [op |-> op, order |-> o, tab |-> shop.tab, chained |-> chained, done |-> FALSE,
     orders |-> {}, known |-> {}, balance |-> {}, n |-> journal.acts]

RechargeInit ==
    /\ shop = [current |-> 0, paying |-> FALSE, tab |-> "all", listed |-> {}, known |-> {},
               balance |-> {}, left |-> FALSE]
    /\ ledgerOf = [o \in OrderNumbers |-> "none"]
    /\ journal = [acts |-> 0, fails |-> 0, slips |-> {}]
    /\ asks = {Ask("orders", 0, FALSE)}

ListsOnTheirWay == {a \in asks : a.op = "orders"}
ListOnItsWay == ListsOnTheirWay # {}

Shops == journal.acts + journal.fails < MaxShopActs /\ ~shop.left
Shopped == [journal EXCEPT !.acts = @ + 1]

(* createOrder, from the card of a package.                                  *)
CreateOrder ==
    /\ Shops /\ ~shop.paying /\ \E o \in OrderNumbers : ledgerOf[o] = "none"
    /\ shop' = [shop EXCEPT !.paying = TRUE]
    /\ asks' = asks \cup {Ask("create", 0, FALSE)}
    /\ journal' = Shopped
    /\ UNCHANGED ledgerOf

(* The orders that can be paid from the page: the one shown, and the rows    *)
(* that say so.                                                              *)
Payable == {o \in OrderNumbers : o = shop.current \/ <<o, "NOT_PAY">> \in shop.listed}

(* mockPay.                                                                  *)
MockPay(o) ==
    /\ Shops /\ ~shop.paying /\ o \in Payable
    /\ shop' = [shop EXCEPT !.paying = TRUE]
    /\ asks' = asks \cup {Ask("pay", o, FALSE)}
    /\ journal' = Shopped
    /\ UNCHANGED ledgerOf

(* getOrders, of another tab; nothing keeps it from crossing an earlier one. *)
ChooseTab(t) ==
    /\ Shops /\ t # shop.tab /\ Cardinality(ListsOnTheirWay) < MaxShopLists
    /\ shop' = [shop EXCEPT !.tab = t]
    /\ asks' = asks \cup {[Ask("orders", 0, FALSE) EXCEPT !.tab = t]}
    /\ journal' = [Shopped EXCEPT !.slips =
                     @ \cup IF ListOnItsWay THEN {"crossed"} ELSE {}]
    /\ UNCHANGED ledgerOf

(* The number of a new order.                                                *)
NextOrder ==
    CHOOSE o \in OrderNumbers : ledgerOf[o] = "none" /\ \A p \in 1..(o - 1) : ledgerOf[p] # "none"

(* The server: create_order, mock_pay (an order that is paid stays so),      *)
(* list_orders and the balance of the user.                                  *)
Served(a) ==
    [a EXCEPT !.done = TRUE, !.order = IF a.op = "create" THEN NextOrder ELSE @,
              !.orders = IF a.op = "orders" THEN {<<o, ledgerOf[o]>> : o \in ListedOn(a.tab)} ELSE {},
              !.known = IF a.op = "orders" THEN ListedOn("all") ELSE {},
              !.balance = IF a.op = "user" THEN Paid ELSE {}]

ServeAsk(a) ==
    /\ ~a.done
    /\ ledgerOf' = CASE a.op = "create" -> [ledgerOf EXCEPT ![NextOrder] = "NOT_PAY"]
                     [] a.op = "pay" -> [ledgerOf EXCEPT ![a.order] = "SUCCEED"]
                     [] OTHER -> ledgerOf
    /\ asks' = (asks \ {a}) \cup {Served(a)}
    /\ UNCHANGED <<shop, journal>>

(* What mockPay waits for first once the payment succeeded: initUserInfo.    *)
AfterPayment == "user"

(* The list fetched after a payment is that of the tab chosen by then.       *)
RenewedTab == shop.tab

(* An answer.  A payment renews the user, then the orders, and only then     *)
(* lets go of the buttons.                                                   *)
AnswerAsk(a) ==
    /\ a.done
    /\ CASE a.op = "create" ->
              /\ shop' = [shop EXCEPT !.current = a.order, !.paying = FALSE]
              /\ asks' = asks \ {a}
         [] a.op = "pay" ->
              /\ shop' = [shop EXCEPT !.current = 0]
              /\ asks' = (asks \ {a}) \cup {Ask(AfterPayment, 0, TRUE)}
         [] a.op = "user" ->
              /\ shop' = [shop EXCEPT !.balance = a.balance]
              /\ asks' = (asks \ {a}) \cup {[Ask("orders", 0, TRUE) EXCEPT !.tab = RenewedTab]}
         [] a.op = "orders" ->
              /\ shop' = [shop EXCEPT !.listed = a.orders, !.known = a.known,
                                      !.paying = IF a.chained THEN FALSE ELSE @]
              /\ asks' = asks \ {a}
    /\ journal' = [journal EXCEPT !.slips =
                     @ \cup IF a.op = "user" /\ ListOnItsWay THEN {"crossed"} ELSE {}]
    /\ UNCHANGED ledgerOf

(* A request is lost.  When the user cannot be renewed, initUserInfo ends    *)
(* the session.                                                              *)
LoseAsk(a) ==
    /\ journal.fails < MaxShopFails
    /\ IF a.op = "user"
       THEN /\ shop' = [shop EXCEPT !.left = TRUE, !.paying = FALSE]
            /\ asks' = {}
       ELSE /\ shop' = [shop EXCEPT !.paying = IF a.op = "orders" /\ ~a.chained THEN @ ELSE FALSE]
            /\ asks' = asks \ {a}
    /\ journal' = [journal EXCEPT !.fails = @ + 1, !.slips = @ \cup {"lost"}]
    /\ UNCHANGED ledgerOf

RechargeNext ==
    \/ CreateOrder
    \/ \E o \in OrderNumbers : MockPay(o)
    \/ \E t \in OrderTabs : ChooseTab(t)
    \/ \E a \in asks : ServeAsk(a) \/ AnswerAsk(a) \/ LoseAsk(a)

RechargeSpec == RechargeInit /\ [][RechargeNext]_shopVars

-----------------------------------------------------------------------------
(* The order shown as the one to be paid is one that is not paid - unless    *)
(* the answer to its payment was lost, in which case it is offered again.    *)
CurrentIsUnpaid ==
    shop.current # 0 /\ "lost" \notin journal.slips /\ ~shop.paying
        => ledgerOf[shop.current] = "NOT_PAY"

(* An order that is not paid can be paid from the page once a list was       *)
(* fetched after its creation, by its row or as the one shown - unless two   *)
(* lists crossed or one was lost, and not while the paid ones are listed.    *)
(* (Before that list, an order whose place another one took is offered       *)
(* nowhere.)                                                                 *)
UnpaidIsOffered ==
    journal.slips = {} /\ asks = {} /\ shop.tab # "SUCCEED" =>
        {o \in shop.known : ledgerOf[o] = "NOT_PAY"} \subseteq Payable

(* When the buttons of a payment are free again, the balance shown counts    *)
(* every payment - unless an answer was lost.                                *)
BalanceIsRenewed ==
    ~shop.paying /\ "lost" \notin journal.slips => shop.balance = Paid

(* There is one request the buttons wait for; an order that is to be created *)
(* has a number, and one that was is not paid yet.                           *)
Busy(a) == a.op # "orders" \/ a.chained
BusyOnce ==
    /\ \A a, b \in asks : Busy(a) /\ Busy(b) => a = b
    /\ \A a \in asks : Busy(a) => shop.paying
    /\ \A a \in asks : a.op = "create" /\ ~a.done => \E o \in OrderNumbers : ledgerOf[o] = "none"
    /\ \A a \in asks : a.op = "pay" \/ (a.op = "create" /\ a.done) => a.order \in OrderNumbers
    /\ \A a \in asks : a.op = "create" /\ a.done => ledgerOf[a.order] = "NOT_PAY"

(* Short of a loss, a payment that was made is about to be shown, and orders *)
(* and balance are right otherwise.                                          *)
PaymentAwaited ==
    "lost" \notin journal.slips =>
        /\ shop.paying => \E a \in asks : Busy(a)
        /\ \A a \in asks : a.op = "user" /\ a.done => a.balance = Paid
        /\ \/ shop.balance = Paid
           \/ \E a \in asks : a.op = "user" \/ (a.op = "pay" /\ a.done)
        /\ \/ shop.current = 0 \/ ledgerOf[shop.current] = "NOT_PAY"
           \/ \E a \in asks : a.op = "pay" /\ a.done

(* A list has every order that was there and is still unpaid, on the tabs    *)
(* that show such; and short of crossings it is the tab's.                   *)
HasUnpaid(rows, known, tab) ==
    tab # "SUCCEED" => \A o \in known : ledgerOf[o] = "NOT_PAY" => <<o, "NOT_PAY">> \in rows
Exist(known) == \A o \in known : ledgerOf[o] # "none"
ListsCover ==
    /\ Exist(shop.known) /\ \A a \in asks : Exist(a.known)
    /\ \A a \in asks : a.op = "orders" /\ a.done => HasUnpaid(a.orders, a.known, a.tab)
    /\ journal.slips = {} =>
         /\ \A a \in asks : a.op = "orders" => a.tab = shop.tab
         /\ ListOnItsWay \/ HasUnpaid(shop.listed, shop.known, shop.tab)

RechargeInv ==
    /\ RechargeTypeOK /\ BusyOnce /\ PaymentAwaited /\ ListsCover
    /\ CurrentIsUnpaid /\ UnpaidIsOffered /\ BalanceIsRenewed
=============================================================================
