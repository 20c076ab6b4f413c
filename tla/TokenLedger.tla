----------------------------- MODULE TokenLedger -----------------------------
(***************************************************************************)
(* The token ledger (app/services/billing_service.py and                   *)
(* app/repositories/billing_repository.py) under the requests that use it: *)
(* paid chat turns, document ingestion, retrieval, recharge orders and     *)
(* administrators' grants.                                                 *)
(*                                                                         *)
(* A request works in a MySQL session of its own, at InnoDB's default      *)
(* isolation (app/core/database.py sets none): its first query takes a     *)
(* snapshot of the committed data, every later read of the transaction     *)
(* sees that snapshot, and its writes become visible at the commit.  What  *)
(* a transaction inserts between is visible to nobody, so an insert and    *)
(* the commit that follows it are one step.  Only an UPDATE locks: it      *)
(* waits for the row and then works on its latest version.                 *)
(***************************************************************************)
EXTENDS Integers, FiniteSets, Functions

CONSTANTS
  User, Session, Order, Turn,
  Award,             \* what an order or a grant may add, per token type
  MaxAmount,         \* the most tokens one charge may ask for
  MaxIncrease,       \* grants stop when an account has received this much
  MaxAborts,         \* requests that may fail or crash midway
  NoUser, NoOrder, NoTurn, NoSnap

TokenType == {"LLM", "EMBEDDING"}
Account == User \X TokenType

ASSUME LedgerAssumption ==
  /\ IsFiniteSet(Session) /\ Session # {}
  /\ IsFiniteSet(Order)
  /\ Award \subseteq [TokenType -> Nat]
  /\ MaxAmount \in Nat \ {0}
  /\ MaxIncrease \in Nat
  /\ MaxAborts \in Nat
  /\ NoUser \notin User
  /\ NoOrder \notin Order
  /\ NoTurn \notin Turn

OrderRow == [user : User, status : {"NOT_PAY", "SUCCEED"}, tokens : Award]

(* What a transaction can see of the database: the balances of its user    *)
(* and the orders it may pay.                                              *)
Snapshot == [balance : [TokenType -> Int], payable : SUBSET Order]

ASSUME LedgerAbsence ==
  /\ NoOrder \notin OrderRow
  /\ NoSnap \notin Snapshot

VARIABLES
  increase,   \* user_token_records: the sum of the INCREASE rows of an account
  consume,    \* user_token_records: the sum of the CONSUME rows
  orders,     \* recharge_orders
  turns,      \* conversations: the user of each recorded turn of a paid model
  pc,         \* where the request of a session stands
  who,        \* the user it works for
  snap,       \* the snapshot of its transaction
  asked,      \* the tokens it is about to charge
  doing,      \* the order it pays, or the turn it bills
  granted,    \* history: tokens given by administrators
  credits,    \* history: how often each order was credited
  aborts      \* requests that failed midway so far

tables == <<increase, consume, orders, turns>>
request == <<pc, who, snap, asked, doing>>
ghosts == <<granted, credits, aborts>>
vars == <<increase, consume, orders, turns, pc, who, snap, asked, doing,
          granted, credits, aborts>>

Init ==
  /\ increase = [a \in Account |-> 0]
  /\ consume = [a \in Account |-> 0]
  /\ orders = [o \in Order |-> NoOrder]
  /\ turns = [t \in Turn |-> NoUser]
  /\ pc = [s \in Session |-> "idle"]
  /\ who = [s \in Session |-> NoUser]
  /\ snap = [s \in Session |-> NoSnap]
  /\ asked = [s \in Session |-> 0]
  /\ doing = [s \in Session |-> NoTurn]
  /\ granted = [a \in Account |-> 0]
  /\ credits = [o \in Order |-> 0]
  /\ aborts = 0

(* get_token_balance over the committed rows.                              *)
Balance(a) == increase[a] - consume[a]

(***************************************************************************)
(* Transactions.                                                           *)
(***************************************************************************)
TakeSnapshot(s, u) ==
  snap' = [snap EXCEPT ![s] =
    [balance |-> [k \in TokenType |-> Balance(<<u, k>>)],
     payable |-> {o \in Order : /\ orders[o] # NoOrder
                                /\ orders[o].user = u
                                /\ orders[o].status = "NOT_PAY"}]]

(* A commit or a rollback ends the transaction; the request moves on.      *)
EndTransaction(s, label) ==
  /\ pc' = [pc EXCEPT ![s] = label]
  /\ snap' = [snap EXCEPT ![s] = NoSnap]

(* ... and is over.                                                        *)
EndRequest(s) ==
  /\ EndTransaction(s, "idle")
  /\ who' = [who EXCEPT ![s] = NoUser]
  /\ asked' = [asked EXCEPT ![s] = 0]
  /\ doing' = [doing EXCEPT ![s] = NoTurn]

Sees(s, k) == snap[s].balance[k]
Open(s) == pc[s] = "open"

(* The first query of a request: the bearer of the token, or the document. *)
Begin(s) ==
  /\ pc[s] = "idle"
  /\ \E u \in User :
       /\ who' = [who EXCEPT ![s] = u]
       /\ TakeSnapshot(s, u)
  /\ pc' = [pc EXCEPT ![s] = "open"]
  /\ UNCHANGED <<tables, asked, doing, ghosts>>

(* A request that only reads, or is refused, rolls back when it ends.      *)
Close(s) ==
  /\ pc[s] \in {"open", "refused"}
  /\ EndRequest(s)
  /\ UNCHANGED <<tables, ghosts>>

(* An exception, a cancelled request or a crash: the rows not committed    *)
(* and the locks are gone.                                                 *)
Abort(s) ==
  /\ pc[s] \notin {"idle", "open", "refused"}
  /\ aborts < MaxAborts
  /\ aborts' = aborts + 1
  /\ EndRequest(s)
  /\ UNCHANGED <<tables, granted, credits>>

(***************************************************************************)
(* Charges.                                                                *)
(***************************************************************************)
(* add_token_record of a CONSUME row, and its commit.                      *)
Charge(s, k, n) ==
  consume' = [consume EXCEPT ![<<who[s], k>>] = @ + n]

(* Mutant: the balance is not compared.                                    *)
ConsumeQueryUnchecked(s) ==
  /\ Open(s)
  /\ \E n \in 1..MaxAmount : Charge(s, "EMBEDDING", n)
  /\ EndRequest(s)
  /\ UNCHANGED <<increase, orders, turns, ghosts>>

(* A retrieval charges for the vector of its query.                        *)
ConsumeQuery(s) ==
  /\ Open(s)
  /\ \E n \in 1..MaxAmount :
       /\ Sees(s, "EMBEDDING") >= n
       /\ Charge(s, "EMBEDDING", n)
  /\ EndRequest(s)
  /\ UNCHANGED <<increase, orders, turns, ghosts>>

(* Mutant: one token is enough to embed any document.                      *)
EnsureIngestOne(s) ==
  /\ Open(s)
  /\ \E n \in 1..MaxAmount :
       /\ Sees(s, "EMBEDDING") >= 1
       /\ asked' = [asked EXCEPT ![s] = n]
  /\ pc' = [pc EXCEPT ![s] = "embed"]
  /\ UNCHANGED <<tables, who, snap, doing, ghosts>>

(* Ingestion makes sure of the tokens, has the chunks embedded ...         *)
EnsureIngest(s) ==
  /\ Open(s)
  /\ \E n \in 1..MaxAmount :
       /\ Sees(s, "EMBEDDING") >= n
       /\ asked' = [asked EXCEPT ![s] = n]
  /\ pc' = [pc EXCEPT ![s] = "embed"]
  /\ UNCHANGED <<tables, who, snap, doing, ghosts>>

(* ... and charges for them in the transaction that made sure.             *)
ConsumeIngest(s) ==
  /\ pc[s] = "embed"
  /\ IF Sees(s, "EMBEDDING") >= asked[s]
     THEN /\ Charge(s, "EMBEDDING", asked[s])
          /\ EndRequest(s)
     ELSE /\ pc' = [pc EXCEPT ![s] = "refused"]
          /\ UNCHANGED <<consume, who, snap, asked, doing>>
  /\ UNCHANGED <<increase, orders, turns, ghosts>>

(* A paid chat is admitted with one token; how many it will use is known   *)
(* at its end.                                                             *)
Admit(s) ==
  /\ Open(s)
  /\ Sees(s, "LLM") >= 1
  /\ EndTransaction(s, "stream")
  /\ UNCHANGED <<tables, who, asked, doing, ghosts>>

(* The answer is complete: record_turn commits it, and the usage is        *)
(* estimated from its length.                                              *)
RecordTurn(s) ==
  /\ pc[s] = "stream"
  /\ \E t \in Turn, n \in 1..MaxAmount :
       /\ turns[t] = NoUser
       /\ turns' = [turns EXCEPT ![t] = who[s]]
       /\ asked' = [asked EXCEPT ![s] = n]
       /\ doing' = [doing EXCEPT ![s] = t]
  /\ EndTransaction(s, "bill")
  /\ UNCHANGED <<increase, consume, orders, who, ghosts>>

(* The user stopped the answer or left: nothing is recorded or charged.    *)
StopTurn(s) ==
  /\ pc[s] = "stream"
  /\ EndRequest(s)
  /\ UNCHANGED <<tables, ghosts>>

(* consume_tokens reads the balance in a new transaction ...               *)
BillRead(s) ==
  /\ pc[s] = "bill"
  /\ TakeSnapshot(s, who[s])
  /\ pc' = [pc EXCEPT ![s] = "billCheck"]
  /\ UNCHANGED <<tables, who, asked, doing, ghosts>>

(* ... and charges, or refuses with 402.                                   *)
BillTurn(s) ==
  /\ pc[s] = "billCheck"
  /\ IF Sees(s, "LLM") >= asked[s]
     THEN Charge(s, "LLM", asked[s])
     ELSE UNCHANGED consume
  /\ EndRequest(s)
  /\ UNCHANGED <<increase, orders, turns, granted, credits, aborts>>

(***************************************************************************)
(* Credits.                                                                *)
(***************************************************************************)
(* add_tokens: INCREASE rows for the types that get any.                   *)
Grant(s) ==
  /\ Open(s)
  /\ \E u \in User, tokens \in Award :
       /\ \E k \in TokenType : tokens[k] > 0
       /\ \A k \in TokenType : increase[<<u, k>>] + tokens[k] <= MaxIncrease
       /\ increase' = [a \in Account |->
            increase[a] + IF a[1] = u THEN tokens[a[2]] ELSE 0]
       /\ granted' = [a \in Account |->
            granted[a] + IF a[1] = u THEN tokens[a[2]] ELSE 0]
  /\ EndRequest(s)
  /\ UNCHANGED <<consume, orders, turns, credits, aborts>>

(* A new trade number; the row copies what the package is worth now.       *)
CreateOrder(s) ==
  /\ Open(s)
  /\ \E o \in Order, tokens \in Award :
       /\ orders[o] = NoOrder
       /\ orders' = [orders EXCEPT ![o] =
            [user |-> who[s], status |-> "NOT_PAY", tokens |-> tokens]]
  /\ EndRequest(s)
  /\ UNCHANGED <<increase, consume, turns, ghosts>>

(* Mutant: an order that is paid already is paid again.                    *)
PayAgain(s) ==
  /\ Open(s)
  /\ \E o \in Order :
       /\ orders[o] # NoOrder /\ orders[o].user = who[s]
       /\ doing' = [doing EXCEPT ![s] = o]
  /\ pc' = [pc EXCEPT ![s] = "lock"]
  /\ UNCHANGED <<tables, who, snap, asked, ghosts>>

(* mock_pay finds an order of the user that its snapshot shows unpaid; one *)
(* it shows paid is returned as it is.                                     *)
Pay(s) ==
  /\ Open(s)
  /\ \E o \in snap[s].payable : doing' = [doing EXCEPT ![s] = o]
  /\ pc' = [pc EXCEPT ![s] = "lock"]
  /\ UNCHANGED <<tables, who, snap, asked, ghosts>>

Locked(o) == \E s \in Session : pc[s] = "paid" /\ doing[s] = o

(* Mutant: the UPDATE asks for a row that is still unpaid, and waits.      *)
PayLockUnpaid(s) ==
  /\ pc[s] = "lock"
  /\ ~Locked(doing[s])
  /\ orders[doing[s]].status = "NOT_PAY"
  /\ pc' = [pc EXCEPT ![s] = "paid"]
  /\ UNCHANGED <<tables, who, snap, asked, doing, ghosts>>

(* The autoflush of the first INCREASE row sends the UPDATE of the order:  *)
(* it waits for the transaction that holds the row.                        *)
PayLock(s) ==
  /\ pc[s] = "lock"
  /\ ~Locked(doing[s])
  /\ pc' = [pc EXCEPT ![s] = "paid"]
  /\ UNCHANGED <<tables, who, snap, asked, doing, ghosts>>

(* What an order adds to an account.                                       *)
Worth(o, a) == IF orders[o].user = a[1] THEN orders[o].tokens[a[2]] ELSE 0

(* Mutant: only the LLM tokens are credited.                               *)
PayCommitLLM(s) ==
  /\ pc[s] = "paid"
  /\ orders' = [orders EXCEPT ![doing[s]].status = "SUCCEED"]
  /\ increase' = [a \in Account |-> increase[a] +
                    IF a[2] = "LLM" THEN Worth(doing[s], a) ELSE 0]
  /\ credits' = [credits EXCEPT ![doing[s]] = @ + 1]
  /\ EndRequest(s)
  /\ UNCHANGED <<consume, turns, granted, aborts>>

PayCommit(s) ==
  /\ pc[s] = "paid"
  /\ orders' = [orders EXCEPT ![doing[s]].status = "SUCCEED"]
  /\ increase' = [a \in Account |-> increase[a] + Worth(doing[s], a)]
  /\ credits' = [credits EXCEPT ![doing[s]] = @ + 1]
  /\ EndRequest(s)
  /\ UNCHANGED <<consume, turns, granted, aborts>>

(***************************************************************************)
(* The specification.                                                      *)
(***************************************************************************)
Charging(s) ==
  \/ ConsumeQuery(s) \/ EnsureIngest(s) \/ ConsumeIngest(s)
  \/ Admit(s) \/ RecordTurn(s) \/ StopTurn(s) \/ BillRead(s) \/ BillTurn(s)

Crediting(s) ==
  Grant(s) \/ CreateOrder(s) \/ Pay(s) \/ PayLock(s) \/ PayCommit(s)

Next ==
  \E s \in Session : Begin(s) \/ Close(s) \/ Abort(s) \/ Charging(s) \/ Crediting(s)

Spec == Init /\ [][Next]_vars

(* The event loop runs every ready request, and InnoDB grants a row lock   *)
(* to the transaction that has waited longest, so a payer whose row is     *)
(* free again and again is granted it.                                     *)
Fairness ==
  \A s \in Session :
    /\ WF_vars(Close(s) \/ Charging(s) \/ Crediting(s))
    /\ SF_vars(PayLock(s))
FairSpec == Spec /\ Fairness

(***************************************************************************)
(* Properties.                                                             *)
(***************************************************************************)
Label == {"idle", "open", "embed", "refused", "stream", "bill", "billCheck",
          "lock", "paid"}

(* A request has a snapshot exactly in the places where a transaction is   *)
(* open.                                                                   *)
Reading == {"open", "embed", "refused", "billCheck", "lock", "paid"}

TypeOK ==
  /\ increase \in [Account -> Nat]
  /\ consume \in [Account -> Nat]
  /\ orders \in [Order -> OrderRow \cup {NoOrder}]
  /\ turns \in [Turn -> User \cup {NoUser}]
  /\ pc \in [Session -> Label]
  /\ who \in [Session -> User \cup {NoUser}]
  /\ snap \in [Session -> Snapshot \cup {NoSnap}]
  /\ asked \in [Session -> 0..MaxAmount]
  /\ doing \in [Session -> Order \cup Turn \cup {NoTurn}]
  /\ granted \in [Account -> Nat]
  /\ credits \in [Order -> Nat]
  /\ aborts \in 0..MaxAborts

(* No balance falls below zero by more than one charge for every other     *)
(* request in flight: consume_tokens compares with a snapshot that may be  *)
(* as old as the request, but a request that starts after the balance is   *)
(* used up sees that it is.                                                *)
OverdraftBounded ==
  \A a \in Account : Balance(a) >= - ((Cardinality(Session) - 1) * MaxAmount)

(* The sessions whose transaction still shows o unpaid.                    *)
StalePayers(o) == {s \in Session : snap[s] # NoSnap /\ o \in snap[s].payable}

(* mock_pay credits an order again only for a request that was already     *)
(* reading when the order was paid: one paid order, and what the requests  *)
(* in flight can still add to it, stay within one credit for each request. *)
CreditsBounded ==
  \A o \in Order : credits[o] > 0 =>
    credits[o] + Cardinality(StalePayers(o)) <= Cardinality(Session)

(* Every INCREASE row is a grant or a credit of an order, to its buyer and *)
(* for what the order said: no failed payment and no second payment leaves *)
(* half of an order behind.                                                *)
IncreaseAccounted ==
  \A a \in Account :
    increase[a] = granted[a] +
      FoldFunctionOnSet(+, 0,
        [o \in Order |-> IF orders[o] = NoOrder THEN 0
                         ELSE credits[o] * Worth(o, a)], Order)

(* An ingestion that made sure of its tokens is not refused after it has   *)
(* had the chunks embedded and stored: check and charge read one snapshot. *)
EnsuredIsCharged == \A s \in Session : pc[s] # "refused"

(* Every request ends, a payer that waits for a locked order included.     *)
RequestEnds ==
  \A s \in Session : (pc[s] # "idle") ~> (pc[s] = "idle")

(***************************************************************************)
(* The inductive invariant.                                                *)
(***************************************************************************)
(* Where a request stands, and what it then holds.                         *)
Shape ==
  \A s \in Session :
    /\ pc[s] = "idle" \/ who[s] \in User
    /\ snap[s] # NoSnap <=> pc[s] \in Reading
    /\ pc[s] \in Reading => \A o \in snap[s].payable : orders[o] # NoOrder
    /\ pc[s] \in {"lock", "paid"} => doing[s] \in snap[s].payable
    /\ pc[s] \in {"bill", "billCheck"} => doing[s] \in Turn
    /\ pc[s] = "embed" => snap[s].balance["EMBEDDING"] >= asked[s]

Lesser(m, n) == IF m < n THEN m ELSE n

(* The most each session can still charge to a on the strength of its      *)
(* snapshot.                                                               *)
Limit(a) ==
  [s \in Session |->
     IF snap[s] # NoSnap /\ who[s] = a[1] /\ snap[s].balance[a[2]] > 0
     THEN Lesser(snap[s].balance[a[2]], MaxAmount) ELSE 0]

Armed(limit) == {s \in Session : limit[s] > 0}

(* All armed sessions may charge MaxAmount but one, the last to have read, *)
(* which charges no more than the balance it saw.                          *)
Slack(balance, limit) ==
  IF Armed(limit) = {}
  THEN balance + MaxAmount * (Cardinality(Session) - 1) >= 0
  ELSE \E s \in Armed(limit) :
         balance - limit[s]
           + MaxAmount * (Cardinality(Session) - Cardinality(Armed(limit))) >= 0

Solvent == \A a \in Account : Slack(Balance(a), Limit(a))

PaidOnce ==
  \A o \in Order : credits[o] > 0 =>
    orders[o] # NoOrder /\ orders[o].status = "SUCCEED"

Inv == Shape /\ Solvent /\ PaidOnce /\ CreditsBounded /\ EnsuredIsCharged
=============================================================================
