-------------------------- MODULE TokenLedgerProofs --------------------------
(***************************************************************************)
(* What TokenLedger keeps for every set of users, sessions, orders and     *)
(* turns, and every bound.                                                 *)
(***************************************************************************)
EXTENDS TokenLedger, FiniteSetTheorems, WellFoundedInduction, TLAPS

(* A fresh snapshot is one, and the orders it shows exist.                 *)
LEMMA SnapshotType ==
  ASSUME TypeOK, NEW s \in Session, NEW u \in User, TakeSnapshot(s, u)
  PROVE  /\ snap' \in [Session -> Snapshot \cup {NoSnap}]
         /\ snap'[s] \in Snapshot
         /\ \A r \in Session \ {s} : snap'[r] = snap[r]
         /\ \A k \in TokenType : snap'[s].balance[k] = Balance(<<u, k>>)
         /\ snap'[s].payable =
              {o \in Order : /\ orders[o] # NoOrder
                             /\ orders[o].user = u
                             /\ orders[o].status = "NOT_PAY"}
<1> DEFINE bal == [k \in TokenType |-> Balance(<<u, k>>)]
           pay == {o \in Order : /\ orders[o] # NoOrder
                                 /\ orders[o].user = u
                                 /\ orders[o].status = "NOT_PAY"}
<1>1. \A k \in TokenType : Balance(<<u, k>>) \in Int
  BY DEF Balance, TypeOK, Account
<1>2. [balance |-> bal, payable |-> pay] \in Snapshot
  BY <1>1 DEF Snapshot
<1>3. snap' = [snap EXCEPT ![s] = [balance |-> bal, payable |-> pay]]
  BY DEF TakeSnapshot
<1>4. snap \in [Session -> Snapshot \cup {NoSnap}]
  BY DEF TypeOK
<1> HIDE DEF bal, pay
<1>5. /\ snap' \in [Session -> Snapshot \cup {NoSnap}]
      /\ snap'[s] = [balance |-> bal, payable |-> pay]
      /\ \A r \in Session \ {s} : snap'[r] = snap[r]
  BY <1>2, <1>3, <1>4
<1>6. \A k \in TokenType : bal[k] = Balance(<<u, k>>)
  BY DEF bal
<1> QED
  BY <1>2, <1>5, <1>6 DEF pay

(* Ending a request or a transaction keeps the types of its locals.        *)
LEMMA EndRequestType ==
  ASSUME TypeOK, Shape, NEW s \in Session, EndRequest(s)
  PROVE  /\ pc' \in [Session -> Label]
         /\ who' \in [Session -> User \cup {NoUser}]
         /\ snap' \in [Session -> Snapshot \cup {NoSnap}]
         /\ asked' \in [Session -> 0..MaxAmount]
         /\ doing' \in [Session -> Order \cup Turn \cup {NoTurn}]
         /\ pc'[s] = "idle" /\ snap'[s] = NoSnap
         /\ \A r \in Session \ {s} :
              /\ pc'[r] = pc[r] /\ who'[r] = who[r] /\ snap'[r] = snap[r]
              /\ asked'[r] = asked[r] /\ doing'[r] = doing[r]
BY LedgerAssumption DEF TypeOK, EndRequest, EndTransaction, Label

(* A step that ends the request of s and removes no order keeps the shape. *)
LEMMA EndRequestShape ==
  ASSUME TypeOK, Shape, NEW s \in Session, EndRequest(s),
         \A o \in Order : orders[o] # NoOrder => orders'[o] # NoOrder
  PROVE  Shape'
<1>1. SUFFICES ASSUME NEW r \in Session
      PROVE  /\ pc'[r] = "idle" \/ who'[r] \in User
             /\ snap'[r] # NoSnap <=> pc'[r] \in Reading
             /\ pc'[r] \in Reading => \A o \in snap'[r].payable : orders'[o] # NoOrder
             /\ pc'[r] \in {"lock", "paid"} => doing'[r] \in snap'[r].payable
             /\ pc'[r] \in {"bill", "billCheck"} => doing'[r] \in Turn
             /\ pc'[r] = "embed" => snap'[r].balance["EMBEDDING"] >= asked'[r]
  BY DEF Shape
<1>2. CASE r = s
  BY <1>2, EndRequestType DEF Reading
<1>3. CASE r # s
  <2>1. snap[r] # NoSnap => snap[r].payable \subseteq Order
    BY DEF TypeOK, Snapshot
  <2> QED
    BY <1>3, <2>1, EndRequestType DEF Shape
<1> QED
  BY <1>2, <1>3

(* Tokens are added to or taken from the sums in whole numbers.            *)
LEMMA ChargeType ==
  ASSUME TypeOK, NEW s \in Session, NEW k \in TokenType, NEW n \in Nat,
         who[s] \in User, Charge(s, k, n)
  PROVE  /\ consume' \in [Account -> Nat]
         /\ consume'[<<who[s], k>>] = consume[<<who[s], k>>] + n
         /\ \A a \in Account \ {<<who[s], k>>} : consume'[a] = consume[a]
BY DEF TypeOK, Charge, Account

(* What an order adds is a number, once the order exists.                  *)
LEMMA WorthType ==
  ASSUME TypeOK, NEW o \in Order, orders[o] # NoOrder, NEW a \in Account
  PROVE  Worth(o, a) \in Nat
BY LedgerAssumption DEF TypeOK, OrderRow, Worth, Account

(* Every step keeps the types and the shape.                               *)
LEMMA TypeStep == TypeOK /\ Shape /\ [Next]_vars => TypeOK' /\ Shape'
<1> SUFFICES ASSUME TypeOK, Shape, [Next]_vars PROVE TypeOK' /\ Shape'
  OBVIOUS
<1> USE DEF tables, request, ghosts
<1>0. CASE UNCHANGED vars
  BY <1>0 DEF vars, TypeOK, Shape
<1>a. CASE Next
  <2>0. PICK s \in Session :
          Begin(s) \/ Close(s) \/ Abort(s) \/ Charging(s) \/ Crediting(s)
    BY <1>a DEF Next
  <2>1. CASE Begin(s)
    <3>1. PICK u \in User : who' = [who EXCEPT ![s] = u] /\ TakeSnapshot(s, u)
      BY <2>1 DEF Begin
    <3>2. TypeOK'
      BY <2>1, <3>1, SnapshotType DEF Begin, TypeOK, Label
    <3>3. /\ pc'[s] = "open" /\ who'[s] = u
          /\ \A r \in Session \ {s} : pc'[r] = pc[r] /\ who'[r] = who[r]
      BY <2>1, <3>1 DEF Begin, TypeOK
    <3>4. NoSnap \notin Snapshot
      BY LedgerAbsence
    <3>5. Shape'
      BY <2>1, <3>1, <3>3, <3>4, SnapshotType DEF Begin, Shape, Reading
    <3> QED
      BY <3>2, <3>5
  <2>2. CASE Close(s)
    <3>1. EndRequest(s) /\ UNCHANGED <<tables, ghosts>>
      BY <2>2 DEF Close
    <3>2. TypeOK'
      BY <3>1, EndRequestType DEF TypeOK
    <3> QED
      BY <3>1, <3>2, EndRequestShape
  <2>3. CASE Abort(s)
    <3>1. EndRequest(s) /\ UNCHANGED <<tables, granted, credits>>
      BY <2>3 DEF Abort
    <3>2. aborts' \in 0..MaxAborts
      BY <2>3, LedgerAssumption DEF Abort, TypeOK
    <3>3. TypeOK'
      BY <3>1, <3>2, EndRequestType DEF TypeOK
    <3> QED
      BY <3>1, <3>3, EndRequestShape
  <2>4. CASE ConsumeQuery(s)
    <3>1. EndRequest(s) /\ UNCHANGED <<increase, orders, turns, ghosts>>
      BY <2>4 DEF ConsumeQuery
    <3>2. PICK n \in 1..MaxAmount : Charge(s, "EMBEDDING", n)
      BY <2>4 DEF ConsumeQuery
    <3>3. who[s] \in User
      BY <2>4 DEF ConsumeQuery, Open, Shape
    <3>a. n \in Nat /\ "EMBEDDING" \in TokenType
      BY LedgerAssumption DEF TokenType
    <3>4. consume' \in [Account -> Nat]
      BY <3>2, <3>3, <3>a, ChargeType
    <3>5. TypeOK'
      BY <3>1, <3>4, EndRequestType DEF TypeOK
    <3> QED
      BY <3>1, <3>5, EndRequestShape
  <2>5. CASE EnsureIngest(s)
    <3>1. PICK n \in 1..MaxAmount : /\ Sees(s, "EMBEDDING") >= n
                                    /\ asked' = [asked EXCEPT ![s] = n]
      BY <2>5 DEF EnsureIngest
    <3>2. TypeOK'
      BY <2>5, <3>1 DEF EnsureIngest, TypeOK, Label
    <3>3. Shape'
      BY <2>5, <3>1 DEF EnsureIngest, TypeOK, Shape, Open, Reading, Sees
    <3> QED
      BY <3>2, <3>3
  <2>6. CASE ConsumeIngest(s)
    <3>1. CASE Sees(s, "EMBEDDING") >= asked[s]
      <4>1. EndRequest(s) /\ UNCHANGED <<increase, orders, turns, ghosts>>
        BY <2>6, <3>1 DEF ConsumeIngest
      <4>2. who[s] \in User /\ asked[s] \in Nat
        BY <2>6, LedgerAssumption DEF ConsumeIngest, Shape, TypeOK
      <4>3. consume' \in [Account -> Nat]
        BY <2>6, <3>1, <4>2, ChargeType DEF ConsumeIngest, TokenType
      <4>4. TypeOK'
        BY <4>1, <4>3, EndRequestType DEF TypeOK
      <4> QED
        BY <4>1, <4>4, EndRequestShape
    <3>2. CASE ~(Sees(s, "EMBEDDING") >= asked[s])
      BY <2>6, <3>2 DEF ConsumeIngest, TypeOK, Shape, Label, Reading
    <3> QED
      BY <3>1, <3>2
  <2>7. CASE Admit(s)
    <3>1. TypeOK'
      BY <2>7 DEF Admit, EndTransaction, TypeOK, Label
    <3>2. Shape'
      BY <2>7 DEF Admit, EndTransaction, TypeOK, Shape, Open, Reading
    <3> QED
      BY <3>1, <3>2
  <2>8. CASE RecordTurn(s)
    <3>1. PICK t \in Turn, n \in 1..MaxAmount :
            /\ turns' = [turns EXCEPT ![t] = who[s]]
            /\ asked' = [asked EXCEPT ![s] = n]
            /\ doing' = [doing EXCEPT ![s] = t]
      BY <2>8 DEF RecordTurn
    <3>2. TypeOK'
      BY <2>8, <3>1 DEF RecordTurn, EndTransaction, TypeOK, Shape, Label
    <3>3. Shape'
      BY <2>8, <3>1 DEF RecordTurn, EndTransaction, TypeOK, Shape, Reading
    <3> QED
      BY <3>2, <3>3
  <2>9. CASE StopTurn(s)
    <3>1. EndRequest(s) /\ UNCHANGED <<tables, ghosts>>
      BY <2>9 DEF StopTurn
    <3>2. TypeOK'
      BY <3>1, EndRequestType DEF TypeOK
    <3> QED
      BY <3>1, <3>2, EndRequestShape
  <2>10. CASE BillRead(s)
    <3>1. who[s] \in User /\ TakeSnapshot(s, who[s])
      BY <2>10 DEF BillRead, Shape
    <3>2. TypeOK'
      BY <2>10, <3>1, SnapshotType DEF BillRead, TypeOK, Label
    <3>3. /\ pc'[s] = "billCheck"
          /\ \A r \in Session \ {s} : pc'[r] = pc[r]
      BY <2>10 DEF BillRead, TypeOK
    <3>4. NoSnap \notin Snapshot
      BY LedgerAbsence
    <3>5. Shape'
      BY <2>10, <3>1, <3>3, <3>4, SnapshotType DEF BillRead, Shape, Reading
    <3> QED
      BY <3>2, <3>5
  <2>11. CASE BillTurn(s)
    <3>1. EndRequest(s) /\ UNCHANGED <<increase, orders, turns, granted, credits, aborts>>
      BY <2>11 DEF BillTurn
    <3>2. who[s] \in User /\ asked[s] \in Nat /\ doing[s] \in Turn
      BY <2>11, LedgerAssumption DEF BillTurn, Shape, TypeOK
    <3>3. consume' \in [Account -> Nat]
      BY <2>11, <3>2, ChargeType DEF BillTurn, TokenType, TypeOK
    <3>4. TypeOK'
      BY <3>1, <3>3, EndRequestType DEF TypeOK
    <3> QED
      BY <3>1, <3>4, EndRequestShape
  <2>12. CASE Grant(s)
    <3>1. EndRequest(s) /\ UNCHANGED <<consume, orders, turns, credits, aborts>>
      BY <2>12 DEF Grant
    <3>2. PICK u \in User, tokens \in Award :
            /\ increase' = [a \in Account |->
                 increase[a] + IF a[1] = u THEN tokens[a[2]] ELSE 0]
            /\ granted' = [a \in Account |->
                 granted[a] + IF a[1] = u THEN tokens[a[2]] ELSE 0]
      BY <2>12 DEF Grant
    <3>3. \A a \in Account : tokens[a[2]] \in Nat
      BY <3>2, LedgerAssumption DEF Account
    <3>4. increase' \in [Account -> Nat] /\ granted' \in [Account -> Nat]
      BY <3>2, <3>3 DEF TypeOK
    <3>5. TypeOK'
      BY <3>1, <3>4, EndRequestType DEF TypeOK
    <3> QED
      BY <3>1, <3>5, EndRequestShape
  <2>13. CASE CreateOrder(s)
    <3>1. EndRequest(s) /\ UNCHANGED <<increase, consume, turns, ghosts>>
      BY <2>13 DEF CreateOrder
    <3>2. PICK o \in Order, tokens \in Award :
            orders' = [orders EXCEPT ![o] =
              [user |-> who[s], status |-> "NOT_PAY", tokens |-> tokens]]
      BY <2>13 DEF CreateOrder
    <3>3. [user |-> who[s], status |-> "NOT_PAY", tokens |-> tokens] \in OrderRow
      BY <2>13 DEF CreateOrder, Open, Shape, OrderRow
    <3>4. orders' \in [Order -> OrderRow \cup {NoOrder}]
      BY <3>2, <3>3 DEF TypeOK
    <3>5. TypeOK'
      BY <3>1, <3>4, EndRequestType DEF TypeOK
    <3>6. \A p \in Order : orders[p] # NoOrder => orders'[p] # NoOrder
      BY <3>2, <3>3, LedgerAbsence DEF TypeOK
    <3> QED
      BY <3>1, <3>5, <3>6, EndRequestShape
  <2>14. CASE Pay(s)
    <3>1. PICK o \in snap[s].payable : doing' = [doing EXCEPT ![s] = o]
      BY <2>14 DEF Pay
    <3>2. o \in Order /\ snap[s] # NoSnap
      BY <2>14, <3>1 DEF Pay, Open, Shape, Reading, TypeOK, Snapshot
    <3>3. TypeOK'
      BY <2>14, <3>1, <3>2 DEF Pay, TypeOK, Label
    <3>4. Shape'
      BY <2>14, <3>1, <3>2 DEF Pay, TypeOK, Shape, Open, Reading
    <3> QED
      BY <3>3, <3>4
  <2>15. CASE PayLock(s)
    <3>1. TypeOK'
      BY <2>15 DEF PayLock, TypeOK, Label
    <3>2. Shape'
      BY <2>15 DEF PayLock, TypeOK, Shape, Reading
    <3> QED
      BY <3>1, <3>2
  <2>16. CASE PayCommit(s)
    <3> DEFINE o == doing[s]
    <3>1. EndRequest(s) /\ UNCHANGED <<consume, turns, granted, aborts>>
      BY <2>16 DEF PayCommit
    <3>2. o \in Order /\ orders[o] # NoOrder
      BY <2>16 DEF PayCommit, Shape, Reading, TypeOK, Snapshot
    <3>3. orders[o] \in OrderRow
      BY <3>2 DEF TypeOK
    <3>4. orders' = [orders EXCEPT ![o].status = "SUCCEED"]
      BY <2>16 DEF PayCommit
    <3>5. [orders[o] EXCEPT !.status = "SUCCEED"] \in OrderRow
      BY <3>3 DEF OrderRow
    <3>6. /\ orders' \in [Order -> OrderRow \cup {NoOrder}]
          /\ \A p \in Order : orders[p] # NoOrder => orders'[p] # NoOrder
      BY <3>2, <3>4, <3>5, LedgerAbsence DEF TypeOK
    <3>7. \A a \in Account : Worth(o, a) \in Nat
      BY <3>2, WorthType
    <3>8. increase' = [a \in Account |-> increase[a] + Worth(o, a)]
      BY <2>16 DEF PayCommit
    <3>9. increase' \in [Account -> Nat]
      BY <3>7, <3>8 DEF TypeOK
    <3>10. credits' \in [Order -> Nat]
      BY <2>16, <3>2 DEF PayCommit, TypeOK
    <3> HIDE DEF o
    <3>11. TypeOK'
      BY <3>1, <3>6, <3>9, <3>10, EndRequestType DEF TypeOK
    <3> QED
      BY <3>1, <3>6, <3>11, EndRequestShape
  <2> QED
    BY <2>0, <2>1, <2>2, <2>3, <2>4, <2>5, <2>6, <2>7, <2>8, <2>9, <2>10,
       <2>11, <2>12, <2>13, <2>14, <2>15, <2>16 DEF Charging, Crediting
<1> QED
  BY <1>0, <1>a

(* Every variable keeps its type, and every request holds what its place   *)
(* says: no step of the billing service mixes the locals of two requests   *)
(* or works on an order that does not exist.                               *)
THEOREM TypeCorrect == Spec => [](TypeOK /\ Shape)
<1>1. Init => TypeOK /\ Shape
  BY LedgerAssumption DEF Init, TypeOK, Shape, Label, Reading, Account
<1> QED
  BY <1>1, TypeStep, PTL DEF Spec

(***************************************************************************)
(* The overdraft.                                                          *)
(***************************************************************************)
(* The armed sessions are among the sessions, so they can be counted.      *)
LEMMA ArmedCount ==
  ASSUME NEW limit
  PROVE  /\ IsFiniteSet(Armed(limit))
         /\ Cardinality(Armed(limit)) \in Nat
         /\ Cardinality(Session) \in Nat
         /\ Cardinality(Armed(limit)) <= Cardinality(Session)
         /\ Armed(limit) # {} => Cardinality(Armed(limit)) >= 1
<1>1. IsFiniteSet(Session) /\ Armed(limit) \subseteq Session
  BY LedgerAssumption DEF Armed
<1>2. IsFiniteSet(Armed(limit)) /\ Cardinality(Armed(limit)) <= Cardinality(Session)
  BY <1>1, FS_Subset
<1>3. Cardinality(Armed(limit)) \in Nat /\ Cardinality(Session) \in Nat
  BY <1>1, <1>2, FS_CardinalityType
<1>4. Armed(limit) # {} => Cardinality(Armed(limit)) # 0
  BY <1>2, FS_EmptySet
<1> QED
  BY <1>2, <1>3, <1>4

(* The two facts about multiplication that the bound needs.                *)
LEMMA Times ==
  ASSUME NEW m \in Nat, NEW x \in Int
  PROVE  /\ m * x \in Int
         /\ m * (x + 1) = m * x + m
         /\ x >= 0 => m * x >= 0
OBVIOUS

(* A balance that grows keeps the slack.                                   *)
LEMMA SlackMore ==
  ASSUME NEW limit \in [Session -> Nat], NEW b \in Int, NEW b2 \in Int, b2 >= b,
         Slack(b, limit)
  PROVE  Slack(b2, limit)
<1> DEFINE A == Armed(limit)
           z == MaxAmount * (Cardinality(Session) - Cardinality(A))
           y == MaxAmount * (Cardinality(Session) - 1)
<1>1. z \in Int /\ y \in Int
  BY ArmedCount, LedgerAssumption, Times
<1>2. A \subseteq Session
  BY DEF Armed
<1>3. IF A = {} THEN b + y >= 0 ELSE \E s \in A : b - limit[s] + z >= 0
  BY DEF Slack
<1> HIDE DEF A, z, y
<1>4. IF A = {} THEN b2 + y >= 0 ELSE \E s \in A : b2 - limit[s] + z >= 0
  BY <1>1, <1>2, <1>3
<1> QED
  BY <1>4 DEF Slack, A, z, y

(* A session that ends, having charged no more than its limit, keeps it.   *)
LEMMA SlackClear ==
  ASSUME NEW limit \in [Session -> 0..MaxAmount], NEW s \in Session,
         NEW b \in Int, NEW b2 \in Int, b2 >= b - limit[s],
         Slack(b, limit)
  PROVE  Slack(b2, [limit EXCEPT ![s] = 0])
<1> DEFINE A == Armed(limit)
           l2 == [limit EXCEPT ![s] = 0]
           N == Cardinality(Session)
           k == Cardinality(A)
<1>0. MaxAmount \in Nat
  BY LedgerAssumption
<1>1. /\ l2 \in [Session -> 0..MaxAmount] /\ l2[s] = 0
      /\ \A r \in Session \ {s} : l2[r] = limit[r]
  BY <1>0
<1>2. Armed(l2) = A \ {s} /\ A \subseteq Session
  BY <1>1 DEF Armed
<1>3. IsFiniteSet(A) /\ k \in Nat /\ N \in Nat /\ k <= N
  BY ArmedCount
<1>4. \A r \in Session : limit[r] \in 0..MaxAmount
  OBVIOUS
<1>5. CASE s \notin A
  <2>1. limit[s] = 0
    BY <1>0, <1>4, <1>5 DEF Armed
  <2>2. l2 = limit
    BY <2>1
  <2>3. limit \in [Session -> Nat]
    BY <1>0
  <2>4. b2 >= b
    BY <2>1
  <2>5. Slack(b2, limit)
    BY <2>3, <2>4, SlackMore
  <2> QED
    BY <2>2, <2>5
<1>6. CASE s \in A
  <2>1. Cardinality(Armed(l2)) = k - 1
    BY <1>2, <1>3, <1>6, FS_RemoveElement
  <2>2. PICK r \in A : b - limit[r] + MaxAmount * (N - k) >= 0
    BY <1>6 DEF Slack
  <2>3. /\ MaxAmount * (N - k) \in Int
        /\ MaxAmount * ((N - k) + 1) = MaxAmount * (N - k) + MaxAmount
    BY <1>0, <1>3, Times
  <2>4. N - Cardinality(Armed(l2)) = (N - k) + 1
    BY <1>3, <2>1
  <2> DEFINE z == MaxAmount * (N - k)
  <2>5. CASE Armed(l2) = {}
    <3>0. Cardinality(Armed(l2)) = 0
      BY <2>5, FS_EmptySet
    <3>1. k = 1
      BY <2>1, <3>0, <1>3
    <3>2. r = s
      BY <1>2, <2>2, <2>5
    <3>3. b - limit[s] + MaxAmount * (N - 1) >= 0
      BY <2>2, <3>1, <3>2
    <3>4. MaxAmount * (N - 1) \in Int
      BY <1>0, <1>3, Times
    <3> DEFINE y == MaxAmount * (N - 1)
    <3> HIDE DEF y
    <3>5. b - limit[s] + y >= 0 /\ y \in Int
      BY <3>3, <3>4 DEF y
    <3>6. b2 + y >= 0
      BY <3>5, <1>0, <1>4
    <3> QED
      BY <2>5, <3>6 DEF Slack, y
  <2>6. CASE Armed(l2) # {}
    <3>1. \E q \in Armed(l2) : r # s => q = r
      BY <1>2, <2>2, <2>6
    <3>2. PICK q \in Armed(l2) : r # s => q = r
      BY <3>1
    <3>3. q \in Session /\ q # s /\ l2[q] = limit[q]
      BY <1>1, <1>2, <3>2
    <3>4. z \in Int /\ b - limit[r] + z >= 0
      BY <2>2, <2>3
    <3>5. limit[q] \in 0..MaxAmount /\ limit[s] \in 0..MaxAmount
      BY <1>4, <3>3
    <3> HIDE DEF z
    <3>6. b2 - limit[q] + (z + MaxAmount) >= 0
      <4>1. CASE r = s
        BY <4>1, <3>4, <3>5, <1>0
      <4>2. CASE r # s
        BY <4>2, <3>2, <3>4, <3>5, <1>0
      <4> QED
        BY <4>1, <4>2
    <3>7. b2 - l2[q] + MaxAmount * (N - Cardinality(Armed(l2))) >= 0
      BY <3>3, <3>6, <2>3, <2>4 DEF z
    <3> QED
      BY <2>6, <3>2, <3>7 DEF Slack
  <2> QED
    BY <2>5, <2>6
<1> QED
  BY <1>5, <1>6

(* A session that reads the balance may charge no more than it saw.        *)
LEMMA SlackSet ==
  ASSUME NEW limit \in [Session -> 0..MaxAmount], NEW s \in Session,
         NEW b \in Int, NEW v \in 0..MaxAmount, limit[s] = 0, v = 0 \/ v <= b,
         Slack(b, limit)
  PROVE  Slack(b, [limit EXCEPT ![s] = v])
<1> DEFINE A == Armed(limit)
           l2 == [limit EXCEPT ![s] = v]
           N == Cardinality(Session)
           k == Cardinality(A)
<1>0. MaxAmount \in Nat
  BY LedgerAssumption
<1>1. CASE v = 0
  <2>1. l2 = limit
    BY <1>1
  <2> QED
    BY <2>1
<1>2. CASE v # 0
  <2>1. l2[s] = v /\ \A r \in Session \ {s} : l2[r] = limit[r]
    OBVIOUS
  <2>2. Armed(l2) = A \cup {s} /\ s \notin A
    BY <1>0, <1>2, <2>1 DEF Armed
  <2>3. /\ IsFiniteSet(A) /\ k \in Nat /\ N \in Nat
        /\ Cardinality(Armed(l2)) <= N
    BY ArmedCount
  <2>4. Cardinality(Armed(l2)) = k + 1
    BY ZenonT(60), <2>2, <2>3, FS_AddElement
  <2>5. N - Cardinality(Armed(l2)) >= 0 /\ N - Cardinality(Armed(l2)) \in Int
    BY <2>3, <2>4
  <2> DEFINE z == MaxAmount * (N - Cardinality(Armed(l2)))
  <2>6. z \in Int /\ z >= 0
    BY <1>0, <2>5, Times
  <2> HIDE DEF z
  <2>7. b - l2[s] + z >= 0
    BY <1>0, <1>2, <2>1, <2>6
  <2>8. s \in Armed(l2)
    BY <2>2
  <2> QED
    BY <2>7, <2>8 DEF Slack, z
<1> QED
  BY <1>1, <1>2

(* A limit is no more than one charge.                                     *)
LEMMA LimitType ==
  ASSUME TypeOK, NEW a \in Account
  PROVE  /\ Limit(a) \in [Session -> 0..MaxAmount]
         /\ Balance(a) \in Int
<1>1. a[1] \in User /\ a[2] \in TokenType
  BY DEF Account
<1>2. \A s \in Session : snap[s] # NoSnap => snap[s].balance[a[2]] \in Int
  BY <1>1 DEF TypeOK, Snapshot
<1>3. Limit(a) \in [Session -> 0..MaxAmount]
  BY <1>2, LedgerAssumption DEF Limit, Lesser
<1>4. Balance(a) \in Int
  BY DEF TypeOK, Balance
<1> QED
  BY <1>3, <1>4

(* A session without a snapshot charges nothing; the others charge what    *)
(* they did.                                                               *)
LEMMA LimitDropped ==
  ASSUME TypeOK, Shape, NEW s \in Session, NEW a \in Account, snap'[s] = NoSnap,
         \A r \in Session \ {s} : snap'[r] = snap[r] /\ who'[r] = who[r]
  PROVE  Limit(a)' = [Limit(a) EXCEPT ![s] = 0]
BY DEF Limit

(* A session that reads the balance charges at most what it saw.           *)
LEMMA LimitRead ==
  ASSUME TypeOK, Shape, NEW s \in Session, NEW u \in User, NEW a \in Account,
         snap[s] = NoSnap, TakeSnapshot(s, u), who'[s] = u,
         \A r \in Session \ {s} : who'[r] = who[r]
  PROVE  \E v \in 0..MaxAmount :
           /\ Limit(a)' = [Limit(a) EXCEPT ![s] = v]
           /\ Limit(a)[s] = 0
           /\ v = 0 \/ v <= Balance(a)
<1> DEFINE v == Limit(a)'[s]
<1>1. a[1] \in User /\ a[2] \in TokenType /\ a = <<a[1], a[2]>>
  BY DEF Account
<1>2. Balance(a) \in Int /\ Limit(a)[s] = 0
  BY LimitType DEF Limit
<1>3. snap'[s] # NoSnap /\ \A r \in Session \ {s} : snap'[r] = snap[r]
  BY SnapshotType, LedgerAbsence
<1>4. v = IF u = a[1] /\ snap'[s].balance[a[2]] > 0
          THEN Lesser(snap'[s].balance[a[2]], MaxAmount) ELSE 0
  BY <1>3 DEF Limit
<1>5. u = a[1] => snap'[s].balance[a[2]] = Balance(a)
  BY <1>1, SnapshotType
<1>6. v \in 0..MaxAmount /\ (v = 0 \/ v <= Balance(a))
  BY <1>2, <1>4, <1>5, LedgerAssumption DEF Lesser
<1>7. Limit(a)' = [Limit(a) EXCEPT ![s] = v]
  BY ZenonT(60), <1>3 DEF Limit
<1> HIDE DEF v
<1> QED
  BY <1>2, <1>6, <1>7

(* Reading keeps every account solvent.                                    *)
LEMMA ReadSolvent ==
  ASSUME TypeOK, Shape, Solvent, NEW s \in Session, NEW u \in User,
         snap[s] = NoSnap, TakeSnapshot(s, u), who'[s] = u,
         \A r \in Session \ {s} : who'[r] = who[r],
         UNCHANGED <<increase, consume>>
  PROVE  Solvent'
<1> SUFFICES ASSUME NEW a \in Account PROVE Slack(Balance(a)', Limit(a)')
  BY DEF Solvent, Slack, Armed
<1>1. PICK v \in 0..MaxAmount :
        /\ Limit(a)' = [Limit(a) EXCEPT ![s] = v]
        /\ Limit(a)[s] = 0
        /\ v = 0 \/ v <= Balance(a)
  BY LimitRead
<1>2. Slack(Balance(a), Limit(a)) /\ Balance(a)' = Balance(a)
  BY DEF Solvent, Balance
<1>3. Slack(Balance(a), [Limit(a) EXCEPT ![s] = v])
  BY <1>1, <1>2, LimitType, SlackSet
<1> QED
  BY <1>1, <1>2, <1>3

(* So does ending a transaction that charged each account no more than the *)
(* limit.                                                                  *)
LEMMA EndSolvent ==
  ASSUME TypeOK, TypeOK', Shape, Solvent, NEW s \in Session, snap'[s] = NoSnap,
         \A r \in Session \ {s} : snap'[r] = snap[r] /\ who'[r] = who[r],
         \A a \in Account : Balance(a)' >= Balance(a) - Limit(a)[s]
  PROVE  Solvent'
<1> SUFFICES ASSUME NEW a \in Account PROVE Slack(Balance(a)', Limit(a)')
  BY DEF Solvent, Slack, Armed
<1>1. Limit(a)' = [Limit(a) EXCEPT ![s] = 0]
  BY LimitDropped
<1>2. Slack(Balance(a), Limit(a))
  BY DEF Solvent
<1>3. Balance(a)' \in Int
  BY DEF TypeOK, Balance
<1>4. Slack(Balance(a)', [Limit(a) EXCEPT ![s] = 0])
  BY <1>2, <1>3, LimitType, SlackClear
<1> QED
  BY <1>1, <1>4

(* A charge covered by the snapshot is within the limit of its account and *)
(* leaves the other accounts alone.                                        *)
LEMMA ChargeWithin ==
  ASSUME TypeOK, Shape, NEW s \in Session, NEW k \in TokenType,
         NEW n \in 0..MaxAmount, who[s] \in User, pc[s] \in Reading,
         Sees(s, k) >= n, Charge(s, k, n), UNCHANGED increase
  PROVE  \A a \in Account : Balance(a)' >= Balance(a) - Limit(a)[s]
<1> SUFFICES ASSUME NEW a \in Account
             PROVE  Balance(a)' >= Balance(a) - Limit(a)[s]
  OBVIOUS
<1>1. /\ n \in Nat /\ MaxAmount \in Nat
      /\ a[1] \in User /\ a[2] \in TokenType /\ a = <<a[1], a[2]>>
  BY LedgerAssumption DEF Account
<1>2. Limit(a)[s] \in 0..MaxAmount
  BY LimitType
<1>3. CASE a = <<who[s], k>>
  <2>1. Balance(a)' = Balance(a) - n
    BY <1>1, <1>3, ChargeType DEF Balance, TypeOK
  <2>2. snap[s] # NoSnap /\ snap[s].balance[a[2]] >= n
    BY <1>3 DEF Shape, Sees
  <2>3. snap[s].balance[a[2]] \in Int
    BY <1>1, <2>2 DEF TypeOK, Snapshot
  <2>4. Limit(a)[s] >= n
    BY <1>1, <1>3, <2>2, <2>3 DEF Limit, Lesser
  <2>5. Balance(a) \in Int
    BY LimitType
  <2> QED
    BY <1>1, <1>2, <2>1, <2>4, <2>5
<1>4. CASE a # <<who[s], k>>
  <2>a. \A b \in Account \ {<<who[s], k>>} : consume'[b] = consume[b]
    BY <1>1, ChargeType
  <2>0. consume'[a] = consume[a]
    BY <1>4, <2>a
  <2>1. Balance(a)' = Balance(a)
    BY <2>0 DEF Balance
  <2> QED
    BY <1>1, <1>2, <2>1, LimitType
<1> QED
  BY <1>3, <1>4

(* An account whose sums do not shrink, or shrink by nothing.              *)
LEMMA NoCharge ==
  ASSUME TypeOK, TypeOK', NEW s \in Session, consume' = consume,
         \A a \in Account : increase'[a] >= increase[a]
  PROVE  \A a \in Account : Balance(a)' >= Balance(a) - Limit(a)[s]
<1> SUFFICES ASSUME NEW a \in Account
             PROVE  Balance(a)' >= Balance(a) - Limit(a)[s]
  OBVIOUS
<1>1. Limit(a)[s] \in 0..MaxAmount /\ MaxAmount \in Nat
  BY LimitType, LedgerAssumption
<1>2. increase'[a] \in Nat /\ increase[a] \in Nat /\ consume[a] \in Nat
  BY DEF TypeOK
<1>3. Balance(a)' = increase'[a] - consume[a] /\ Balance(a) = increase[a] - consume[a]
  BY DEF Balance
<1>4. increase'[a] >= increase[a]
  OBVIOUS
<1> QED
  BY <1>1, <1>2, <1>3, <1>4

(* What EndRequest says of the snapshots and users.                        *)
LEMMA EndRequestFrame ==
  ASSUME TypeOK, Shape, NEW s \in Session, EndRequest(s)
  PROVE  /\ snap'[s] = NoSnap
         /\ \A r \in Session \ {s} : snap'[r] = snap[r] /\ who'[r] = who[r]
BY EndRequestType

(* Every step keeps every account solvent.                                 *)
LEMMA SolventStep ==
  TypeOK /\ TypeOK' /\ Shape /\ Solvent /\ [Next]_vars => Solvent'
<1> SUFFICES ASSUME TypeOK, TypeOK', Shape, Solvent, [Next]_vars PROVE Solvent'
  OBVIOUS
<1> USE DEF tables, request, ghosts
<1>1. ASSUME UNCHANGED <<increase, consume, snap, who>> PROVE Solvent'
  <2>1. SUFFICES ASSUME NEW a \in Account PROVE Slack(Balance(a)', Limit(a)')
    BY DEF Solvent, Slack, Armed
  <2>2. Balance(a)' = Balance(a) /\ Limit(a)' = Limit(a)
    BY <1>1 DEF Balance, Limit
  <2> QED
    BY <2>2 DEF Solvent
<1>2. CASE UNCHANGED vars
  BY <1>1, <1>2 DEF vars
<1>3. CASE Next
  <2>0. PICK s \in Session :
          Begin(s) \/ Close(s) \/ Abort(s) \/ Charging(s) \/ Crediting(s)
    BY <1>3 DEF Next
  <2>1. ASSUME EndRequest(s) \/ EndTransaction(s, "stream") \/ EndTransaction(s, "bill"),
               EndRequest(s) \/ who' = who
        PROVE  /\ snap'[s] = NoSnap
               /\ \A r \in Session \ {s} : snap'[r] = snap[r] /\ who'[r] = who[r]
    BY <2>1 DEF EndRequest, EndTransaction, TypeOK
  <2>2. ASSUME EndRequest(s) \/ EndTransaction(s, "stream") \/ EndTransaction(s, "bill"),
               EndRequest(s) \/ who' = who,
               consume' = consume,
               \A a \in Account : increase'[a] >= increase[a]
        PROVE  Solvent'
    <3>1. /\ snap'[s] = NoSnap
          /\ \A r \in Session \ {s} : snap'[r] = snap[r] /\ who'[r] = who[r]
      BY <2>1, <2>2
    <3>2. \A a \in Account : Balance(a)' >= Balance(a) - Limit(a)[s]
      BY <2>2, NoCharge
    <3> QED
      BY <3>1, <3>2, EndSolvent
  <2>3. \A a \in Account : increase[a] >= increase[a]
    BY DEF TypeOK
  <2>4. CASE Begin(s)
    <3>1. PICK u \in User : who' = [who EXCEPT ![s] = u] /\ TakeSnapshot(s, u)
      BY <2>4 DEF Begin
    <3>2. snap[s] = NoSnap
      BY <2>4 DEF Begin, Shape, Reading
    <3>3. who'[s] = u /\ \A r \in Session \ {s} : who'[r] = who[r]
      BY <3>1 DEF TypeOK
    <3>4. UNCHANGED <<increase, consume>>
      BY <2>4 DEF Begin
    <3> QED
      BY <3>1, <3>2, <3>3, <3>4, ReadSolvent
  <2>5. CASE BillRead(s)
    <3>1. who[s] \in User /\ TakeSnapshot(s, who[s]) /\ who' = who
      BY <2>5 DEF BillRead, Shape
    <3>2. snap[s] = NoSnap
      BY <2>5 DEF BillRead, Shape, Reading
    <3>3. UNCHANGED <<increase, consume>>
      BY <2>5 DEF BillRead
    <3> QED
      BY <3>1, <3>2, <3>3, ReadSolvent
  <2>6. CASE Close(s) \/ Abort(s) \/ StopTurn(s) \/ CreateOrder(s)
    <3>1. EndRequest(s) /\ UNCHANGED <<increase, consume>>
      BY <2>6 DEF Close, Abort, StopTurn, CreateOrder
    <3> QED
      BY <2>2, <2>3, <3>1
  <2>7. CASE Admit(s) \/ RecordTurn(s)
    <3>1. /\ EndTransaction(s, "stream") \/ EndTransaction(s, "bill")
          /\ UNCHANGED <<increase, consume, who>>
      BY <2>7 DEF Admit, RecordTurn
    <3> QED
      BY <2>2, <2>3, <3>1
  <2>8. CASE ConsumeQuery(s)
    <3>1. PICK n \in 1..MaxAmount :
            Sees(s, "EMBEDDING") >= n /\ Charge(s, "EMBEDDING", n)
      BY <2>8 DEF ConsumeQuery
    <3>2. /\ n \in 0..MaxAmount /\ "EMBEDDING" \in TokenType
          /\ who[s] \in User /\ pc[s] \in Reading
          /\ EndRequest(s) /\ UNCHANGED increase
      BY <2>8, LedgerAssumption DEF ConsumeQuery, Open, Shape, Reading, TokenType
    <3>3. \A a \in Account : Balance(a)' >= Balance(a) - Limit(a)[s]
      BY <3>1, <3>2, ChargeWithin
    <3> QED
      BY <3>2, <3>3, EndRequestFrame, EndSolvent
  <2>9. CASE ConsumeIngest(s)
    <3>1. CASE Sees(s, "EMBEDDING") >= asked[s]
      <4>1. /\ "EMBEDDING" \in TokenType /\ asked[s] \in 0..MaxAmount
            /\ who[s] \in User /\ pc[s] \in Reading
            /\ Charge(s, "EMBEDDING", asked[s])
            /\ EndRequest(s) /\ UNCHANGED increase
        BY <2>9, <3>1 DEF ConsumeIngest, Shape, Reading, TokenType, TypeOK
      <4>2. \A a \in Account : Balance(a)' >= Balance(a) - Limit(a)[s]
        BY <3>1, <4>1, ChargeWithin
      <4> QED
        BY <4>1, <4>2, EndRequestFrame, EndSolvent
    <3>2. CASE ~(Sees(s, "EMBEDDING") >= asked[s])
      BY <1>1, <2>9, <3>2 DEF ConsumeIngest
    <3> QED
      BY <3>1, <3>2
  <2>10. CASE BillTurn(s)
    <3>1. CASE Sees(s, "LLM") >= asked[s]
      <4>1. /\ "LLM" \in TokenType /\ asked[s] \in 0..MaxAmount
            /\ who[s] \in User /\ pc[s] \in Reading
            /\ Charge(s, "LLM", asked[s])
            /\ EndRequest(s) /\ UNCHANGED increase
        BY <2>10, <3>1 DEF BillTurn, Shape, Reading, TokenType, TypeOK
      <4>2. \A a \in Account : Balance(a)' >= Balance(a) - Limit(a)[s]
        BY <3>1, <4>1, ChargeWithin
      <4> QED
        BY <4>1, <4>2, EndRequestFrame, EndSolvent
    <3>2. CASE ~(Sees(s, "LLM") >= asked[s])
      <4>1. EndRequest(s) /\ UNCHANGED <<increase, consume>>
        BY <2>10, <3>2 DEF BillTurn
      <4> QED
        BY <2>2, <2>3, <4>1
    <3> QED
      BY <3>1, <3>2
  <2>11. CASE EnsureIngest(s) \/ Pay(s) \/ PayLock(s)
    BY <1>1, <2>11 DEF EnsureIngest, Pay, PayLock
  <2>12. CASE Grant(s)
    <3>1. EndRequest(s) /\ consume' = consume
      BY <2>12 DEF Grant
    <3>2. PICK u \in User, tokens \in Award :
            increase' = [a \in Account |->
              increase[a] + IF a[1] = u THEN tokens[a[2]] ELSE 0]
      BY <2>12 DEF Grant
    <3>3. \A a \in Account : tokens[a[2]] \in Nat /\ increase[a] \in Nat
      BY <3>2, LedgerAssumption DEF Account, TypeOK
    <3>4. \A a \in Account : increase'[a] >= increase[a]
      BY <3>2, <3>3
    <3> QED
      BY <2>2, <3>1, <3>4
  <2>13. CASE PayCommit(s)
    <3>1. EndRequest(s) /\ consume' = consume
      BY <2>13 DEF PayCommit
    <3>2. doing[s] \in Order /\ orders[doing[s]] # NoOrder
      BY <2>13 DEF PayCommit, Shape, Reading, TypeOK, Snapshot
    <3>3. \A a \in Account : Worth(doing[s], a) \in Nat /\ increase[a] \in Nat
      BY <3>2, WorthType DEF TypeOK
    <3>4. \A a \in Account : increase'[a] >= increase[a]
      BY <2>13, <3>3 DEF PayCommit
    <3> QED
      BY <2>2, <3>1, <3>4
  <2> QED
    BY <2>0, <2>4, <2>5, <2>6, <2>7, <2>8, <2>9, <2>10, <2>11, <2>12, <2>13
       DEF Charging, Crediting
<1> QED
  BY <1>2, <1>3

(***************************************************************************)
(* Orders.                                                                 *)
(***************************************************************************)
LEMMA StaleCount ==
  ASSUME NEW o \in Order
  PROVE  /\ StalePayers(o) \subseteq Session
         /\ IsFiniteSet(StalePayers(o))
         /\ Cardinality(StalePayers(o)) \in Nat
         /\ Cardinality(Session) \in Nat
         /\ Cardinality(StalePayers(o)) <= Cardinality(Session)
<1>1. IsFiniteSet(Session) /\ StalePayers(o) \subseteq Session
  BY LedgerAssumption DEF StalePayers
<1>2. /\ IsFiniteSet(StalePayers(o))
      /\ Cardinality(StalePayers(o)) <= Cardinality(Session)
  BY <1>1, FS_Subset
<1> QED
  BY <1>1, <1>2, FS_CardinalityType

(* Credits that stay, and payers that only become fewer.                   *)
LEMMA FewerPayers ==
  ASSUME TypeOK, TypeOK', CreditsBounded, NEW o \in Order, credits'[o] = credits[o],
         credits[o] > 0 => StalePayers(o)' \subseteq StalePayers(o)
  PROVE  credits'[o] > 0 =>
           credits'[o] + Cardinality(StalePayers(o)') <= Cardinality(Session)
<1> SUFFICES ASSUME credits[o] > 0
             PROVE  credits[o] + Cardinality(StalePayers(o)') <= Cardinality(Session)
  OBVIOUS
<1> DEFINE P == StalePayers(o)
           Q == StalePayers(o)'
<1>1. IsFiniteSet(P) /\ Cardinality(P) \in Nat /\ Cardinality(Session) \in Nat
  BY StaleCount
<1>2. Q \subseteq P
  OBVIOUS
<1>3. Cardinality(Q) <= Cardinality(P) /\ IsFiniteSet(Q)
  BY <1>1, <1>2, FS_Subset
<1>4. Cardinality(Q) \in Nat
  BY <1>3, FS_CardinalityType
<1>5. credits[o] + Cardinality(P) <= Cardinality(Session)
  BY DEF CreditsBounded
<1>6. credits[o] \in Nat
  BY DEF TypeOK
<1> HIDE DEF P, Q
<1>7. credits[o] + Cardinality(Q) <= Cardinality(Session)
  BY <1>1, <1>3, <1>4, <1>5, <1>6
<1> QED
  BY <1>7 DEF Q

(* A step that credits nothing, keeps paid orders paid, and reads no other *)
(* order than unpaid ones.                                                 *)
LEMMA OrdersKept ==
  ASSUME TypeOK, TypeOK', PaidOnce, CreditsBounded, credits' = credits,
         \A o \in Order : orders[o] # NoOrder => orders'[o] = orders[o],
         \A r \in Session : \/ snap'[r] = snap[r]
                            \/ snap'[r] = NoSnap
                            \/ \A o \in snap'[r].payable : orders[o].status = "NOT_PAY"
  PROVE  PaidOnce' /\ CreditsBounded'
<1>1. PaidOnce'
  BY DEF PaidOnce
<1>2. ASSUME NEW o \in Order, credits[o] > 0
      PROVE  StalePayers(o)' \subseteq StalePayers(o)
  <2>1. orders[o].status = "SUCCEED"
    BY <1>2 DEF PaidOnce
  <2> QED
    BY <2>1 DEF StalePayers
<1>3. ASSUME NEW o \in Order
      PROVE  credits'[o] > 0 =>
               credits'[o] + Cardinality(StalePayers(o)') <= Cardinality(Session)
  BY <1>2, FewerPayers
<1> QED
  BY <1>1, <1>3 DEF CreditsBounded

(* A payment commits: the payer is no longer one that may pay.             *)
LEMMA PayCommitOrders ==
  ASSUME TypeOK, TypeOK', Shape, PaidOnce, CreditsBounded,
         NEW s \in Session, PayCommit(s)
  PROVE  PaidOnce' /\ CreditsBounded'
<1>0. doing[s] \in Order
  BY DEF PayCommit, Shape, Reading, TypeOK, Snapshot
<1>a. PICK d \in Order : d = doing[s]
  BY <1>0
<1> DEFINE P == StalePayers(d)
           Q == StalePayers(d)'
<1>1. EndRequest(s)
  BY DEF PayCommit
<1>2. d \in snap[s].payable /\ snap[s] # NoSnap
  BY <1>a DEF PayCommit, Shape, Reading
<1>3. orders[d] # NoOrder
  BY <1>a DEF PayCommit, Shape, Reading
<1>4. orders[d] \in OrderRow
  BY <1>3 DEF TypeOK
<1>5. /\ orders' = [orders EXCEPT ![d].status = "SUCCEED"]
      /\ credits' = [credits EXCEPT ![d] = @ + 1]
  BY <1>a DEF PayCommit
<1>6. /\ credits'[d] = credits[d] + 1 /\ credits[d] \in Nat
      /\ orders'[d].status = "SUCCEED"
      /\ \A o \in Order \ {d} : credits'[o] = credits[o] /\ orders'[o] = orders[o]
  BY <1>3, <1>4, <1>5 DEF TypeOK, OrderRow
<1>7. orders'[d] # NoOrder
  <2>1. [orders[d] EXCEPT !.status = "SUCCEED"] \in OrderRow
    BY <1>4 DEF OrderRow
  <2> QED
    BY <1>3, <1>5, <2>1, LedgerAbsence DEF TypeOK
<1>8. PaidOnce'
  BY <1>6, <1>7 DEF PaidOnce
<1>9. /\ snap'[s] = NoSnap
      /\ \A r \in Session \ {s} : snap'[r] = snap[r]
  BY <1>1, EndRequestFrame
<1>10. \A o \in Order : StalePayers(o)' \subseteq StalePayers(o)
  BY <1>9 DEF StalePayers
<1>11. ASSUME NEW o \in Order, o # d
       PROVE  credits'[o] > 0 =>
                credits'[o] + Cardinality(StalePayers(o)') <= Cardinality(Session)
  BY <1>6, <1>10, <1>11, FewerPayers
<1>12. credits'[d] + Cardinality(Q) <= Cardinality(Session)
  <2>1. s \in P /\ Q = P \ {s}
    BY <1>2, <1>9 DEF StalePayers
  <2>2. /\ IsFiniteSet(P) /\ Cardinality(P) \in Nat
        /\ Cardinality(Session) \in Nat
        /\ Cardinality(P) <= Cardinality(Session)
    BY <1>3, StaleCount
  <2>3. Cardinality(Q) = Cardinality(P) - 1
    BY <2>1, <2>2, FS_RemoveElement
  <2>4. credits[d] > 0 => credits[d] + Cardinality(P) <= Cardinality(Session)
    BY <1>3 DEF CreditsBounded
  <2> HIDE DEF P, Q
  <2> QED
    BY <1>6, <2>2, <2>3, <2>4
<1>13. CreditsBounded'
  BY <1>11, <1>12 DEF CreditsBounded
<1> QED
  BY <1>8, <1>13

(* Every step keeps the credits of an order within the bound.              *)
LEMMA OrdersStep ==
  /\ TypeOK /\ TypeOK' /\ Shape /\ PaidOnce /\ CreditsBounded /\ [Next]_vars
  => PaidOnce' /\ CreditsBounded'
<1> SUFFICES ASSUME TypeOK, TypeOK', Shape, PaidOnce, CreditsBounded, [Next]_vars
             PROVE  PaidOnce' /\ CreditsBounded'
  OBVIOUS
<1> USE DEF tables, request, ghosts
<1>1. ASSUME UNCHANGED <<orders, snap, credits>>
      PROVE  PaidOnce' /\ CreditsBounded'
  BY <1>1, OrdersKept
<1>2. CASE UNCHANGED vars
  BY <1>1, <1>2 DEF vars
<1>3. CASE Next
  <2>0. PICK s \in Session :
          Begin(s) \/ Close(s) \/ Abort(s) \/ Charging(s) \/ Crediting(s)
    BY <1>3 DEF Next
  <2>1. ASSUME NEW u \in User, TakeSnapshot(s, u), UNCHANGED <<orders, credits>>
        PROVE  PaidOnce' /\ CreditsBounded'
    <3>1. /\ \A r \in Session \ {s} : snap'[r] = snap[r]
          /\ \A o \in snap'[s].payable : orders[o].status = "NOT_PAY"
      BY <2>1, SnapshotType
    <3> QED
      BY <2>1, <3>1, OrdersKept
  <2>2. ASSUME EndRequest(s) \/ EndTransaction(s, "stream") \/ EndTransaction(s, "bill"),
               credits' = credits,
               \A o \in Order : orders[o] # NoOrder => orders'[o] = orders[o]
        PROVE  PaidOnce' /\ CreditsBounded'
    <3>1. \A r \in Session : snap'[r] = snap[r] \/ snap'[r] = NoSnap
      BY <2>2 DEF EndRequest, EndTransaction, TypeOK
    <3> QED
      BY <2>2, <3>1, OrdersKept
  <2>3. CASE Begin(s)
    BY <2>1, <2>3 DEF Begin
  <2>4. CASE BillRead(s)
    BY <2>1, <2>4 DEF BillRead, Shape
  <2>5. CASE \/ Close(s) \/ Abort(s) \/ StopTurn(s) \/ ConsumeQuery(s)
             \/ Admit(s) \/ RecordTurn(s) \/ BillTurn(s) \/ Grant(s)
    <3>1. /\ EndRequest(s) \/ EndTransaction(s, "stream") \/ EndTransaction(s, "bill")
          /\ UNCHANGED <<credits, orders>>
      BY <2>5 DEF Close, Abort, StopTurn, ConsumeQuery, Admit, RecordTurn, BillTurn, Grant
    <3> QED
      BY <2>2, <3>1
  <2>6. CASE ConsumeIngest(s)
    <3>1. /\ EndRequest(s) \/ snap' = snap
          /\ UNCHANGED <<credits, orders>>
      BY <2>6 DEF ConsumeIngest
    <3> QED
      BY <1>1, <2>2, <3>1
  <2>7. CASE EnsureIngest(s) \/ Pay(s) \/ PayLock(s)
    BY <1>1, <2>7 DEF EnsureIngest, Pay, PayLock
  <2>8. CASE CreateOrder(s)
    <3>1. EndRequest(s) /\ credits' = credits
      BY <2>8 DEF CreateOrder
    <3>2. \A o \in Order : orders[o] # NoOrder => orders'[o] = orders[o]
      BY <2>8 DEF CreateOrder, TypeOK
    <3> QED
      BY <2>2, <3>1, <3>2
  <2>9. CASE PayCommit(s)
    BY <2>9, PayCommitOrders
  <2> QED
    BY <2>0, <2>3, <2>4, <2>5, <2>6, <2>7, <2>8, <2>9 DEF Charging, Crediting
<1> QED
  BY <1>2, <1>3

(* No step refuses an ingestion that made sure of its tokens.              *)
LEMMA EnsuredStep ==
  TypeOK /\ Shape /\ EnsuredIsCharged /\ [Next]_vars => EnsuredIsCharged'
<1> SUFFICES ASSUME TypeOK, Shape, EnsuredIsCharged, [Next]_vars,
                    NEW r \in Session
             PROVE  pc'[r] # "refused"
  BY DEF EnsuredIsCharged
<1>1. pc[r] # "refused"
  BY DEF EnsuredIsCharged
<1>2. CASE UNCHANGED vars
  BY <1>1, <1>2 DEF vars
<1>3. CASE Next
  <2>0. PICK s \in Session :
          Begin(s) \/ Close(s) \/ Abort(s) \/ Charging(s) \/ Crediting(s)
    BY <1>3 DEF Next
  <2>1. ASSUME NEW label \in Label \ {"refused"}, pc' = [pc EXCEPT ![s] = label]
        PROVE  pc'[r] # "refused"
    BY <1>1, <2>1 DEF TypeOK
  <2>2. CASE \/ Close(s) \/ Abort(s) \/ ConsumeQuery(s) \/ StopTurn(s)
             \/ BillTurn(s) \/ Grant(s) \/ CreateOrder(s) \/ PayCommit(s)
    <3>1. pc' = [pc EXCEPT ![s] = "idle"]
      BY <2>2 DEF Close, Abort, ConsumeQuery, StopTurn, BillTurn, Grant,
                  CreateOrder, PayCommit, EndRequest, EndTransaction
    <3> QED
      BY <2>1, <3>1 DEF Label
  <2>3. CASE ConsumeIngest(s)
    <3>1. Sees(s, "EMBEDDING") >= asked[s]
      BY <2>3 DEF ConsumeIngest, Shape, Sees
    <3>2. pc' = [pc EXCEPT ![s] = "idle"]
      BY <2>3, <3>1 DEF ConsumeIngest, EndRequest, EndTransaction
    <3> QED
      BY <2>1, <3>2 DEF Label
  <2>4. CASE \/ Begin(s) \/ EnsureIngest(s) \/ Admit(s) \/ RecordTurn(s)
             \/ BillRead(s) \/ Pay(s) \/ PayLock(s)
    BY <2>1, <2>4 DEF Begin, EnsureIngest, Admit, RecordTurn, BillRead, Pay,
                      PayLock, EndTransaction, Label
  <2> QED
    BY <2>0, <2>2, <2>3, <2>4 DEF Charging, Crediting
<1> QED
  BY <1>2, <1>3

(***************************************************************************)
(* The theorems.                                                           *)
(***************************************************************************)
(* In the beginning nobody owes or is owed anything.                       *)
LEMMA InitInv == Init => TypeOK /\ Inv
<1> SUFFICES ASSUME Init PROVE TypeOK /\ Inv
  OBVIOUS
<1>1. TypeOK /\ Shape
  BY LedgerAssumption DEF Init, TypeOK, Shape, Label, Reading, Account
<1>2. PaidOnce /\ CreditsBounded /\ EnsuredIsCharged
  BY DEF Init, PaidOnce, CreditsBounded, EnsuredIsCharged
<1>3. ASSUME NEW a \in Account PROVE Slack(Balance(a), Limit(a))
  <2>1. Balance(a) = 0 /\ Armed(Limit(a)) = {}
    BY DEF Init, Balance, Limit, Armed
  <2>2. Cardinality(Session) \in Nat /\ Cardinality(Session) # 0
    BY LedgerAssumption, FS_CardinalityType, FS_EmptySet
  <2>3. MaxAmount * (Cardinality(Session) - 1) \in Nat
    BY <2>2, LedgerAssumption, Times
  <2> QED
    BY <2>1, <2>3 DEF Slack
<1> QED
  BY <1>1, <1>2, <1>3 DEF Inv, Solvent

(* The inductive invariant: what each request holds, how much each account *)
(* can still be charged, and which orders were credited, in every state.   *)
THEOREM Invariance == Spec => [](TypeOK /\ Inv)
<1>1. TypeOK /\ Inv /\ [Next]_vars => TypeOK' /\ Inv'
  BY TypeStep, SolventStep, OrdersStep, EnsuredStep DEF Inv
<1> QED
  BY <1>1, InitInv, PTL DEF Spec

(* However many requests race, consume_tokens takes no balance below zero  *)
(* by more than one charge for each other request.                         *)
THEOREM Overdraft == Spec => []OverdraftBounded
<1>1. TypeOK /\ Solvent => OverdraftBounded
  <2> SUFFICES ASSUME TypeOK, Solvent, NEW a \in Account
               PROVE  Balance(a) >= - ((Cardinality(Session) - 1) * MaxAmount)
    BY DEF OverdraftBounded
  <2> DEFINE limit == Limit(a)
             N == Cardinality(Session)
             k == Cardinality(Armed(limit))
  <2>1. /\ Slack(Balance(a), limit) /\ Balance(a) \in Int
        /\ limit \in [Session -> 0..MaxAmount] /\ MaxAmount \in Nat
    BY LimitType, LedgerAssumption DEF Solvent
  <2>2. N \in Nat /\ k \in Nat /\ (Armed(limit) # {} => k >= 1)
    BY ArmedCount
  <2> HIDE DEF limit
  <2> DEFINE y == MaxAmount * (N - 1)
  <2>3. y \in Int /\ (N - 1) * MaxAmount = y
    BY <2>1, <2>2
  <2>4. Balance(a) + y >= 0
    <3>1. CASE Armed(limit) = {}
      BY <2>1, <3>1 DEF Slack
    <3>2. CASE Armed(limit) # {}
      <4>1. PICK s \in Armed(limit) :
              Balance(a) - limit[s] + MaxAmount * (N - k) >= 0
        BY <2>1, <3>2 DEF Slack
      <4>2. limit[s] \in Nat
        BY <2>1, <4>1 DEF Armed
      <4>3. /\ MaxAmount * (N - k) \in Int
            /\ MaxAmount * (k - 1) \in Int
            /\ MaxAmount * (k - 1) >= 0
        BY <2>1, <2>2, <3>2, Times
      <4>4. y = MaxAmount * (N - k) + MaxAmount * (k - 1)
        BY <2>1, <2>2
      <4> DEFINE z == MaxAmount * (N - k)
                 x == MaxAmount * (k - 1)
      <4> HIDE DEF x, y, z
      <4>5. /\ z \in Int /\ x \in Int /\ x >= 0 /\ y = z + x
            /\ Balance(a) - limit[s] + z >= 0
        BY <4>1, <4>3, <4>4 DEF x, z
      <4> QED
        BY <2>1, <4>2, <4>5
    <3> QED
      BY <3>1, <3>2
  <2> HIDE DEF y
  <2>5. Balance(a) >= - y
    BY <2>1, <2>3, <2>4
  <2> QED
    BY <2>3, <2>5
<1> QED
  BY <1>1, Invariance, PTL DEF Inv

(* However many payments of one order race, it is credited at most once    *)
(* for each request that was in flight when it was paid.                   *)
THEOREM Credits == Spec => []CreditsBounded
BY Invariance, PTL DEF Inv

(* An ingestion that made sure of its tokens is never refused after it had *)
(* its chunks embedded.                                                    *)
THEOREM Ensured == Spec => []EnsuredIsCharged
BY Invariance, PTL DEF Inv

-----------------------------------------------------------------------------
(* The sum of a function over the orders, as Folds defines it: by a        *)
(* function on the sets of orders, which takes one order after another.    *)
Sum(f) == FoldFunctionOnSet(+, 0, f, Order)

Pick(s) == CHOOSE x \in s : TRUE
Adds(f, S, h) ==
  h = [s \in S |-> IF s = {} THEN 0 ELSE f[Pick(s)] + h[s \ {Pick(s)}]]
SumOf(f) == CHOOSE h : Adds(f, SUBSET Order, h)

(* It is the value of that function for the set of all orders.             *)
LEMMA SumIs == \A f : Sum(f) = SumOf(f)[Order]
BY DEF Sum, FoldFunctionOnSet, MapThenFoldSet, SumOf, Adds, Pick

(* Every nonempty set of numbers has a least one.                          *)
LEMMA Least ==
  ASSUME NEW T, T \subseteq Nat, T # {}
  PROVE  \E n \in T : \A k \in T : ~(k < n)
<1>1. PICK R : R = {ss \in Nat \X Nat : ss[1] < ss[2]}
  OBVIOUS
<1>2. IsWellFoundedOn(R, Nat)
  BY <1>1, NatLessThanWellFounded DEF OpToRel
<1>3. \E n \in T : \A k \in T : ~(<<k, n>> \in R)
  BY <1>2, WFMin
<1> QED
  BY <1>1, <1>3

(* Without the order it takes first, a set of orders is smaller.           *)
LEMMA PickSmaller ==
  ASSUME NEW s \in SUBSET Order
  PROVE  /\ Cardinality(s) \in Nat
         /\ s \ {Pick(s)} \in SUBSET Order
         /\ Cardinality(s) = 0 <=> s = {}
         /\ s # {} => /\ Pick(s) \in s
                      /\ Cardinality(s \ {Pick(s)}) = Cardinality(s) - 1
<1>1. IsFiniteSet(s)
  BY FS_Subset, LedgerAssumption
<1>2. Cardinality(s) \in Nat /\ (Cardinality(s) = 0 <=> s = {})
  BY <1>1, FS_CardinalityType, FS_EmptySet
<1>3. s # {} => Pick(s) \in s
  BY DEF Pick
<1>4. s # {} => Cardinality(s \ {Pick(s)}) = Cardinality(s) - 1
  BY <1>1, <1>3, FS_RemoveElement
<1> QED
  BY <1>2, <1>3, <1>4

(* What holds of the empty set, and of a set when it holds without the     *)
(* order taken first, holds of every set of orders.                        *)
LEMMA OrderInduction ==
  ASSUME NEW B, {} \in B,
         \A s \in SUBSET Order : s # {} /\ s \ {Pick(s)} \in B => s \in B
  PROVE  \A s \in SUBSET Order : s \in B
<1> DEFINE T == {Cardinality(s) : s \in {r \in SUBSET Order : r \notin B}}
<1>1. SUFFICES ASSUME T # {} PROVE FALSE
  OBVIOUS
<1>2. T \subseteq Nat
  <2>1. \A s \in SUBSET Order : Cardinality(s) \in Nat
    BY PickSmaller
  <2> QED
    BY <2>1
<1>3. PICK n \in T : \A k \in T : ~(k < n)
  <2> HIDE DEF T
  <2> QED
    BY <1>1, <1>2, Least
<1>4. PICK s \in SUBSET Order : s \notin B /\ n = Cardinality(s)
  OBVIOUS
<1> DEFINE r == s \ {Pick(s)}
<1>5. s # {}
  BY <1>4
<1>6. r \in SUBSET Order /\ Cardinality(r) = n - 1 /\ n \in Nat
  BY <1>4, <1>5, PickSmaller
<1>7. r \notin B
  BY <1>4, <1>5
<1>8. Cardinality(r) \in T
  BY <1>6, <1>7
<1> HIDE DEF T, r
<1> QED
  BY <1>3, <1>6, <1>8

(* There is such a function: built up to the sets of n orders, for each n. *)
LEMMA SumOfAdds ==
  ASSUME NEW f
  PROVE  Adds(f, SUBSET Order, SumOf(f))
<1> DEFINE Small(n) == {s \in SUBSET Order : Cardinality(s) <= n}
           T == {n \in Nat : ~\E h : Adds(f, Small(n), h)}
<1>1. T = {}
  <2>1. SUFFICES ASSUME T # {} PROVE FALSE
    OBVIOUS
  <2>2. PICK m \in T : \A k \in T : ~(k < m)
    <3>1. T \subseteq Nat
      OBVIOUS
    <3> HIDE DEF T
    <3> QED
      BY <2>1, <3>1, Least
  <2>3. m \in Nat /\ ~\E h : Adds(f, Small(m), h)
    OBVIOUS
  <2>4. CASE m = 0
    <3>1. Small(m) = {{}}
      <4>1. \A s \in SUBSET Order : Cardinality(s) \in Nat /\ (Cardinality(s) = 0 <=> s = {})
        BY PickSmaller
      <4>2. \A s \in SUBSET Order : Cardinality(s) <= m <=> s = {}
        BY <2>4, <4>1
      <4> QED
        BY <4>2
    <3>2. Adds(f, {{}}, [s \in {{}} |-> 0])
      BY DEF Adds
    <3> HIDE DEF Small
    <3> QED
      BY <2>3, <3>1, <3>2
  <2>5. CASE m # 0
    <3>1. m - 1 \in Nat /\ m - 1 < m
      BY <2>3, <2>5
    <3>2. PICK h : Adds(f, Small(m - 1), h)
      BY <2>2, <3>1
    <3> DEFINE g == [s \in Small(m) |->
                       IF s = {} THEN 0 ELSE f[Pick(s)] + h[s \ {Pick(s)}]]
    <3>3. \A s \in Small(m - 1) : s \in Small(m)
      <4>1. \A s \in SUBSET Order : Cardinality(s) \in Nat
        BY PickSmaller
      <4> QED
        BY <2>3, <4>1
    <3>4. \A s \in Small(m) : s # {} => s \ {Pick(s)} \in Small(m - 1)
      <4> SUFFICES ASSUME NEW s \in Small(m), s # {}
                   PROVE  s \ {Pick(s)} \in Small(m - 1)
        OBVIOUS
      <4>1. s \in SUBSET Order /\ Cardinality(s) <= m
        OBVIOUS
      <4>2. /\ s \ {Pick(s)} \in SUBSET Order /\ Cardinality(s) \in Nat
            /\ Cardinality(s \ {Pick(s)}) = Cardinality(s) - 1
        BY <4>1, PickSmaller
      <4>3. Cardinality(s \ {Pick(s)}) <= m - 1
        BY <2>3, <4>1, <4>2
      <4> QED
        BY <4>2, <4>3
    <3> HIDE DEF Small
    <3>5. \A s \in Small(m - 1) : g[s] = h[s]
      BY <3>2, <3>3 DEF Adds
    <3>6. \A s \in Small(m) : s # {} => g[s \ {Pick(s)}] = h[s \ {Pick(s)}]
      BY <3>4, <3>5
    <3> HIDE DEF g
    <3>7. g = [s \in Small(m) |-> IF s = {} THEN 0 ELSE f[Pick(s)] + g[s \ {Pick(s)}]]
      BY <3>6 DEF g
    <3> QED
      BY <2>3, <3>7 DEF Adds
  <2> QED
    BY <2>4, <2>5
<1>2. Cardinality(Order) \in Nat
  BY FS_CardinalityType, LedgerAssumption
<1>3. Small(Cardinality(Order)) = SUBSET Order
  BY FS_Subset, LedgerAssumption
<1>4. \E h : Adds(f, Small(Cardinality(Order)), h)
  <2> HIDE DEF Small
  <2> QED
    BY <1>1, <1>2
<1>5. \E h : Adds(f, SUBSET Order, h)
  <2> HIDE DEF Small
  <2> QED
    BY <1>3, <1>4
<1> QED
  BY <1>5 DEF SumOf

(* ... so that it can be computed.                                         *)
LEMMA SumOfStep ==
  ASSUME NEW f
  PROVE  /\ SumOf(f)[{}] = 0
         /\ \A s \in SUBSET Order :
              s # {} => SumOf(f)[s] = f[Pick(s)] + SumOf(f)[s \ {Pick(s)}]
<1> DEFINE h == SumOf(f)
<1>1. h = [s \in SUBSET Order |-> IF s = {} THEN 0 ELSE f[Pick(s)] + h[s \ {Pick(s)}]]
  BY SumOfAdds DEF Adds
<1> HIDE DEF h
<1>2. /\ h[{}] = 0
      /\ \A s \in SUBSET Order : s # {} => h[s] = f[Pick(s)] + h[s \ {Pick(s)}]
  BY <1>1
<1> QED
  BY <1>2 DEF h

(* Nothing sums up to nothing.                                             *)
LEMMA SumZero ==
  ASSUME NEW f, \A o \in Order : f[o] = 0
  PROVE  Sum(f) = 0
<1> DEFINE B == {s \in SUBSET Order : SumOf(f)[s] = 0}
<1>1. {} \in B
  BY SumOfStep
<1>2. ASSUME NEW s \in SUBSET Order, s # {}, s \ {Pick(s)} \in B
      PROVE  s \in B
  <2>1. SumOf(f)[s] = f[Pick(s)] + SumOf(f)[s \ {Pick(s)}]
    BY <1>2, SumOfStep
  <2>2. f[Pick(s)] = 0
    BY <1>2, PickSmaller
  <2>3. SumOf(f)[s \ {Pick(s)}] = 0
    BY <1>2
  <2> QED
    BY <2>1, <2>2, <2>3
<1>3. \A s \in SUBSET Order : s \in B
  <2> HIDE DEF B
  <2> QED
    BY <1>1, <1>2, OrderInduction
<1> QED
  BY <1>3, SumIs

(* Whole numbers sum up to a whole number.                                 *)
LEMMA SumWhole ==
  ASSUME NEW f, \A o \in Order : f[o] \in Int
  PROVE  \A s \in SUBSET Order : SumOf(f)[s] \in Int
<1> DEFINE B == {s \in SUBSET Order : SumOf(f)[s] \in Int}
<1>1. {} \in B
  BY SumOfStep
<1>2. ASSUME NEW s \in SUBSET Order, s # {}, s \ {Pick(s)} \in B
      PROVE  s \in B
  <2>1. SumOf(f)[s] = f[Pick(s)] + SumOf(f)[s \ {Pick(s)}]
    BY <1>2, SumOfStep
  <2>2. f[Pick(s)] \in Int
    BY <1>2, PickSmaller
  <2>3. SumOf(f)[s \ {Pick(s)}] \in Int
    BY <1>2
  <2> QED
    BY <2>1, <2>2, <2>3
<1>3. \A s \in SUBSET Order : s \in B
  <2> HIDE DEF B
  <2> QED
    BY <1>1, <1>2, OrderInduction
<1> QED
  BY <1>3

(* When one order comes to add d more, so does the sum.                    *)
LEMMA SumChanged ==
  ASSUME NEW f, NEW g, NEW o \in Order, NEW d \in Int,
         \A p \in Order : f[p] \in Int,
         g[o] = f[o] + d, \A p \in Order \ {o} : g[p] = f[p]
  PROVE  Sum(g) = Sum(f) + d
<1> DEFINE B == {s \in SUBSET Order :
                   SumOf(g)[s] = SumOf(f)[s] + IF o \in s THEN d ELSE 0}
<1>1. {} \in B
  BY SumOfStep
<1>2. ASSUME NEW s \in SUBSET Order, s # {}, s \ {Pick(s)} \in B
      PROVE  s \in B
  <2> DEFINE p == Pick(s)
             r == s \ {p}
  <2>1. p \in s /\ p \in Order /\ r \in SUBSET Order
    BY <1>2, PickSmaller
  <2>2. SumOf(f)[s] = f[p] + SumOf(f)[r] /\ SumOf(g)[s] = g[p] + SumOf(g)[r]
    BY <1>2, SumOfStep
  <2>3. f[p] \in Int /\ SumOf(f)[r] \in Int
    BY <2>1, SumWhole
  <2>4. SumOf(g)[r] = SumOf(f)[r] + IF o \in r THEN d ELSE 0
    BY <1>2
  <2>5. CASE p = o
    <3>1. o \in s /\ o \notin r /\ g[p] = f[p] + d
      BY <2>1, <2>5
    <3> HIDE DEF p, r
    <3>2. SumOf(g)[s] = SumOf(f)[s] + d
      BY <2>2, <2>3, <2>4, <3>1
    <3> QED
      BY <3>1, <3>2
  <2>6. CASE p # o
    <3>1. (o \in s <=> o \in r) /\ g[p] = f[p]
      BY <2>1, <2>6
    <3> HIDE DEF p, r
    <3>2. SumOf(g)[s] = SumOf(f)[s] + IF o \in s THEN d ELSE 0
      BY <2>2, <2>3, <2>4, <3>1
    <3> QED
      BY <3>2
  <2> QED
    BY <2>5, <2>6
<1>3. \A s \in SUBSET Order : s \in B
  <2> HIDE DEF B
  <2> QED
    BY <1>1, <1>2, OrderInduction
<1> QED
  BY <1>3, SumIs

-----------------------------------------------------------------------------
(* What the rows of a's account should sum up to.                          *)
Term(o, a) == IF orders[o] = NoOrder THEN 0 ELSE credits[o] * Worth(o, a)
Terms(a) == [o \in Order |-> Term(o, a)]

(* ... in whole numbers.                                                   *)
LEMMA TermType ==
  ASSUME TypeOK, NEW o \in Order, NEW a \in Account
  PROVE  Term(o, a) \in Int
<1>1. CASE orders[o] = NoOrder
  BY <1>1 DEF Term
<1>2. CASE orders[o] # NoOrder
  <2>1. credits[o] \in Nat /\ Worth(o, a) \in Nat
    BY <1>2, WorthType DEF TypeOK
  <2> QED
    BY <1>2, <2>1 DEF Term
<1> QED
  BY <1>1, <1>2

(* Nothing is added and no order changes what it adds: the account is as   *)
(* it was.                                                                 *)
LEMMA TermsKept ==
  ASSUME IncreaseAccounted,
         \A a \in Account, o \in Order : Term(o, a)' = Term(o, a),
         \A a \in Account : increase'[a] - granted'[a] = increase[a] - granted[a],
         TypeOK, TypeOK'
  PROVE  IncreaseAccounted'
<1> SUFFICES ASSUME NEW a \in Account
             PROVE  increase'[a] = granted'[a] + Sum(Terms(a)')
  BY DEF IncreaseAccounted, Sum, Terms, Term, FoldFunctionOnSet, MapThenFoldSet, Worth
<1>1. Terms(a)' = Terms(a)
  BY DEF Terms
<1>2. increase[a] = granted[a] + Sum(Terms(a))
  BY DEF IncreaseAccounted, Sum, Terms, Term
<1>3. Sum(Terms(a)) \in Int
  <2>1. \A o \in Order : Terms(a)[o] \in Int
    BY TermType DEF Terms
  <2> QED
    BY <2>1, SumWhole, SumIs
<1>4. /\ increase[a] \in Nat /\ granted[a] \in Nat
      /\ increase'[a] \in Nat /\ granted'[a] \in Nat
      /\ increase'[a] - granted'[a] = increase[a] - granted[a]
  BY DEF TypeOK
<1> QED
  BY <1>1, <1>2, <1>3, <1>4

(* A payment adds to the account what one more credit of its order adds to *)
(* the sum.                                                                *)
LEMMA PaidAccounted ==
  ASSUME TypeOK, TypeOK', Shape, IncreaseAccounted, NEW s \in Session, PayCommit(s)
  PROVE  IncreaseAccounted'
<1> DEFINE o == doing[s]
<1>1. o \in Order /\ orders[o] # NoOrder /\ orders[o] \in OrderRow
  <2>1. snap[s] \in Snapshot /\ doing[s] \in snap[s].payable /\ orders[doing[s]] # NoOrder
    BY DEF PayCommit, Shape, Reading, TypeOK
  <2>2. doing[s] \in Order
    BY <2>1 DEF Snapshot
  <2> QED
    BY <2>1, <2>2 DEF TypeOK
<1>2. /\ orders' = [orders EXCEPT ![o].status = "SUCCEED"]
      /\ increase' = [a \in Account |-> increase[a] + Worth(o, a)]
      /\ credits' = [credits EXCEPT ![o] = @ + 1]
      /\ granted' = granted
  BY DEF PayCommit
<1>3. /\ orders' = [orders EXCEPT ![o] = [orders[o] EXCEPT !.status = "SUCCEED"]]
      /\ orders'[o] = [orders[o] EXCEPT !.status = "SUCCEED"]
      /\ credits'[o] = credits[o] + 1
      /\ \A p \in Order \ {o} : orders'[p] = orders[p] /\ credits'[p] = credits[p]
  BY <1>1, <1>2 DEF TypeOK
<1>4. orders'[o].user = orders[o].user /\ orders'[o].tokens = orders[o].tokens
  BY <1>1, <1>3 DEF OrderRow
<1>5. orders'[o] # NoOrder
  BY <1>1, <1>3, LedgerAbsence DEF OrderRow
<1> HIDE DEF o
<1> SUFFICES ASSUME NEW a \in Account
             PROVE  increase'[a] = granted'[a] + Sum(Terms(a)')
  BY DEF IncreaseAccounted, Sum, Terms, Term, FoldFunctionOnSet, MapThenFoldSet, Worth
<1>6. credits[o] \in Nat /\ Worth(o, a) \in Nat
  BY <1>1, WorthType DEF TypeOK
<1>7. Terms(a)'[o] = Terms(a)[o] + Worth(o, a)
  <2>1. (IF orders'[o].user = a[1] THEN orders'[o].tokens[a[2]] ELSE 0) = Worth(o, a)
    BY <1>4 DEF Worth
  <2>2. Terms(a)'[o] = credits'[o] * Worth(o, a)
    BY <1>1, <1>5, <2>1 DEF Terms, Term, Worth
  <2>3. Terms(a)[o] = credits[o] * Worth(o, a)
    BY <1>1 DEF Terms, Term
  <2>4. \A m, n \in Nat : (m + 1) * n = m * n + n
    OBVIOUS
  <2> QED
    BY <1>3, <1>6, <2>1, <2>2, <2>3, <2>4
<1>8. \A p \in Order \ {o} : Terms(a)'[p] = Terms(a)[p]
  BY <1>3 DEF Terms, Term, Worth
<1>9. \A p \in Order : Terms(a)[p] \in Int
  BY TermType DEF Terms
<1>10. Sum(Terms(a)') = Sum(Terms(a)) + Worth(o, a)
  BY <1>1, <1>6, <1>7, <1>8, <1>9, SumChanged
<1>11. Sum(Terms(a)) \in Int
  BY <1>9, SumWhole, SumIs
<1>12. increase[a] = granted[a] + Sum(Terms(a))
  BY DEF IncreaseAccounted, Sum, Terms, Term
<1>13. increase'[a] = increase[a] + Worth(o, a) /\ increase[a] \in Nat /\ granted[a] \in Nat
  BY <1>2 DEF TypeOK
<1> QED
  BY <1>2, <1>6, <1>10, <1>11, <1>12, <1>13

(* An order starts without credits.                                        *)
LEMMA CreatedAccounted ==
  ASSUME TypeOK, TypeOK', PaidOnce, IncreaseAccounted, NEW s \in Session, CreateOrder(s)
  PROVE  IncreaseAccounted'
<1>1. PICK o \in Order, tokens \in Award :
        /\ orders[o] = NoOrder
        /\ orders' = [orders EXCEPT ![o] =
             [user |-> who[s], status |-> "NOT_PAY", tokens |-> tokens]]
  BY DEF CreateOrder
<1>2. UNCHANGED <<increase, credits, granted>>
  BY DEF CreateOrder, ghosts
<1>3. credits[o] = 0
  BY <1>1 DEF PaidOnce, TypeOK
<1>4. \A p \in Order \ {o} : orders'[p] = orders[p]
  BY <1>1 DEF TypeOK
<1>5. ASSUME NEW a \in Account, NEW p \in Order PROVE Term(p, a)' = Term(p, a)
  <2>1. CASE p = o
    <3>1. Term(p, a) = 0
      BY <1>1, <2>1 DEF Term
    <3> DEFINE w == IF orders'[p].user = a[1] THEN orders'[p].tokens[a[2]] ELSE 0
    <3>2. orders'[p] # NoOrder => w \in Nat
      BY LedgerAssumption DEF TypeOK, OrderRow, Account
    <3>3. Term(p, a)' = IF orders'[p] = NoOrder THEN 0 ELSE credits'[p] * w
      BY DEF Term, Worth
    <3> HIDE DEF w
    <3>4. credits'[p] = 0
      BY <1>2, <1>3, <2>1
    <3> QED
      BY <3>1, <3>2, <3>3, <3>4
  <2>2. CASE p # o
    BY <1>2, <1>4, <2>2 DEF Term, Worth
  <2> QED
    BY <2>1, <2>2
<1> QED
  BY <1>2, <1>5, TermsKept

(* A grant is counted on both sides.                                       *)
LEMMA GrantAccounted ==
  ASSUME TypeOK, TypeOK', IncreaseAccounted, NEW s \in Session, Grant(s)
  PROVE  IncreaseAccounted'
<1>1. PICK u \in User, tokens \in Award :
        /\ increase' = [a \in Account |->
             increase[a] + IF a[1] = u THEN tokens[a[2]] ELSE 0]
        /\ granted' = [a \in Account |->
             granted[a] + IF a[1] = u THEN tokens[a[2]] ELSE 0]
  BY DEF Grant
<1>2. UNCHANGED <<orders, credits>>
  BY DEF Grant
<1>3. \A a \in Account : (IF a[1] = u THEN tokens[a[2]] ELSE 0) \in Nat
  BY LedgerAssumption DEF Account
<1>4. \A a \in Account : increase'[a] - granted'[a] = increase[a] - granted[a]
  <2> SUFFICES ASSUME NEW a \in Account
               PROVE  increase'[a] - granted'[a] = increase[a] - granted[a]
    OBVIOUS
  <2> DEFINE d == IF a[1] = u THEN tokens[a[2]] ELSE 0
  <2>1. /\ increase'[a] = increase[a] + d /\ granted'[a] = granted[a] + d
        /\ d \in Nat /\ increase[a] \in Nat /\ granted[a] \in Nat
    BY <1>1, <1>3 DEF TypeOK
  <2> HIDE DEF d
  <2> QED
    BY <2>1
<1>5. \A a \in Account, o \in Order : Term(o, a)' = Term(o, a)
  BY <1>2 DEF Term, Worth
<1> QED
  BY <1>4, <1>5, TermsKept

(* Every other step adds nothing and leaves the orders what they add.      *)
LEMMA AccountedStep ==
  ASSUME TypeOK, TypeOK', Inv, IncreaseAccounted, [Next]_vars
  PROVE  IncreaseAccounted'
<1>1. Shape /\ PaidOnce
  BY DEF Inv
<1>2. ASSUME UNCHANGED <<increase, granted, orders, credits>> PROVE IncreaseAccounted'
  <2>1. \A a \in Account, o \in Order : Term(o, a)' = Term(o, a)
    BY <1>2 DEF Term, Worth
  <2> QED
    BY <1>2, <2>1, TermsKept
<1>3. CASE UNCHANGED vars
  BY <1>2, <1>3 DEF vars
<1>4. CASE Next
  <2>1. PICK s \in Session :
          Begin(s) \/ Close(s) \/ Abort(s) \/ Charging(s) \/ Crediting(s)
    BY <1>4 DEF Next
  <2>2. CASE Begin(s) \/ Close(s) \/ Abort(s) \/ Charging(s) \/ Pay(s) \/ PayLock(s)
    <3>1. UNCHANGED <<increase, granted, orders, credits>>
      BY <2>2 DEF Begin, Close, Abort, Charging, Pay, PayLock, ConsumeQuery, EnsureIngest,
                  ConsumeIngest, Admit, RecordTurn, StopTurn, BillRead, BillTurn, tables, ghosts
    <3> QED
      BY <1>2, <3>1
  <2>3. CASE Grant(s)
    BY <2>3, GrantAccounted
  <2>4. CASE CreateOrder(s)
    BY <1>1, <2>4, CreatedAccounted
  <2>5. CASE PayCommit(s)
    BY <1>1, <2>5, PaidAccounted
  <2> QED
    BY <2>1, <2>2, <2>3, <2>4, <2>5 DEF Crediting
<1> QED
  BY <1>3, <1>4

(* What an account has received is what administrators granted             *)
(* (add_tokens) and what its orders were credited for (mock_pay): neither  *)
(* a payment that failed nor one that was repeated leaves half of an order *)
(* behind.                                                                 *)
THEOREM Accounted == Spec => []IncreaseAccounted
<1>1. Init => IncreaseAccounted
  <2> SUFFICES ASSUME Init, NEW a \in Account
               PROVE  increase[a] = granted[a] + Sum(Terms(a))
    BY DEF IncreaseAccounted, Sum, Terms, Term
  <2>1. \A o \in Order : Terms(a)[o] = 0
    BY DEF Init, Terms, Term
  <2>2. Sum(Terms(a)) = 0
    BY <2>1, SumZero
  <2> QED
    BY <2>2 DEF Init
<1>2. (TypeOK /\ Inv) /\ (TypeOK /\ Inv)' /\ IncreaseAccounted /\ [Next]_vars
        => IncreaseAccounted'
  BY AccountedStep
<1> QED
  BY <1>1, <1>2, Invariance, PTL DEF Spec
=============================================================================
