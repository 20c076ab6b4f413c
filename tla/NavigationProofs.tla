-------------------------- MODULE NavigationProofs --------------------------
(***************************************************************************)
(* The proofs about the router of the page: NavigationInv is inductive,    *)
(* and when no navigation is under way it says that the view, the routes   *)
(* and the tabs are the user's.  And about the pages it leads to: the      *)
(* lists, the requests and their messages, the notice of a new build, the  *)
(* forms of the administration, the model settings, the upload dialog, the *)
(* recharge page, the preview of a citation, the theme and the chart, each *)
(* with its own inductive invariant.                                       *)
(***************************************************************************)
EXTENDS Navigation, UpdateNotice, UploadDialog, SourcePreview, Theme,
        FiniteSetTheorems, SequenceTheorems, NaturalsInduction, WellFoundedInduction, TLAPS

-----------------------------------------------------------------------------
(* Sequences: one more element, one less, and those that filter leaves.    *)

LEMMA SeqIs ==
  ASSUME NEW S, NEW s \in Seq(S)
  PROVE  DOMAIN s = 1..Len(s) /\ Len(s) \in Nat /\ \A k \in DOMAIN s : s[k] \in S
BY LenProperties, ElementOfSeq

LEMMA Appended ==
  ASSUME NEW S, NEW s \in Seq(S), NEW x \in S
  PROVE  /\ Append(s, x) \in Seq(S) /\ Len(Append(s, x)) = Len(s) + 1
         /\ DOMAIN Append(s, x) = DOMAIN s \cup {Len(s) + 1}
         /\ Append(s, x)[Len(s) + 1] = x
         /\ \A k \in DOMAIN s : k # Len(s) + 1 /\ Append(s, x)[k] = s[k]
<1>1. DOMAIN s = 1..Len(s) /\ Len(s) \in Nat
  BY SeqIs
<1>2. Append(s, x) \in Seq(S) /\ Len(Append(s, x)) = Len(s) + 1
  BY AppendProperties
<1>3. DOMAIN Append(s, x) = 1..(Len(s) + 1)
  BY <1>2, LenProperties
<1>4. Append(s, x)[Len(s) + 1] = x
  BY AppendProperties
<1>5. \A k \in 1..Len(s) : Append(s, x)[k] = s[k]
  BY AppendProperties
<1> QED
  BY <1>1, <1>2, <1>3, <1>4, <1>5

LEMMA Removed ==
  ASSUME NEW S, NEW s \in Seq(S), NEW k \in DOMAIN s
  PROVE  /\ Without(s, k) \in Seq(S) /\ Len(Without(s, k)) = Len(s) - 1
         /\ DOMAIN Without(s, k) = 1..(Len(s) - 1)
         /\ \A j \in 1..(Len(s) - 1) : Without(s, k)[j] = s[IF j < k THEN j ELSE j + 1]
<1> DEFINE a == SubSeq(s, 1, k - 1)
           b == SubSeq(s, k + 1, Len(s))
<1>1. DOMAIN s = 1..Len(s) /\ Len(s) \in Nat /\ k \in 1..Len(s)
  BY SeqIs
<1>2. a \in Seq(S) /\ Len(a) = k - 1 /\ \A i \in 1..(k - 1) : a[i] = s[i]
  BY <1>1
<1>3. b \in Seq(S) /\ Len(b) = Len(s) - k /\ \A i \in 1..(Len(s) - k) : b[i] = s[i + k]
  BY <1>1
<1> HIDE DEF a, b
<1>4. Without(s, k) = a \o b
  BY DEF Without, a, b
<1>5. /\ a \o b \in Seq(S) /\ Len(a \o b) = Len(s) - 1
      /\ \A j \in 1..(Len(s) - 1) : (a \o b)[j] = IF j <= k - 1 THEN a[j] ELSE b[j - (k - 1)]
  <2>1. a \o b \in Seq(S) /\ Len(a \o b) = Len(a) + Len(b)
        /\ \A j \in 1..(Len(a) + Len(b)) :
             (a \o b)[j] = IF j <= Len(a) THEN a[j] ELSE b[j - Len(a)]
    BY <1>2, <1>3, ConcatProperties
  <2>2. Len(a) + Len(b) = Len(s) - 1
    BY <1>1, <1>2, <1>3
  <2> QED
    BY <1>2, <2>1, <2>2
<1>6. ASSUME NEW j \in 1..(Len(s) - 1)
      PROVE  (a \o b)[j] = s[IF j < k THEN j ELSE j + 1]
  <2>1. CASE j <= k - 1
    BY <1>1, <1>2, <1>5, <2>1
  <2>2. CASE ~(j <= k - 1)
    <3>1. PICK i \in 1..(Len(s) - k) : i = j - (k - 1)
      BY <1>1, <2>2
    <3>2. i + k = j + 1 /\ b[i] = s[i + k]
      BY <1>1, <1>3, <3>1
    <3>3. (a \o b)[j] = b[i]
      BY <1>5, <2>2, <3>1
    <3> QED
      BY <1>1, <2>2, <3>2, <3>3
  <2> QED
    BY <2>1, <2>2
<1>7. DOMAIN (a \o b) = 1..(Len(s) - 1)
  BY <1>5, LenProperties
<1> QED
  BY <1>4, <1>5, <1>6, <1>7

(* ts has only elements of s, and no two of one.                           *)
From(ts, s) ==
  \E f \in [DOMAIN ts -> DOMAIN s] :
    /\ \A j \in DOMAIN ts : ts[j] = s[f[j]]
    /\ \A i, j \in DOMAIN ts : f[i] = f[j] => i = j

(* Every element but the k-th stays, and the last one stays the last.      *)
LEMMA Remain ==
  ASSUME NEW S, NEW s \in Seq(S), NEW k \in DOMAIN s
  PROVE  /\ \A j \in DOMAIN Without(s, k) :
              \E i \in DOMAIN s : /\ i # k /\ Without(s, k)[j] = s[i]
                                  /\ i = Len(s) => j = Len(Without(s, k))
         /\ \A i \in DOMAIN s : i # k => \E j \in DOMAIN Without(s, k) : Without(s, k)[j] = s[i]
         /\ From(Without(s, k), s)
<1>1. DOMAIN s = 1..Len(s) /\ Len(s) \in Nat /\ k \in 1..Len(s)
  BY SeqIs
<1>2. ASSUME NEW j \in DOMAIN Without(s, k)
      PROVE  \E i \in DOMAIN s : /\ i # k /\ Without(s, k)[j] = s[i]
                                 /\ i = Len(s) => j = Len(Without(s, k))
  <2>1. j \in 1..(Len(s) - 1) /\ Without(s, k)[j] = s[IF j < k THEN j ELSE j + 1]
        /\ Len(Without(s, k)) = Len(s) - 1
    BY Removed
  <2>2. PICK i \in 1..Len(s) : i = IF j < k THEN j ELSE j + 1
    BY <1>1, <2>1
  <2>3. i # k /\ Without(s, k)[j] = s[i] /\ (i = Len(s) => j = Len(s) - 1)
    BY <1>1, <2>1, <2>2
  <2> QED
    BY <1>1, <2>1, <2>3
<1>3. ASSUME NEW i \in DOMAIN s, i # k
      PROVE  \E j \in DOMAIN Without(s, k) : Without(s, k)[j] = s[i]
  <2> DEFINE j == IF i < k THEN i ELSE i - 1
  <2>1. j \in 1..(Len(s) - 1) /\ (IF j < k THEN j ELSE j + 1) = i
    BY <1>1, <1>3
  <2> HIDE DEF j
  <2>2. j \in DOMAIN Without(s, k) /\ Without(s, k)[j] = s[i]
    BY <2>1, Removed
  <2> QED
    BY <2>2
<1>4. From(Without(s, k), s)
  <2> DEFINE f == [j \in 1..(Len(s) - 1) |-> IF j < k THEN j ELSE j + 1]
  <2>1. f \in [1..(Len(s) - 1) -> 1..Len(s)]
    BY <1>1
  <2>2. \A i, j \in 1..(Len(s) - 1) : f[i] = f[j] => i = j
    BY <1>1
  <2>3. \A j \in 1..(Len(s) - 1) : Without(s, k)[j] = s[f[j]]
    BY Removed
  <2> HIDE DEF f
  <2>4. DOMAIN Without(s, k) = 1..(Len(s) - 1)
    BY Removed
  <2> QED
    BY <1>1, <2>1, <2>2, <2>3, <2>4 DEF From
<1> QED
  BY <1>2, <1>3, <1>4

(* How many of I come before: the places of its elements in their order.   *)
LEMMA RankIs ==
  ASSUME NEW n \in Nat, NEW I \in SUBSET (1..n)
  PROVE  /\ Cardinality(I) \in Nat
         /\ \A i \in I : Rank(i, I) \in 1..Cardinality(I)
         /\ \A j \in 1..Cardinality(I) : \E i \in I : Rank(i, I) = j
         /\ \A i, j \in I : Rank(i, I) = Rank(j, I) => i = j
<1> DEFINE upto(i) == {x \in I : x <= i}
<1>1. IsFiniteSet(I) /\ Cardinality(I) \in Nat
  <2>1. IsFiniteSet(1..n)
    BY FS_Interval
  <2>2. IsFiniteSet(I)
    BY <2>1, FS_Subset
  <2> QED
    BY <2>2, FS_CardinalityType
<1>2. \A i : IsFiniteSet(upto(i)) /\ Cardinality(upto(i)) \in Nat /\ Cardinality(upto(i)) <= Cardinality(I)
  BY <1>1, FS_Subset, FS_CardinalityType
<1>3. ASSUME NEW i \in I, NEW j \in I, i < j
      PROVE  Rank(i, I) < Rank(j, I)
  <2>0. j \notin upto(i) /\ \A x \in I : x \in Nat
    BY <1>3
  <2>1. IsFiniteSet(upto(i) \cup {j}) /\ Cardinality(upto(i) \cup {j}) = Cardinality(upto(i)) + 1
    BY <1>2, <2>0, FS_AddElement
  <2>2. upto(i) \cup {j} \in SUBSET upto(j)
    <3>1. j <= j /\ \A x \in I : x <= i => x <= j
      BY <1>3, <2>0
    <3> QED
      BY <3>1, Zenon
  <2>3. Cardinality(upto(i) \cup {j}) <= Cardinality(upto(j))
    BY <1>2, <2>2, FS_Subset
  <2> QED
    BY <1>2, <2>1, <2>3 DEF Rank
<1>4. ASSUME NEW i \in I PROVE Rank(i, I) \in 1..Cardinality(I)
  <2>1. i \in upto(i)
    OBVIOUS
  <2>2. Cardinality(upto(i)) # 0
    BY <1>2, <2>1, FS_EmptySet
  <2> QED
    BY <1>1, <1>2, <2>2 DEF Rank
<1>5. \A i, j \in I : Rank(i, I) = Rank(j, I) => i = j
  <2>1. \A i \in I : Rank(i, I) \in Nat
    BY <1>1, <1>4
  <2> QED
    BY <1>3, <2>1
<1>6. \A j \in 1..Cardinality(I) : \E i \in I : Rank(i, I) = j
  <2> DEFINE f == [i \in I |-> Rank(i, I)]
  <2>1. f \in Injection(I, 1..Cardinality(I))
    BY <1>4, <1>5 DEF Injection, IsInjective
  <2>2. IsFiniteSet(1..Cardinality(I)) /\ Cardinality(1..Cardinality(I)) = Cardinality(I)
    BY <1>1, FS_Interval
  <2>3. f \in Surjection(I, 1..Cardinality(I))
    <3> HIDE DEF f
    <3> QED
      BY <2>1, <2>2, FS_Injection
  <2> QED
    BY <2>3 DEF Surjection
<1> QED
  BY <1>1, <1>4, <1>5, <1>6

LEMMA PickedIs ==
  ASSUME NEW S, NEW s \in Seq(S), NEW I \in SUBSET (1..Len(s))
  PROVE  /\ Picked(s, I) \in Seq(S)
         /\ \A j \in DOMAIN Picked(s, I) : \E i \in I : Picked(s, I)[j] = s[i]
         /\ \A i \in I : \E j \in DOMAIN Picked(s, I) : Picked(s, I)[j] = s[i]
         /\ From(Picked(s, I), s)
<1> DEFINE n == Cardinality(I)
           f == [j \in 1..n |-> CHOOSE i \in I : Rank(i, I) = j]
<1>1. DOMAIN s = 1..Len(s) /\ Len(s) \in Nat /\ \A k \in DOMAIN s : s[k] \in S
  BY SeqIs
<1>2. /\ n \in Nat
      /\ \A i \in I : Rank(i, I) \in 1..n
      /\ \A j \in 1..n : \E i \in I : Rank(i, I) = j
      /\ \A i, j \in I : Rank(i, I) = Rank(j, I) => i = j
  BY <1>1, RankIs
<1>3. f \in [1..n -> I] /\ \A j \in 1..n : Rank(f[j], I) = j
  BY <1>2
<1>4. Picked(s, I) = [j \in 1..n |-> s[f[j]]]
  BY DEF Picked
<1>5. \A i \in I : f[Rank(i, I)] = i
  BY <1>2, <1>3
<1> HIDE DEF n, f
<1>6. DOMAIN Picked(s, I) = 1..n /\ \A j \in 1..n : Picked(s, I)[j] = s[f[j]] /\ f[j] \in I
  BY <1>3, <1>4
<1>7. Picked(s, I) \in Seq(S)
  <2>1. Picked(s, I) \in [1..n -> S]
    BY <1>1, <1>3, <1>4
  <2> QED
    BY <1>2, <2>1, SeqDef
<1>8. f \in [1..n -> DOMAIN s] /\ \A i, j \in 1..n : f[i] = f[j] => i = j
  BY <1>1, <1>3
<1>9. From(Picked(s, I), s)
  BY <1>6, <1>8 DEF From
<1>10. \A i \in I : \E j \in DOMAIN Picked(s, I) : Picked(s, I)[j] = s[i]
  BY <1>2, <1>5, <1>6
<1> QED
  BY <1>6, <1>7, <1>9, <1>10

-----------------------------------------------------------------------------
(* Operators of the router.                                                *)

SettledTo(at, t, s, i) ==
  /\ at \in Place \ {"start"}
  /\ s = NoUser => at \in {"login", "forbidden"}
  /\ s # NoUser => at # "login"
  /\ at \in AdminView => i \in Admin
  /\ at \in View => at = t \/ (at = Home /\ t = "login")
  /\ t = "login" /\ s = NoUser => at = "login"

LEMMA SettleIs ==
  ASSUME NEW t \in Target, NEW s \in User \cup {NoUser}, NEW i, NEW r \in SUBSET View
  PROVE  SettledTo(Settle(t, s, i, r), t, s, i)
<1>0. /\ View \cap {"login", "forbidden", "missing", "nowhere", "wait", "start"} = {}
      /\ Home \in View \ AdminView
  BY NavigationAssumption
<1>1. CASE s = NoUser
  BY <1>0, <1>1, NavigationAssumption DEF SettledTo, Settle, Place, Constant
<1>2. CASE s # NoUser /\ t = "login"
  BY <1>0, <1>2, NavigationAssumption DEF SettledTo, Settle, Place, Constant
<1>3. CASE s # NoUser /\ t = "forbidden"
  BY <1>0, <1>3, NavigationAssumption DEF SettledTo, Settle, Place, Constant
<1>4. CASE s # NoUser /\ t = "nowhere"
  BY <1>0, <1>4, NavigationAssumption DEF SettledTo, Settle, Place, Constant
<1>5. CASE s # NoUser /\ t \in View
  <2>1. t \notin {"login", "forbidden", "nowhere"}
    BY <1>0, <1>5
  <2>2. CASE t \in r
    BY <1>0, <1>5, <2>1, <2>2, NavigationAssumption DEF SettledTo, Settle, Place, Constant
  <2>3. CASE t \notin r
    BY <1>0, <1>5, <2>1, <2>3, NavigationAssumption DEF SettledTo, Settle, Place, Constant
  <2> QED
    BY <2>2, <2>3
<1> QED
  BY <1>1, <1>2, <1>3, <1>4, <1>5 DEF Target

LEMMA RedirectIs == \A t \in Target \cup Place : RedirectOf(t) \in View \cup {"nowhere"}
BY NavigationAssumption DEF RedirectOf

LEMMA FilterIs == \A u : filterAuthRoutesByRoles(u) \in SUBSET View
BY DEF filterAuthRoutesByRoles

(* What overtaking leaves of a navigation, but that it is live.            *)
Dead(n, m) ==
  /\ n \in Nav /\ ~n.live
  /\ n.to = m.to /\ n.at = m.at /\ n.then = m.then /\ n.by = m.by

LEMMA OvertakenNavs ==
  ASSUME NEW ns \in Seq(Nav)
  PROVE  /\ Overtaken(ns) \in Seq(Nav) /\ Len(Overtaken(ns)) = Len(ns)
         /\ DOMAIN Overtaken(ns) = DOMAIN ns
         /\ \A k \in DOMAIN ns : Dead(Overtaken(ns)[k], ns[k])
<1>1. DOMAIN ns = 1..Len(ns) /\ Len(ns) \in Nat /\ \A k \in DOMAIN ns : ns[k] \in Nav
  BY SeqIs
<1>2. ASSUME NEW n \in Nav PROVE Dead([n EXCEPT !.live = FALSE], n)
  BY DEF Nav, Dead
<1>3. /\ DOMAIN Overtaken(ns) = 1..Len(ns)
      /\ \A k \in 1..Len(ns) : Overtaken(ns)[k] = [ns[k] EXCEPT !.live = FALSE]
  BY <1>1 DEF Overtaken
<1>4. \A k \in DOMAIN ns : Dead(Overtaken(ns)[k], ns[k])
  BY <1>1, <1>2, <1>3
<1>5. Overtaken(ns) \in Seq(Nav)
  <2>1. \A k \in 1..Len(ns) : Overtaken(ns)[k] \in Nav
    BY <1>1, <1>4 DEF Dead
  <2>2. Overtaken(ns) \in [1..Len(ns) -> Nav]
    BY <1>1, <2>1 DEF Overtaken
  <2> QED
    BY <1>1, <2>2, SeqDef
<1> QED
  BY <1>1, <1>3, <1>4, <1>5, LenProperties

(* ms is ns overtaken by x.                                                *)
Pushed(ms, ns, x) ==
  /\ ms \in Seq(Nav) /\ x \in Nav /\ ms # <<>>
  /\ DOMAIN ms = DOMAIN ns \cup {Len(ms)} /\ Len(ms) \notin DOMAIN ns
  /\ ms[Len(ms)] = x
  /\ \A k \in DOMAIN ns : Dead(ms[k], ns[k])

LEMMA PushedIs ==
  ASSUME NEW ns \in Seq(Nav), NEW x \in Nav
  PROVE  Pushed(Append(Overtaken(ns), x), ns, x)
<1> DEFINE os == Overtaken(ns)
           ms == Append(os, x)
<1>1. os \in Seq(Nav) /\ Len(os) = Len(ns) /\ DOMAIN os = DOMAIN ns /\ \A k \in DOMAIN ns : Dead(os[k], ns[k])
  BY OvertakenNavs
<1>2. DOMAIN ns = 1..Len(ns) /\ Len(ns) \in Nat
  BY SeqIs
<1> HIDE DEF os
<1>3. /\ ms \in Seq(Nav) /\ Len(ms) = Len(os) + 1 /\ DOMAIN ms = DOMAIN os \cup {Len(os) + 1}
      /\ ms[Len(os) + 1] = x
      /\ \A k \in DOMAIN os : k # Len(os) + 1 /\ ms[k] = os[k]
  BY <1>1, Appended
<1>4. ms # <<>>
  BY <1>1, <1>2, <1>3
<1> HIDE DEF ms
<1>5. Pushed(ms, ns, x)
  BY <1>1, <1>2, <1>3, <1>4 DEF Pushed
<1> QED
  BY <1>5 DEF ms, os

(* What router.push leaves: a live navigation, which will see its user's   *)
(* routes, or waits, or goes to a place for everybody.                     *)
PushLeft(t, d, s, i) ==
  /\ routes' \in SUBSET View /\ authInit' \in BOOLEAN /\ me' \in SUBSET User /\ mixed' \in BOOLEAN
  /\ mixed => mixed'
  /\ authInit => authInit' /\ routes' = routes
  /\ ~authInit /\ authInit' => s # NoUser /\ routes' = filterAuthRoutesByRoles(i) /\ (~mixed' => i = s)
  /\ s = NoUser => authInit' = authInit /\ mixed' = mixed
  /\ \E x \in Nav :
       /\ Pushed(navs', navs, x)
       /\ x.live /\ x.to = t /\ x.then = d
       /\ x.at = "wait" => x.by # NoUser
       /\ x.at = "login" => s = NoUser
       /\ s = NoUser => x.at \in {"login", "forbidden"}
       /\ x.at \in View => /\ s # NoUser /\ authInit'
                           /\ x.at \in AdminView => i \in Admin
                           /\ x.at = t \/ (x.at = Home /\ t = "login")

LEMMA PushIs ==
  ASSUME TypeOK, NEW t \in Target, NEW w \in View \cup {"nowhere"}, NEW then \in Then,
         NEW s \in User \cup {NoUser}, NEW i \in User \cup {NoUser}, NEW m \in SUBSET User,
         Push(navs, t, w, then, s, i, m)
  PROVE  PushLeft(t, then, s, i)
<1>0. /\ routes \in SUBSET View /\ authInit \in BOOLEAN /\ mixed \in BOOLEAN /\ navs \in Seq(Nav)
  BY DEF TypeOK
<1> DEFINE new   == s # NoUser /\ ~authInit
           waits == new /\ i = NoUser
           r     == IF new /\ ~waits THEN filterAuthRoutesByRoles(i) ELSE routes
           at    == IF waits THEN "wait" ELSE Settle(t, s, i, r)
           x     == [to |-> t, at |-> at, want |-> w, then |-> then, live |-> TRUE, by |-> s]
<1>1. /\ navs' = Append(Overtaken(navs), x)
      /\ routes' = r /\ authInit' = (authInit \/ (new /\ ~waits))
      /\ me' = IF s # NoUser /\ ~waits THEN m \cup {s} ELSE m
      /\ mixed' = (mixed \/ (new /\ ~waits /\ i # s))
  BY Zenon DEF Push
<1>2. r \in SUBSET View
  BY <1>0, FilterIs
<1>3. /\ at \in (Place \ {"start"}) \cup {"wait"}
      /\ at = "wait" => waits
      /\ at = "login" => s = NoUser
      /\ s = NoUser => at \in {"login", "forbidden"}
      /\ at \in View => ~waits /\ s # NoUser /\ (at \in AdminView => i \in Admin) /\ (at = t \/ (at = Home /\ t = "login"))
  <2>0. View \cap {"login", "forbidden", "missing", "nowhere", "start", "wait"} = {} /\ "wait" \notin Place
    BY NavigationAssumption DEF Place, Constant
  <2>1. CASE waits
    BY <2>0, <2>1
  <2>2. CASE ~waits
    <3> HIDE DEF r
    <3> QED
      BY <1>2, <2>0, <2>2, SettleIs DEF SettledTo
  <2> QED
    BY <2>1, <2>2
<1>4. x \in Nav
  <2> HIDE DEF at
  <2> QED
    BY <1>3 DEF Nav
<1>5. Pushed(navs', navs, x)
  <2> HIDE DEF x
  <2> QED
    BY <1>0, <1>1, <1>4, PushedIs
<1>6. x.live /\ x.to = t /\ x.then = then /\ x.at = at /\ x.by = s
  OBVIOUS
<1>7. me' \in SUBSET User
  BY <1>1
<1>8. mixed' \in BOOLEAN /\ authInit' \in BOOLEAN
  BY <1>0, <1>1
<1>9. at \in View => authInit'
  BY <1>1, <1>3
<1> HIDE DEF x, at
<1>10. \E y \in Nav :
              /\ Pushed(navs', navs, y)
              /\ y.live /\ y.to = t /\ y.then = then
              /\ y.at = "wait" => y.by # NoUser
              /\ y.at = "login" => s = NoUser
              /\ s = NoUser => y.at \in {"login", "forbidden"}
              /\ y.at \in View => /\ s # NoUser /\ authInit'
                                  /\ y.at \in AdminView => i \in Admin
                                  /\ y.at = t \/ (y.at = Home /\ t = "login")
  BY <1>3, <1>4, <1>5, <1>6, <1>9
<1> QED
  BY <1>0, <1>1, <1>2, <1>7, <1>8, <1>10 DEF PushLeft

-----------------------------------------------------------------------------
(* The invariant of the router.                                            *)

RouterType ==
  /\ routes \in SUBSET View /\ authInit \in BOOLEAN /\ me \in SUBSET User /\ mixed \in BOOLEAN
  /\ navs \in Seq(Nav)
Router == NavsOK /\ LiveIsAllowed /\ PlaceIsAllowed /\ WayOut /\ RoutesOf /\ LeavesLogin
Live == \E k \in DOMAIN navs : navs[k].live

(* What a navigation is to do when it ends.                                *)
ThenOK(d, t) ==
  /\ d \in Then
  /\ d.kind \in {"tab", "clear"} => t = d.tab
  /\ d.kind = "clear" => d.tab \in Ids(d.keep) \cup {Home}

(* No navigation is to do at its end what none was to do before.           *)
Thens(d) ==
  \A k \in DOMAIN navs' : navs'[k].then = d \/ \E j \in DOMAIN navs : navs'[k].then = navs[j].then

LEMMA TypeIs ==
  ASSUME TypeOK
  PROVE  /\ RouterType /\ navs \in Seq(Nav)
         /\ DOMAIN navs = 1..Len(navs) /\ Len(navs) \in Nat /\ \A k \in DOMAIN navs : navs[k] \in Nav
<1>1. RouterType /\ navs \in Seq(Nav)
  BY DEF TypeOK, RouterType
<1> QED
  BY <1>1, SeqIs

LEMMA PushNavs ==
  ASSUME TypeOK, NavsOK, NEW x \in Nav, Pushed(navs', navs, x),
         x.live, x.to # place', ThenOK(x.then, x.to),
         x.at = "login" \/ x.then.kind = "reset" => stored' = NoUser,
         x.at = "wait" => x.by # NoUser,
         x.at \in View => x.at = x.to \/ (x.at = Home /\ x.to = "login"),
         navs = <<>> \/ (stored = NoUser => stored' = NoUser)
  PROVE  /\ NavsOK' /\ Thens(x.then) /\ Live'
         /\ \A k \in DOMAIN navs' : navs'[k].live => navs'[k] = x
         /\ \A k \in DOMAIN navs : \E j \in DOMAIN navs' : navs'[j].then = navs[k].then
<1>1. /\ DOMAIN navs' = DOMAIN navs \cup {Len(navs')} /\ Len(navs') \notin DOMAIN navs
      /\ navs'[Len(navs')] = x
      /\ \A k \in DOMAIN navs : Dead(navs'[k], navs[k])
  BY DEF Pushed
<1>2. Thens(x.then)
  BY <1>1 DEF Thens, Dead
<1>3. Live'
  BY <1>1 DEF Live
<1>4. \A k \in DOMAIN navs' : navs'[k].live => navs'[k] = x
  BY <1>1 DEF Dead
<1>5. \A k \in DOMAIN navs : \E j \in DOMAIN navs' : navs'[j].then = navs[k].then
  BY <1>1 DEF Dead
<1>6. NavsOK'
  <2>1. ASSUME NEW k \in DOMAIN navs
        PROVE  /\ ~navs'[k].live
               /\ navs'[k].at = "login" \/ navs'[k].then.kind = "reset" => stored' = NoUser
               /\ navs'[k].at = "wait" => navs'[k].by # NoUser
               /\ navs'[k].at \in View => navs'[k].at = navs'[k].to \/ (navs'[k].at = Home /\ navs'[k].to = "login")
               /\ navs'[k].then.kind \in {"tab", "clear"} => navs'[k].to = navs'[k].then.tab
               /\ navs'[k].then.kind = "clear" => navs'[k].then.tab \in Ids(navs'[k].then.keep) \cup {Home}
    <3>1. Dead(navs'[k], navs[k])
      BY <1>1
    <3>2. navs # <<>>
      BY DEF TypeOK
    <3> QED
      BY <3>1, <3>2 DEF Dead, NavsOK
  <2> QED
    BY <1>1, <2>1 DEF NavsOK, ThenOK
<1> QED
  BY <1>2, <1>3, <1>4, <1>5, <1>6

(* Another navigation, of the same session.                                *)
LEMMA PushStays ==
  ASSUME NavigationInv, NEW t \in Target, NEW w \in View \cup {"nowhere"}, NEW d,
         Push(navs, t, w, d, stored, info, me), t # place, ThenOK(d, t), d.kind # "reset",
         UNCHANGED <<stored, info, place, slipped, half>>
  PROVE  RouterType' /\ Router' /\ Live' /\ Thens(d) /\ (mixed => mixed')
<1>a. TypeOK /\ stored \in User \cup {NoUser} /\ info \in User \cup {NoUser} /\ d \in Then /\ me \in SUBSET User
  BY DEF NavigationInv, TypeOK, ThenOK
<1>0. /\ TypeOK /\ NavsOK /\ LiveIsAllowed /\ PlaceIsAllowed /\ WayOut /\ RoutesOf /\ LeavesLogin
      /\ stored \in User \cup {NoUser} /\ info \in User \cup {NoUser} /\ d \in Then /\ me \in SUBSET User
      /\ stored' = stored /\ info' = info /\ place' = place /\ slipped' = slipped /\ half' = half
  BY DEF NavigationInv, TypeOK, ThenOK
<1>b. PushLeft(t, d, stored, info)
  BY <1>a, PushIs
<1>1. PICK x \in Nav :
              /\ Pushed(navs', navs, x)
              /\ x.live /\ x.to = t /\ x.then = d
              /\ x.at = "wait" => x.by # NoUser
              /\ x.at = "login" => stored = NoUser
              /\ stored = NoUser => x.at \in {"login", "forbidden"}
              /\ x.at \in View => /\ stored # NoUser /\ authInit'
                                  /\ x.at \in AdminView => info \in Admin
                                  /\ x.at = t \/ (x.at = Home /\ t = "login")
  BY <1>0, <1>b DEF PushLeft
<1>2. /\ routes' \in SUBSET View /\ authInit' \in BOOLEAN /\ me' \in SUBSET User /\ mixed' \in BOOLEAN
      /\ mixed => mixed'
      /\ authInit => authInit' /\ routes' = routes
      /\ ~authInit /\ authInit' =>
           stored # NoUser /\ routes' = filterAuthRoutesByRoles(info) /\ (~mixed' => info = stored)
      /\ stored = NoUser => authInit' = authInit /\ mixed' = mixed
  BY <1>0, <1>b DEF PushLeft
<1>3. /\ NavsOK' /\ Thens(d) /\ Live'
      /\ \A k \in DOMAIN navs' : navs'[k].live => navs'[k] = x
      /\ \A k \in DOMAIN navs : \E j \in DOMAIN navs' : navs'[j].then = navs[k].then
  BY <1>0, <1>1, PushNavs
<1>4. RouterType' /\ navs' # <<>>
  BY <1>1, <1>2 DEF RouterType, Pushed
<1>5. LiveIsAllowed'
  <2>1. x.at \in AdminView /\ ~mixed' /\ x.at \in View => stored \in Admin
    BY <1>0, <1>1, <1>2 DEF RoutesOf
  <2> QED
    BY <1>0, <1>1, <1>3, <2>1 DEF LiveIsAllowed
<1>6. PlaceIsAllowed'
  BY <1>0, <1>2 DEF PlaceIsAllowed
<1>7. WayOut'
  <2>1. \E k \in DOMAIN navs' : navs'[k] = x
    BY <1>1 DEF Pushed
  <2> QED
    BY <1>0, <1>1, <2>1 DEF WayOut
<1>8. RoutesOf'
  BY <1>0, <1>2, <1>3 DEF RoutesOf
<1>9. LeavesLogin'
  BY <1>3, <1>4 DEF LeavesLogin, Live
<1> QED
  BY <1>2, <1>3, <1>4, <1>5, <1>6, <1>7, <1>8, <1>9 DEF Router

(* The session ends, and the page goes to the login page.                  *)
LEMMA PushLeaves ==
  ASSUME NavigationInv, NEW w \in View \cup {"nowhere"}, NEW m \in SUBSET User,
         Push(navs, "login", w, ThenReset, NoUser, NoUser, m), place \notin Constant,
         stored' = NoUser, info' = NoUser, UNCHANGED <<place, slipped, half>>
  PROVE  RouterType' /\ Router' /\ Live' /\ Thens(ThenReset) /\ mixed' = mixed
<1>0. /\ TypeOK /\ NavsOK /\ RoutesOf /\ LeavesLogin /\ "login" \in Target /\ "login" # place
      /\ ThenReset \in Then /\ ThenReset.kind = "reset"
      /\ place' = place /\ slipped' = slipped /\ half' = half
  <2>1. <<>> \in Seq(Tab) /\ Home \in View
    BY NavigationAssumption
  <2> QED
    BY <2>1 DEF NavigationInv, TypeOK, Target, Constant, ThenReset, Then
<1>b. PushLeft("login", ThenReset, NoUser, NoUser)
  BY <1>0, PushIs
<1>1. PICK x \in Nav :
              /\ Pushed(navs', navs, x)
              /\ x.live /\ x.to = "login" /\ x.then = ThenReset
              /\ x.at = "wait" => x.by # NoUser
              /\ x.at \in {"login", "forbidden"}
              /\ x.at \notin View
  BY <1>b DEF PushLeft
<1>2. /\ routes' \in SUBSET View /\ authInit' \in BOOLEAN /\ me' \in SUBSET User /\ mixed' \in BOOLEAN
      /\ authInit' = authInit /\ mixed' = mixed
  BY <1>0, <1>b DEF PushLeft
<1>3. /\ NavsOK' /\ Thens(ThenReset) /\ Live'
      /\ \A k \in DOMAIN navs' : navs'[k].live => navs'[k] = x
  <2>1. ThenOK(x.then, x.to)
    BY <1>0, <1>1 DEF ThenOK
  <2> QED
    BY <1>0, <1>1, <2>1, PushNavs
<1>4. RouterType' /\ \E k \in DOMAIN navs' : navs'[k] = x
  BY <1>1, <1>2 DEF RouterType, Pushed
<1>5. LiveIsAllowed'
  BY <1>1, <1>3 DEF LiveIsAllowed
<1>6. PlaceIsAllowed' /\ LeavesLogin'
  BY DEF PlaceIsAllowed, LeavesLogin
<1>7. WayOut'
  BY <1>1, <1>4 DEF WayOut
<1>8. RoutesOf'
  BY <1>0, <1>1, <1>4 DEF RoutesOf
<1> QED
  BY <1>2, <1>3, <1>4, <1>5, <1>6, <1>7, <1>8 DEF Router

(* A login whose user info is there.                                       *)
LEMMA PushEnters ==
  ASSUME NavigationInv, NEW u \in User, NEW t \in Target,
         Push(navs, t, Home, Nothing, u, u, me), place = "login", navs = <<>>, t # place,
         stored' = u, info' = u, UNCHANGED <<place, slipped, half>>
  PROVE  RouterType' /\ Router' /\ Live' /\ Thens(Nothing) /\ (mixed => mixed')
<1>0. /\ TypeOK /\ NavsOK /\ RoutesOf /\ LeavesLogin /\ me \in SUBSET User /\ Home \in View
      /\ Nothing \in Then /\ Nothing.kind = "none" /\ u # NoUser /\ place \notin View
      /\ place' = place /\ slipped' = slipped /\ half' = half
  <2>1. <<>> \in Seq(Tab) /\ Home \in View /\ u # NoUser /\ "login" \notin View
    BY NavigationAssumption
  <2> QED
    BY <2>1 DEF NavigationInv, TypeOK, Nothing, Then
<1>b. PushLeft(t, Nothing, u, u)
  BY <1>0, PushIs
<1>1. PICK x \in Nav :
              /\ Pushed(navs', navs, x)
              /\ x.live /\ x.to = t /\ x.then = Nothing
              /\ x.at = "wait" => x.by # NoUser
              /\ x.at # "login"
              /\ x.at \in View => /\ authInit'
                                  /\ x.at \in AdminView => u \in Admin
                                  /\ x.at = t \/ (x.at = Home /\ t = "login")
  BY <1>0, <1>b DEF PushLeft
<1>2. /\ routes' \in SUBSET View /\ authInit' \in BOOLEAN /\ me' \in SUBSET User /\ mixed' \in BOOLEAN
      /\ mixed => mixed'
      /\ authInit => authInit' /\ routes' = routes
      /\ ~authInit /\ authInit' => routes' = filterAuthRoutesByRoles(u)
  BY <1>0, <1>b DEF PushLeft
<1>3. /\ NavsOK' /\ Thens(Nothing) /\ Live'
      /\ \A k \in DOMAIN navs' : navs'[k].live => navs'[k] = x
  <2>1. ThenOK(x.then, x.to)
    BY <1>0, <1>1 DEF ThenOK
  <2> QED
    BY <1>0, <1>1, <2>1, PushNavs
<1>4. RouterType' /\ navs' # <<>>
  BY <1>1, <1>2 DEF RouterType, Pushed
<1>5. LiveIsAllowed'
  BY <1>0, <1>1, <1>3 DEF LiveIsAllowed
<1>6. PlaceIsAllowed' /\ WayOut'
  BY <1>0 DEF PlaceIsAllowed, WayOut
<1>7. RoutesOf'
  <2>1. ~mixed /\ authInit => FALSE
    <3>1. DOMAIN navs = {}
      OBVIOUS
    <3> QED
      BY <1>0, <3>1 DEF RoutesOf, LeavesLogin
  <2> QED
    BY <1>0, <1>2, <2>1 DEF RoutesOf, RouterType
<1>8. LeavesLogin'
  BY <1>3, <1>4 DEF LeavesLogin, Live
<1> QED
  BY <1>2, <1>3, <1>4, <1>5, <1>6, <1>7, <1>8 DEF Router

(* A tab is switched to: another navigation, or none for the tab on screen. *)
LEMMA SwitchStays ==
  ASSUME NavigationInv, NEW v \in View, NEW d, switchRouteByTab(v, navs, d),
         ThenOK(d, v), d.kind # "reset", place \in View,
         UNCHANGED <<stored, info, place, half>>
  PROVE  /\ RouterType' /\ Router' /\ Thens(d) /\ (mixed => mixed')
         /\ slipped' \in BOOLEAN /\ (slipped => slipped') /\ (v # place => Live' /\ slipped' = slipped)
<1>0. /\ TypeOK /\ NavsOK /\ LiveIsAllowed /\ PlaceIsAllowed /\ WayOut /\ RoutesOf /\ LeavesLogin
      /\ RouterType /\ navs \in Seq(Nav) /\ slipped \in BOOLEAN
      /\ stored' = stored /\ info' = info /\ place' = place /\ half' = half
      /\ place # "login" /\ View \cap {"login", "forbidden", "missing", "nowhere", "start", "wait"} = {}
  BY TypeIs, NavigationAssumption DEF NavigationInv, TypeOK
<1>1. CASE v = place
  <2>1. /\ navs' = Overtaken(navs) /\ routes' = routes /\ authInit' = authInit /\ me' = me /\ mixed' = mixed
        /\ slipped' = (slipped \/ stored = NoUser)
    BY <1>1 DEF switchRouteByTab, router
  <2>2. /\ navs' \in Seq(Nav) /\ DOMAIN navs' = DOMAIN navs
        /\ \A k \in DOMAIN navs : Dead(navs'[k], navs[k])
    BY <1>0, <2>1, OvertakenNavs
  <2>3. RouterType'
    BY <1>0, <2>1, <2>2 DEF RouterType
  <2>4. NavsOK'
    BY <1>0, <2>2 DEF NavsOK, Dead
  <2>5. LiveIsAllowed'
    BY <2>2 DEF LiveIsAllowed, Dead
  <2>6. PlaceIsAllowed' /\ WayOut' /\ LeavesLogin'
    BY <1>0, <2>1 DEF PlaceIsAllowed, WayOut, LeavesLogin
  <2>7. RoutesOf'
    BY <1>0, <2>1, <2>2 DEF RoutesOf, Dead
  <2>8. Thens(d)
    BY <2>2 DEF Thens, Dead
  <2> QED
    BY <1>0, <1>1, <2>1, <2>3, <2>4, <2>5, <2>6, <2>7, <2>8 DEF Router
<1>2. CASE v # place
  <2>1. Push(navs, v, RedirectOf(v), d, stored, info, me) /\ slipped' = slipped
    BY <1>2 DEF switchRouteByTab
  <2>2. v \in Target /\ RedirectOf(v) \in View \cup {"nowhere"}
    BY RedirectIs DEF Target
  <2> QED
    BY <1>0, <1>2, <2>1, <2>2, PushStays
<1> QED
  BY <1>1, <1>2

(* The session ends on a page that needs no login.                         *)
LEMMA EndsInPlace ==
  ASSUME NavigationInv, place \in Constant, navs' = navs, stored' = NoUser, info' = NoUser,
         routes' = {}, authInit' = FALSE, me' \in SUBSET User, mixed' = mixed, place' = place,
         slipped' = (slipped \/ \E k \in DOMAIN navs : navs[k].live /\ navs[k].at \in View)
  PROVE  RouterType' /\ Router' /\ slipped' \in BOOLEAN
<1>0. /\ TypeOK /\ NavsOK /\ RouterType /\ slipped \in BOOLEAN /\ place \notin View
  BY TypeIs, NavigationAssumption DEF NavigationInv, TypeOK, Constant
<1>1. RouterType' /\ slipped' \in BOOLEAN
  BY <1>0 DEF RouterType
<1>2. NavsOK'
  BY <1>0 DEF NavsOK
<1>3. LiveIsAllowed'
  BY DEF LiveIsAllowed
<1>4. PlaceIsAllowed' /\ WayOut' /\ RoutesOf' /\ LeavesLogin'
  BY <1>0 DEF PlaceIsAllowed, WayOut, RoutesOf, LeavesLogin
<1> QED
  BY <1>1, <1>2, <1>3, <1>4 DEF Router

LEMMA HalfLoginRouter ==
  ASSUME NavigationInv, NEW u \in User, HalfLogin(u) PROVE RouterType' /\ Router'
<1>0. /\ TypeOK /\ RoutesOf /\ LeavesLogin /\ RouterType /\ u # NoUser
      /\ place = "login" /\ place \notin View /\ navs = <<>> /\ stored' = u /\ half' = TRUE
      /\ routes' = routes /\ authInit' = authInit /\ me' = me /\ place' = place /\ navs' = navs
      /\ slipped' = slipped /\ mixed' = mixed
  BY TypeIs, NavigationAssumption DEF NavigationInv, HalfLogin, router
<1>1. DOMAIN navs = {}
  BY <1>0
<1>2. ~(~mixed /\ authInit)
  BY <1>0, <1>1 DEF RoutesOf, LeavesLogin
<1>3. NavsOK' /\ LiveIsAllowed'
  BY <1>0, <1>1 DEF NavsOK, LiveIsAllowed
<1>4. PlaceIsAllowed' /\ WayOut' /\ RoutesOf' /\ LeavesLogin' /\ RouterType'
  BY <1>0, <1>2 DEF PlaceIsAllowed, WayOut, RoutesOf, LeavesLogin, RouterType
<1> QED
  BY <1>3, <1>4 DEF Router

LEMMA MeAnsweredRouter ==
  ASSUME NavigationInv, NEW u \in User, MeAnswered(u) PROVE RouterType' /\ Router'
<1>0. /\ NavsOK /\ LiveIsAllowed /\ PlaceIsAllowed /\ WayOut /\ RoutesOf /\ LeavesLogin
      /\ RouterType /\ u # NoUser /\ me' \in SUBSET User /\ info' = u
      /\ mixed' = (mixed \/ u # stored) /\ stored' = stored
      /\ routes' = routes /\ authInit' = authInit /\ place' = place /\ navs' = navs
      /\ slipped' = slipped /\ half' = half
  BY TypeIs, NavigationAssumption DEF NavigationInv, TypeOK, MeAnswered, router
<1>1. RouterType' /\ NavsOK'
  BY <1>0 DEF RouterType, NavsOK
<1>2. LiveIsAllowed' /\ PlaceIsAllowed'
  BY <1>0 DEF LiveIsAllowed, PlaceIsAllowed
<1>3. WayOut'
  BY <1>0 DEF WayOut
<1>4. RoutesOf' /\ LeavesLogin'
  BY <1>0 DEF RoutesOf, LeavesLogin
<1> QED
  BY <1>1, <1>2, <1>3, <1>4 DEF Router

LEMMA ArriveRouter ==
  ASSUME NavigationInv, NEW k \in DOMAIN navs, Arrive(k) PROVE RouterType' /\ Router' /\ ~Live'
<1>0. /\ TypeOK /\ NavsOK /\ LiveIsAllowed /\ RoutesOf /\ RouterType /\ navs \in Seq(Nav) /\ navs[k] \in Nav
      /\ navs[k].live /\ navs[k].at # "wait" /\ place' = navs[k].at /\ navs' = Without(navs, k)
      /\ stored' = stored /\ info' = info /\ me' = me /\ slipped' = slipped /\ mixed' = mixed
      /\ "login" \notin View
  BY TypeIs, NavigationAssumption DEF NavigationInv, Arrive, session
<1>1. /\ navs[k].then.kind = "reset" => routes' = {} /\ authInit' = FALSE
      /\ navs[k].then.kind # "reset" => routes' = routes /\ authInit' = authInit
  BY DEF Arrive, ResetRoutes, router
<1>2. /\ navs' \in Seq(Nav)
      /\ \A j \in DOMAIN navs' : \E i \in DOMAIN navs : i # k /\ navs'[j] = navs[i]
      /\ \A i \in DOMAIN navs : i # k => \E j \in DOMAIN navs' : navs'[j] = navs[i]
  BY <1>0, Removed, Remain
<1>3. RouterType'
  BY <1>0, <1>1, <1>2 DEF RouterType
<1>4. \A i \in DOMAIN navs : navs[i].live => i = Len(navs)
  BY <1>0 DEF NavsOK
<1>5. \A j \in DOMAIN navs' : ~navs'[j].live
  BY <1>0, <1>2, <1>4
<1>6. NavsOK'
  BY <1>0, <1>2, <1>5 DEF NavsOK
<1>7. navs[k].then.kind = "reset" => stored = NoUser
  BY <1>0 DEF NavsOK
<1>8. navs[k].at \in Place \ {"start"}
  BY <1>0 DEF Nav
<1>9. LiveIsAllowed' /\ ~Live'
  BY <1>5 DEF LiveIsAllowed, Live
<1>10. PlaceIsAllowed' /\ WayOut'
  BY <1>0, <1>1, <1>7, <1>8 DEF PlaceIsAllowed, WayOut, LiveIsAllowed, Place
<1>11. RoutesOf'
  <2>1. CASE navs[k].then.kind = "reset"
    BY <1>1, <2>1 DEF RoutesOf
  <2>2. CASE navs[k].then.kind # "reset"
    <3>1. \A i \in DOMAIN navs : navs[i].then.kind = "reset" => \E j \in DOMAIN navs' : navs'[j].then.kind = "reset"
      BY <1>2, <2>2
    <3>2. routes' = routes /\ authInit' = authInit
      BY <1>1, <2>2
    <3> QED
      BY <1>0, <3>1, <3>2 DEF RoutesOf
  <2> QED
    BY <2>1, <2>2
<1>12. LeavesLogin'
  BY <1>0 DEF LeavesLogin, NavsOK
<1> QED
  BY <1>3, <1>6, <1>9, <1>10, <1>11, <1>12 DEF Router

LEMMA CancelledRouter ==
  ASSUME NavigationInv, NEW k \in DOMAIN navs, Cancelled(k) PROVE RouterType' /\ Router' /\ (Live => Live')
<1>0. /\ TypeOK /\ NavsOK /\ LiveIsAllowed /\ PlaceIsAllowed /\ WayOut /\ RoutesOf /\ LeavesLogin
      /\ RouterType /\ navs \in Seq(Nav)
      /\ ~navs[k].live /\ place' = place /\ navs' = Without(navs, k)
      /\ stored' = stored /\ info' = info /\ me' = me /\ slipped' = slipped /\ mixed' = mixed /\ half' = half
  BY TypeIs DEF NavigationInv, Cancelled, session
<1>1. /\ navs[k].then.kind = "reset" => routes' = {} /\ authInit' = FALSE
      /\ navs[k].then.kind # "reset" => routes' = routes /\ authInit' = authInit
  BY DEF Cancelled, ResetRoutes, router
<1>2. /\ navs' \in Seq(Nav)
      /\ \A j \in DOMAIN navs' : \E i \in DOMAIN navs : /\ i # k /\ navs'[j] = navs[i]
                                                        /\ i = Len(navs) => j = Len(navs')
      /\ \A i \in DOMAIN navs : i # k => \E j \in DOMAIN navs' : navs'[j] = navs[i]
  BY <1>0, Removed, Remain
<1>3. RouterType'
  BY <1>0, <1>1, <1>2 DEF RouterType
<1>4. NavsOK'
  <2>1. ASSUME NEW j \in DOMAIN navs'
        PROVE  /\ navs'[j].live => j = Len(navs') /\ navs'[j].to # place'
               /\ navs'[j].at = "login" \/ navs'[j].then.kind = "reset" => stored' = NoUser
               /\ navs'[j].at = "wait" => navs'[j].by # NoUser
               /\ navs'[j].at \in View => navs'[j].at = navs'[j].to \/ (navs'[j].at = Home /\ navs'[j].to = "login")
               /\ navs'[j].then.kind \in {"tab", "clear"} => navs'[j].to = navs'[j].then.tab
               /\ navs'[j].then.kind = "clear" => navs'[j].then.tab \in Ids(navs'[j].then.keep) \cup {Home}
    <3>1. PICK i \in DOMAIN navs : navs'[j] = navs[i] /\ (i = Len(navs) => j = Len(navs'))
      BY <1>2
    <3> QED
      BY <1>0, <3>1 DEF NavsOK
  <2> QED
    BY <2>1 DEF NavsOK
<1>5. navs[k].then.kind = "reset" => stored = NoUser
  BY <1>0 DEF NavsOK
<1>r. stored # NoUser => authInit' = authInit
  BY <1>1, <1>5
<1>6. LiveIsAllowed'
  <2>1. \A j \in DOMAIN navs' : \E i \in DOMAIN navs : navs'[j] = navs[i]
    BY <1>2
  <2> QED
    BY <1>0, <1>r, <2>1 DEF LiveIsAllowed
<1>7. PlaceIsAllowed'
  BY <1>0, <1>r DEF PlaceIsAllowed
<1>8. Live => Live'
  BY <1>0, <1>2 DEF Live
<1>9. WayOut'
  BY <1>0, <1>2 DEF WayOut
<1>10. RoutesOf'
  <2>1. CASE navs[k].then.kind = "reset"
    BY <1>1, <2>1 DEF RoutesOf
  <2>2. CASE navs[k].then.kind # "reset"
    <3>1. \A i \in DOMAIN navs : navs[i].then.kind = "reset" => \E j \in DOMAIN navs' : navs'[j].then.kind = "reset"
      BY <1>2, <2>2
    <3>2. routes' = routes /\ authInit' = authInit
      BY <1>1, <2>2
    <3> QED
      BY <1>0, <3>1, <3>2 DEF RoutesOf
  <2> QED
    BY <2>1, <2>2
<1>11. LeavesLogin'
  <2>1. navs # <<>> /\ (Live' => navs' # <<>>)
    BY <1>0 DEF Live
  <2>2. CASE stored = NoUser
    BY <1>0, <2>2 DEF LeavesLogin
  <2>3. CASE stored # NoUser
    <3>1. authInit' = authInit
      BY <1>1, <1>5, <2>3
    <3> QED
      BY <1>0, <1>8, <2>1, <2>3, <3>1 DEF LeavesLogin, Live
  <2> QED
    BY <2>2, <2>3
<1> QED
  BY <1>3, <1>4, <1>6, <1>7, <1>8, <1>9, <1>10, <1>11 DEF Router

LEMMA InitAuthRouteRouter ==
  ASSUME NavigationInv, NEW k \in DOMAIN navs, InitAuthRoute(k)
  PROVE  /\ RouterType' /\ Router' /\ (Live => Live') /\ (mixed => mixed')
         /\ \A j \in DOMAIN navs' : \E i \in DOMAIN navs : navs'[j].then = navs[i].then
<1> DEFINE n == navs[k]
           at == Settle(n.to, stored, n.by, filterAuthRoutesByRoles(n.by))
<1>0. /\ TypeOK /\ NavsOK /\ LiveIsAllowed /\ PlaceIsAllowed /\ WayOut /\ RoutesOf /\ LeavesLogin
      /\ RouterType /\ navs \in Seq(Nav) /\ n \in Nav /\ stored \in User \cup {NoUser}
      /\ DOMAIN navs = 1..Len(navs) /\ Len(navs) \in Nat
      /\ n.at = "wait" /\ n.by # NoUser
      /\ info' = n.by /\ routes' = filterAuthRoutesByRoles(n.by) /\ authInit' = TRUE
      /\ mixed' = (mixed \/ n.by # stored)
      /\ navs' = [navs EXCEPT ![k].at = at]
      /\ me' \in SUBSET User
      /\ stored' = stored /\ place' = place /\ slipped' = slipped /\ half' = half
  BY TypeIs DEF NavigationInv, TypeOK, InitAuthRoute, NavsOK
<1>1. /\ at \in Place \ {"start"} /\ at # "wait"
      /\ at = "login" => stored = NoUser
      /\ at \in View => stored # NoUser /\ (at = n.to \/ (at = Home /\ n.to = "login"))
      /\ at \in AdminView => n.by \in Admin
  <2>1. n.to \in Target /\ filterAuthRoutesByRoles(n.by) \in SUBSET View
    BY <1>0, FilterIs DEF Nav
  <2>2. "wait" \notin Place /\ "login" \notin View /\ "forbidden" \notin View
    BY NavigationAssumption DEF Place, Constant
  <2>3. SettledTo(at, n.to, stored, n.by)
    BY <1>0, <2>1, SettleIs
  <2> HIDE DEF at, n
  <2> QED
    BY <1>0, <2>2, <2>3 DEF SettledTo
<1> HIDE DEF at
<1>2. /\ [n EXCEPT !.at = at] \in Nav
      /\ [n EXCEPT !.at = at].at = at
      /\ \A m \in {[n EXCEPT !.at = at]} :
           m.to = n.to /\ m.then = n.then /\ m.live = n.live /\ m.by = n.by
  BY <1>0, <1>1 DEF Nav
<1>3. /\ DOMAIN navs' = DOMAIN navs
      /\ navs'[k] = [n EXCEPT !.at = at]
      /\ \A j \in DOMAIN navs : j # k => navs'[j] = navs[j]
  BY <1>0
<1>4. navs' \in Seq(Nav) /\ Len(navs') = Len(navs)
  <2>1. \A j \in 1..Len(navs) : navs'[j] \in Nav
    BY <1>0, <1>2, <1>3, SeqIs
  <2>2. navs' = [j \in 1..Len(navs) |-> navs'[j]]
    BY <1>0, <1>3
  <2>3. navs' \in [1..Len(navs) -> Nav]
    BY <2>1, <2>2
  <2> QED
    BY <1>0, <2>3, SeqDef, LenProperties
<1>5. /\ navs'[k].at = at /\ navs'[k].to = n.to /\ navs'[k].then = n.then
      /\ navs'[k].live = n.live /\ navs'[k].by = n.by
  BY <1>2, <1>3
<1>6. RouterType'
  BY <1>0, <1>4, FilterIs DEF RouterType
<1>7. NavsOK'
  BY <1>0, <1>1, <1>3, <1>4, <1>5 DEF NavsOK
<1>8. LiveIsAllowed'
  BY <1>0, <1>1, <1>3, <1>5 DEF LiveIsAllowed
<1>9. PlaceIsAllowed'
  BY <1>0 DEF PlaceIsAllowed
<1>10. WayOut'
  BY <1>0, <1>3 DEF WayOut
<1>11. RoutesOf'
  BY <1>0 DEF RoutesOf
<1>12. Live => Live'
  BY <1>3, <1>5 DEF Live
<1>13. LeavesLogin'
  <2>1. navs # <<>> /\ navs' # <<>>
    BY <1>0, <1>3
  <2> QED
    BY <1>0, <1>12, <2>1 DEF LeavesLogin, Live
<1>14. \A j \in DOMAIN navs' : \E i \in DOMAIN navs : navs'[j].then = navs[i].then
  BY <1>3, <1>5
<1> QED
  BY <1>0, <1>6, <1>7, <1>8, <1>9, <1>10, <1>11, <1>12, <1>13, <1>14 DEF Router

LEMMA InitAuthRouteFailedRouter ==
  ASSUME NavigationInv, NEW k \in DOMAIN navs, InitAuthRouteFailed(k)
  PROVE  /\ RouterType' /\ Router' /\ Thens(ThenReset) /\ (mixed => mixed') /\ slipped' \in BOOLEAN
         /\ place \in View => Live'
<1> DEFINE n == navs[k]
           at == Settle(n.to, NoUser, NoUser, {})
           ns == [navs EXCEPT ![k].at = at]
           x == [to |-> "login", at |-> "login", want |-> RedirectOf(place), then |-> ThenReset,
                 live |-> TRUE, by |-> NoUser]
<1>0. /\ TypeOK /\ NavsOK /\ RouterType /\ navs \in Seq(Nav) /\ n \in Nav
      /\ DOMAIN navs = 1..Len(navs) /\ Len(navs) \in Nat /\ place \in Place
      /\ mixed \in BOOLEAN /\ slipped \in BOOLEAN
      /\ n.at = "wait" /\ stored' = NoUser /\ info' = NoUser
      /\ routes' = filterAuthRoutesByRoles(NoUser) /\ authInit' = TRUE
      /\ place' = place /\ half' = half /\ me' = me
      /\ slipped' = (slipped \/ (place \in Constant /\ \E j \in DOMAIN navs : navs[j].live /\ navs[j].at \in View))
  BY TypeIs DEF NavigationInv, TypeOK, InitAuthRouteFailed
<1>a. /\ place \in Constant => navs' = ns /\ mixed' = TRUE
      /\ place \notin Constant => navs' = Append(Overtaken(ns), x) /\ mixed' = mixed
  BY DEF InitAuthRouteFailed
<1>b. View \cap {"login", "forbidden", "missing", "nowhere", "start", "wait"} = {}
  BY NavigationAssumption
<1>1. at \in {"login", "forbidden"}
  BY <1>0, SettleIs DEF Nav, SettledTo
<1> HIDE DEF at
<1>2. /\ [n EXCEPT !.at = at] \in Nav
      /\ [n EXCEPT !.at = at].at = at
      /\ \A m \in {[n EXCEPT !.at = at]} :
           m.to = n.to /\ m.then = n.then /\ m.live = n.live /\ m.by = n.by
  BY <1>0, <1>1 DEF Nav, Place, Constant
<1>3. /\ DOMAIN ns = DOMAIN navs
      /\ ns[k] = [n EXCEPT !.at = at]
      /\ \A j \in DOMAIN navs : j # k => ns[j] = navs[j]
  BY <1>0
<1>4. ns \in Seq(Nav) /\ Len(ns) = Len(navs)
  <2>1. \A j \in 1..Len(navs) : ns[j] \in Nav
    BY <1>0, <1>2, <1>3, SeqIs
  <2>2. ns = [j \in 1..Len(navs) |-> ns[j]]
    BY <1>0, <1>3
  <2> HIDE DEF ns
  <2>3. ns \in [1..Len(navs) -> Nav]
    BY <2>1, <2>2
  <2> QED
    BY <1>0, <2>3, SeqDef, LenProperties
<1>5. /\ ns[k].at = at /\ ns[k].to = n.to /\ ns[k].then = n.then /\ ns[k].live = n.live /\ ns[k].by = n.by
  BY <1>2, <1>3
<1> HIDE DEF ns
(* The conditions on a navigation without a user, the place aside.         *)
<1> DEFINE Sound(m) ==
      /\ m.at = "wait" => m.by # NoUser
      /\ m.at \in View => m.at = m.to \/ (m.at = Home /\ m.to = "login")
      /\ m.then.kind \in {"tab", "clear"} => m.to = m.then.tab
      /\ m.then.kind = "clear" => m.then.tab \in Ids(m.then.keep) \cup {Home}
<1>6. \A j \in DOMAIN ns : Sound(ns[j]) /\ \E i \in DOMAIN navs : ns[j].then = navs[i].then
  <2>1. \A j \in DOMAIN navs : Sound(navs[j])
    BY <1>0 DEF NavsOK
  <2>2. Sound(ns[k])
    BY <1>1, <1>b, <1>5, <2>1
  <2>3. \A j \in DOMAIN ns : \E i \in DOMAIN navs : ns[j].then = navs[i].then
    BY <1>3, <1>5
  <2> HIDE DEF Sound
  <2> QED
    BY <1>3, <2>1, <2>2, <2>3
<1>7. RouterType'
  <2>1. CASE place \in Constant
    BY <1>0, <1>a, <1>4, <2>1, FilterIs DEF RouterType
  <2>2. CASE place \notin Constant
    <3>1. x \in Nav
      <4>1. <<>> \in Seq(Tab) /\ Home \in View
        BY NavigationAssumption
      <4>2. ThenReset \in Then
        BY <4>1 DEF ThenReset, Then
      <4>3. RedirectOf(place) \in View \cup {"nowhere"}
        BY <1>0, RedirectIs
      <4> QED
        BY <4>2, <4>3 DEF Nav, Target, Place, Constant
    <3>2. navs' \in Seq(Nav)
      <4> HIDE DEF x
      <4> QED
        BY <1>4, <1>a, <2>2, <3>1, PushedIs DEF Pushed
    <3> QED
      BY <1>0, <1>a, <2>2, <3>2, FilterIs DEF RouterType
  <2> QED
    BY <2>1, <2>2
<1>8. PlaceIsAllowed' /\ LeavesLogin' /\ slipped' \in BOOLEAN /\ (mixed => mixed')
  BY <1>0, <1>a DEF PlaceIsAllowed, LeavesLogin
<1>9. CASE place \in Constant
  <2>1. navs' = ns /\ mixed'
    BY <1>a, <1>9
  <2>a. \A j \in DOMAIN ns : ns[j].live => j = Len(ns) /\ ns[j].to # place
    <3>1. \A j \in DOMAIN navs : navs[j].live => j = Len(navs) /\ navs[j].to # place
      BY <1>0 DEF NavsOK
    <3>2. \A j \in DOMAIN navs : ns[j].live = navs[j].live /\ ns[j].to = navs[j].to
      BY <1>3, <1>5
    <3> QED
      BY <1>3, <1>4, <3>1, <3>2
  <2>2. NavsOK'
    BY <1>0, <1>6, <2>1, <2>a DEF NavsOK
  <2>3. LiveIsAllowed'
    BY <1>0, <1>1, <1>b, <1>3, <1>5, <1>9, <2>1 DEF LiveIsAllowed
  <2>4. WayOut' /\ RoutesOf'
    BY <1>0, <1>9, <2>1 DEF WayOut, RoutesOf
  <2>5. Thens(ThenReset)
    BY <1>6, <2>1 DEF Thens
  <2>6. place \notin View
    BY <1>b, <1>9 DEF Constant
  <2> QED
    BY <1>7, <1>8, <2>2, <2>3, <2>4, <2>5, <2>6 DEF Router
<1>10. CASE place \notin Constant
  <2>1. x.live /\ x.to = "login" /\ x.at = "login" /\ x.then = ThenReset /\ x.then.kind = "reset" /\ x \in Nav
    <3>1. x.live /\ x.to = "login" /\ x.at = "login" /\ x.then = ThenReset /\ ThenReset.kind = "reset"
      BY DEF ThenReset
    <3>2. x \in Nav
      <4>1. <<>> \in Seq(Tab) /\ Home \in View
        BY NavigationAssumption
      <4>2. ThenReset \in Then
        BY <4>1 DEF ThenReset, Then
      <4>3. RedirectOf(place) \in View \cup {"nowhere"}
        BY <1>0, RedirectIs
      <4> QED
        BY <4>2, <4>3 DEF Nav, Target, Place, Constant
    <3> QED
      BY <3>1, <3>2
  <2> HIDE DEF x
  <2>2. Pushed(navs', ns, x)
    BY <1>4, <1>a, <1>10, <2>1, PushedIs
  <2>3. /\ DOMAIN navs' = DOMAIN ns \cup {Len(navs')}
        /\ navs'[Len(navs')] = x
        /\ \A j \in DOMAIN ns : Dead(navs'[j], ns[j])
    BY <2>2 DEF Pushed
  <2>4. "login" # place
    BY <1>10 DEF Constant
  <2> HIDE DEF Sound
  <2>5. \A j \in DOMAIN ns : Sound(navs'[j]) /\ ~navs'[j].live
    BY <1>6, <2>3 DEF Dead, Sound
  <2>6. Sound(x)
    BY <1>b, <2>1 DEF Sound
  <2>7. NavsOK'
    BY <1>0, <2>1, <2>3, <2>4, <2>5, <2>6 DEF NavsOK, Sound
  <2>8. LiveIsAllowed'
    BY <1>b, <2>1, <2>3, <2>5 DEF LiveIsAllowed
  <2>9. WayOut' /\ RoutesOf' /\ Live'
    BY <1>0, <2>1, <2>3 DEF WayOut, RoutesOf, Live
  <2>10. Thens(ThenReset)
    BY <1>6, <2>1, <2>3 DEF Thens, Dead
  <2> QED
    BY <1>7, <1>8, <2>7, <2>8, <2>9, <2>10 DEF Router
<1> QED
  BY <1>9, <1>10

(* The first navigation of a page.                                         *)
First(t, w, s) ==
  << [to |-> t, at |-> IF s = NoUser THEN Settle(t, NoUser, NoUser, {}) ELSE "wait",
      want |-> w, then |-> Nothing, live |-> TRUE, by |-> s] >>

LEMMA FirstNav ==
  ASSUME NEW s \in User \cup {NoUser}, NEW t \in Target, NEW w \in View \cup {"nowhere"}, NEW ns,
         ns = First(t, w, s)
  PROVE  /\ ns \in Seq(Nav) /\ DOMAIN ns = {1} /\ Len(ns) = 1
         /\ ns[1].live /\ ns[1].to = t /\ ns[1].then = Nothing /\ ns[1].by = s
         /\ s = NoUser => ns[1].at \in {"login", "forbidden"}
         /\ s # NoUser => ns[1].at = "wait"
<1> DEFINE at == IF s = NoUser THEN Settle(t, NoUser, NoUser, {}) ELSE "wait"
           x == [to |-> t, at |-> at, want |-> w, then |-> Nothing, live |-> TRUE, by |-> s]
<1>1. (s = NoUser => at \in {"login", "forbidden"}) /\ (s # NoUser => at = "wait")
  BY SettleIs DEF SettledTo
<1>2. Nothing \in Then
  <2>1. <<>> \in Seq(Tab) /\ Home \in View
    BY NavigationAssumption
  <2> QED
    BY <2>1 DEF Nothing, Then
<1>3. ns = <<x>>
  BY DEF First
<1> HIDE DEF at
<1>4. x \in Nav
  BY <1>1, <1>2 DEF Nav, Place, Constant
<1>5. x.live /\ x.to = t /\ x.then = Nothing /\ x.by = s /\ x.at = at
  OBVIOUS
<1> HIDE DEF x
<1>6. ns \in Seq(Nav)
  BY <1>3, <1>4
<1>7. Len(ns) = 1 /\ ns[1] = x
  BY <1>3
<1>8. DOMAIN ns = {1}
  <2>1. DOMAIN ns = 1..1
    BY <1>6, <1>7, LenProperties
  <2> QED
    BY <2>1
<1> QED
  BY <1>1, <1>5, <1>6, <1>7, <1>8

LEMMA ReloadRouter ==
  ASSUME NavigationInv, Reload
  PROVE  RouterType' /\ Router' /\ \A k \in DOMAIN navs' : navs'[k].then = Nothing
<1> DEFINE t == IF place = "missing" THEN "nowhere" ELSE place
           w == IF t = "login" THEN want ELSE RedirectOf(t)
<1>0. /\ stored \in User \cup {NoUser} /\ place \in Place /\ place # "start" /\ want \in View \cup {"nowhere"}
      /\ mixed \in BOOLEAN /\ stored' = stored /\ info' = NoUser /\ me' = {} /\ routes' = {}
      /\ authInit' = FALSE /\ place' = "start" /\ mixed' = mixed /\ slipped' = slipped
      /\ "start" \notin View /\ "login" \notin View /\ "forbidden" \notin View /\ "wait" \notin View
  BY NavigationAssumption DEF NavigationInv, TypeOK, Reload, history
<1>1. t \in Target /\ t # "start" /\ w \in View \cup {"nowhere"}
  BY <1>0, RedirectIs DEF Target, Place, Constant
<1>2. navs' = First(t, w, stored)
  BY DEF Reload, First
<1> HIDE DEF t, w
<1>3. /\ navs' \in Seq(Nav) /\ DOMAIN navs' = {1} /\ Len(navs') = 1
      /\ navs'[1].live /\ navs'[1].to = t /\ navs'[1].then = Nothing /\ navs'[1].by = stored
      /\ stored = NoUser => navs'[1].at \in {"login", "forbidden"}
      /\ stored # NoUser => navs'[1].at = "wait"
  BY <1>0, <1>1, <1>2, FirstNav
<1>4. RouterType'
  BY <1>0, <1>3 DEF RouterType
<1>5. Nothing.kind = "none"
  BY DEF Nothing
<1>6. NavsOK'
  BY <1>0, <1>1, <1>3, <1>5 DEF NavsOK
<1>7. LiveIsAllowed' /\ PlaceIsAllowed' /\ WayOut'
  BY <1>0, <1>3 DEF LiveIsAllowed, PlaceIsAllowed, WayOut
<1>8. RoutesOf' /\ LeavesLogin'
  BY <1>0 DEF RoutesOf, LeavesLogin
<1> QED
  BY <1>3, <1>4, <1>6, <1>7, <1>8 DEF Router

LEMMA InitRouter == Init => RouterType /\ Router /\ (\A k \in DOMAIN navs : navs[k].then = Nothing)
<1> SUFFICES ASSUME Init PROVE RouterType /\ Router /\ (\A k \in DOMAIN navs : navs[k].then = Nothing)
  OBVIOUS
<1>0. /\ stored \in User \cup {NoUser} /\ place = "start" /\ info = NoUser /\ me = {} /\ routes = {}
      /\ authInit = FALSE /\ mixed = FALSE
      /\ "start" \notin View /\ "login" \notin View /\ "forbidden" \notin View /\ "wait" \notin View
  BY NavigationAssumption DEF Init
<1>1. PICK t \in Target : navs = First(t, RedirectOf(t), stored)
  BY DEF Init, First
<1>2. RedirectOf(t) \in View \cup {"nowhere"} /\ t # "start"
  BY NavigationAssumption, RedirectIs DEF Target
<1>3. /\ navs \in Seq(Nav) /\ DOMAIN navs = {1} /\ Len(navs) = 1
      /\ navs[1].live /\ navs[1].to = t /\ navs[1].then = Nothing /\ navs[1].by = stored
      /\ stored = NoUser => navs[1].at \in {"login", "forbidden"}
      /\ stored # NoUser => navs[1].at = "wait"
  BY <1>0, <1>1, <1>2, FirstNav
<1>4. Nothing.kind = "none" /\ RouterType
  BY <1>0, <1>3 DEF Nothing, RouterType
<1>6. NavsOK
  BY <1>0, <1>2, <1>3, <1>4 DEF NavsOK
<1>7. LiveIsAllowed /\ PlaceIsAllowed /\ WayOut
  BY <1>0, <1>3 DEF LiveIsAllowed, PlaceIsAllowed, WayOut
<1>8. RoutesOf /\ LeavesLogin
  BY <1>0 DEF RoutesOf, LeavesLogin
<1> QED
  BY <1>3, <1>4, <1>6, <1>7, <1>8 DEF Router

-----------------------------------------------------------------------------
(* The invariant of the tabs.                                              *)

TabList(ts) == ts \in Seq(Tab) /\ TabsOnce(ts)
Owned(ts, w) == \A k \in DOMAIN ts : ts[k].view \in Fixed \/ ts[k].by = w
Owner == IF stored # NoUser THEN stored ELSE last
Bar ==
  /\ TabList(tabs) /\ (cached # NoTabs => TabList(cached)) /\ active \in View
  /\ \A k \in DOMAIN navs : TabsOnce(navs[k].then.keep)

LEMMA EmptyTabs == TabList(<<>>) /\ (\A w : Owned(<<>>, w)) /\ Nothing.keep = <<>> /\ ThenReset.keep = <<>>
<1>1. <<>> \in Seq(Tab) /\ DOMAIN <<>> = {}
  OBVIOUS
<1> QED
  BY <1>1 DEF TabList, TabsOnce, Owned, Nothing, ThenReset

LEMMA IdsIs ==
  ASSUME NEW ts \in Seq(Tab)
  PROVE  /\ \A v : v \in Ids(ts) <=> \E k \in DOMAIN ts : ts[k].view = v
         /\ \A k \in DOMAIN ts : ts[k].view \in View \ {Home} /\ ts[k].view \in Ids(ts)
         /\ Ids(ts) \subseteq View \ {Home}
<1>1. DOMAIN ts = 1..Len(ts) /\ \A k \in DOMAIN ts : ts[k] \in Tab
  BY SeqIs
<1> QED
  BY <1>1 DEF Ids, Tab

LEMMA FromKeeps ==
  ASSUME NEW ts \in Seq(Tab), NEW s, TabList(s), From(ts, s)
  PROVE  TabList(ts) /\ (\A w : Owned(s, w) => Owned(ts, w))
<1>1. PICK f \in [DOMAIN ts -> DOMAIN s] :
         /\ \A j \in DOMAIN ts : ts[j] = s[f[j]]
         /\ \A i, j \in DOMAIN ts : f[i] = f[j] => i = j
  BY DEF From
<1>2. \A j \in DOMAIN ts : f[j] \in DOMAIN s
  BY <1>1
<1>3. TabsOnce(ts)
  BY <1>1, <1>2 DEF TabsOnce, TabList
<1>4. \A w : Owned(s, w) => Owned(ts, w)
  BY <1>1, <1>2 DEF Owned
<1> QED
  BY <1>3, <1>4 DEF TabList

LEMMA ClearedIs ==
  ASSUME NEW ts, TabList(ts), NEW E
  PROVE  /\ TabList(Cleared(ts, E)) /\ (\A w : Owned(ts, w) => Owned(Cleared(ts, E), w))
         /\ \A v : v \in Ids(Cleared(ts, E)) <=> v \in Ids(ts) /\ v \in Fixed \cup E
<1> DEFINE I == {k \in 1..Len(ts) : ts[k].view \in Fixed \cup E}
           cs == Picked(ts, I)
<1>1. ts \in Seq(Tab) /\ DOMAIN ts = 1..Len(ts) /\ Cleared(ts, E) = cs /\ I \in SUBSET (1..Len(ts))
  BY SeqIs DEF TabList, Cleared
<1>2. /\ cs \in Seq(Tab)
      /\ \A j \in DOMAIN cs : \E i \in I : cs[j] = ts[i]
      /\ \A i \in I : \E j \in DOMAIN cs : cs[j] = ts[i]
      /\ From(cs, ts)
  <2> HIDE DEF I
  <2> QED
    BY <1>1, PickedIs
<1> HIDE DEF cs
<1>3. TabList(cs) /\ (\A w : Owned(ts, w) => Owned(cs, w))
  BY <1>2, FromKeeps
<1>4. /\ \A v : v \in Ids(cs) <=> \E k \in DOMAIN cs : cs[k].view = v
      /\ \A v : v \in Ids(ts) <=> \E k \in DOMAIN ts : ts[k].view = v
  BY <1>1, <1>2, IdsIs
<1>5. ASSUME NEW v PROVE v \in Ids(cs) <=> v \in Ids(ts) /\ v \in Fixed \cup E
  <2>1. ASSUME v \in Ids(cs) PROVE v \in Ids(ts) /\ v \in Fixed \cup E
    <3>1. PICK j \in DOMAIN cs : cs[j].view = v
      BY <1>4, <2>1
    <3>2. PICK i \in I : cs[j] = ts[i]
      BY <1>2
    <3> QED
      BY <1>1, <1>4, <3>1, <3>2
  <2>2. ASSUME v \in Ids(ts), v \in Fixed \cup E PROVE v \in Ids(cs)
    <3>1. PICK i \in DOMAIN ts : ts[i].view = v
      BY <1>4, <2>2
    <3>2. i \in I
      BY <1>1, <2>2, <3>1
    <3> QED
      BY <1>2, <1>4, <3>1, <3>2
  <2> QED
    BY <2>1, <2>2
<1> QED
  BY <1>1, <1>3, <1>5

LEMMA ClearedOwned ==
  ASSUME NEW ts, TabList(ts) PROVE \A w : Owned(Cleared(ts, {}), w)
<1>1. /\ Cleared(ts, {}) \in Seq(Tab)
      /\ \A v : v \in Ids(Cleared(ts, {})) => v \in Fixed
  BY ClearedIs DEF TabList
<1>2. \A k \in DOMAIN Cleared(ts, {}) : Cleared(ts, {})[k].view \in Ids(Cleared(ts, {}))
  BY <1>1, IdsIs
<1> QED
  BY <1>1, <1>2 DEF Owned

LEMMA ExtractIs ==
  ASSUME NEW ts, TabList(ts)
  PROVE  TabList(extractTabsByAllRoutes(ts)) /\ (\A w : Owned(ts, w) => Owned(extractTabsByAllRoutes(ts), w))
<1> DEFINE I == {k \in 1..Len(ts) : ts[k].view \in routes}
           cs == Picked(ts, I)
<1>1. ts \in Seq(Tab) /\ extractTabsByAllRoutes(ts) = cs /\ I \in SUBSET (1..Len(ts))
  BY DEF TabList, extractTabsByAllRoutes
<1>2. cs \in Seq(Tab) /\ From(cs, ts)
  <2> HIDE DEF I
  <2> QED
    BY <1>1, PickedIs
<1> HIDE DEF cs
<1> QED
  BY <1>1, <1>2, FromKeeps

LEMMA addTabIs ==
  ASSUME TypeOK, NEW ts, TabList(ts), NEW v \in View
  PROVE  /\ TabList(addTab(ts, v)) /\ v \in Ids(addTab(ts, v)) \cup {Home}
         /\ Owned(ts, stored) => Owned(addTab(ts, v), stored)
<1>1. CASE v = Home \/ v \in Ids(ts)
  BY <1>1 DEF addTab
<1>2. CASE ~(v = Home \/ v \in Ids(ts))
  <2> DEFINE x == [view |-> v, by |-> stored]
             cs == Append(ts, x)
  <2>1. x \in Tab /\ ts \in Seq(Tab) /\ addTab(ts, v) = cs /\ x.view = v /\ x.by = stored
    BY <1>2 DEF TypeOK, Tab, TabList, addTab
  <2> HIDE DEF x
  <2>2. /\ cs \in Seq(Tab) /\ DOMAIN cs = DOMAIN ts \cup {Len(ts) + 1} /\ cs[Len(ts) + 1] = x
        /\ \A k \in DOMAIN ts : k # Len(ts) + 1 /\ cs[k] = ts[k]
    BY <2>1, Appended
  <2>3. \A k \in DOMAIN ts : ts[k].view # v
    BY <1>2, <2>1, IdsIs
  <2> HIDE DEF cs
  <2>4. TabsOnce(cs)
    BY <2>1, <2>2, <2>3 DEF TabsOnce, TabList
  <2>5. v \in Ids(cs)
    BY <2>1, <2>2, IdsIs
  <2>6. Owned(ts, stored) => Owned(cs, stored)
    BY <2>1, <2>2 DEF Owned
  <2> QED
    BY <2>1, <2>2, <2>4, <2>5, <2>6 DEF TabList
<1> QED
  BY <1>1, <1>2

LEMMA ShownIs ==
  ASSUME TypeOK, Bar, NEW v
  PROVE  /\ TabList(Shown(v))
         /\ v \in View /\ v # place => v \in Ids(Shown(v)) \cup {Home}
         /\ v \notin View \/ v = place => Shown(v) = tabs
         /\ Owned(tabs, stored) /\ (cached # NoTabs => Owned(cached, stored)) => Owned(Shown(v), stored)
<1>0. TabList(tabs) /\ (cached # NoTabs => TabList(cached))
  BY DEF Bar
<1>1. CASE v \notin View \/ v = place
  BY <1>0, <1>1 DEF Shown
<1>2. CASE v \in View /\ v # place /\ place \notin View /\ cached # NoTabs
  <2> DEFINE es == extractTabsByAllRoutes(cached)
  <2>1. Shown(v) = addTab(es, v)
    BY <1>2 DEF Shown
  <2>2. TabList(es) /\ (Owned(cached, stored) => Owned(es, stored))
    BY <1>0, <1>2, ExtractIs
  <2> HIDE DEF es
  <2> QED
    BY <1>2, <2>1, <2>2, addTabIs
<1>3. CASE v \in View /\ v # place /\ ~(place \notin View /\ cached # NoTabs)
  <2>1. Shown(v) = addTab(tabs, v)
    BY <1>3 DEF Shown
  <2> QED
    BY <1>0, <1>3, <2>1, addTabIs
<1> QED
  BY <1>1, <1>2, <1>3

LEMMA LastTabIs ==
  ASSUME NEW ts \in Seq(Tab) PROVE LastTab(ts) \in Ids(ts) \cup {Home} /\ LastTab(ts) \in View
<1>1. CASE ts = <<>>
  BY <1>1, NavigationAssumption DEF LastTab
<1>2. CASE ts # <<>>
  <2>1. Len(ts) \in DOMAIN ts
    BY <1>2, SeqIs
  <2> QED
    BY <1>2, <2>1, IdsIs DEF LastTab
<1> QED
  BY <1>1, <1>2

(* What has to be shown of a step for the tabs to be the user's after it.  *)
LEMMA OwnedNext ==
  ASSUME ~half' /\ ~mixed' => info' \in {NoUser, stored'} /\ (stored' # NoUser => last' = NoUser),
         ~half' /\ ~mixed' /\ ~slipped' /\ Owner' # NoUser =>
           /\ Owned(tabs', Owner') /\ (cached' # NoTabs => Owned(cached', Owner'))
           /\ \A k \in DOMAIN navs' : Owned(navs'[k].then.keep, Owner')
  PROVE  TabsOwned'
BY DEF TabsOwned, OwnTabs, Owned, Owner

LEMMA OwnedNow ==
  ASSUME TabsOwned, ~half, ~mixed
  PROVE  /\ info \in {NoUser, stored} /\ (stored # NoUser => last = NoUser)
         /\ ~slipped /\ Owner # NoUser =>
              /\ Owned(tabs, Owner) /\ (cached # NoTabs => Owned(cached, Owner))
              /\ \A k \in DOMAIN navs : Owned(navs[k].then.keep, Owner)
BY DEF TabsOwned, OwnTabs, Owned, Owner

LEMMA InvIs ==
  ASSUME NavigationInv
  PROVE  /\ TypeOK /\ Bar /\ Router /\ RouterType /\ TabsOwned /\ ActiveIsPlace
         /\ TabList(tabs) /\ TabList(<<>>)
         /\ \A k \in DOMAIN navs : TabList(navs[k].then.keep) /\ navs[k] \in Nav
<1>1. TypeOK /\ Router /\ RouterType /\ TabsOwned /\ ActiveIsPlace
  BY TypeIs DEF NavigationInv, Router
<1>2. Bar
  BY <1>1 DEF TypeOK, Bar, TabList
<1>3. \A k \in DOMAIN navs : navs[k] \in Nav
  BY <1>1, TypeIs
<1>4. \A k \in DOMAIN navs : navs[k].then.keep \in Seq(Tab)
  BY <1>3 DEF Nav, Then
<1> QED
  BY <1>1, <1>2, <1>3, <1>4, EmptyTabs DEF Bar, TabList

-----------------------------------------------------------------------------
(* The actions of the user.                                                *)

Step == TypeOK' /\ Router' /\ TabsOwned' /\ ActiveIsPlace'

Rest ==
  /\ stored \in User \cup {NoUser} /\ info \in User \cup {NoUser} /\ last \in User \cup {NoUser}
  /\ place \in Place /\ want \in View \cup {"nowhere"}
  /\ slipped \in BOOLEAN /\ half \in BOOLEAN /\ swept \in BOOLEAN

LEMMA TypeNext ==
  ASSUME RouterType', Bar', Rest' PROVE TypeOK'
BY DEF RouterType, Bar, Rest, TypeOK, TabList

LEMMA RestIs == ASSUME NavigationInv PROVE Rest /\ mixed \in BOOLEAN
BY DEF NavigationInv, TypeOK, Rest

(* The session goes on, and of the tabs there are no others than before.   *)
LEMMA TabsStay ==
  ASSUME NavigationInv, UNCHANGED <<stored, info, last, half, cached, active>>,
         mixed => mixed', slipped => slipped',
         NEW d, Thens(d), TabList(d.keep), \A w : Owned(tabs, w) => Owned(d.keep, w),
         TabList(tabs'), \A w : Owned(tabs, w) => Owned(tabs', w)
  PROVE  Bar' /\ TabsOwned'
<1>0. /\ Bar /\ TabsOwned
      /\ stored' = stored /\ info' = info /\ last' = last /\ half' = half /\ cached' = cached /\ active' = active
      /\ Owner' = Owner
  BY InvIs DEF Owner
<1>1. \A k \in DOMAIN navs' : TabsOnce(navs'[k].then.keep)
  BY <1>0 DEF Thens, Bar, TabList
<1>2. Bar'
  BY <1>0, <1>1 DEF Bar
<1>3. ASSUME ~half', ~mixed', ~slipped', Owner' # NoUser
      PROVE  /\ Owned(tabs', Owner') /\ (cached' # NoTabs => Owned(cached', Owner'))
             /\ \A k \in DOMAIN navs' : Owned(navs'[k].then.keep, Owner')
  <2>1. /\ Owned(tabs, Owner) /\ (cached # NoTabs => Owned(cached, Owner))
        /\ \A k \in DOMAIN navs : Owned(navs[k].then.keep, Owner)
    BY <1>0, <1>3, OwnedNow
  <2>2. Owned(d.keep, Owner) /\ Owned(tabs', Owner)
    BY <2>1
  <2> QED
    BY <1>0, <2>1, <2>2 DEF Thens
<1>4. ~half' /\ ~mixed' => info' \in {NoUser, stored'} /\ (stored' # NoUser => last' = NoUser)
  BY <1>0, OwnedNow
<1>5. TabsOwned'
  BY <1>3, <1>4, OwnedNext
<1> QED
  BY <1>2, <1>5

LEMMA GoToStep ==
  ASSUME NavigationInv, NEW t \in Target, GoTo(t) PROVE Step
<1>0. /\ stored' = stored /\ info' = info /\ last' = last /\ place' = place /\ want' = want
      /\ tabs' = tabs /\ active' = active /\ cached' = cached
      /\ slipped' = slipped /\ swept' = swept /\ half' = half /\ t # place
      /\ Push(navs, t, RedirectOf(t), Nothing, stored, info, me)
  BY DEF GoTo, session, bar
<1>1. /\ TypeOK /\ TabList(tabs) /\ ActiveIsPlace /\ RedirectOf(t) \in View \cup {"nowhere"}
      /\ TabList(Nothing.keep) /\ (\A w : Owned(Nothing.keep, w))
  BY InvIs, RedirectIs, EmptyTabs
<1>2. ThenOK(Nothing, t) /\ Nothing.kind # "reset"
  BY <1>1, NavigationAssumption DEF ThenOK, Nothing, Then, TabList
<1>3. RouterType' /\ Router' /\ Live' /\ Thens(Nothing) /\ (mixed => mixed')
  BY <1>0, <1>1, <1>2, PushStays
<1>4. Bar' /\ TabsOwned'
  BY <1>0, <1>1, <1>3, TabsStay
<1>5. ActiveIsPlace'
  BY <1>0, <1>1, <1>3 DEF ActiveIsPlace, Live
<1>6. Rest'
  BY <1>0, RestIs DEF Rest
<1> QED
  BY <1>3, <1>4, <1>5, <1>6, TypeNext DEF Step

LEMMA ClickTabStep ==
  ASSUME NavigationInv, NEW v \in View, ClickTab(v) PROVE Step
<1>0. /\ stored' = stored /\ info' = info /\ last' = last /\ place' = place /\ want' = want
      /\ tabs' = tabs /\ active' = active /\ cached' = cached
      /\ swept' = swept /\ half' = half /\ place \in View /\ v \in Ids(tabs) \cup {Home}
      /\ switchRouteByTab(v, navs, SwitchTo(v))
  BY DEF ClickTab, session, bar
<1>1. TypeOK /\ TabList(tabs) /\ ActiveIsPlace
  BY InvIs
<1>2. /\ ThenOK(SwitchTo(v), v) /\ SwitchTo(v).kind # "reset"
      /\ TabList(SwitchTo(v).keep) /\ (\A w : Owned(SwitchTo(v).keep, w))
  <2>1. SwitchTo(v).keep = <<>>
    BY DEF SwitchTo
  <2>2. TabList(<<>>) /\ (\A w : Owned(<<>>, w))
    BY EmptyTabs
  <2>3. ThenOK(SwitchTo(v), v) /\ SwitchTo(v).kind # "reset"
    BY <2>2 DEF ThenOK, SwitchTo, Then, TabList
  <2> QED
    BY <2>1, <2>2, <2>3
<1>3. /\ RouterType' /\ Router' /\ Thens(SwitchTo(v)) /\ (mixed => mixed')
      /\ slipped' \in BOOLEAN /\ (slipped => slipped') /\ (v # place => Live' /\ slipped' = slipped)
  BY <1>0, <1>2, SwitchStays
<1>4. Bar' /\ TabsOwned'
  BY <1>0, <1>1, <1>2, <1>3, TabsStay
<1>5. ActiveIsPlace'
  BY <1>0, <1>1, <1>3 DEF ActiveIsPlace, Live
<1>6. Rest'
  BY <1>0, <1>3, RestIs DEF Rest
<1> QED
  BY <1>3, <1>4, <1>5, <1>6, TypeNext DEF Step

LEMMA CloseTabStep ==
  ASSUME NavigationInv, NEW v \in View, CloseTab(v) PROVE Step
<1> DEFINE k == Index(tabs, v)
           next == IF k = Len(tabs) THEN Home ELSE tabs[k + 1].view
<1>0. /\ stored' = stored /\ info' = info /\ last' = last /\ place' = place /\ want' = want
      /\ active' = active /\ cached' = cached
      /\ swept' = swept /\ half' = half /\ place \in View /\ v \in Ids(tabs) /\ v # Home
      /\ tabs' = Without(tabs, k)
  BY DEF CloseTab, session, isTabRetain
<1>a. /\ v = active => switchRouteByTab(next, navs, SwitchTo(next))
      /\ v # active => UNCHANGED <<navs, router, me, mixed, slipped>>
  BY DEF CloseTab
<1>1. TypeOK /\ TabList(tabs) /\ ActiveIsPlace /\ Router /\ RouterType /\ tabs \in Seq(Tab)
  BY InvIs DEF TabList
<1>2. /\ k \in DOMAIN tabs /\ tabs[k].view = v
      /\ DOMAIN tabs = 1..Len(tabs) /\ Len(tabs) \in Nat
  <2>1. DOMAIN tabs = 1..Len(tabs) /\ Len(tabs) \in Nat
    BY <1>1, SeqIs
  <2>2. \E j \in 1..Len(tabs) : tabs[j].view = v
    BY <1>0, <1>1, <2>1, IdsIs
  <2> QED
    BY <2>1, <2>2 DEF Index
<1> HIDE DEF k
<1>3. next \in View /\ next # v
  <2>1. CASE k = Len(tabs)
    BY <1>0, <2>1, NavigationAssumption
  <2>2. CASE k # Len(tabs)
    <3>1. k + 1 \in DOMAIN tabs /\ k + 1 # k
      BY <1>2, <2>2
    <3>2. tabs[k + 1].view \in View /\ tabs[k + 1].view # v
      BY <1>1, <1>2, <3>1, IdsIs DEF TabList, TabsOnce
    <3> QED
      BY <2>2, <3>2
  <2> QED
    BY <2>1, <2>2
<1> HIDE DEF next
<1>4. /\ ThenOK(SwitchTo(next), next) /\ SwitchTo(next).kind # "reset"
      /\ TabList(SwitchTo(next).keep) /\ (\A w : Owned(SwitchTo(next).keep, w))
  <2>1. SwitchTo(next).keep = <<>>
    BY DEF SwitchTo
  <2>2. TabList(<<>>) /\ (\A w : Owned(<<>>, w))
    BY EmptyTabs
  <2>3. ThenOK(SwitchTo(next), next) /\ SwitchTo(next).kind # "reset"
    BY <1>3, <2>2 DEF ThenOK, SwitchTo, Then, TabList
  <2> QED
    BY <2>1, <2>2, <2>3
<1>5. /\ RouterType' /\ Router' /\ Thens(SwitchTo(next)) /\ (mixed => mixed')
      /\ slipped' \in BOOLEAN /\ (slipped => slipped')
      /\ v = active /\ next # place => Live'
      /\ v # active => navs' = navs
  <2>1. CASE v = active
    BY <1>0, <1>a, <1>3, <1>4, <2>1, SwitchStays
  <2>2. CASE v # active
    <3>1. /\ navs' = navs /\ routes' = routes /\ authInit' = authInit /\ me' = me /\ mixed' = mixed
          /\ slipped' = slipped
      BY <1>a, <2>2 DEF router
    <3>2. RouterType'
      BY <1>1, <3>1 DEF RouterType
    <3>3. Router'
      <4>1. NavsOK' /\ LiveIsAllowed' /\ PlaceIsAllowed'
        BY <1>0, <1>1, <3>1 DEF Router, NavsOK, LiveIsAllowed, PlaceIsAllowed
      <4>2. WayOut' /\ RoutesOf' /\ LeavesLogin'
        BY <1>0, <1>1, <3>1 DEF Router, WayOut, RoutesOf, LeavesLogin
      <4> QED
        BY <4>1, <4>2 DEF Router
    <3> QED
      BY <1>1, <2>2, <3>1, <3>2, <3>3 DEF Thens, TypeOK
  <2> QED
    BY <2>1, <2>2
<1>6. TabList(tabs') /\ (\A w : Owned(tabs, w) => Owned(tabs', w))
  <2>1. tabs' \in Seq(Tab) /\ From(tabs', tabs)
    BY <1>0, <1>1, <1>2, Removed, Remain
  <2> QED
    BY <1>1, <2>1, FromKeeps
<1>7. Bar' /\ TabsOwned'
  BY <1>0, <1>4, <1>5, <1>6, TabsStay
<1>8. ActiveIsPlace'
  <2>1. SUFFICES ASSUME ~swept PROVE active = place /\ (active \in Ids(tabs') \cup {Home} \/ Live')
    BY <1>0 DEF ActiveIsPlace, Live
  <2>2. active = place /\ (active \in Ids(tabs) \cup {Home} \/ Live)
    BY <1>0, <1>1, <2>1 DEF ActiveIsPlace, Live
  <2>3. CASE v = active
    BY <1>3, <1>5, <2>2, <2>3
  <2>4. CASE v # active
    <3>1. ASSUME active \in Ids(tabs) PROVE active \in Ids(tabs')
      <4>1. PICK i \in DOMAIN tabs : tabs[i].view = active
        BY <1>1, <3>1, IdsIs
      <4>2. PICK j \in DOMAIN tabs' : tabs'[j] = tabs[i]
        BY <1>0, <1>1, <1>2, <2>4, <4>1, Remain
      <4> QED
        BY <1>6, <4>1, <4>2, IdsIs DEF TabList
    <3> QED
      BY <1>5, <2>2, <2>4, <3>1 DEF Live
  <2> QED
    BY <2>3, <2>4
<1>9. Rest'
  BY <1>0, <1>5, RestIs DEF Rest
<1> QED
  BY <1>5, <1>7, <1>8, <1>9, TypeNext DEF Step

LEMMA CloseOthersStep ==
  ASSUME NavigationInv, NEW v \in View, CloseOthers(v) PROVE Step
<1>0. /\ stored' = stored /\ info' = info /\ last' = last /\ place' = place /\ want' = want
      /\ active' = active /\ cached' = cached
      /\ swept' = swept /\ half' = half /\ place \in View
  BY DEF CloseOthers, session
<1>a. PICK E : ClearTabs(E)
  BY Zenon DEF CloseOthers
<1> DEFINE keep == Cleared(tabs, E)
           to == LastTab(keep)
<1>1. TypeOK /\ TabList(tabs) /\ ActiveIsPlace /\ Router /\ RouterType /\ tabs \in Seq(Tab)
  BY InvIs DEF TabList
<1>2. TabList(keep) /\ keep \in Seq(Tab) /\ (\A w : Owned(tabs, w) => Owned(keep, w))
  BY <1>1, ClearedIs DEF TabList
<1>b. IF active \in Ids(tabs) \ Ids(keep)
        THEN switchRouteByTab(to, navs, ThenClear(to, keep)) /\ tabs' = IF to = place THEN keep ELSE tabs
        ELSE tabs' = keep /\ UNCHANGED <<navs, router, me, mixed, slipped>>
  BY <1>a DEF ClearTabs
<1> HIDE DEF keep
<1>3. to \in Ids(keep) \cup {Home} /\ to \in View
  BY <1>2, LastTabIs
<1> HIDE DEF to
<1>4. /\ ThenOK(ThenClear(to, keep), to) /\ ThenClear(to, keep).kind # "reset"
      /\ ThenClear(to, keep).keep = keep
  BY <1>2, <1>3 DEF ThenOK, ThenClear, Then
<1>5. CASE active \in Ids(tabs) \ Ids(keep)
  <2>1. /\ RouterType' /\ Router' /\ Thens(ThenClear(to, keep)) /\ (mixed => mixed')
        /\ slipped' \in BOOLEAN /\ (slipped => slipped') /\ (to # place => Live' /\ slipped' = slipped)
    BY <1>0, <1>b, <1>3, <1>4, <1>5, SwitchStays
  <2>2. TabList(tabs') /\ (\A w : Owned(tabs, w) => Owned(tabs', w))
    BY <1>b, <1>1, <1>2, <1>5
  <2>3. Bar' /\ TabsOwned'
    BY <1>0, <1>2, <1>4, <2>1, <2>2, TabsStay
  <2>4. active # Home
    BY <1>1, <1>5, IdsIs
  <2>5. ActiveIsPlace'
    BY <1>0, <1>1, <1>3, <1>5, <2>1, <2>4 DEF ActiveIsPlace, Live
  <2>6. Rest'
    BY <1>0, <2>1, RestIs DEF Rest
  <2> QED
    BY <2>1, <2>3, <2>5, <2>6, TypeNext DEF Step
<1>6. CASE active \notin Ids(tabs) \ Ids(keep)
  <2>1. /\ navs' = navs /\ routes' = routes /\ authInit' = authInit /\ me' = me /\ mixed' = mixed
        /\ slipped' = slipped /\ tabs' = keep
    BY <1>b, <1>6 DEF router
  <2>2. RouterType'
    BY <1>1, <2>1 DEF RouterType
  <2>3. Router'
    <3>1. NavsOK' /\ LiveIsAllowed' /\ PlaceIsAllowed'
      BY <1>0, <1>1, <2>1 DEF Router, NavsOK, LiveIsAllowed, PlaceIsAllowed
    <3>2. WayOut' /\ RoutesOf' /\ LeavesLogin'
      BY <1>0, <1>1, <2>1 DEF Router, WayOut, RoutesOf, LeavesLogin
    <3> QED
      BY <3>1, <3>2 DEF Router
  <2>4. Thens(ThenClear(to, keep))
    BY <2>1 DEF Thens
  <2>5. Bar' /\ TabsOwned'
    BY <1>0, <1>2, <1>4, <2>1, <2>4, TabsStay
  <2>6. ActiveIsPlace'
    BY <1>0, <1>1, <1>6, <2>1 DEF ActiveIsPlace
  <2>7. Rest'
    BY <1>0, <2>1, RestIs DEF Rest
  <2> QED
    BY <2>2, <2>3, <2>5, <2>6, <2>7, TypeNext DEF Step
<1> QED
  BY <1>5, <1>6

LEMMA ReloadStep ==
  ASSUME NavigationInv, Reload PROVE Step
<1>0. /\ stored' = stored /\ info' = NoUser /\ last' = last /\ place' = "start" /\ want' = Home
      /\ cached' = tabs /\ tabs' = <<>> /\ active' = Home
      /\ slipped' = slipped /\ mixed' = mixed /\ swept' = swept /\ half' = half
      /\ Owner' = Owner /\ Home \in View /\ "start" \notin View /\ "start" \in Place
  BY NavigationAssumption DEF Reload, history, Owner, Place
<1>1. TypeOK /\ TabList(tabs) /\ TabsOwned /\ TabList(<<>>) /\ (\A w : Owned(<<>>, w)) /\ Nothing.keep = <<>>
  BY InvIs, EmptyTabs
<1>2. RouterType' /\ Router' /\ \A k \in DOMAIN navs' : navs'[k].then = Nothing
  BY ReloadRouter
<1>3. Bar'
  BY <1>0, <1>1, <1>2 DEF Bar, TabList
<1>4. ASSUME ~half', ~mixed', ~slipped', Owner' # NoUser
      PROVE  /\ Owned(tabs', Owner') /\ (cached' # NoTabs => Owned(cached', Owner'))
             /\ \A k \in DOMAIN navs' : Owned(navs'[k].then.keep, Owner')
  <2>1. Owned(tabs, Owner)
    BY <1>0, <1>1, <1>4, OwnedNow
  <2> QED
    BY <1>0, <1>1, <1>2, <2>1
<1>5. ~half' /\ ~mixed' => info' \in {NoUser, stored'} /\ (stored' # NoUser => last' = NoUser)
  BY <1>0, <1>1, OwnedNow
<1>6. TabsOwned'
  BY <1>4, <1>5, OwnedNext
<1>7. ActiveIsPlace'
  BY <1>0 DEF ActiveIsPlace
<1>8. Rest'
  BY <1>0, RestIs DEF Rest
<1> QED
  BY <1>2, <1>3, <1>6, <1>7, <1>8, TypeNext DEF Step

-----------------------------------------------------------------------------
(* The beginnings and the ends of sessions.                                *)

(* The tabs are those of the user who was, and it is remembered who.       *)
LEMMA TabsLeft ==
  ASSUME NavigationInv, last' = IF info = NoUser THEN last ELSE info,
         stored' = NoUser, info' = NoUser, UNCHANGED <<tabs, active, half>>,
         cached' \in {cached, tabs}, mixed => mixed', slipped => slipped', Thens(ThenReset)
  PROVE  Bar' /\ TabsOwned' /\ last' \in User \cup {NoUser}
<1>0. /\ Bar /\ TabsOwned /\ tabs' = tabs /\ active' = active /\ half' = half
      /\ TabList(<<>>) /\ (\A w : Owned(<<>>, w)) /\ ThenReset.keep = <<>>
      /\ info \in User \cup {NoUser} /\ last \in User \cup {NoUser}
  BY InvIs, EmptyTabs DEF TypeOK
<1>1. \A k \in DOMAIN navs' : TabsOnce(navs'[k].then.keep)
  BY <1>0 DEF Thens, Bar, TabList
<1>2. Bar'
  BY <1>0, <1>1 DEF Bar
<1>3. ASSUME ~half', ~mixed', ~slipped', Owner' # NoUser
      PROVE  /\ Owned(tabs', Owner') /\ (cached' # NoTabs => Owned(cached', Owner'))
             /\ \A k \in DOMAIN navs' : Owned(navs'[k].then.keep, Owner')
  <2>1. info \in {NoUser, stored} /\ (stored # NoUser => last = NoUser)
    BY <1>0, <1>3, OwnedNow
  <2>2. Owner' = last'
    BY DEF Owner
  <2>3. Owner = Owner'
    <3>1. CASE info = NoUser
      BY <1>3, <2>1, <2>2, <3>1 DEF Owner
    <3>2. CASE info # NoUser
      BY <2>1, <2>2, <3>2 DEF Owner
    <3> QED
      BY <3>1, <3>2
  <2>4. /\ Owned(tabs, Owner') /\ (cached # NoTabs => Owned(cached, Owner'))
        /\ \A k \in DOMAIN navs : Owned(navs[k].then.keep, Owner')
    BY <1>0, <1>3, <2>3, OwnedNow
  <2> QED
    BY <1>0, <2>4 DEF Thens
<1>4. TabsOwned'
  BY <1>3, OwnedNext
<1>5. last' \in User \cup {NoUser}
  BY <1>0
<1> QED
  BY <1>2, <1>4, <1>5

LEMMA resetStoreStep ==
  ASSUME NavigationInv, NEW m \in SUBSET User, resetStore(navs, m),
         UNCHANGED <<place, want, tabs, active, swept, half>>
  PROVE  Step
<1>0. /\ last' = (IF info = NoUser THEN last ELSE info) /\ stored' = NoUser /\ info' = NoUser
      /\ place' = place /\ want' = want /\ tabs' = tabs /\ active' = active
      /\ swept' = swept /\ half' = half
  BY DEF resetStore
<1>1. /\ TypeOK /\ ActiveIsPlace /\ RedirectOf(place) \in View \cup {"nowhere"}
      /\ slipped \in BOOLEAN /\ mixed \in BOOLEAN
      /\ \A p \in Constant : p \notin View
  <2>1. \A p \in Constant : p \notin View
    BY NavigationAssumption DEF Constant
  <2> QED
    BY <2>1, InvIs, RedirectIs DEF TypeOK
<1>2. /\ RouterType' /\ Router' /\ Thens(ThenReset) /\ mixed' = mixed
      /\ slipped' \in BOOLEAN /\ (slipped => slipped') /\ cached' \in {cached, tabs}
      /\ place \in View => Live'
  <2>1. CASE place \in Constant
    <3>1. /\ cached' = tabs /\ routes' = {} /\ authInit' = FALSE /\ navs' = navs /\ me' = m /\ mixed' = mixed
          /\ slipped' = (slipped \/ \E k \in DOMAIN navs : navs[k].live /\ navs[k].at \in View)
      BY <2>1 DEF resetStore
    <3>2. RouterType' /\ Router' /\ slipped' \in BOOLEAN
      BY <1>0, <2>1, <3>1, EndsInPlace
    <3>3. Thens(ThenReset)
      BY <3>1 DEF Thens
    <3> QED
      BY <1>1, <2>1, <3>1, <3>2, <3>3
  <2>2. CASE place \notin Constant
    <3>1. /\ Push(navs, "login", RedirectOf(place), ThenReset, NoUser, NoUser, m)
          /\ cached' = cached /\ slipped' = slipped
      BY <2>2 DEF resetStore
    <3>2. RouterType' /\ Router' /\ Live' /\ Thens(ThenReset) /\ mixed' = mixed
      BY <1>0, <1>1, <2>2, <3>1, PushLeaves
    <3> QED
      BY <1>1, <3>1, <3>2
  <2> QED
    BY <2>1, <2>2
<1>3. Bar' /\ TabsOwned' /\ last' \in User \cup {NoUser}
  BY <1>0, <1>2, TabsLeft
<1>4. ActiveIsPlace'
  BY <1>0, <1>1, <1>2 DEF ActiveIsPlace, Live
<1>5. Rest'
  BY <1>0, <1>2, <1>3, RestIs DEF Rest
<1> QED
  BY <1>2, <1>3, <1>4, <1>5, TypeNext DEF Step

LEMMA LogoutStep == ASSUME NavigationInv, Logout PROVE Step
<1>1. me \in SUBSET User
  BY InvIs DEF TypeOK
<1> QED
  BY <1>1, resetStoreStep DEF Logout

LEMMA MeFailedStep == ASSUME NavigationInv, NEW u \in User, MeFailed(u) PROVE Step
<1>1. me \ {u} \in SUBSET User
  BY InvIs DEF TypeOK
<1> QED
  BY <1>1, resetStoreStep DEF MeFailed

LEMMA LoginStep == ASSUME NavigationInv, NEW u \in User, Login(u) PROVE Step
<1>0. /\ stored' = u /\ info' = u /\ last' = NoUser /\ place = "login" /\ navs = <<>>
      /\ place' = place /\ want' = want /\ active' = active
      /\ slipped' = slipped /\ swept' = swept /\ half' = half /\ u # NoUser /\ Owner' = u
  BY NavigationAssumption DEF Login, Owner
<1>a. /\ checkTabClear(u) =>
           cached' = NoTabs /\ tabs' = Cleared(tabs, {}) /\ Push(navs, Home, Home, Nothing, u, u, me)
      /\ ~checkTabClear(u) =>
           cached' = cached /\ tabs' = tabs /\ Push(navs, want, Home, Nothing, u, u, me)
  BY DEF Login
<1>1. /\ TypeOK /\ Bar /\ TabsOwned /\ TabList(tabs) /\ want \in Target /\ Home \in Target
      /\ Home # "login" /\ want # "login" /\ "login" \notin View
      /\ TabList(<<>>) /\ (\A w : Owned(<<>>, w)) /\ Nothing.keep = <<>>
  BY InvIs, EmptyTabs, NavigationAssumption DEF TypeOK, Target
<1>2. RouterType' /\ Router' /\ Live' /\ Thens(Nothing) /\ (mixed => mixed')
  <2>1. PICK t \in Target : t # "login" /\ Push(navs, t, Home, Nothing, u, u, me)
    BY <1>a, <1>1
  <2> QED
    BY <1>0, <2>1, PushEnters
<1>3. \A k \in DOMAIN navs' : navs'[k].then = Nothing
  <2>1. DOMAIN navs = {}
    BY <1>0
  <2> QED
    BY <1>2, <2>1 DEF Thens
<1>4. TabList(Cleared(tabs, {})) /\ (\A w : Owned(Cleared(tabs, {}), w))
  BY <1>1, ClearedIs, ClearedOwned
<1>5. Bar'
  BY <1>0, <1>a, <1>1, <1>3, <1>4 DEF Bar, TabList
<1>6. ASSUME ~half', ~mixed', ~slipped', Owner' # NoUser
      PROVE  /\ Owned(tabs', Owner') /\ (cached' # NoTabs => Owned(cached', Owner'))
             /\ \A k \in DOMAIN navs' : Owned(navs'[k].then.keep, Owner')
  <2>1. CASE checkTabClear(u)
    BY <1>a, <1>1, <1>3, <1>4, <2>1
  <2>2. CASE ~checkTabClear(u)
    <3>1. last = u
      BY <2>2 DEF checkTabClear
    <3>2. stored # NoUser => last = NoUser
      BY <1>0, <1>1, <1>2, <1>6, OwnedNow
    <3>3. Owner = u
      BY <1>0, <3>1, <3>2 DEF Owner
    <3>4. Owned(tabs, u) /\ (cached # NoTabs => Owned(cached, u))
      BY <1>0, <1>1, <1>2, <1>6, <3>3, OwnedNow
    <3> QED
      BY <1>0, <1>a, <1>1, <1>3, <2>2, <3>4
  <2> QED
    BY <2>1, <2>2
<1>7. TabsOwned'
  BY <1>0, <1>6, OwnedNext
<1>8. ActiveIsPlace'
  BY <1>0, <1>1 DEF ActiveIsPlace
<1>9. Rest'
  BY <1>0, RestIs DEF Rest
<1> QED
  BY <1>2, <1>5, <1>7, <1>8, <1>9, TypeNext DEF Step

LEMMA HalfLoginStep == ASSUME NavigationInv, NEW u \in User, HalfLogin(u) PROVE Step
<1>0. /\ stored' = u /\ half' = TRUE /\ place = "login" /\ "login" \notin View
      /\ info' = info /\ last' = last /\ place' = place /\ want' = want /\ navs' = navs
      /\ tabs' = tabs /\ active' = active /\ cached' = cached
      /\ slipped' = slipped /\ swept' = swept
  BY NavigationAssumption DEF HalfLogin, bar
<1>1. Bar
  BY InvIs
<1>2. RouterType' /\ Router'
  BY HalfLoginRouter
<1>3. Bar' /\ TabsOwned' /\ ActiveIsPlace'
  BY <1>0, <1>1 DEF Bar, TabsOwned, ActiveIsPlace
<1>4. Rest'
  BY <1>0, RestIs DEF Rest
<1> QED
  BY <1>2, <1>3, <1>4, TypeNext DEF Step

(* Only whose the user info is changes.                                    *)
LEMMA OnlyInfo ==
  ASSUME NavigationInv, UNCHANGED <<stored, last, tabs, cached, active, half, slipped, swept, place>>,
         mixed => mixed', ~mixed' => info' = stored, Live => Live',
         \A j \in DOMAIN navs' : \E i \in DOMAIN navs : navs'[j].then = navs[i].then
  PROVE  Bar' /\ TabsOwned' /\ ActiveIsPlace'
<1>0. /\ Bar /\ TabsOwned /\ ActiveIsPlace /\ Owner' = Owner
      /\ stored' = stored /\ last' = last /\ half' = half /\ tabs' = tabs /\ active' = active
      /\ cached' = cached /\ slipped' = slipped /\ swept' = swept /\ place' = place
  BY InvIs DEF Owner
<1>1. Bar'
  BY <1>0 DEF Bar
<1>2. ~half' /\ ~mixed' => info' \in {NoUser, stored'} /\ (stored' # NoUser => last' = NoUser)
  BY <1>0, OwnedNow
<1>3. ASSUME ~half', ~mixed', ~slipped', Owner' # NoUser
      PROVE  /\ Owned(tabs', Owner') /\ (cached' # NoTabs => Owned(cached', Owner'))
             /\ \A k \in DOMAIN navs' : Owned(navs'[k].then.keep, Owner')
  <2>1. /\ Owned(tabs, Owner) /\ (cached # NoTabs => Owned(cached, Owner))
        /\ \A k \in DOMAIN navs : Owned(navs[k].then.keep, Owner)
    BY <1>0, <1>3, OwnedNow
  <2> QED
    BY <1>0, <2>1
<1>4. TabsOwned'
  BY <1>2, <1>3, OwnedNext
<1>5. ActiveIsPlace'
  BY <1>0 DEF ActiveIsPlace, Live
<1> QED
  BY <1>1, <1>4, <1>5

LEMMA MeAnsweredStep == ASSUME NavigationInv, NEW u \in User, MeAnswered(u) PROVE Step
<1>0. /\ info' = u /\ mixed' = (mixed \/ u # stored)
      /\ stored' = stored /\ last' = last /\ place' = place /\ want' = want /\ navs' = navs
      /\ tabs' = tabs /\ active' = active /\ cached' = cached
      /\ slipped' = slipped /\ swept' = swept /\ half' = half
  BY DEF MeAnswered, bar
<1>1. RouterType' /\ Router'
  BY MeAnsweredRouter
<1>2. Live => Live'
  BY <1>0 DEF Live
<1>3. Bar' /\ TabsOwned' /\ ActiveIsPlace'
  BY <1>0, <1>2, OnlyInfo
<1>4. Rest'
  BY <1>0, RestIs DEF Rest
<1> QED
  BY <1>1, <1>3, <1>4, TypeNext DEF Step

LEMMA InitAuthRouteStep ==
  ASSUME NavigationInv, NEW k \in DOMAIN navs, InitAuthRoute(k) PROVE Step
<1>0. /\ info' = navs[k].by /\ mixed' = (mixed \/ navs[k].by # stored)
      /\ stored' = stored /\ last' = last /\ place' = place /\ want' = want
      /\ tabs' = tabs /\ active' = active /\ cached' = cached
      /\ slipped' = slipped /\ swept' = swept /\ half' = half
  BY DEF InitAuthRoute, bar
<1>1. /\ RouterType' /\ Router' /\ (Live => Live') /\ (mixed => mixed')
      /\ \A j \in DOMAIN navs' : \E i \in DOMAIN navs : navs'[j].then = navs[i].then
  BY InitAuthRouteRouter
<1>2. Bar' /\ TabsOwned' /\ ActiveIsPlace'
  BY <1>0, <1>1, OnlyInfo
<1>3. Rest'
  <2>1. navs[k].by \in User \cup {NoUser}
    BY InvIs DEF Nav
  <2> QED
    BY <1>0, <2>1, RestIs DEF Rest
<1> QED
  BY <1>1, <1>2, <1>3, TypeNext DEF Step

LEMMA InitAuthRouteFailedStep ==
  ASSUME NavigationInv, NEW k \in DOMAIN navs, InitAuthRouteFailed(k) PROVE Step
<1>0. /\ last' = (IF info = NoUser THEN last ELSE info) /\ stored' = NoUser /\ info' = NoUser
      /\ place' = place /\ want' = want /\ tabs' = tabs /\ active' = active
      /\ swept' = swept /\ half' = half /\ cached' \in {cached, tabs} /\ (slipped => slipped')
  BY DEF InitAuthRouteFailed
<1>1. ActiveIsPlace
  BY InvIs
<1>2. /\ RouterType' /\ Router' /\ Thens(ThenReset) /\ (mixed => mixed') /\ slipped' \in BOOLEAN
      /\ place \in View => Live'
  BY InitAuthRouteFailedRouter
<1>3. Bar' /\ TabsOwned' /\ last' \in User \cup {NoUser}
  BY <1>0, <1>2, TabsLeft
<1>4. ActiveIsPlace'
  BY <1>0, <1>1, <1>2 DEF ActiveIsPlace, Live
<1>5. Rest'
  BY <1>0, <1>2, <1>3, RestIs DEF Rest
<1> QED
  BY <1>2, <1>3, <1>4, <1>5, TypeNext DEF Step

-----------------------------------------------------------------------------
(* A navigation arrives, or finds that it was overtaken.                   *)

LEMMA WithoutThens ==
  ASSUME NavigationInv, NEW k \in DOMAIN navs, navs' = Without(navs, k)
  PROVE  \A j \in DOMAIN navs' : \E i \in DOMAIN navs : navs'[j].then = navs[i].then
<1>1. navs \in Seq(Nav)
  BY InvIs DEF RouterType
<1> QED
  BY <1>1, Remain

LEMMA ArriveStep ==
  ASSUME NavigationInv, NEW k \in DOMAIN navs, Arrive(k) PROVE Step
<1> DEFINE n == navs[k]
           d == n.then
<1>0. /\ stored' = stored /\ info' = info /\ last' = last /\ place' = n.at
      /\ want' = (IF n.at = "login" THEN n.want ELSE want)
      /\ slipped' = slipped /\ mixed' = mixed /\ half' = half
      /\ navs' = Without(navs, k) /\ n.live /\ n.at # "wait" /\ Owner' = Owner
  BY DEF Arrive, session, Owner
<1>a. /\ active' = (IF d.kind \in {"tab", "clear"} THEN d.tab
                    ELSE IF n.at \in View /\ n.at # place THEN n.at ELSE active)
      /\ tabs' = (IF d.kind = "clear" THEN d.keep ELSE Shown(n.at))
      /\ swept' = (swept \/ (d.kind = "clear" /\ (active' \notin Ids(tabs') \cup {Home})))
  BY DEF Arrive, Finish
<1>b. cached' \in {cached, tabs}
  BY DEF Arrive, ResetRoutes
<1>1. /\ TypeOK /\ Bar /\ TabsOwned /\ ActiveIsPlace /\ NavsOK /\ LiveIsAllowed /\ TabList(tabs)
      /\ n \in Nav /\ TabList(d.keep) /\ swept \in BOOLEAN
  BY InvIs DEF Router, TypeOK
<1>2. /\ n.to # place
      /\ n.at \in View => n.at = n.to \/ (n.at = Home /\ n.to = "login")
      /\ d.kind \in {"tab", "clear"} => n.to = d.tab
      /\ d.kind = "clear" => d.tab \in Ids(d.keep) \cup {Home}
  BY <1>0, <1>1 DEF NavsOK
<1>3. /\ d.tab \in View /\ n.at \in (Place \ {"start"}) \cup {"wait"} /\ n.want \in View \cup {"nowhere"}
      /\ "login" \notin View
  BY <1>1, NavigationAssumption DEF Nav, Then
<1> HIDE DEF d, n
<1>4. RouterType' /\ Router'
  BY ArriveRouter
<1>5. /\ TabList(Shown(n.at))
      /\ n.at \in View /\ n.at # place => n.at \in Ids(Shown(n.at)) \cup {Home}
      /\ n.at \notin View \/ n.at = place => Shown(n.at) = tabs
      /\ Owned(tabs, stored) /\ (cached # NoTabs => Owned(cached, stored)) => Owned(Shown(n.at), stored)
  BY <1>1, ShownIs
<1>6. \A j \in DOMAIN navs' : \E i \in DOMAIN navs : navs'[j].then = navs[i].then
  BY <1>0, WithoutThens
<1>7. Bar'
  <2>1. active' \in View
    BY <1>a, <1>1, <1>3 DEF Bar
  <2>2. TabList(tabs')
    BY <1>a, <1>1, <1>5
  <2>3. cached' # NoTabs => TabList(cached')
    BY <1>b, <1>1 DEF Bar
  <2> QED
    BY <1>1, <1>6, <2>1, <2>2, <2>3 DEF Bar
<1>8. ASSUME ~half', ~mixed', ~slipped', Owner' # NoUser
      PROVE  /\ Owned(tabs', Owner') /\ (cached' # NoTabs => Owned(cached', Owner'))
             /\ \A j \in DOMAIN navs' : Owned(navs'[j].then.keep, Owner')
  <2>1. /\ Owned(tabs, Owner) /\ (cached # NoTabs => Owned(cached, Owner))
        /\ \A j \in DOMAIN navs : Owned(navs[j].then.keep, Owner)
    BY <1>0, <1>1, <1>8, OwnedNow
  <2>2. Owned(d.keep, Owner)
    BY <2>1 DEF d, n
  <2>3. Owned(Shown(n.at), Owner)
    <3>1. CASE n.at \in View
      <4>1. stored # NoUser
        BY <1>0, <1>1, <1>8, <3>1 DEF LiveIsAllowed, n
      <4>2. Owner = stored
        BY <4>1 DEF Owner
      <4> QED
        BY <1>5, <2>1, <4>2
    <3>2. CASE n.at \notin View
      BY <1>5, <2>1, <3>2
    <3> QED
      BY <3>1, <3>2
  <2> QED
    BY <1>0, <1>a, <1>b, <1>6, <2>1, <2>2, <2>3
<1>9. ~half' /\ ~mixed' => info' \in {NoUser, stored'} /\ (stored' # NoUser => last' = NoUser)
  BY <1>0, <1>1, OwnedNow
<1>10. TabsOwned'
  BY <1>8, <1>9, OwnedNext
<1>11. ActiveIsPlace'
  <2>1. SUFFICES ASSUME ~swept', n.at \in View
                 PROVE  active' = n.at /\ active' \in Ids(tabs') \cup {Home}
    BY <1>0 DEF ActiveIsPlace
  <2>2. CASE d.kind \in {"tab", "clear"}
    <3>1. active' = n.at /\ n.at # place
      BY <1>a, <1>2, <1>3, <2>1, <2>2
    <3> QED
      BY <1>a, <1>2, <1>5, <2>1, <2>2, <3>1
  <2>3. CASE d.kind \notin {"tab", "clear"} /\ n.at # place
    BY <1>a, <1>5, <2>1, <2>3
  <2>4. CASE d.kind \notin {"tab", "clear"} /\ n.at = place
    <3>1. n.at = Home /\ ~swept /\ active' = active /\ active = place
      BY <1>a, <1>1, <1>2, <2>1, <2>4 DEF ActiveIsPlace
    <3> QED
      BY <2>4, <3>1
  <2> QED
    BY <2>2, <2>3, <2>4
<1>12. Rest'
  <2>1. swept' \in BOOLEAN
    BY <1>a, <1>1
  <2> QED
    BY <1>0, <1>3, <2>1, RestIs DEF Rest
<1> QED
  BY <1>4, <1>7, <1>10, <1>11, <1>12, TypeNext DEF Step

LEMMA CancelledStep ==
  ASSUME NavigationInv, NEW k \in DOMAIN navs, Cancelled(k) PROVE Step
<1> DEFINE n == navs[k]
           d == n.then
<1>0. /\ stored' = stored /\ info' = info /\ last' = last /\ place' = place /\ want' = want
      /\ slipped' = slipped /\ mixed' = mixed /\ half' = half
      /\ navs' = Without(navs, k) /\ Owner' = Owner
  BY DEF Cancelled, session, Owner
<1>a. /\ active' = active
      /\ tabs' = (IF d.kind = "clear" THEN d.keep ELSE tabs)
      /\ swept' = (swept \/ (d.kind = "clear" /\ (active' \notin Ids(tabs') \cup {Home})))
  BY DEF Cancelled, Finish
<1>b. cached' \in {cached, tabs}
  BY DEF Cancelled, ResetRoutes
<1>1. /\ TypeOK /\ Bar /\ TabsOwned /\ ActiveIsPlace /\ TabList(tabs) /\ TabList(d.keep) /\ swept \in BOOLEAN
  BY InvIs DEF TypeOK
<1> HIDE DEF d, n
<1>2. RouterType' /\ Router' /\ (Live => Live')
  BY CancelledRouter
<1>3. \A j \in DOMAIN navs' : \E i \in DOMAIN navs : navs'[j].then = navs[i].then
  BY <1>0, WithoutThens
<1>4. Bar'
  BY <1>a, <1>b, <1>1, <1>3 DEF Bar
<1>5. ASSUME ~half', ~mixed', ~slipped', Owner' # NoUser
      PROVE  /\ Owned(tabs', Owner') /\ (cached' # NoTabs => Owned(cached', Owner'))
             /\ \A j \in DOMAIN navs' : Owned(navs'[j].then.keep, Owner')
  <2>1. /\ Owned(tabs, Owner) /\ (cached # NoTabs => Owned(cached, Owner))
        /\ \A j \in DOMAIN navs : Owned(navs[j].then.keep, Owner)
    BY <1>0, <1>1, <1>5, OwnedNow
  <2>2. Owned(d.keep, Owner)
    BY <2>1 DEF d, n
  <2> QED
    BY <1>0, <1>a, <1>b, <1>3, <2>1, <2>2
<1>6. ~half' /\ ~mixed' => info' \in {NoUser, stored'} /\ (stored' # NoUser => last' = NoUser)
  BY <1>0, <1>1, OwnedNow
<1>7. TabsOwned'
  BY <1>5, <1>6, OwnedNext
<1>8. ActiveIsPlace'
  BY <1>0, <1>a, <1>1, <1>2 DEF ActiveIsPlace, Live
<1>9. Rest'
  <2>1. swept' \in BOOLEAN
    BY <1>a, <1>1
  <2> QED
    BY <1>0, <2>1, RestIs DEF Rest
<1> QED
  BY <1>2, <1>4, <1>7, <1>8, <1>9, TypeNext DEF Step

-----------------------------------------------------------------------------
(* The theorem.                                                            *)

LEMMA InitInv == Init => NavigationInv
<1> SUFFICES ASSUME Init PROVE NavigationInv
  OBVIOUS
<1>0. /\ stored \in User \cup {NoUser} /\ info = NoUser /\ last = NoUser /\ place = "start" /\ want = Home
      /\ tabs = <<>> /\ active = Home /\ cached = NoTabs
      /\ slipped = FALSE /\ half = FALSE /\ swept = FALSE
      /\ Home \in View /\ "start" \notin View /\ "start" \in Place
  BY NavigationAssumption DEF Init, Place
<1>1. RouterType /\ Router /\ (\A k \in DOMAIN navs : navs[k].then = Nothing)
  BY InitRouter
<1>2. TabList(<<>>) /\ (\A w : Owned(<<>>, w)) /\ Nothing.keep = <<>>
  BY EmptyTabs
<1>3. TypeOK
  BY <1>0, <1>1, <1>2 DEF TypeOK, RouterType, TabList
<1>4. TabsOwned
  <2>1. \A k \in DOMAIN navs : Owned(navs[k].then.keep, stored)
    BY <1>1, <1>2
  <2> QED
    BY <1>0, <1>2, <2>1 DEF TabsOwned, OwnTabs, Owned
<1>5. ActiveIsPlace
  BY <1>0 DEF ActiveIsPlace
<1> QED
  BY <1>1, <1>3, <1>4, <1>5 DEF NavigationInv, Router

LEMMA NextInv == NavigationInv /\ [Next]_vars => NavigationInv'
<1> SUFFICES ASSUME NavigationInv, [Next]_vars PROVE Step
  <2>1. Step => NavigationInv'
    BY DEF Step, NavigationInv, Router
  <2> QED
    BY <2>1
<1>1. CASE UserStep
  BY <1>1, GoToStep, ClickTabStep, CloseTabStep, CloseOthersStep, LoginStep, HalfLoginStep,
     ReloadStep, LogoutStep DEF UserStep
<1>2. CASE Progress
  BY <1>2, ArriveStep, CancelledStep, InitAuthRouteStep, InitAuthRouteFailedStep DEF Progress
<1>3. CASE Answers
  BY <1>3, MeAnsweredStep, MeFailedStep DEF Answers
<1>4. CASE UNCHANGED vars
  <2>1. /\ stored' = stored /\ info' = info /\ last' = last /\ me' = me /\ routes' = routes
        /\ authInit' = authInit /\ place' = place /\ want' = want /\ navs' = navs
        /\ tabs' = tabs /\ active' = active /\ cached' = cached
        /\ slipped' = slipped /\ mixed' = mixed /\ half' = half /\ swept' = swept
    BY <1>4 DEF vars, session, router, bar, history
  <2>2. TypeOK'
    BY <2>1 DEF NavigationInv, TypeOK
  <2>3. Router'
    <3>1. NavsOK' /\ LiveIsAllowed' /\ PlaceIsAllowed'
      BY <2>1 DEF NavigationInv, NavsOK, LiveIsAllowed, PlaceIsAllowed
    <3>2. WayOut' /\ RoutesOf' /\ LeavesLogin'
      BY <2>1 DEF NavigationInv, WayOut, RoutesOf, LeavesLogin
    <3> QED
      BY <3>1, <3>2 DEF Router
  <2>4. TabsOwned'
    BY <2>1 DEF NavigationInv, TabsOwned, OwnTabs
  <2>5. ActiveIsPlace'
    BY <2>1 DEF NavigationInv, ActiveIsPlace
  <2> QED
    BY <2>2, <2>3, <2>4, <2>5 DEF Step
<1> QED
  BY <1>1, <1>2, <1>3, <1>4 DEF Next

(* When nothing is under way, the invariant says whose all that is.        *)
LEMMA QuietIs ==
  ASSUME NavigationInv PROVE Guarded /\ RoutesMatch /\ TabsMine /\ ActiveIsShown
<1>1. /\ PlaceIsAllowed /\ WayOut /\ RoutesOf /\ TabsOwned /\ ActiveIsPlace
      /\ \A p \in Constant : p \notin View
  BY NavigationAssumption DEF NavigationInv, Constant
<1>2. Quiet => DOMAIN navs = {}
  BY DEF Quiet
<1>3. Quiet /\ place \in View /\ ~slipped => stored # NoUser
  BY <1>1, <1>2 DEF WayOut
<1>4. Guarded
  BY <1>1, <1>3 DEF Guarded, PlaceIsAllowed
<1>5. RoutesMatch
  BY <1>1, <1>3 DEF RoutesMatch, PlaceIsAllowed, RoutesOf
<1>6. TabsMine
  BY <1>1, <1>3 DEF TabsMine, TabsOwned, OwnTabs
<1>7. ActiveIsShown
  BY <1>1, <1>2 DEF ActiveIsShown, ActiveIsPlace
<1> QED
  BY <1>4, <1>5, <1>6, <1>7

(* Whatever sessions end and begin while views load: the view that stays,  *)
(* the registered views and the tabs belong to the user who is logged in.  *)
THEOREM NavigationInvariance == Spec => []PlaceAllowed
<1>1. NavigationInv => PlaceAllowed
  BY QuietIs DEF PlaceAllowed
<1> QED
  BY <1>1, InitInv, NextInv, PTL DEF Spec

(* A view is on screen only for a user who may see it (router guard).      *)
THEOREM ViewIsGuarded == Spec => []Guarded
<1>1. PlaceAllowed => Guarded
  BY DEF PlaceAllowed
<1> QED
  BY <1>1, NavigationInvariance, PTL

(* The tabs are the user's own, or fixed (checkTabClear, tab store).       *)
THEOREM TabsAreOwn == Spec => []TabsMine
<1>1. PlaceAllowed => TabsMine
  BY DEF PlaceAllowed
<1> QED
  BY <1>1, NavigationInvariance, PTL

-----------------------------------------------------------------------------
(* The list views                                                            *)

LEMMA ListStarts == ListInit => ListInv
<1> SUFFICES ASSUME ListInit PROVE ListInv
  OBVIOUS
<1>1. 1 \in Queries /\ Queries \subseteq Nat /\ 0..0 \subseteq 0..MaxFails /\ 0 \in 0..MaxFails
      /\ 0 \in 0..MaxSends /\ 1 \in 0..MaxSends /\ 1 \in 1..MaxSends
  BY ViewsAssumption
<1>2. ListTypeOK
  <2>1. asked \subseteq Request
    BY <1>1 DEF ListInit, Request
  <2>2. sent \in [count : 0..MaxSends, query : Queries \cup {0}]
    BY <1>1 DEF ListInit
  <2>3. marks \in [fails : 0..MaxFails, newest : 0..MaxSends, overtaken : BOOLEAN]
    BY <1>1 DEF ListInit
  <2> QED
    BY <1>1, <2>1, <2>2, <2>3 DEF ListInit, ListTypeOK
<1>3. CASE view = "search"
  BY <1>2, <1>3 DEF ListInit, ListInv, NewestIsKnown, ListOfControl, PageOfRows, SpinnerWaits, NoRows
<1>4. CASE view # "search"
  <2>1. asked = {[query |-> 1, at |-> 1]}
    BY <1>4, Zenon DEF ListInit
  <2>4. sent = [count |-> 1, query |-> 1]
    BY <1>4, Zenon DEF ListInit
  <2>2. \A r \in asked : r.at = 1 /\ r.query = 1
    BY <2>1
  <2>5. query = 1
    BY Zenon DEF ListInit
  <2>3. asked # {} /\ sent.count = 1 /\ sent.query = 1 /\ query = 1
    BY <2>1, <2>4, <2>5
  <2> QED
    BY <1>2, <2>2, <2>3 DEF ListInv, NewestIsKnown, ListOfControl, PageOfRows, SpinnerWaits
<1> QED
  BY <1>3, <1>4

(* A request is sent: it is the newest.                                      *)
LEMMA SendIs ==
  ASSUME ListInv, NEW q \in Queries, Sends(q)
  PROVE  /\ \E r \in asked' : r \in Request /\ r.query = q /\ r.at = sent'.count /\ asked' = asked \cup {r}
         /\ sent' \in [count : 0..MaxSends, query : Queries \cup {0}] /\ sent'.query = q
         /\ \A s \in asked : s.at < sent'.count
         /\ spin' = TRUE
<1>1. /\ asked \subseteq Request /\ sent \in [count : 0..MaxSends, query : Queries \cup {0}]
      /\ \A s \in asked : s.at <= sent.count
  BY DEF ListInv, ListTypeOK, NewestIsKnown
<1>2. /\ sent.count \in Nat /\ sent.count + 1 \in 1..MaxSends /\ sent.count + 1 \in 0..MaxSends
      /\ \A s \in asked : s.at \in Nat
  BY <1>1, ViewsAssumption DEF Sends, Request
<1>3. /\ sent' = [count |-> sent.count + 1, query |-> q] /\ spin' = TRUE
      /\ asked' = asked \cup {[query |-> q, at |-> sent.count + 1]}
  BY DEF Sends
<1>4. sent'.count = sent.count + 1 /\ sent'.query = q
      /\ sent' \in [count : 0..MaxSends, query : Queries \cup {0}]
  BY <1>2, <1>3
<1>5. \A s \in asked : s.at < sent'.count
  BY <1>1, <1>2, <1>4
<1>6. [query |-> q, at |-> sent.count + 1] \in Request
  BY <1>2 DEF Request
<1> QED
  BY <1>3, <1>4, <1>5, <1>6

(* The control was moved, or the list is asked for again.                    *)
LEMMA ListAsked ==
  ASSUME ListInv, NEW q \in Queries, Sends(q), query' = q, UNCHANGED <<view, rows, marks>>,
         label' \in Queries
  PROVE  ListInv'
<1>1. ListTypeOK /\ \A r \in asked : r.at <= sent.count
  BY DEF ListInv, NewestIsKnown
<1>2. PICK r \in asked' : r \in Request /\ r.query = q /\ r.at = sent'.count /\ asked' = asked \cup {r}
  BY SendIs
<1>3. /\ sent' \in [count : 0..MaxSends, query : Queries \cup {0}] /\ sent'.query = q
      /\ \A s \in asked : s.at < sent'.count
      /\ spin' = TRUE
  BY SendIs
<1>4. ListTypeOK'
  BY <1>1, <1>2, <1>3 DEF ListTypeOK
<1>5. \A s \in asked' : s.at <= sent'.count /\ (s.at = sent'.count => s.query = sent'.query)
  <2>1. sent'.count \in Nat /\ \A s \in asked' : s.at \in Nat
    BY <1>3, <1>4, ViewsAssumption DEF ListTypeOK, Request
  <2> QED
    BY <1>2, <1>3, <2>1
<1>6. NewestIsKnown' /\ asked' # {}
  BY <1>2, <1>3, <1>5 DEF NewestIsKnown
<1> QED
  BY <1>4, <1>6 DEF ListInv, ListOfControl, PageOfRows, SpinnerWaits

LEMMA ChooseKeeps == ASSUME ListInv, NEW q \in Queries, Choose(q) PROVE ListInv'
<1>1. CASE view = "search"
  BY <1>1 DEF ListInv, ListTypeOK, NewestIsKnown, ListOfControl, PageOfRows, SpinnerWaits, Choose
<1>2. CASE view # "search"
  <2>1. label' \in Queries /\ Sends(q) /\ query' = q /\ UNCHANGED <<view, rows, marks>>
    BY <1>2 DEF ListInv, ListTypeOK, Choose
  <2> QED
    BY <2>1, ListAsked
<1> QED
  BY <1>1, <1>2

LEMMA RefreshKeeps == ListInv /\ Refresh => ListInv'
<1> SUFFICES ASSUME ListInv, Refresh PROVE ListInv'
  OBVIOUS
<1>1. query \in Queries /\ label' \in Queries /\ Sends(query) /\ query' = query /\ UNCHANGED <<view, rows, marks>>
  BY DEF ListInv, ListTypeOK, Refresh
<1> QED
  BY <1>1, ListAsked

LEMMA ResetKeeps == ListInv /\ Reset => ListInv'
<1> SUFFICES ASSUME ListInv, Reset PROVE ListInv'
  OBVIOUS
<1>1. ListTypeOK /\ NewestIsKnown /\ ListOfControl /\ PageOfRows /\ SpinnerWaits
  BY DEF ListInv
<1>2. marks' \in [fails : 0..MaxFails, newest : 0..MaxSends, overtaken : BOOLEAN]
      /\ marks'.overtaken = (marks.overtaken \/ asked # {}) /\ marks'.fails = marks.fails
  BY <1>1 DEF ListTypeOK, Reset
<1>3. /\ view = "search" /\ query' = 1 /\ rows' = NoRows /\ UNCHANGED <<view, label, asked, spin, sent>>
  BY DEF Reset
<1>4. ListTypeOK'
  BY <1>1, <1>2, <1>3, ViewsAssumption DEF ListTypeOK
<1>5. NewestIsKnown'
  BY <1>1, <1>2, <1>3 DEF NewestIsKnown
<1> QED
  BY <1>1, <1>3, <1>4, <1>5 DEF ListInv, ListOfControl, PageOfRows, SpinnerWaits, NoRows

LEMMA FailsKeeps == ASSUME ListInv, NEW r \in asked, Fails(r) PROVE ListInv'
<1>1. ListTypeOK /\ NewestIsKnown
  BY DEF ListInv
<1>2. marks' \in [fails : 0..MaxFails, newest : 0..MaxSends, overtaken : BOOLEAN] /\ marks'.fails # 0
  BY <1>1, ViewsAssumption DEF ListTypeOK, Fails
<1>3. /\ asked' \subseteq asked /\ UNCHANGED <<view, query, sent>> /\ spin' = FALSE
      /\ rows' \in {NoRows, rows} /\ label' \in {1, label}
      /\ view = "users" => rows' = NoRows
  BY DEF Fails
<1>4. ListTypeOK'
  BY <1>1, <1>2, <1>3, ViewsAssumption DEF ListTypeOK
<1>5. NewestIsKnown'
  BY <1>1, <1>2, <1>3 DEF NewestIsKnown
<1> QED
  BY <1>2, <1>3, <1>4, <1>5 DEF ListInv, ListOfControl, PageOfRows, SpinnerWaits

LEMMA ArrivesKeeps == ASSUME ListInv, NEW r \in asked, Arrives(r) PROVE ListInv'
<1>1. ListTypeOK /\ NewestIsKnown
  BY DEF ListInv
<1>2. /\ r \in Request /\ r.at \in 1..MaxSends /\ r.query \in Queries
      /\ sent.count \in Nat /\ marks.newest \in 0..MaxSends
  BY <1>1, ViewsAssumption DEF ListTypeOK, Request
<1>3. /\ marks' \in [fails : 0..MaxFails, newest : 0..MaxSends, overtaken : BOOLEAN]
      /\ marks'.newest = (IF marks.newest > r.at THEN marks.newest ELSE r.at)
      /\ marks'.overtaken = (marks.overtaken \/ marks.newest > r.at) /\ marks'.fails = marks.fails
  <2>1. /\ marks \in [fails : 0..MaxFails, newest : 0..MaxSends, overtaken : BOOLEAN]
        /\ r.at \in 0..MaxSends /\ (marks.newest > r.at) \in BOOLEAN
    BY <1>1, <1>2, ViewsAssumption DEF ListTypeOK
  <2>2. marks' = [marks EXCEPT !.newest = IF @ > r.at THEN @ ELSE r.at,
                               !.overtaken = @ \/ marks.newest > r.at]
    BY DEF Arrives
  <2> QED
    BY <2>1, <2>2
<1>4. /\ asked' = asked \ {r} /\ UNCHANGED <<view, query, sent>> /\ spin' = FALSE
      /\ rows' = r /\ label' \in {r.query, label} /\ (view = "users" => label' = r.query)
  BY DEF Arrives
<1>5. ListTypeOK'
  BY <1>1, <1>2, <1>3, <1>4 DEF ListTypeOK
<1>6. r.at <= sent.count /\ (r.at = sent.count => r.query = sent.query)
  BY <1>1 DEF NewestIsKnown
<1>7. ASSUME ~marks'.overtaken, marks'.fails = 0
      PROVE  \/ \E s \in asked' : s.at = sent'.count
             \/ rows'.query = sent'.query /\ marks'.newest = sent'.count
  <2>1. ~(marks.newest > r.at) /\ ~marks.overtaken /\ marks.fails = 0
    BY <1>3, <1>7
  <2>2. marks'.newest = r.at
    BY <1>3, <2>1
  <2>3. CASE r.at = sent.count
    BY <1>4, <1>6, <2>2, <2>3
  <2>4. CASE r.at # sent.count
    <3>1. r.at < sent.count /\ asked # {}
      BY <1>2, <1>6, <2>4
    <3>2. PICK s \in asked : s.at = sent.count
      BY <1>1, <1>2, <2>1, <3>1, ViewsAssumption DEF NewestIsKnown
    <3> QED
      BY <1>4, <2>4, <3>2
  <2> QED
    BY <2>3, <2>4
<1>8. NewestIsKnown'
  BY <1>1, <1>4, <1>7 DEF NewestIsKnown
<1>9. ListOfControl'
  BY <1>8 DEF NewestIsKnown, ListOfControl, NoRows
<1>10. PageOfRows' /\ SpinnerWaits'
  BY <1>4 DEF PageOfRows, SpinnerWaits
<1> QED
  BY <1>5, <1>8, <1>9, <1>10 DEF ListInv

(* The views that show a list chosen by one control (hooks/common/table.ts   *)
(* and its views): with every answer in, none overtaken or failed, it is     *)
(* of the control's value, the page number agrees with the rows, and a       *)
(* spinner waits for an answer, for every number of requests and values.     *)
THEOREM ListsOfControls == ListSpec => []ListInv
<1>1. ListInv /\ [ListNext]_listVars => ListInv'
  <2> SUFFICES ASSUME ListInv, [ListNext]_listVars PROVE ListInv'
    OBVIOUS
  <2>1. CASE UNCHANGED listVars
    BY <2>1 DEF listVars, ListInv, ListTypeOK, NewestIsKnown, ListOfControl, PageOfRows, SpinnerWaits
  <2>2. CASE ListNext
    BY <2>2, ChooseKeeps, RefreshKeeps, ResetKeeps, ArrivesKeeps, FailsKeeps DEF ListNext
  <2> QED
    BY <2>1, <2>2
<1> QED
  BY <1>1, ListStarts, PTL DEF ListSpec

-----------------------------------------------------------------------------
(* Requests and error messages                                               *)

LEMMA RequestBounds == MaxRequests \in Nat /\ MaxOnScreen \in Nat /\ NoId \notin RequestIds
BY RequestsAssumption

LEMMA RequestsStart == RequestInit => RequestInv
<1> SUFFICES ASSUME RequestInit PROVE RequestInv
  OBVIOUS
<1>1. net = <<>> /\ messages = <<>> /\ DOMAIN net = {} /\ DOMAIN messages = {}
  BY DEF RequestInit
<1>2. RequestTypeOK
  <2>1. /\ net \in Seq(SentRequest)
        /\ messages \in Seq(Causes) /\ Len(net) = 0 /\ Len(messages) = 0
    BY <1>1, EmptySeq
  <2>2. /\ 0 <= MaxRequests /\ 0 <= MaxOnScreen /\ 0 \in 0..MaxOnScreen
        /\ controllers \in [RequestIds \cup {NoId} -> 0..MaxRequests]
    BY RequestBounds DEF RequestInit
  <2> QED
    BY <2>1, <2>2 DEF RequestInit, RequestTypeOK
<1>3. KeysAgree /\ CancelReaches /\ MessagesKnown /\ ErrorsSeen /\ MessagesOnce
  BY <1>1 DEF RequestInit, KeysAgree, CancelReaches, MessagesKnown, ErrorsSeen, MessagesOnce, TextsOf
<1> QED
  BY <1>2, <1>3 DEF RequestInv

(* What a step that leaves the messages alone has to show, and one that      *)
(* leaves the requests alone.                                                *)
MessagesOK == MessagesKnown /\ ErrorsSeen /\ MessagesOnce /\ errMsgStack \subseteq Causes /\ accidents \subseteq Causes
              /\ messages \in Seq(Causes) /\ Len(messages) <= MaxOnScreen /\ clears \in 0..MaxOnScreen
NetOK == /\ net \in Seq(SentRequest)
         /\ Len(net) <= MaxRequests /\ controllers \in [RequestIds \cup {NoId} -> 0..MaxRequests]
         /\ KeysAgree /\ CancelReaches

LEMMA TwoParts == RequestInv => MessagesOK /\ NetOK
BY DEF RequestInv, RequestTypeOK, MessagesOK, NetOK

LEMMA PartsJoin == MessagesOK' /\ NetOK' => RequestInv'
BY DEF RequestInv, RequestTypeOK, MessagesOK, NetOK

LEMMA MessagesStay == MessagesOK /\ UNCHANGED <<errMsgStack, messages, clears, accidents>> => MessagesOK'
BY DEF MessagesOK, MessagesKnown, ErrorsSeen, MessagesOnce, TextsOf

LEMMA NetStays == NetOK /\ UNCHANGED <<net, controllers>> => NetOK'
BY DEF NetOK, KeysAgree, CancelReaches

(* The fields of a request that was sent.                                    *)
LEMMA SentFields ==
  ASSUME NetOK, NEW i \in DOMAIN net
  PROVE  net[i] \in SentRequest /\ net[i].id \in RequestIds \cup {NoId}
<1>1. net[i] \in SentRequest
  BY SeqIs DEF NetOK
<1> QED
  BY <1>1 DEF SentRequest

LEMMA SendKeeps == ASSUME RequestInv, NEW id \in RequestIds \cup {NoId}, SendRequest(id) PROVE RequestInv'
<1>1. MessagesOK'
  BY TwoParts, MessagesStay DEF SendRequest
<1> DEFINE r == [id |-> id, st |-> "sent"]
<1>2. NetOK
  BY TwoParts
<1>11. r.id = id /\ r.st = "sent"
  OBVIOUS
<1>3. /\ net \in Seq(SentRequest) /\ r \in SentRequest /\ Len(net) < MaxRequests
      /\ net' = Append(net, r) /\ controllers' = [controllers EXCEPT ![id] = Len(net) + 1]
      /\ id # NoId => \A i \in DOMAIN net : net[i].id # id
  BY <1>2 DEF NetOK, SendRequest, ControllerKey, SentRequest
<1> HIDE DEF r
<1>4. /\ net' \in Seq(SentRequest) /\ Len(net') = Len(net) + 1 /\ net'[Len(net) + 1] = r
      /\ \A i \in 1..Len(net) : net'[i] = net[i]
      /\ DOMAIN net = 1..Len(net) /\ DOMAIN net' = 1..(Len(net) + 1) /\ Len(net) \in Nat
  <2>1. DOMAIN net = 1..Len(net) /\ Len(net) \in Nat
    BY <1>3, SeqIs
  <2>2. /\ net' \in Seq(SentRequest) /\ Len(net') = Len(net) + 1 /\ net'[Len(net) + 1] = r
        /\ DOMAIN net' = DOMAIN net \cup {Len(net) + 1}
        /\ \A i \in DOMAIN net : net'[i] = net[i]
    BY <1>3, Appended
  <2> QED
    BY <2>1, <2>2
<1>5. Len(net') <= MaxRequests /\ Len(net) + 1 \in 0..MaxRequests
  BY <1>3, <1>4, RequestBounds
<1>6. controllers' \in [RequestIds \cup {NoId} -> 0..MaxRequests]
  BY <1>2, <1>3, <1>5 DEF NetOK
<1>7. \A i, k \in DOMAIN net' : net'[i].id = net'[k].id /\ i # k => net'[i].id = NoId
  <2> SUFFICES ASSUME NEW i \in DOMAIN net', NEW k \in DOMAIN net', net'[i].id = net'[k].id, i # k
               PROVE  net'[i].id = NoId
    OBVIOUS
  <2>1. CASE i \in DOMAIN net /\ k \in DOMAIN net
    BY <1>2, <1>4, <2>1 DEF NetOK, KeysAgree
  <2>2. CASE i = Len(net) + 1
    BY <1>3, <1>4, <1>11, <2>2
  <2>3. CASE k = Len(net) + 1
    BY <1>3, <1>4, <1>11, <2>3
  <2> QED
    BY <1>4, <2>1, <2>2, <2>3
<1>8. \A c \in RequestIds : controllers'[c] # 0 =>
        controllers'[c] \in DOMAIN net' /\ net'[controllers'[c]].id = c
  <2> SUFFICES ASSUME NEW c \in RequestIds, controllers'[c] # 0
               PROVE  controllers'[c] \in DOMAIN net' /\ net'[controllers'[c]].id = c
    OBVIOUS
  <2>1. CASE c = id
    <3>1. controllers'[id] = Len(net) + 1
      BY <1>2, <1>3 DEF NetOK
    <3> QED
      BY <1>4, <1>11, <2>1, <3>1
  <2>2. CASE c # id
    <3>1. controllers'[c] = controllers[c]
      BY <1>2, <1>3, <2>2 DEF NetOK
    <3>2. controllers[c] \in DOMAIN net /\ net[controllers[c]].id = c
      BY <1>2, <3>1 DEF NetOK, KeysAgree
    <3> QED
      BY <1>4, <3>1, <3>2
  <2> QED
    BY <2>1, <2>2
<1>9. CancelReaches'
  <2> SUFFICES ASSUME NEW i \in DOMAIN net', net'[i].id # NoId, net'[i].st = "sent"
               PROVE  controllers'[net'[i].id] = i
    BY DEF CancelReaches
  <2>1. CASE i \in DOMAIN net
    <3>2. net'[i] = net[i] /\ net[i].id \in RequestIds \cup {NoId}
      BY <1>2, <1>4, <2>1, SentFields
    <3>1. net[i].id # id /\ controllers[net[i].id] = i
      BY <1>2, <1>3, <2>1, <3>2 DEF NetOK, CancelReaches
    <3> QED
      BY <1>2, <1>3, <3>1, <3>2 DEF NetOK
  <2>2. CASE i = Len(net) + 1
    <3>1. controllers'[id] = Len(net) + 1
      BY <1>2, <1>3 DEF NetOK
    <3> QED
      BY <1>4, <1>11, <2>2, <3>1
  <2> QED
    BY <1>4, <2>1, <2>2
<1>10. NetOK'
  BY <1>4, <1>5, <1>6, <1>7, <1>8, <1>9 DEF NetOK, KeysAgree
<1> QED
  BY <1>1, <1>10, PartsJoin

(* A request that was sent has ended.                                        *)
LEMMA EndedKeeps ==
  ASSUME NetOK, NEW i \in DOMAIN net, NEW st \in {"answered", "failed", "cancelled"},
         net' = [net EXCEPT ![i].st = st],
         \/ controllers' = controllers
         \/ \E id \in RequestIds : controllers[id] = i /\ controllers' = [controllers EXCEPT ![id] = 0]
  PROVE  NetOK'
<1>1. /\ net \in Seq(SentRequest) /\ DOMAIN net = 1..Len(net) /\ Len(net) \in Nat /\ net[i] \in SentRequest
      /\ \A k \in DOMAIN net : net[k].id \in RequestIds \cup {NoId}
  BY SeqIs, SentFields DEF NetOK
<1>2. [net[i] EXCEPT !.st = st] \in SentRequest /\ [net[i] EXCEPT !.st = st].id = net[i].id
      /\ [net[i] EXCEPT !.st = st].st = st
  BY <1>1 DEF SentRequest
<1>3. /\ DOMAIN net' = DOMAIN net /\ net' \in Seq(SentRequest) /\ Len(net') = Len(net)
      /\ \A k \in DOMAIN net : net'[k].id = net[k].id
      /\ \A k \in DOMAIN net : k # i => net'[k] = net[k]
      /\ net'[i].st = st
  <2> DEFINE e == [net[i] EXCEPT !.st = st]
  <2>1. net' = [net EXCEPT ![i] = e]
    OBVIOUS
  <2>2. e \in SentRequest /\ e.id = net[i].id /\ e.st = st
    BY <1>2
  <2> HIDE DEF e
  <2>3. /\ net' \in Seq(SentRequest) /\ Len(net') = Len(net)
        /\ \A k \in 1..Len(net) : net'[k] = IF k = i THEN e ELSE net[k]
    BY <1>1, <2>1, <2>2, ExceptSeq
  <2>4. DOMAIN net' = DOMAIN net
    BY <2>1
  <2> QED
    BY <1>1, <2>2, <2>3, <2>4
<1>4. /\ controllers' \in [RequestIds \cup {NoId} -> 0..MaxRequests]
      /\ \A c \in RequestIds : controllers'[c] \in {0, controllers[c]}
      /\ \A c \in RequestIds : controllers[c] # i => controllers'[c] = controllers[c]
  BY RequestBounds DEF NetOK
<1>5. KeysAgree'
  BY <1>3, <1>4 DEF NetOK, KeysAgree
<1>6. CancelReaches'
  <2> SUFFICES ASSUME NEW k \in DOMAIN net', net'[k].id # NoId, net'[k].st = "sent"
               PROVE  controllers'[net'[k].id] = k
    BY DEF CancelReaches
  <2>1. k # i
    BY <1>3
  <2>3. k \in DOMAIN net /\ net'[k] = net[k] /\ net[k].id \in RequestIds
    BY <1>1, <1>3, <2>1
  <2>2. controllers[net[k].id] = k
    BY <2>3 DEF NetOK, CancelReaches
  <2> QED
    BY <1>4, <2>1, <2>2, <2>3
<1> QED
  BY <1>3, <1>4, <1>5, <1>6 DEF NetOK

LEMMA AnsweredKeeps == ASSUME RequestInv, NEW i \in DOMAIN net, RequestAnswered(i) PROVE RequestInv'
<1>1. MessagesOK'
  BY TwoParts, MessagesStay DEF RequestAnswered
<1>2. NetOK'
  BY TwoParts, EndedKeeps DEF RequestAnswered
<1> QED
  BY <1>1, <1>2, PartsJoin

LEMMA CancelKeeps == ASSUME RequestInv, NEW id \in RequestIds, CancelRequest(id) PROVE RequestInv'
<1> DEFINE i == controllers[id]
<1>1. MessagesOK'
  BY TwoParts, MessagesStay DEF CancelRequest
<1>2. NetOK /\ i # 0 /\ i \in DOMAIN net /\ controllers' = [controllers EXCEPT ![id] = 0]
      /\ net' = IF net[i].st = "sent" THEN [net EXCEPT ![i].st = "cancelled"] ELSE net
  BY TwoParts DEF CancelRequest, NetOK, KeysAgree
<1>3. CASE net[i].st = "sent"
  <2>1. NetOK'
    BY <1>2, <1>3, EndedKeeps
  <2> QED
    BY <1>1, <2>1, PartsJoin
<1>4. CASE net[i].st # "sent"
  <2>1. /\ net' = net /\ controllers' \in [RequestIds \cup {NoId} -> 0..MaxRequests]
        /\ \A c \in RequestIds : controllers'[c] \in {0, controllers[c]}
        /\ \A c \in RequestIds : controllers[c] # i => controllers'[c] = controllers[c]
    BY <1>2, <1>4, RequestBounds DEF NetOK
  <2>2. KeysAgree'
    BY <1>2, <2>1 DEF NetOK, KeysAgree
  <2>3. CancelReaches'
    <3> SUFFICES ASSUME NEW k \in DOMAIN net, net[k].id # NoId, net[k].st = "sent"
                 PROVE  controllers'[net[k].id] = k
      BY <2>1 DEF CancelReaches
    <3>1. k # i /\ controllers[net[k].id] = k
      BY <1>2, <1>4 DEF NetOK, CancelReaches
    <3>2. net[k].id \in RequestIds
      BY <1>2, SentFields
    <3> QED
      BY <2>1, <3>1, <3>2
  <2>4. NetOK'
    BY <1>2, <2>1, <2>2, <2>3 DEF NetOK
  <2> QED
    BY <1>1, <2>4, PartsJoin
<1> QED
  BY <1>3, <1>4

LEMMA ShowKeeps ==
  ASSUME MessagesOK, NEW text \in Causes, ShowErrorMsg(text), UNCHANGED <<clears, accidents>>
  PROVE  MessagesOK'
<1>1. CASE text \in errMsgStack
  <2>1. UNCHANGED <<errMsgStack, messages, clears, accidents>>
    BY <1>1 DEF ShowErrorMsg, ErrorShown
  <2> QED
    BY <2>1, MessagesStay
<1>2. CASE text \notin errMsgStack
  <2>1. /\ errMsgStack' = errMsgStack \cup {text} /\ messages' = Append(messages, text)
        /\ Len(messages) < MaxOnScreen /\ messages \in Seq(Causes)
    BY <1>2 DEF ShowErrorMsg, ErrorShown, MessagesOK
  <2>2. /\ messages' \in Seq(Causes) /\ Len(messages') = Len(messages) + 1 /\ messages'[Len(messages) + 1] = text
        /\ \A k \in 1..Len(messages) : messages'[k] = messages[k]
        /\ DOMAIN messages = 1..Len(messages) /\ DOMAIN messages' = 1..(Len(messages) + 1)
        /\ Len(messages) \in Nat
    BY <2>1
  <2>3. Len(messages') <= MaxOnScreen
    BY <2>1, <2>2, RequestBounds
  <2>4. TextsOf(messages') = TextsOf(messages) \cup {text}
    <3>1. \A t \in TextsOf(messages') : t \in TextsOf(messages) \cup {text}
      BY <2>2 DEF TextsOf
    <3>2. \A t \in TextsOf(messages) \cup {text} : t \in TextsOf(messages')
      <4>1. Len(messages) + 1 \in DOMAIN messages'
        BY <2>2
      <4>2. \A k \in DOMAIN messages : k \in DOMAIN messages' /\ messages'[k] = messages[k]
        BY <2>2
      <4> QED
        BY <2>2, <4>1, <4>2 DEF TextsOf
    <3> QED
      BY <3>1, <3>2
  <2>5. MessagesOnce'
    <3> SUFFICES ASSUME NEW j \in DOMAIN messages', NEW k \in DOMAIN messages',
                        messages'[j] = messages'[k], j # k
                 PROVE  messages'[j] \in accidents'
      BY DEF MessagesOnce
    <3>1. CASE j \in DOMAIN messages /\ k \in DOMAIN messages
      BY <2>2, <3>1 DEF MessagesOK, MessagesOnce
    <3>2. CASE j \notin DOMAIN messages \/ k \notin DOMAIN messages
      <4>1. messages'[j] = text /\ text \in TextsOf(messages)
        BY <2>2, <3>2 DEF TextsOf
      <4> QED
        BY <1>2, <4>1 DEF MessagesOK, MessagesKnown
    <3> QED
      BY <3>1, <3>2
  <2>6. MessagesKnown' /\ ErrorsSeen'
    BY <2>1, <2>4 DEF MessagesOK, MessagesKnown, ErrorsSeen
  <2>7. errMsgStack' \subseteq Causes /\ accidents' \subseteq Causes /\ clears' \in 0..MaxOnScreen
    BY <2>1 DEF MessagesOK
  <2> QED
    BY <2>2, <2>3, <2>5, <2>6, <2>7 DEF MessagesOK
<1> QED
  BY <1>1, <1>2

LEMMA RequestFailsKeeps ==
  ASSUME RequestInv, NEW i \in DOMAIN net, NEW t \in Causes, RequestFails(i, t) PROVE RequestInv'
<1>1. MessagesOK /\ NetOK
  BY TwoParts
<1>2. MessagesOK'
  BY <1>1, ShowKeeps DEF RequestFails
<1>3. NetOK'
  BY <1>1, EndedKeeps DEF RequestFails
<1> QED
  BY <1>2, <1>3, PartsJoin

LEMMA LeavesKeeps == ASSUME RequestInv, NEW k \in DOMAIN messages, MessageLeaves(k) PROVE RequestInv'
<1> DEFINE at(j) == IF j < k THEN j ELSE j + 1
<1>1. MessagesOK /\ NetOK /\ messages \in Seq(Causes) /\ Len(messages) <= MaxOnScreen
  BY TwoParts DEF MessagesOK
<1>2. /\ errMsgStack' = errMsgStack \ {messages[k]} /\ accidents' = accidents
      /\ messages' = SubSeq(messages, 1, k - 1) \o SubSeq(messages, k + 1, Len(messages))
      /\ clears' = IF clears < MaxOnScreen THEN clears + 1 ELSE clears
  BY DEF MessageLeaves, LeftOf
<1>3. messages' \in Seq(Causes) /\ Len(messages') = Len(messages) - 1
      /\ \A j \in DOMAIN messages' : messages'[j] = messages[at(j)]
  BY <1>1, <1>2, Removed, SeqIs DEF Without
<1>4. /\ \A j \in DOMAIN messages' : at(j) \in DOMAIN messages /\ at(j) # k
      /\ \A i, j \in DOMAIN messages' : i # j => at(i) # at(j)
      /\ \A i \in DOMAIN messages : i # k => \E j \in DOMAIN messages' : at(j) = i
  <2>1. DOMAIN messages = 1..Len(messages) /\ Len(messages) \in Nat /\ k \in 1..Len(messages)
        /\ DOMAIN messages' = 1..(Len(messages) - 1)
    BY <1>1, <1>3
  <2>2. ASSUME NEW i \in DOMAIN messages, i # k PROVE \E j \in DOMAIN messages' : at(j) = i
    <3>1. CASE i < k
      BY <2>1, <3>1
    <3>2. CASE i > k
      <4>1. i - 1 \in DOMAIN messages' /\ at(i - 1) = i
        BY <2>1, <3>2
      <4> QED
        BY <4>1
    <3> QED
      BY <2>1, <2>2, <3>1, <3>2
  <2>3. \A j \in DOMAIN messages' : at(j) \in DOMAIN messages /\ at(j) # k
    BY <2>1
  <2>4. \A i, j \in DOMAIN messages' : i # j => at(i) # at(j)
    BY <2>1
  <2> QED
    BY <2>2, <2>3, <2>4
<1> HIDE DEF at
<1>5. MessagesOnce'
  <2> SUFFICES ASSUME NEW i \in DOMAIN messages', NEW j \in DOMAIN messages',
                      messages'[i] = messages'[j], i # j
               PROVE  messages'[i] \in accidents'
    BY DEF MessagesOnce
  <2>1. at(i) \in DOMAIN messages /\ at(j) \in DOMAIN messages /\ at(i) # at(j)
    BY <1>4
  <2>2. messages'[i] = messages[at(i)] /\ messages'[j] = messages[at(j)]
    BY <1>3
  <2> QED
    BY <1>1, <1>2, <2>1, <2>2 DEF MessagesOK, MessagesOnce
<1>6. MessagesKnown'
  <2> SUFFICES ASSUME NEW j \in DOMAIN messages' PROVE messages'[j] \in errMsgStack' \cup accidents'
    BY DEF MessagesKnown, TextsOf
  <2>1. at(j) \in DOMAIN messages /\ at(j) # k /\ messages'[j] = messages[at(j)]
    BY <1>3, <1>4
  <2>2. messages[at(j)] \in errMsgStack \cup accidents
    BY <1>1, <2>1 DEF MessagesOK, MessagesKnown, TextsOf
  <2>3. messages[at(j)] = messages[k] => messages[at(j)] \in accidents
    BY <1>1, <2>1 DEF MessagesOK, MessagesOnce
  <2> QED
    BY <1>2, <2>1, <2>2, <2>3
<1>7. ErrorsSeen'
  <2> SUFFICES ASSUME NEW t \in errMsgStack' PROVE \E j \in DOMAIN messages' : messages'[j] = t
    BY DEF ErrorsSeen, TextsOf
  <2>1. PICK i \in DOMAIN messages : messages[i] = t
    BY <1>1, <1>2 DEF MessagesOK, ErrorsSeen, TextsOf
  <2>2. i # k
    BY <1>2, <2>1
  <2> QED
    BY <1>3, <1>4, <2>1, <2>2
<1>8. errMsgStack' \subseteq Causes /\ accidents' \subseteq Causes /\ clears' \in 0..MaxOnScreen
  BY <1>1, <1>2, RequestBounds DEF MessagesOK
<1>9. Len(messages') <= MaxOnScreen
  BY <1>1, <1>3, RequestBounds
<1>10. MessagesOK'
  BY <1>3, <1>5, <1>6, <1>7, <1>8, <1>9 DEF MessagesOK
<1>11. NetOK'
  BY <1>1, NetStays DEF MessageLeaves
<1> QED
  BY <1>10, <1>11, PartsJoin

LEMMA ClearKeeps == RequestInv /\ ClearStack => RequestInv'
<1> SUFFICES ASSUME RequestInv, ClearStack PROVE RequestInv'
  OBVIOUS
<1>1. MessagesOK /\ NetOK
  BY TwoParts
<1>2. messages' = messages /\ errMsgStack' = {} /\ accidents' = accidents \cup errMsgStack
      /\ clears > 0 /\ clears' = clears - 1
  BY DEF ClearStack
<1>3. clears' \in 0..MaxOnScreen
  BY <1>1, <1>2, RequestBounds DEF MessagesOK
<1>4. MessagesOK'
  BY <1>1, <1>2, <1>3 DEF MessagesOK, MessagesKnown, ErrorsSeen, MessagesOnce, TextsOf
<1>5. NetOK'
  BY <1>1, NetStays DEF ClearStack
<1> QED
  BY <1>4, <1>5, PartsJoin

(* The request instance of the page (packages/axios, service/request):       *)
(* whatever is answered, fails or is cancelled in whatever order, a request  *)
(* with an id is under its controller while it is under way, no error is     *)
(* held back whose text is not on the screen, and no text is there twice but *)
(* by the timer that empties the stack.                                      *)
THEOREM ErrorsAreTold == RequestSpec => []RequestInv
<1>1. RequestInv /\ [RequestNext]_requestVars => RequestInv'
  <2> SUFFICES ASSUME RequestInv, [RequestNext]_requestVars PROVE RequestInv'
    OBVIOUS
  <2>1. CASE UNCHANGED requestVars
    <3>1. UNCHANGED <<net, controllers, errMsgStack, messages, clears, accidents>>
      BY <2>1 DEF requestVars
    <3> QED
      BY <3>1, TwoParts, MessagesStay, NetStays, PartsJoin
  <2>2. CASE RequestNext
    BY <2>2, SendKeeps, AnsweredKeeps, RequestFailsKeeps, CancelKeeps, LeavesKeeps, ClearKeeps DEF RequestNext
  <2> QED
    BY <2>1, <2>2
<1> QED
  BY <1>1, RequestsStart, PTL DEF RequestSpec

-----------------------------------------------------------------------------
(* The notice of a new build                                                 *)

LEMMA AtMostOne ==
  ASSUME NEW S, \A c, d \in S : c = d
  PROVE  Cardinality(S) <= 1
<1>1. CASE S = {}
  BY <1>1, FS_EmptySet
<1>2. CASE S # {}
  <2>1. PICK c \in S : S = {c}
    BY <1>2
  <2>2. Cardinality({c}) = 1
    BY FS_Singleton
  <2> QED
    BY <2>1, <2>2
<1> QED
  BY <1>1, <1>2

LEMMA NoticeStarts == NoticeInit => NoticeInv
<1> SUFFICES ASSUME NoticeInit PROVE NoticeInv
  OBVIOUS
<1>1. build \in 0..MaxBuilds /\ 0 \in 0..MaxChecks
  BY NoticeAssumption DEF NoticeInit
<1>4. bygones \in [made : 0..MaxChecks, slips : SUBSET {"crossed"}]
  BY <1>1 DEF NoticeInit
<1>5. /\ front \in BOOLEAN /\ ticking \in BOOLEAN /\ isShow \in BOOLEAN
      /\ notices \subseteq 1..MaxChecks /\ checking \subseteq 1..MaxChecks
  BY DEF NoticeInit
<1>2. NoticeTypeOK
  BY <1>1, <1>4, <1>5 DEF NoticeTypeOK
<1>3. CheckOrNotice
  BY DEF NoticeInit, CheckOrNotice
<1> QED
  BY <1>2, <1>3, AtMostOne DEF NoticeInv, OneNotice, CheckOrNotice, NoticeInit

(* OneNotice is CheckOrNotice for the notices alone.                         *)
LEMMA NoticeOnce == NoticeTypeOK' /\ CheckOrNotice' => NoticeInv'
<1> SUFFICES ASSUME NoticeTypeOK', CheckOrNotice', "crossed" \notin bygones'.slips
             PROVE  Cardinality(notices') <= 1
  BY DEF NoticeInv, OneNotice
<1>1. \A c, d \in notices' : c = d
  BY DEF CheckOrNotice
<1> QED
  BY <1>1, AtMostOne

(* A check that starts, of the interval or of coming to the front.           *)
LEMMA StartKeeps ==
  ASSUME NoticeInv, StartsCheck, build' = build, ticking' = ticking, isShow' = isShow,
         notices' = notices, front' \in BOOLEAN
  PROVE  NoticeInv'
<1>1. MaxChecks \in Nat
  BY NoticeAssumption
<1>2. CASE ~MayCheck
  <2>1. UNCHANGED <<checking, bygones>>
    BY <1>2 DEF StartsCheck
  <2> QED
    BY <2>1, NoticeOnce DEF NoticeInv, NoticeTypeOK, CheckOrNotice
<1>3. CASE MayCheck
  <2> DEFINE made == bygones.made
  <2>1. /\ checking' = checking \cup {made + 1} /\ ~isShow /\ made < MaxChecks
        /\ bygones' = [bygones EXCEPT !.made = made + 1,
                                      !.slips = @ \cup IF checking # {} THEN {"crossed"} ELSE {}]
    BY <1>3 DEF StartsCheck, MayCheck
  <2>2. /\ bygones \in [made : 0..MaxChecks, slips : SUBSET {"crossed"}]
        /\ checking \subseteq 1..MaxChecks
    BY DEF NoticeInv, NoticeTypeOK
  <2>3. made \in 0..MaxChecks /\ made + 1 \in 1..MaxChecks /\ made + 1 \in 0..MaxChecks
    BY <1>1, <2>1, <2>2
  <2> HIDE DEF made
  <2>4. bygones' \in [made : 0..MaxChecks, slips : SUBSET {"crossed"}]
        /\ (checking # {} => "crossed" \in bygones'.slips)
        /\ bygones.slips \subseteq bygones'.slips
    BY <2>1, <2>2, <2>3
  <2>5. NoticeTypeOK'
    BY <2>1, <2>2, <2>3, <2>4 DEF NoticeInv, NoticeTypeOK
  <2>6. CheckOrNotice'
    BY <2>1, <2>4 DEF NoticeInv, CheckOrNotice
  <2> QED
    BY <2>5, <2>6, NoticeOnce
<1> QED
  BY <1>2, <1>3

LEMMA AnswerKeeps == ASSUME NoticeInv, NEW c \in checking, CheckAnswers(c) PROVE NoticeInv'
<1>1. /\ checking' = checking \ {c} /\ bygones' = bygones /\ build' = build
      /\ front' = front /\ ticking' = ticking
      /\ \/ isShow' = isShow /\ notices' = notices
         \/ isShow' = TRUE /\ notices' = notices \cup {c}
  BY DEF CheckAnswers, Notified
<1>2. NoticeTypeOK'
  BY <1>1 DEF NoticeInv, NoticeTypeOK
<1>3. CheckOrNotice'
  BY <1>1 DEF NoticeInv, CheckOrNotice
<1> QED
  BY <1>2, <1>3, NoticeOnce

LEMMA DismissKeeps == ASSUME NoticeInv, NEW c \in notices, Dismiss(c) PROVE NoticeInv'
<1>1. NoticeTypeOK'
  BY DEF NoticeInv, NoticeTypeOK, Dismiss
<1>2. CheckOrNotice'
  BY DEF NoticeInv, CheckOrNotice, Dismiss
<1> QED
  BY <1>1, <1>2, NoticeOnce

(* The notice of a new build (plugins/app.ts): a check looks at isShow       *)
(* before its request and sets it after, and still there is one notice at a  *)
(* time while checks do not cross.                                           *)
THEOREM NoticesAreOne == NoticeSpec => []NoticeInv
<1>1. NoticeInv /\ [NoticeNext]_noticeVars => NoticeInv'
  <2> SUFFICES ASSUME NoticeInv, [NoticeNext]_noticeVars PROVE NoticeInv'
    OBVIOUS
  <2>1. CASE UNCHANGED noticeVars
    BY <2>1, NoticeOnce DEF noticeVars, NoticeInv, NoticeTypeOK, CheckOrNotice
  <2>2. CASE Deploy
    BY <2>2, NoticeOnce, NoticeAssumption DEF Deploy, NoticeInv, NoticeTypeOK, CheckOrNotice
  <2>3. CASE IntervalElapses
    BY <2>3, StartKeeps DEF IntervalElapses, NoticeInv, NoticeTypeOK
  <2>4. CASE ToFront
    <3>1. CASE ticking
      BY <2>4, <3>1, StartKeeps DEF ToFront
    <3>2. CASE ~ticking
      BY <2>4, <3>2, NoticeOnce DEF ToFront, NoticeInv, NoticeTypeOK, CheckOrNotice
    <3> QED
      BY <3>1, <3>2
  <2>5. CASE ToBack
    BY <2>5, NoticeOnce DEF ToBack, NoticeInv, NoticeTypeOK, CheckOrNotice
  <2> QED
    BY <2>1, <2>2, <2>3, <2>4, <2>5, AnswerKeeps, DismissKeeps DEF NoticeNext
<1> QED
  BY <1>1, NoticeStarts, PTL DEF NoticeSpec

-----------------------------------------------------------------------------
(* The forms of the administration                                           *)

FormRecord == [open : BOOLEAN, row : Rows \cup {New}, value : Mixed, keep : BOOLEAN, session : 0..MaxOpens]
FormLog == [typed : SUBSET (Rows \X Values), done : [0..MaxOpens -> Nat], submits : 0..MaxSubmits,
            lost : 0..MaxLost, slips : SUBSET {"twice", "retried", "defaulted"}]

LEMMA FormBounds == MaxOpens \in Nat /\ 1 \in 0..MaxOpens /\ MaxSubmits \in Nat /\ MaxLost \in Nat
BY FormsAssumption

(* DoneOnce is part of SentOnce.                                             *)
LEMMA FormParts ==
  FormTypeOK' /\ SentOnce' /\ SentForRow' /\ KeepsPrivate' /\ TypedForRow' /\ PrivateStays' => FormInv'
<1> SUFFICES ASSUME FormTypeOK', SentOnce' PROVE DoneOnce'
  BY DEF FormInv
<1>1. \A s \in 1..MaxOpens : s \in 0..MaxOpens
  BY FormBounds
<1> QED
  BY <1>1 DEF SentOnce, DoneOnce

LEMMA FormStarts == FormInit => FormInv
<1> SUFFICES ASSUME FormInit PROVE FormInv
  OBVIOUS
<1>1. form = Shut(0) /\ pending = {} /\ replies = {} /\ private = Rows /\ busy = FALSE
      /\ server = [r \in Rows |-> "old"] /\ what \in FormKinds
      /\ log = [typed |-> {}, done |-> [s \in 0..MaxOpens |-> 0], submits |-> 0, lost |-> 0, slips |-> {}]
  BY DEF FormInit
<1>2. 0 \in 0..MaxOpens /\ 0 \in 0..MaxSubmits /\ 0 \in 0..MaxLost
  BY FormBounds
<1>3. form \in FormRecord /\ form.open = FALSE
  BY <1>1, <1>2 DEF Shut, FormRecord, Mixed
<1>4. log \in FormLog
  <2>1. [s \in 0..MaxOpens |-> 0] \in [0..MaxOpens -> Nat]
    OBVIOUS
  <2> QED
    BY <1>1, <1>2, <2>1 DEF FormLog
<1>5. FormTypeOK
  BY <1>1, <1>3, <1>4 DEF FormTypeOK, FormRecord, FormLog, Mixed
<1>6. \A s \in 0..MaxOpens : log.done[s] = 0
  BY <1>1
<1>7. SentOnce /\ DoneOnce
  <2>1. \A s \in 1..MaxOpens : s \in 0..MaxOpens
    BY FormBounds
  <2> QED
    BY <1>1, <1>6, <2>1 DEF SentOnce, DoneOnce
<1>8. SentForRow /\ KeepsPrivate /\ TypedForRow /\ PrivateStays
  BY <1>1, <1>3 DEF SentForRow, KeepsPrivate, TypedForRow, PrivateStays
<1> QED
  BY <1>5, <1>7, <1>8 DEF FormInv

(* What FormInv says of the parts of the state.                              *)
LEMMA FormFields ==
  ASSUME FormInv
  PROVE  /\ form \in FormRecord /\ log \in FormLog
         /\ form.row \in Rows \cup {New} /\ form.value \in Mixed /\ form.session \in 0..MaxOpens
         /\ form.open \in BOOLEAN /\ form.keep \in BOOLEAN
         /\ server \in [Rows -> Mixed] /\ private = Rows
         /\ pending \subseteq Submission /\ replies \subseteq Submission
         /\ log.done \in [0..MaxOpens -> Nat] /\ log.typed \subseteq Rows \X Values
         /\ log.slips \subseteq {"twice", "retried", "defaulted"}
         /\ log.submits \in 0..MaxSubmits /\ log.lost \in 0..MaxLost
         /\ what \in FormKinds /\ busy \in BOOLEAN
<1>1. form \in FormRecord /\ log \in FormLog
  BY DEF FormInv, FormTypeOK, FormRecord, FormLog
<1>2. /\ form.row \in Rows \cup {New} /\ form.value \in Mixed /\ form.session \in 0..MaxOpens
      /\ form.open \in BOOLEAN /\ form.keep \in BOOLEAN
  BY <1>1 DEF FormRecord
<1>3. /\ log.done \in [0..MaxOpens -> Nat] /\ log.typed \subseteq Rows \X Values
      /\ log.slips \subseteq {"twice", "retried", "defaulted"}
      /\ log.submits \in 0..MaxSubmits /\ log.lost \in 0..MaxLost
  BY <1>1 DEF FormLog
<1> QED
  BY <1>1, <1>2, <1>3 DEF FormInv, FormTypeOK, PrivateStays

(* The types after a step, from those of what it changes.                    *)
LEMMA FormTypes ==
  ASSUME form' \in FormRecord, log' \in FormLog, server' \in [Rows -> Mixed], private' \subseteq Rows,
         pending' \subseteq Submission, replies' \subseteq Submission, busy' \in BOOLEAN, what' \in FormKinds
  PROVE  FormTypeOK'
BY DEF FormTypeOK, FormRecord, FormLog

(* The dialog that is opened, and the form that is loaded.                   *)
LEMMA OpenKeeps == ASSUME FormInv, NEW row \in Rows \cup {New}, Open(row) PROVE FormInv'
<1> DEFINE value == IF row = New \/ what = "quota" THEN "default" ELSE server[row]
           keep == row \in private
<1>1. /\ form' = [open |-> TRUE, row |-> row, keep |-> keep, session |-> form.session + 1, value |-> value]
      /\ form.session < MaxOpens /\ ~Limits /\ (row = New => what \in {"package", "tag"})
      /\ UNCHANGED <<what, server, private, pending, replies, busy, log>>
  BY DEF Open
<1>2. value \in Mixed /\ keep \in BOOLEAN /\ form.session + 1 \in 0..MaxOpens
  <2>1. row = New \/ server[row] \in Mixed
    BY FormFields
  <2>2. value \in Mixed
    BY <2>1 DEF Mixed
  <2>3. form.session + 1 \in 0..MaxOpens
    BY <1>1, FormFields, FormBounds
  <2> QED
    BY <2>2, <2>3
<1>3. /\ form' \in FormRecord /\ form'.open = TRUE /\ form'.row = row /\ form'.keep = keep
      /\ form'.value = value
  <2> HIDE DEF value, keep
  <2> QED
    BY <1>1, <1>2 DEF FormRecord
<1>4. FormTypeOK'
  BY <1>1, <1>3, FormTypes, FormFields
<1>5. SentOnce'
  BY <1>1 DEF FormInv, SentOnce
<1>6. SentForRow'
  <2>1. "defaulted" \notin log.slips => OfRow(row, value) \/ (what = "quota" /\ value = "default")
    BY DEF FormInv, TypedForRow, OfRow
  <2> QED
    BY <1>1, <1>3, <2>1 DEF FormInv, SentForRow, OfRow, Limits
<1>7. KeepsPrivate' /\ TypedForRow' /\ PrivateStays'
  BY <1>1, <1>3 DEF FormInv, KeepsPrivate, TypedForRow, PrivateStays
<1> QED
  BY <1>4, <1>5, <1>6, <1>7, FormParts

LEMMA LoadLimitsKeeps == FormInv /\ LoadLimits => FormInv'
<1> SUFFICES ASSUME FormInv, LoadLimits PROVE FormInv'
  OBVIOUS
<1>1. PICK row \in Rows, ok \in BOOLEAN :
        /\ ok \/ log.lost < MaxLost
        /\ form' = [open |-> TRUE, row |-> row, keep |-> FALSE, session |-> 1,
                    value |-> IF ok THEN server[row] ELSE "default"]
        /\ log' = [log EXCEPT !.lost = IF ok THEN @ ELSE @ + 1,
                              !.slips = @ \cup IF ok THEN {} ELSE {"defaulted"}]
  BY DEF LoadLimits
<1>2. Limits /\ form.session = 0 /\ UNCHANGED <<what, server, private, pending, replies, busy>>
  BY DEF LoadLimits
<1> DEFINE value == IF ok THEN server[row] ELSE "default"
<1>3. value \in Mixed
  BY FormFields DEF Mixed
<1>4. /\ form' \in FormRecord /\ form'.open = TRUE /\ form'.row = row /\ form'.value = value
      /\ form'.session = 1
  <2>1. form' = [open |-> TRUE, row |-> row, keep |-> FALSE, session |-> 1, value |-> value]
    BY <1>1
  <2> HIDE DEF value
  <2> QED
    BY <1>3, <2>1, FormBounds DEF FormRecord
<1>5. /\ log' \in FormLog /\ log'.done = log.done /\ log'.typed = log.typed
      /\ log'.slips = log.slips \cup IF ok THEN {} ELSE {"defaulted"}
  <2>1. (IF ok THEN log.lost ELSE log.lost + 1) \in 0..MaxLost
    BY <1>1, FormFields, FormBounds
  <2> DEFINE lost == IF ok THEN log.lost ELSE log.lost + 1
             slips == log.slips \cup IF ok THEN {} ELSE {"defaulted"}
  <2>2. log' = [log EXCEPT !.lost = lost, !.slips = slips]
    BY <1>1
  <2>3. lost \in 0..MaxLost /\ slips \subseteq {"twice", "retried", "defaulted"}
    BY <2>1, FormFields
  <2> HIDE DEF lost, slips
  <2>4. log' \in FormLog /\ log'.done = log.done /\ log'.typed = log.typed /\ log'.slips = slips
    BY <2>2, <2>3, FormFields DEF FormLog
  <2> QED
    BY <2>4 DEF slips
<1>6. FormTypeOK'
  BY <1>2, <1>4, <1>5, FormTypes, FormFields
<1>7. pending = {} /\ replies = {}
  BY <1>2 DEF FormInv, SentForRow
<1>8. SentOnce'
  BY <1>2, <1>5, <1>7 DEF FormInv, SentOnce
<1>9. SentForRow'
  <2>1. "defaulted" \notin log'.slips => OfRow(row, value)'
    BY <1>2, <1>5 DEF FormInv, TypedForRow, OfRow
  <2> QED
    BY <1>2, <1>4, <1>7, <2>1 DEF SentForRow, OfRow
<1>10. KeepsPrivate' /\ TypedForRow' /\ PrivateStays'
  BY <1>2, <1>5 DEF FormInv, KeepsPrivate, TypedForRow, PrivateStays, Limits
<1> QED
  BY <1>6, <1>8, <1>9, <1>10, FormParts

LEMMA TypeKeeps == ASSUME FormInv, NEW v \in Values, Type(v) PROVE FormInv'
<1> DEFINE typed == IF form.row = New THEN log.typed ELSE log.typed \cup {<<form.row, v>>}
<1>1. /\ form.open /\ form' = [form EXCEPT !.value = v] /\ log' = [log EXCEPT !.typed = typed]
      /\ UNCHANGED <<what, server, private, pending, replies, busy>>
  BY DEF Type
<1>2. typed \subseteq Rows \X Values /\ log.typed \subseteq typed /\ (form.row # New => <<form.row, v>> \in typed)
  BY FormFields
<1> HIDE DEF typed
<1>3. /\ form' \in FormRecord /\ form'.open = form.open /\ form'.row = form.row /\ form'.value = v
      /\ form'.keep = form.keep /\ form'.session = form.session
  BY <1>1, FormFields DEF FormRecord, Mixed
<1>4. /\ log' \in FormLog /\ log'.typed = typed /\ log'.slips = log.slips /\ log'.done = log.done
  BY <1>1, <1>2, FormFields DEF FormLog
<1>5. FormTypeOK'
  BY <1>1, <1>3, <1>4, FormTypes, FormFields
<1>6. SentOnce'
  BY <1>1, <1>4 DEF FormInv, SentOnce
<1>7. SentForRow'
  BY <1>1, <1>2, <1>3, <1>4 DEF FormInv, SentForRow, OfRow, Limits
<1>8. KeepsPrivate' /\ TypedForRow' /\ PrivateStays'
  BY <1>1, <1>2, <1>3, <1>4 DEF FormInv, KeepsPrivate, TypedForRow, PrivateStays
<1> QED
  BY <1>5, <1>6, <1>7, <1>8, FormParts

LEMMA ShutForm ==
  ASSUME FormInv
  PROVE  /\ Shut(form.session) \in FormRecord /\ Shut(form.session).open = FALSE
         /\ Shut(form.session).session = form.session
BY FormFields DEF Shut, FormRecord, Mixed

LEMMA FormCancelKeeps == FormInv /\ Cancel => FormInv'
<1> SUFFICES ASSUME FormInv, Cancel PROVE FormInv'
  OBVIOUS
<1>1. ~Limits /\ form' = Shut(form.session) /\ UNCHANGED <<what, server, private, pending, replies, busy, log>>
  BY DEF Cancel
<1>2. form' \in FormRecord /\ form'.open = FALSE
  BY <1>1, ShutForm
<1>3. FormTypeOK'
  BY <1>1, <1>2, FormTypes, FormFields
<1>4. SentOnce' /\ SentForRow' /\ KeepsPrivate' /\ TypedForRow' /\ PrivateStays'
  BY <1>1, <1>2 DEF FormInv, SentOnce, SentForRow, OfRow, KeepsPrivate, TypedForRow, PrivateStays, Limits
<1> QED
  BY <1>3, <1>4, FormParts

LEMMA SubmitKeeps == FormInv /\ Submit => FormInv'
<1> SUFFICES ASSUME FormInv, Submit PROVE FormInv'
  OBVIOUS
<1> DEFINE sub == [row |-> form.row, value |-> form.value, keep |-> form.keep,
                   session |-> form.session, at |-> log.submits + 1]
           slips == log.slips \cup Slips
<1>1. /\ form.open /\ log.submits < MaxSubmits /\ pending' = pending \cup {sub} /\ busy' = TRUE
      /\ log' = [log EXCEPT !.submits = log.submits + 1, !.slips = slips]
      /\ UNCHANGED <<what, form, server, private, replies>>
      /\ (what = "quota" => form.value # "default")
  BY DEF Submit, Post
<1>2. log.submits + 1 \in 1..MaxSubmits /\ log.submits + 1 \in 0..MaxSubmits
  BY <1>1, FormFields, FormBounds
<1>3. /\ sub \in Submission /\ sub.row = form.row /\ sub.value = form.value /\ sub.keep = form.keep
      /\ sub.session = form.session
  BY <1>2, FormFields DEF Submission
<1>4. slips \subseteq {"twice", "retried", "defaulted"}
  BY FormFields DEF Slips
<1> HIDE DEF sub, slips
<1>5. log' \in FormLog /\ log'.done = log.done /\ log'.typed = log.typed /\ log'.slips = slips
  BY <1>1, <1>2, <1>4, FormFields DEF FormLog
<1>6. FormTypeOK'
  BY <1>1, <1>3, <1>5, FormTypes, FormFields
<1>7. SentOnce'
  <2> SUFFICES ASSUME slips \cap {"twice", "retried"} = {}
               PROVE  /\ \A s, t \in pending' \cup replies : s.session = t.session => s = t
                      /\ \A s \in pending' : log.done[s.session] = 0
                      /\ \A s \in 0..MaxOpens : log.done[s] <= 1
    BY <1>1, <1>5 DEF SentOnce
  <2>1. log.slips \cap {"twice", "retried"} = {} /\ "twice" \notin Slips /\ "retried" \notin Slips
    BY DEF slips
  <2>2. Sent = {} /\ ~(log.done[form.session] > 0)
    BY <2>1 DEF Slips
  <2>3. log.done[form.session] = 0
    <3>1. log.done[form.session] \in Nat
      BY FormFields
    <3> QED
      BY <2>2, <3>1
  <2>4. \A s \in pending \cup replies : s.session # form.session
    BY <2>2 DEF Sent
  <2> QED
    BY <1>1, <1>3, <2>1, <2>3, <2>4 DEF FormInv, SentOnce
<1>8. SentForRow'
  <2>1. "defaulted" \notin log'.slips => "defaulted" \notin log.slips
    BY <1>5 DEF slips
  <2>2. Limits => form.session = 1
    BY <1>1 DEF FormInv, SentForRow
  <2> QED
    BY <1>1, <1>3, <1>5, <2>1, <2>2 DEF FormInv, SentForRow, OfRow, Limits
<1>9. KeepsPrivate' /\ TypedForRow' /\ PrivateStays'
  <2>1. "defaulted" \notin log'.slips => "defaulted" \notin log.slips
    BY <1>5 DEF slips
  <2> QED
    BY <1>1, <1>3, <1>5, <2>1 DEF FormInv, KeepsPrivate, TypedForRow, PrivateStays
<1> QED
  BY <1>6, <1>7, <1>8, <1>9, FormParts

LEMMA HandleKeeps == ASSUME FormInv, NEW s \in pending, Handle(s) PROVE FormInv'
<1>1. /\ pending' = pending \ {s} /\ replies' = replies \cup {s}
      /\ server' = IF s.row = New THEN server ELSE [server EXCEPT ![s.row] = s.value]
      /\ private' = IF what # "userTags" \/ s.keep THEN private ELSE private \ {s.row}
      /\ log' = [log EXCEPT !.done[s.session] = @ + 1]
      /\ UNCHANGED <<what, form, busy>>
  BY DEF Handle
<1>2. s \in Submission /\ s.row \in Rows \cup {New} /\ s.value \in Mixed /\ s.session \in 0..MaxOpens
  BY FormFields DEF Submission
<1> DEFINE done == [log.done EXCEPT ![s.session] = log.done[s.session] + 1]
<1>3. log' = [log EXCEPT !.done = done]
  BY <1>1
<1>4. /\ done \in [0..MaxOpens -> Nat] /\ done[s.session] = log.done[s.session] + 1
      /\ \A t \in 0..MaxOpens : t # s.session => done[t] = log.done[t]
  <2>1. log.done \in [0..MaxOpens -> Nat] /\ s.session \in 0..MaxOpens
    BY <1>2, FormFields
  <2>3. log.done[s.session] \in Nat
    BY <2>1
  <2>2. log.done[s.session] + 1 \in Nat
    BY <2>3
  <2> QED
    BY <2>1, <2>2
<1> HIDE DEF done
<1>5. log' \in FormLog /\ log'.done = done /\ log'.typed = log.typed /\ log'.slips = log.slips
  BY <1>3, <1>4, FormFields DEF FormLog
<1>6. PrivateStays'
  BY <1>1 DEF FormInv, PrivateStays, KeepsPrivate
<1>7. server' \in [Rows -> Mixed]
  BY <1>1, <1>2, FormFields
<1>8. FormTypeOK'
  BY <1>1, <1>2, <1>5, <1>6, <1>7, FormTypes, FormFields DEF PrivateStays
<1>9. SentOnce'
  <2> SUFFICES ASSUME log.slips \cap {"twice", "retried"} = {}
               PROVE  /\ \A t, u \in pending' \cup replies' : t.session = u.session => t = u
                      /\ \A t \in pending' : done[t.session] = 0
                      /\ \A t \in 0..MaxOpens : done[t] <= 1
    BY <1>5 DEF SentOnce
  <2>1. log.done[s.session] = 0 /\ \A t \in 0..MaxOpens : log.done[t] <= 1
    BY DEF FormInv, SentOnce
  <2>2. \A t \in 0..MaxOpens : done[t] <= 1
    BY <1>2, <1>4, <2>1
  <2>3. \A t \in pending' : t.session # s.session /\ t.session \in 0..MaxOpens /\ log.done[t.session] = 0
    BY <1>1, FormFields DEF FormInv, SentOnce, Submission
  <2> QED
    BY <1>1, <1>4, <2>2, <2>3 DEF FormInv, SentOnce
<1>10. SentForRow' /\ KeepsPrivate'
  BY <1>1, <1>5 DEF FormInv, SentForRow, OfRow, Limits, KeepsPrivate
<1>11. TypedForRow'
  <2> SUFFICES ASSUME "defaulted" \notin log.slips, NEW r \in Rows
               PROVE  server'[r] = "old" \/ <<r, server'[r]>> \in log.typed
    BY <1>5 DEF TypedForRow
  <2>1. CASE s.row # New /\ r = s.row
    <3>1. server'[r] = s.value
      BY <1>1, <2>1, FormFields
    <3>2. OfRow(s.row, s.value)
      BY DEF FormInv, SentForRow
    <3> QED
      BY <2>1, <3>1, <3>2 DEF OfRow
  <2>2. CASE s.row = New \/ r # s.row
    <3>1. server'[r] = server[r]
      BY <1>1, <2>2, FormFields
    <3> QED
      BY <3>1 DEF FormInv, TypedForRow
  <2> QED
    BY <2>1, <2>2
<1> QED
  BY <1>6, <1>8, <1>9, <1>10, <1>11, FormParts

LEMMA SucceedsKeeps == ASSUME FormInv, NEW s \in replies, Succeeds(s) PROVE FormInv'
<1>1. /\ replies' = replies \ {s} /\ busy' = FALSE
      /\ form' = IF Limits THEN [form EXCEPT !.value = s.value] ELSE Shut(form.session)
      /\ UNCHANGED <<what, server, private, pending, log>>
  BY DEF Succeeds
<1>2. s.value \in Mixed
  BY FormFields DEF Submission
<1>3. SentOnce' /\ TypedForRow' /\ PrivateStays'
  BY <1>1 DEF FormInv, SentOnce, TypedForRow, PrivateStays
<1>4. CASE Limits
  <2>1. /\ form' \in FormRecord /\ form'.open = form.open /\ form'.row = form.row
        /\ form'.value = s.value /\ form'.session = form.session
    BY <1>1, <1>2, <1>4, FormFields DEF FormRecord
  <2>2. FormTypeOK'
    BY <1>1, <2>1, FormTypes, FormFields
  <2>3. SentForRow' /\ KeepsPrivate'
    BY <1>1, <1>4, <2>1 DEF FormInv, SentForRow, OfRow, Limits, KeepsPrivate
  <2> QED
    BY <1>3, <2>2, <2>3, FormParts
<1>5. CASE ~Limits
  <2>1. form' \in FormRecord /\ form'.open = FALSE
    BY <1>1, <1>5, ShutForm
  <2>2. FormTypeOK'
    BY <1>1, <2>1, FormTypes, FormFields
  <2>3. SentForRow' /\ KeepsPrivate'
    BY <1>1, <1>5, <2>1 DEF FormInv, SentForRow, OfRow, Limits, KeepsPrivate
  <2> QED
    BY <1>3, <2>2, <2>3, FormParts
<1> QED
  BY <1>4, <1>5

(* An answer that is lost and a submission that is refused.                  *)
LEMMA FormLostKeeps ==
  ASSUME FormInv, log.lost < MaxLost, log' = [log EXCEPT !.lost = @ + 1], busy' = FALSE,
         pending' \subseteq pending, replies' \subseteq replies, UNCHANGED <<what, form, server, private>>
  PROVE  FormInv'
<1>1. log.lost + 1 \in 0..MaxLost
  BY FormFields, FormBounds
<1>2. log' \in FormLog /\ log'.done = log.done /\ log'.typed = log.typed /\ log'.slips = log.slips
  BY <1>1, FormFields DEF FormLog
<1>3. FormTypeOK'
  BY <1>2, FormTypes, FormFields
<1>4. SentOnce' /\ SentForRow'
  BY <1>2 DEF FormInv, SentOnce, SentForRow, OfRow, Limits
<1>5. KeepsPrivate' /\ TypedForRow' /\ PrivateStays'
  BY <1>2 DEF FormInv, KeepsPrivate, TypedForRow, PrivateStays
<1> QED
  BY <1>3, <1>4, <1>5, FormParts

(* The forms of the administration (recharge-manage, org-tag, user,          *)
(* usage-monitor): whatever is clicked twice, lost, late or refused, a form  *)
(* that was opened once is done at most once but for a second click or a     *)
(* retry, a row holds only what was typed for it, and no assignment of tags  *)
(* takes a user's private tag.                                               *)
THEOREM FormsAreKept == FormSpec => []FormInv
<1>1. FormInv /\ [FormNext]_formVars => FormInv'
  <2> SUFFICES ASSUME FormInv, [FormNext]_formVars PROVE FormInv'
    OBVIOUS
  <2>1. CASE UNCHANGED formVars
    <3>1. FormTypeOK'
      BY <2>1, FormTypes, FormFields DEF formVars
    <3>2. SentOnce' /\ SentForRow' /\ KeepsPrivate' /\ TypedForRow' /\ PrivateStays'
      BY <2>1 DEF formVars, FormInv, SentOnce, SentForRow, OfRow, Limits, KeepsPrivate, TypedForRow, PrivateStays
    <3> QED
      BY <3>1, <3>2, FormParts
  <2>2. ASSUME NEW s \in replies, Lost(s) PROVE FormInv'
    BY <2>2, FormLostKeeps DEF Lost
  <2>3. ASSUME NEW s \in pending, Refused(s) PROVE FormInv'
    BY <2>3, FormLostKeeps DEF Refused
  <2> QED
    BY <2>1, <2>2, <2>3, OpenKeeps, LoadLimitsKeeps, TypeKeeps, FormCancelKeeps, SubmitKeeps,
       HandleKeeps, SucceedsKeeps DEF FormNext
<1> QED
  BY <1>1, FormStarts, PTL DEF FormSpec

-----------------------------------------------------------------------------
(* The model settings                                                        *)

OwnForm == [mode : Modes, endpoint : Endpoints \cup {Blank}, key : KeyChoices \cup {Blank},
            loading : BOOLEAN, saving : BOOLEAN, testing : BOOLEAN, loaded : BOOLEAN]
Preference == [mode : Modes, endpoint : Endpoints \cup {Blank}, key : KeyChoices \cup {Blank}]
Diary == [acts : 0..MaxProfileActs, fails : 0..MaxProfileFails, sent : Nat, typed : BOOLEAN,
          slips : SUBSET {"crossed", "lost"}]

(* FormAsStored is part of CallsAwaited.                                     *)
LEMMA ProfileParts ==
  ASSUME own' \in OwnForm, preference' \in Preference, calls' \subseteq ProfileCall, diary' \in Diary,
         CallsAwaited', ButtonsWait'
  PROVE  ProfileInv'
<1>1. ProfileTypeOK'
  BY DEF ProfileTypeOK, OwnForm, Preference, Diary
<1>2. FormAsStored'
  BY DEF CallsAwaited, FormAsStored, ProfileShown
<1> QED
  BY <1>1, <1>2 DEF ProfileInv

(* What ProfileInv says of the parts of the state.                           *)
LEMMA ProfileFieldsOf ==
  ASSUME ProfileInv
  PROVE  /\ own \in OwnForm /\ preference \in Preference /\ calls \subseteq ProfileCall /\ diary \in Diary
         /\ own.loading \in BOOLEAN /\ own.saving \in BOOLEAN /\ own.testing \in BOOLEAN /\ own.loaded \in BOOLEAN
         /\ diary.typed \in BOOLEAN /\ diary.slips \subseteq {"crossed", "lost"}
         /\ diary.acts \in 0..MaxProfileActs /\ diary.fails \in 0..MaxProfileFails /\ diary.sent \in Nat
         /\ ProfileFields \in Preference
         /\ CallsAwaited /\ ButtonsWait
<1>1. own \in OwnForm /\ preference \in Preference /\ calls \subseteq ProfileCall /\ diary \in Diary
  BY DEF ProfileInv, ProfileTypeOK, OwnForm, Preference, Diary
<1>2. /\ own.loading \in BOOLEAN /\ own.saving \in BOOLEAN /\ own.testing \in BOOLEAN /\ own.loaded \in BOOLEAN
      /\ ProfileFields \in Preference
  BY <1>1 DEF OwnForm, ProfileFields, Preference
<1>3. /\ diary.typed \in BOOLEAN /\ diary.slips \subseteq {"crossed", "lost"}
      /\ diary.acts \in 0..MaxProfileActs /\ diary.fails \in 0..MaxProfileFails /\ diary.sent \in Nat
  BY <1>1 DEF Diary
<1> QED
  BY <1>1, <1>2, <1>3 DEF ProfileInv

LEMMA ProfileStarts == ProfileInit => ProfileInv
<1> SUFFICES ASSUME ProfileInit PROVE ProfileInv
  OBVIOUS
<1> DEFINE first == [op |-> "load", chained |-> FALSE, done |-> "no", n |-> 0,
                     arg |-> [mode |-> "FREE", endpoint |-> Blank, key |-> Blank]]
<1>1. /\ own = [mode |-> "FREE", endpoint |-> Blank, key |-> Blank, loading |-> TRUE, saving |-> FALSE,
                testing |-> FALSE, loaded |-> FALSE]
      /\ calls = {first}
      /\ diary = [acts |-> 0, fails |-> 0, sent |-> 1, typed |-> FALSE, slips |-> {}]
  BY DEF ProfileInit
<1>2. preference \in Preference
  BY DEF ProfileInit, Preference, Modes
<1>3. first \in ProfileCall /\ first.op = "load" /\ first.chained = FALSE /\ first.done = "no"
  BY DEF ProfileCall, Modes
<1>4. own \in OwnForm /\ own.loading = TRUE /\ own.saving = FALSE /\ own.testing = FALSE /\ own.loaded = FALSE
  BY <1>1 DEF OwnForm, Modes
<1>5. 0 \in 0..MaxProfileActs /\ 0 \in 0..MaxProfileFails
  BY ProfileAssumption
<1>6. diary \in Diary
  BY <1>1, <1>5 DEF Diary
<1> HIDE DEF first
<1>7. ProfileTypeOK
  BY <1>1, <1>2, <1>3, <1>4, <1>6 DEF ProfileTypeOK, OwnForm, Preference, Diary
<1>8. CallsAwaited
  BY <1>1, <1>3, <1>4 DEF CallsAwaited, Saving
<1>9. ButtonsWait /\ FormAsStored
  BY <1>1, <1>3, <1>4 DEF ButtonsWait, FormAsStored
<1> QED
  BY <1>7, <1>8, <1>9 DEF ProfileInv

LEMMA TypeProfileKeeps == ProfileInv /\ TypeProfile => ProfileInv'
<1> SUFFICES ASSUME ProfileInv, TypeProfile PROVE ProfileInv'
  OBVIOUS
<1>1. PICK m \in Modes, e \in Endpoints \cup {Blank}, k \in KeyChoices \cup {Blank} :
        own' = [own EXCEPT !.mode = m, !.endpoint = e, !.key = k]
  BY DEF TypeProfile
<1>2. /\ diary' = [diary EXCEPT !.acts = diary.acts + 1, !.typed = TRUE] /\ diary.acts < MaxProfileActs
      /\ preference' = preference /\ calls' = calls
  BY DEF TypeProfile, MayAct
<1>3. own' \in OwnForm /\ own'.loading = own.loading /\ own'.saving = own.saving /\ own'.testing = own.testing
  BY <1>1, ProfileFieldsOf DEF OwnForm
<1>4. diary.acts + 1 \in 0..MaxProfileActs
  BY <1>2, ProfileFieldsOf, ProfileAssumption
<1>5. diary' \in Diary /\ diary'.typed = TRUE /\ diary'.slips = diary.slips
  BY <1>2, <1>4, ProfileFieldsOf DEF Diary
<1>6. CallsAwaited'
  BY <1>2, <1>3, <1>5, ProfileFieldsOf DEF CallsAwaited, Saving
<1>7. ButtonsWait'
  BY <1>2, <1>3, ProfileFieldsOf DEF ButtonsWait
<1> QED
  BY <1>2, <1>3, <1>5, <1>6, <1>7, ProfileFieldsOf, ProfileParts

(* A new request, and the diary of one that the user makes.                  *)
LEMMA NewCallIs ==
  ASSUME ProfileInv, NEW op \in {"load", "mode", "custom", "test"}, NEW chained \in BOOLEAN
  PROVE  /\ NewCall(op, chained) \in ProfileCall /\ NewCall(op, chained).op = op
         /\ NewCall(op, chained).chained = chained /\ NewCall(op, chained).done = "no"
<1>1. ProfileFields \in [mode : Modes, endpoint : Endpoints \cup {Blank}, key : KeyChoices \cup {Blank}]
      /\ diary.sent \in Nat
  BY ProfileFieldsOf DEF Preference
<1> QED
  BY <1>1 DEF NewCall, ProfileCall

LEMMA SentInDiary ==
  ASSUME ProfileInv, MayAct, NEW slips \in SUBSET {"crossed", "lost"},
         diary' = [ProfileSent EXCEPT !.slips = slips]
  PROVE  diary' \in Diary /\ diary'.slips = slips /\ diary'.typed = diary.typed
<1>1. diary.acts + 1 \in 0..MaxProfileActs /\ diary.sent + 1 \in Nat
  BY ProfileFieldsOf, ProfileAssumption DEF MayAct
<1>2. diary' = [diary EXCEPT !.acts = diary.acts + 1, !.sent = diary.sent + 1, !.slips = slips]
  BY ProfileFieldsOf DEF ProfileSent, Diary
<1> QED
  BY <1>1, <1>2, ProfileFieldsOf DEF Diary

LEMMA LoadProfileKeeps == ProfileInv /\ LoadProfile => ProfileInv'
<1> SUFFICES ASSUME ProfileInv, LoadProfile PROVE ProfileInv'
  OBVIOUS
<1> DEFINE c == NewCall("load", FALSE)
           slips == diary.slips \cup IF own.saving THEN {"crossed"} ELSE {}
<1>1. /\ ~own.loading /\ own' = [own EXCEPT !.loading = TRUE] /\ calls' = calls \cup {c}
      /\ preference' = preference
  BY DEF LoadProfile
<1>2. slips \in SUBSET {"crossed", "lost"} /\ diary' = [ProfileSent EXCEPT !.slips = slips]
  BY ProfileFieldsOf DEF LoadProfile, ProfileSent, Diary
<1>3. c \in ProfileCall /\ c.op = "load" /\ c.chained = FALSE /\ c.done = "no"
  BY NewCallIs
<1>4. diary' \in Diary /\ diary'.slips = slips /\ diary'.typed = diary.typed
  BY <1>2, SentInDiary DEF LoadProfile
<1>5. own' \in OwnForm /\ own'.loading = TRUE /\ own'.saving = own.saving /\ own'.testing = own.testing
  BY <1>1, ProfileFieldsOf DEF OwnForm
<1>6. slips = {} => diary.slips = {} /\ ~own.saving
  OBVIOUS
<1> HIDE DEF c, slips
<1>7. CallsAwaited'
  BY <1>1, <1>3, <1>4, <1>5, <1>6, ProfileFieldsOf DEF CallsAwaited, Saving, ProfileCall
<1>8. ButtonsWait'
  BY <1>1, <1>3, <1>5, ProfileFieldsOf DEF ButtonsWait
<1> QED
  BY <1>1, <1>3, <1>4, <1>5, <1>7, <1>8, ProfileFieldsOf, ProfileParts

(* A save of the mode and one of the endpoint.                               *)
LEMMA SaveKeeps ==
  ASSUME ProfileInv, MayAct, ~own.saving, NEW op \in {"mode", "custom"},
         own' = [own EXCEPT !.saving = TRUE], calls' = calls \cup {NewCall(op, FALSE)},
         diary' = [ProfileSent EXCEPT !.slips = @ \cup IF own.loading THEN {"crossed"} ELSE {}],
         preference' = preference
  PROVE  ProfileInv'
<1> DEFINE c == NewCall(op, FALSE)
           slips == diary.slips \cup IF own.loading THEN {"crossed"} ELSE {}
<1>2. slips \in SUBSET {"crossed", "lost"} /\ diary' = [ProfileSent EXCEPT !.slips = slips]
  BY ProfileFieldsOf DEF ProfileSent, Diary
<1>3. c \in ProfileCall /\ c.op = op /\ c.chained = FALSE /\ c.done = "no"
  BY NewCallIs
<1>4. diary' \in Diary /\ diary'.slips = slips /\ diary'.typed = diary.typed
  BY <1>2, SentInDiary
<1>5. /\ own' \in OwnForm /\ own'.loading = own.loading /\ own'.saving = TRUE /\ own'.testing = own.testing
      /\ own'.mode = own.mode /\ own'.endpoint = own.endpoint /\ own'.key = own.key /\ own'.loaded = own.loaded
  BY ProfileFieldsOf DEF OwnForm
<1>6. slips = {} => diary.slips = {} /\ ~own.loading
  OBVIOUS
<1>1. calls' = calls \cup {c}
  OBVIOUS
<1> HIDE DEF c, slips
<1>7. CallsAwaited'
  <2>1. \A d \in calls : ~Saving(d)
    BY ProfileFieldsOf DEF CallsAwaited
  <2>2. /\ \A d \in calls' : Saving(d) => own'.saving
        /\ \A d, e \in calls' : Saving(d) /\ Saving(e) => d = e
        /\ \A d \in calls' : d.chained => d.op = "load"
        /\ \A d \in calls' : d.done = "refused" => d.op = "mode"
    BY <1>1, <1>3, <1>5, <2>1, ProfileFieldsOf DEF CallsAwaited
  <2>3. slips = {} => \A d \in calls : d.op = "test"
    BY <1>6, <2>1, ProfileFieldsOf DEF CallsAwaited, Saving, ProfileCall
  <2>4. slips = {} /\ own'.loaded /\ ~diary'.typed => ProfileShown'
    BY <1>4, <1>5, <1>6, <2>3, ProfileFieldsOf DEF CallsAwaited, ProfileShown
  <2> QED
    BY <1>1, <1>3, <1>4, <2>2, <2>3, <2>4 DEF CallsAwaited
<1>8. ButtonsWait'
  BY <1>1, <1>3, <1>5, ProfileFieldsOf DEF ButtonsWait
<1> QED
  BY <1>1, <1>3, <1>4, <1>5, <1>7, <1>8, ProfileFieldsOf, ProfileParts

LEMMA TestKeeps == ProfileInv /\ TestCustomModel => ProfileInv'
<1> SUFFICES ASSUME ProfileInv, TestCustomModel PROVE ProfileInv'
  OBVIOUS
<1> DEFINE c == NewCall("test", FALSE)
<1>1. /\ own' = [own EXCEPT !.testing = TRUE] /\ calls' = calls \cup {c} /\ preference' = preference
      /\ diary' = ProfileSent /\ MayAct
  BY DEF TestCustomModel
<1>3. c \in ProfileCall /\ c.op = "test" /\ c.chained = FALSE /\ c.done = "no"
  BY NewCallIs
<1>2. diary' = [ProfileSent EXCEPT !.slips = diary.slips]
  BY <1>1, ProfileFieldsOf DEF ProfileSent, Diary
<1>4. diary' \in Diary /\ diary'.slips = diary.slips /\ diary'.typed = diary.typed
  BY <1>1, <1>2, SentInDiary, ProfileFieldsOf
<1>5. /\ own' \in OwnForm /\ own'.loading = own.loading /\ own'.saving = own.saving /\ own'.testing = TRUE
      /\ own'.mode = own.mode /\ own'.endpoint = own.endpoint /\ own'.key = own.key /\ own'.loaded = own.loaded
  BY <1>1, ProfileFieldsOf DEF OwnForm
<1> HIDE DEF c
<1>7. CallsAwaited'
  BY <1>1, <1>3, <1>4, <1>5, ProfileFieldsOf DEF CallsAwaited, Saving, ProfileShown
<1>8. ButtonsWait'
  BY <1>1, <1>3, <1>5, ProfileFieldsOf DEF ButtonsWait
<1> QED
  BY <1>1, <1>3, <1>4, <1>5, <1>7, <1>8, ProfileFieldsOf, ProfileParts

LEMMA ServeKeeps == ASSUME ProfileInv, NEW c \in calls, Serve(c) PROVE ProfileInv'
<1> DEFINE arg == IF c.op = "load" THEN [preference EXCEPT !.key = Blank] ELSE c.arg
<1>1. PICK served \in [op : {c.op}, chained : {c.chained}, n : {c.n}, done : {"yes", "refused"}, arg : {arg}] :
        /\ calls' = (calls \ {c}) \cup {served}
        /\ served.done = "refused" <=>
             c.op = "mode" /\ c.arg.mode = "CUSTOM" /\ (preference.endpoint = Blank \/ preference.key = Blank)
        /\ preference' =
             CASE served.done = "refused" -> preference
               [] served.done = "yes" /\ c.op = "mode" -> [preference EXCEPT !.mode = c.arg.mode]
               [] served.done = "yes" /\ c.op = "custom" -> [preference EXCEPT !.endpoint = c.arg.endpoint,
                                                    !.key = IF c.arg.key = Blank THEN @ ELSE c.arg.key]
               [] OTHER -> preference
  BY DEF Serve
<1>2. c.done = "no" /\ own' = own /\ diary' = diary
  BY DEF Serve
<1>3. /\ c \in ProfileCall /\ c.op \in {"load", "mode", "custom", "test"} /\ c.chained \in BOOLEAN
      /\ c.arg \in Preference /\ c.n \in Nat
  BY ProfileFieldsOf DEF ProfileCall, Preference
<1>4. c.arg.mode \in Modes /\ c.arg.endpoint \in Endpoints \cup {Blank} /\ c.arg.key \in KeyChoices \cup {Blank}
  BY <1>3 DEF Preference
<1>5. /\ arg \in Preference
      /\ c.op = "load" => arg.mode = preference.mode /\ arg.endpoint = preference.endpoint
  BY <1>3, ProfileFieldsOf DEF Preference
<1> HIDE DEF arg
<1>6. /\ served \in ProfileCall /\ served.op = c.op /\ served.chained = c.chained /\ served.arg = arg
      /\ served.done \in {"yes", "refused"} /\ (served.done = "refused" => c.op = "mode")
  BY <1>1, <1>3, <1>5 DEF ProfileCall, Preference
<1>7. preference' \in Preference
  <2>1. CASE preference' = preference
    BY <2>1, ProfileFieldsOf
  <2>2. CASE preference' = [preference EXCEPT !.mode = c.arg.mode]
    BY <2>2, <1>4, ProfileFieldsOf DEF Preference
  <2>3. CASE preference' = [preference EXCEPT !.endpoint = c.arg.endpoint,
                                             !.key = IF c.arg.key = Blank THEN @ ELSE c.arg.key]
    BY <2>3, <1>4, ProfileFieldsOf DEF Preference
  <2> QED
    BY <1>1, <1>3, <2>1, <2>2, <2>3
<1>8. c.op \in {"load", "test"} \/ served.done = "refused" => preference' = preference
  <2>1. CASE served.done = "refused"
    <3>1. c.op = "mode"
      BY <1>6, <2>1
    <3> QED
      BY <1>1, <2>1, <3>1
  <2>2. CASE c.op \in {"load", "test"}
    <3>1. served.done # "refused" /\ c.op # "mode" /\ c.op # "custom"
      BY <1>6, <2>2
    <3> QED
      BY <1>1, <3>1
  <2> QED
    BY <2>1, <2>2
<1>9. Saving(served) <=> Saving(c)
  BY <1>6 DEF Saving
<1>10. /\ \A d \in calls' : Saving(d) => own'.saving
       /\ \A d, e \in calls' : Saving(d) /\ Saving(e) => d = e
       /\ \A d \in calls' : d.chained => d.op = "load"
       /\ \A d \in calls' : d.done = "refused" => d.op = "mode"
  BY <1>1, <1>2, <1>6, <1>9, ProfileFieldsOf DEF CallsAwaited
<1>11. CallsAwaited'
  <2> SUFFICES ASSUME diary.slips = {}
               PROVE  /\ \A d \in calls' : d.op = "load" => own.loading
                      /\ \A d, e \in calls' : d.op # "test" /\ e.op # "test" => d = e
                      /\ \A d \in calls' : d.op = "load" /\ d.done # "no" =>
                           d.arg.mode = preference'.mode /\ d.arg.endpoint = preference'.endpoint
                      /\ own.loaded /\ ~diary.typed =>
                           \/ ProfileShown'
                           \/ \E d \in calls' : d.op = "load" \/ (d.op \in {"mode", "custom"} /\ d.done = "yes")
    BY <1>2, <1>10 DEF CallsAwaited
  <2>1. \A d, e \in calls : d.op # "test" /\ e.op # "test" => d = e
    BY ProfileFieldsOf DEF CallsAwaited
  <2>2. /\ \A d \in calls' : d.op = "load" => own.loading
        /\ \A d, e \in calls' : d.op # "test" /\ e.op # "test" => d = e
    BY <1>1, <1>6, <2>1, ProfileFieldsOf DEF CallsAwaited
  <2>3. ASSUME NEW d \in calls', d.op = "load", d.done # "no"
        PROVE  d.arg.mode = preference'.mode /\ d.arg.endpoint = preference'.endpoint
    <3>1. CASE d = served
      BY <1>5, <1>6, <1>8, <2>3, <3>1
    <3>2. CASE d # served
      <4>1. d \in calls /\ d # c
        BY <1>1, <3>2
      <4>2. c.op = "test"
        BY <2>1, <2>3, <4>1
      <4> QED
        BY <1>8, <2>3, <4>1, <4>2, ProfileFieldsOf DEF CallsAwaited
    <3> QED
      BY <3>1, <3>2
  <2>4. ASSUME own.loaded, ~diary.typed
        PROVE  \/ ProfileShown'
               \/ \E d \in calls' : d.op = "load" \/ (d.op \in {"mode", "custom"} /\ d.done = "yes")
    <3>1. CASE \E d \in calls : d.op = "load" \/ (d.op \in {"mode", "custom"} /\ d.done = "yes")
      BY <1>1, <1>2, <1>6, <3>1
    <3>2. CASE ProfileShown /\ preference' = preference
      BY <1>2, <3>2 DEF ProfileShown
    <3>3. CASE c.op \in {"mode", "custom"} /\ served.done = "yes"
      BY <1>1, <1>6, <3>3
    <3> QED
      BY <1>3, <1>6, <1>8, <2>4, <3>1, <3>2, <3>3, ProfileFieldsOf DEF CallsAwaited
  <2> QED
    BY <2>2, <2>3, <2>4
<1>12. ButtonsWait'
  BY <1>1, <1>2, <1>6, ProfileFieldsOf DEF ButtonsWait
<1> QED
  BY <1>1, <1>2, <1>6, <1>7, <1>11, <1>12, ProfileFieldsOf, ProfileParts

(* The end of a request: what Ends makes of the form.                        *)
LEMMA EndsIs ==
  ASSUME ProfileInv, NEW c \in calls, own' = Ends(c)
  PROVE  /\ own' \in OwnForm /\ own'.loaded = own.loaded
         /\ own'.mode = own.mode /\ own'.endpoint = own.endpoint /\ own'.key = own.key
         /\ own'.loading = IF c.op = "load" THEN FALSE ELSE own.loading
         /\ own'.saving = IF Saving(c) THEN FALSE ELSE own.saving
         /\ own'.testing = IF c.op = "test" THEN FALSE ELSE own.testing
<1> DEFINE loading == IF c.op = "load" THEN FALSE ELSE own.loading
           saving == IF Saving(c) THEN FALSE ELSE own.saving
           testing == IF c.op = "test" THEN FALSE ELSE own.testing
<1>1. own' = [own EXCEPT !.loading = loading, !.saving = saving, !.testing = testing]
  BY DEF Ends, Saving
<1>2. loading \in BOOLEAN /\ saving \in BOOLEAN /\ testing \in BOOLEAN
  BY ProfileFieldsOf
<1> HIDE DEF loading, saving, testing
<1>3. /\ own' \in OwnForm /\ own'.loaded = own.loaded
      /\ own'.mode = own.mode /\ own'.endpoint = own.endpoint /\ own'.key = own.key
      /\ own'.loading = loading /\ own'.saving = saving /\ own'.testing = testing
  BY <1>1, <1>2, ProfileFieldsOf DEF OwnForm
<1> QED
  BY <1>3 DEF loading, saving, testing

(* The buttons after a request without a successor.                          *)
LEMMA EndKeeps ==
  ASSUME ProfileInv, NEW c \in calls, calls' = calls \ {c},
         own'.loading = IF c.op = "load" THEN FALSE ELSE own.loading,
         own'.saving = IF Saving(c) THEN FALSE ELSE own.saving,
         own'.testing = IF c.op = "test" THEN FALSE ELSE own.testing
  PROVE  /\ ButtonsWait'
         /\ \A d \in calls' : Saving(d) => own'.saving
         /\ \A d, e \in calls' : Saving(d) /\ Saving(e) => d = e
         /\ \A d \in calls' : d.chained => d.op = "load"
         /\ \A d \in calls' : d.done = "refused" => d.op = "mode"
<1>1. ButtonsWait'
  BY ProfileFieldsOf DEF ButtonsWait, Saving
<1>2. \A d \in calls' : Saving(d) => own'.saving
  BY ProfileFieldsOf DEF CallsAwaited
<1> QED
  BY <1>1, <1>2, ProfileFieldsOf DEF CallsAwaited

LEMMA ProfileLostKeeps == ASSUME ProfileInv, NEW c \in calls, ProfileLost(c) PROVE ProfileInv'
<1>1. /\ own' = Ends(c) /\ calls' = calls \ {c} /\ preference' = preference
      /\ diary' = [diary EXCEPT !.fails = diary.fails + 1, !.slips = diary.slips \cup {"lost"}]
      /\ diary.fails < MaxProfileFails
  BY DEF ProfileLost
<1>2. diary.fails + 1 \in 0..MaxProfileFails
  BY <1>1, ProfileFieldsOf, ProfileAssumption
<1>3. diary' \in Diary /\ diary'.slips # {}
  BY <1>1, <1>2, ProfileFieldsOf DEF Diary
<1>4. CallsAwaited' /\ ButtonsWait'
  BY <1>1, <1>3, EndsIs, EndKeeps DEF CallsAwaited
<1> QED
  BY <1>1, <1>3, <1>4, EndsIs, ProfileFieldsOf, ProfileParts

LEMMA AnsweredProfileKeeps == ASSUME ProfileInv, NEW c \in calls, Answered(c) PROVE ProfileInv'
<1>1. /\ c.done # "no" /\ preference' = preference
      /\ c \in ProfileCall /\ c.op \in {"load", "mode", "custom", "test"} /\ c.chained \in BOOLEAN
      /\ c.done \in {"no", "yes", "refused"} /\ c.arg \in Preference
  BY ProfileFieldsOf DEF Answered, ProfileCall, Preference
<1>2. CASE c.op = "load" /\ own' = Shows(c) /\ calls' = calls \ {c} /\ diary' = [diary EXCEPT !.typed = FALSE]
  <2> DEFINE saving == IF c.chained THEN FALSE ELSE own.saving
  <2>1. /\ own' = [own EXCEPT !.mode = c.arg.mode, !.endpoint = c.arg.endpoint, !.key = Blank,
                              !.loading = FALSE, !.loaded = TRUE, !.saving = saving]
        /\ saving \in BOOLEAN
    BY <1>2, ProfileFieldsOf DEF Shows
  <2>2. c.arg.mode \in Modes /\ c.arg.endpoint \in Endpoints \cup {Blank}
    BY <1>1 DEF Preference
  <2> HIDE DEF saving
  <2>3. /\ own' \in OwnForm /\ own'.mode = c.arg.mode /\ own'.endpoint = c.arg.endpoint /\ own'.key = Blank
        /\ own'.loading = FALSE /\ own'.saving = saving /\ own'.testing = own.testing /\ own'.loaded = TRUE
    BY <2>1, <2>2, ProfileFieldsOf DEF OwnForm
  <2>4. Saving(c) <=> c.chained
    BY <1>2 DEF Saving
  <2>5. /\ own'.loading = IF c.op = "load" THEN FALSE ELSE own.loading
        /\ own'.saving = IF Saving(c) THEN FALSE ELSE own.saving
        /\ own'.testing = IF c.op = "test" THEN FALSE ELSE own.testing
    BY <1>2, <2>3, <2>4 DEF saving
  <2>6. diary' \in Diary /\ diary'.slips = diary.slips
    BY <1>2, ProfileFieldsOf DEF Diary
  <2>7. diary.slips = {} => /\ \A d \in calls' : d.op = "test"
                            /\ c.arg.mode = preference.mode /\ c.arg.endpoint = preference.endpoint
    BY <1>1, <1>2, ProfileFieldsOf DEF CallsAwaited
  <2>8. diary.slips = {} => ProfileShown'
    BY <1>1, <2>3, <2>7 DEF ProfileShown
  <2>9. CallsAwaited' /\ ButtonsWait'
    BY <1>2, <2>5, <2>6, <2>7, <2>8, EndKeeps DEF CallsAwaited
  <2> QED
    BY <1>1, <1>2, <2>3, <2>6, <2>9, ProfileFieldsOf, ProfileParts
<1>3. CASE /\ c.op \in {"mode", "custom"} /\ c.done = "yes"
           /\ own' = [own EXCEPT !.key = IF c.op = "custom" THEN Blank ELSE @, !.loading = TRUE]
           /\ calls' = (calls \ {c}) \cup {NewCall("load", TRUE)}
           /\ diary' = [diary EXCEPT !.sent = @ + 1]
  <2> DEFINE new == NewCall("load", TRUE)
             key == IF c.op = "custom" THEN Blank ELSE own.key
  <2>1. own' = [own EXCEPT !.key = key, !.loading = TRUE] /\ key \in KeyChoices \cup {Blank}
        /\ calls' = (calls \ {c}) \cup {new}
    BY <1>3, ProfileFieldsOf DEF OwnForm
  <2>2. new \in ProfileCall /\ new.op = "load" /\ new.chained = TRUE /\ new.done = "no"
    BY NewCallIs
  <2> HIDE DEF new, key
  <2>3. /\ own' \in OwnForm /\ own'.loading = TRUE /\ own'.saving = own.saving /\ own'.testing = own.testing
    BY <2>1, ProfileFieldsOf DEF OwnForm
  <2>4. diary' \in Diary /\ diary'.slips = diary.slips
    BY <1>3, ProfileFieldsOf DEF Diary
  <2>5. own.saving /\ \A d \in calls : Saving(d) => d = c
    BY <1>3, ProfileFieldsOf DEF CallsAwaited, Saving
  <2>6. /\ \A d \in calls' : Saving(d) => own'.saving
        /\ \A d, e \in calls' : Saving(d) /\ Saving(e) => d = e
        /\ \A d \in calls' : d.chained => d.op = "load"
        /\ \A d \in calls' : d.done = "refused" => d.op = "mode"
    BY <2>1, <2>2, <2>3, <2>5, ProfileFieldsOf DEF CallsAwaited
  <2>7. diary.slips = {} => \A d \in calls \ {c} : d.op = "test"
    BY <1>3, ProfileFieldsOf DEF CallsAwaited
  <2>8. CallsAwaited'
    BY <2>1, <2>2, <2>3, <2>4, <2>6, <2>7 DEF CallsAwaited
  <2>9. ButtonsWait'
    BY <1>3, <2>1, <2>2, <2>3, ProfileFieldsOf DEF ButtonsWait
  <2> QED
    BY <1>1, <2>1, <2>2, <2>3, <2>4, <2>8, <2>9, ProfileFieldsOf, ProfileParts
<1>4. CASE (c.op = "test" \/ c.done = "refused") /\ own' = Ends(c) /\ calls' = calls \ {c} /\ diary' = diary
  <2>1. CallsAwaited'
    <3>1. c.op # "load" /\ ~(c.op \in {"mode", "custom"} /\ c.done = "yes")
      BY <1>4, ProfileFieldsOf DEF CallsAwaited
    <3>2. own.loaded /\ ~diary.typed /\ diary.slips = {} =>
            \/ ProfileShown'
            \/ \E d \in calls' : d.op = "load" \/ (d.op \in {"mode", "custom"} /\ d.done = "yes")
      BY <1>1, <1>4, <3>1, EndsIs, ProfileFieldsOf DEF CallsAwaited, ProfileShown
    <3>3. diary.slips = {} => \A d \in calls : d.op = "load" => own.loading
      BY ProfileFieldsOf DEF CallsAwaited
    <3>4. own'.loading = own.loading /\ own'.loaded = own.loaded
      BY <1>4, <3>1, EndsIs
    <3>5. /\ \A d \in calls' : Saving(d) => own'.saving
          /\ \A d, e \in calls' : Saving(d) /\ Saving(e) => d = e
          /\ \A d \in calls' : d.chained => d.op = "load"
          /\ \A d \in calls' : d.done = "refused" => d.op = "mode"
      BY <1>4, EndsIs, EndKeeps
    <3> QED
      BY <1>1, <1>4, <3>2, <3>3, <3>4, <3>5, ProfileFieldsOf DEF CallsAwaited
  <2>2. ButtonsWait'
    BY <1>4, EndsIs, EndKeeps
  <2> QED
    BY <1>1, <1>4, <2>1, <2>2, EndsIs, ProfileFieldsOf, ProfileParts
<1> QED
  BY <1>2, <1>3, <1>4 DEF Answered

(* The model settings (personal-center, model_preference_service): two saves *)
(* share one flag, a refresh loads the profile too and requests are lost;    *)
(* still each button waits for a request of its own, and the form ends as    *)
(* what is stored unless it was typed in, a request was lost or a refresh    *)
(* crossed a save.                                                           *)
THEOREM ProfileIsStored == ProfileSpec => []ProfileInv
<1>1. ProfileInv /\ [ProfileNext]_profileVars => ProfileInv'
  <2> SUFFICES ASSUME ProfileInv, [ProfileNext]_profileVars PROVE ProfileInv'
    OBVIOUS
  <2>1. CASE UNCHANGED profileVars
    <3>1. own' = own /\ preference' = preference /\ calls' = calls /\ diary' = diary
      BY <2>1 DEF profileVars
    <3>2. CallsAwaited' /\ ButtonsWait'
      BY <3>1, ProfileFieldsOf DEF CallsAwaited, ButtonsWait, Saving, ProfileShown
    <3> QED
      BY <3>1, <3>2, ProfileFieldsOf, ProfileParts
  <2>2. CASE SaveModelPreference
    BY <2>2, SaveKeeps DEF SaveModelPreference
  <2>3. CASE SaveCustomModel
    BY <2>3, SaveKeeps DEF SaveCustomModel
  <2> QED
    BY <2>1, <2>2, <2>3, TypeProfileKeeps, LoadProfileKeeps, TestKeeps, ServeKeeps, AnsweredProfileKeeps,
       ProfileLostKeeps DEF ProfileNext
<1> QED
  BY <1>1, ProfileStarts, PTL DEF ProfileSpec

-----------------------------------------------------------------------------
(* The upload dialog                                                         *)

DialogUser == [admin : BOOLEAN, tags : SUBSET DialogTags]
DialogRecord == [visible : BOOLEAN, loading : BOOLEAN, single : BOOLEAN, offered : BOOLEAN]
DialogLog == [acts : 0..MaxDialogActs, failed : BOOLEAN]

(* Each conjunct of UploadDialogInv that is not part of another.             *)
DialogTypes ==
    /\ who \in DialogUser /\ dialog \in DialogRecord /\ forms \in Seq(Form) /\ Len(forms) <= MaxOpenings
    /\ presets \in 0..MaxOpenings /\ saves \subseteq Save /\ queue \in [DialogFiles -> Task]
    /\ dialogLog \in DialogLog
Returns == ~dialogLog.failed => (dialog.loading => saves # {})

LEMMA DialogBounds ==
  /\ MaxDialogActs \in Nat /\ MaxOpenings \in Nat /\ "none" \notin DialogTags /\ "none" \notin DialogFiles
  /\ \A f \in DialogFiles : SizeOf[f] \in Nat
  /\ \A t \in MaybeTag : LimitIn(t) \in LimitsOfTags /\ LimitIn(t) \in Nat
<1>1. \A t \in DialogTags : LimitOf[t] \in Nat
  BY DialogAssumption
<1> QED
  BY <1>1, DialogAssumption DEF MaybeTag, LimitIn, LimitsOfTags

LEMMA DialogParts ==
  ASSUME DialogTypes', FormsOK', SavesOK', QueuedAsChosen', Returns'
  PROVE  UploadDialogInv'
<1>1. UploadDialogTypeOK'
  BY DEF DialogTypes, UploadDialogTypeOK, DialogUser, DialogRecord, DialogLog
<1>2. LimitOfTag'
  <2> SUFFICES ASSUME forms' # <<>> PROVE Model'.limit = LimitIn(Model'.tag)
    BY DEF LimitOfTag
  <2>1. forms' \in Seq(Form)
    BY DEF DialogTypes
  <2>2. Len(forms') \in DOMAIN forms'
    BY <2>1, EmptySeq, LenProperties
  <2> QED
    BY <2>2 DEF FormsOK, Model
<1>3. Cardinality(saves') <= 1
  BY AtMostOne DEF SavesOK
<1>4. DialogReturns'
  BY <1>3 DEF DialogReturns, SavesOK, Returns
<1> QED
  BY <1>1, <1>2, <1>4 DEF UploadDialogInv

LEMMA DialogFields ==
  ASSUME UploadDialogInv
  PROVE  /\ DialogTypes /\ FormsOK /\ SavesOK /\ QueuedAsChosen /\ Returns
         /\ who.admin \in BOOLEAN /\ who.tags \subseteq DialogTags
         /\ dialog.visible \in BOOLEAN /\ dialog.loading \in BOOLEAN /\ dialogLog.failed \in BOOLEAN
         /\ dialogLog.acts \in 0..MaxDialogActs
         /\ DOMAIN forms = 1..Len(forms) /\ Len(forms) \in Nat
         /\ \A i \in DOMAIN forms : forms[i] \in Form
         /\ forms # <<>> => Len(forms) \in DOMAIN forms
<1>1. DialogTypes
  BY DEF UploadDialogInv, UploadDialogTypeOK, DialogTypes, DialogUser, DialogRecord, DialogLog
<1>2. FormsOK /\ SavesOK /\ QueuedAsChosen /\ Returns
  BY DEF UploadDialogInv, DialogReturns, Returns
<1>3. /\ who.admin \in BOOLEAN /\ who.tags \subseteq DialogTags
      /\ dialog.visible \in BOOLEAN /\ dialog.loading \in BOOLEAN /\ dialogLog.failed \in BOOLEAN
      /\ dialogLog.acts \in 0..MaxDialogActs
  BY <1>1 DEF DialogTypes, DialogUser, DialogRecord, DialogLog
<1>4. forms \in Seq(Form)
  BY <1>1 DEF DialogTypes
<1>5. DOMAIN forms = 1..Len(forms) /\ Len(forms) \in Nat /\ \A i \in DOMAIN forms : forms[i] \in Form
  BY <1>4, SeqIs
<1>6. forms # <<>> => Len(forms) \in DOMAIN forms
  BY <1>4, <1>5, EmptySeq
<1> QED
  BY <1>1, <1>2, <1>3, <1>5, <1>6

LEMMA DialogStarts == UploadDialogInit => UploadDialogInv
<1> SUFFICES ASSUME UploadDialogInit PROVE UploadDialogInv
  OBVIOUS
<1>1. /\ who \in DialogUser /\ dialog = [visible |-> FALSE, loading |-> FALSE, single |-> FALSE, offered |-> FALSE]
      /\ forms = <<>> /\ presets = 0 /\ saves = {} /\ queue = [f \in DialogFiles |-> NoTask]
      /\ dialogLog = [acts |-> 0, failed |-> FALSE]
  BY DEF UploadDialogInit, DialogUser
<1>2. dialog \in DialogRecord /\ dialog.visible = FALSE /\ dialog.loading = FALSE
  BY <1>1 DEF DialogRecord
<1>3. 0 \in 0..MaxDialogActs /\ 0 \in 0..MaxOpenings /\ 0 <= MaxOpenings
  BY DialogBounds
<1>4. dialogLog \in DialogLog /\ dialogLog.failed = FALSE
  BY <1>1, <1>3 DEF DialogLog
<1>5. forms \in Seq(Form) /\ Len(forms) = 0 /\ DOMAIN forms = {}
  BY <1>1, EmptySeq
<1>6. NoTask \in Task
  BY DEF NoTask, Task, MaybeTag, Asked
<1>7. queue \in [DialogFiles -> Task]
  BY <1>1, <1>6
<1>8. UploadDialogTypeOK
  BY <1>1, <1>2, <1>3, <1>4, <1>5, <1>7 DEF UploadDialogTypeOK, DialogUser, DialogRecord, DialogLog
<1>9. FormsOK /\ LimitOfTag
  BY <1>1, <1>2, <1>5 DEF FormsOK, LimitOfTag
<1>10. SavesOK /\ QueuedAsChosen
  BY <1>1 DEF SavesOK, QueuedAsChosen
<1>11. DialogReturns
  <2>1. Cardinality(saves) <= 1
    BY <1>1, AtMostOne
  <2> QED
    BY <1>1, <1>2, <2>1 DEF DialogReturns
<1> QED
  BY <1>8, <1>9, <1>10, <1>11 DEF UploadDialogInv

LEMMA ActsIn ==
  ASSUME UploadDialogInv, Acts
  PROVE  dialogLog' \in DialogLog /\ dialogLog'.failed = dialogLog.failed
<1>1. dialogLog.acts + 1 \in 0..MaxDialogActs
  BY DialogFields, DialogBounds DEF Acts
<1>2. dialogLog \in DialogLog /\ dialogLog' = [dialogLog EXCEPT !.acts = dialogLog.acts + 1]
  BY DialogFields DEF DialogTypes, Acts
<1> QED
  BY <1>1, <1>2 DEF DialogLog

(* What a step that leaves the forms, the submissions and the tasks alone    *)
(* has to show.                                                              *)
LEMMA DialogOnly ==
  ASSUME UploadDialogInv, UNCHANGED <<who, forms, presets, saves, queue>>, dialog' \in DialogRecord,
         dialog'.visible => dialog.visible, dialog'.loading = dialog.loading, dialogLog' \in DialogLog,
         dialogLog'.failed = dialogLog.failed
  PROVE  UploadDialogInv'
<1>1. DialogTypes'
  BY DialogFields DEF DialogTypes
<1>2. FormsOK' /\ SavesOK'
  BY DialogFields DEF FormsOK, SavesOK, Fits, Takes
<1>3. QueuedAsChosen' /\ Returns'
  BY DialogFields DEF QueuedAsChosen, Returns, Takes
<1> QED
  BY <1>1, <1>2, <1>3, DialogParts

LEMMA CloseKeeps == UploadDialogInv /\ CloseDialog => UploadDialogInv'
<1> SUFFICES ASSUME UploadDialogInv, CloseDialog PROVE UploadDialogInv'
  OBVIOUS
<1>1. dialog \in DialogRecord /\ dialog' = [dialog EXCEPT !.visible = FALSE]
  BY DialogFields DEF DialogTypes, CloseDialog
<1>2. dialog' \in DialogRecord /\ dialog'.visible = FALSE /\ dialog'.loading = dialog.loading
  BY <1>1 DEF DialogRecord
<1> QED
  BY <1>2, ActsIn, DialogOnly DEF CloseDialog

LEMMA OfferKeeps == UploadDialogInv /\ Offer => UploadDialogInv'
<1> SUFFICES ASSUME UploadDialogInv, Offer PROVE UploadDialogInv'
  OBVIOUS
<1>1. dialog \in DialogRecord /\ dialog' = [dialog EXCEPT !.offered = TRUE] /\ dialogLog \in DialogLog
  BY DialogFields DEF DialogTypes, Offer
<1>2. dialog' \in DialogRecord /\ dialog'.visible = dialog.visible /\ dialog'.loading = dialog.loading
  BY <1>1 DEF DialogRecord
<1> QED
  BY <1>1, <1>2, DialogOnly DEF Offer

LEMMA OpenDialogKeeps == UploadDialogInv /\ OpenDialog => UploadDialogInv'
<1> SUFFICES ASSUME UploadDialogInv, OpenDialog PROVE UploadDialogInv'
  OBVIOUS
<1>1. /\ Len(forms) < MaxOpenings /\ forms' = Append(forms, DefaultForm)
      /\ dialog' = [dialog EXCEPT !.visible = TRUE, !.single = FALSE, !.offered = FALSE]
      /\ presets' = presets + (IF who.admin THEN 0 ELSE 1) /\ UNCHANGED <<who, saves, queue>>
  BY DEF OpenDialog
<1>2. /\ dialog \in DialogRecord /\ forms \in Seq(Form) /\ presets \in 0..MaxOpenings
      /\ presets <= Len(forms) /\ Len(forms) \in Nat
  BY DialogFields DEF DialogTypes, FormsOK
<1>3. dialog' \in DialogRecord /\ dialog'.loading = dialog.loading
  BY <1>1, <1>2 DEF DialogRecord
<1>4. DefaultForm \in Form /\ DefaultForm.limit = LimitIn(DefaultForm.tag)
  BY DEF DefaultForm, Form, MaybeTag, LimitsOfTags, MaybeFile, LimitIn
<1>5. /\ forms' \in Seq(Form) /\ Len(forms') = Len(forms) + 1
      /\ DOMAIN forms' = DOMAIN forms \cup {Len(forms) + 1} /\ forms'[Len(forms) + 1] = DefaultForm
      /\ \A k \in DOMAIN forms : k # Len(forms) + 1 /\ forms'[k] = forms[k]
  BY <1>1, <1>2, <1>4, Appended
<1>6. presets' \in 0..MaxOpenings /\ presets' <= Len(forms') /\ Len(forms') <= MaxOpenings
  BY <1>1, <1>2, <1>5, DialogBounds
<1>7. forms' # <<>>
  BY <1>5
<1>8. DialogTypes'
  BY <1>1, <1>3, <1>5, <1>6, ActsIn, DialogFields DEF DialogTypes, OpenDialog
<1>9. FormsOK'
  BY <1>4, <1>5, <1>6, <1>7, DialogFields DEF FormsOK
<1>10. SavesOK'
  BY <1>1, <1>3, <1>5, DialogFields DEF SavesOK, Fits, Takes
<1>11. QueuedAsChosen' /\ Returns'
  BY <1>1, <1>3, ActsIn, DialogFields DEF QueuedAsChosen, Returns, Takes, OpenDialog
<1> QED
  BY <1>8, <1>9, <1>10, <1>11, DialogParts

(* A change of the form: a submission of it is touched, others keep theirs.  *)
LEMMA EditedKeeps ==
  ASSUME UploadDialogInv, dialog.visible, NEW filled \in Form, filled.limit = LimitIn(filled.tag), Edited(filled),
         presets' \in 0..presets, UNCHANGED <<who, queue>>, dialog' \in DialogRecord,
         dialog'.loading = dialog.loading, dialogLog' \in DialogLog, dialogLog'.failed = dialogLog.failed
  PROVE  UploadDialogInv'
<1> DEFINE n == Len(forms)
           to(s) == [s EXCEPT !.touched = s.touched \/ s.form = n]
<1>1. forms' = [forms EXCEPT ![n] = filled] /\ saves' = {to(s) : s \in saves}
  BY DEF Edited
<1>2. forms \in Seq(Form) /\ n \in 1..Len(forms) /\ Len(forms) <= MaxOpenings
  BY DialogFields DEF DialogTypes, FormsOK
<1>3. /\ forms' \in Seq(Form) /\ Len(forms') = Len(forms)
      /\ \A j \in 1..Len(forms) : forms'[j] = IF j = n THEN filled ELSE forms[j]
  BY <1>1, <1>2, ExceptSeq
<1>4. DOMAIN forms' = DOMAIN forms /\ DOMAIN forms = 1..Len(forms)
  BY <1>1, <1>2, SeqIs
<1>5. ASSUME NEW s \in saves
      PROVE  /\ to(s) \in Save /\ to(s).form = s.form /\ to(s).file = s.file /\ to(s).asked = s.asked
             /\ (~to(s).touched => ~s.touched /\ s.form # n)
  <2>1. s \in Save
    BY DialogFields DEF DialogTypes
  <2> QED
    BY <2>1 DEF Save
<1> HIDE DEF n, to
<1>6. DialogTypes'
  <2>1. presets' \in 0..MaxOpenings
    BY DialogFields, DialogBounds DEF DialogTypes
  <2> QED
    BY <1>1, <1>2, <1>3, <1>5, <2>1, DialogFields DEF DialogTypes
<1>7. FormsOK'
  <2>1. presets' <= Len(forms')
    BY <1>3, DialogFields DEF FormsOK, DialogTypes
  <2>2. forms' # <<>>
    BY <1>2, <1>4
  <2>3. \A i \in DOMAIN forms' : forms'[i].limit = LimitIn(forms'[i].tag)
    BY <1>3, <1>4, DialogFields DEF FormsOK
  <2> QED
    BY <2>1, <2>2, <2>3 DEF FormsOK
<1>8. SavesOK'
  <2>1. \A s, t \in saves' : s = t
    BY <1>1, DialogFields DEF SavesOK
  <2>2. saves' # {} => dialog'.loading
    BY <1>1, DialogFields DEF SavesOK
  <2>3. ASSUME NEW s \in saves
        PROVE  /\ to(s).form \in DOMAIN forms'
               /\ ~to(s).touched =>
                    /\ to(s).asked = [tag |-> forms'[to(s).form].tag, public |-> forms'[to(s).form].public]
                    /\ Fits(to(s).asked.tag, to(s).file)
    <3>1. s.form \in DOMAIN forms
      BY DialogFields DEF SavesOK
    <3>2. CASE ~to(s).touched
      <4>1. ~s.touched /\ forms'[s.form] = forms[s.form]
        BY <1>3, <1>4, <1>5, <3>1, <3>2
      <4> QED
        BY <1>4, <1>5, <3>1, <4>1, DialogFields DEF SavesOK
    <3> QED
      BY <1>4, <1>5, <3>1, <3>2
  <2> QED
    BY <1>1, <2>1, <2>2, <2>3 DEF SavesOK, Fits, Takes
<1>9. QueuedAsChosen' /\ Returns'
  BY <1>1, DialogFields DEF QueuedAsChosen, Returns, Takes
<1> QED
  BY <1>6, <1>7, <1>8, <1>9, DialogParts

(* The form on the screen, and what is typed into it.                        *)
LEMMA ModelIs ==
  ASSUME UploadDialogInv, dialog.visible
  PROVE  Model \in Form /\ Model.limit = LimitIn(Model.tag) /\ Len(forms) \in DOMAIN forms
BY DialogFields DEF FormsOK, Model

LEMMA OnUpdateIs ==
  ASSUME NEW filled \in Form, NEW tag \in MaybeTag
  PROVE  OnUpdate(filled, tag) \in Form /\ OnUpdate(filled, tag).limit = LimitIn(OnUpdate(filled, tag).tag)
<1>1. LimitIn(tag) \in LimitsOfTags
  BY DialogBounds
<1> QED
  BY <1>1 DEF OnUpdate, Form

LEMMA PickKeeps == ASSUME UploadDialogInv, NEW tag \in MaybeTag, PickTag(tag) PROVE UploadDialogInv'
<1>1. OnUpdate(Model, tag) \in Form /\ OnUpdate(Model, tag).limit = LimitIn(OnUpdate(Model, tag).tag)
  BY ModelIs, OnUpdateIs DEF PickTag
<1>2. dialog \in DialogRecord /\ presets \in 0..presets
  BY DialogFields DEF DialogTypes
<1> QED
  BY <1>1, <1>2, ActsIn, EditedKeeps DEF PickTag

LEMMA PresetKeeps == ASSUME UploadDialogInv, NEW ok \in BOOLEAN, PresetArrives(ok) PROVE UploadDialogInv'
<1>1. /\ presets > 0 /\ presets' = presets - 1 /\ presets \in 0..MaxOpenings
      /\ dialog \in DialogRecord /\ dialogLog \in DialogLog /\ UNCHANGED <<who, queue, dialogLog>>
  BY DialogFields DEF PresetArrives, DialogTypes
<1>2. presets' \in 0..presets
  BY <1>1, DialogBounds
<1>3. CASE ok /\ dialog.visible /\ Cardinality(who.tags) = 1
  <2>1. PICK tag \in who.tags : Edited(OnUpdate(Model, tag))
    BY <1>3 DEF PresetArrives
  <2>2. dialog' = [dialog EXCEPT !.single = TRUE]
    BY <1>3 DEF PresetArrives
  <2>3. dialog' \in DialogRecord /\ dialog'.loading = dialog.loading
    BY <1>1, <2>2 DEF DialogRecord
  <2>4. tag \in MaybeTag
    BY DialogFields DEF MaybeTag
  <2>5. OnUpdate(Model, tag) \in Form /\ OnUpdate(Model, tag).limit = LimitIn(OnUpdate(Model, tag).tag)
    BY <1>3, <2>4, ModelIs, OnUpdateIs
  <2> QED
    BY <1>1, <1>2, <1>3, <2>1, <2>3, <2>5, EditedKeeps
<1>4. CASE ~(ok /\ dialog.visible /\ Cardinality(who.tags) = 1)
  <2>1. UNCHANGED <<forms, saves, dialog>>
    BY <1>4 DEF PresetArrives
  <2>2. presets' \in 0..MaxOpenings
    BY <1>1, <1>2, DialogBounds
  <2>3. presets' <= Len(forms)
    BY <1>1, DialogFields DEF FormsOK
  <2>4. DialogTypes'
    BY <1>1, <2>1, <2>2, DialogFields DEF DialogTypes
  <2>5. FormsOK' /\ SavesOK'
    BY <1>1, <2>1, <2>3, DialogFields DEF FormsOK, SavesOK, Fits, Takes
  <2>6. QueuedAsChosen' /\ Returns'
    BY <1>1, <2>1, DialogFields DEF QueuedAsChosen, Returns, Takes
  <2> QED
    BY <2>4, <2>5, <2>6, DialogParts
<1> QED
  BY <1>3, <1>4

LEMMA SetPublicKeeps == UploadDialogInv /\ SetPublic => UploadDialogInv'
<1> SUFFICES ASSUME UploadDialogInv, SetPublic PROVE UploadDialogInv'
  OBVIOUS
<1> DEFINE filled == [Model EXCEPT !.public = ~@]
<1>1. filled \in Form /\ filled.limit = LimitIn(filled.tag)
  BY ModelIs DEF SetPublic, Form
<1>2. dialog \in DialogRecord /\ presets \in 0..presets
  BY DialogFields DEF DialogTypes
<1> QED
  BY <1>1, <1>2, ActsIn, EditedKeeps DEF SetPublic

LEMMA ChooseFileKeeps == ASSUME UploadDialogInv, NEW file \in MaybeFile, ChooseFile(file) PROVE UploadDialogInv'
<1> DEFINE filled == [Model EXCEPT !.file = file]
<1>1. filled \in Form /\ filled.limit = LimitIn(filled.tag)
  BY ModelIs DEF ChooseFile, Form
<1>2. dialog \in DialogRecord /\ presets \in 0..presets
  BY DialogFields DEF DialogTypes
<1> QED
  BY <1>1, <1>2, ActsIn, EditedKeeps DEF ChooseFile

(* A submission: the form as it is, which fits.                              *)
LEMMA SubmissionIs ==
  ASSUME UploadDialogInv, HandleSubmit,
         NEW save, save = [form |-> Len(forms), file |-> Model.file, touched |-> FALSE,
                           asked |-> [tag |-> Model.tag, public |-> Model.public]]
  PROVE  /\ save \in Save /\ save.form = Len(forms) /\ save.file = Model.file
         /\ save.asked = [tag |-> Model.tag, public |-> Model.public] /\ save.asked.tag = Model.tag
         /\ Fits(Model.tag, Model.file)
<1>1. /\ dialog.visible /\ ~OverLimit(Model) /\ Model.tag # "none" /\ Model.file # "none"
      /\ Model \in Form /\ Model.limit = LimitIn(Model.tag) /\ Len(forms) \in DOMAIN forms
  BY ModelIs DEF HandleSubmit, SubmitDisabled
<1>2. Len(forms) \in 1..MaxOpenings
  BY <1>1, DialogFields, DialogBounds DEF DialogTypes
<1>3. Model.file \in DialogFiles /\ Model.tag \in MaybeTag /\ Model.public \in BOOLEAN
  BY <1>1 DEF Form, MaybeFile
<1>4. save \in Save
  BY <1>2, <1>3 DEF Save, Asked
<1>5. SizeOf[Model.file] \in Nat /\ LimitIn(Model.tag) \in Nat
  BY <1>3, DialogBounds
<1>6. Fits(Model.tag, Model.file)
  BY <1>1, <1>5 DEF OverLimit, Fits, Takes
<1> QED
  BY <1>4, <1>6

LEMMA HandleSubmitKeeps == UploadDialogInv /\ HandleSubmit => UploadDialogInv'
<1> SUFFICES ASSUME UploadDialogInv, HandleSubmit PROVE UploadDialogInv'
  OBVIOUS
<1> DEFINE save == [form |-> Len(forms), file |-> Model.file, touched |-> FALSE,
                    asked |-> [tag |-> Model.tag, public |-> Model.public]]
<1>1. /\ ~dialog.loading /\ dialog' = [dialog EXCEPT !.loading = TRUE] /\ saves' = saves \cup {save}
      /\ UNCHANGED <<who, forms, presets, queue>> /\ dialog.visible
  BY DEF HandleSubmit, SubmitDisabled
<1>2. /\ save \in Save /\ save.form = Len(forms) /\ save.file = Model.file
      /\ save.asked = [tag |-> Model.tag, public |-> Model.public] /\ save.asked.tag = Model.tag
      /\ Fits(Model.tag, Model.file)
  BY SubmissionIs
<1> HIDE DEF save
<1>3. dialog \in DialogRecord
  BY DialogFields DEF DialogTypes
<1>4. dialog' \in DialogRecord /\ dialog'.loading = TRUE /\ dialog'.visible = dialog.visible
  BY <1>1, <1>3 DEF DialogRecord
<1>5. saves = {}
  BY <1>1, DialogFields DEF SavesOK
<1>6. DialogTypes'
  BY <1>1, <1>2, <1>4, ActsIn, DialogFields DEF DialogTypes, HandleSubmit
<1>7. FormsOK'
  BY <1>1, <1>4, DialogFields DEF FormsOK
<1>8. SavesOK'
  <2>1. Len(forms) \in DOMAIN forms /\ Model = forms[Len(forms)]
    BY <1>1, ModelIs DEF Model
  <2> QED
    BY <1>1, <1>2, <1>4, <1>5, <2>1 DEF SavesOK, Fits, Takes
<1>9. QueuedAsChosen' /\ Returns'
  BY <1>1, <1>2, DialogFields DEF QueuedAsChosen, Returns, Takes
<1> QED
  BY <1>6, <1>7, <1>8, <1>9, DialogParts

(* The file is read: its task is the form's, or the one that was there.      *)
LEMMA EnqueuedIs ==
  ASSUME UploadDialogInv, NEW save \in saves
  PROVE  /\ Enqueued(save) \in Task
         /\ ~Enqueued(save).touched =>
              /\ [tag |-> Enqueued(save).tag, public |-> Enqueued(save).public] = Enqueued(save).asked
              /\ Fits(Enqueued(save).tag, save.file)
<1> DEFINE task == queue[save.file]
           filled == forms[save.form]
           new == [status |-> "pending", tag |-> filled.tag, public |-> filled.public,
                   asked |-> save.asked, touched |-> save.touched]
           again == [task EXCEPT !.status = "pending"]
<1>1. save \in Save /\ save.form \in DOMAIN forms
  BY DialogFields DEF DialogTypes, SavesOK
<1>2. save.file \in DialogFiles /\ save.asked \in Asked /\ save.touched \in BOOLEAN
  BY <1>1 DEF Save
<1>3. task \in Task /\ filled \in Form
  BY <1>1, <1>2, DialogFields DEF DialogTypes
<1>4. task # NoTask /\ ~task.touched =>
        [tag |-> task.tag, public |-> task.public] = task.asked /\ Fits(task.tag, save.file)
  BY <1>2, DialogFields DEF QueuedAsChosen, Fits
<1>5. ~save.touched => /\ save.asked = [tag |-> filled.tag, public |-> filled.public]
                       /\ Fits(save.asked.tag, save.file)
  BY DialogFields DEF SavesOK
<1>6. Enqueued(save) = IF task = NoTask THEN new ELSE IF task.status = "break" THEN again ELSE task
  BY DEF Enqueued, SubmittedForm
<1>7. /\ new \in Task /\ new.tag = filled.tag /\ new.public = filled.public
      /\ new.asked = save.asked /\ new.touched = save.touched
  BY <1>2, <1>3 DEF Task, Form
<1>8. /\ again \in Task /\ again.tag = task.tag /\ again.public = task.public
      /\ again.asked = task.asked /\ again.touched = task.touched
  BY <1>3 DEF Task
<1>9. ~save.touched => save.asked.tag = filled.tag
  BY <1>5
<1> HIDE DEF task, filled, new, again
<1>10. CASE task = NoTask
  BY <1>5, <1>6, <1>7, <1>9, <1>10
<1>11. CASE task # NoTask /\ task.status = "break"
  BY <1>4, <1>6, <1>8, <1>11
<1>12. CASE task # NoTask /\ task.status # "break"
  BY <1>3, <1>4, <1>6, <1>12
<1> QED
  BY <1>10, <1>11, <1>12

LEMMA HashedKeeps == ASSUME UploadDialogInv, NEW save \in saves, Hashed(save) PROVE UploadDialogInv'
<1>1. /\ queue' = [queue EXCEPT ![save.file] = Enqueued(save)] /\ saves' = saves \ {save}
      /\ dialog' = [dialog EXCEPT !.loading = FALSE, !.visible = FALSE]
      /\ UNCHANGED <<who, forms, presets, dialogLog>>
  BY DEF Hashed
<1>2. /\ dialog \in DialogRecord /\ queue \in [DialogFiles -> Task] /\ save \in Save
      /\ saves = {save}
  BY DialogFields DEF DialogTypes, SavesOK
<1>3. dialog' \in DialogRecord /\ dialog'.loading = FALSE /\ dialog'.visible = FALSE
  BY <1>1, <1>2 DEF DialogRecord
<1>4. save.file \in DialogFiles
  BY <1>2 DEF Save
<1> DEFINE task == Enqueued(save)
<1>5. /\ task \in Task
      /\ ~task.touched => [tag |-> task.tag, public |-> task.public] = task.asked /\ Fits(task.tag, save.file)
  BY EnqueuedIs
<1>6. queue' = [queue EXCEPT ![save.file] = task]
  BY <1>1
<1> HIDE DEF task
<1>7. /\ queue' \in [DialogFiles -> Task] /\ queue'[save.file] = task
      /\ \A f \in DialogFiles : f # save.file => queue'[f] = queue[f]
  BY <1>2, <1>4, <1>5, <1>6
<1>8. DialogTypes'
  BY <1>1, <1>3, <1>7, DialogFields DEF DialogTypes
<1>9. FormsOK' /\ SavesOK'
  BY <1>1, <1>2, <1>3, DialogFields DEF FormsOK, SavesOK
<1>10. QueuedAsChosen'
  <2> SUFFICES ASSUME NEW f \in DialogFiles, queue'[f] # NoTask, ~queue'[f].touched
               PROVE  /\ [tag |-> queue'[f].tag, public |-> queue'[f].public] = queue'[f].asked
                      /\ who.admin \/ Takes(queue'[f].tag, f)
    BY <1>1 DEF QueuedAsChosen, Takes
  <2>1. CASE f = save.file
    BY <1>5, <1>7, <2>1 DEF Fits
  <2>2. CASE f # save.file
    BY <1>7, <2>2, DialogFields DEF QueuedAsChosen
  <2> QED
    BY <2>1, <2>2
<1>11. Returns'
  BY <1>3 DEF Returns
<1> QED
  BY <1>8, <1>9, <1>10, <1>11, DialogParts

LEMMA HashFailsKeeps == ASSUME UploadDialogInv, NEW save \in saves, HashFails(save) PROVE UploadDialogInv'
<1>1. /\ saves' = saves \ {save} /\ dialogLog' = [dialogLog EXCEPT !.failed = TRUE]
      /\ dialogLog \in DialogLog /\ UNCHANGED <<who, dialog, forms, presets, queue>>
  BY DialogFields DEF HashFails, DialogTypes
<1>2. dialogLog' \in DialogLog /\ dialogLog'.failed = TRUE
  BY <1>1 DEF DialogLog
<1>3. DialogTypes'
  BY <1>1, <1>2, DialogFields DEF DialogTypes
<1>4. FormsOK' /\ SavesOK'
  BY <1>1, DialogFields DEF FormsOK, SavesOK, Fits, Takes
<1>5. QueuedAsChosen' /\ Returns'
  BY <1>1, <1>2, DialogFields DEF QueuedAsChosen, Returns, Takes
<1> QED
  BY <1>3, <1>4, <1>5, DialogParts

LEMMA TaskEndsKeeps ==
  ASSUME UploadDialogInv, NEW file \in DialogFiles, NEW status \in {"break", "completed"}, TaskEnds(file, status)
  PROVE  UploadDialogInv'
<1> DEFINE task == [queue[file] EXCEPT !.status = status]
<1>1. /\ queue[file].status = "pending" /\ queue' = [queue EXCEPT ![file] = task]
      /\ UNCHANGED <<who, dialog, forms, presets, saves, dialogLog>>
  BY DEF TaskEnds
<1>2. queue \in [DialogFiles -> Task] /\ queue[file] \in Task /\ queue[file] # NoTask
  BY <1>1, DialogFields DEF DialogTypes, NoTask
<1>3. /\ task \in Task /\ task.tag = queue[file].tag /\ task.public = queue[file].public
      /\ task.asked = queue[file].asked /\ task.touched = queue[file].touched
  BY <1>2 DEF Task
<1> HIDE DEF task
<1>4. /\ queue' \in [DialogFiles -> Task] /\ queue'[file] = task
      /\ \A f \in DialogFiles : f # file => queue'[f] = queue[f]
  BY <1>1, <1>2, <1>3
<1>5. DialogTypes'
  BY <1>1, <1>4, DialogFields DEF DialogTypes
<1>6. FormsOK' /\ SavesOK' /\ Returns'
  BY <1>1, DialogFields DEF FormsOK, SavesOK, Fits, Takes, Returns
<1>7. QueuedAsChosen'
  <2> SUFFICES ASSUME NEW f \in DialogFiles, queue'[f] # NoTask, ~queue'[f].touched
               PROVE  /\ [tag |-> queue'[f].tag, public |-> queue'[f].public] = queue'[f].asked
                      /\ who.admin \/ Takes(queue'[f].tag, f)
    BY <1>1 DEF QueuedAsChosen, Takes
  <2>1. CASE f = file
    BY <1>2, <1>3, <1>4, <2>1, DialogFields DEF QueuedAsChosen
  <2>2. CASE f # file
    BY <1>4, <2>2, DialogFields DEF QueuedAsChosen
  <2> QED
    BY <2>1, <2>2
<1> QED
  BY <1>5, <1>6, <1>7, DialogParts

(* The upload dialog (upload-dialog.vue, enqueueUpload): it can be closed    *)
(* and opened while a file is read, presets come late and forms change, and  *)
(* still the limit shown is of the tag chosen, a task goes where its own     *)
(* form said and fits there, and one submission at a time keeps the button.  *)
THEOREM UploadsAsChosen == UploadDialogSpec => []UploadDialogInv
<1>1. UploadDialogInv /\ [UploadDialogNext]_dialogVars => UploadDialogInv'
  <2> SUFFICES ASSUME UploadDialogInv, [UploadDialogNext]_dialogVars PROVE UploadDialogInv'
    OBVIOUS
  <2>1. CASE UNCHANGED dialogVars
    <3>1. UNCHANGED <<who, forms, presets, saves, queue>> /\ dialog' = dialog /\ dialogLog' = dialogLog
      BY <2>1 DEF dialogVars
    <3> QED
      BY <3>1, DialogOnly, DialogFields DEF DialogTypes
  <2>2. CASE FetchOpts \/ GetOptions
    BY <2>2, OfferKeeps DEF FetchOpts, GetOptions
  <2>3. ASSUME NEW tag \in MaybeTag, SelectTag(tag) \/ CascadeTag(tag) PROVE UploadDialogInv'
    BY <2>3, PickKeeps DEF SelectTag, CascadeTag
  <2> QED
    BY <2>1, <2>2, <2>3, OpenDialogKeeps, CloseKeeps, SetPublicKeeps, HandleSubmitKeeps, PresetKeeps,
       ChooseFileKeeps, HashedKeeps, HashFailsKeeps, TaskEndsKeeps DEF UploadDialogNext
<1> QED
  BY <1>1, DialogStarts, PTL DEF UploadDialogSpec

-----------------------------------------------------------------------------
(* The recharge page                                                         *)

Shop == [current : 0..MaxOrders, paying : BOOLEAN, tab : OrderTabs,
         listed : SUBSET (OrderNumbers \X {"NOT_PAY", "SUCCEED"}),
         known : SUBSET OrderNumbers, balance : SUBSET OrderNumbers, left : BOOLEAN]
Journal == [acts : 0..MaxShopActs, fails : 0..MaxShopFails, slips : SUBSET {"crossed", "lost"}]
Ledger == [OrderNumbers -> {"none", "NOT_PAY", "SUCCEED"}]

LEMMA ShopBounds ==
  /\ MaxOrders \in Nat /\ MaxShopActs \in Nat /\ MaxShopFails \in Nat
  /\ OrderNumbers \subseteq 0..MaxOrders /\ OrderNumbers \subseteq Nat /\ 0 \in 0..MaxOrders /\ 0 \notin OrderNumbers
BY RechargeAssumption DEF OrderNumbers

(* The three properties are parts of what is inductive.                      *)
LEMMA RechargeParts ==
  ASSUME shop' \in Shop, journal' \in Journal, ledgerOf' \in Ledger, asks' \subseteq Asks,
         BusyOnce', PaymentAwaited', ListsCover'
  PROVE  RechargeInv'
<1>1. RechargeTypeOK'
  BY DEF RechargeTypeOK, Shop, Journal, Ledger
<1>2. ~shop'.paying => \A a \in asks' : ~Busy(a) /\ a.op = "orders"
  BY DEF BusyOnce, Busy
<1>3. CurrentIsUnpaid' /\ BalanceIsRenewed'
  BY <1>2 DEF CurrentIsUnpaid, BalanceIsRenewed, PaymentAwaited
<1>4. UnpaidIsOffered'
  <2> SUFFICES ASSUME journal'.slips = {}, asks' = {}, shop'.tab # "SUCCEED",
                      NEW o \in shop'.known, ledgerOf'[o] = "NOT_PAY"
               PROVE  o \in Payable'
    BY DEF UnpaidIsOffered
  <2>1. HasUnpaid(shop.listed, shop.known, shop.tab)'
    BY DEF ListsCover, ListOnItsWay, ListsOnTheirWay
  <2>2. <<o, "NOT_PAY">> \in shop'.listed /\ o \in OrderNumbers
    BY <2>1 DEF HasUnpaid, Shop
  <2> QED
    BY <2>2 DEF Payable
<1> QED
  BY <1>1, <1>3, <1>4 DEF RechargeInv

LEMMA RechargeFields ==
  ASSUME RechargeInv
  PROVE  /\ shop \in Shop /\ journal \in Journal /\ ledgerOf \in Ledger /\ asks \subseteq Asks
         /\ BusyOnce /\ PaymentAwaited /\ ListsCover
         /\ shop.tab \in OrderTabs /\ shop.paying \in BOOLEAN /\ shop.current \in 0..MaxOrders
         /\ journal.acts \in 0..MaxShopActs /\ journal.fails \in 0..MaxShopFails
         /\ journal.slips \subseteq {"crossed", "lost"} /\ journal.acts \in Nat
<1>1. shop \in Shop /\ journal \in Journal /\ ledgerOf \in Ledger /\ asks \subseteq Asks
  BY DEF RechargeInv, RechargeTypeOK, Shop, Journal, Ledger
<1>2. shop.tab \in OrderTabs /\ shop.paying \in BOOLEAN /\ shop.current \in 0..MaxOrders
  BY <1>1 DEF Shop
<1>3. /\ journal.acts \in 0..MaxShopActs /\ journal.fails \in 0..MaxShopFails
      /\ journal.slips \subseteq {"crossed", "lost"}
  BY <1>1 DEF Journal
<1>4. journal.acts \in Nat
  BY <1>3, ShopBounds
<1> QED
  BY <1>1, <1>2, <1>3, <1>4 DEF RechargeInv

(* A request that is made, for a tab.                                        *)
LEMMA AskIs ==
  ASSUME NEW chained \in BOOLEAN, NEW t \in OrderTabs, shop.tab \in OrderTabs, journal.acts \in Nat,
         0 \in 0..MaxOrders
  PROVE  /\ [Ask("orders", 0, chained) EXCEPT !.tab = t] \in Asks
         /\ [Ask("orders", 0, chained) EXCEPT !.tab = t].op = "orders"
         /\ [Ask("orders", 0, chained) EXCEPT !.tab = t].chained = chained
         /\ [Ask("orders", 0, chained) EXCEPT !.tab = t].done = FALSE
         /\ [Ask("orders", 0, chained) EXCEPT !.tab = t].tab = t
         /\ [Ask("orders", 0, chained) EXCEPT !.tab = t].known = {}
BY DEF Ask, Asks

LEMMA RechargeStarts == RechargeInit => RechargeInv
<1> SUFFICES ASSUME RechargeInit PROVE RechargeInv
  OBVIOUS
<1>1. /\ shop = [current |-> 0, paying |-> FALSE, tab |-> "all", listed |-> {}, known |-> {},
                 balance |-> {}, left |-> FALSE]
      /\ ledgerOf = [o \in OrderNumbers |-> "none"] /\ journal = [acts |-> 0, fails |-> 0, slips |-> {}]
      /\ asks = {Ask("orders", 0, FALSE)}
  BY DEF RechargeInit
<1>2. /\ shop \in Shop /\ shop.current = 0 /\ shop.paying = FALSE /\ shop.tab = "all" /\ shop.known = {}
      /\ shop.balance = {}
  BY <1>1, ShopBounds DEF Shop, OrderTabs
<1>3. 0 \in 0..MaxShopActs /\ 0 \in 0..MaxShopFails
  BY ShopBounds
<1>4. journal \in Journal /\ journal.acts = 0
  BY <1>1, <1>3 DEF Journal
<1>5. ledgerOf \in Ledger /\ \A o \in OrderNumbers : ledgerOf[o] = "none"
  BY <1>1 DEF Ledger
<1> DEFINE a == Ask("orders", 0, FALSE)
<1>6. a \in Asks /\ a.op = "orders" /\ a.chained = FALSE /\ a.done = FALSE /\ a.tab = "all" /\ a.known = {}
  <2>1. shop.tab \in OrderTabs /\ journal.acts \in Nat /\ 0 \in 0..MaxOrders
    BY <1>2, <1>4, ShopBounds DEF OrderTabs
  <2> QED
    BY <1>2, <2>1 DEF Ask, Asks
<1> HIDE DEF a
<1>7. asks = {a}
  BY <1>1 DEF a
<1>8. RechargeTypeOK
  BY <1>2, <1>4, <1>5, <1>6, <1>7 DEF RechargeTypeOK, Shop, Journal, Ledger
<1>9. BusyOnce
  BY <1>6, <1>7 DEF BusyOnce, Busy
<1>10. Paid = {}
  BY <1>5 DEF Paid
<1>11. PaymentAwaited
  BY <1>2, <1>6, <1>7, <1>10 DEF PaymentAwaited
<1>12. ListsCover
  BY <1>2, <1>6, <1>7 DEF ListsCover, Exist, ListOnItsWay, ListsOnTheirWay
<1>13. CurrentIsUnpaid /\ UnpaidIsOffered /\ BalanceIsRenewed
  BY <1>2, <1>7, <1>10 DEF CurrentIsUnpaid, UnpaidIsOffered, BalanceIsRenewed
<1> QED
  BY <1>8, <1>9, <1>11, <1>12, <1>13 DEF RechargeInv

LEMMA ShoppedIs ==
  ASSUME RechargeInv, Shops
  PROVE  /\ Shopped \in Journal /\ Shopped.slips = journal.slips
         /\ \A S \in SUBSET {"crossed", "lost"} :
              [Shopped EXCEPT !.slips = S] \in Journal /\ [Shopped EXCEPT !.slips = S].slips = S
<1>1. journal.acts + 1 \in 0..MaxShopActs
  BY RechargeFields, ShopBounds DEF Shops
<1>2. Shopped = [journal EXCEPT !.acts = journal.acts + 1]
  BY DEF Shopped
<1>3. Shopped \in Journal /\ Shopped.slips = journal.slips
  BY <1>1, <1>2, RechargeFields DEF Journal
<1> QED
  BY <1>3 DEF Journal

(* The buttons: an order is made, or one is paid.                            *)
LEMMA ButtonKeeps ==
  ASSUME RechargeInv, Shops, ~shop.paying, NEW op \in {"create", "pay"}, NEW o \in 0..MaxOrders,
         op = "pay" => o \in OrderNumbers, op = "create" => \E p \in OrderNumbers : ledgerOf[p] = "none",
         shop' = [shop EXCEPT !.paying = TRUE], asks' = asks \cup {Ask(op, o, FALSE)},
         journal' = Shopped, ledgerOf' = ledgerOf
  PROVE  RechargeInv'
<1> DEFINE a == Ask(op, o, FALSE)
<1>1. /\ a \in Asks /\ a.op = op /\ a.order = o /\ a.chained = FALSE /\ a.done = FALSE /\ a.known = {}
  <2>1. op \in {"create", "pay", "user", "orders"} /\ FALSE \in BOOLEAN
    OBVIOUS
  <2>2. shop.tab \in OrderTabs /\ journal.acts \in Nat
    BY RechargeFields
  <2> QED
    BY <2>1, <2>2 DEF Ask, Asks
<1>2. asks' = asks \cup {a}
  OBVIOUS
<1> HIDE DEF a
<1>3. /\ shop' \in Shop /\ shop'.paying = TRUE /\ shop'.current = shop.current /\ shop'.tab = shop.tab
      /\ shop'.listed = shop.listed /\ shop'.known = shop.known /\ shop'.balance = shop.balance
  BY RechargeFields DEF Shop
<1>4. \A b \in asks : ~Busy(b)
  BY RechargeFields DEF BusyOnce
<1>5. BusyOnce'
  BY <1>1, <1>2, <1>3, <1>4 DEF BusyOnce, Busy
<1>6. PaymentAwaited'
  <2>1. Paid' = Paid
    BY DEF Paid
  <2>2. journal'.slips = journal.slips
    BY ShoppedIs
  <2> QED
    BY <1>1, <1>2, <1>3, <2>1, <2>2, RechargeFields DEF PaymentAwaited, Busy
<1>7. ListsCover'
  <2>1. journal'.slips = journal.slips
    BY ShoppedIs
  <2>2. ListOnItsWay' <=> ListOnItsWay
    BY <1>1, <1>2 DEF ListOnItsWay, ListsOnTheirWay
  <2> QED
    BY <1>1, <1>2, <1>3, <2>1, <2>2, RechargeFields DEF ListsCover, Exist, HasUnpaid
<1> QED
  BY <1>1, <1>2, <1>3, <1>5, <1>6, <1>7, ShoppedIs, RechargeFields, RechargeParts

LEMMA ChooseTabKeeps == ASSUME RechargeInv, NEW t \in OrderTabs, ChooseTab(t) PROVE RechargeInv'
<1> DEFINE a == [Ask("orders", 0, FALSE) EXCEPT !.tab = t]
           slips == journal.slips \cup IF ListOnItsWay THEN {"crossed"} ELSE {}
<1>1. /\ shop' = [shop EXCEPT !.tab = t] /\ asks' = asks \cup {a} /\ ledgerOf' = ledgerOf
      /\ journal' = [Shopped EXCEPT !.slips = slips] /\ Shops
  BY ShoppedIs DEF ChooseTab
<1>2. /\ a \in Asks /\ a.op = "orders" /\ a.chained = FALSE /\ a.done = FALSE /\ a.tab = t /\ a.known = {}
  BY RechargeFields, ShopBounds, AskIs
<1>3. /\ shop' \in Shop /\ shop'.paying = shop.paying /\ shop'.current = shop.current /\ shop'.tab = t
      /\ shop'.listed = shop.listed /\ shop'.known = shop.known /\ shop'.balance = shop.balance
  BY <1>1, RechargeFields DEF Shop
<1>4. slips \subseteq {"crossed", "lost"}
  BY RechargeFields
<1>5. journal' \in Journal /\ journal'.slips = slips
  BY <1>1, <1>4, ShoppedIs
<1>6. journal.slips \subseteq slips /\ (slips = {} => ~ListOnItsWay)
  OBVIOUS
<1> HIDE DEF a, slips
<1>7. BusyOnce'
  BY <1>1, <1>2, <1>3, RechargeFields DEF BusyOnce, Busy
<1>8. Paid' = Paid
  BY <1>1 DEF Paid
<1>9. PaymentAwaited'
  BY <1>1, <1>2, <1>3, <1>5, <1>6, <1>8, RechargeFields DEF PaymentAwaited
<1>10. ListsCover'
  <2>1. slips = {} => \A b \in asks : b.op # "orders"
    BY <1>6 DEF ListOnItsWay, ListsOnTheirWay
  <2>2. ListOnItsWay'
    BY <1>1, <1>2 DEF ListOnItsWay, ListsOnTheirWay
  <2> QED
    BY <1>1, <1>2, <1>3, <1>5, <2>1, <2>2, RechargeFields DEF ListsCover, Exist, HasUnpaid
<1> QED
  BY <1>1, <1>2, <1>3, <1>5, <1>7, <1>9, <1>10, RechargeFields, RechargeParts

(* The number of a new order.                                                *)
LEMMA NextOrderIs ==
  ASSUME ledgerOf \in Ledger, \E o \in OrderNumbers : ledgerOf[o] = "none"
  PROVE  NextOrder \in OrderNumbers /\ ledgerOf[NextOrder] = "none"
<1> DEFINE T == {o \in OrderNumbers : ledgerOf[o] = "none"}
<1>1. PICK R : R = {ss \in Nat \X Nat : ss[1] < ss[2]}
  OBVIOUS
<1>2. IsWellFoundedOn(R, Nat)
  BY <1>1, NatLessThanWellFounded DEF OpToRel
<1>3. T # {} /\ T \subseteq Nat
  BY ShopBounds
<1>4. \E n \in T : \A k \in T : ~(<<k, n>> \in R)
  BY <1>2, <1>3, WFMin
<1>5. PICK n \in T : \A k \in T : ~(k < n)
  BY <1>1, <1>3, <1>4
<1>6. \A p \in 1..(n - 1) : ledgerOf[p] # "none"
  <2>1. n \in 1..MaxOrders
    BY DEF OrderNumbers
  <2>2. \A p \in 1..(n - 1) : p \in OrderNumbers /\ p < n
    BY <2>1, ShopBounds DEF OrderNumbers
  <2> QED
    BY <1>5, <2>2
<1>7. \E o \in OrderNumbers : ledgerOf[o] = "none" /\ \A p \in 1..(o - 1) : ledgerOf[p] # "none"
  BY <1>6
<1> QED
  BY <1>7 DEF NextOrder

(* The server has done a request: what Served makes of it.                   *)
LEMMA ServedIs ==
  ASSUME RechargeInv, NEW a \in asks, NEW number \in 0..MaxOrders,
         number = IF a.op = "create" THEN NextOrder ELSE a.order
  PROVE  /\ Served(a) \in Asks /\ Served(a).op = a.op /\ Served(a).chained = a.chained /\ Served(a).tab = a.tab
         /\ Served(a).done = TRUE /\ Served(a).order = number
         /\ Served(a).orders = IF a.op = "orders" THEN {<<o, ledgerOf[o]>> : o \in ListedOn(a.tab)} ELSE {}
         /\ Served(a).known = IF a.op = "orders" THEN ListedOn("all") ELSE {}
         /\ Served(a).balance = IF a.op = "user" THEN Paid ELSE {}
<1> DEFINE orders == IF a.op = "orders" THEN {<<o, ledgerOf[o]>> : o \in ListedOn(a.tab)} ELSE {}
           known == IF a.op = "orders" THEN ListedOn("all") ELSE {}
           balance == IF a.op = "user" THEN Paid ELSE {}
<1>1. a \in Asks
  BY RechargeFields
<1>2. ledgerOf \in Ledger
  BY RechargeFields
<1>3. orders \in SUBSET (OrderNumbers \X {"NOT_PAY", "SUCCEED"})
  <2>1. \A o \in ListedOn(a.tab) : o \in OrderNumbers /\ ledgerOf[o] \in {"NOT_PAY", "SUCCEED"}
    BY <1>2 DEF ListedOn, Ledger
  <2> QED
    BY <2>1
<1>4. known \in SUBSET OrderNumbers /\ balance \in SUBSET OrderNumbers
  BY DEF ListedOn, Paid
<1>5. Served(a) = [a EXCEPT !.done = TRUE, !.order = number, !.orders = orders, !.known = known,
                            !.balance = balance]
  BY DEF Served
<1> HIDE DEF orders, known, balance
<1>6. /\ Served(a) \in Asks /\ Served(a).op = a.op /\ Served(a).chained = a.chained /\ Served(a).tab = a.tab
      /\ Served(a).done = TRUE /\ Served(a).order = number /\ Served(a).orders = orders
      /\ Served(a).known = known /\ Served(a).balance = balance
  BY <1>1, <1>3, <1>4, <1>5 DEF Asks
<1> QED
  BY <1>6 DEF orders, known, balance

LEMMA ServeAskKeeps == ASSUME RechargeInv, NEW a \in asks, ServeAsk(a) PROVE RechargeInv'
<1> DEFINE s == Served(a)
           number == IF a.op = "create" THEN NextOrder ELSE a.order
<1>1. /\ a.done = FALSE /\ asks' = (asks \ {a}) \cup {s} /\ shop' = shop /\ journal' = journal
      /\ ledgerOf' = CASE a.op = "create" -> [ledgerOf EXCEPT ![NextOrder] = "NOT_PAY"]
                        [] a.op = "pay" -> [ledgerOf EXCEPT ![a.order] = "SUCCEED"]
                        [] OTHER -> ledgerOf
  BY RechargeFields DEF ServeAsk, Asks
<1>2. /\ a \in Asks /\ a.op \in {"create", "pay", "user", "orders"} /\ a.order \in 0..MaxOrders
      /\ a.tab \in OrderTabs /\ a.chained \in BOOLEAN /\ ledgerOf \in Ledger
  BY RechargeFields DEF Asks
<1>3. /\ a.op = "create" => NextOrder \in OrderNumbers /\ ledgerOf[NextOrder] = "none"
      /\ a.op = "pay" => a.order \in OrderNumbers
  BY <1>1, <1>2, NextOrderIs, RechargeFields DEF BusyOnce
<1>4. number \in 0..MaxOrders
  BY <1>2, <1>3, ShopBounds
<1>5. /\ s \in Asks /\ s.op = a.op /\ s.chained = a.chained /\ s.tab = a.tab /\ s.done = TRUE
      /\ s.order = number
      /\ s.orders = IF a.op = "orders" THEN {<<o, ledgerOf[o]>> : o \in ListedOn(a.tab)} ELSE {}
      /\ s.known = IF a.op = "orders" THEN ListedOn("all") ELSE {}
      /\ s.balance = IF a.op = "user" THEN Paid ELSE {}
  BY <1>4, ServedIs
<1> HIDE DEF s
<1>6. CASE a.op = "create"
  <2>1. ledgerOf' = [ledgerOf EXCEPT ![NextOrder] = "NOT_PAY"] /\ s.order = NextOrder /\ s.known = {}
    BY <1>1, <1>5, <1>6
  <2>2. /\ ledgerOf' \in Ledger /\ ledgerOf'[NextOrder] = "NOT_PAY"
        /\ \A o \in OrderNumbers : o # NextOrder => ledgerOf'[o] = ledgerOf[o]
    BY <1>2, <1>3, <1>6, <2>1 DEF Ledger
  <2>3. Busy(a) /\ shop.paying /\ \A b \in asks : Busy(b) => b = a
    BY <1>6, RechargeFields DEF BusyOnce, Busy
  <2>4. \A b \in asks' : Busy(b) => b = s
    BY <1>1, <2>3
  <2>5. BusyOnce'
    BY <1>1, <1>3, <1>5, <1>6, <2>1, <2>2, <2>3, <2>4 DEF BusyOnce, Busy
  <2>6. Paid' = Paid
    BY <1>3, <1>6, <2>2 DEF Paid
  <2>7. PaymentAwaited'
    <3>1. \A b \in asks : b.op # "user" /\ b.op # "pay"
      BY <1>6, <2>3 DEF Busy
    <3>2. \A b \in asks' : b.op # "user"
      BY <1>1, <1>5, <1>6, <3>1
    <3>3. "lost" \notin journal.slips => shop.balance = Paid
      BY <3>1, RechargeFields DEF PaymentAwaited
    <3>4. "lost" \notin journal.slips => shop.current = 0 \/ ledgerOf'[shop.current] = "NOT_PAY"
      <4> SUFFICES ASSUME "lost" \notin journal.slips, shop.current # 0
                   PROVE  ledgerOf'[shop.current] = "NOT_PAY"
        OBVIOUS
      <4>1. ledgerOf[shop.current] = "NOT_PAY"
        BY <3>1, RechargeFields DEF PaymentAwaited
      <4>2. shop.current \in OrderNumbers
        BY RechargeFields, ShopBounds DEF OrderNumbers
      <4> QED
        BY <2>2, <4>1, <4>2
    <3>5. s \in asks' /\ Busy(s)
      BY <1>1, <1>5, <1>6 DEF Busy
    <3> QED
      BY <1>1, <2>6, <3>2, <3>3, <3>4, <3>5 DEF PaymentAwaited
  <2>8. ListsCover'
    <3>1. \A o \in OrderNumbers : ledgerOf[o] # "none" => ledgerOf'[o] = ledgerOf[o]
      BY <1>3, <1>6, <2>2
    <3>2. ListOnItsWay' <=> ListOnItsWay
      BY <1>1, <1>5, <1>6 DEF ListOnItsWay, ListsOnTheirWay
    <3>3. shop.known \subseteq OrderNumbers /\ \A b \in asks : b.known \subseteq OrderNumbers
      BY RechargeFields DEF Shop, Asks
    <3> QED
      BY <1>1, <1>5, <1>6, <2>1, <3>1, <3>2, <3>3, RechargeFields DEF ListsCover, Exist, HasUnpaid
  <2> QED
    BY <1>1, <1>5, <2>2, <2>5, <2>7, <2>8, RechargeFields, RechargeParts
<1>7. CASE a.op = "pay"
  <2>1. ledgerOf' = [ledgerOf EXCEPT ![a.order] = "SUCCEED"] /\ s.order = a.order /\ s.known = {}
    BY <1>1, <1>5, <1>7
  <2>2. /\ ledgerOf' \in Ledger /\ ledgerOf'[a.order] = "SUCCEED"
        /\ \A o \in OrderNumbers : o # a.order => ledgerOf'[o] = ledgerOf[o]
    BY <1>2, <1>3, <1>7, <2>1 DEF Ledger
  <2>3. Busy(a) /\ shop.paying /\ \A b \in asks : Busy(b) => b = a
    BY <1>7, RechargeFields DEF BusyOnce, Busy
  <2>4. \A b \in asks' : Busy(b) => b = s
    BY <1>1, <2>3
  <2>5. BusyOnce'
    BY <1>1, <1>3, <1>5, <1>7, <2>1, <2>3, <2>4 DEF BusyOnce, Busy
  <2>7. PaymentAwaited'
    <3>1. s \in asks' /\ Busy(s) /\ s.op = "pay" /\ s.done
      BY <1>1, <1>5, <1>7 DEF Busy
    <3>2. \A b \in asks' : b.op # "user"
      BY <2>4, <3>1 DEF Busy
    <3> QED
      BY <3>1, <3>2 DEF PaymentAwaited
  <2>8. ListsCover'
    <3>1. \A o \in OrderNumbers : /\ ledgerOf[o] # "none" => ledgerOf'[o] # "none"
                                  /\ ledgerOf'[o] = "NOT_PAY" => ledgerOf[o] = "NOT_PAY"
      BY <2>2
    <3>2. ListOnItsWay' <=> ListOnItsWay
      BY <1>1, <1>5, <1>7 DEF ListOnItsWay, ListsOnTheirWay
    <3>3. shop.known \subseteq OrderNumbers /\ \A b \in asks : b.known \subseteq OrderNumbers
      BY RechargeFields DEF Shop, Asks
    <3> QED
      BY <1>1, <1>5, <1>7, <2>1, <3>1, <3>2, <3>3, RechargeFields DEF ListsCover, Exist, HasUnpaid
  <2> QED
    BY <1>1, <1>5, <2>2, <2>5, <2>7, <2>8, RechargeFields, RechargeParts
<1>8. CASE a.op \in {"user", "orders"}
  <2>1. ledgerOf' = ledgerOf
    <3>1. a.op # "create" /\ a.op # "pay"
      BY <1>8
    <3> QED
      BY <1>1, <3>1
  <2>2. Busy(s) <=> Busy(a)
    BY <1>5 DEF Busy
  <2>3. BusyOnce'
    BY <1>1, <1>5, <1>8, <2>1, <2>2, RechargeFields DEF BusyOnce
  <2>4. Paid' = Paid
    BY <2>1 DEF Paid
  <2>5. PaymentAwaited'
    <3>1. "lost" \notin journal.slips => (shop.paying => \E b \in asks' : Busy(b))
      BY <1>1, <2>2, RechargeFields DEF PaymentAwaited
    <3>2. "lost" \notin journal.slips => \A b \in asks' : b.op = "user" /\ b.done => b.balance = Paid
      BY <1>1, <1>5, RechargeFields DEF PaymentAwaited
    <3>3. ASSUME "lost" \notin journal.slips
          PROVE  shop.balance = Paid \/ \E b \in asks' : b.op = "user" \/ (b.op = "pay" /\ b.done)
      BY <1>1, <1>5, <1>8, <3>3, RechargeFields DEF PaymentAwaited
    <3>4. ASSUME "lost" \notin journal.slips
          PROVE  \/ shop.current = 0 \/ ledgerOf[shop.current] = "NOT_PAY"
                 \/ \E b \in asks' : b.op = "pay" /\ b.done
      BY <1>1, <1>5, <1>8, <3>4, RechargeFields DEF PaymentAwaited
    <3> QED
      BY <1>1, <2>1, <2>4, <3>1, <3>2, <3>3, <3>4 DEF PaymentAwaited
  <2>6. ListsCover'
    <3>1. Exist(s.known)
      BY <1>5 DEF Exist, ListedOn
    <3>2. s.op = "orders" => HasUnpaid(s.orders, s.known, s.tab)
      <4> SUFFICES ASSUME a.op = "orders", a.tab # "SUCCEED", NEW o \in s.known, ledgerOf[o] = "NOT_PAY"
                   PROVE  <<o, "NOT_PAY">> \in s.orders
        BY <1>5 DEF HasUnpaid
      <4>1. o \in OrderNumbers /\ (a.tab = "all" \/ a.tab = "NOT_PAY")
        BY <1>2, <1>5 DEF ListedOn, OrderTabs
      <4>2. o \in ListedOn(a.tab)
        BY <4>1 DEF ListedOn
      <4>3. s.orders = {<<p, ledgerOf[p]>> : p \in ListedOn(a.tab)}
        BY <1>5
      <4> QED
        BY <4>2, <4>3
    <3>3. ListOnItsWay' <=> ListOnItsWay
      BY <1>1, <1>5 DEF ListOnItsWay, ListsOnTheirWay
    <3> QED
      BY <1>1, <1>5, <2>1, <3>1, <3>2, <3>3, RechargeFields DEF ListsCover, Exist, HasUnpaid
  <2> QED
    BY <1>1, <1>5, <2>1, <2>3, <2>5, <2>6, RechargeFields, RechargeParts
<1> QED
  BY <1>2, <1>6, <1>7, <1>8

LEMMA AnswerCreateKeeps == ASSUME RechargeInv, NEW a \in asks, AnswerAsk(a), a.op = "create" PROVE RechargeInv'
<1>1. /\ a.done /\ shop' = [shop EXCEPT !.current = a.order, !.paying = FALSE] /\ asks' = asks \ {a}
      /\ ledgerOf' = ledgerOf /\ a \in Asks
  BY RechargeFields DEF AnswerAsk
<1>2. journal' = [journal EXCEPT !.slips = journal.slips]
  BY DEF AnswerAsk
<1>3. journal' \in Journal /\ journal'.slips = journal.slips
  BY <1>2, RechargeFields DEF Journal
<1>4. a.order \in OrderNumbers /\ ledgerOf[a.order] = "NOT_PAY"
  BY <1>1, RechargeFields DEF BusyOnce
<1>5. /\ shop' \in Shop /\ shop'.current = a.order /\ shop'.paying = FALSE /\ shop'.tab = shop.tab
      /\ shop'.listed = shop.listed /\ shop'.known = shop.known /\ shop'.balance = shop.balance
  BY <1>1, <1>4, ShopBounds, RechargeFields DEF Shop
<1>6. \A b \in asks : Busy(b) => b = a
  BY RechargeFields DEF BusyOnce, Busy
<1>7. BusyOnce'
  BY <1>1, <1>6 DEF BusyOnce, Busy
<1>8. PaymentAwaited'
  <2>1. \A b \in asks : b.op # "user" /\ b.op # "pay"
    BY <1>6 DEF Busy
  <2>2. Paid' = Paid
    BY <1>1 DEF Paid
  <2> QED
    BY <1>1, <1>3, <1>4, <1>5, <2>1, <2>2, RechargeFields DEF PaymentAwaited
<1>9. ListsCover'
  <2>1. ListOnItsWay' <=> ListOnItsWay
    BY <1>1 DEF ListOnItsWay, ListsOnTheirWay
  <2> QED
    BY <1>1, <1>3, <1>5, <2>1, RechargeFields DEF ListsCover, Exist, HasUnpaid
<1> QED
  BY <1>1, <1>3, <1>5, <1>7, <1>8, <1>9, RechargeFields, RechargeParts

LEMMA AnswerPayKeeps == ASSUME RechargeInv, NEW a \in asks, AnswerAsk(a), a.op = "pay" PROVE RechargeInv'
<1> DEFINE n == Ask("user", 0, TRUE)
<1>1. /\ a.done /\ shop' = [shop EXCEPT !.current = 0] /\ asks' = (asks \ {a}) \cup {n}
      /\ ledgerOf' = ledgerOf /\ a \in Asks
  BY RechargeFields DEF AnswerAsk, AfterPayment
<1>2. journal' = [journal EXCEPT !.slips = journal.slips]
  BY DEF AnswerAsk
<1>3. journal' \in Journal /\ journal'.slips = journal.slips
  BY <1>2, RechargeFields DEF Journal
<1>4. n \in Asks /\ n.op = "user" /\ n.chained = TRUE /\ n.done = FALSE /\ n.known = {}
  <2>1. shop.tab \in OrderTabs /\ journal.acts \in Nat /\ 0 \in 0..MaxOrders
    BY RechargeFields, ShopBounds
  <2> QED
    BY <2>1 DEF Ask, Asks
<1> HIDE DEF n
<1>5. /\ shop' \in Shop /\ shop'.current = 0 /\ shop'.paying = shop.paying /\ shop'.tab = shop.tab
      /\ shop'.listed = shop.listed /\ shop'.known = shop.known /\ shop'.balance = shop.balance
  BY <1>1, ShopBounds, RechargeFields DEF Shop
<1>6. shop.paying /\ \A b \in asks : Busy(b) => b = a
  BY RechargeFields DEF BusyOnce, Busy
<1>7. BusyOnce'
  BY <1>1, <1>4, <1>5, <1>6 DEF BusyOnce, Busy
<1>8. PaymentAwaited'
  <2>1. \A b \in asks : b.op # "user"
    BY <1>6 DEF Busy
  <2>2. n \in asks' /\ Busy(n)
    BY <1>1, <1>4 DEF Busy
  <2> QED
    BY <1>1, <1>4, <1>5, <2>1, <2>2 DEF PaymentAwaited
<1>9. ListsCover'
  <2>1. ListOnItsWay' <=> ListOnItsWay
    BY <1>1, <1>4 DEF ListOnItsWay, ListsOnTheirWay
  <2> QED
    BY <1>1, <1>3, <1>4, <1>5, <2>1, RechargeFields DEF ListsCover, Exist, HasUnpaid
<1> QED
  BY <1>1, <1>3, <1>4, <1>5, <1>7, <1>8, <1>9, RechargeFields, RechargeParts

LEMMA AnswerUserKeeps == ASSUME RechargeInv, NEW a \in asks, AnswerAsk(a), a.op = "user" PROVE RechargeInv'
<1> DEFINE n == [Ask("orders", 0, TRUE) EXCEPT !.tab = shop.tab]
           slips == journal.slips \cup IF ListOnItsWay THEN {"crossed"} ELSE {}
<1>1. /\ a.done /\ shop' = [shop EXCEPT !.balance = a.balance] /\ asks' = (asks \ {a}) \cup {n}
      /\ ledgerOf' = ledgerOf /\ a \in Asks
  BY RechargeFields DEF AnswerAsk, RenewedTab
<1>2. journal' = [journal EXCEPT !.slips = slips] /\ slips \subseteq {"crossed", "lost"}
  BY RechargeFields DEF AnswerAsk
<1>4. n \in Asks /\ n.op = "orders" /\ n.chained = TRUE /\ n.done = FALSE /\ n.tab = shop.tab /\ n.known = {}
  BY RechargeFields, ShopBounds, AskIs
<1>10. journal.slips \subseteq slips /\ (slips = {} => ~ListOnItsWay)
  OBVIOUS
<1> HIDE DEF n, slips
<1>3. journal' \in Journal /\ journal'.slips = slips
  BY <1>2, RechargeFields DEF Journal
<1>11. a.balance \in SUBSET OrderNumbers
  BY <1>1 DEF Asks
<1>5. /\ shop' \in Shop /\ shop'.current = shop.current /\ shop'.paying = shop.paying /\ shop'.tab = shop.tab
      /\ shop'.listed = shop.listed /\ shop'.known = shop.known /\ shop'.balance = a.balance
  BY <1>1, <1>11, RechargeFields DEF Shop
<1>6. shop.paying /\ \A b \in asks : Busy(b) => b = a
  BY RechargeFields DEF BusyOnce, Busy
<1>7. BusyOnce'
  BY <1>1, <1>4, <1>5, <1>6 DEF BusyOnce, Busy
<1>8. PaymentAwaited'
  <2>1. \A b \in asks' : b.op # "user" /\ b.op # "pay"
    BY <1>1, <1>4, <1>6 DEF Busy
  <2>2. n \in asks' /\ Busy(n)
    BY <1>1, <1>4 DEF Busy
  <2>3. Paid' = Paid
    BY <1>1 DEF Paid
  <2>4. \A b \in asks : b.op # "pay"
    BY <1>6 DEF Busy
  <2> QED
    BY <1>1, <1>3, <1>5, <1>10, <2>1, <2>2, <2>3, <2>4, RechargeFields DEF PaymentAwaited
<1>9. ListsCover'
  <2>1. slips = {} => \A b \in asks : b.op # "orders"
    BY <1>10 DEF ListOnItsWay, ListsOnTheirWay
  <2>2. ListOnItsWay'
    BY <1>1, <1>4 DEF ListOnItsWay, ListsOnTheirWay
  <2> QED
    BY <1>1, <1>3, <1>4, <1>5, <2>1, <2>2, RechargeFields DEF ListsCover, Exist, HasUnpaid
<1> QED
  BY <1>1, <1>3, <1>4, <1>5, <1>7, <1>8, <1>9, RechargeFields, RechargeParts

LEMMA AnswerOrdersKeeps == ASSUME RechargeInv, NEW a \in asks, AnswerAsk(a), a.op = "orders" PROVE RechargeInv'
<1> DEFINE paying == IF a.chained THEN FALSE ELSE shop.paying
<1>1. /\ a.done /\ shop' = [shop EXCEPT !.listed = a.orders, !.known = a.known, !.paying = paying]
      /\ asks' = asks \ {a} /\ ledgerOf' = ledgerOf /\ a \in Asks
  BY RechargeFields DEF AnswerAsk
<1>2. journal' = [journal EXCEPT !.slips = journal.slips]
  BY DEF AnswerAsk
<1>3. journal' \in Journal /\ journal'.slips = journal.slips
  BY <1>2, RechargeFields DEF Journal
<1>4. /\ a.orders \in SUBSET (OrderNumbers \X {"NOT_PAY", "SUCCEED"}) /\ a.known \in SUBSET OrderNumbers
      /\ a.chained \in BOOLEAN /\ paying \in BOOLEAN
  BY <1>1, RechargeFields DEF Asks
<1> HIDE DEF paying
<1>5. /\ shop' \in Shop /\ shop'.current = shop.current /\ shop'.paying = paying /\ shop'.tab = shop.tab
      /\ shop'.listed = a.orders /\ shop'.known = a.known /\ shop'.balance = shop.balance
  BY <1>1, <1>4, RechargeFields DEF Shop
<1>6. Busy(a) <=> a.chained
  BY DEF Busy
<1>7. BusyOnce'
  BY <1>1, <1>4, <1>5, <1>6, RechargeFields DEF BusyOnce, paying
<1>8. PaymentAwaited'
  <2>1. Paid' = Paid
    BY <1>1 DEF Paid
  <2>2. "lost" \notin journal.slips => (paying => \E b \in asks' : Busy(b))
    BY <1>1, <1>6, RechargeFields DEF PaymentAwaited, paying
  <2> QED
    BY <1>1, <1>3, <1>5, <2>1, <2>2, RechargeFields DEF PaymentAwaited
<1>9. ListsCover'
  <2>1. HasUnpaid(a.orders, a.known, a.tab) /\ Exist(a.known)
    BY <1>1, RechargeFields DEF ListsCover
  <2>2. journal.slips = {} => a.tab = shop.tab
    BY RechargeFields DEF ListsCover
  <2> QED
    BY <1>1, <1>3, <1>5, <2>1, <2>2, RechargeFields DEF ListsCover, Exist, HasUnpaid
<1> QED
  BY <1>1, <1>3, <1>5, <1>7, <1>8, <1>9, RechargeFields, RechargeParts

LEMMA LoseAskKeeps == ASSUME RechargeInv, NEW a \in asks, LoseAsk(a) PROVE RechargeInv'
<1>1. /\ journal' = [journal EXCEPT !.fails = journal.fails + 1, !.slips = journal.slips \cup {"lost"}]
      /\ journal.fails < MaxShopFails /\ ledgerOf' = ledgerOf
  BY DEF LoseAsk
<1>2. journal.fails + 1 \in 0..MaxShopFails
  BY <1>1, RechargeFields, ShopBounds
<1>3. journal' \in Journal /\ "lost" \in journal'.slips
  BY <1>1, <1>2, RechargeFields DEF Journal
<1>4. PaymentAwaited'
  BY <1>3 DEF PaymentAwaited
<1>5. CASE a.op = "user"
  <2>1. shop' = [shop EXCEPT !.left = TRUE, !.paying = FALSE] /\ asks' = {}
    BY <1>5 DEF LoseAsk
  <2>2. shop' \in Shop /\ shop'.known = shop.known
    BY <2>1, RechargeFields DEF Shop
  <2>3. BusyOnce'
    BY <2>1 DEF BusyOnce
  <2>4. ListsCover'
    BY <1>1, <1>3, <2>1, <2>2, RechargeFields DEF ListsCover, Exist
  <2> QED
    BY <1>1, <1>3, <1>4, <2>1, <2>2, <2>3, <2>4, RechargeFields, RechargeParts
<1>6. CASE a.op # "user"
  <2> DEFINE paying == IF a.op = "orders" /\ ~a.chained THEN shop.paying ELSE FALSE
  <2>1. shop' = [shop EXCEPT !.paying = paying] /\ asks' = asks \ {a} /\ paying \in BOOLEAN
    BY <1>6, RechargeFields DEF LoseAsk
  <2> HIDE DEF paying
  <2>2. shop' \in Shop /\ shop'.known = shop.known /\ shop'.paying = paying
    BY <2>1, RechargeFields DEF Shop
  <2>3. BusyOnce'
    <3>1. paying = IF Busy(a) THEN FALSE ELSE shop.paying
      BY DEF Busy, paying
    <3>2. \A b \in asks' : Busy(b) => shop'.paying
      BY <2>1, <2>2, <3>1, RechargeFields DEF BusyOnce
    <3> QED
      BY <1>1, <2>1, <3>2, RechargeFields DEF BusyOnce
  <2>4. ListsCover'
    BY <1>1, <1>3, <2>1, <2>2, RechargeFields DEF ListsCover, Exist, HasUnpaid
  <2> QED
    BY <1>1, <1>3, <1>4, <2>1, <2>2, <2>3, <2>4, RechargeFields, RechargeParts
<1> QED
  BY <1>5, <1>6

(* The recharge page over the orders of the server (views/recharge,          *)
(* billing_service): lists cross, payments are renewed in three requests and *)
(* any of them may be lost; but for the losses it is the unpaid order that   *)
(* is shown, and the balance counts every payment when the buttons are free; *)
(* but for crossings too, every unpaid order that a list knew can be paid.   *)
THEOREM RechargesAreTrue == RechargeSpec => []RechargeInv
<1>1. RechargeInv /\ [RechargeNext]_shopVars => RechargeInv'
  <2> SUFFICES ASSUME RechargeInv, [RechargeNext]_shopVars PROVE RechargeInv'
    OBVIOUS
  <2>1. CASE UNCHANGED shopVars
    <3>1. shop' = shop /\ ledgerOf' = ledgerOf /\ asks' = asks /\ journal' = journal
      BY <2>1 DEF shopVars
    <3>2. Paid' = Paid /\ (ListOnItsWay' <=> ListOnItsWay)
      BY <3>1 DEF Paid, ListOnItsWay, ListsOnTheirWay
    <3>3. BusyOnce' /\ PaymentAwaited' /\ ListsCover'
      BY <3>1, <3>2, RechargeFields DEF BusyOnce, Busy, PaymentAwaited, ListsCover, Exist, HasUnpaid
    <3> QED
      BY <3>1, <3>3, RechargeFields, RechargeParts
  <2>2. CASE CreateOrder
    <3>1. Shops /\ ~shop.paying /\ \E o \in OrderNumbers : ledgerOf[o] = "none"
      BY <2>2 DEF CreateOrder
    <3>2. /\ shop' = [shop EXCEPT !.paying = TRUE] /\ asks' = asks \cup {Ask("create", 0, FALSE)}
          /\ journal' = Shopped /\ ledgerOf' = ledgerOf
      BY <2>2 DEF CreateOrder
    <3> QED
      BY <3>1, <3>2, ShopBounds, ButtonKeeps
  <2>3. ASSUME NEW o \in OrderNumbers, MockPay(o) PROVE RechargeInv'
    <3>1. /\ Shops /\ ~shop.paying /\ shop' = [shop EXCEPT !.paying = TRUE]
          /\ asks' = asks \cup {Ask("pay", o, FALSE)} /\ journal' = Shopped /\ ledgerOf' = ledgerOf
      BY <2>3 DEF MockPay
    <3> QED
      BY <3>1, ShopBounds, ButtonKeeps
  <2>4. ASSUME NEW a \in asks, AnswerAsk(a) PROVE RechargeInv'
    <3>1. a.op \in {"create", "pay", "user", "orders"}
      BY RechargeFields DEF Asks
    <3> QED
      BY <2>4, <3>1, AnswerCreateKeeps, AnswerPayKeeps, AnswerUserKeeps, AnswerOrdersKeeps
  <2> QED
    BY <2>1, <2>2, <2>3, <2>4, ChooseTabKeeps, ServeAskKeeps, LoseAskKeeps DEF RechargeNext
<1> QED
  BY <1>1, RechargeStarts, PTL DEF RechargeSpec

-----------------------------------------------------------------------------
(* From a citation to its document                                           *)

LEMMA SourceStarts == SourceInit => SourceInv
<1> SUFFICES ASSUME SourceInit PROVE SourceInv
  OBVIOUS
<1>1. SourceTypeOK
  <2>1. /\ trail.opens \in 0..MaxRowOpens /\ trail.fails \in 0..MaxErrors
        /\ trail = [opens |-> 0, sent |-> 0, newest |-> 0, fails |-> 0, slips |-> {}]
    BY SourceAssumption DEF SourceInit
  <2>2. trail \in [opens : 0..MaxRowOpens, sent : Nat, newest : Nat, fails : 0..MaxErrors,
                   slips : SUBSET {"byName", "overtaken", "pageLost"}]
    BY <2>1
  <2> QED
    BY <2>2 DEF SourceInit, SourceTypeOK, Hash, NothingShown, NoPage
<1>2. LoadsInOrder /\ NewestLoad /\ PageOfCited /\ DownloadAsAsked
  BY DEF SourceInit, LoadsInOrder, NewestLoad, PageOfCited, DownloadAsAsked
<1> QED
  BY <1>1, <1>2 DEF SourceInv

Trails == [opens : 0..MaxRowOpens, sent : Nat, newest : Nat, fails : 0..MaxErrors,
           slips : SUBSET {"byName", "overtaken", "pageLost"}]

LEMMA SourceTyped ==
  ASSUME SourceTypeOK
  PROVE  /\ trail \in Trails /\ cited.doc \in Docs /\ cited.page \in Pages
         /\ NameOf[cited.doc] \in Names /\ cited.doc # "none" /\ cited.doc # "error"
BY SourceAssumption DEF SourceTypeOK, Trails

LEMMA FailsTyped ==
  ASSUME SourceTypeOK, NEW ok \in BOOLEAN, ok \/ Fail PROVE FailsBy(ok) \in 0..MaxErrors
BY SourceAssumption DEF SourceTypeOK, Fail, FailsBy

(* The requests that n loads send beside the others, the last of them the    *)
(* newest of all.                                                            *)
LEMMA LoadsSent ==
  ASSUME SourceTypeOK, LoadsInOrder, NEW others \in SUBSET loads, NEW n \in 1..2, NEW t,
         t.name \in Names, t.hash \in Hash, Loading(others, t, n)
  PROVE  /\ loads' \subseteq [name : Names, hash : Hash, at : Nat]
         /\ \A l \in loads' : l.at <= trail.sent + n
         /\ \A l \in loads' : l.at = trail.sent + n => l.hash = t.hash
         /\ \E l \in loads' : l.at = trail.sent + n
         /\ shown' = NothingShown /\ spinning' = TRUE
<1>1. trail.sent \in Nat
  BY SourceTyped DEF Trails
<1>2. loads' = others \cup {[name |-> t.name, hash |-> t.hash, at |-> trail.sent + i] : i \in 1..n}
  BY DEF Loading
<1>3. others \subseteq [name : Names, hash : Hash, at : Nat] /\ \A l \in others : l.at <= trail.sent
  BY DEF SourceTypeOK, LoadsInOrder
<1>4. \A l \in loads' \ others : \E i \in 1..n : l = [name |-> t.name, hash |-> t.hash, at |-> trail.sent + i]
  BY <1>2
<1>5. \A l \in loads' \ others :
         l \in [name : Names, hash : Hash, at : Nat] /\ l.hash = t.hash /\ l.at <= trail.sent + n
  BY <1>1, <1>4
<1>6. [name |-> t.name, hash |-> t.hash, at |-> trail.sent + n] \in loads'
  BY <1>1, <1>2
<1>7. \A l \in others : l.at < trail.sent + n
  BY <1>1, <1>3
<1>8. \A l \in loads' : l.at = trail.sent + n => l.hash = t.hash
  <2> SUFFICES ASSUME NEW l \in loads', l.at = trail.sent + n PROVE l.hash = t.hash
    OBVIOUS
  <2>1. l \notin others
    BY <1>1, <1>3, <1>7
  <2> QED
    BY <1>5, <2>1
<1>9. \A l \in loads' : l \in [name : Names, hash : Hash, at : Nat] /\ l.at <= trail.sent + n
  BY <1>1, <1>3, <1>5, <1>7
<1> QED
  BY <1>6, <1>8, <1>9 DEF Loading

LEMMA OpensStep ==
  ASSUME SourceInv, NEW known \in BOOLEAN, NEW fails \in 0..MaxErrors, OpensWith(known, fails),
         UNCHANGED <<host, cited, kept, download>>
  PROVE  SourceInv'
<1> DEFINE hash == IF known \/ cited.form = "md5" THEN cited.doc ELSE "none"
           at == IF known THEN cited.page ELSE NoPage
           t == [name |-> NameOf[cited.doc], hash |-> hash, visible |-> TRUE, page |-> at]
           slips == (IF hash = "none" THEN {"byName"} ELSE {}) \cup (IF known THEN {} ELSE {"pageLost"})
<1>1. /\ SourceTypeOK /\ LoadsInOrder /\ NewestLoad /\ PageOfCited /\ DownloadAsAsked
      /\ trail \in Trails
  BY SourceTyped DEF SourceInv
<1>a. host' = host /\ cited' = cited /\ kept' = kept /\ download' = download
  OBVIOUS
<1>2. /\ target' = t /\ Loading(loads, t, 1)
      /\ ask' = IF hash # "none" THEN "opened" ELSE "page"
  BY DEF OpensWith
<1>3. trail' = [trail EXCEPT !.sent = @ + 1, !.fails = fails, !.slips = @ \cup slips]
  <2>1. trail' = [trail EXCEPT !.sent = @ + 1, !.fails = fails,
                    !.slips = @ \cup (IF hash = "none" THEN {"byName"} ELSE {})
                                \cup (IF known THEN {} ELSE {"pageLost"})]
    BY DEF OpensWith
  <2>2. trail.slips \cup (IF hash = "none" THEN {"byName"} ELSE {}) \cup (IF known THEN {} ELSE {"pageLost"})
          = trail.slips \cup slips
    OBVIOUS
  <2> HIDE DEF slips, hash
  <2> QED
    BY <2>1, <2>2
<1>4. hash \in Hash /\ at \in Pages \cup {NoPage} /\ (hash = cited.doc \/ hash = "none")
  BY <1>1, SourceTyped DEF Hash
<1>5. /\ slips \in SUBSET {"byName", "overtaken", "pageLost"}
      /\ hash = "none" => "byName" \in slips
      /\ known \/ "pageLost" \in slips
  OBVIOUS
<1>6. known => at = cited.page
  OBVIOUS
<1> HIDE DEF slips, hash, at
<1>7. /\ t \in [name : Names \cup {"none"}, hash : Hash, page : Pages \cup {NoPage}, visible : BOOLEAN]
      /\ t.name \in Names /\ t.hash = hash /\ t.visible /\ t.page = at
  BY <1>1, <1>4, SourceTyped
<1> HIDE DEF t
<1>8. /\ trail' \in Trails /\ trail'.sent = trail.sent + 1 /\ trail'.newest = trail.newest
      /\ trail'.slips = trail.slips \cup slips
  <2>1. trail \in Trails /\ trail.slips \in SUBSET {"byName", "overtaken", "pageLost"} /\ trail.sent + 1 \in Nat
    BY <1>1 DEF Trails
  <2>2. trail.slips \cup slips \in SUBSET {"byName", "overtaken", "pageLost"}
    BY <1>5, <2>1
  <2> QED
    BY <1>3, <2>1, <2>2 DEF Trails
<1>9. /\ loads' \subseteq [name : Names, hash : Hash, at : Nat]
      /\ \A l \in loads' : l.at <= trail.sent + 1
      /\ \A l \in loads' : l.at = trail.sent + 1 => l.hash = hash
      /\ \E l \in loads' : l.at = trail.sent + 1
      /\ shown' = NothingShown /\ spinning' = TRUE
  <2>1. Loading(loads, t, 1) /\ t.name \in Names /\ t.hash \in Hash
    BY <1>2, <1>4, <1>7
  <2>2. /\ loads' \subseteq [name : Names, hash : Hash, at : Nat]
        /\ \A l \in loads' : l.at <= trail.sent + 1
        /\ \A l \in loads' : l.at = trail.sent + 1 => l.hash = t.hash
        /\ \E l \in loads' : l.at = trail.sent + 1
        /\ shown' = NothingShown /\ spinning' = TRUE
    <3>1. loads \in SUBSET loads /\ 1 \in 1..2
      OBVIOUS
    <3> QED
      BY <1>1, <2>1, <3>1, LoadsSent
  <2> QED
    BY <1>7, <2>2
<1>10. SourceTypeOK'
  BY <1>1, <1>2, <1>7, <1>8, <1>9
  DEF SourceTypeOK, Trails, NothingShown, NoPage, Hash
<1>11. LoadsInOrder'
  BY <1>1, <1>8, <1>9, SourceTyped DEF LoadsInOrder, Trails
<1>12. hash = cited'.doc \/ (hash = "none" /\ "byName" \in trail'.slips)
  BY <1>a, <1>4, <1>5, <1>8
<1>13. trail'.newest < trail'.sent
  BY <1>1, <1>8, SourceTyped DEF LoadsInOrder, Trails
<1>14. NewestLoad'
  <2>1. AsCited(target.hash)' /\ \A l \in loads' : l.at = trail'.sent => AsCited(l.hash)'
    <3>1. target'.hash = hash /\ \A l \in loads' : l.at = trail'.sent => l.hash = hash
      BY <1>2, <1>7, <1>8, <1>9
    <3> QED
      BY <1>12, <3>1 DEF AsCited
  <2> QED
    BY <1>8, <1>9, <1>13, <2>1, SourceTyped DEF NewestLoad, Trails
<1>15. PageOfCited'
  BY <1>2, <1>5, <1>6, <1>7, <1>8, <1>9, SourceAssumption DEF PageOfCited, NothingShown
<1>16. DownloadAsAsked'
  BY <1>1, <1>8 DEF DownloadAsAsked, Found
<1> QED
  BY <1>10, <1>11, <1>14, <1>15, <1>16 DEF SourceInv

LEMMA ClicksStep ==
  ASSUME SourceInv, Click \/ ClickAnswers \/ OpenKept PROVE SourceInv'
<1>1. CASE Click
  <2>1. ask' \in {"idle", "click", "ready", "page", "opened"}
    BY <1>1 DEF Click
  <2>2. UNCHANGED <<host, cited, kept, target, loads, shown, spinning, download, trail>>
    BY <1>1 DEF Click
  <2> QED
    BY <2>1, <2>2 DEF SourceInv, SourceTypeOK, LoadsInOrder, NewestLoad, AsCited, PageOfCited,
       DownloadAsAsked, Found
<1>2. CASE ClickAnswers
  <2>1. PICK ok \in BOOLEAN : (ok \/ Fail) /\ OpensWith(ok \/ kept # "none", FailsBy(ok))
    BY <1>2 DEF ClickAnswers
  <2>2. FailsBy(ok) \in 0..MaxErrors /\ (ok \/ kept # "none") \in BOOLEAN
    BY <2>1, FailsTyped DEF SourceInv
  <2>3. UNCHANGED <<host, cited, kept, download>>
    BY <1>2 DEF ClickAnswers
  <2> QED
    BY <2>1, <2>2, <2>3, OpensStep
<1>3. CASE OpenKept
  <2>1. OpensWith(TRUE, trail.fails) /\ UNCHANGED <<host, cited, kept, download>>
    BY <1>3 DEF OpenKept
  <2>2. trail.fails \in 0..MaxErrors
    BY DEF SourceInv, SourceTypeOK
  <2> QED
    BY <2>1, <2>2, OpensStep
<1> QED
  BY <1>1, <1>2, <1>3

LEMMA DetailStep == ASSUME SourceInv, DetailAnswers PROVE SourceInv'
<1>1. /\ SourceTypeOK /\ LoadsInOrder /\ NewestLoad /\ PageOfCited /\ DownloadAsAsked
      /\ trail \in Trails /\ cited.doc \in Docs /\ cited.page \in Pages
  BY SourceTyped DEF SourceInv
<1>2. PICK ok \in BOOLEAN :
        /\ ok \/ Fail
        /\ target' = IF ok THEN [target EXCEPT !.hash = cited.doc, !.page = cited.page] ELSE target
        /\ trail' = [trail EXCEPT !.fails = FailsBy(ok)]
  BY DEF DetailAnswers
<1>3. /\ ask' = "opened" /\ host' = host /\ cited' = cited /\ kept' = kept /\ loads' = loads
      /\ shown' = shown /\ spinning' = spinning /\ download' = download
  BY DEF DetailAnswers
<1>4. FailsBy(ok) \in 0..MaxErrors
  BY <1>1, <1>2, FailsTyped
<1>5. /\ trail' \in Trails /\ trail'.sent = trail.sent /\ trail'.newest = trail.newest
      /\ trail'.slips = trail.slips
  BY <1>1, <1>2, <1>4 DEF Trails
<1>6. /\ target' \in [name : Names \cup {"none"}, hash : Hash, page : Pages \cup {NoPage}, visible : BOOLEAN]
      /\ target'.visible = target.visible
      /\ target'.hash = cited.doc \/ target'.hash = target.hash
      /\ target'.page = cited.page \/ target'.page = target.page
  BY <1>1, <1>2 DEF SourceTypeOK, Hash
<1>7. SourceTypeOK'
  BY <1>1, <1>3, <1>5, <1>6 DEF SourceTypeOK, Trails
<1>8. LoadsInOrder' /\ DownloadAsAsked'
  BY <1>1, <1>3, <1>5 DEF LoadsInOrder, DownloadAsAsked, Found
<1>9. NewestLoad'
  BY <1>1, <1>3, <1>5, <1>6 DEF NewestLoad, AsCited
<1>10. PageOfCited'
  BY <1>1, <1>3, <1>5, <1>6 DEF PageOfCited
<1> QED
  BY <1>7, <1>8, <1>9, <1>10 DEF SourceInv

LEMMA RowStep == ASSUME SourceInv, NEW d \in Docs, OpenRow(d) PROVE SourceInv'
<1>1. /\ SourceTypeOK /\ LoadsInOrder /\ NewestLoad /\ PageOfCited /\ DownloadAsAsked
      /\ trail \in Trails /\ host = "table" /\ trail.opens < MaxRowOpens
  BY SourceTyped DEF SourceInv, OpenRow
<1> DEFINE t == [name |-> NameOf[d], hash |-> d, page |-> NoPage, visible |-> TRUE]
<1>2. PICK same \in BOOLEAN :
        LET n == IF same THEN 2 ELSE 1
        IN /\ target' = t
           /\ Loading(IF same THEN loads ELSE {}, t, n)
           /\ trail' = [trail EXCEPT !.opens = @ + 1, !.sent = @ + n,
                                     !.newest = IF same THEN @ ELSE 0]
  BY DEF OpenRow
<1>3. /\ cited' = [cited EXCEPT !.doc = d] /\ host' = host /\ kept' = kept /\ ask' = ask
      /\ download' = download
  BY DEF OpenRow
<1> DEFINE n == IF same THEN 2 ELSE 1
           others == IF same THEN loads ELSE {}
           newest == IF same THEN trail.newest ELSE 0
<1>4. target' = t /\ Loading(others, t, n)
  BY <1>2
<1>5. trail' = [trail EXCEPT !.opens = @ + 1, !.sent = @ + n, !.newest = newest]
  BY <1>2
<1>6. n \in 1..2 /\ others \in SUBSET loads
  OBVIOUS
<1>7. newest \in Nat /\ newest < trail.sent + n
  BY <1>1 DEF Trails, LoadsInOrder
<1> HIDE DEF n, others, newest
<1>8. NameOf[d] \in Names /\ d # "none"
  BY SourceAssumption
<1>9. /\ t \in [name : Names \cup {"none"}, hash : Hash, page : Pages \cup {NoPage}, visible : BOOLEAN]
      /\ t.name \in Names /\ t.hash = d /\ t.hash \in Hash /\ t.visible
  BY <1>8 DEF Hash
<1> HIDE DEF t
<1>10. /\ loads' \subseteq [name : Names, hash : Hash, at : Nat]
       /\ \A l \in loads' : l.at <= trail.sent + n
       /\ \A l \in loads' : l.at = trail.sent + n => l.hash = d
       /\ \E l \in loads' : l.at = trail.sent + n
       /\ shown' = NothingShown /\ spinning' = TRUE
  <2>1. /\ loads' \subseteq [name : Names, hash : Hash, at : Nat]
        /\ \A l \in loads' : l.at <= trail.sent + n
        /\ \A l \in loads' : l.at = trail.sent + n => l.hash = t.hash
        /\ \E l \in loads' : l.at = trail.sent + n
        /\ shown' = NothingShown /\ spinning' = TRUE
    BY <1>1, <1>4, <1>6, <1>9, LoadsSent
  <2> QED
    BY <1>9, <2>1
<1>11. /\ trail' \in Trails /\ trail'.sent = trail.sent + n /\ trail'.newest = newest
       /\ trail'.slips = trail.slips
  <2>1. trail \in Trails /\ trail.sent + n \in Nat /\ trail.opens + 1 \in 0..MaxRowOpens
    BY <1>1, <1>6, SourceAssumption DEF Trails
  <2> QED
    BY <1>5, <1>7, <2>1 DEF Trails
<1>12. /\ cited' \in [doc : Docs, page : Pages, form : {"page", "md5", "plain"}]
       /\ cited'.doc = d
  BY <1>1, <1>3 DEF SourceTypeOK
<1>13. SourceTypeOK'
  BY <1>1, <1>3, <1>4, <1>9, <1>10, <1>11, <1>12
  DEF SourceTypeOK, Trails, NothingShown, NoPage, Hash
<1>14. trail'.newest < trail'.sent /\ trail'.newest \in Nat /\ trail'.sent \in Nat
  BY <1>7, <1>11 DEF Trails
<1>15. LoadsInOrder'
  BY <1>10, <1>11, <1>14 DEF LoadsInOrder
<1>16. NewestLoad'
  BY <1>4, <1>9, <1>10, <1>11, <1>12, <1>14 DEF NewestLoad, AsCited
<1>17. PageOfCited'
  BY <1>1, <1>3 DEF PageOfCited
<1>18. DownloadAsAsked'
  BY <1>1, <1>3, <1>11 DEF DownloadAsAsked, Found
<1> QED
  BY <1>13, <1>15, <1>16, <1>17, <1>18 DEF SourceInv

LEMMA CloseRowStep == ASSUME SourceInv, CloseRow PROVE SourceInv'
<1>1. /\ UNCHANGED <<host, cited, kept, ask, loads, shown, spinning, download, trail>>
      /\ target' = [name |-> "none", hash |-> "none", page |-> NoPage, visible |-> FALSE]
  BY DEF CloseRow
<1>2. SourceTypeOK'
  BY <1>1 DEF SourceInv, SourceTypeOK, Hash
<1> QED
  BY <1>1, <1>2 DEF SourceInv, LoadsInOrder, NewestLoad, PageOfCited, DownloadAsAsked, Found

LEMMA AnswerStep == ASSUME SourceInv, NEW l \in loads, Answer(l) PROVE SourceInv'
<1>1. /\ SourceTypeOK /\ LoadsInOrder /\ NewestLoad /\ PageOfCited /\ DownloadAsAsked
      /\ trail \in Trails /\ l.at \in Nat /\ l.hash \in Hash /\ l.at <= trail.sent
  BY SourceTyped DEF SourceInv, SourceTypeOK, LoadsInOrder
<1>2. PICK ok \in BOOLEAN, d \in Found(l) :
        /\ ok \/ Fail
        /\ shown' = [doc |-> IF ok THEN d ELSE "error",
                     page |-> IF ok THEN target.page ELSE NoPage]
        /\ trail' = [trail EXCEPT !.fails = FailsBy(ok),
                              !.newest = IF @ > l.at THEN @ ELSE l.at,
                              !.slips = @ \cup IF trail.newest > l.at THEN {"overtaken"} ELSE {}]
  BY DEF Answer
<1>3. /\ loads' = loads \ {l} /\ spinning' = FALSE
      /\ host' = host /\ cited' = cited /\ kept' = kept /\ ask' = ask /\ target' = target
      /\ download' = download
  BY DEF Answer
<1> DEFINE newest == IF trail.newest > l.at THEN trail.newest ELSE l.at
           slips == IF trail.newest > l.at THEN {"overtaken"} ELSE {}
<1>4. FailsBy(ok) \in 0..MaxErrors
  BY <1>1, <1>2, FailsTyped
<1>5. /\ newest \in Nat /\ newest <= trail.sent /\ newest >= l.at /\ newest >= trail.newest
      /\ newest = trail.newest \/ newest = l.at
  BY <1>1 DEF LoadsInOrder, Trails
<1>6. /\ slips \in SUBSET {"byName", "overtaken", "pageLost"}
      /\ "overtaken" \in slips <=> trail.newest > l.at
      /\ "byName" \notin slips /\ "pageLost" \notin slips
  OBVIOUS
<1>7. trail' = [trail EXCEPT !.fails = FailsBy(ok), !.newest = newest, !.slips = @ \cup slips]
  BY <1>1, <1>2 DEF Trails
<1> HIDE DEF newest, slips
<1>8. /\ trail' \in Trails /\ trail'.sent = trail.sent /\ trail'.newest = newest
      /\ trail'.slips = trail.slips \cup slips
  <2>1. trail \in Trails /\ trail.slips \cup slips \in SUBSET {"byName", "overtaken", "pageLost"}
    BY <1>1, <1>6 DEF Trails
  <2> QED
    BY <1>4, <1>5, <1>7, <2>1 DEF Trails
<1>9. d \in Docs /\ (l.hash # "none" => d = l.hash)
  BY <1>1, <1>2 DEF Found, Hash
<1>10. /\ shown'.doc \in Hash \cup {"error"} /\ (shown'.doc = "error" \/ shown'.doc = d)
       /\ shown' \in [doc : Hash \cup {"error"}, page : Pages \cup {NoPage}]
       /\ shown'.doc \in Docs => shown'.page = target.page
  <2>1. target.page \in Pages \cup {NoPage} /\ d \in Hash /\ "error" \notin Docs
    BY <1>1, <1>9, SourceAssumption DEF SourceTypeOK, Hash
  <2> QED
    BY <1>2, <2>1
<1>11. SourceTypeOK'
  <2>1. trail' \in [opens : 0..MaxRowOpens, sent : Nat, newest : Nat, fails : 0..MaxErrors,
                    slips : SUBSET {"byName", "overtaken", "pageLost"}]
    BY <1>8 DEF Trails
  <2>2. loads' \subseteq [name : Names, hash : Hash, at : Nat] /\ spinning' \in BOOLEAN
    BY <1>1, <1>3 DEF SourceTypeOK
  <2>3. shown' \in [doc : Hash \cup {"error"}, page : Pages \cup {NoPage}]
    BY <1>10
  <2> QED
    BY <1>1, <1>3, <2>1, <2>2, <2>3 DEF SourceTypeOK
<1>12. LoadsInOrder'
  BY <1>1, <1>3, <1>5, <1>8 DEF LoadsInOrder
<1>13. NewestLoad'
  <2> SUFFICES ASSUME target.visible
               PROVE /\ AsCited(target.hash)'
                     /\ \A k \in loads' : k.at = trail'.sent => AsCited(k.hash)'
                     /\ trail'.newest < trail'.sent => \E k \in loads' : k.at = trail'.sent
                     /\ trail'.newest = trail'.sent /\ trail'.slips \cap {"byName", "overtaken"} = {}
                          => shown'.doc \in {"error", cited'.doc}
    BY <1>3 DEF NewestLoad
  <2>1. /\ AsCited(target.hash) /\ \A k \in loads : k.at = trail.sent => AsCited(k.hash)
        /\ trail.newest < trail.sent => \E k \in loads : k.at = trail.sent
    BY <1>1 DEF NewestLoad
  <2>2. AsCited(target.hash)' /\ \A k \in loads' : k.at = trail'.sent => AsCited(k.hash)'
    BY <1>3, <1>8, <2>1 DEF AsCited
  <2>3. ASSUME trail'.newest < trail'.sent PROVE \E k \in loads' : k.at = trail'.sent
    <3>1. trail.newest < trail.sent /\ l.at # trail.sent
      BY <1>1, <1>5, <1>8, <2>3 DEF Trails
    <3> QED
      BY <1>3, <1>8, <2>1, <3>1
  <2>4. ASSUME trail'.newest = trail'.sent, trail'.slips \cap {"byName", "overtaken"} = {}
        PROVE  shown'.doc \in {"error", cited'.doc}
    <3>1. ~(trail.newest > l.at) /\ "byName" \notin trail.slips
      BY <1>6, <1>8, <2>4
    <3>2. l.at = trail.sent
      BY <1>1, <1>5, <1>8, <2>4, <3>1 DEF Trails
    <3>3. l.hash = cited.doc /\ cited.doc # "none"
      BY <1>1, <2>1, <3>1, <3>2, SourceTyped DEF AsCited
    <3> QED
      BY <1>3, <1>9, <1>10, <3>3
  <2> QED
    BY <2>2, <2>3, <2>4
<1>14. PageOfCited'
  BY <1>1, <1>3, <1>8, <1>10 DEF PageOfCited
<1>15. DownloadAsAsked'
  BY <1>1, <1>3, <1>8 DEF DownloadAsAsked, Found
<1> QED
  BY <1>11, <1>12, <1>13, <1>14, <1>15 DEF SourceInv

LEMMA DownloadStep == ASSUME SourceInv, Download \/ DownloadAnswers PROVE SourceInv'
<1>1. /\ SourceTypeOK /\ LoadsInOrder /\ NewestLoad /\ PageOfCited /\ DownloadAsAsked
      /\ trail \in Trails /\ cited.doc \in Docs
  BY SourceTyped DEF SourceInv
<1>2. /\ host' = host /\ cited' = cited /\ kept' = kept /\ ask' = ask /\ target' = target
      /\ loads' = loads /\ shown' = shown /\ spinning' = spinning /\ trail' = trail
  BY DEF Download, DownloadAnswers
<1>3. LoadsInOrder' /\ NewestLoad' /\ PageOfCited'
  BY <1>1, <1>2 DEF LoadsInOrder, NewestLoad, AsCited, PageOfCited
<1>4. /\ download' \in [name : Names \cup {"none"}, hash : Hash, wanted : Hash, got : Hash]
      /\ DownloadAsAsked'
  <2>1. CASE Download
    <3>1. /\ target.visible
          /\ download' = [name |-> target.name, hash |-> target.hash, wanted |-> cited.doc, got |-> "none"]
      BY <2>1 DEF Download, DownloadKey
    <3>2. AsCited(target.hash)
      BY <1>1, <3>1 DEF NewestLoad
    <3> QED
      BY <1>1, <1>2, <3>1, <3>2 DEF DownloadAsAsked, AsCited, SourceTypeOK, Hash
  <2>2. CASE DownloadAnswers
    <3>1. PICK d \in Found(download) : download' = [download EXCEPT !.got = d]
      BY <2>2 DEF DownloadAnswers
    <3>2. download.name # "none"
      BY <2>2 DEF DownloadAnswers
    <3>3. d \in Hash
      BY <1>1, <3>1 DEF SourceTypeOK, Found, Hash
    <3>4. /\ download' \in [name : Names \cup {"none"}, hash : Hash, wanted : Hash, got : Hash]
          /\ download'.name = download.name /\ download'.hash = download.hash
          /\ download'.wanted = download.wanted /\ download'.got = d
      BY <1>1, <3>1, <3>3 DEF SourceTypeOK
    <3>5. Found(download)' = Found(download)
      BY <3>4 DEF Found
    <3> QED
      BY <1>1, <1>2, <3>1, <3>2, <3>4, <3>5 DEF DownloadAsAsked
  <2> QED
    BY <2>1, <2>2
<1>5. SourceTypeOK'
  BY <1>1, <1>2, <1>4 DEF SourceTypeOK
<1> QED
  BY <1>3, <1>4, <1>5 DEF SourceInv

LEMMA SourceLeads == ASSUME SourceInv PROVE CitationsLead
<1>1. /\ SourceTypeOK /\ LoadsInOrder /\ NewestLoad /\ PageOfCited /\ DownloadAsAsked
      /\ trail \in Trails /\ cited.doc # "none" /\ "none" \notin Docs /\ "error" \notin Docs
  BY SourceTyped, SourceAssumption DEF SourceInv
<1>2. PreviewOfCited
  <2> SUFFICES ASSUME Settled, trail.slips \cap {"byName", "overtaken"} = {}
               PROVE shown.doc = cited.doc
    BY DEF PreviewOfCited
  <2>1. trail.newest = trail.sent
    BY <1>1 DEF Settled, NewestLoad, LoadsInOrder, Trails
  <2> QED
    BY <1>1, <2>1 DEF Settled, NewestLoad
<1>3. PreviewOnPage
  BY <1>1 DEF PreviewOnPage, PageOfCited, Settled
<1>4. DownloadOfCited
  BY <1>1 DEF DownloadOfCited, DownloadAsAsked, Found
<1> QED
  BY <1>2, <1>3, <1>4 DEF CitationsLead

(* The preview shows the document and the page that were cited or clicked,   *)
(* and downloads it, whatever is closed and opened again while requests are  *)
(* under way (file-preview.vue, reference-preview-page.vue).                 *)
THEOREM CitationsHold == SourceSpec => []CitationsLead
<1>1. ASSUME SourceInv, SourceNext PROVE SourceInv'
  BY <1>1, ClicksStep, DetailStep, RowStep, CloseRowStep, AnswerStep, DownloadStep DEF SourceNext
<1>2. ASSUME SourceInv, UNCHANGED sourceVars PROVE SourceInv'
  BY <1>2 DEF sourceVars, SourceInv, SourceTypeOK, LoadsInOrder, NewestLoad, AsCited, PageOfCited,
     DownloadAsAsked, Found
<1> QED
  BY <1>1, <1>2, SourceStarts, SourceLeads, PTL DEF SourceSpec

-----------------------------------------------------------------------------
(* The theme                                                                 *)

ThemeTab == [open : BOOLEAN, set : Settings, start : Settings,
             small : BOOLEAN, collapse : BOOLEAN, css : BOOLEAN]

LEMMA ThemeStarts == ThemeInit => ThemeInv
<1> SUFFICES ASSUME ThemeInit PROVE ThemeInv
  OBVIOUS
<1>1. /\ ThemeSettings \in Settings /\ Closed \in ThemeTab /\ ~Closed.open
      /\ Closed.set = ThemeSettings
  BY DEF ThemeSettings, Settings, Schemes, Layouts, Closed, ThemeTab
<1>2. \A t \in BrowserTabs : page[t] = Closed
  BY DEF ThemeInit
<1>3. ThemeTypeOK
  BY <1>1, ThemeAssumption
  DEF ThemeInit, ThemeTypeOK, ThemeTab, NoSettings, Settings, Schemes, Layouts, Backup, NoBackup
<1>4. SchemeKept /\ LayoutRecovered /\ OneTab
  BY <1>1, <1>2 DEF ThemeInit, SchemeKept, LayoutRecovered, OneTab
<1>5. NothingStored /\ HeldBack
  BY <1>1, <1>2 DEF ThemeInit, NothingStored, HeldBack, ThemeSettings, NoBackup, NoSettings
<1> QED
  BY <1>3, <1>4, <1>5 DEF ThemeInv

LEMMA TapTyped ==
  ASSUME ThemeTypeOK, Tap PROVE memo.taps + 1 \in 0..MaxTaps
BY ThemeAssumption DEF ThemeTypeOK, Tap

(* The tab that follows the width of its window.                             *)
WideLayout(s, local) == IF local.backup # NoBackup THEN local.backup.layout ELSE s.layout
WideSider(collapse, local) == IF local.backup # NoBackup THEN local.backup.collapse ELSE collapse

LEMMA WidthFollowed ==
  ASSUME ThemeTypeOK, NEW t \in BrowserTabs, NEW s \in Settings, NEW collapse \in BOOLEAN,
         NEW small \in BOOLEAN, NEW local, local.backup \in Backup,
         FollowWidth(t, s, collapse, small, local)
  PROVE /\ page' \in [BrowserTabs -> ThemeTab]
        /\ \A u \in BrowserTabs \ {t} : page'[u] = page[u]
        /\ page'[t].open /\ page'[t].small = small /\ page'[t].css = Dark(s)
        /\ page'[t].set.scheme = s.scheme
        /\ small => page'[t].set.layout = "vertical" /\ page'[t].collapse
        /\ ~small => page'[t].set.layout = WideLayout(s, local)
        /\ ~small => page'[t].collapse = WideSider(collapse, local)
<1> DEFINE set == [s EXCEPT !.layout = IF small THEN "vertical"
                                       ELSE IF local.backup # NoBackup /\ ~small THEN local.backup.layout
                                       ELSE s.layout]
           start == IF page[t].open THEN page[t].start ELSE s
           sider == IF small THEN TRUE
                    ELSE IF local.backup # NoBackup /\ ~small THEN local.backup.collapse ELSE collapse
           tab == [open |-> TRUE, small |-> small, css |-> Dark(s), set |-> set,
                   start |-> start, collapse |-> sider]
<1>1. page \in [BrowserTabs -> ThemeTab]
  BY DEF ThemeTypeOK, ThemeTab
<1>2. page' = [page EXCEPT ![t] = tab]
  BY DEF FollowWidth
<1>3. local.backup # NoBackup => local.backup.layout \in Layouts /\ local.backup.collapse \in BOOLEAN
  BY DEF Backup, NoBackup
<1>4. /\ set \in Settings /\ set.scheme = s.scheme
      /\ set.layout = IF small THEN "vertical" ELSE WideLayout(s, local)
  BY <1>3 DEF Settings, Layouts, WideLayout
<1>5. start \in Settings
  BY <1>1 DEF ThemeTab
<1>6. sider \in BOOLEAN /\ sider = IF small THEN TRUE ELSE WideSider(collapse, local)
  BY <1>3 DEF WideSider
<1>7. Dark(s) \in BOOLEAN
  BY DEF Dark
<1> HIDE DEF set, start, sider
<1>8. /\ tab \in ThemeTab /\ tab.open /\ tab.small = small /\ tab.css = Dark(s)
      /\ tab.set = set /\ tab.collapse = sider
  BY <1>4, <1>5, <1>6, <1>7 DEF ThemeTab
<1> HIDE DEF tab
<1> QED
  BY <1>1, <1>2, <1>4, <1>6, <1>8

LEMMA StoredTyped == ASSUME ThemeTypeOK PROVE Stored \in Settings
<1>1. ThemeSettings \in Settings
  BY DEF ThemeSettings, Settings, Schemes, Layouts
<1>2. Overrides => Override \in Schemes
  BY ThemeAssumption DEF Overrides, Schemes
<1> QED
  BY <1>1, <1>2 DEF ThemeTypeOK, Stored, Settings

(* Of the records that change what is told of the user.                      *)
LEMMA MemoTyped ==
  ASSUME ThemeTypeOK, Tap, NEW S \in SUBSET {"crash", "shared", "small", "reset"},
         NEW c \in Schemes, NEW l \in Layouts, NEW b \in BOOLEAN
  PROVE /\ memo.scheme \in Schemes /\ memo.layout \in Layouts /\ memo.collapse \in BOOLEAN
        /\ memo.slips \cup S \in SUBSET {"crash", "shared", "small", "reset"}
        /\ LET m == [memo EXCEPT !.taps = @ + 1, !.scheme = c, !.layout = l, !.collapse = b,
                                 !.slips = @ \cup S]
           IN /\ m \in [scheme : Schemes, layout : Layouts, collapse : BOOLEAN, taps : 0..MaxTaps,
                        slips : SUBSET {"crash", "shared", "small", "reset"}]
              /\ m.scheme = c /\ m.layout = l /\ m.collapse = b /\ m.slips = memo.slips \cup S
<1>1. memo.taps + 1 \in 0..MaxTaps
  BY TapTyped
<1> QED
  BY <1>1 DEF ThemeTypeOK

LEMMA StartStep ==
  ASSUME ThemeInv, NEW t \in BrowserTabs, NEW small \in BOOLEAN, StartTab(t, small)
  PROVE ThemeInv'
<1> DEFINE local == [stg EXCEPT !.flag = IF system.dev THEN @ ELSE system.build, !.dark = Dark(Stored)]
           slips == (IF \E u \in BrowserTabs : page[u].open THEN {"shared"} ELSE {})
                      \cup (IF small THEN {"small"} ELSE {})
           scheme == IF system.dev THEN Stored.scheme ELSE IF Overrides THEN Override ELSE memo.scheme
           layout == IF system.dev /\ stg.backup = NoBackup THEN Stored.layout ELSE memo.layout
           collapse == IF stg.backup = NoBackup THEN FALSE ELSE memo.collapse
<1>1. ThemeTypeOK /\ Tap /\ ~page[t].open /\ FollowWidth(t, Stored, FALSE, small, local)
      /\ UNCHANGED system
  BY DEF ThemeInv, StartTab
<1>2. Stored \in Settings /\ Stored.scheme \in Schemes /\ Stored.layout \in Layouts
  BY <1>1, StoredTyped DEF Settings
<1>3. Overrides => Override \in Schemes
  BY ThemeAssumption DEF Overrides, Schemes
<1>4. /\ local \in [settings : Settings \cup {NoSettings}, flag : 0..2, dark : BOOLEAN, backup : Backup]
      /\ local.backup = stg.backup /\ local.settings = stg.settings
  <2> DEFINE flag == IF system.dev THEN stg.flag ELSE system.build
             dark == Dark(Stored)
  <2>1. dark \in BOOLEAN
    BY DEF Dark
  <2>2. flag \in 0..2
    BY <1>1 DEF ThemeTypeOK
  <2>3. local = [stg EXCEPT !.flag = flag, !.dark = dark]
    OBVIOUS
  <2> HIDE DEF local, flag, dark
  <2> QED
    BY <1>1, <2>1, <2>2, <2>3 DEF ThemeTypeOK
<1>5. scheme \in Schemes /\ layout \in Layouts /\ collapse \in BOOLEAN
  BY <1>1, <1>2, <1>3 DEF ThemeTypeOK
<1>6. slips \in SUBSET {"crash", "shared", "small", "reset"}
  OBVIOUS
<1>7. memo' = [memo EXCEPT !.taps = @ + 1, !.scheme = scheme, !.layout = layout,
                           !.collapse = collapse, !.slips = @ \cup slips]
  <2>1. memo' = [memo EXCEPT !.taps = @ + 1, !.scheme = scheme, !.layout = layout,
                   !.collapse = collapse,
                   !.slips = @ \cup (IF \E u \in BrowserTabs : page[u].open THEN {"shared"} ELSE {})
                               \cup (IF small THEN {"small"} ELSE {})]
    BY DEF StartTab
  <2>2. memo.slips \cup (IF \E u \in BrowserTabs : page[u].open THEN {"shared"} ELSE {})
                   \cup (IF small THEN {"small"} ELSE {}) = memo.slips \cup slips
    OBVIOUS
  <2> HIDE DEF slips, scheme, layout, collapse
  <2> QED
    BY <2>1, <2>2
<1>8. stg' = [local EXCEPT !.backup =
                IF small THEN [layout |-> Stored.layout, collapse |-> FALSE] ELSE NoBackup]
  BY <1>1 DEF FollowWidth
<1>a. "shared" \in slips <=> \E u \in BrowserTabs : page[u].open
  OBVIOUS
<1>b. "small" \in slips <=> small
  OBVIOUS
<1> HIDE DEF local, slips, scheme, layout, collapse
<1>9. /\ memo' \in [scheme : Schemes, layout : Layouts, collapse : BOOLEAN, taps : 0..MaxTaps,
                    slips : SUBSET {"crash", "shared", "small", "reset"}]
      /\ memo'.scheme = scheme /\ memo'.layout = layout /\ memo'.collapse = collapse
      /\ memo'.slips = memo.slips \cup slips
  BY <1>1, <1>5, <1>6, <1>7, MemoTyped
<1>10. /\ page' \in [BrowserTabs -> ThemeTab]
       /\ \A u \in BrowserTabs \ {t} : page'[u] = page[u]
       /\ page'[t].open /\ page'[t].small = small /\ page'[t].css = Dark(Stored)
       /\ page'[t].set.scheme = Stored.scheme
       /\ small => page'[t].set.layout = "vertical" /\ page'[t].collapse
       /\ ~small => page'[t].set.layout = WideLayout(Stored, local)
       /\ ~small => page'[t].collapse = WideSider(FALSE, local)
  <2>1. local.backup \in Backup
    BY <1>4
  <2> QED
    BY <1>1, <1>2, <2>1, WidthFollowed
<1>11. /\ stg' \in [settings : Settings \cup {NoSettings}, flag : 0..2, dark : BOOLEAN, backup : Backup]
       /\ stg'.settings = stg.settings
       /\ stg'.backup = IF small THEN [layout |-> Stored.layout, collapse |-> FALSE] ELSE NoBackup
  <2>1. [layout |-> Stored.layout, collapse |-> FALSE] \in Backup /\ NoBackup \in Backup
    BY <1>2 DEF Backup, NoBackup
  <2> QED
    BY <1>4, <1>8, <2>1
<1>12. ThemeTypeOK'
  BY <1>1, <1>9, <1>10, <1>11 DEF ThemeTypeOK, ThemeTab
<1>13. "shared" \notin memo'.slips => \A u \in BrowserTabs \ {t} : ~page'[u].open
  BY <1>9, <1>10, <1>a
<1>14. OneTab'
  BY <1>13 DEF OneTab
<1>15. memo'.slips \cap {"crash", "shared"} = {} => scheme = Stored.scheme
  <2> SUFFICES ASSUME memo'.slips \cap {"crash", "shared"} = {} PROVE scheme = Stored.scheme
    OBVIOUS
  <2>1. memo.slips \cap {"crash", "shared"} = {} /\ \A u \in BrowserTabs : ~page[u].open
    BY <1>9, <1>a
  <2>2. CASE system.dev
    BY <2>2 DEF scheme
  <2>3. CASE ~system.dev /\ Overrides
    <3>1. Stored.scheme = Override
      <4>1. stg.settings \in Settings \cup {NoSettings} /\ ThemeSettings \in Settings
        BY <1>1 DEF ThemeTypeOK, ThemeSettings, Settings, Schemes, Layouts
      <4> QED
        BY <2>3, <4>1 DEF Stored, Settings
    <3> QED
      BY <2>3, <3>1 DEF scheme
  <2>4. CASE ~system.dev /\ ~Overrides
    BY <2>1, <2>4 DEF scheme, Stored, ThemeInv, SchemeKept, NothingStored
  <2> QED
    BY <2>2, <2>3, <2>4
<1>16. SchemeKept'
  <2> SUFFICES ASSUME memo'.slips \cap {"crash", "shared"} = {}
               PROVE /\ \A u \in BrowserTabs : page'[u].open =>
                          page'[u].set.scheme = memo'.scheme /\ page'[u].css = Dark(page[u].set)'
                     /\ \E u \in BrowserTabs : page'[u].open
    BY DEF SchemeKept
  <2>1. \A u \in BrowserTabs : page'[u].open => u = t
    BY <1>13
  <2>2. page'[t].css = Dark(page[t].set)'
    BY <1>1, <1>10 DEF Dark
  <2> QED
    BY <1>9, <1>10, <1>15, <2>1, <2>2
<1>17. NothingStored'
  BY <1>1, <1>10, <1>11 DEF ThemeInv, NothingStored
<1>18. ~system.dev => Stored.layout = "vertical"
  <2> SUFFICES ASSUME ~system.dev PROVE Stored.layout = "vertical"
    OBVIOUS
  <2>1. stg.settings \in Settings \cup {NoSettings} /\ stg.settings.layout # "horizontal"
    BY <1>1 DEF ThemeInv, HeldBack, ThemeTypeOK
  <2>2. (IF system.dev \/ stg.settings = NoSettings THEN ThemeSettings ELSE stg.settings).layout = "vertical"
    BY <2>1 DEF ThemeSettings, Settings, Layouts
  <2>3. (IF system.dev \/ stg.settings = NoSettings THEN ThemeSettings ELSE stg.settings) \in Settings
    BY <2>1 DEF ThemeSettings, Settings, Schemes, Layouts
  <2> QED
    BY <2>2, <2>3 DEF Stored, Settings
<1>19. ASSUME memo'.slips = {} PROVE ~small /\ memo.slips = {} /\ \A u \in BrowserTabs : ~page[u].open
  BY <1>9, <1>19, <1>a, <1>b
<1>20. ASSUME memo'.slips = {}
       PROVE page'[t].set.layout = memo'.layout /\ page'[t].collapse = memo'.collapse
  <2>1. CASE stg.backup = NoBackup
    <3>1. page'[t].set.layout = Stored.layout /\ page'[t].collapse = FALSE
      BY <1>4, <1>10, <1>19, <1>20, <2>1 DEF WideLayout, WideSider
    <3>2. ~system.dev => memo.layout = "vertical"
      BY DEF ThemeInv, HeldBack
    <3> QED
      BY <1>9, <1>18, <2>1, <3>1, <3>2 DEF layout, collapse
  <2>2. CASE stg.backup # NoBackup
    <3>1. page'[t].set.layout = stg.backup.layout /\ page'[t].collapse = stg.backup.collapse
      BY <1>4, <1>10, <1>19, <1>20, <2>2 DEF WideLayout, WideSider
    <3>2. stg.backup = [layout |-> memo.layout, collapse |-> memo.collapse]
      BY <1>19, <1>20, <2>2 DEF ThemeInv, HeldBack
    <3>3. stg.backup.layout = memo.layout /\ stg.backup.collapse = memo.collapse
      BY <3>2
    <3>4. layout = memo.layout /\ collapse = memo.collapse
      BY <2>2 DEF layout, collapse
    <3> QED
      BY <1>9, <3>1, <3>3, <3>4
  <2> QED
    BY <2>1, <2>2
<1>21. LayoutRecovered'
  BY <1>10, <1>19, <1>20 DEF LayoutRecovered
<1>22. HeldBack'
  <2>1. ASSUME ~system.dev
        PROVE /\ memo'.layout = "vertical" /\ stg'.settings.layout # "horizontal"
              /\ stg'.backup.layout # "horizontal"
              /\ \A u \in BrowserTabs : page'[u].set.layout = "vertical"
    <3>1. /\ memo.layout = "vertical" /\ stg.settings.layout # "horizontal" /\ stg.backup.layout # "horizontal"
          /\ \A u \in BrowserTabs : page[u].set.layout = "vertical"
      BY <2>1 DEF ThemeInv, HeldBack
    <3>2. memo'.layout = "vertical"
      BY <1>9, <2>1, <3>1 DEF layout
    <3>3. stg'.backup.layout # "horizontal"
      BY <1>11, <1>18, <2>1 DEF NoBackup
    <3>4. WideLayout(Stored, local) = "vertical"
      <4>1. stg.backup \in Backup
        BY <1>1 DEF ThemeTypeOK
      <4> QED
        BY <1>4, <1>18, <2>1, <3>1, <4>1 DEF WideLayout, Backup, Layouts, NoBackup
    <3>5. \A u \in BrowserTabs : page'[u].set.layout = "vertical"
      BY <1>10, <3>1, <3>4
    <3> QED
      BY <1>11, <3>1, <3>2, <3>3, <3>5
  <2>2. ASSUME memo'.slips = {}
        PROVE /\ stg'.backup = NoBackup
              /\ \A u \in BrowserTabs : page'[u].open => ~page'[u].small
    BY <1>10, <1>11, <1>19, <2>2
  <2> QED
    BY <1>1, <2>1, <2>2 DEF HeldBack
<1> QED
  BY <1>12, <1>14, <1>16, <1>17, <1>21, <1>22 DEF ThemeInv

TabWas(t, s, small, collapse) ==
    s = page[t].set /\ small = ~page[t].small /\ collapse = page[t].collapse

LEMMA ResizedTo ==
  ASSUME ThemeInv, NEW t \in BrowserTabs, ResizeTab(t), NEW s \in Settings,
         NEW small \in BOOLEAN, NEW collapse \in BOOLEAN, TabWas(t, s, small, collapse)
  PROVE  ThemeInv'
<1>2. page \in [BrowserTabs -> ThemeTab]
  BY DEF ThemeInv, ThemeTypeOK, ThemeTab
<1>b. s = page[t].set /\ small = ~page[t].small
  BY DEF TabWas
<1>c. collapse = page[t].collapse
  BY DEF TabWas
<1>1. /\ ThemeTypeOK /\ Tap /\ page[t].open
      /\ FollowWidth(t, page[t].set, collapse, small, stg)
      /\ memo' = [memo EXCEPT !.taps = @ + 1] /\ UNCHANGED system
  BY <1>b, <1>c DEF ThemeInv, ResizeTab
<1>3. /\ page[t].set \in Settings /\ page[t].collapse \in BOOLEAN
      /\ page[t].set.layout \in Layouts /\ stg.backup \in Backup
  BY <1>1, <1>2 DEF ThemeTypeOK, ThemeTab, Settings
<1>4. stg' = [stg EXCEPT !.backup =
                IF small THEN [layout |-> page[t].set.layout, collapse |-> collapse] ELSE NoBackup]
  BY <1>1 DEF FollowWidth
<1>5. /\ page' \in [BrowserTabs -> ThemeTab]
      /\ \A u \in BrowserTabs \ {t} : page'[u] = page[u]
      /\ page'[t].open /\ page'[t].small = small /\ page'[t].css = Dark(page[t].set)
      /\ page'[t].set.scheme = page[t].set.scheme
      /\ small => page'[t].set.layout = "vertical" /\ page'[t].collapse
      /\ ~small => page'[t].set.layout = WideLayout(page[t].set, stg)
      /\ ~small => page'[t].collapse = WideSider(collapse, stg)
  <2>1. FollowWidth(t, s, collapse, small, stg) /\ stg.backup \in Backup /\ ThemeTypeOK
    BY <1>1, <1>3, <1>b
  <2>2. /\ page' \in [BrowserTabs -> ThemeTab]
        /\ \A u \in BrowserTabs \ {t} : page'[u] = page[u]
        /\ page'[t].open /\ page'[t].small = small /\ page'[t].css = Dark(s)
        /\ page'[t].set.scheme = s.scheme
        /\ small => page'[t].set.layout = "vertical" /\ page'[t].collapse
        /\ ~small => page'[t].set.layout = WideLayout(s, stg)
        /\ ~small => page'[t].collapse = WideSider(collapse, stg)
    BY <2>1, WidthFollowed
  <2> QED
    BY <1>b, <2>2
<1>6. /\ stg' \in [settings : Settings \cup {NoSettings}, flag : 0..2, dark : BOOLEAN, backup : Backup]
      /\ stg'.settings = stg.settings
      /\ stg'.backup = IF small THEN [layout |-> page[t].set.layout, collapse |-> collapse]
                       ELSE NoBackup
  <2>1. [layout |-> page[t].set.layout, collapse |-> collapse] \in Backup /\ NoBackup \in Backup
    BY <1>3 DEF Backup, NoBackup
  <2> QED
    BY <1>1, <1>4, <2>1 DEF ThemeTypeOK
<1>7. /\ memo' \in [scheme : Schemes, layout : Layouts, collapse : BOOLEAN, taps : 0..MaxTaps,
                    slips : SUBSET {"crash", "shared", "small", "reset"}]
      /\ memo'.scheme = memo.scheme /\ memo'.layout = memo.layout /\ memo'.collapse = memo.collapse
      /\ memo'.slips = memo.slips
  <2>1. memo.taps + 1 \in 0..MaxTaps
    BY <1>1, TapTyped
  <2> QED
    BY <1>1, <2>1 DEF ThemeTypeOK
<1>8. ThemeTypeOK'
  BY <1>1, <1>5, <1>6, <1>7 DEF ThemeTypeOK, ThemeTab
<1>9. \A u \in BrowserTabs : page'[u].open = page[u].open
  BY <1>1, <1>2, <1>5 DEF ThemeTab
<1>10. OneTab'
  BY <1>7, <1>9 DEF ThemeInv, OneTab
<1>11. SchemeKept'
  <2> SUFFICES ASSUME memo'.slips \cap {"crash", "shared"} = {}
               PROVE /\ \A u \in BrowserTabs : page'[u].open =>
                          page'[u].set.scheme = memo'.scheme /\ page'[u].css = Dark(page[u].set)'
                     /\ \E u \in BrowserTabs : page'[u].open
    BY DEF SchemeKept
  <2>1. memo.slips \cap {"crash", "shared"} = {}
    BY <1>7
  <2>2. \A u \in BrowserTabs : page[u].open =>
           page[u].set.scheme = memo.scheme /\ page[u].css = Dark(page[u].set)
    BY <2>1 DEF ThemeInv, SchemeKept
  <2>3. \A u \in BrowserTabs : page'[u].set.scheme = page[u].set.scheme
    BY <1>5
  <2> QED
    BY <1>1, <1>5, <1>7, <1>9, <2>2, <2>3 DEF Dark
<1>12. NothingStored'
  BY <1>1, <1>5, <1>6 DEF ThemeInv, NothingStored
<1>13. ASSUME memo'.slips = {}
       PROVE /\ \A u \in BrowserTabs : page'[u].open => u = t
             /\ ~page[t].small => page[t].set.layout = memo.layout /\ collapse = memo.collapse
             /\ page[t].small => stg.backup = [layout |-> memo.layout, collapse |-> memo.collapse]
                                   /\ stg.backup # NoBackup
             /\ small <=> ~page[t].small
  <2>1. memo.slips = {}
    BY <1>7, <1>13
  <2>2. \A u \in BrowserTabs : page'[u].open => u = t
    BY <1>1, <1>9, <2>1 DEF ThemeInv, OneTab
  <2>3. ~page[t].small => page[t].set.layout = memo.layout /\ collapse = memo.collapse
    BY <1>1, <1>c, <2>1 DEF ThemeInv, LayoutRecovered
  <2>4. page[t].small => stg.backup = [layout |-> memo.layout, collapse |-> memo.collapse]
                           /\ stg.backup # NoBackup
    BY <1>1, <2>1 DEF ThemeInv, HeldBack
  <2> QED
    BY <1>b, <2>2, <2>3, <2>4
<1>14. LayoutRecovered'
  <2> SUFFICES ASSUME memo'.slips = {}, NEW u \in BrowserTabs, page'[u].open, ~page'[u].small
               PROVE page'[u].set.layout = memo'.layout /\ page'[u].collapse = memo'.collapse
    BY DEF LayoutRecovered
  <2>1. u = t /\ ~small
    BY <1>5, <1>13
  <2>2. page'[t].set.layout = stg.backup.layout /\ page'[t].collapse = stg.backup.collapse
    BY <1>5, <1>13, <2>1 DEF WideLayout, WideSider
  <2>3. stg.backup.layout = memo.layout /\ stg.backup.collapse = memo.collapse
    BY <1>13, <2>1
  <2> QED
    BY <1>7, <2>1, <2>2, <2>3
<1>15. HeldBack'
  <2>1. ASSUME ~system.dev
        PROVE /\ memo'.layout = "vertical" /\ stg'.settings.layout # "horizontal"
              /\ stg'.backup.layout # "horizontal"
              /\ \A u \in BrowserTabs : page'[u].set.layout = "vertical"
    <3>1. /\ memo.layout = "vertical" /\ stg.settings.layout # "horizontal" /\ stg.backup.layout # "horizontal"
          /\ \A u \in BrowserTabs : page[u].set.layout = "vertical"
      BY <2>1 DEF ThemeInv, HeldBack
    <3>2. WideLayout(page[t].set, stg) = "vertical"
      BY <1>3, <3>1 DEF WideLayout, Backup, Layouts, NoBackup
    <3>3. \A u \in BrowserTabs : page'[u].set.layout = "vertical"
      BY <1>5, <3>1, <3>2
    <3>4. stg'.backup.layout # "horizontal"
      BY <1>6, <3>1 DEF NoBackup
    <3> QED
      BY <1>6, <1>7, <3>1, <3>3, <3>4
  <2>2. ASSUME memo'.slips = {}
        PROVE /\ stg'.backup # NoBackup =>
                   stg'.backup = [layout |-> memo'.layout, collapse |-> memo'.collapse]
              /\ \A u \in BrowserTabs : page'[u].open => (page'[u].small <=> stg'.backup # NoBackup)
    <3>1. CASE small
      <4>1. stg'.backup = [layout |-> memo'.layout, collapse |-> memo'.collapse]
        BY <1>6, <1>7, <1>13, <2>2, <3>1
      <4>2. stg'.backup # NoBackup
        BY <1>3, <1>6, <3>1 DEF NoBackup, Layouts
      <4> QED
        BY <1>5, <1>13, <2>2, <3>1, <4>1, <4>2
    <3>2. CASE ~small
      BY <1>5, <1>6, <1>13, <2>2, <3>2
    <3> QED
      BY <3>1, <3>2
  <2> QED
    BY <1>1, <2>1, <2>2 DEF HeldBack
<1> QED
  BY <1>8, <1>10, <1>11, <1>12, <1>14, <1>15 DEF ThemeInv

LEMMA ResizeStep ==
  ASSUME ThemeInv, NEW t \in BrowserTabs, ResizeTab(t) PROVE ThemeInv'
<1>1. page[t] \in ThemeTab
  BY DEF ThemeInv, ThemeTypeOK, ThemeTab
<1>2. PICK small \in BOOLEAN : small = ~page[t].small
  BY <1>1 DEF ThemeTab
<1>3. PICK collapse \in BOOLEAN : collapse = page[t].collapse
  BY <1>1 DEF ThemeTab
<1>4. PICK s \in Settings : s = page[t].set
  BY <1>1 DEF ThemeTab
<1> QED
  BY <1>2, <1>3, <1>4, ResizedTo DEF TabWas

(* The user changes the look of the open tab t, which becomes tab.           *)
SlipFree == memo.slips \cap {"crash", "shared"} = {}
Adjusts(t, tab) ==
    /\ page[t].open /\ page' = [page EXCEPT ![t] = tab] /\ tab.open /\ tab.small = page[t].small
    /\ UNCHANGED system /\ stg'.settings = stg.settings /\ stg'.backup = stg.backup
    /\ stg' \in [settings : Settings \cup {NoSettings}, flag : 0..2, dark : BOOLEAN, backup : Backup]
    /\ memo' \in [scheme : Schemes, layout : Layouts, collapse : BOOLEAN, taps : 0..MaxTaps,
                  slips : SUBSET {"crash", "shared", "small", "reset"}]
    /\ memo.slips \subseteq memo'.slips
    /\ SlipFree => tab.set.scheme = memo'.scheme /\ tab.css = Dark(tab.set)
    /\ ~system.dev => tab.set.layout = "vertical" /\ memo'.layout = "vertical"
    /\ memo'.slips = {} /\ ~tab.small => tab.set.layout = memo'.layout /\ tab.collapse = memo'.collapse
    /\ memo'.slips = {} /\ tab.small => memo'.layout = memo.layout /\ memo'.collapse = memo.collapse

LEMMA Adjusted ==
  ASSUME ThemeInv, NEW t \in BrowserTabs, NEW tab \in ThemeTab, Adjusts(t, tab)
  PROVE  ThemeInv'
<1>1. page \in [BrowserTabs -> ThemeTab] /\ system' = system
  BY DEF ThemeInv, ThemeTypeOK, ThemeTab, Adjusts
<1>2. /\ page' \in [BrowserTabs -> ThemeTab] /\ page'[t] = tab
      /\ \A u \in BrowserTabs \ {t} : page'[u] = page[u]
  BY <1>1 DEF Adjusts
<1>3. \A u \in BrowserTabs : page'[u].open = page[u].open /\ page'[u].small = page[u].small
  BY <1>2 DEF Adjusts, ThemeTab
<1>4. ThemeTypeOK'
  BY <1>1, <1>2 DEF Adjusts, ThemeInv, ThemeTypeOK, ThemeTab
<1>5. OneTab'
  BY <1>3 DEF Adjusts, ThemeInv, OneTab
<1>6. "shared" \notin memo'.slips => \A u \in BrowserTabs : page'[u].open => u = t
  BY <1>3 DEF Adjusts, ThemeInv, OneTab
<1>7. SchemeKept'
  <2> SUFFICES ASSUME memo'.slips \cap {"crash", "shared"} = {}
               PROVE /\ \A u \in BrowserTabs : page'[u].open =>
                          page'[u].set.scheme = memo'.scheme /\ page'[u].css = Dark(page[u].set)'
                     /\ \E u \in BrowserTabs : page'[u].open
    BY DEF SchemeKept
  <2>1. SlipFree
    BY DEF Adjusts, SlipFree
  <2>2. tab.set.scheme = memo'.scheme /\ tab.css = Dark(page[t].set)'
    BY <1>1, <1>2, <2>1 DEF Adjusts, Dark
  <2> QED
    BY <1>2, <1>3, <1>6, <2>2 DEF Adjusts
<1>8. LayoutRecovered'
  <2> SUFFICES ASSUME memo'.slips = {}, NEW u \in BrowserTabs, page'[u].open, ~page'[u].small
               PROVE page'[u].set.layout = memo'.layout /\ page'[u].collapse = memo'.collapse
    BY DEF LayoutRecovered
  <2>1. page'[u] = tab
    BY <1>2, <1>6
  <2> QED
    BY <2>1 DEF Adjusts
<1>9. NothingStored'
  BY <1>1, <1>2 DEF Adjusts, ThemeInv, NothingStored
<1>10. HeldBack'
  <2>1. ASSUME ~system.dev
        PROVE /\ memo'.layout = "vertical" /\ stg'.settings.layout # "horizontal"
              /\ stg'.backup.layout # "horizontal"
              /\ \A u \in BrowserTabs : page'[u].set.layout = "vertical"
    BY <1>2, <2>1 DEF Adjusts, ThemeInv, HeldBack
  <2>2. ASSUME memo'.slips = {}
        PROVE /\ stg'.backup # NoBackup =>
                   stg'.backup = [layout |-> memo'.layout, collapse |-> memo'.collapse]
              /\ \A u \in BrowserTabs : page'[u].open => (page'[u].small <=> stg'.backup # NoBackup)
    <3>1. /\ stg.backup # NoBackup => stg.backup = [layout |-> memo.layout, collapse |-> memo.collapse]
          /\ \A u \in BrowserTabs : page[u].open => (page[u].small <=> stg.backup # NoBackup)
      BY <2>2 DEF Adjusts, ThemeInv, HeldBack
    <3>2. stg'.backup = stg.backup /\ page[t].open /\ tab.small = page[t].small
      BY DEF Adjusts
    <3>3. stg.backup # NoBackup => memo'.layout = memo.layout /\ memo'.collapse = memo.collapse
      BY <2>2, <3>1, <3>2 DEF Adjusts
    <3> QED
      BY <1>3, <3>1, <3>2, <3>3
  <2> QED
    BY <1>1, <2>1, <2>2 DEF HeldBack
<1> QED
  BY <1>4, <1>5, <1>7, <1>8, <1>9, <1>10 DEF ThemeInv

LEMMA SiderStep ==
  ASSUME ThemeInv, NEW t \in BrowserTabs, ToggleSider(t) PROVE ThemeInv'
<1> DEFINE tab == [page[t] EXCEPT !.collapse = ~@]
<1>1. page[t] \in ThemeTab /\ ThemeTypeOK /\ Tap
  BY DEF ThemeInv, ThemeTypeOK, ThemeTab, ToggleSider
<1>2. /\ tab \in ThemeTab /\ tab.collapse = ~page[t].collapse
      /\ tab.set = page[t].set /\ tab.css = page[t].css
      /\ tab.open = page[t].open /\ tab.small = page[t].small
  BY <1>1 DEF ThemeTab
<1>3. page[t].open /\ page' = [page EXCEPT ![t] = tab] /\ UNCHANGED <<stg, system>>
  BY DEF ToggleSider
<1>4. memo.taps + 1 \in 0..MaxTaps
  BY <1>1, TapTyped
<1>5. /\ memo' \in [scheme : Schemes, layout : Layouts, collapse : BOOLEAN, taps : 0..MaxTaps,
                    slips : SUBSET {"crash", "shared", "small", "reset"}]
      /\ memo'.scheme = memo.scheme /\ memo'.layout = memo.layout /\ memo'.slips = memo.slips
      /\ memo'.collapse = IF page[t].small THEN memo.collapse ELSE ~page[t].collapse
  <2>1. memo' = [memo EXCEPT !.taps = @ + 1,
                   !.collapse = IF page[t].small THEN memo.collapse ELSE ~page[t].collapse]
    BY <1>1 DEF ToggleSider, ThemeTypeOK
  <2>2. (IF page[t].small THEN memo.collapse ELSE ~page[t].collapse) \in BOOLEAN
    BY <1>1 DEF ThemeTypeOK
  <2> QED
    BY <1>1, <1>4, <2>1, <2>2 DEF ThemeTypeOK
<1>6. SlipFree => page[t].set.scheme = memo.scheme /\ page[t].css = Dark(page[t].set)
  BY <1>3 DEF SlipFree, ThemeInv, SchemeKept
<1>7. ~system.dev => page[t].set.layout = "vertical" /\ memo.layout = "vertical"
  BY DEF ThemeInv, HeldBack
<1>8. memo.slips = {} /\ ~page[t].small => page[t].set.layout = memo.layout
  BY <1>3 DEF ThemeInv, LayoutRecovered
<1>9. stg \in [settings : Settings \cup {NoSettings}, flag : 0..2, dark : BOOLEAN, backup : Backup]
  BY <1>1 DEF ThemeTypeOK
<1> HIDE DEF tab
<1>10. Adjusts(t, tab)
  BY <1>2, <1>3, <1>5, <1>6, <1>7, <1>8, <1>9 DEF Adjusts
<1> QED
  BY <1>2, <1>10, Adjusted

LEMMA LayoutStep ==
  ASSUME ThemeInv, NEW t \in BrowserTabs, NEW layout \in Layouts, SetThemeLayout(t, layout)
  PROVE  ThemeInv'
<1> DEFINE set == [page[t].set EXCEPT !.layout = layout]
           tab == [page[t] EXCEPT !.set = set]
<1>1. page[t] \in ThemeTab /\ ThemeTypeOK /\ Tap
  BY DEF ThemeInv, ThemeTypeOK, ThemeTab, SetThemeLayout
<1>2. set \in Settings /\ set.layout = layout /\ set.scheme = page[t].set.scheme
  BY <1>1 DEF ThemeTab, Settings
<1>3. /\ page[t].open /\ ~page[t].small /\ system.dev
      /\ page' = [page EXCEPT ![t] = tab] /\ UNCHANGED <<stg, system>>
      /\ memo' = [memo EXCEPT !.taps = @ + 1, !.layout = layout]
  BY DEF SetThemeLayout
<1> HIDE DEF set
<1>4. /\ tab \in ThemeTab /\ tab.collapse = page[t].collapse
      /\ tab.set = set /\ tab.css = page[t].css
      /\ tab.open = page[t].open /\ tab.small = page[t].small
  BY <1>1, <1>2 DEF ThemeTab
<1>5. memo.taps + 1 \in 0..MaxTaps
  BY <1>1, TapTyped
<1>6. /\ memo' \in [scheme : Schemes, layout : Layouts, collapse : BOOLEAN, taps : 0..MaxTaps,
                    slips : SUBSET {"crash", "shared", "small", "reset"}]
      /\ memo'.scheme = memo.scheme /\ memo'.layout = layout /\ memo'.slips = memo.slips
      /\ memo'.collapse = memo.collapse
  BY <1>1, <1>3, <1>5 DEF ThemeTypeOK
<1>7. SlipFree => page[t].set.scheme = memo.scheme /\ page[t].css = Dark(page[t].set)
  BY <1>3 DEF SlipFree, ThemeInv, SchemeKept
<1>8. SlipFree => tab.set.scheme = memo.scheme /\ tab.css = Dark(set)
  BY <1>2, <1>4, <1>7 DEF Dark
<1>9. memo.slips = {} => page[t].collapse = memo.collapse
  BY <1>3 DEF ThemeInv, LayoutRecovered
<1>10. stg \in [settings : Settings \cup {NoSettings}, flag : 0..2, dark : BOOLEAN, backup : Backup]
  BY <1>1 DEF ThemeTypeOK
<1> HIDE DEF tab
<1>11. Adjusts(t, tab)
  BY <1>2, <1>3, <1>4, <1>6, <1>8, <1>9, <1>10 DEF Adjusts
<1> QED
  BY <1>4, <1>11, Adjusted

(* What the watcher of darkMode does with the stored class.                  *)
LEMMA DarkStored ==
  ASSUME ThemeTypeOK, NEW d \in BOOLEAN, NEW css \in BOOLEAN,
         stg' = IF d = css THEN stg ELSE [stg EXCEPT !.dark = d]
  PROVE  /\ stg' \in [settings : Settings \cup {NoSettings}, flag : 0..2, dark : BOOLEAN, backup : Backup]
         /\ stg'.settings = stg.settings /\ stg'.backup = stg.backup
BY DEF ThemeTypeOK

LEMMA SchemeStep ==
  ASSUME ThemeInv, NEW t \in BrowserTabs, ToggleThemeScheme(t) PROVE ThemeInv'
<1> DEFINE next == CASE page[t].set.scheme = "light" -> "dark"
                     [] page[t].set.scheme = "dark" -> "auto"
                     [] OTHER -> "light"
           set == [page[t].set EXCEPT !.scheme = next]
           tab == [page[t] EXCEPT !.set = set, !.css = Dark(set)]
<1>1. page[t] \in ThemeTab /\ ThemeTypeOK /\ Tap
  BY DEF ThemeInv, ThemeTypeOK, ThemeTab, ToggleThemeScheme
<1>2. next \in Schemes
  BY DEF Schemes
<1>3. /\ page[t].open /\ page' = [page EXCEPT ![t] = tab] /\ UNCHANGED system
      /\ stg' = IF Dark(set) = page[t].css THEN stg ELSE [stg EXCEPT !.dark = Dark(set)]
      /\ memo' = [memo EXCEPT !.taps = @ + 1, !.scheme = next]
  BY DEF ToggleThemeScheme
<1> HIDE DEF next
<1>4. set \in Settings /\ set.layout = page[t].set.layout /\ set.scheme = next
  BY <1>1, <1>2 DEF ThemeTab, Settings
<1>5. Dark(set) \in BOOLEAN
  BY DEF Dark
<1> HIDE DEF set
<1>6. /\ tab \in ThemeTab /\ tab.collapse = page[t].collapse
      /\ tab.set = set /\ tab.css = Dark(set)
      /\ tab.open = page[t].open /\ tab.small = page[t].small
  BY <1>1, <1>4, <1>5 DEF ThemeTab
<1>7. /\ stg' \in [settings : Settings \cup {NoSettings}, flag : 0..2, dark : BOOLEAN, backup : Backup]
      /\ stg'.settings = stg.settings /\ stg'.backup = stg.backup
  BY <1>1, <1>3, <1>5, DarkStored DEF ThemeTab
<1>8. memo.taps + 1 \in 0..MaxTaps
  BY <1>1, TapTyped
<1>9. /\ memo' \in [scheme : Schemes, layout : Layouts, collapse : BOOLEAN, taps : 0..MaxTaps,
                    slips : SUBSET {"crash", "shared", "small", "reset"}]
      /\ memo'.scheme = next /\ memo'.layout = memo.layout /\ memo'.slips = memo.slips
      /\ memo'.collapse = memo.collapse
  BY <1>1, <1>2, <1>3, <1>8 DEF ThemeTypeOK
<1>10. ~system.dev => page[t].set.layout = "vertical" /\ memo.layout = "vertical"
  BY DEF ThemeInv, HeldBack
<1>11. memo.slips = {} /\ ~page[t].small =>
          page[t].set.layout = memo.layout /\ page[t].collapse = memo.collapse
  BY <1>3 DEF ThemeInv, LayoutRecovered
<1> HIDE DEF tab
<1>12. Adjusts(t, tab)
  BY <1>3, <1>4, <1>6, <1>7, <1>9, <1>10, <1>11 DEF Adjusts
<1> QED
  BY <1>6, <1>12, Adjusted

LEMMA ResetStep ==
  ASSUME ThemeInv, NEW t \in BrowserTabs, ResetTheme(t) PROVE ThemeInv'
<1> DEFINE start == page[t].start
           tab == [page[t] EXCEPT !.set = start, !.css = Dark(start)]
           slips == IF page[t].small THEN {"reset"} ELSE {}
<1>1. page[t] \in ThemeTab /\ ThemeTypeOK /\ Tap
  BY DEF ThemeInv, ThemeTypeOK, ThemeTab, ResetTheme
<1>2. start \in Settings /\ start.scheme \in Schemes /\ start.layout \in Layouts
  BY <1>1 DEF ThemeTab, Settings
<1>3. /\ page[t].open /\ system.dev /\ page' = [page EXCEPT ![t] = tab] /\ UNCHANGED system
      /\ stg' = IF Dark(start) = page[t].css THEN stg ELSE [stg EXCEPT !.dark = Dark(start)]
      /\ memo' = [memo EXCEPT !.taps = @ + 1, !.scheme = start.scheme, !.layout = start.layout,
                              !.slips = @ \cup slips]
  BY DEF ResetTheme
<1>4. Dark(start) \in BOOLEAN
  BY DEF Dark
<1>5. slips \in SUBSET {"crash", "shared", "small", "reset"} /\ (page[t].small => slips # {})
  OBVIOUS
<1> HIDE DEF start, slips
<1>6. /\ tab \in ThemeTab /\ tab.collapse = page[t].collapse
      /\ tab.set = start /\ tab.css = Dark(start)
      /\ tab.open = page[t].open /\ tab.small = page[t].small
  BY <1>1, <1>2, <1>4 DEF ThemeTab
<1>7. /\ stg' \in [settings : Settings \cup {NoSettings}, flag : 0..2, dark : BOOLEAN, backup : Backup]
      /\ stg'.settings = stg.settings /\ stg'.backup = stg.backup
  BY <1>1, <1>3, <1>4, DarkStored DEF ThemeTab
<1>8. memo.taps + 1 \in 0..MaxTaps
  BY <1>1, TapTyped
<1>9. /\ memo' \in [scheme : Schemes, layout : Layouts, collapse : BOOLEAN, taps : 0..MaxTaps,
                    slips : SUBSET {"crash", "shared", "small", "reset"}]
      /\ memo'.scheme = start.scheme /\ memo'.layout = start.layout
      /\ memo'.slips = memo.slips \cup slips /\ memo'.collapse = memo.collapse
  BY <1>1, <1>2, <1>3, <1>5, <1>8 DEF ThemeTypeOK
<1>10. memo.slips = {} /\ ~page[t].small => page[t].collapse = memo.collapse
  BY <1>3 DEF ThemeInv, LayoutRecovered
<1> HIDE DEF tab
<1>11. Adjusts(t, tab)
  BY <1>3, <1>5, <1>6, <1>7, <1>9, <1>10 DEF Adjusts
<1> QED
  BY <1>6, <1>11, Adjusted

LEMMA EndStep ==
  ASSUME ThemeInv, NEW t \in BrowserTabs, NEW stores \in BOOLEAN, EndTab(t, stores)
  PROVE  ThemeInv'
<1> DEFINE slips == IF stores THEN {} ELSE {"crash"}
<1>1. /\ ThemeTypeOK /\ Tap /\ page[t].open /\ UNCHANGED system
      /\ page' = [page EXCEPT ![t] = Closed]
      /\ stg' = IF stores /\ ~system.dev THEN [stg EXCEPT !.settings = page[t].set] ELSE stg
      /\ memo' = [memo EXCEPT !.taps = @ + 1, !.slips = @ \cup slips]
  BY DEF ThemeInv, EndTab
<1>2. page \in [BrowserTabs -> ThemeTab] /\ page[t].set \in Settings
  BY <1>1 DEF ThemeTypeOK, ThemeTab
<1>3. Closed \in ThemeTab /\ ~Closed.open /\ Closed.set.layout = "vertical"
  BY DEF ThemeTab, Closed, ThemeSettings, Settings, Schemes, Layouts
<1>4. /\ page' \in [BrowserTabs -> ThemeTab] /\ page'[t] = Closed
      /\ \A u \in BrowserTabs \ {t} : page'[u] = page[u]
  BY <1>1, <1>2, <1>3
<1>5. /\ stg' \in [settings : Settings \cup {NoSettings}, flag : 0..2, dark : BOOLEAN, backup : Backup]
      /\ stg'.settings = IF stores /\ ~system.dev THEN page[t].set ELSE stg.settings
      /\ stg'.backup = stg.backup
  BY <1>1, <1>2 DEF ThemeTypeOK
<1>6. slips \in SUBSET {"crash", "shared", "small", "reset"} /\ ("crash" \in slips <=> ~stores)
  OBVIOUS
<1> HIDE DEF slips
<1>7. /\ memo' \in [scheme : Schemes, layout : Layouts, collapse : BOOLEAN, taps : 0..MaxTaps,
                    slips : SUBSET {"crash", "shared", "small", "reset"}]
      /\ memo'.scheme = memo.scheme /\ memo'.layout = memo.layout /\ memo'.collapse = memo.collapse
      /\ memo'.slips = memo.slips \cup slips
  <2>1. memo.taps + 1 \in 0..MaxTaps
    BY <1>1, TapTyped
  <2> QED
    BY <1>1, <1>6, <2>1 DEF ThemeTypeOK
<1>8. ThemeTypeOK'
  BY <1>1, <1>4, <1>5, <1>7 DEF ThemeTypeOK, ThemeTab
<1>9. \A u \in BrowserTabs : page'[u].open => page[u].open /\ u # t /\ page'[u] = page[u]
  BY <1>3, <1>4
<1>10. OneTab'
  BY <1>7, <1>9 DEF ThemeInv, OneTab
<1>11. "shared" \notin memo'.slips => \A u \in BrowserTabs : ~page'[u].open
  BY <1>1, <1>7, <1>9 DEF ThemeInv, OneTab
<1>12. memo'.slips \cap {"crash", "shared"} = {} => stores /\ page[t].set.scheme = memo.scheme
  BY <1>1, <1>6, <1>7 DEF ThemeInv, SchemeKept
<1>13. system.dev => stg'.settings = NoSettings
  BY <1>5 DEF ThemeInv, NothingStored
<1>14. SchemeKept'
  BY <1>5, <1>7, <1>11, <1>12, <1>13 DEF SchemeKept
<1>15. NothingStored'
  <2>1. page[t].set # NoSettings
    BY <1>2 DEF Settings, Schemes, NoSettings
  <2> QED
    BY <1>1, <1>5, <1>12, <1>13, <2>1 DEF NothingStored
<1>16. memo'.slips = {} => \A u \in BrowserTabs : ~page'[u].open
  BY <1>11
<1>17. LayoutRecovered'
  BY <1>16 DEF LayoutRecovered
<1>18. HeldBack'
  <2>1. ASSUME ~system.dev
        PROVE /\ memo'.layout = "vertical" /\ stg'.settings.layout # "horizontal"
              /\ stg'.backup.layout # "horizontal"
              /\ \A u \in BrowserTabs : page'[u].set.layout = "vertical"
    BY <1>3, <1>4, <1>5, <1>7, <2>1 DEF ThemeInv, HeldBack
  <2>2. memo'.slips = {} /\ stg'.backup # NoBackup =>
          stg'.backup = [layout |-> memo'.layout, collapse |-> memo'.collapse]
    BY <1>5, <1>7 DEF ThemeInv, HeldBack
  <2> QED
    BY <1>1, <1>16, <2>1, <2>2 DEF HeldBack
<1> QED
  BY <1>8, <1>10, <1>14, <1>15, <1>17, <1>18 DEF ThemeInv

LEMMA SystemStep == ASSUME ThemeInv, SystemTurns PROVE ThemeInv'
<1> DEFINE css(u) == IF page[u].open /\ page[u].set.scheme = "auto" THEN ~system.dark ELSE page[u].css
<1>1. /\ ThemeTypeOK /\ Tap /\ system' = [system EXCEPT !.dark = ~@]
      /\ page' = [u \in BrowserTabs |-> [page[u] EXCEPT !.css = css(u)]]
      /\ memo' = [memo EXCEPT !.taps = @ + 1]
      /\ stg' = stg \/ stg' = [stg EXCEPT !.dark = ~system.dark]
  BY DEF ThemeInv, SystemTurns
<1>2. page \in [BrowserTabs -> ThemeTab]
  BY <1>1 DEF ThemeTypeOK, ThemeTab
<1>3. /\ system' \in [dark : BOOLEAN, build : 1..2, dev : BOOLEAN]
      /\ system'.dev = system.dev /\ system'.dark = ~system.dark
  BY <1>1 DEF ThemeTypeOK
<1>4. \A u \in BrowserTabs : css(u) \in BOOLEAN
  BY <1>2 DEF ThemeTab
<1>5. \A u \in BrowserTabs : page[u].open /\ page[u].css = Dark(page[u].set) =>
                               css(u) = Dark(page[u].set)'
  <2> SUFFICES ASSUME NEW u \in BrowserTabs, page[u].open,
                      page[u].css = Dark(page[u].set),
                      page'[u].set = page[u].set
               PROVE css(u) = Dark(page[u].set)'
    BY <1>1, <1>2 DEF ThemeTab
  <2> QED
    BY <1>2, <1>3 DEF Dark, ThemeTab
<1> HIDE DEF css
<1>6. \A u \in BrowserTabs :
        /\ page'[u] \in ThemeTab /\ page'[u].open = page[u].open /\ page'[u].set = page[u].set
        /\ page'[u].small = page[u].small /\ page'[u].collapse = page[u].collapse
        /\ page'[u].css = css(u)
  BY <1>1, <1>2, <1>4 DEF ThemeTab
<1>7. page' \in [BrowserTabs -> ThemeTab]
  BY <1>1, <1>6
<1>8. /\ stg' \in [settings : Settings \cup {NoSettings}, flag : 0..2, dark : BOOLEAN, backup : Backup]
      /\ stg'.settings = stg.settings /\ stg'.backup = stg.backup
  BY <1>1 DEF ThemeTypeOK
<1>9. /\ memo' \in [scheme : Schemes, layout : Layouts, collapse : BOOLEAN, taps : 0..MaxTaps,
                    slips : SUBSET {"crash", "shared", "small", "reset"}]
      /\ memo'.scheme = memo.scheme /\ memo'.layout = memo.layout /\ memo'.collapse = memo.collapse
      /\ memo'.slips = memo.slips
  <2>1. memo.taps + 1 \in 0..MaxTaps
    BY <1>1, TapTyped
  <2> QED
    BY <1>1, <2>1 DEF ThemeTypeOK
<1>10. ThemeTypeOK'
  BY <1>3, <1>7, <1>8, <1>9 DEF ThemeTypeOK, ThemeTab
<1>11. SchemeKept'
  <2>1. ASSUME memo.slips \cap {"crash", "shared"} = {}, NEW u \in BrowserTabs, page'[u].open
        PROVE  page'[u].set.scheme = memo.scheme /\ page'[u].css = Dark(page[u].set)'
    <3>1. page[u].open /\ page[u].set.scheme = memo.scheme /\ page[u].css = Dark(page[u].set)
      BY <1>6, <2>1 DEF ThemeInv, SchemeKept
    <3> QED
      BY <1>5, <1>6, <3>1
  <2>2. ASSUME memo.slips \cap {"crash", "shared"} = {},
               \A u \in BrowserTabs : ~page'[u].open, stg'.settings # NoSettings
        PROVE  stg'.settings.scheme = memo.scheme
    BY <1>6, <1>8, <2>2 DEF ThemeInv, SchemeKept
  <2> QED
    BY <1>9, <2>1, <2>2 DEF SchemeKept
<1>12. LayoutRecovered'
  BY <1>6, <1>9 DEF ThemeInv, LayoutRecovered
<1>13. OneTab'
  BY <1>6, <1>9 DEF ThemeInv, OneTab
<1>14. NothingStored'
  BY <1>3, <1>6, <1>8, <1>9 DEF ThemeInv, NothingStored
<1>15. HeldBack'
  BY <1>3, <1>6, <1>8, <1>9 DEF ThemeInv, HeldBack
<1> QED
  BY <1>10, <1>11, <1>12, <1>13, <1>14, <1>15 DEF ThemeInv

LEMMA PublishStep == ASSUME ThemeInv, Publish PROVE ThemeInv'
<1>1. /\ UNCHANGED <<page, stg, memo>> /\ ThemeTypeOK
      /\ system' = [system EXCEPT !.build = 2]
  BY DEF ThemeInv, Publish
<1>2. /\ system' \in [dark : BOOLEAN, build : 1..2, dev : BOOLEAN]
      /\ system'.dev = system.dev /\ system'.dark = system.dark
  BY <1>1 DEF ThemeTypeOK
<1>3. ThemeTypeOK'
  BY <1>1, <1>2 DEF ThemeTypeOK
<1>4. SchemeKept' /\ LayoutRecovered'
  BY <1>1, <1>2 DEF ThemeInv, SchemeKept, LayoutRecovered, Dark
<1>5. OneTab' /\ NothingStored' /\ HeldBack'
  BY <1>1, <1>2 DEF ThemeInv, OneTab, NothingStored, HeldBack
<1> QED
  BY <1>3, <1>4, <1>5 DEF ThemeInv

(* A browser comes back with the scheme and the layout chosen last, through  *)
(* tabs, small windows and new builds (store/modules/theme, app).            *)
THEOREM ThemeIsKept == ThemeSpec => []ThemeInv
<1>1. ASSUME ThemeInv, ThemeNext PROVE ThemeInv'
  BY <1>1, StartStep, ResizeStep, SchemeStep, SiderStep, LayoutStep, ResetStep, EndStep,
     SystemStep, PublishStep DEF ThemeNext
<1>2. ASSUME ThemeInv, UNCHANGED themeVars PROVE ThemeInv'
  BY <1>2 DEF themeVars, ThemeInv, ThemeTypeOK, SchemeKept, LayoutRecovered, OneTab,
     NothingStored, HeldBack, Dark
<1> QED
  BY <1>1, <1>2, ThemeStarts, PTL DEF ThemeSpec

-----------------------------------------------------------------------------
(* The trend chart                                                           *)

Instances == [alive : BOOLEAN, dark : BOOLEAN, data : 0..MaxEvents, mask : BOOLEAN]

LEMMA ChartStarts == ChartInit => ChartInv
<1> SUFFICES ASSUME ChartInit PROVE ChartInv
  OBVIOUS
<1>1. 0 \in 0..MaxEvents
  BY ChartAssumption
<1>2. ChartTypeOK
  BY <1>1 DEF ChartInit, ChartTypeOK, NoInstance
<1>3. ChartCurrent /\ options = trends
  BY DEF ChartInit, ChartCurrent, NoInstance
<1> QED
  BY <1>2, <1>3 DEF ChartInv

(* A chart that is rendered and unmasked has the theme it is rendered with,  *)
(* or had it before, and the data of the options unless it had its own.      *)
LEMMA ChartRendered ==
  ASSUME ChartTypeOK, NEW i \in Instances, NEW dark \in BOOLEAN
  PROVE  LET r == Unmasked(Rendered(i, dark))
         IN /\ r \in Instances /\ r.alive /\ ~r.mask
            /\ r.dark = (IF i.alive THEN i.dark ELSE dark)
            /\ r.data = (IF i.alive THEN i.data ELSE options)
BY DEF ChartTypeOK, Instances, Rendered, Unmasked

LEMMA ChartStep == ASSUME ChartInv, ChartNext PROVE ChartInv'
<1>1. /\ ChartTypeOK /\ ChartCurrent /\ (~tale.early => options = trends)
      /\ instance \in Instances /\ NoInstance \in Instances /\ ~NoInstance.alive
  BY ChartAssumption DEF ChartInv, ChartTypeOK, Instances, NoInstance
<1>2. CASE SizeChart
  <2>1. /\ sized' = ~sized /\ options' = options /\ trends' = trends /\ darkMode' = darkMode
        /\ instance' = IF sized THEN NoInstance ELSE Unmasked(Rendered(instance, darkMode))
        /\ tale.events < MaxEvents /\ tale' = [tale EXCEPT !.events = @ + 1]
    BY <1>2 DEF SizeChart, Event
  <2>2. tale' \in [events : 0..MaxEvents, early : BOOLEAN] /\ tale'.early = tale.early
    BY <1>1, <2>1, ChartAssumption DEF ChartTypeOK
  <2>3. /\ instance' \in Instances
        /\ instance'.alive => /\ ~instance'.mask /\ instance'.dark = darkMode
                              /\ ~tale.early => instance'.data = trends
    <3>1. CASE sized
      BY <1>1, <2>1, <3>1
    <3>2. CASE ~sized
      <4>1. darkMode \in BOOLEAN
        BY <1>1 DEF ChartTypeOK
      <4> QED
        BY <1>1, <2>1, <3>2, <4>1, ChartRendered DEF ChartCurrent
    <3> QED
      BY <3>1, <3>2
  <2> QED
    BY <1>1, <2>1, <2>2, <2>3 DEF ChartInv, ChartTypeOK, ChartCurrent, Instances
<1>3. CASE TurnTheme
  <2>1. /\ sized' = sized /\ options' = options /\ trends' = trends /\ darkMode' = ~darkMode
        /\ instance' = Unmasked(Rendered(NoInstance, ~darkMode))
        /\ tale.events < MaxEvents /\ tale' = [tale EXCEPT !.events = @ + 1]
    BY <1>3 DEF TurnTheme, Event
  <2>2. tale' \in [events : 0..MaxEvents, early : BOOLEAN] /\ tale'.early = tale.early
    BY <1>1, <2>1, ChartAssumption DEF ChartTypeOK
  <2>3. (~darkMode) \in BOOLEAN
    OBVIOUS
  <2>4. /\ instance' \in Instances /\ ~instance'.mask /\ instance'.dark = ~darkMode
        /\ instance'.data = options
    BY <1>1, <2>1, <2>3, ChartRendered
  <2> QED
    BY <1>1, <2>1, <2>2, <2>4 DEF ChartInv, ChartTypeOK, ChartCurrent, Instances
<1>4. CASE TrendsArrive
  <2>1. /\ sized' = sized /\ darkMode' = darkMode /\ tale.events < MaxEvents
        /\ trends' = tale.events + 1
        /\ options' = IF instance.alive THEN trends' ELSE options
        /\ instance' = IF instance.alive THEN [instance EXCEPT !.data = trends', !.mask = FALSE]
                       ELSE instance
        /\ tale' = [events |-> tale.events + 1, early |-> ~instance.alive]
    BY <1>1, <1>4 DEF TrendsArrive, Unmasked, Instances
  <2>2. tale.events + 1 \in 0..MaxEvents
    BY <1>1, <2>1, ChartAssumption DEF ChartTypeOK
  <2>3. trends' \in 0..MaxEvents /\ options' \in 0..MaxEvents
    BY <1>1, <2>1, <2>2 DEF ChartTypeOK
  <2>4. /\ instance' \in Instances /\ instance'.alive = instance.alive
        /\ instance.alive => /\ instance'.data = trends' /\ ~instance'.mask
                             /\ instance'.dark = instance.dark
    BY <1>1, <2>1, <2>3 DEF Instances
  <2> QED
    BY <1>1, <2>1, <2>2, <2>3, <2>4 DEF ChartInv, ChartTypeOK, ChartCurrent, Instances
<1> QED
  BY <1>2, <1>3, <1>4 DEF ChartNext

(* The chart on the screen is of the newest data and the theme of the page,  *)
(* whatever resizes and turns of the theme destroy and remake it             *)
(* (hooks/common/echarts.ts).                                                *)
THEOREM ChartIsCurrent == ChartSpec => []ChartInv
<1>1. ASSUME ChartInv, UNCHANGED chartVars PROVE ChartInv'
  BY <1>1 DEF chartVars, ChartInv, ChartTypeOK, ChartCurrent
<1> QED
  BY <1>1, ChartStarts, ChartStep, PTL DEF ChartSpec

-----------------------------------------------------------------------------
(* What the runs check of these pages together                               *)

(* Cancelling reaches the request it names, an error is told once and none   *)
(* is forgotten, and one notice announces a new build, whatever requests and *)
(* checks cross (packages/axios, service/request, plugins/app.ts).           *)
THEOREM PageTells == RequestSpec /\ NoticeSpec => []ErrorsTold
<1>1. RequestInv /\ NoticeInv => ErrorsTold
  BY DEF ErrorsTold, RequestInv, NoticeInv
<1> QED
  BY <1>1, ErrorsAreTold, NoticesAreOne, PTL

(* Every form does once, to its own row, what was typed into it; what is to  *)
(* be paid is unpaid and on offer; an upload goes where its dialog said (the *)
(* dialogs of the administration, profile-model, recharge, upload-dialog).   *)
THEOREM FormsDoAsTyped == FormSpec /\ ProfileSpec /\ RechargeSpec /\ UploadDialogSpec => []FormsKept
<1>1. FormInv /\ ProfileInv /\ RechargeInv /\ UploadDialogInv => FormsKept
  BY DEF FormsKept, FormInv, ProfileInv, RechargeInv, UploadDialogInv
<1> QED
  BY <1>1, FormsAreKept, ProfileIsStored, RechargesAreTrue, UploadsAsChosen, PTL

(* The screen follows its controls: lists, chart, scheme and layout          *)
(* (use-table.ts, echarts.ts, the theme store).                              *)
THEOREM ScreenIsFollowed == ListSpec /\ ChartSpec /\ ThemeSpec => []ScreenFollows
<1>1. ListInv /\ ChartInv /\ ThemeInv => ScreenFollows
  BY DEF ScreenFollows, ListInv, ChartInv, ThemeInv
<1> QED
  BY <1>1, ListsOfControls, ChartIsCurrent, ThemeIsKept, PTL
=============================================================================
