----------------------------- MODULE Navigation -----------------------------
(***************************************************************************)
(* The router of the page: the guard, the routes registered for the role   *)
(* of the user, the tabs, and the ends and beginnings of sessions that     *)
(* move the user between the login page and the views.                     *)
(*                                                                         *)
(* A navigation runs its guard at once, unless the guard must ask who the  *)
(* user is; then the view is loaded, and the navigation arrives.  Another  *)
(* navigation that starts in between overtakes it.                         *)
(***************************************************************************)
EXTENDS Naturals, Sequences, FiniteSets

CONSTANTS
  View, Home,
  AdminView,   \* views whose meta.roles is ADMIN
  Fixed,       \* views whose tab is fixed
  User, Admin,
  MaxActs,     \* bound: what the user does
  NoUser, NoTabs

Constant == {"login", "forbidden", "missing"}   \* the places that need no login
Target == View \cup {"login", "forbidden", "nowhere"}
Place == View \cup Constant \cup {"start"}

ASSUME NavigationAssumption ==
  /\ View \cap {"login", "forbidden", "missing", "nowhere", "start", "wait"} = {}
  /\ Home \in View /\ AdminView \subseteq View \ {Home} /\ Fixed \subseteq View
  /\ Admin \subseteq User /\ NoUser \notin User /\ MaxActs \in Nat

VARIABLES
  stored,    \* the user whose token is in local storage
  info,      \* authStore.userInfo: whose it is
  last,      \* lastLoginUserId in local storage
  me,        \* users for whom the user info is asked and nobody waits
  routes,    \* the views registered
  authInit,  \* isInitAuthRoute
  place,     \* router.currentRoute
  want,      \* the redirect of the login page, Home for none
  navs,      \* navigations under way
  tabs,      \* tabStore: its tabs, and who opened them
  active,    \* activeTabId
  cached,    \* globalTabs in local storage
  acts,      \* what the user has done
  slipped,   \* history: a session ended and the way to the login page was lost
  mixed,     \* history: the user info or the routes were another user's than the token
  half,      \* history: a login got its tokens and no user info, so the tabs were not looked at
  swept      \* history: tabs opened while others were being closed were dropped

session == <<stored, info, last>>
router == <<routes, authInit>>
bar == <<tabs, active, cached>>
history == <<slipped, mixed, half, swept>>
vars == <<session, me, router, place, want, navs, bar, acts, history>>

----------------------------------------------------------------------------
(* Routes.                                                                 *)

(* filterAuthRoutesByRoles; the super role has them all.                   *)
filterAuthRoutesByRoles(u) == IF u \in Admin THEN View ELSE View \ AdminView

(* The guard, when the routes are there: s is the user of the token, i the *)
(* user whose role is known, r the views registered.                       *)
Settle(t, s, i, r) ==
  IF s = NoUser THEN IF t = "forbidden" THEN t ELSE "login"
  ELSE CASE t = "login"       -> Home
         [] t = "forbidden"   -> t
         [] t = "nowhere"     -> "missing"
         [] t \in r           -> IF t \in AdminView /\ i \notin Admin THEN "forbidden" ELSE t
         [] OTHER             -> "forbidden"

(* getRouteQueryOfLoginRoute.                                              *)
RedirectOf(t) == IF t \in View \cup {"nowhere"} THEN t ELSE Home

----------------------------------------------------------------------------
(* Tabs.                                                                   *)

Ids(ts) == {ts[k].view : k \in 1..Len(ts)}
Index(ts, v) == CHOOSE k \in 1..Len(ts) : ts[k].view = v

addTab(ts, v) ==
  IF v = Home \/ v \in Ids(ts) THEN ts ELSE Append(ts, [view |-> v, by |-> stored])

isTabRetain(v) == v = Home \/ v \in Fixed

(* The elements of s whose index is in I, in their order: what filter      *)
(* leaves, without recursion.                                              *)
Rank(i, I) == Cardinality({x \in I : x <= i})
Picked(s, I) == [j \in 1..Cardinality(I) |-> s[CHOOSE i \in I : Rank(i, I) = j]]

(* clearTabs: what is left of the tabs.                                    *)
Cleared(ts, excludes) == Picked(ts, {k \in 1..Len(ts) : ts[k].view \in Fixed \cup excludes})

LastTab(ts) == IF ts = <<>> THEN Home ELSE ts[Len(ts)].view

(* A stored tab whose view is not registered is left out.                  *)
extractTabsByAllRoutes(ts) == Picked(ts, {k \in 1..Len(ts) : ts[k].view \in routes})

(* GlobalTab is mounted with the first view after another place.           *)
Shown(v) ==
  IF v \notin View \/ v = place THEN tabs
  ELSE IF place \notin View /\ cached # NoTabs THEN addTab(extractTabsByAllRoutes(cached), v)
  ELSE addTab(tabs, v)

----------------------------------------------------------------------------
(* Navigations.                                                            *)

Nothing == [kind |-> "none", tab |-> Home, keep |-> <<>>]
SwitchTo(v) == [kind |-> "tab", tab |-> v, keep |-> <<>>]
ThenClear(v, ts) == [kind |-> "clear", tab |-> v, keep |-> ts]
ThenReset == [kind |-> "reset", tab |-> Home, keep |-> <<>>]

Overtaken(ns) == [k \in DOMAIN ns |-> [ns[k] EXCEPT !.live = FALSE]]
Without(ns, k) == SubSeq(ns, 1, k - 1) \o SubSeq(ns, k + 1, Len(ns))

(* router.push with the session that will be: the guard runs, and asks for *)
(* the user info when it has none to choose the routes by.                 *)
Push(ns, t, w, then, s, i, m) ==
  LET new   == s # NoUser /\ ~authInit
      waits == new /\ i = NoUser
      r     == IF new /\ ~waits THEN filterAuthRoutesByRoles(i) ELSE routes
      at    == IF waits THEN "wait" ELSE Settle(t, s, i, r)
  IN /\ navs' = Append(Overtaken(ns),
                  [to |-> t, at |-> at, want |-> w, then |-> then, live |-> TRUE, by |-> s])
     /\ routes' = r /\ authInit' = (authInit \/ (new /\ ~waits))
     /\ me' = IF s # NoUser /\ ~waits THEN m \cup {s} ELSE m
     /\ mixed' = (mixed \/ (new /\ ~waits /\ i # s))

Init ==
  /\ stored \in User \cup {NoUser} /\ info = NoUser /\ last = NoUser
  /\ me = {} /\ routes = {} /\ authInit = FALSE
  /\ place = "start" /\ want = Home
  /\ \E t \in Target :
       navs = << [to |-> t, at |-> IF stored = NoUser THEN Settle(t, NoUser, NoUser, {}) ELSE "wait",
                  want |-> RedirectOf(t), then |-> Nothing, live |-> TRUE, by |-> stored] >>
  /\ tabs = <<>> /\ active = Home /\ cached = NoTabs
  /\ acts = 0 /\ slipped = FALSE /\ mixed = FALSE /\ half = FALSE /\ swept = FALSE

Act == acts < MaxActs /\ Len(navs) < 2 /\ acts' = acts + 1

----------------------------------------------------------------------------
(* The user.                                                               *)

(* A menu, the search, or the address bar.                                 *)
GoTo(t) ==
  /\ Act /\ place # "start" /\ t # place
  /\ Push(navs, t, RedirectOf(t), Nothing, stored, info, me)
  /\ UNCHANGED <<session, place, want, bar, slipped, swept, half>>

(* switchRouteByTab.  For the tab of the place on screen there is nothing  *)
(* to do, but what was under way is overtaken, a logout as well.           *)
switchRouteByTab(v, ns, then) ==
  IF v = place
    THEN /\ navs' = Overtaken(ns) /\ UNCHANGED <<router, me, mixed>>
         /\ slipped' = (slipped \/ stored = NoUser)
    ELSE Push(ns, v, RedirectOf(v), then, stored, info, me) /\ UNCHANGED slipped

ClickTab(v) ==
  /\ Act /\ place \in View /\ v \in Ids(tabs) \cup {Home}
  /\ switchRouteByTab(v, navs, SwitchTo(v))
  /\ UNCHANGED <<session, place, want, bar, swept, half>>

(* removeTab.                                                              *)
CloseTab(v) ==
  /\ Act /\ place \in View /\ v \in Ids(tabs) /\ ~isTabRetain(v)
  /\ LET k == Index(tabs, v)
         next == IF k = Len(tabs) THEN Home ELSE tabs[k + 1].view
     IN /\ tabs' = Without(tabs, k)
        /\ IF v = active THEN switchRouteByTab(next, navs, SwitchTo(next))
                         ELSE UNCHANGED <<navs, router, me, mixed, slipped>>
  /\ UNCHANGED <<session, place, want, active, cached, swept, half>>

(* clearTabs: when the active tab goes, the page first switches to another *)
(* and only then drops the tabs.                                           *)
ClearTabs(excludes) ==
  LET keep == Cleared(tabs, excludes) IN
  IF active \in Ids(tabs) \ Ids(keep)
    THEN LET v == LastTab(keep) IN
         /\ switchRouteByTab(v, navs, ThenClear(v, keep))
         /\ tabs' = IF v = place THEN keep ELSE tabs
    ELSE tabs' = keep /\ UNCHANGED <<navs, router, me, mixed, slipped>>

(* The context menu of a tab: close others, to the left, to the right, all.*)
CloseOthers(v) ==
  /\ Act /\ place \in View /\ v \in Ids(tabs) \cup {Home}
  /\ \/ ClearTabs({v})
     \/ ~isTabRetain(v) /\ ClearTabs({tabs[k].view : k \in Index(tabs, v)..Len(tabs)})
     \/ ClearTabs(IF v = Home THEN {} ELSE {tabs[k].view : k \in 1..Index(tabs, v)})
     \/ ClearTabs({})
  /\ UNCHANGED <<session, place, want, active, cached, swept, half>>

(* The page is loaded anew; its tabs are kept in the storage.              *)
Reload ==
  /\ Act /\ place # "start"
  /\ cached' = tabs /\ tabs' = <<>> /\ active' = Home
  /\ info' = NoUser /\ me' = {} /\ routes' = {} /\ authInit' = FALSE
  /\ place' = "start" /\ want' = Home
  /\ LET t == IF place = "missing" THEN "nowhere" ELSE place IN
     navs' = << [to |-> t, at |-> IF stored = NoUser THEN Settle(t, NoUser, NoUser, {}) ELSE "wait",
                 want |-> IF t = "login" THEN want ELSE RedirectOf(t), then |-> Nothing, live |-> TRUE, by |-> stored] >>
  /\ UNCHANGED <<stored, last, history>>

----------------------------------------------------------------------------
(* Sessions.                                                               *)

(* resetStore, up to the navigation to the login page, which a page that   *)
(* needs no login stays away from.                                         *)
resetStore(ns, m) ==
  /\ last' = IF info = NoUser THEN last ELSE info
  /\ stored' = NoUser /\ info' = NoUser
  /\ IF place \in Constant
       THEN /\ cached' = tabs
            /\ routes' = {} /\ authInit' = FALSE
            /\ navs' = ns /\ me' = m
            /\ slipped' = (slipped \/ \E k \in DOMAIN ns : ns[k].live /\ ns[k].at \in View)
            /\ UNCHANGED mixed
       ELSE /\ Push(ns, "login", RedirectOf(place), ThenReset, NoUser, NoUser, m)
            /\ UNCHANGED <<cached, slipped>>

Logout ==
  /\ Act /\ place \in View /\ stored # NoUser
  /\ resetStore(navs, me)
  /\ UNCHANGED <<place, want, tabs, active, swept, half>>

(* checkTabClear: the tabs of somebody else go, but the fixed ones.        *)
checkTabClear(u) == last = NoUser \/ last # u

(* Mutant: the tabs are kept for whoever comes.                            *)
LoginKept(u) ==
  /\ Act /\ place = "login" /\ navs = <<>>
  /\ stored' = u /\ info' = u /\ last' = NoUser
  /\ Push(navs, want, Home, Nothing, u, u, me)
  /\ UNCHANGED <<place, want, bar, slipped, swept, half>>

(* A login that gets its user info.  The switch that clearTabs may ask for *)
(* is overtaken at once by the navigation to the page the user wanted.     *)
Login(u) ==
  /\ Act /\ place = "login" /\ navs = <<>>
  /\ stored' = u /\ info' = u /\ last' = NoUser
  /\ IF checkTabClear(u)
       THEN cached' = NoTabs /\ tabs' = Cleared(tabs, {}) /\ Push(navs, Home, Home, Nothing, u, u, me)
       ELSE UNCHANGED <<cached, tabs>> /\ Push(navs, want, Home, Nothing, u, u, me)
  /\ UNCHANGED <<place, want, active, slipped, swept, half>>

(* A login that gets its tokens and no user info.                          *)
HalfLogin(u) ==
  /\ Act /\ place = "login" /\ navs = <<>>
  /\ stored' = u /\ half' = TRUE
  /\ UNCHANGED <<info, last, me, router, place, want, navs, bar, slipped, mixed, swept>>

(* initUserInfo at a switch of routes, which nobody waits for.             *)
MeAnswered(u) ==
  /\ u \in me /\ me' = me \ {u}
  /\ info' = u
  /\ mixed' = (mixed \/ u # stored)
  /\ UNCHANGED <<stored, last, router, place, want, navs, bar, acts, slipped, swept, half>>

MeFailed(u) ==
  /\ u \in me
  /\ resetStore(navs, me \ {u})
  /\ UNCHANGED <<place, want, tabs, active, acts, swept, half>>

----------------------------------------------------------------------------
(* The rest of a navigation.                                               *)

(* What the caller does when its navigation has ended.                     *)
Finish(n, ok, ts, act) ==
  /\ active' = IF ok /\ n.then.kind \in {"tab", "clear"} THEN n.then.tab ELSE act
  /\ tabs' = IF n.then.kind = "clear" THEN n.then.keep ELSE ts
  /\ swept' = (swept \/ (n.then.kind = "clear" /\ (active' \notin Ids(tabs') \cup {Home})))

ResetRoutes(n) ==
  IF n.then.kind = "reset"
    THEN cached' = tabs /\ routes' = {} /\ authInit' = FALSE
    ELSE UNCHANGED <<cached, router>>

Arrive(k) ==
  LET n == navs[k] IN
  /\ n.live /\ n.at # "wait"
  /\ place' = n.at
  /\ want' = IF n.at = "login" THEN n.want ELSE want
  /\ navs' = Without(navs, k)
  /\ Finish(n, TRUE, Shown(n.at), IF n.at \in View /\ n.at # place THEN n.at ELSE active)
  /\ ResetRoutes(n)
  /\ UNCHANGED <<session, me, acts, slipped, mixed, half>>

(* A navigation that was overtaken ends where it next looks.               *)
Cancelled(k) ==
  LET n == navs[k] IN
  /\ ~n.live /\ n.at # "wait"
  /\ navs' = Without(navs, k)
  /\ Finish(n, FALSE, tabs, active)
  /\ ResetRoutes(n)
  /\ UNCHANGED <<session, me, place, want, acts, slipped, mixed, half>>

(* initAuthRoute, with the user info.                                      *)
InitAuthRoute(k) ==
  LET n == navs[k] IN
  /\ n.at = "wait"
  /\ info' = n.by
  /\ routes' = filterAuthRoutesByRoles(n.by) /\ authInit' = TRUE
  /\ mixed' = (mixed \/ n.by # stored)
  /\ navs' = [navs EXCEPT ![k].at = Settle(n.to, stored, n.by, filterAuthRoutesByRoles(n.by))]
  /\ me' = IF stored # NoUser THEN me \cup {stored} ELSE me
  /\ UNCHANGED <<stored, last, place, want, bar, acts, slipped, swept, half>>

(* Mutant: the session ends and the page waits for a user.                 *)
InitAuthRouteFailedQuietly(k) ==
  LET n == navs[k] IN
  /\ n.at = "wait" /\ place = "start"
  /\ last' = IF info = NoUser THEN last ELSE info
  /\ stored' = NoUser /\ info' = NoUser
  /\ cached' = tabs /\ navs' = Without(navs, k)
  /\ UNCHANGED <<router, me, place, want, tabs, active, acts, history>>

(* initAuthRoute, without: the session ends, and the routes of no user in  *)
(* particular are registered all the same.                                 *)
InitAuthRouteFailed(k) ==
  LET n == navs[k]
      ns == [navs EXCEPT ![k].at = Settle(n.to, NoUser, NoUser, {})]
  IN
  /\ n.at = "wait"
  /\ last' = IF info = NoUser THEN last ELSE info
  /\ stored' = NoUser /\ info' = NoUser
  /\ routes' = filterAuthRoutesByRoles(NoUser) /\ authInit' = TRUE
  /\ IF place \in Constant
       THEN cached' = tabs /\ navs' = ns /\ mixed' = TRUE
       ELSE /\ navs' = Append(Overtaken(ns),
                         [to |-> "login", at |-> "login", want |-> RedirectOf(place), then |-> ThenReset,
                          live |-> TRUE, by |-> NoUser])
            /\ UNCHANGED <<cached, mixed>>
  /\ slipped' = (slipped \/ (place \in Constant /\ \E j \in DOMAIN navs : navs[j].live /\ navs[j].at \in View))
  /\ UNCHANGED <<me, place, want, tabs, active, acts, swept, half>>

----------------------------------------------------------------------------
UserStep ==
  \/ \E t \in Target : GoTo(t)
  \/ \E v \in View : ClickTab(v) \/ CloseTab(v) \/ CloseOthers(v)
  \/ \E u \in User : Login(u) \/ HalfLogin(u)
  \/ Reload \/ Logout

Progress ==
  \/ \E k \in DOMAIN navs : Arrive(k) \/ Cancelled(k) \/ InitAuthRoute(k) \/ InitAuthRouteFailed(k)

Answers == \E u \in User : MeAnswered(u) \/ MeFailed(u)

Next == UserStep \/ Progress \/ Answers

Spec == Init /\ [][Next]_vars

(* Views are loaded, requests are answered.                                *)
FairSpec == Spec /\ WF_vars(Progress) /\ WF_vars(Answers)

----------------------------------------------------------------------------
(* Properties.                                                             *)

Quiet == navs = <<>>

Tab == [view : View \ {Home}, by : User \cup {NoUser}]
Then == [kind : {"none", "tab", "clear", "reset"}, tab : View, keep : Seq(Tab)]
Nav == [to : Target, at : (Place \ {"start"}) \cup {"wait"}, want : View \cup {"nowhere"},
        then : Then, live : BOOLEAN, by : User \cup {NoUser}]

TabsOnce(ts) == \A j, k \in DOMAIN ts : ts[j].view = ts[k].view => j = k

TypeOK ==
  /\ stored \in User \cup {NoUser} /\ info \in User \cup {NoUser} /\ last \in User \cup {NoUser}
  /\ me \subseteq User /\ routes \subseteq View /\ authInit \in BOOLEAN
  /\ place \in Place /\ want \in View \cup {"nowhere"}
  /\ navs \in Seq(Nav) /\ \A k \in DOMAIN navs : TabsOnce(navs[k].then.keep)
  /\ tabs \in Seq(Tab) /\ TabsOnce(tabs)
  /\ cached # NoTabs => cached \in Seq(Tab) /\ TabsOnce(cached)
  /\ active \in View
  /\ slipped \in BOOLEAN /\ mixed \in BOOLEAN /\ half \in BOOLEAN /\ swept \in BOOLEAN

(* A view stays on screen only for a user who may see it, wherever         *)
(* sessions end while views load; unless the session ended on a page that  *)
(* is for everybody with a navigation under way, or a click on the tab on  *)
(* screen overtook the way to the login page.                              *)
Guarded ==
  Quiet /\ place \in View /\ ~slipped =>
    stored # NoUser /\ (place \in AdminView /\ ~mixed => stored \in Admin)

(* The views that are registered, and in the menu, are those of the user:  *)
(* after a change of user nothing is left of the one before.               *)
RoutesMatch ==
  Quiet /\ place \in View /\ ~slipped /\ ~mixed => routes = filterAuthRoutesByRoles(stored)

(* Nobody sees which views the user before had open, unless the login did  *)
(* not get as far as to look.                                              *)
TabsMine ==
  Quiet /\ place \in View /\ ~slipped /\ ~half /\ ~mixed =>
    \A k \in DOMAIN tabs : tabs[k].by = stored \/ tabs[k].view \in Fixed

(* The tab shown as active is the view on screen, and it is in the bar.    *)
ActiveIsShown ==
  Quiet /\ place \in View /\ ~swept => active = place /\ active \in Ids(tabs) \cup {Home}

(* A user whose session has ended, or who has none, is brought to a page   *)
(* that is for everybody.                                                  *)
ReachesLogin == stored = NoUser ~> place \in Constant \/ stored # NoUser \/ slipped

----------------------------------------------------------------------------
(* The inductive invariant.                                                *)

(* Only the last navigation can be live, and that one leads elsewhere; one *)
(* to the login page, or that resets the routes, is of an ended session;   *)
(* one that switches tabs ends at its tab, or at no view.                  *)
NavsOK ==
  \A k \in DOMAIN navs :
    LET n == navs[k] IN
    /\ n.live => k = Len(navs) /\ n.to # place
    /\ n.at = "login" \/ n.then.kind = "reset" => stored = NoUser
    /\ n.at = "wait" => n.by # NoUser
    /\ n.at \in View => n.at = n.to \/ (n.at = Home /\ n.to = "login")
    /\ n.then.kind \in {"tab", "clear"} => n.to = n.then.tab
    /\ n.then.kind = "clear" => n.then.tab \in Ids(n.then.keep) \cup {Home}

(* A view is loaded, and stays, for a user with routes who may see it.     *)
LiveIsAllowed ==
  ~slipped => \A k \in DOMAIN navs : navs[k].live /\ navs[k].at \in View =>
    stored # NoUser /\ authInit /\ (navs[k].at \in AdminView /\ ~mixed => stored \in Admin)
PlaceIsAllowed ==
  ~slipped /\ place \in View /\ stored # NoUser =>
    authInit /\ (place \in AdminView /\ ~mixed => stored \in Admin)

(* Without a user the page is on its way out of a view.                    *)
WayOut ==
  ~slipped /\ stored = NoUser /\ place \notin Constant =>
    \E k \in DOMAIN navs : navs[k].live /\ navs[k].at \in {"login", "forbidden"}

(* Registered routes are those of the user, or a reset of them is to come. *)
RoutesOf ==
  ~mixed /\ authInit =>
    IF stored # NoUser THEN info = stored /\ routes = filterAuthRoutesByRoles(stored)
    ELSE \E k \in DOMAIN navs : navs[k].then.kind = "reset"

(* Who is logged in leaves the login page, and comes there without routes. *)
LeavesLogin ==
  place = "login" /\ stored # NoUser =>
    /\ navs # <<>> => \E k \in DOMAIN navs : navs[k].live
    /\ (~mixed /\ authInit) \/ ~half => navs # <<>>

(* Whose tabs there are: the user's, or after his session those of the     *)
(* last user, if it is remembered who that was.                            *)
OwnTabs(ts) ==
  \A k \in DOMAIN ts :
    \/ ts[k].view \in Fixed
    \/ ts[k].by = IF stored # NoUser THEN stored ELSE last
TabsOwned ==
  ~half /\ ~mixed =>
    /\ info \in {NoUser, stored} /\ (stored # NoUser => last = NoUser)
    /\ ~slipped /\ (stored # NoUser \/ last # NoUser) =>
         /\ OwnTabs(tabs) /\ (cached # NoTabs => OwnTabs(cached))
         /\ \A k \in DOMAIN navs : OwnTabs(navs[k].then.keep)

(* The active tab is that of the view, and in the bar unless the page is   *)
(* about to leave it.                                                      *)
ActiveIsPlace ==
  ~swept /\ place \in View =>
    /\ active = place
    /\ active \in Ids(tabs) \cup {Home} \/ \E k \in DOMAIN navs : navs[k].live

NavigationInv ==
  /\ TypeOK /\ NavsOK /\ LiveIsAllowed /\ PlaceIsAllowed /\ WayOut /\ RoutesOf /\ LeavesLogin
  /\ TabsOwned /\ ActiveIsPlace

(* The view, the registered views, the tabs and the active tab all belong to *)
(* the user who is logged in (router guard, route and tab stores).           *)
PlaceAllowed == NavigationInv /\ Guarded /\ RoutesMatch /\ TabsMine /\ ActiveIsShown
=============================================================================
