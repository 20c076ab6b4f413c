-------------------------------- MODULE Menus --------------------------------
(* What the front end makes of its routes: the routes of a role, the menus,  *)
(* the path of a menu, the breadcrumbs, the entries of the menu search, the  *)
(* routes of the Vue router and the tabs in their order.                     *)
(*   store/modules/route/shared.ts, router/elegant/transform.ts,             *)
(*   store/modules/tab/shared.ts, layouts/context/index.ts                   *)
(*                                                                           *)
(* A route is a record [name, order, roles, hidden, active, kind, children]: *)
(* the name is the sequence of its segments ("a_b" is <<"a", "b">>), active  *)
(* is meta.activeMenu or <<>>, kind what its component is ("view", "layout", *)
(* "broken": one that is not found).  A menu is [key, children].             *)
EXTENDS Naturals, Sequences, FiniteSets, SequencesExt, FiniteSetsExt

FlatMap(op(_), s) == FlattenSeq([i \in 1..Len(s) |-> op(s[i])])

-----------------------------------------------------------------------------
(* filterAuthRoutesByRoles                                                   *)

(* Mutant: a route whose children are all filtered stays. *)
RECURSIVE FilterKeptEmpty(_, _)
FilterKeptEmpty(r, role) ==
    LET kids == FlatMap(LAMBDA c : FilterKeptEmpty(c, role), r.children)
    IN IF r.roles = {} \/ role \in r.roles THEN <<[r EXCEPT !.children = kids]>> ELSE <<>>

(* filterAuthRouteByRoles: a route with no roles is open; one that had       *)
(* children and keeps none goes.                                             *)
RECURSIVE FilterAuthRouteByRoles(_, _)
FilterAuthRouteByRoles(r, role) ==
    LET kids == FlatMap(LAMBDA c : FilterAuthRouteByRoles(c, role), r.children)
    IN IF r.children # <<>> /\ kids = <<>> THEN <<>>
       ELSE IF r.roles = {} \/ role \in r.roles THEN <<[r EXCEPT !.children = kids]>> ELSE <<>>

FilterAuthRoutesByRoles(routes, role) == FlatMap(LAMBDA r : FilterAuthRouteByRoles(r, role), routes)

(* sortRoutesByOrder, at every level; the sort is stable.                    *)
RECURSIVE SortRoutesByOrder(_)
SortRoutesByOrder(routes) ==
    LET place == SetToSortSeq(1..Len(routes),
                     LAMBDA i, j : \/ routes[i].order < routes[j].order
                                   \/ routes[i].order = routes[j].order /\ i < j)
    IN [k \in 1..Len(routes) |->
          [routes[place[k]] EXCEPT !.children = SortRoutesByOrder(@)]]

-----------------------------------------------------------------------------
(* Menus                                                                     *)

(* getGlobalMenusByAuthRoutes: hidden routes have no menu, and a menu has    *)
(* children when some child is not hidden.                                   *)
RECURSIVE GetGlobalMenusByAuthRoutes(_)
GetGlobalMenusByAuthRoutes(routes) ==
    LET shown == SelectSeq(routes, LAMBDA r : ~r.hidden)
    IN [k \in 1..Len(shown) |->
          [key |-> shown[k].name, children |-> GetGlobalMenusByAuthRoutes(shown[k].children)]]

RECURSIVE Keys(_)
Keys(menus) == UNION {{menus[k].key} \cup Keys(menus[k].children) : k \in 1..Len(menus)}

(* findMenuPath: depth first, <<>> for null.                                 *)
RECURSIVE FindMenuPath(_, _)
FindMenuPath(key, menu) ==
    LET found == SelectSeq([k \in 1..Len(menu.children) |-> FindMenuPath(key, menu.children[k])],
                           LAMBDA p : p # <<>>)
    IN IF menu.key = key THEN <<key>>
       ELSE IF found = <<>> THEN <<>> ELSE <<menu.key>> \o found[1]

GetSelectedMenuKeyPathByKey(key, menus) ==
    LET found == SelectSeq([k \in 1..Len(menus) |-> FindMenuPath(key, menus[k])], LAMBDA p : p # <<>>)
    IN IF found = <<>> THEN <<>> ELSE found[1]

(* getBreadcrumbsByRoute: the menus down to the route's own; a route without *)
(* one stands under the menu it names as active, or alone when that is not   *)
(* its parent by name.                                                       *)
RECURSIVE GetBreadcrumbsByRoute(_, _)
GetBreadcrumbsByRoute(r, menus) ==
    LET menu == menus[1]
        deeper == GetBreadcrumbsByRoute(r, menu.children)
    IN IF menus = <<>> THEN <<>>
       ELSE IF menu.key = r.name THEN <<menu.key>>
       ELSE IF menu.key = r.active
            THEN IF Front(r.name) = r.active THEN <<menu.key, r.name>> ELSE <<r.name>>
       ELSE IF deeper # <<>> THEN <<menu.key>> \o deeper
       ELSE GetBreadcrumbsByRoute(r, Tail(menus))

(* transformMenuToSearchMenus: the menus without children, in order.         *)
RECURSIVE TransformMenuToSearchMenus(_)
TransformMenuToSearchMenus(menus) ==
    FlatMap(LAMBDA m : IF m.children = <<>> THEN <<m.key>> ELSE TransformMenuToSearchMenus(m.children),
            menus)

(* useMenu: what is selected for a route; useMixMenu: its first level, by    *)
(* name, and the menus below.                                                *)
SelectedKey(r) == IF r.hidden /\ r.active # <<>> THEN r.active ELSE r.name
FirstLevelMenuKey(r) == <<Head(SelectedKey(r))>>
ChildLevelMenus(menus, key) ==
    LET of == SelectSeq(menus, LAMBDA m : m.key = key)
    IN IF of = <<>> THEN <<>> ELSE of[1].children

-----------------------------------------------------------------------------
(* Routes of the Vue router                                                  *)

FirstLevel(r) == Len(r.name) = 1

(* transformElegantRouteToVueRoute: a single route gets a nameless layout    *)
(* round it; the children of a first level stay below it, those of a deeper  *)
(* one are hoisted beside it; a component that is not found drops the route  *)
(* and all below it.                                                         *)
RECURSIVE TransformElegantRouteToVueRoute(_)
TransformElegantRouteToVueRoute(r) ==
    LET kids == FlatMap(LAMBDA c : TransformElegantRouteToVueRoute(c), r.children)
    IN IF r.kind = "broken" THEN <<>>
       ELSE IF FirstLevel(r) /\ r.children = <<>>
            THEN <<[name |-> <<>>, children |-> <<[name |-> r.name, children |-> <<>>]>>]>>
       ELSE IF FirstLevel(r) THEN <<[name |-> r.name, children |-> kids]>>
       ELSE <<[name |-> r.name, children |-> <<>>]>> \o kids

GetAuthVueRoutes(routes) == FlatMap(LAMBDA r : TransformElegantRouteToVueRoute(r), routes)

(* getCacheRouteNames: the second level, where the views are.                *)
GetCacheRouteNames(vueRoutes) ==
    FlatMap(LAMBDA v : [k \in 1..Len(v.children) |-> v.children[k].name], vueRoutes)

RECURSIVE IsRouteExistByRouteName(_, _)
IsRouteExistByRouteName(name, routes) ==
    \E k \in 1..Len(routes) :
        routes[k].name = name \/ IsRouteExistByRouteName(name, routes[k].children)

-----------------------------------------------------------------------------
(* Tabs [id, fixed]: the id is a path and its query, fixed an index or 0     *)

(* getAllTabs: the home tab, the fixed ones by index, the others as opened.  *)
GetAllTabs(tabs, home) ==
    LET others == SelectSeq(tabs, LAMBDA t : t.id # home.id)
    IN <<home>> \o SortSeq(SelectSeq(others, LAMBDA t : t.fixed # 0), LAMBDA s, t : s.fixed < t.fixed)
                \o SelectSeq(others, LAMBDA t : t.fixed = 0)

(* getTabIdByRoute: with meta.multiTab the query is part of the id, whatever *)
(* the order of its keys.                                                    *)
GetTabIdByRoute(path, query, multi) ==
    [path |-> path, query |-> IF multi THEN {query[k] : k \in 1..Len(query)} ELSE {},
     multi |-> multi]

(* findTabByRouteName: the first tab of the route's path, multi or not.      *)
FindTabByRouteName(path, tabs) ==
    LET of == SelectSeq(tabs, LAMBDA t : t.id.path = path)
    IN IF of = <<>> THEN <<>> ELSE <<of[1]>>

-----------------------------------------------------------------------------
(* What is promised, for any routes and role                                 *)

(* The chains of routes from the top; all of one have property p.            *)
RECURSIVE Chains(_)
Chains(routes) ==
    UNION {{<<routes[k]>>} \cup {<<routes[k]>> \o c : c \in Chains(routes[k].children)} :
           k \in 1..Len(routes)}
ChainsOf(routes, p(_)) == {c \in Chains(routes) : \A k \in 1..Len(c) : p(c[k])}

(* The menus of a role are just the routes that are open to it and not       *)
(* hidden all the way down from the top, and that lead to a page: those with *)
(* no children, or with one that is open all the way.                        *)
MenusPermitted(routes, role) ==
    LET open(r) == r.roles = {} \/ role \in r.roles
        ends(c) == {d \in ChainsOf(routes, open) :
                      /\ IsPrefix(c, d) /\ Last(d).children = <<>>}
        seen == {c \in ChainsOf(routes, open) : ends(c) # {} /\ \A k \in 1..Len(c) : ~c[k].hidden}
    IN Keys(GetGlobalMenusByAuthRoutes(SortRoutesByOrder(FilterAuthRoutesByRoles(routes, role))))
         = {Last(c).name : c \in seen}

(* The path, the first level and the breadcrumbs of a route agree: with a    *)
(* menu the breadcrumbs are the path to it and the first level its start;    *)
(* without one they are empty or end with the route itself.                  *)
PathsAgree(routes) ==
    LET menus == GetGlobalMenusByAuthRoutes(routes)
        each == {Last(c) : c \in Chains(routes)}
    IN \A r \in each :
        LET path == GetSelectedMenuKeyPathByKey(r.name, menus)
            crumbs == GetBreadcrumbsByRoute(r, menus)
        IN /\ (path = <<>>) = (r.name \notin Keys(menus))
           /\ path # <<>> =>
                /\ path[1] = <<r.name[1]>> /\ Last(path) = r.name
                /\ \A k \in 1..(Len(path) - 1) : IsPrefix(path[k], path[k + 1])
                /\ r.active = <<>> => crumbs = path
                /\ ~r.hidden => ToSet(TransformMenuToSearchMenus(menus)) \cap Keys(
                                   ChildLevelMenus(menus, FirstLevelMenuKey(r))) # {}
                                \/ Len(r.name) = 1
           /\ path = <<>> /\ crumbs # <<>> => Last(crumbs) = r.name

(* Every route whose component, and those above, are found has its page in   *)
(* the router once, and none lies deeper than the second level (whose views  *)
(* are the ones that can be kept alive).                                     *)
RoutesFlat(routes) ==
    LET vue == GetAuthVueRoutes(routes)
        good == {Last(c).name : c \in ChainsOf(routes, LAMBDA r : r.kind # "broken")}
        first == {vue[k].name : k \in 1..Len(vue)} \ {<<>>}
        second == GetCacheRouteNames(vue)
    IN /\ first \cup ToSet(second) = good
       /\ first \cap ToSet(second) = {} /\ IsInjective(second)
       /\ \A k \in 1..Len(vue) : \A j \in 1..Len(vue[k].children) : vue[k].children[j].children = <<>>
       /\ \A n \in good : IsRouteExistByRouteName(n, routes)

(* The tabs shown are the home tab first and each other tab once, the fixed  *)
(* ones before the rest and by index.                                        *)
TabsOrdered(tabs, home) ==
    LET all == GetAllTabs(tabs, home)
    IN /\ all[1] = home
       /\ {all[k].id : k \in 1..Len(all)} = {home.id} \cup {tabs[k].id : k \in 1..Len(tabs)}
       /\ \A j, k \in 2..Len(all) :
             /\ j # k => all[j].id # all[k].id /\ all[j].id # home.id
             /\ j < k /\ all[k].fixed # 0 => all[j].fixed # 0 /\ all[j].fixed <= all[k].fixed
       /\ \A k \in 1..Len(all) : FindTabByRouteName(all[k].id.path, all) # <<>>

-----------------------------------------------------------------------------
(* The menu search of the header                                             *)
(* (layouts/modules/global-search/components/search-modal.vue): a debounced  *)
(* search over the menus, a highlighted result, keys that are listened to on *)
(* the whole document, and a closing that waits 200 ms and happens again     *)
(* when the closing animation ends.                                          *)

CONSTANTS Keywords,    \* what can be typed
          ResultsOf,   \* the menus each keyword finds, in order
          MaxKeys      \* keys, clicks and typing

Matching == [k \in Keywords \cup {"empty"} |-> IF k = "empty" THEN <<>> ELSE ResultsOf[k]]

ASSUME SearchAssumption == "empty" \notin Keywords /\ MaxKeys \in Nat

VARIABLES
    modal,    \* shown: on, leaving (closed, its animation runs), off
    keyword, resultOptions,
    activePath,   \* a result or "none"
    debounce,     \* a search is waiting
    closing,      \* handleClose timers waiting
    went,         \* where Enter went to last
    keys

searchVars == <<modal, keyword, resultOptions, activePath, debounce, closing, went, keys>>

ItemsOf(s) == {s[i] : i \in 1..Len(s)}
Findable == UNION {ItemsOf(Matching[k]) : k \in Keywords}

SearchTypeOK ==
    /\ modal \in {"on", "leaving", "off"}
    /\ keyword \in Keywords \cup {"empty"}
    /\ ItemsOf(resultOptions) \subseteq Findable /\ activePath \in Findable \cup {"none"}
    /\ debounce \in BOOLEAN /\ closing \in 0..(2 * MaxKeys) /\ keys \in 0..MaxKeys
    /\ went \in Findable \cup {"none"}

SearchInit ==
    /\ modal = "off" /\ keyword = "empty" /\ resultOptions = <<>> /\ activePath = "none"
    /\ debounce = FALSE /\ closing = 0 /\ keys = 0
    /\ went = "none"

Key == keys < MaxKeys /\ keys' = keys + 1

(* The button of the header.                                                 *)
OpenModal ==
    /\ Key /\ modal # "on"
    /\ modal' = "on"
    /\ UNCHANGED <<keyword, resultOptions, activePath, debounce, closing, went>>

TypeKeyword(k) ==
    /\ Key /\ modal = "on"
    /\ keyword' = k /\ debounce' = TRUE
    /\ UNCHANGED <<modal, resultOptions, activePath, closing, went>>

(* search, 300 ms after the last typing, whatever the modal does by then.    *)
Search ==
    /\ debounce
    /\ debounce' = FALSE
    /\ resultOptions' = Matching[keyword]
    /\ activePath' = IF Matching[keyword] = <<>> THEN "none" ELSE Matching[keyword][1]
    /\ UNCHANGED <<modal, keyword, closing, went, keys>>

RowOf(path) == CHOOSE i \in 1..Len(resultOptions) : resultOptions[i] = path

(* Arrow keys: round the results; a highlight that is no result stays.       *)
Arrow(down) ==
    LET n == Len(resultOptions) i == RowOf(activePath)
    IN /\ Key /\ n > 0 /\ activePath \in ItemsOf(resultOptions)
       /\ activePath' = resultOptions[IF down THEN IF i = n THEN 1 ELSE i + 1
                                      ELSE IF i = 1 THEN n ELSE i - 1]
       /\ UNCHANGED <<modal, keyword, resultOptions, debounce, closing, went>>

Hover(path) ==
    /\ Key /\ modal = "on" /\ path \in ItemsOf(resultOptions)
    /\ activePath' = path
    /\ UNCHANGED <<modal, keyword, resultOptions, debounce, closing, went>>

(* Enter, heard with the modal on or not, as long as there are results.      *)
Enter ==
    /\ Key /\ resultOptions # <<>> /\ activePath # "none"
    /\ went' = activePath
    /\ closing' = closing + 1
    /\ UNCHANGED <<modal, keyword, resultOptions, activePath, debounce>>

Escape ==
    /\ Key
    /\ closing' = closing + 1
    /\ UNCHANGED <<modal, keyword, resultOptions, activePath, debounce, went>>

(* A click beside the modal closes it at once.                               *)
ClickBeside ==
    /\ Key /\ modal = "on"
    /\ modal' = "leaving"
    /\ UNCHANGED <<keyword, resultOptions, activePath, debounce, closing, went>>

(* A timer of handleClose: a modal that was opened again is closed with it.  *)
CloseModal ==
    /\ closing > 0
    /\ closing' = closing - 1
    /\ modal' = IF modal = "on" THEN "leaving" ELSE modal
    /\ resultOptions' = <<>> /\ keyword' = "empty"
    /\ UNCHANGED <<activePath, debounce, went, keys>>

(* The animation ends: handleClose once more.                                *)
AfterLeave ==
    /\ modal = "leaving"
    /\ modal' = "off" /\ closing' = closing + 1
    /\ UNCHANGED <<keyword, resultOptions, activePath, debounce, went, keys>>

SearchNext ==
    \/ OpenModal
    \/ \E k \in Keywords \cup {"empty"} : TypeKeyword(k)
    \/ Search
    \/ \E down \in BOOLEAN : Arrow(down)
    \/ \E path \in Findable : Hover(path)
    \/ Enter
    \/ Escape
    \/ ClickBeside
    \/ CloseModal
    \/ AfterLeave

SearchSpec == SearchInit /\ [][SearchNext]_searchVars

-----------------------------------------------------------------------------
(* While results are listed the highlight, and so where Enter goes, is one   *)
(* of them, through searches that come after a closing and closings that     *)
(* come after a reopening.                                                   *)
HighlightIsResult == resultOptions # <<>> => activePath \in ItemsOf(resultOptions)
=============================================================================
