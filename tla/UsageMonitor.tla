---------------------------- MODULE UsageMonitor ----------------------------
(* The usage page of the administrators (views/usage-monitor) and the        *)
(* service behind it (services/usage_dashboard_service): who used most in    *)
(* the window, and whose balance runs out.  One token type has rankings of   *)
(* its own; the alerts are made from the rankings, not from the balances, so *)
(* a user who used nothing in the window gets none.                          *)
(* Usage: a function from users to [used, requests, increase, consume].      *)
(* Below, the trend chart of the page, useEcharts (hooks/common/echarts.ts). *)
EXTENDS Integers, Sequences, FiniteSets

CONSTANT MaxEvents

ASSUME ChartAssumption == MaxEvents \in Nat

Largest(a, b) == IF a > b THEN a ELSE b
Shortest(n, s) == SubSeq(s, 1, IF n < Len(s) THEN n ELSE Len(s))

(* sort with a key, descending and stable: what comes first in the result    *)
(* is larger, or equal and first before.                                     *)
SortedDown(s, before(_, _)) ==
    LET rank(i) == Cardinality({j \in 1..Len(s) :
                      before(s[j], s[i]) \/ (~before(s[i], s[j]) /\ j <= i)})
    IN [k \in 1..Len(s) |-> s[CHOOSE i \in 1..Len(s) : rank(i) = k]]

MoreUsed(a, b) == a.used > b.used \/ (a.used = b.used /\ a.requests > b.requests)

(* _rankings: the users with any use of this type in the window, the most    *)
(* used first, ten (most) of them.  users: a sequence of their numbers.      *)
Rankings(users, usage, most) ==
    LET rows == SelectSeq(users, LAMBDA u : usage[u].used > 0 \/ usage[u].requests > 0)
        row(u) == [user |-> u, used |-> usage[u].used, requests |-> usage[u].requests,
                   limit |-> usage[u].increase, remaining |-> usage[u].increase - usage[u].consume]
    IN Shortest(most, SortedDown([i \in 1..Len(rows) |-> row(rows[i])], MoreUsed))

(* Percent of the limit that is used up, in ten thousandths (usageRatio).    *)
UsageRatio(row) == 10000 - (Largest(row.remaining, 0) * 10000) \div row.limit

Level(row) ==
    IF row.limit <= 0 THEN "none"
    ELSE IF row.remaining <= 0 THEN "critical"
    ELSE IF 10 * (row.limit - row.remaining) >= 9 * row.limit THEN "warning"
    ELSE "none"

Worse(a, b) ==
    \/ a.level = "critical" /\ b.level # "critical"
    \/ a.level = b.level /\ a.ratio > b.ratio

(* _alerts, of the rankings of both types: the critical ones first, then by  *)
(* ratio, twenty (most) of them.                                             *)
Alerts(rankings, most) ==
    LET rows == SelectSeq(rankings, LAMBDA r : Level(r) # "none")
        alert(r) == [user |-> r.user, level |-> Level(r), ratio |-> UsageRatio(r)]
    IN Shortest(most, SortedDown([i \in 1..Len(rows) |-> alert(rows[i])], Worse))

(* The page: both counts are over all alerts sent, the list shows six (some).*)
AlertCount(alerts) == Len(alerts)
CriticalAlertCount(alerts) == Len(SelectSeq(alerts, LAMBDA a : a.level = "critical"))
ShownAlerts(alerts, some) == Shortest(some, alerts)

(* No warning is on the page while a balance that is used up is not: of the  *)
(* users in the rankings whom the window shows, the exhausted ones come      *)
(* first, and the counter of the page counts each of them up to the limit of *)
(* the list.  A ranked user without use never appears.                       *)
AlertsHonest(users, usage, most, some) ==
    LET ranked == Rankings(users, usage, most)
        alerts == Alerts(ranked, most)
        shown == ShownAlerts(alerts, some)
        exhausted == {u \in {ranked[i].user : i \in DOMAIN ranked} :
                        usage[u].increase > 0 /\ usage[u].consume >= usage[u].increase}
    IN /\ CriticalAlertCount(alerts) = Cardinality(exhausted)
       /\ (\E i \in DOMAIN shown : shown[i].level = "warning")
            => exhausted \subseteq {shown[i].user : i \in DOMAIN shown}
       /\ \A u \in {users[i] : i \in DOMAIN users} :
            usage[u].used > 0 /\ u \notin {ranked[i].user : i \in DOMAIN ranked}
                => \A i \in DOMAIN ranked : ranked[i].used >= usage[u].used

-----------------------------------------------------------------------------
(* The trend chart.  All its awaits end within the turn of the event loop    *)
(* that starts them (nextTick, hooks that return nothing), so an event is    *)
(* one step.  The chart of a turned theme is destroyed and made anew.        *)
VARIABLES
    sized,    \* the element has a width and a height
    instance, \* the echarts instance: its theme, its data, its mask; or none
    options,  \* chartOptions: the data the options hold
    trends,   \* the page's newest data, by number, and its window
    darkMode,
    tale      \* budget, and whether data came before the chart was there

chartVars == <<sized, instance, options, trends, darkMode, tale>>

NoInstance == [alive |-> FALSE, dark |-> FALSE, data |-> 0, mask |-> FALSE]

ChartTypeOK ==
    /\ sized \in BOOLEAN /\ darkMode \in BOOLEAN
    /\ instance \in [alive : BOOLEAN, dark : BOOLEAN, data : 0..MaxEvents, mask : BOOLEAN]
    /\ options \in 0..MaxEvents /\ trends \in 0..MaxEvents
    /\ tale \in [events : 0..MaxEvents, early : BOOLEAN]

ChartInit ==
    /\ sized = FALSE /\ instance = NoInstance
    /\ options = 0 /\ trends = 0
    /\ darkMode \in BOOLEAN
    /\ tale = [events |-> 0, early |-> FALSE]

Event == tale.events < MaxEvents /\ tale' = [tale EXCEPT !.events = @ + 1]

(* render: a chart that is not there is made, with the loading mask on.      *)
Rendered(i, dark) ==
    IF i.alive THEN i ELSE [alive |-> TRUE, dark |-> dark, data |-> options, mask |-> TRUE]

(* onUpdated *)
Unmasked(i) == [i EXCEPT !.mask = FALSE]

(* renderChartBySize: no size destroys the chart, a size renders it.         *)
SizeChart ==
    /\ Event
    /\ sized' = ~sized
    /\ instance' = IF sized THEN NoInstance ELSE Unmasked(Rendered(instance, darkMode))
    /\ UNCHANGED <<options, trends, darkMode>>

(* changeTheme: destroy, render, whether or not the element has a size.      *)
TurnTheme ==
    /\ Event
    /\ darkMode' = ~darkMode
    /\ instance' = Unmasked(Rendered(NoInstance, ~darkMode))
    /\ UNCHANGED <<sized, options, trends>>

(* The watcher of overview and window calls updateOptions, which does        *)
(* nothing when there is no chart: those data are lost to it.                *)
TrendsArrive ==
    /\ tale.events < MaxEvents
    /\ trends' = tale.events + 1
    /\ options' = IF instance.alive THEN trends' ELSE options
    /\ instance' = IF instance.alive THEN Unmasked([instance EXCEPT !.data = trends']) ELSE instance
    /\ tale' = [events |-> tale.events + 1, early |-> ~instance.alive]
    /\ UNCHANGED <<sized, darkMode>>

ChartNext ==
    \/ SizeChart
    \/ TurnTheme
    \/ TrendsArrive

ChartSpec == ChartInit /\ [][ChartNext]_chartVars

-----------------------------------------------------------------------------
(* A chart on the screen has the theme of the page and shows the newest data *)
(* without a mask, through any number of resizes and turns of the theme -    *)
(* unless the newest data came while there was no chart.                     *)
ChartCurrent ==
    instance.alive =>
        /\ instance.dark = darkMode /\ ~instance.mask
        /\ ~tale.early => instance.data = trends

(* Why: then the options hold them too, for the chart that is made next.     *)
ChartInv == ChartTypeOK /\ ChartCurrent /\ (~tale.early => options = trends)
=============================================================================
