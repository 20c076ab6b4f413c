-------------------------------- MODULE Theme --------------------------------
(* The appearance of the front end: the theme store (store/modules/theme),   *)
(* the part of the app store that follows the width of the window, and what  *)
(* both keep in localStorage, which every tab of the browser shares.  A      *)
(* production build loads its settings when a tab starts and saves them when *)
(* it is closed or reloaded; a newer build may override some of them, once.  *)
(* A development build starts from the defaults every time, and only it has  *)
(* the drawer in which the layout is chosen.  Of the settings the scheme and *)
(* the layout are modelled.  With the lists of ListViews and the chart of    *)
(* UsageMonitor it is what the screen has to keep in step with.              *)
EXTENDS ListViews, UsageMonitor

CONSTANTS BrowserTabs,   \* tabs of the browser
          Override,      \* overrideThemeSettings of the newer build: a scheme, or "none"
          MaxTaps        \* what users and browsers do, all in all

ASSUME ThemeAssumption == /\ Override \in {"none", "light", "dark", "auto"}
                          /\ MaxTaps \in Nat

Schemes == {"light", "dark", "auto"}
Layouts == {"vertical", "horizontal"}
Settings == [scheme : Schemes, layout : Layouts]
NoSettings == [scheme |-> "none", layout |-> "none"]
ThemeSettings == [scheme |-> "auto", layout |-> "vertical"]

VARIABLES
    page,    \* each tab: open, its settings, those it started with, window, sider
    stg,     \* localStorage: settings, build whose override was taken, dark, backup
    system,  \* the system prefers dark, the build that is served, whether for development
    memo     \* what the user chose last, what happened on the way, budget

themeVars == <<page, stg, system, memo>>

Backup == [layout : Layouts, collapse : BOOLEAN] \cup {[layout |-> "none", collapse |-> FALSE]}
NoBackup == [layout |-> "none", collapse |-> FALSE]

ThemeTypeOK ==
    /\ page \in [BrowserTabs -> [open : BOOLEAN, set : Settings, start : Settings,
                                 small : BOOLEAN, collapse : BOOLEAN, css : BOOLEAN]]
    /\ stg \in [settings : Settings \cup {NoSettings}, flag : 0..2, dark : BOOLEAN, backup : Backup]
    /\ system \in [dark : BOOLEAN, build : 1..2, dev : BOOLEAN]
    /\ memo \in [scheme : Schemes, layout : Layouts, collapse : BOOLEAN, taps : 0..MaxTaps,
                 slips : SUBSET {"crash", "shared", "small", "reset"}]

(* A tab that is not there.                                                  *)
Closed == [open |-> FALSE, set |-> ThemeSettings, start |-> ThemeSettings,
           small |-> FALSE, collapse |-> FALSE, css |-> FALSE]

ThemeInit ==
    /\ page = [t \in BrowserTabs |-> Closed]
    /\ stg = [settings |-> NoSettings, flag |-> 0, dark |-> FALSE, backup |-> NoBackup]
    /\ system \in [dark : BOOLEAN, build : {1}, dev : BOOLEAN]
    /\ memo = [scheme |-> "auto", layout |-> "vertical", collapse |-> FALSE, taps |-> 0, slips |-> {}]

Tap == memo.taps < MaxTaps

(* darkMode, toggleCssDarkMode: the class of the document.                   *)
Dark(s) == s.scheme = "dark" \/ (s.scheme = "auto" /\ system.dark)

(* The watcher of isMobile, also at the start of a tab: a small window gets  *)
(* the vertical layout and a collapsed sider, and what it had is backed up   *)
(* in localStorage; a wide one takes a backup back.                          *)
FollowWidth(t, s, collapse, small, local) ==
    LET back == local.backup # NoBackup /\ ~small
    IN /\ page' = [page EXCEPT ![t] =
            [open |-> TRUE, small |-> small, css |-> Dark(s),
             set |-> [s EXCEPT !.layout = IF small THEN "vertical"
                                          ELSE IF back THEN local.backup.layout ELSE @],
             start |-> IF page[t].open THEN page[t].start ELSE s,
             collapse |-> IF small THEN TRUE
                          ELSE IF back THEN local.backup.collapse ELSE collapse]]
       /\ stg' = [local EXCEPT !.backup =
                    IF small THEN [layout |-> s.layout, collapse |-> collapse] ELSE NoBackup]

(* The build is new to this browser and overrides the scheme.                *)
Overrides == ~system.dev /\ stg.flag # system.build /\ system.build = 2 /\ Override # "none"

(* Mutant: the stored settings are taken although there are none.            *)
StoredBare == IF system.dev THEN ThemeSettings ELSE stg.settings

(* initThemeSettings: the stored settings over the defaults, the override of *)
(* a new build over both; the defaults alone in development.                 *)
Stored ==
    LET local == IF system.dev \/ stg.settings = NoSettings THEN ThemeSettings ELSE stg.settings
    IN IF Overrides THEN [local EXCEPT !.scheme = Override] ELSE local

(* A tab starts: the theme store, then the app store.                        *)
StartTab(t, small) ==
    /\ Tap /\ ~page[t].open
    /\ FollowWidth(t, Stored, FALSE, small,
                   [stg EXCEPT !.flag = IF system.dev THEN @ ELSE system.build,
                               !.dark = Dark(Stored)])
    /\ memo' = [memo EXCEPT
            !.taps = @ + 1,
            !.scheme = IF system.dev THEN Stored.scheme ELSE IF Overrides THEN Override ELSE @,
            !.layout = IF system.dev /\ stg.backup = NoBackup THEN Stored.layout ELSE @,
            !.collapse = IF stg.backup = NoBackup THEN FALSE ELSE @,
            !.slips = @ \cup (IF \E u \in BrowserTabs : page[u].open THEN {"shared"} ELSE {})
                        \cup (IF small THEN {"small"} ELSE {})]
    /\ UNCHANGED system

(* The window becomes small or wide; the watcher runs only on a change.      *)
ResizeTab(t) ==
    /\ Tap /\ page[t].open
    /\ FollowWidth(t, page[t].set, page[t].collapse, ~page[t].small, stg)
    /\ memo' = [memo EXCEPT !.taps = @ + 1]
    /\ UNCHANGED system

(* setThemeScheme, toggleThemeScheme: light, dark, auto, and round again.    *)
ToggleThemeScheme(t) ==
    /\ Tap /\ page[t].open
    /\ LET next == CASE page[t].set.scheme = "light" -> "dark"
                     [] page[t].set.scheme = "dark" -> "auto"
                     [] OTHER -> "light"
           set == [page[t].set EXCEPT !.scheme = next]
       IN /\ page' = [page EXCEPT ![t].set = set, ![t].css = Dark(set)]
          /\ stg' = IF Dark(set) = page[t].css THEN stg ELSE [stg EXCEPT !.dark = Dark(set)]
          /\ memo' = [memo EXCEPT !.taps = @ + 1, !.scheme = next]
    /\ UNCHANGED system

(* toggleSiderCollapse: the button of the header or of the sider.            *)
ToggleSider(t) ==
    /\ Tap /\ page[t].open
    /\ page' = [page EXCEPT ![t].collapse = ~@]
    /\ memo' = [memo EXCEPT !.taps = @ + 1,
                            !.collapse = IF page[t].small THEN @ ELSE ~page[t].collapse]
    /\ UNCHANGED <<stg, system>>

(* setThemeLayout, which the drawer offers in a wide window only.            *)
SetThemeLayout(t, layout) ==
    /\ Tap /\ system.dev /\ page[t].open /\ ~page[t].small /\ layout # page[t].set.layout
    /\ page' = [page EXCEPT ![t].set.layout = layout]
    /\ memo' = [memo EXCEPT !.taps = @ + 1, !.layout = layout]
    /\ UNCHANGED <<stg, system>>

(* handleReset: $reset puts back the settings the tab started with.          *)
ResetTheme(t) ==
    /\ Tap /\ system.dev /\ page[t].open
    /\ page' = [page EXCEPT ![t].set = page[t].start, ![t].css = Dark(page[t].start)]
    /\ stg' = IF Dark(page[t].start) = page[t].css THEN stg
              ELSE [stg EXCEPT !.dark = Dark(page[t].start)]
    /\ memo' = [memo EXCEPT !.taps = @ + 1, !.scheme = page[t].start.scheme,
                            !.layout = page[t].start.layout,
                            !.slips = @ \cup IF page[t].small THEN {"reset"} ELSE {}]
    /\ UNCHANGED system

(* cacheThemeSettings, on beforeunload, but not in development; a crash      *)
(* saves nothing.                                                            *)
EndTab(t, saves) ==
    /\ Tap /\ page[t].open
    /\ page' = [page EXCEPT ![t] = Closed]
    /\ stg' = IF saves /\ ~system.dev THEN [stg EXCEPT !.settings = page[t].set] ELSE stg
    /\ memo' = [memo EXCEPT !.taps = @ + 1,
                            !.slips = @ \cup IF saves THEN {} ELSE {"crash"}]
    /\ UNCHANGED system

(* usePreferredColorScheme: open tabs on "auto" follow.                      *)
SystemTurns ==
    /\ Tap
    /\ system' = [system EXCEPT !.dark = ~@]
    /\ LET follows(t) == page[t].open /\ page[t].set.scheme = "auto"
       IN /\ page' = [t \in BrowserTabs |->
                        [page[t] EXCEPT !.css = IF follows(t) THEN ~system.dark ELSE @]]
          /\ stg' = IF \E t \in BrowserTabs : follows(t) THEN [stg EXCEPT !.dark = ~system.dark]
                    ELSE stg
    /\ memo' = [memo EXCEPT !.taps = @ + 1]

(* A new build is published; open tabs go on with the old one.               *)
Publish ==
    /\ system.build = 1
    /\ system' = [system EXCEPT !.build = 2]
    /\ UNCHANGED <<page, stg, memo>>

ThemeNext ==
    \/ \E t \in BrowserTabs, small \in BOOLEAN : StartTab(t, small)
    \/ \E t \in BrowserTabs : ResizeTab(t)
    \/ \E t \in BrowserTabs : ToggleThemeScheme(t)
    \/ \E t \in BrowserTabs : ToggleSider(t)
    \/ \E t \in BrowserTabs, l \in Layouts : SetThemeLayout(t, l)
    \/ \E t \in BrowserTabs : ResetTheme(t)
    \/ \E t \in BrowserTabs, saves \in BOOLEAN : EndTab(t, saves)
    \/ SystemTurns
    \/ Publish

ThemeSpec == ThemeInit /\ [][ThemeNext]_themeVars

-----------------------------------------------------------------------------
(* The scheme a user chose last, or a new build imposed since, is the one    *)
(* the browser comes back with and every open tab shows - unless a tab       *)
(* crashed, or two tabs were open at once and the last to close won.         *)
SchemeKept ==
    memo.slips \cap {"crash", "shared"} = {} =>
        /\ \A t \in BrowserTabs : page[t].open => page[t].set.scheme = memo.scheme
        /\ (\A t \in BrowserTabs : ~page[t].open) /\ stg.settings # NoSettings
              => stg.settings.scheme = memo.scheme
        /\ \A t \in BrowserTabs : page[t].open => page[t].css = Dark(page[t].set)

(* Back in a wide window the layout is the one chosen there last, and the    *)
(* sider as it was left there: what a small window imposes does not stick -  *)
(* unless a tab was started in a small window (its backup replaces the real  *)
(* one), or reset in it.                                                     *)
LayoutRecovered ==
    memo.slips = {} =>
        \A t \in BrowserTabs : page[t].open /\ ~page[t].small =>
            /\ page[t].set.layout = memo.layout
            /\ page[t].collapse = memo.collapse

(* Why: without these slips one tab at most is open, a browser that has      *)
(* stored nothing has been told nothing (a development build stores nothing  *)
(* ever), and what a small window holds back is what was left in the wide    *)
(* one.  In production no other layout than the first is ever chosen.        *)
OneTab == "shared" \notin memo.slips => \A t, u \in BrowserTabs : page[t].open /\ page[u].open => t = u
NothingStored ==
    /\ system.dev => stg.settings = NoSettings
    /\ memo.slips \cap {"crash", "shared"} = {} /\ ~system.dev /\ stg.settings = NoSettings
         /\ (\A t \in BrowserTabs : ~page[t].open) => memo.scheme = ThemeSettings.scheme
HeldBack ==
    /\ ~system.dev =>
         /\ memo.layout = "vertical" /\ stg.settings.layout # "horizontal" /\ stg.backup.layout # "horizontal"
         /\ \A t \in BrowserTabs : page[t].set.layout = "vertical"
    /\ memo.slips = {} =>
         /\ stg.backup # NoBackup => stg.backup = [layout |-> memo.layout, collapse |-> memo.collapse]
         /\ \A t \in BrowserTabs : page[t].open => (page[t].small <=> stg.backup # NoBackup)
ThemeInv == ThemeTypeOK /\ SchemeKept /\ LayoutRecovered /\ OneTab /\ NothingStored /\ HeldBack

(* The screen follows its controls: a list shows the rows of its page, tab   *)
(* or dates whatever the order of the answers, the chart the newest figures  *)
(* through resizes and turns of the theme, and scheme and layout are those   *)
(* chosen last through tabs, widths and builds (use-table.ts, echarts.ts,    *)
(* the theme store).                                                         *)
ScreenFollows ==
    /\ ListOfControl /\ PageOfRows /\ SpinnerWaits
    /\ ChartCurrent
    /\ SchemeKept /\ LayoutRecovered
=============================================================================
