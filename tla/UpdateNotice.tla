----------------------------- MODULE UpdateNotice -----------------------------
(* The notice that a newer build is served (plugins/app.ts): a check every   *)
(* three minutes, and whenever the page comes to the front, fetches          *)
(* index.html and compares its build time with that of the page.  A check    *)
(* looks at isShow before its request and sets it after the answer.  With    *)
(* the error messages of Requests it is all that the page says unasked.      *)
EXTENDS Requests

CONSTANTS MaxBuilds,   \* builds deployed while the page is open
          MaxChecks    \* checks made

ASSUME NoticeAssumption == MaxBuilds \in Nat \ {0} /\ MaxChecks \in Nat

VARIABLES
    build,    \* the build served
    front,    \* the page is at the front
    ticking,  \* updateInterval is set, the listener is there
    isShow,
    notices,  \* the notices on the screen
    checking, \* the checks that wait for index.html
    bygones   \* checks made; the newest build a check found; slips

noticeVars == <<build, front, ticking, isShow, notices, checking, bygones>>

NoticeTypeOK ==
    /\ build \in 0..MaxBuilds
    /\ {front, ticking, isShow} \subseteq BOOLEAN
    /\ notices \subseteq 1..MaxChecks
    /\ checking \subseteq 1..MaxChecks
    /\ bygones \in [made : 0..MaxChecks, slips : SUBSET {"crossed"}]

(* setupAppVersionNotification: a page that starts in the background never   *)
(* checks.  The page was built as build 0.                                   *)
NoticeInit ==
    /\ build \in {0, 1} /\ front \in BOOLEAN
    /\ ticking = front
    /\ isShow = FALSE /\ notices = {} /\ checking = {}
    /\ bygones = [made |-> 0, slips |-> {}]

(* A new build is deployed.                                                  *)
Deploy ==
    /\ build < MaxBuilds /\ build' = build + 1
    /\ UNCHANGED <<front, ticking, isShow, notices, checking, bygones>>

(* checkForUpdates, up to its request.                                       *)
MayCheck == ~isShow /\ bygones.made < MaxChecks

StartsCheck ==
    IF MayCheck
    THEN /\ checking' = checking \cup {bygones.made + 1}
         /\ bygones' = [bygones EXCEPT !.made = @ + 1,
                                       !.slips = @ \cup IF checking # {} THEN {"crossed"} ELSE {}]
    ELSE UNCHANGED <<checking, bygones>>

(* The interval.                                                             *)
IntervalElapses ==
    /\ ticking /\ MayCheck
    /\ StartsCheck
    /\ UNCHANGED <<build, front, ticking, isShow, notices>>

(* visibilitychange.                                                         *)
ToFront ==
    /\ ~front /\ front' = TRUE
    /\ IF ticking THEN StartsCheck ELSE UNCHANGED <<checking, bygones>>
    /\ UNCHANGED <<build, ticking, isShow, notices>>

ToBack ==
    /\ front /\ front' = FALSE
    /\ UNCHANGED <<build, ticking, isShow, notices, checking, bygones>>

(* The notice of a check.                                                    *)
Notified(c) ==
    /\ isShow' = TRUE
    /\ notices' = notices \cup {c}

(* index.html: its build time, or none when it is not a page of the front    *)
(* end (an error page), which is not the build time of the page either; the  *)
(* check of a request that fails ends there.                                 *)
CheckAnswers(c) ==
    /\ checking' = checking \ {c}
    /\ \E read \in {"page", "other", "failed"} :
         IF read = "other" \/ (read = "page" /\ build # 0)
         THEN Notified(c)
         ELSE UNCHANGED <<isShow, notices>>
    /\ UNCHANGED <<build, front, ticking, bygones>>

(* Cancel and the cross of a notice; confirming reloads the page, where all  *)
(* begins anew.                                                              *)
Dismiss(c) ==
    /\ notices' = notices \ {c}
    /\ isShow' = FALSE
    /\ UNCHANGED <<build, front, ticking, checking, bygones>>

NoticeNext ==
    \/ Deploy \/ IntervalElapses \/ ToFront \/ ToBack
    \/ \E c \in checking : CheckAnswers(c)
    \/ \E c \in notices : Dismiss(c)

NoticeSpec == NoticeInit /\ [][NoticeNext]_noticeVars

-----------------------------------------------------------------------------
(* One notice at a time, however long it stays - unless two checks were      *)
(* waiting at once, one of the interval and one of coming to the front: both *)
(* had looked at isShow before either answer.                                *)
OneNotice == "crossed" \notin bygones.slips => Cardinality(notices) <= 1

(* Of checks and notices there is one in all, and isShow stands for it.      *)
CheckOrNotice ==
    "crossed" \notin bygones.slips =>
        /\ \A c, d \in checking \cup notices : c = d
        /\ notices # {} => isShow /\ checking = {}

NoticeInv == NoticeTypeOK /\ CheckOrNotice /\ OneNotice

(* Cancelling reaches the request it names, an error is told once and its    *)
(* cause is never forgotten while it is on the screen, and a new build is    *)
(* announced by one notice (packages/axios, service/request, plugins/app).   *)
ErrorsTold == CancelReaches /\ ErrorsSeen /\ MessagesOnce /\ OneNotice
=============================================================================
