------------------------------ MODULE ListViews ------------------------------
(* The pages of the front end that show a list chosen by one control:        *)
(*   "overview"  usage-monitor: the trend window of 7 or 30 days             *)
(*   "orders"    recharge: the status tab of the recharge orders             *)
(*   "history"   chat-history: user and dates, watched                       *)
(*   "records"   personal-center: the page of the token records              *)
(*   "users"     user, org-tag: tables of useTable (hooks/common/table.ts)   *)
(*   "search"    knowledge-base search dialog: a text and a search button    *)
(*                                                                           *)
(* All send a request with the control's value and put the answer into the   *)
(* list whenever it comes; none compares the answer with the value then.     *)
(* A behaviour is one view (the pages share nothing); its rows are abstracted *)
(* to the request they answer.                                               *)
EXTENDS Naturals, FiniteSets

CONSTANTS Queries,     \* values of the control, numbered from 1
          MaxSends,    \* requests a view sends
          MaxFails     \* answers that are errors

ASSUME ViewsAssumption ==
    /\ MaxSends \in Nat \ {0} /\ MaxFails \in Nat
    /\ Queries \subseteq Nat \ {0} /\ 1 \in Queries

Kinds == {"overview", "orders", "history", "records", "users", "search"}

VARIABLES view,     \* which of the views
          query,    \* the control's value
          label,    \* the page number the table's pagination shows
          asked,    \* requests not answered: the query and the order of sending
          rows,     \* the request whose answer is in the list
          spin,     \* loading
          sent,     \* the number of requests and the query of the newest
          marks     \* errors, the newest answer so far, overtaken answers

listVars == <<view, query, label, asked, rows, spin, sent, marks>>

Request == [query : Queries, at : 1..MaxSends]
NoRows == [query |-> 0, at |-> 0]

ListTypeOK ==
    /\ view \in Kinds /\ query \in Queries /\ label \in Queries
    /\ asked \subseteq Request /\ rows \in Request \cup {NoRows}
    /\ spin \in BOOLEAN
    /\ sent \in [count : 0..MaxSends, query : Queries \cup {0}]
    /\ marks \in [fails : 0..MaxFails, newest : 0..MaxSends, overtaken : BOOLEAN]

(* Mutant: the request is made with the value the control had before. *)
SendsOld(q) ==
    /\ sent.count < MaxSends
    /\ sent' = [count |-> sent.count + 1, query |-> query]
    /\ asked' = asked \cup {[query |-> query, at |-> sent.count + 1]}
    /\ spin' = TRUE

Sends(q) ==
    /\ sent.count < MaxSends
    /\ sent' = [count |-> sent.count + 1, query |-> q]
    /\ asked' = asked \cup {[query |-> q, at |-> sent.count + 1]}
    /\ spin' = TRUE

(* Every view but the search dialog asks once when it is mounted.            *)
ListInit ==
    /\ view \in Kinds
    /\ query = 1 /\ label = 1 /\ rows = NoRows
    /\ asked = IF view = "search" THEN {} ELSE {[query |-> 1, at |-> 1]}
    /\ spin = (view # "search")
    /\ sent = IF view = "search" THEN [count |-> 0, query |-> 0]
              ELSE [count |-> 1, query |-> 1]
    /\ marks = [fails |-> 0, newest |-> 0, overtaken |-> FALSE]

(* The control is moved: the tab, the window, the page, the dates ask at     *)
(* once, the search text waits for its button.                               *)
Choose(q) ==
    /\ q # query
    /\ query' = q
    /\ IF view = "search" THEN UNCHANGED <<asked, spin, sent>> ELSE Sends(q)
    /\ label' = IF view = "users" THEN q ELSE label
    /\ UNCHANGED <<view, rows, marks>>

(* search(), or getData of a refresh button or a dialog that was submitted.  *)
Refresh ==
    /\ view \in {"search", "orders", "users"}
    /\ Sends(query)
    /\ UNCHANGED <<view, query, label, rows, marks>>

(* The search dialog opens again, or its reset button: what is still asked   *)
(* will come into the emptied list.                                          *)
Reset ==
    /\ view = "search"
    /\ query' = 1 /\ rows' = NoRows
    /\ marks' = [marks EXCEPT !.overtaken = @ \/ asked # {}]
    /\ UNCHANGED <<view, label, asked, spin, sent>>

(* An error: the table's transformer makes an empty first page of it, the    *)
(* other views keep what they show.                                          *)
Fails(r) ==
    /\ marks.fails < MaxFails
    /\ asked' = asked \ {r}
    /\ rows' = IF view = "users" THEN NoRows ELSE rows
    /\ label' = IF view = "users" THEN 1 ELSE label
    /\ marks' = [marks EXCEPT !.fails = @ + 1]
    /\ spin' = FALSE
    /\ UNCHANGED <<view, query, sent>>

(* An answer, of any request still under way.  The table also takes the page *)
(* number from it (onFetched).                                               *)
Arrives(r) ==
    /\ asked' = asked \ {r}
    /\ rows' = r
    /\ label' = IF view = "users" THEN r.query ELSE label
    /\ marks' = [marks EXCEPT !.newest = IF @ > r.at THEN @ ELSE r.at,
                              !.overtaken = @ \/ marks.newest > r.at]
    /\ spin' = FALSE
    /\ UNCHANGED <<view, query, sent>>

ListNext ==
    \/ \E q \in Queries : Choose(q)
    \/ Refresh
    \/ Reset
    \/ \E r \in asked : Arrives(r)
    \/ \E r \in asked : Fails(r)

ListSpec == ListInit /\ [][ListNext]_listVars

-----------------------------------------------------------------------------
(* With every answer in, none of them overtaken and none an error, the list  *)
(* is of the control's value: the tab, window, page or dates on the screen   *)
(* (for the search dialog: of the text last searched for).                   *)
ListOfControl ==
    asked = {} /\ ~marks.overtaken /\ marks.fails = 0
        => /\ rows.query \in {sent.query, 0}
           /\ view # "search" => rows.query = query

(* In a useTable table the page number agrees with the rows once every       *)
(* answer is in, in whatever order answers and errors came.                  *)
PageOfRows ==
    view = "users" /\ asked = {} => rows = NoRows \/ label = rows.query

(* A spinner stands only over a list that still waits for an answer.         *)
SpinnerWaits == spin => asked # {}

(* The newest request is on its way, or its answer was the newest to come,   *)
(* short of errors and overtaken answers; only the search dialog is emptied  *)
(* without one.                                                              *)
NewestIsKnown ==
    /\ \A r \in asked : r.at <= sent.count /\ (r.at = sent.count => r.query = sent.query)
    /\ view # "search" => sent.query = query
    /\ ~marks.overtaken /\ marks.fails = 0 =>
         \/ \E r \in asked : r.at = sent.count
         \/ rows.query = sent.query /\ marks.newest = sent.count
         \/ view = "search" /\ rows = NoRows /\ asked = {}

ListInv == ListTypeOK /\ NewestIsKnown /\ ListOfControl /\ PageOfRows /\ SpinnerWaits
=============================================================================
