------------------------------ MODULE EditForms ------------------------------
(* The forms an administrator saves through:                                 *)
(*   "package"   recharge-manage: create or edit a recharge package          *)
(*   "tag"       org-tag: create or edit an organization tag                 *)
(*   "userTags"  user: the tags of a user; the private tag must stay         *)
(*   "quota"     user: add tokens to a user's account                        *)
(*   "limits"    usage-monitor: the rate limits, a form that is always open  *)
(*                                                                           *)
(* A request reaches the server some time after it is sent, in any order,    *)
(* and its answer may be lost: the client then sees an error of something    *)
(* that was done.  Only the package and the quota dialog refuse a second     *)
(* click while they wait (NButton's loading); the limits too.                *)
EXTENDS Integers, FiniteSets

CONSTANTS Rows,        \* the packages, tags or users that exist
          Values,      \* what can be typed
          MaxOpens,    \* times a dialog is opened
          MaxSubmits,  \* submissions
          MaxLost      \* answers lost

ASSUME FormsAssumption ==
    /\ MaxOpens \in Nat \ {0} /\ {MaxSubmits, MaxLost} \subseteq Nat /\ Rows # {}
    /\ {"old", "default"} \cap Values = {}

FormKinds == {"package", "tag", "userTags", "quota", "limits"}
Mixed == Values \cup {"old", "default"}
New == "new"            \* the row of a form that creates

VARIABLES what,      \* which form
          form,      \* the dialog: open, its row, what is typed, its session
          server,    \* the stored value of each row
          private,   \* the users whose private tag the server has
          pending,   \* submissions on their way to the server
          replies,   \* submissions the server has handled
          busy,      \* loading or submitting
          log        \* what was typed, what the server did, budgets, slips

formVars == <<what, form, server, private, pending, replies, busy, log>>

Submission == [row : Rows \cup {New}, value : Mixed, keep : BOOLEAN,
               session : 0..MaxOpens, at : 1..MaxSubmits]

FormTypeOK ==
    /\ what \in FormKinds
    /\ form \in [open : BOOLEAN, row : Rows \cup {New}, value : Mixed,
                 keep : BOOLEAN, session : 0..MaxOpens]
    /\ server \in [Rows -> Mixed] /\ private \subseteq Rows
    /\ pending \subseteq Submission /\ replies \subseteq Submission
    /\ busy \in BOOLEAN
    /\ log \in [typed : SUBSET (Rows \X Values), done : [0..MaxOpens -> Nat], submits : 0..MaxSubmits,
                lost : 0..MaxLost, slips : SUBSET {"twice", "retried", "defaulted"}]

Limits == what = "limits"

(* A dialog that is not on the screen: what was in it is overwritten by the  *)
(* next opening.                                                             *)
Shut(session) == [open |-> FALSE, row |-> New, value |-> "default", keep |-> FALSE, session |-> session]

FormInit ==
    /\ what \in FormKinds
    /\ server = [r \in Rows |-> "old"]
    /\ private = Rows
    /\ form = Shut(0)
    /\ pending = {} /\ replies = {} /\ busy = FALSE
    /\ log = [typed |-> {}, done |-> [s \in 0..MaxOpens |-> 0], submits |-> 0, lost |-> 0,
              slips |-> {}]

(* handleEdit, handleCreate, handleAddChild, handleOrgTag, handleTokenQuota: *)
(* a dialog starts from a copy of its row, or from the defaults; for a user  *)
(* the private tag is set aside.                                             *)
Open(row) ==
    /\ ~form.open /\ form.session < MaxOpens
    /\ row = New => what \in {"package", "tag"}
    /\ ~Limits
    /\ form' = [open |-> TRUE, row |-> row, keep |-> row \in private,
                session |-> form.session + 1,
                value |-> IF row = New \/ what = "quota" THEN "default" ELSE server[row]]
    /\ UNCHANGED <<what, server, private, pending, replies, busy, log>>

(* getRateLimits, once when the page is mounted: the form shows the server's *)
(* limits, or hard-coded ones when they cannot be read.                      *)
LoadLimits ==
    /\ Limits /\ form.session = 0
    /\ \E row \in Rows, ok \in BOOLEAN :
        /\ ok \/ log.lost < MaxLost
        /\ form' = [open |-> TRUE, row |-> row, keep |-> FALSE, session |-> 1,
                    value |-> IF ok THEN server[row] ELSE "default"]
        /\ log' = [log EXCEPT !.lost = IF ok THEN @ ELSE @ + 1,
                              !.slips = @ \cup IF ok THEN {} ELSE {"defaulted"}]
    /\ UNCHANGED <<what, server, private, pending, replies, busy>>

Type(v) ==
    /\ form.open /\ v # form.value
    /\ form' = [form EXCEPT !.value = v]
    /\ log' = [log EXCEPT !.typed = IF form.row = New THEN @ ELSE @ \cup {<<form.row, v>>}]
    /\ UNCHANGED <<what, server, private, pending, replies, busy>>

Cancel ==
    /\ form.open /\ ~Limits
    /\ form' = Shut(form.session)
    /\ UNCHANGED <<what, server, private, pending, replies, busy, log>>

(* The submissions of the session on the screen that have not failed.        *)
Sent == {s \in pending \cup replies : s.session = form.session}

Post(keep, slip) ==
    /\ form.open
    /\ log.submits < MaxSubmits
    /\ pending' = pending \cup
         {[row |-> form.row, value |-> form.value, keep |-> keep,
           session |-> form.session, at |-> log.submits + 1]}
    /\ busy' = TRUE
    /\ log' = [log EXCEPT !.submits = @ + 1, !.slips = @ \cup slip]
    /\ UNCHANGED <<what, form, server, private, replies>>

Slips == (IF Sent # {} THEN {"twice"} ELSE {})
         \cup (IF log.done[form.session] > 0 /\ Sent = {} THEN {"retried"} ELSE {})

(* handleSubmit, submitRateLimits.  The tag dialogs have no guard: a second  *)
(* click sends a second request.  A quota must be typed.                     *)
Submit ==
    /\ what \in {"package", "quota", "limits"} => ~busy
    /\ what = "quota" => form.value # "default"
    /\ Post(form.keep, Slips)

(* The server handles a submission: a new row is only counted.               *)
Handle(s) ==
    /\ pending' = pending \ {s}
    /\ replies' = replies \cup {s}
    /\ server' = IF s.row = New THEN server ELSE [server EXCEPT ![s.row] = s.value]
    /\ private' = IF what # "userTags" \/ s.keep THEN private ELSE private \ {s.row}
    /\ log' = [log EXCEPT !.done[s.session] = @ + 1]
    /\ UNCHANGED <<what, form, busy>>

(* A success closes the dialog, whichever is open by now, and the table is   *)
(* fetched again.                                                            *)
Succeeds(s) ==
    /\ replies' = replies \ {s}
    /\ busy' = FALSE
    /\ form' = IF Limits THEN [form EXCEPT !.value = s.value]
               ELSE Shut(form.session)
    /\ UNCHANGED <<what, server, private, pending, log>>

(* The answer is lost: the dialog stays and the administrator may retry.     *)
Lost(s) ==
    /\ log.lost < MaxLost
    /\ replies' = replies \ {s}
    /\ busy' = FALSE
    /\ log' = [log EXCEPT !.lost = @ + 1]
    /\ UNCHANGED <<what, form, server, private, pending>>

(* The request does not arrive, or the server refuses it.                    *)
Refused(s) ==
    /\ log.lost < MaxLost
    /\ pending' = pending \ {s}
    /\ busy' = FALSE
    /\ log' = [log EXCEPT !.lost = @ + 1]
    /\ UNCHANGED <<what, form, server, private, replies>>

FormNext ==
    \/ \E row \in Rows \cup {New} : Open(row)
    \/ LoadLimits
    \/ \E v \in Values : Type(v)
    \/ Cancel
    \/ Submit
    \/ \E s \in pending : Handle(s)
    \/ \E s \in replies : Succeeds(s)
    \/ \E s \in replies : Lost(s)
    \/ \E s \in pending : Refused(s)

FormSpec == FormInit /\ [][FormNext]_formVars

-----------------------------------------------------------------------------
(* What one opening of a dialog asks for is done at most once, unless it was *)
(* sent again after an answer that was lost, or by a second click on a       *)
(* dialog that does not refuse it.                                           *)
DoneOnce ==
    ~Limits /\ log.slips \cap {"twice", "retried"} = {}
        => \A s \in 1..MaxOpens : log.done[s] <= 1

(* A stored value was there before or was typed into the form of that row,   *)
(* never of another - unless the form showed defaults it could not load.     *)
TypedForRow ==
    "defaulted" \notin log.slips
        => \A r \in Rows : server[r] = "old" \/ <<r, server[r]>> \in log.typed

(* No assignment of tags takes a user's private tag away.                    *)
PrivateStays == private = Rows

(* A session has one submission, until an answer is lost or a click is one   *)
(* too many, and it is counted when the server has it.                       *)
SentOnce ==
    log.slips \cap {"twice", "retried"} = {} =>
        /\ \A s, t \in pending \cup replies : s.session = t.session => s = t
        /\ \A s \in pending : log.done[s.session] = 0
        /\ \A s \in 0..MaxOpens : log.done[s] <= 1

(* What a form holds, or has sent, was in its row or was typed for it; a     *)
(* quota starts empty.  The limits are one form, and its requests its row's. *)
OfRow(r, v) == r = New \/ v = "old" \/ <<r, v>> \in log.typed
SentForRow ==
    /\ "defaulted" \notin log.slips =>
         /\ form.open => OfRow(form.row, form.value) \/ (what = "quota" /\ form.value = "default")
         /\ \A s \in pending \cup replies : OfRow(s.row, s.value)
    /\ Limits => /\ form.open => form.session = 1
                 /\ \A s \in pending \cup replies : form.session = 1 /\ s.row = form.row

(* The form of a user's tags and what it sends keep the private tag.         *)
KeepsPrivate == what = "userTags" => (form.open => form.keep) /\ \A s \in pending : s.keep

FormInv ==
    /\ FormTypeOK /\ SentOnce /\ SentForRow /\ KeepsPrivate
    /\ DoneOnce /\ TypedForRow /\ PrivateStays

-----------------------------------------------------------------------------
(* The amounts of a package.  The server keeps cents and tokens, the form    *)
(* yuan and ten thousands of tokens: a floating-point division on the way    *)
(* in, a multiplication on the way out, either of which may miss.  A form    *)
(* value is held here in thousandths of the server's unit.                   *)

Scale == 1000
Nearest(x, unit) == ((x + unit \div 2) \div unit) * unit

(* handleEdit: the stored amount divided, with the error of the division and *)
(* of the multiplication to come.                                            *)
AmountShown(amount, error) == amount * Scale + error

(* NInputNumber with two decimals: a field that is entered and left holds    *)
(* the number it displays, a multiple of unit.                               *)
AmountLeft(shown, unit) == Nearest(shown, unit * Scale)

(* handleSubmit: Math.round of the product.                                  *)
AmountSent(shown) == Nearest(shown, Scale) \div Scale

(* A package that is opened and saved keeps its amounts, whatever the two    *)
(* floating-point operations miss by; and so do fields that were entered and *)
(* left, for amounts with two decimals in the form's unit (unit: 1 for cents, *)
(* 100 for tokens).  (Other amounts of tokens lose their last digits.)       *)
AmountKept(amount, error, unit) ==
    /\ AmountSent(AmountShown(amount, error)) = amount
    /\ amount % unit = 0 => AmountSent(AmountLeft(AmountShown(amount, error), unit) + error) = amount
=============================================================================
