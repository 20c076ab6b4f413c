----------------------------- MODULE ProfilePage -----------------------------
(* The model settings of the personal page (views/personal-center) over the  *)
(* server's (services/model_preference_service): a form that is loaded when  *)
(* the page opens, on refresh and after every save; two saves that share one *)
(* flag; a test.  Every request is on its way for a while, and the user goes *)
(* on typing.  Base URL and model are one endpoint; one not complete is      *)
(* Blank.                                                                    *)
EXTENDS Naturals, FiniteSets

CONSTANTS Endpoints,       \* what may be typed as base URL and model
          KeyChoices,      \* what may be typed as a key
          MaxProfileActs,  \* what the user does, all in all
          MaxProfileFails \* requests that fail, all in all

(* A field that is empty. *)
Blank == ""

ASSUME ProfileAssumption == /\ Blank \notin Endpoints \cup KeyChoices
                            /\ {MaxProfileActs, MaxProfileFails} \subseteq Nat

Modes == {"FREE", "PAID", "CUSTOM"}

VARIABLES
    own,    \* the form: mode, endpoint, key; the flags of the buttons
    preference, \* the server's preference: mode, endpoint, key
    calls,  \* requests on their way
    diary   \* budget, whether the form was typed in since it was loaded, slips

profileVars == <<own, preference, calls, diary>>

ProfileCall == [op : {"load", "mode", "custom", "test"}, chained : BOOLEAN,
         arg : [mode : Modes, endpoint : Endpoints \cup {Blank}, key : KeyChoices \cup {Blank}],
         done : {"no", "yes", "refused"}, n : Nat]

ProfileTypeOK ==
    /\ own \in [mode : Modes, endpoint : Endpoints \cup {Blank}, key : KeyChoices \cup {Blank},
                loading : BOOLEAN, saving : BOOLEAN, testing : BOOLEAN, loaded : BOOLEAN]
    /\ preference \in [mode : Modes, endpoint : Endpoints \cup {Blank}, key : KeyChoices \cup {Blank}]
    /\ calls \subseteq ProfileCall
    /\ diary \in [acts : 0..MaxProfileActs, fails : 0..MaxProfileFails, sent : Nat, typed : BOOLEAN,
                  slips : SUBSET {"crossed", "lost"}]

ProfileFields == [mode |-> own.mode, endpoint |-> own.endpoint, key |-> own.key]
NewCall(op, chained) ==
    [op |-> op, chained |-> chained, arg |-> ProfileFields, done |-> "no", n |-> diary.sent]

ProfileInit ==
    /\ own = [mode |-> "FREE", endpoint |-> Blank, key |-> Blank, loading |-> TRUE, saving |-> FALSE,
              testing |-> FALSE, loaded |-> FALSE]
    /\ preference \in {[mode |-> "FREE", endpoint |-> Blank, key |-> Blank]}
                    \cup [mode : {"CUSTOM"}, endpoint : Endpoints, key : KeyChoices]
    /\ calls = {[op |-> "load", chained |-> FALSE, done |-> "no", n |-> 0,
                 arg |-> [mode |-> "FREE", endpoint |-> Blank, key |-> Blank]]}
    /\ diary = [acts |-> 0, fails |-> 0, sent |-> 1, typed |-> FALSE, slips |-> {}]

MayAct == diary.acts < MaxProfileActs
ProfileSent == [diary EXCEPT !.acts = @ + 1, !.sent = @ + 1]

(* The fields and the select.  The spinner keeps the mouse away while the    *)
(* profile is loading, not the keyboard.                                     *)
TypeProfile ==
    /\ MayAct
    /\ \E m \in Modes, e \in Endpoints \cup {Blank}, k \in KeyChoices \cup {Blank} :
         /\ Cardinality({f \in {"mode", "endpoint", "key"} :
                           [mode |-> m, endpoint |-> e, key |-> k][f] # ProfileFields[f]}) = 1
         /\ own' = [own EXCEPT !.mode = m, !.endpoint = e, !.key = k]
    /\ diary' = [diary EXCEPT !.acts = @ + 1, !.typed = TRUE]
    /\ UNCHANGED <<preference, calls>>

(* loadProfile, by the refresh button.                                       *)
LoadProfile ==
    /\ MayAct /\ ~own.loading
    /\ own' = [own EXCEPT !.loading = TRUE]
    /\ calls' = calls \cup {NewCall("load", FALSE)}
    /\ diary' = [ProfileSent EXCEPT !.slips = @ \cup IF own.saving THEN {"crossed"} ELSE {}]
    /\ UNCHANGED preference

(* saveModelPreference.                                                      *)
SaveModelPreference ==
    /\ MayAct /\ ~own.saving
    /\ own' = [own EXCEPT !.saving = TRUE]
    /\ calls' = calls \cup {NewCall("mode", FALSE)}
    /\ diary' = [ProfileSent EXCEPT !.slips = @ \cup IF own.loading THEN {"crossed"} ELSE {}]
    /\ UNCHANGED preference

(* saveCustomModel: refused at once when the endpoint is not complete.       *)
SaveCustomModel ==
    /\ MayAct /\ ~own.saving /\ own.endpoint # Blank
    /\ own' = [own EXCEPT !.saving = TRUE]
    /\ calls' = calls \cup {NewCall("custom", FALSE)}
    /\ diary' = [ProfileSent EXCEPT !.slips = @ \cup IF own.loading THEN {"crossed"} ELSE {}]
    /\ UNCHANGED preference

(* testCustomModel: with the stored key when none is typed; changes nothing.*)
TestCustomModel ==
    /\ MayAct /\ ~own.testing /\ own.endpoint # Blank
    /\ own' = [own EXCEPT !.testing = TRUE]
    /\ calls' = calls \cup {NewCall("test", FALSE)}
    /\ diary' = ProfileSent
    /\ UNCHANGED preference

(* The server: set_model_preference refuses a custom model that is not       *)
(* configured, save_custom_llm keeps the key when none is sent, the profile  *)
(* is what is stored and never holds the key.                                *)
Serve(c) ==
    /\ c.done = "no"
    /\ \E served \in [op : {c.op}, chained : {c.chained}, n : {c.n}, done : {"yes", "refused"},
                      arg : {IF c.op = "load" THEN [preference EXCEPT !.key = Blank] ELSE c.arg}] :
         /\ calls' = (calls \ {c}) \cup {served}
         /\ served.done = "refused" <=>
              c.op = "mode" /\ c.arg.mode = "CUSTOM" /\ (preference.endpoint = Blank \/ preference.key = Blank)
         /\ preference' =
              CASE served.done = "refused" -> preference
                [] served.done = "yes" /\ c.op = "mode" -> [preference EXCEPT !.mode = c.arg.mode]
                [] served.done = "yes" /\ c.op = "custom" -> [preference EXCEPT !.endpoint = c.arg.endpoint,
                                                     !.key = IF c.arg.key = Blank THEN @ ELSE c.arg.key]
                [] OTHER -> preference
    /\ UNCHANGED <<own, diary>>

(* loadProfile, the answer: the form is what the server stores; the save     *)
(* that asked for it is over.                                                *)
Shows(c) ==
    [own EXCEPT !.mode = c.arg.mode, !.endpoint = c.arg.endpoint, !.key = Blank,
                !.loading = FALSE, !.loaded = TRUE, !.saving = IF c.chained THEN FALSE ELSE @]

(* finally: the flag of the request that ends without success.               *)
Ends(c) ==
    [own EXCEPT !.loading = IF c.op = "load" THEN FALSE ELSE @,
                !.saving = IF c.op \in {"mode", "custom"} \/ c.chained THEN FALSE ELSE @,
                !.testing = IF c.op = "test" THEN FALSE ELSE @]

(* An answer: a save that succeeded loads the profile and waits for it.      *)
Answered(c) ==
    /\ c.done # "no"
    /\ \/ /\ c.op = "load"
          /\ own' = Shows(c)
          /\ calls' = calls \ {c}
          /\ diary' = [diary EXCEPT !.typed = FALSE]
       \/ /\ c.op \in {"mode", "custom"} /\ c.done = "yes"
          /\ own' = [own EXCEPT !.key = IF c.op = "custom" THEN Blank ELSE @, !.loading = TRUE]
          /\ calls' = (calls \ {c}) \cup {NewCall("load", TRUE)}
          /\ diary' = [diary EXCEPT !.sent = @ + 1]
       \/ /\ c.op = "test" \/ c.done = "refused"
          /\ own' = Ends(c)
          /\ calls' = calls \ {c}
          /\ UNCHANGED diary
    /\ UNCHANGED preference

(* A request is lost, before the server or after it.                         *)
ProfileLost(c) ==
    /\ diary.fails < MaxProfileFails
    /\ own' = Ends(c)
    /\ calls' = calls \ {c}
    /\ diary' = [diary EXCEPT !.fails = @ + 1, !.slips = @ \cup {"lost"}]
    /\ UNCHANGED preference

ProfileNext ==
    \/ TypeProfile \/ LoadProfile \/ SaveModelPreference \/ SaveCustomModel \/ TestCustomModel
    \/ \E c \in calls : Serve(c) \/ Answered(c) \/ ProfileLost(c)

ProfileSpec == ProfileInit /\ [][ProfileNext]_profileVars

-----------------------------------------------------------------------------
(* When nothing is on its way and nothing was typed since, the form shows    *)
(* what the server has stored, and no key - unless a request was lost, or a  *)
(* refresh crossed a save: then the older of two profiles may be shown last. *)
FormAsStored ==
    calls = {} /\ own.loaded /\ ~diary.typed /\ diary.slips = {} =>
        own.mode = preference.mode /\ own.endpoint = preference.endpoint /\ own.key = Blank

(* A button waits only while its request, or the load a save ends with, is   *)
(* on its way, so that a page with nothing on its way can be used again.     *)
ButtonsWait ==
    /\ own.saving => \E c \in calls : c.op \in {"mode", "custom"} \/ c.chained
    /\ own.testing => \E c \in calls : c.op = "test"
    /\ own.loading => \E c \in calls : c.op = "load"

(* A request that is not a test and the load a save ends with show on the    *)
(* buttons.  Unless something was lost or crossed there is one such request; *)
(* a profile on its way is the one stored, and the form shows it unless a    *)
(* save has been done or a profile is on its way.                            *)
Saving(c) == c.op \in {"mode", "custom"} \/ c.chained
ProfileShown ==
    own.mode = preference.mode /\ own.endpoint = preference.endpoint /\ own.key = Blank
CallsAwaited ==
    /\ \A c \in calls : Saving(c) => own.saving
    /\ \A c, d \in calls : Saving(c) /\ Saving(d) => c = d
    /\ \A c \in calls : c.chained => c.op = "load"
    /\ \A c \in calls : c.done = "refused" => c.op = "mode"
    /\ diary.slips = {} =>
         /\ \A c \in calls : c.op = "load" => own.loading
         /\ \A c, d \in calls : c.op # "test" /\ d.op # "test" => c = d
         /\ \A c \in calls : c.op = "load" /\ c.done # "no" =>
              c.arg.mode = preference.mode /\ c.arg.endpoint = preference.endpoint
         /\ own.loaded /\ ~diary.typed =>
              \/ ProfileShown
              \/ \E c \in calls : c.op = "load" \/ (c.op \in {"mode", "custom"} /\ c.done = "yes")

ProfileInv == ProfileTypeOK /\ CallsAwaited /\ FormAsStored /\ ButtonsWait
=============================================================================
