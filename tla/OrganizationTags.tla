--------------------------- MODULE OrganizationTags ---------------------------
(* The organization tags and the tags of a user (services/                   *)
(* organization_service.py), changed by requests of several administrators   *)
(* and of the user.  A request validates against what it reads and commits   *)
(* afterwards, its transaction knows nothing of the others, and the parent   *)
(* of a tag is no foreign key.  Names, limits and descriptions are left out. *)
EXTENDS Naturals, FiniteSets

CONSTANTS OwnTags,      \* the tags administrators make
          MaxTagActs,   \* requests, all in all
          MaxTagCalls   \* requests on their way at once

ASSUME TagAssumption == /\ OwnTags \cap {"DEFAULT", "PRIVATE", "root", "absent"} = {}
                        /\ IsFiniteSet(OwnTags) /\ {MaxTagActs, MaxTagCalls} \subseteq Nat

TagIds == OwnTags \cup {"DEFAULT", "PRIVATE"}

VARIABLES
    parentOf, \* the rows: the parent of each tag, "root", or "absent"
    member,   \* the user's row: org_tags and primary_org
    tagCalls, \* requests that have validated and not committed
    mishaps   \* requests made; what made the tree or the user's row go wrong

tagVars == <<parentOf, member, tagCalls, mishaps>>

Existing == {t \in TagIds : parentOf[t] # "absent"}
ChildrenOf(t) == {c \in Existing : parentOf[c] = t}

(* What is met from the tags or markers of A when each tag leads to next of  *)
(* it: each step but the last meets a new tag, so their number is enough.    *)
MetFrom(A, next) ==
    LET reached[n \in 0..Cardinality(TagIds)] ==
          IF n = 0 THEN A
          ELSE reached[n - 1] \cup UNION {next[t] : t \in reached[n - 1] \cap TagIds}
    IN reached[Cardinality(TagIds)]

(* _build_tree: what is reached from the tags without a parent.              *)
InTree == MetFrom(ChildrenOf("root"), [t \in TagIds |-> ChildrenOf(t)])

(* Whether a is below t, or is t.                                            *)
AtOrBelow(a, t) == t \in MetFrom({a}, [x \in TagIds |-> {parentOf[x]}])

TagCall == [op : {"create", "update", "delete", "assign", "primary"}, tag : TagIds,
            parent : TagIds \cup {"root"}, tags : SUBSET TagIds,
            was : TagIds \cup {"root", "absent"}]

OrganizationTypeOK ==
    /\ parentOf \in [TagIds -> TagIds \cup {"root", "absent"}]
    /\ member \in [tags : SUBSET TagIds, primary : TagIds]
    /\ tagCalls \subseteq TagCall
    /\ mishaps \in [acts : 0..MaxTagActs, slips : SUBSET {"crossed", "cycle"}]

(* After the registration of the user.                                       *)
OrganizationInit ==
    /\ parentOf = [t \in TagIds |-> IF t \in OwnTags THEN "absent" ELSE "root"]
    /\ member = [tags |-> {"DEFAULT", "PRIVATE"}, primary |-> "PRIVATE"]
    /\ tagCalls = {} /\ mishaps = [acts |-> 0, slips |-> {}]

-----------------------------------------------------------------------------
(* Requests, up to the end of their validation *)

(* A request keeps what it read of the row, and will write a column only if  *)
(* it has changed it.                                                        *)
Validated(op, tag, parent, tags) ==
    /\ mishaps.acts < MaxTagActs /\ Cardinality(tagCalls) < MaxTagCalls
    /\ tagCalls' = tagCalls \cup {[op |-> op, tag |-> tag, parent |-> parent, tags |-> tags,
                    was |-> IF op \in {"assign", "primary"} THEN member.primary ELSE parentOf[tag]]}
    /\ mishaps' = [mishaps EXCEPT !.acts = @ + 1]
    /\ UNCHANGED <<parentOf, member>>

(* _validate_parent.                                                         *)
ValidateParent(parent, tag) == parent = "root" \/ (parent # tag /\ parent \in Existing)

(* create_tag; the id is new.                                                *)
CreateTag(t, parent) ==
    /\ t \in OwnTags \ Existing /\ ValidateParent(parent, t)
    /\ Validated("create", t, parent, {})

(* update_tag: a private tag cannot be edited.                               *)
UpdateTag(t, parent) ==
    /\ t \in Existing \ {"PRIVATE"} /\ ValidateParent(parent, t)
    /\ Validated("update", t, parent, {})

(* delete_tag: neither a tag of the system nor one with children.            *)
MayDelete(t) == t \in Existing \ {"DEFAULT", "PRIVATE"} /\ ChildrenOf(t) = {}

DeleteTag(t) == MayDelete(t) /\ Validated("delete", t, "root", {})

(* assign_org_tags_to_user: the tags named exist; the private tags stay, and *)
(* the default one.                                                          *)
AssignTags(S) ==
    /\ S \subseteq Existing
    /\ Validated("assign", "DEFAULT", "root",
                 S \cup {"DEFAULT"} \cup (member.tags \cap {"PRIVATE"}))

(* set_primary_org, of a tag of the user.                                    *)
SetPrimary(t) == t \in member.tags /\ Validated("primary", t, "root", {})

-----------------------------------------------------------------------------
(* The commits *)

Slip(s) == mishaps' = [mishaps EXCEPT !.slips = @ \cup s]

(* A row that exists already, or does not any more, fails the request.       *)
CommitTag(c) ==
    /\ c.op \in {"create", "update", "delete"}
    /\ tagCalls' = tagCalls \ {c}
    /\ IF (c.op = "create") = (c.tag \in Existing)
       THEN UNCHANGED <<parentOf, mishaps>>
       ELSE /\ parentOf' = [parentOf EXCEPT ![c.tag] =
                 IF c.op = "delete" THEN "absent" ELSE IF c.parent = c.was THEN @ ELSE c.parent]
            /\ Slip((IF c.op = "delete" /\ \E o \in tagCalls : o.parent = c.tag THEN {"crossed"} ELSE {})
                    \cup (IF \E o \in tagCalls : o.op = "delete" /\ o.tag = c.parent THEN {"crossed"} ELSE {})
                    \cup (IF c.op = "update" /\ c.parent # c.was /\ AtOrBelow(c.parent, c.tag)
                          THEN {"cycle"} ELSE {}))
    /\ UNCHANGED member

(* The primary tag after an assignment: the private one if the old one was   *)
(* taken away.                                                               *)
PrimaryAfter(c) ==
    IF c.was \in c.tags THEN member.primary
    ELSE IF "PRIVATE" \in c.tags THEN "PRIVATE" ELSE "DEFAULT"

CommitMember(c) ==
    /\ c.op \in {"assign", "primary"}
    /\ tagCalls' = tagCalls \ {c}
    /\ member' = IF c.op = "assign" THEN [tags |-> c.tags, primary |-> PrimaryAfter(c)]
                 ELSE IF c.tag = c.was THEN member ELSE [member EXCEPT !.primary = c.tag]
    /\ Slip(IF \E o \in tagCalls \ {c} : o.op \in {"assign", "primary"} THEN {"crossed"} ELSE {})
    /\ UNCHANGED parentOf

OrganizationNext ==
    \/ \E t \in TagIds, parent \in TagIds \cup {"root"} : CreateTag(t, parent) \/ UpdateTag(t, parent)
    \/ \E t \in TagIds : DeleteTag(t) \/ SetPrimary(t)
    \/ \E S \in SUBSET TagIds : AssignTags(S)
    \/ \E c \in tagCalls : CommitTag(c) \/ CommitMember(c)

OrganizationSpec == OrganizationInit /\ [][OrganizationNext]_tagVars

(* The tree shows every tag there is: nothing hangs below a tag that was     *)
(* deleted.  Two things are not prevented, and are set aside here: a tag     *)
(* moved below one of its own descendants, with all between, is in no tree;  *)
(* and a tag deleted while another was being put below it.                   *)
TreeHasAll == mishaps.slips = {} => InTree = Existing

(* Why: every parent exists, no tags hang in a circle, and what a request on *)
(* its way found of parents and children is still so.                        *)
Rooted ==
    /\ \A t \in Existing : parentOf[t] \in Existing \cup {"root"}
    /\ \A S \in SUBSET Existing : S # {} => \E t \in S : parentOf[t] \notin S
CallsPlaced ==
    \A c \in tagCalls :
        /\ c.op \in {"create", "update"} => c.parent \in Existing \cup {"root"}
        /\ c.op = "delete" => ChildrenOf(c.tag) = {} /\ c.parent = "root"
TreeInv == TreeHasAll /\ (mishaps.slips = {} => Rooted /\ CallsPlaced)

(* The user's primary tag is one of his tags, and he keeps the default and   *)
(* his private tag, whatever administrators assign - unless he chose it      *)
(* while it was being taken from him.                                        *)
PrimaryIsOwn ==
    /\ {"DEFAULT", "PRIVATE"} \subseteq member.tags
    /\ "crossed" \notin mishaps.slips => member.primary \in member.tags

-----------------------------------------------------------------------------
(* The inductive invariant of the user's row: an assignment on its way keeps *)
(* the two tags, and what a request has read of the row is still so, unless  *)
(* another one that crossed it was committed.                                *)
OnMember == {c \in tagCalls : c.op \in {"assign", "primary"}}
CallsAgree ==
    /\ \A c \in OnMember : c.op = "assign" => {"DEFAULT", "PRIVATE"} \subseteq c.tags
    /\ "crossed" \notin mishaps.slips =>
         \A c \in OnMember : c.was = member.primary /\ (c.op = "primary" => c.tag \in member.tags)

MemberInv == OrganizationTypeOK /\ CallsAgree /\ PrimaryIsOwn
=============================================================================
