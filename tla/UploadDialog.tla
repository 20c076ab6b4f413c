----------------------------- MODULE UploadDialog -----------------------------
(* The dialog a document is uploaded through (views/knowledge-base/modules/  *)
(* upload-dialog.vue) and the end of a submission in the store's             *)
(* enqueueUpload, which hashes the file before it makes a task.  The form    *)
(* stays open to changes while the file is read, and every opening of the    *)
(* dialog puts a new form in the place of the old one.  FormsKept joins to  *)
(* what is promised here what the forms of the administration, the profile   *)
(* and the recharge page promise.                                            *)
EXTENDS EditForms, ProfilePage, RechargePage, Sequences

CONSTANTS DialogTags,    \* the organization tags
          DialogFiles,   \* contents of files
          SizeOf,        \* the size of each content
          LimitOf,       \* the largest file of each tag, or 0: any
          MaxDialogActs, \* what the user does, all in all
          MaxOpenings    \* openings of the dialog

ASSUME DialogAssumption ==
    /\ DialogTags # {} /\ "none" \notin DialogTags \cup DialogFiles
    /\ SizeOf \in [DialogFiles -> Nat] /\ LimitOf \in [DialogTags -> Nat]
    /\ {MaxDialogActs, MaxOpenings} \subseteq Nat

VARIABLES
    who,      \* the user: an administrator or not, and his tags
    dialog,   \* visible, loading, singleOrgOnly, and whether tags are offered
    forms,    \* the form of each opening; the last is model.value
    presets,  \* requests of presetSingleOrgForUser without an answer
    saves,    \* submissions whose file is being read
    queue,    \* the task of each content
    dialogLog \* acts; whether the reading of a file has failed

dialogVars == <<who, dialog, forms, presets, saves, queue, dialogLog>>

MaybeTag == DialogTags \cup {"none"}
MaybeFile == DialogFiles \cup {"none"}
LimitsOfTags == {LimitOf[t] : t \in DialogTags} \cup {0}
Form == [tag : MaybeTag, limit : LimitsOfTags, public : BOOLEAN, file : MaybeFile]
Asked == [tag : MaybeTag, public : BOOLEAN]
Save == [form : 1..MaxOpenings, file : DialogFiles, asked : Asked, touched : BOOLEAN]
Task == [status : {"none", "pending", "break", "completed"}, tag : MaybeTag, public : BOOLEAN,
         asked : Asked, touched : BOOLEAN]
NoTask == [status |-> "none", tag |-> "none", public |-> FALSE, touched |-> FALSE,
           asked |-> [tag |-> "none", public |-> FALSE]]

UploadDialogTypeOK ==
    /\ who \in [admin : BOOLEAN, tags : SUBSET DialogTags]
    /\ dialog \in [visible : BOOLEAN, loading : BOOLEAN, single : BOOLEAN, offered : BOOLEAN]
    /\ forms \in Seq(Form) /\ Len(forms) <= MaxOpenings
    /\ presets \in 0..MaxOpenings
    /\ saves \subseteq Save
    /\ queue \in [DialogFiles -> Task]
    /\ dialogLog \in [acts : 0..MaxDialogActs, failed : BOOLEAN]

(* The largest file of a tag, or 0: no tag and a tag without a limit take    *)
(* any.                                                                      *)
LimitIn(tag) == IF tag = "none" THEN 0 ELSE LimitOf[tag]
Takes(tag, file) == LimitIn(tag) = 0 \/ SizeOf[file] <= LimitIn(tag)

(* createDefaultModel.                                                       *)
DefaultForm == [tag |-> "none", limit |-> 0, public |-> FALSE, file |-> "none"]
Model == forms[Len(forms)]

UploadDialogInit ==
    /\ who \in [admin : BOOLEAN, tags : SUBSET DialogTags \ {{}}]
    /\ who.admin => who.tags = DialogTags
    /\ dialog = [visible |-> FALSE, loading |-> FALSE, single |-> FALSE, offered |-> FALSE]
    /\ forms = <<>> /\ presets = 0 /\ saves = {}
    /\ queue = [f \in DialogFiles |-> NoTask]
    /\ dialogLog = [acts |-> 0, failed |-> FALSE]

-----------------------------------------------------------------------------
(* The form *)

Acts ==
    /\ dialogLog.acts < MaxDialogActs
    /\ dialogLog' = [dialogLog EXCEPT !.acts = @ + 1]

(* fileSizeLimitError.                                                       *)
OverLimit(filled) ==
    ~who.admin /\ filled.file # "none" /\ filled.limit # 0 /\ SizeOf[filled.file] > filled.limit

(* A change of the form, also of one that has been submitted.                *)
Edited(filled) ==
    /\ forms' = [forms EXCEPT ![Len(forms)] = filled]
    /\ saves' = {[s EXCEPT !.touched = @ \/ s.form = Len(forms)] : s \in saves}

(* onUpdate, with the value the select has set.                              *)
OnUpdate(filled, tag) ==
    [filled EXCEPT !.tag = tag, !.limit = LimitIn(tag)]

(* watch(visible): each opening starts from the defaults and, for a user,    *)
(* asks for his tags; the select in the dialog is mounted anew and asks too. *)
OpenDialog ==
    /\ ~dialog.visible /\ Len(forms) < MaxOpenings /\ Acts
    /\ dialog' = [dialog EXCEPT !.visible = TRUE, !.single = FALSE, !.offered = FALSE]
    /\ forms' = Append(forms, DefaultForm)
    /\ presets' = presets + (IF who.admin THEN 0 ELSE 1)
    /\ UNCHANGED <<who, saves, queue>>

(* close: also while a submission is under way.                              *)
CloseDialog ==
    /\ dialog.visible /\ Acts
    /\ dialog' = [dialog EXCEPT !.visible = FALSE]
    /\ UNCHANGED <<who, forms, presets, saves, queue>>

(* The tags of the select arrive (fetchOpts), or those of an administrator's *)
(* cascader (getOptions); without them nothing can be chosen.                *)
Offer ==
    /\ dialog.visible /\ ~dialog.offered
    /\ dialog' = [dialog EXCEPT !.offered = TRUE]
    /\ UNCHANGED <<who, forms, presets, saves, queue, dialogLog>>
FetchOpts == ~who.admin /\ Offer
GetOptions == who.admin /\ Offer

(* presetSingleOrgForUser: the answer of any opening goes to the form that   *)
(* is there now, unless it failed or the dialog is closed.                   *)
PresetArrives(ok) ==
    /\ presets > 0 /\ presets' = presets - 1
    /\ IF ok /\ dialog.visible /\ Cardinality(who.tags) = 1
       THEN /\ \E tag \in who.tags : Edited(OnUpdate(Model, tag))
            /\ dialog' = [dialog EXCEPT !.single = TRUE]
       ELSE UNCHANGED <<forms, saves, dialog>>
    /\ UNCHANGED <<who, queue, dialogLog>>

(* onUpdate of the select and of the cascader: a tag is chosen.  The select  *)
(* can be cleared, and is disabled when there is only one tag.               *)
PickTag(tag) ==
    /\ dialog.visible /\ dialog.offered /\ tag # Model.tag /\ Acts
    /\ Edited(OnUpdate(Model, tag))
    /\ UNCHANGED <<who, dialog, presets, queue>>
SelectTag(tag) == ~who.admin /\ ~dialog.single /\ tag \in who.tags \cup {"none"} /\ PickTag(tag)
CascadeTag(tag) == who.admin /\ tag \in who.tags /\ PickTag(tag)

SetPublic ==
    /\ dialog.visible /\ Acts
    /\ Edited([Model EXCEPT !.public = ~@])
    /\ UNCHANGED <<who, dialog, presets, queue>>

(* One file at most: another one can be chosen once it is removed.           *)
ChooseFile(file) ==
    /\ dialog.visible /\ (file = "none") # (Model.file = "none") /\ Acts
    /\ Edited([Model EXCEPT !.file = file])
    /\ UNCHANGED <<who, dialog, presets, queue>>

-----------------------------------------------------------------------------
(* The submission *)

(* submitDisabled.                                                           *)
SubmitDisabled == dialog.loading \/ OverLimit(Model)

(* handleSubmit, up to the reading of the file.                              *)
HandleSubmit ==
    /\ dialog.visible /\ ~SubmitDisabled
    /\ Model.tag # "none" /\ Model.file # "none" /\ Acts
    /\ dialog' = [dialog EXCEPT !.loading = TRUE]
    /\ saves' = saves \cup {[form |-> Len(forms), file |-> Model.file, touched |-> FALSE,
                             asked |-> [tag |-> Model.tag, public |-> Model.public]]}
    /\ UNCHANGED <<who, forms, presets, queue>>

(* Mutant: it is the form of the dialog that is open now.                    *)
SubmittedFormNow(save) == Model

(* The form a submission reads once its file is hashed.                      *)
SubmittedForm(save) == forms[save.form]

(* enqueueUpload: a task that has broken off goes on as it was, one that is  *)
(* there otherwise stays, a new one takes the tag the form has now.          *)
Enqueued(save) ==
    LET task == queue[save.file]
        filled == SubmittedForm(save)
    IN IF task = NoTask
       THEN [status |-> "pending", tag |-> filled.tag, public |-> filled.public,
             asked |-> save.asked, touched |-> save.touched]
       ELSE IF task.status = "break" THEN [task EXCEPT !.status = "pending"]
       ELSE task

(* Then handleSubmit closes the dialog, be it this opening's or a later one. *)
Hashed(save) ==
    /\ queue' = [queue EXCEPT ![save.file] = Enqueued(save)]
    /\ saves' = saves \ {save}
    /\ dialog' = [dialog EXCEPT !.loading = FALSE, !.visible = FALSE]
    /\ UNCHANGED <<who, forms, presets, dialogLog>>

(* reader.onerror: the promise is rejected and nobody resets the button.     *)
HashFails(save) ==
    /\ saves' = saves \ {save}
    /\ dialogLog' = [dialogLog EXCEPT !.failed = TRUE]
    /\ UNCHANGED <<who, dialog, forms, presets, queue>>

(* The upload of a task ends; the server refuses what is above the limit.    *)
TaskEnds(file, status) ==
    /\ queue[file].status = "pending"
    /\ status = "completed" => who.admin \/ Takes(queue[file].tag, file)
    /\ queue' = [queue EXCEPT ![file].status = status]
    /\ UNCHANGED <<who, dialog, forms, presets, saves, dialogLog>>

UploadDialogNext ==
    \/ OpenDialog \/ CloseDialog \/ FetchOpts \/ GetOptions \/ SetPublic \/ HandleSubmit
    \/ \E ok \in BOOLEAN : PresetArrives(ok)
    \/ \E tag \in MaybeTag : SelectTag(tag) \/ CascadeTag(tag)
    \/ \E file \in MaybeFile : ChooseFile(file)
    \/ \E save \in saves : Hashed(save) \/ HashFails(save)
    \/ \E file \in DialogFiles, status \in {"break", "completed"} : TaskEnds(file, status)

UploadDialogSpec == UploadDialogInit /\ [][UploadDialogNext]_dialogVars

-----------------------------------------------------------------------------
(* Properties *)

(* The limit the dialog shows and checks is the one of the tag that is       *)
(* chosen, whoever chose it: the user, the preset of his only tag, or a      *)
(* preset of an earlier opening that comes late (onUpdate,                   *)
(* presetSingleOrgForUser).                                                  *)
LimitOfTag ==
    forms # <<>> => Model.limit = LimitIn(Model.tag)

(* A task goes into the organization, and is public or not, as it was when   *)
(* the button was pressed, and within the limit of that organization, unless *)
(* the same form was changed before its file was read: no other opening of   *)
(* the dialog has a say (handleSubmit, enqueueUpload).                       *)
QueuedAsChosen ==
    \A f \in DialogFiles :
        queue[f] # NoTask /\ ~queue[f].touched =>
            /\ [tag |-> queue[f].tag, public |-> queue[f].public] = queue[f].asked
            /\ who.admin \/ Takes(queue[f].tag, f)

(* The button spins exactly while a submission is under way, over closing    *)
(* and reopening, and there is one submission at a time; only a file that    *)
(* cannot be read leaves it spinning (handleSubmit, submitDisabled).         *)
DialogReturns ==
    /\ Cardinality(saves) <= 1
    /\ ~dialogLog.failed => (dialog.loading <=> saves # {})

(* What the properties rest on: each form has the limit of its tag, a form   *)
(* that was submitted and not touched is what was asked for and fits, and    *)
(* the button waits while a file is read.                                    *)
Fits(tag, file) == who.admin \/ Takes(tag, file)
FormsOK ==
    /\ dialog.visible => forms # <<>>
    /\ presets <= Len(forms)
    /\ \A i \in DOMAIN forms : forms[i].limit = LimitIn(forms[i].tag)
SavesOK ==
    /\ \A s, t \in saves : s = t
    /\ saves # {} => dialog.loading
    /\ \A s \in saves :
         /\ s.form \in DOMAIN forms
         /\ ~s.touched => /\ s.asked = [tag |-> forms[s.form].tag, public |-> forms[s.form].public]
                          /\ Fits(s.asked.tag, s.file)

UploadDialogInv ==
    /\ UploadDialogTypeOK /\ FormsOK /\ SavesOK
    /\ LimitOfTag /\ QueuedAsChosen /\ DialogReturns

(* A form does once, to its own row, what was typed into it, whatever is     *)
(* lost, late or clicked twice; an order that is to be paid is unpaid and    *)
(* stays on offer; an upload goes where its dialog said (the dialogs of the  *)
(* administration, profile-model, recharge, upload-dialog.vue).              *)
FormsKept ==
    /\ DoneOnce /\ TypedForRow /\ PrivateStays /\ FormAsStored /\ ButtonsWait
    /\ CurrentIsUnpaid /\ UnpaidIsOffered /\ BalanceIsRenewed
    /\ LimitOfTag /\ QueuedAsChosen /\ DialogReturns

-----------------------------------------------------------------------------
(* The chunks of a file: numbers of bytes *)

(* startUpload, uploadChunk: Math.ceil(totalSize / chunkSize).               *)
TotalChunks(size, chunk) == (size + chunk - 1) \div chunk

(* uploadChunk: the bytes of one chunk, its end not included.                *)
ChunkSlice(size, chunk, index) ==
    <<index * chunk, IF size < (index + 1) * chunk THEN size ELSE (index + 1) * chunk>>

(* calculateMD5: the slices that are read, one after the other.              *)
HashSlices(size, chunk) ==
    LET loadNext[start \in 0..size + chunk] ==
          IF start >= size THEN <<>>
          ELSE LET end == IF start + chunk < size THEN start + chunk ELSE size
               IN <<<<start, end>>>> \o loadNext[start + chunk]
    IN loadNext[0]

(* _total_chunks, on the server.                                             *)
ServerChunks(size, chunk) ==
    IF size <= 0 THEN 0
    ELSE CHOOSE n \in 1..size : (n - 1) * chunk < size /\ size <= n * chunk

(* The chunks that are sent lie end to end and cover the file, each holds a  *)
(* byte, the hash is over the same bytes in the same order, and the server   *)
(* expects as many of them (startUpload, uploadChunk, calculateMD5,          *)
(* _total_chunks).                                                           *)
ChunksCover(size, chunk) ==
    LET total == TotalChunks(size, chunk)
        sent == [i \in 1..total |-> ChunkSlice(size, chunk, i - 1)]
    IN /\ total = ServerChunks(size, chunk)
       /\ sent = HashSlices(size, chunk)
       /\ \A i \in 1..total :
            /\ sent[i][1] < sent[i][2]
            /\ sent[i][1] = IF i = 1 THEN 0 ELSE sent[i - 1][2]
       /\ total > 0 => sent[total][2] = size
=============================================================================
