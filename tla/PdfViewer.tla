------------------------------ MODULE PdfViewer ------------------------------
(* The PDF viewer of the document preview: frontend/src/components/custom/   *)
(* pdf-document-viewer.vue.                                                  *)
(*                                                                           *)
(* The component loads one document at a time, and each load takes a number  *)
(* from the lifecycle token; the awaits of an earlier load or rendering see  *)
(* by their own token that they are late.  Renderings are serialised: one    *)
(* promise is active, a request that meets it asks for another round, and a  *)
(* signature of what was last painted saves the round when nothing changed.  *)
(* A second loop fills the list of page summaries.                           *)
(*                                                                           *)
(* One action is what runs between two awaits.  pdf.js answers at any later  *)
(* time; destroying a document settles what it still owed (its worker ends   *)
(* every task before it confirms), so a new load starts on a quiet one.      *)
(* Stage width and zoom are one `scale`.  Where a clue is found on a page is *)
(* the subject of module Highlight: here a page has it or not (CluePages).   *)
EXTENDS Naturals

CONSTANTS Loads,      \* documents opened, one after the other
          NumPages,   \* pages of each document
          Scales,     \* zoom and stage width together
          CluePages,  \* the pages the highlighted clue is found on
          MaxDoings,  \* what the user does, opening another document included
          MaxFaults   \* answers of pdf.js that are errors

ASSUME ViewerAssumption ==
    /\ {Loads, NumPages, MaxDoings, MaxFaults} \subseteq Nat /\ NumPages > 0
    /\ 1 \in Scales /\ CluePages \subseteq 1..NumPages

VARIABLES
    doc,     \* lifecycleToken, pdfDocument, documentLoading, renderError
    loads,   \* where each call of loadDocument stands
    view,    \* currentPage, zoom and the properties pageNumber, visible
    queue,   \* the rendering queue's module variables
    runs,    \* the calls of renderCurrentPage that have not returned
    screen,  \* canvas, text layer, rectangles, signature, spinner
    sums,    \* pageSummaries and the variables of their loop
    hist     \* budgets used, and what has gone wrong in between (slips)

vars == <<doc, loads, view, queue, runs, screen, sums, hist>>

Page == 1..NumPages
None == [token |-> 0, page |-> 0, scale |-> 0]
Shot == [token : 1..Loads, page : Page, scale : Scales] \cup {None}
NoRun == <<0, 0>>
RunId(r) == <<r.token, r.version>>

Docs == [token : 0..Loads, shown : 0..Loads, loading : BOOLEAN, error : BOOLEAN]
Stages == {"unused", "cleaning", "fetching", "staging", "mounting", "done"}
Views == [current : Page, scale : Scales, target : Page, visible : BOOLEAN]
Queues == [queued : Nat, active : Nat, run : Nat \X Nat, again : BOOLEAN,
           timer : Nat, frames : Nat]
Steps == {"page", "paint", "text", "layer", "ended"}
Runs == [token : 1..Loads, version : Nat, page : Page, sign : Shot, step : Steps]
Screens == [canvas : Shot, text : Shot, marks : Shot, signature : Shot, rendering : BOOLEAN]
Summaries == [of : [Page -> 0..NumPages], loaded : SUBSET Page, queue : SUBSET Page,
              busy : 0..NumPages, timer : BOOLEAN]
Slips == {"crossed", "reopened", "back", "misfiled"}
Histories == [acts : Nat, faults : Nat, slips : SUBSET Slips]

TypeOK ==
    /\ doc \in Docs /\ loads \in [1..Loads -> Stages] /\ view \in Views
    /\ queue \in Queues /\ runs \subseteq Runs /\ screen \in Screens
    /\ sums \in Summaries /\ hist \in Histories

FreshQueue == [queued |-> 0, active |-> 0, run |-> NoRun, again |-> FALSE,
               timer |-> 0, frames |-> 0]
NoSummaries == [p \in Page |-> 0]

Init ==
    /\ doc = [token |-> 0, shown |-> 0, loading |-> FALSE, error |-> FALSE]
    /\ loads = [t \in 1..Loads |-> "unused"]
    /\ view \in [current : {1}, scale : {1}, target : Page, visible : {TRUE}]
    /\ queue = FreshQueue
    /\ runs = {}
    /\ screen = [canvas |-> None, text |-> None, marks |-> None, signature |-> None,
                 rendering |-> FALSE]
    /\ sums = [of |-> NoSummaries, loaded |-> {}, queue |-> {}, busy |-> 0, timer |-> FALSE]
    /\ hist = [acts |-> 0, faults |-> 0, slips |-> {}]

(* What a view asks to see, and the user's step to the view v.  A step back *)
(* to what was last completed, after the painting of something else began,  *)
(* is remembered: the signature will take that painting for the old one.    *)
Wanted(v) == [token |-> doc.token, page |-> v.current, scale |-> v.scale]
Act(v) ==
    /\ hist.acts < MaxDoings
    /\ hist' = [hist EXCEPT
         !.acts = @ + 1,
         !.slips = @ \cup IF Wanted(v) = screen.signature /\ screen.canvas # screen.signature
                          THEN {"back"} ELSE {}]
Slip(s) == hist' = [hist EXCEPT !.slips = @ \cup s]

(* totalPages is 0 from the start of a load to the document's arrival. *)
Total == IF doc.token > 0 /\ doc.shown = doc.token THEN NumPages ELSE 0

-----------------------------------------------------------------------------
(* Page summaries *)

(* The pages asked for first: the page shown, the referenced page and the    *)
(* neighbours.                                                               *)
PriorityPages(centre) == {centre, view.target, centre - 1, centre + 1} \cap Page

(* scheduleSummaryLoading.  The pages are a set: the order in which they are *)
(* taken, the new ones first, is left open.                                  *)
Prioritised(s, centre) ==
    LET new == PriorityPages(centre) \ (s.loaded \cup {s.busy})
    IN IF new = {} /\ s.queue = {} THEN s
       ELSE [s EXCEPT !.queue = @ \cup new, !.timer = TRUE]

(* Mutant: a loop that stops early leaves its queue without a timer. *)
LoopOnUnarmed(s) ==
    LET rest == s.queue \ s.loaded
    IN IF rest = {} THEN {[s EXCEPT !.busy = 0, !.queue = {}]}
       ELSE {[s EXCEPT !.busy = 0, !.timer = FALSE]}

(* The loop goes on to a page still wanted; when it stops with pages left   *)
(* (the viewer is hidden) its caller sets the timer again.                  *)
LoopOn(s) ==
    LET rest == s.queue \ s.loaded
    IN IF ~view.visible
       THEN {[s EXCEPT !.busy = 0, !.timer = @ \/ s.queue # {}]}
       ELSE IF rest = {} THEN {[s EXCEPT !.busy = 0, !.queue = {}]}
       ELSE {[s EXCEPT !.busy = p, !.queue = rest \ {p}] : p \in rest}

SummaryTimer ==
    /\ sums.timer
    /\ LET s == [sums EXCEPT !.timer = FALSE]
       IN IF doc.shown = 0 \/ s.busy # 0 \/ s.queue = {} THEN sums' = s
          ELSE sums' \in LoopOn(s)
    /\ UNCHANGED <<doc, loads, view, queue, runs, screen, hist>>

(* updatePageSummary: the text of page `source` is the summary of page p.   *)
Summarised(s, p, source) == [s EXCEPT !.of[p] = source, !.loaded = @ \cup {p}]

(* A page that cannot be read keeps its number as its summary.              *)
SummaryArrives ==
    /\ sums.busy # 0
    /\ \E ok \in BOOLEAN :
        /\ ok \/ doc.shown # doc.token \/ hist.faults < MaxFaults
        /\ sums' \in LoopOn(Summarised(sums, sums.busy, IF ok THEN sums.busy ELSE 0))
        /\ hist' = [hist EXCEPT !.faults =
                       IF ok \/ doc.shown # doc.token THEN @ ELSE @ + 1]
    /\ UNCHANGED <<doc, loads, view, queue, runs, screen>>

-----------------------------------------------------------------------------
(* The rendering queue *)

(* What cancelling the render task and the text layer ends at once.         *)
Cancelled(rs) ==
    {IF r.step \in {"paint", "layer"} THEN [r EXCEPT !.step = "ended"] ELSE r : r \in rs}

MayRender(token) ==
    doc.shown # 0 /\ ~doc.loading /\ view.visible /\ token = doc.token

(* flushRenderQueue from a queue q.  After an error the page's elements are *)
(* not in the document yet when renderCurrentPage asks for the canvas, and  *)
(* it returns at once: the page comes back with an empty canvas.            *)
Flush(q, version, token) ==
    LET run(step) == [token |-> token, version |-> version, page |-> view.current,
                      sign |-> None, step |-> step]
        started == [q EXCEPT !.active = version, !.run = <<token, version>>]
        busy == q.run # NoRun
    IN \/ /\ ~MayRender(token)
          /\ queue' = q
          /\ UNCHANGED <<doc, runs, screen, hist>>
       \/ /\ MayRender(token) /\ busy
          /\ queue' = [q EXCEPT !.again = TRUE]
          /\ runs' = Cancelled(runs)
          /\ UNCHANGED <<doc, screen, hist>>
       \/ /\ MayRender(token) /\ ~busy /\ doc.error
          /\ queue' = started
          /\ runs' = runs \cup {run("ended")}
          /\ doc' = [doc EXCEPT !.error = FALSE]
          /\ screen' = [screen EXCEPT !.rendering = TRUE]
          /\ Slip({"reopened"})
       \/ /\ MayRender(token) /\ ~busy /\ ~doc.error
          /\ queue' = started
          /\ runs' = runs \cup {run("page")}
          /\ screen' = [screen EXCEPT !.rendering = TRUE, !.marks = None, !.text = None]
          /\ UNCHANGED <<doc, hist>>

(* scheduleRender in a view that has become v: the newest request replaces  *)
(* the timer of the one before.                                             *)
Scheduled(v) ==
    IF doc.shown = 0 \/ doc.loading \/ ~v.visible THEN queue
    ELSE [queue EXCEPT !.queued = @ + 1, !.timer = queue.queued + 1]

RenderTimer ==
    /\ queue.timer # 0
    /\ Flush([queue EXCEPT !.timer = 0], queue.timer, doc.token)
    /\ UNCHANGED <<loads, view, sums>>

(* The frame a finished rendering waits for before the next round.          *)
Frame ==
    /\ queue.frames > 0
    /\ Flush([queue EXCEPT !.frames = @ - 1], queue.queued, doc.token)
    /\ UNCHANGED <<loads, view, sums>>

(* Mutant: a text layer that is no longer on the screen is marked too. *)
MarkedAnyway(text) == IF text.page \in CluePages THEN text ELSE None

(* What applyHighlight marks on the text layer: nothing while the layer is  *)
(* not the one of the document on the screen.                               *)
Marked(text) ==
    IF text.token = doc.token /\ text.page \in CluePages THEN text ELSE None

Step(r, step) == runs' = (runs \ {r}) \cup {[r EXCEPT !.step = step]}

(* getPage answers and the stage is ready.  The signature, the scale and    *)
(* the page are read now, but the page to paint was chosen when it was      *)
(* asked for.                                                               *)
Paint(r) ==
    LET sign == [token |-> r.token, page |-> view.current, scale |-> view.scale]
        late == r.token # doc.token
        same == screen.signature = sign
    IN /\ r.step = "page"
       /\ \/ /\ late
             /\ Step(r, "ended")
             /\ UNCHANGED <<screen, hist>>
          \/ /\ ~late /\ same
             /\ Step(r, "ended")
             /\ screen' = [screen EXCEPT !.marks = Marked(screen.text)]
             /\ UNCHANGED hist
          \/ /\ ~late /\ ~same
             /\ runs' = (runs \ {r}) \cup {[r EXCEPT !.step = "paint", !.sign = sign]}
             /\ screen' = [screen EXCEPT !.canvas = None]
             /\ Slip(IF r.page # view.current THEN {"crossed"} ELSE {})
       /\ UNCHANGED <<doc, loads, view, queue, sums>>

Picture(r) == [r.sign EXCEPT !.page = r.page]

Painted(r) ==
    /\ r.step = "paint"
    /\ screen' = [screen EXCEPT !.canvas = Picture(r)]
    /\ Step(r, IF r.token # doc.token \/ r.version # queue.active THEN "ended" ELSE "text")
    /\ UNCHANGED <<doc, loads, view, queue, sums, hist>>

(* The page's text arrives: it becomes the summary of the page shown now.   *)
(* That a page loses its text this way while its own summary is already the *)
(* text of another is remembered: its next rendering may be saved.          *)
TextArrives(r) ==
    /\ r.step = "text"
    /\ sums' = Summarised(sums, view.current, r.page)
    /\ screen' = [screen EXCEPT !.text = Picture(r)]
    /\ Step(r, "layer")
    /\ Slip(IF r.page # view.current /\ sums.of[r.page] \notin {0, r.page}
            THEN {"misfiled"} ELSE {})
    /\ UNCHANGED <<doc, loads, view, queue>>

Layered(r) ==
    /\ r.step = "layer"
    /\ Step(r, "ended")
    /\ screen' = IF r.token # doc.token \/ r.version # queue.active THEN screen
                 ELSE [screen EXCEPT !.signature = r.sign, !.marks = Marked(screen.text)]
    /\ UNCHANGED <<doc, loads, view, queue, sums, hist>>

(* pdf.js answers a rendering with an error.  Of a document that was        *)
(* replaced it is ignored; of this one the page gives way to a message.     *)
RunFails(r) ==
    LET late == r.token # doc.token \/ r.version # queue.active
    IN /\ r.step # "ended"
       /\ late \/ hist.faults < MaxFaults
       /\ Step(r, "ended")
       /\ doc' = IF late THEN doc ELSE [doc EXCEPT !.error = TRUE]
       /\ screen' = IF late THEN screen ELSE [screen EXCEPT !.canvas = None, !.text = None]
       /\ hist' = IF late THEN hist ELSE [hist EXCEPT !.faults = @ + 1]
       /\ UNCHANGED <<loads, view, queue, sums>>

(* The rest of flushRenderQueue when its rendering has returned.            *)
Finish(r) ==
    LET more == queue.again \/ (queue.queued > queue.active /\ r.token = doc.token)
        next == more /\ doc.shown # 0 /\ ~doc.loading
    IN /\ r.step = "ended"
       /\ runs' = runs \ {r}
       /\ queue' = [queue EXCEPT !.run = IF @ = RunId(r) THEN NoRun ELSE @,
                                 !.again = FALSE,
                                 !.frames = IF next THEN @ + 1 ELSE @]
       /\ screen' = IF ~next /\ r.token = doc.token
                    THEN [screen EXCEPT !.rendering = FALSE] ELSE screen
       /\ UNCHANGED <<doc, loads, view, sums, hist>>

-----------------------------------------------------------------------------
(* Loading a document *)

(* The property url changes: loadDocument up to the first await of          *)
(* cleanupPdfState.  The old document stays in pdfDocument until then.      *)
Open ==
    /\ doc.token < Loads
    /\ doc' = [doc EXCEPT !.token = @ + 1, !.loading = TRUE, !.error = FALSE]
    /\ loads' = [loads EXCEPT ![doc.token + 1] = "cleaning"]
    /\ view' = [view EXCEPT !.current = 1]
    /\ queue' = [FreshQueue EXCEPT !.frames = queue.frames]
    /\ runs' = Cancelled(runs)
    /\ screen' = [screen EXCEPT !.canvas = None, !.text = None, !.marks = None,
                                !.signature = None]
    /\ sums' = [sums EXCEPT !.of = NoSummaries, !.loaded = {}, !.queue = {}, !.timer = FALSE]
    /\ IF doc.token = 0 THEN UNCHANGED hist ELSE Act(view)

(* The earlier task and document are destroyed, which settles their answers. *)
Cleaned(t) ==
    /\ loads[t] = "cleaning"
    /\ \A e \in 1..(t - 1) : loads[e] # "cleaning"
    /\ \A r \in runs : r.token >= t
    /\ sums.busy = 0
    /\ loads' = [loads EXCEPT ![t] = "fetching"]
    /\ doc' = [doc EXCEPT !.shown = 0]
    /\ UNCHANGED <<view, queue, runs, screen, sums, hist>>

Arrives(t) ==
    /\ loads[t] = "fetching"
    /\ IF t # doc.token
       THEN /\ loads' = [loads EXCEPT ![t] = "done"]
            /\ UNCHANGED <<doc, view, sums>>
       ELSE /\ loads' = [loads EXCEPT ![t] = "staging"]
            /\ doc' = [doc EXCEPT !.shown = t]
            /\ view' = [view EXCEPT !.current = view.target]
            /\ sums' = Prioritised([sums EXCEPT !.of = NoSummaries, !.loaded = {}, !.queue = {}],
                                   view.target)
    /\ UNCHANGED <<queue, runs, screen, hist>>

LoadFails(t) ==
    /\ loads[t] = "fetching"
    /\ t # doc.token \/ hist.faults < MaxFaults
    /\ loads' = [loads EXCEPT ![t] = "done"]
    /\ doc' = IF t # doc.token THEN doc ELSE [doc EXCEPT !.error = TRUE, !.loading = FALSE]
    /\ hist' = IF t # doc.token THEN hist ELSE [hist EXCEPT !.faults = @ + 1]
    /\ UNCHANGED <<view, queue, runs, screen, sums>>

(* waitForStageReady has returned, in time or after its last attempt.       *)
StageReady(t) ==
    /\ loads[t] = "staging"
    /\ loads' = [loads EXCEPT ![t] = "mounting"]
    /\ doc' = IF t = doc.token THEN [doc EXCEPT !.loading = FALSE] ELSE doc
    /\ UNCHANGED <<view, queue, runs, screen, sums, hist>>

(* forceRender: a request of this load's token, without the timer.          *)
ForceRender(t) ==
    /\ loads[t] = "mounting"
    /\ loads' = [loads EXCEPT ![t] = "done"]
    /\ Flush([queue EXCEPT !.queued = @ + 1], queue.queued + 1, t)
    /\ UNCHANGED <<view, sums>>

-----------------------------------------------------------------------------
(* The user and the page around the viewer *)

(* goToPage, goPrevPage, goNextPage, then the watcher of currentPage.       *)
Turn(p) ==
    /\ p \in 1..Total /\ p # view.current
    /\ view' = [view EXCEPT !.current = p]
    /\ Act(view')
    /\ queue' = Scheduled(view)
    /\ sums' = Prioritised(sums, p)
    /\ UNCHANGED <<doc, loads, runs, screen>>

(* Another reference of the same document: the property pageNumber changes. *)
Retarget(p) ==
    /\ p # view.target
    /\ IF Total = 0 \/ p = view.current
       THEN view' = [view EXCEPT !.target = p] /\ UNCHANGED <<queue, sums>>
       ELSE /\ view' = [view EXCEPT !.target = p, !.current = p]
            /\ queue' = Scheduled(view)
            /\ sums' = Prioritised(sums, p)
    /\ Act(view')
    /\ UNCHANGED <<doc, loads, runs, screen>>

(* zoomIn, zoomOut, resetZoom and the watcher of zoom; the resize observer. *)
Rescale(s) ==
    /\ s # view.scale
    /\ view' = [view EXCEPT !.scale = s]
    /\ Act(view')
    /\ queue' = Scheduled(view)
    /\ UNCHANGED <<doc, loads, runs, screen, sums>>

(* The property visible: a viewer shown again asks for a rendering.         *)
Toggle ==
    /\ view' = [view EXCEPT !.visible = ~@]
    /\ Act(view')
    /\ queue' = IF view'.visible THEN Scheduled(view') ELSE queue
    /\ UNCHANGED <<doc, loads, runs, screen, sums>>

(* The properties anchorText and searchText: the marks are looked up again. *)
Reclue ==
    /\ Act(view)
    /\ screen' = [screen EXCEPT !.marks =
                     IF screen.text = None \/ doc.loading \/ doc.error THEN @
                     ELSE Marked(screen.text)]
    /\ UNCHANGED <<doc, loads, view, queue, runs, sums>>

-----------------------------------------------------------------------------
Rendering ==
    \/ RenderTimer
    \/ Frame
    \/ \E r \in runs : Paint(r)
    \/ \E r \in runs : Painted(r)
    \/ \E r \in runs : TextArrives(r)
    \/ \E r \in runs : Layered(r)
    \/ \E r \in runs : Finish(r)

Loading == \E t \in 1..Loads : Cleaned(t) \/ Arrives(t) \/ StageReady(t) \/ ForceRender(t)

Summing == SummaryTimer \/ SummaryArrives

Reading ==
    \/ Open
    \/ \E p \in Page : Turn(p)
    \/ \E p \in Page : Retarget(p)
    \/ \E s \in Scales : Rescale(s)
    \/ Toggle
    \/ Reclue

Fault ==
    \/ \E r \in runs : RunFails(r)
    \/ \E t \in 1..Loads : LoadFails(t)

Next == Rendering \/ Loading \/ Summing \/ Reading \/ Fault

Spec == Init /\ [][Next]_vars

(* The browser runs every timer, frame and promise it was given, and pdf.js *)
(* answers.                                                                 *)
FairSpec == Spec /\ WF_vars(Rendering) /\ WF_vars(Loading) /\ WF_vars(Summing)

-----------------------------------------------------------------------------
(* Properties *)

(* What has gone wrong concerns the summaries only.                         *)
Straight == hist.slips \subseteq {"misfiled"}

(* Where the newest load stands and what document is shown.  Documents are  *)
(* destroyed in the order of their loads.                                   *)
LoadOK ==
    /\ doc.shown <= doc.token
    /\ doc.token = 0 => ~doc.loading
    /\ \A t \in 1..Loads : loads[t] = "unused" <=> t > doc.token
    /\ \A t, u \in 1..Loads :
          loads[t] = "cleaning" /\ u > t => loads[u] \in {"unused", "cleaning"}
    /\ doc.token > 0 =>
          /\ doc.loading <=> loads[doc.token] \in {"cleaning", "fetching", "staging"}
          /\ loads[doc.token] = "cleaning" => doc.shown < doc.token
          /\ loads[doc.token] = "fetching" => doc.shown = 0
          /\ loads[doc.token] \in {"staging", "mounting"} => doc.shown = doc.token
          /\ loads[doc.token] = "done" => doc.shown \in {0, doc.token}

Mounted == doc.shown = doc.token /\ loads[doc.token] \in {"mounting", "done"}
Current(r) == r.token = doc.token

(* There is one rendering of the document shown, the one the queue waits    *)
(* for; a rendering of a replaced document is gone before the new one is    *)
(* fetched, and paints no more.                                             *)
RunOK ==
    /\ \A r \in runs :
          /\ r.token <= doc.token
          /\ ~Current(r) => r.step # "paint" /\ loads[doc.token] = "cleaning"
          /\ Current(r) => /\ Mounted /\ queue.run = RunId(r) /\ queue.active = r.version
                           /\ r.step # "ended" => ~doc.error
          /\ r.step \in {"paint", "text", "layer"} => r.sign.token = r.token
    /\ \A r, q \in runs : Current(r) /\ Current(q) => r = q
    /\ queue.run # NoRun => \E r \in runs : Current(r)
    /\ queue.again => queue.run # NoRun

(* What each step of a rendering leaves on the screen, and what the         *)
(* signature and the text layer say of the canvas.                          *)
ScreenOK ==
    /\ screen.signature # None => screen.signature.token = doc.token /\ Mounted
    /\ \A r \in runs : Current(r) =>
          /\ r.step \in {"page", "paint"} => screen.text = None /\ screen.marks = None
          /\ r.step = "paint" => screen.canvas = None
          /\ r.step \in {"text", "layer"} => screen.canvas = Picture(r)
          /\ r.step = "layer" => screen.text = Picture(r)
          /\ r.step \in {"paint", "text", "layer"} =>
                /\ r.sign # screen.signature
                /\ "crossed" \notin hist.slips => r.sign.page = r.page
    /\ screen.text.token = doc.token /\ ~doc.error /\ "reopened" \notin hist.slips
          => screen.canvas = screen.text
    /\ Straight /\ ~doc.error /\ screen.signature = Wanted(view)
          => screen.canvas = screen.signature

(* The view that is wanted was painted, or is being painted, or a round     *)
(* that will paint it is to come.                                           *)
ViewAwaited ==
    Straight /\ doc.token > 0 /\ doc.shown = doc.token /\ loads[doc.token] = "done"
        /\ view.visible /\ ~doc.error
    => \/ screen.signature = Wanted(view)
       \/ queue.timer # 0 \/ queue.frames > 0 \/ queue.again
       \/ \E r \in runs : /\ Current(r)
                          /\ \/ r.step = "page"
                             \/ r.step \in {"paint", "text", "layer"} /\ r.sign = Wanted(view)

(* The page painted last has its own summary, or none yet.                  *)
SummaryOK ==
    hist.slips = {} =>
        /\ screen.signature # None /\ screen.canvas = screen.signature
              => sums.of[screen.canvas.page] \in {0, screen.canvas.page}
        /\ \A r \in runs : Current(r) /\ r.step = "layer"
              => sums.of[r.page] \in {0, r.page}

Quiet ==
    /\ runs = {} /\ queue.timer = 0 /\ queue.frames = 0
    /\ \A t \in 1..doc.token : loads[t] = "done"
    /\ doc.shown = doc.token /\ doc.token > 0
    /\ view.visible /\ ~doc.error

(* When nothing is under way the canvas shows the page the toolbar names,   *)
(* of the document open now, at the current scale, whatever was turned,     *)
(* zoomed, hidden or replaced meanwhile - unless the page was turned while  *)
(* a rendering waited for its page, turned back while another page was being *)
(* painted, or a rendering had failed before.                               *)
PageShown == Quiet /\ Straight => screen.canvas = Wanted(view)

(* Highlight rectangles lie on the picture they were computed for: the same *)
(* document, page and scale - until a rendering has failed: the rectangles  *)
(* a changed clue drew meanwhile then come back with an empty page.         *)
MarksOnPicture ==
    screen.marks # None /\ ~doc.error /\ "reopened" \notin hist.slips
        => screen.marks.token = doc.token /\ screen.canvas = screen.marks

(* The canvas of a document that was replaced is never on the screen again. *)
OwnPicture == screen.canvas # None => screen.canvas.token = doc.token

(* When nothing is under way the summary listed for the page on the screen  *)
(* is of that page (or still its number), unless in addition two texts in a *)
(* row were filed under the page turned to meanwhile.                       *)
SummaryOfPage ==
    Quiet /\ hist.slips = {} => sums.of[view.current] \in {0, view.current}

(* A spinner over the page goes away, unless the viewer is hidden or shows  *)
(* an error.                                                                *)
RenderSettles == screen.rendering ~> (~screen.rendering \/ ~view.visible \/ doc.error)

(* The waiting summaries are all loaded while the viewer can be seen.       *)
SummariesDrain == sums.queue # {} ~> (sums.queue = {} \/ ~view.visible)

(* The picture, its marks and its summary are of the document and the page   *)
(* that are shown (pdf-document-viewer.vue).                                 *)
PictureTrue ==
    /\ TypeOK /\ LoadOK /\ RunOK /\ ScreenOK /\ ViewAwaited /\ SummaryOK
    /\ PageShown /\ MarksOnPicture /\ OwnPicture /\ SummaryOfPage

(* A viewer that can be seen comes to rest.                                  *)
ViewerSettles == RenderSettles /\ SummariesDrain
=============================================================================
