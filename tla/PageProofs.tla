------------------------------ MODULE PageProofs ------------------------------
(***************************************************************************)
(* Three parts of the page, each with its inductive invariant: the viewer  *)
(* of a document, the connection of the chat, and the session.             *)
(*                                                                         *)
(* The picture, its marks and its summary are of the document and the page *)
(* shown.  Viewed is inductive: there is one rendering of the document     *)
(* shown, the one the queue waits for (RunOK), which clears the page before *)
(* it paints and names what it has painted when it is complete (ScreenOK); *)
(* so a view that is not the one painted last has a request, a round or a  *)
(* rendering to come (ViewAwaited).                                        *)
(*                                                                         *)
(* The page has one connection, of the user it shows, whatever the order   *)
(* of logins, lost connections, timers and late close events; and so the   *)
(* socket keeps the promise of ChatLink.  SocketServed is inductive: a     *)
(* timer is pending only while no socket is alive (OneTimer), so what it   *)
(* opens replaces nothing, and a live socket was opened with the token of  *)
(* now (OwnLine).                                                          *)
(*                                                                         *)
(* The page is in one session: local storage, the store and the user it    *)
(* shows agree, across expiry, refresh, renewal, logout and login, as long *)
(* as no login lost its second half and no answer came for a session that  *)
(* was over.  SessionServed is inductive: a login begins without a session *)
(* (OneLogin, LoginKeeps), so the tokens it stores meet no user info; a    *)
(* token that comes otherwise is of the user of now, or it is mixed.       *)
(***************************************************************************)
EXTENDS ChatSocket, ClientSession, PdfViewer, TLAPS

-----------------------------------------------------------------------------
(* The viewer *)

(* The inductive invariant; PageShown and SummaryOfPage follow from it.    *)
Held ==
  /\ LoadOK /\ RunOK /\ ScreenOK /\ ViewAwaited /\ SummaryOK
  /\ MarksOnPicture /\ OwnPicture
Viewed == TypeOK /\ Held

LEMMA NoneIs ==
  /\ Loads \in Nat /\ NumPages \in Nat /\ 0 \in 0..Loads
  /\ None \in Shot /\ 1 \in Page /\ Page \subseteq Nat /\ 0 \in 0..NumPages
  /\ \A s \in Shot : s = None \/ s.token \in 1..Loads
  /\ None.token = 0 /\ None.page = 0
  /\ \A t \in 1..Loads, p \in Page, s \in Scales :
        /\ [token |-> t, page |-> p, scale |-> s] \in Shot
        /\ [token |-> t, page |-> p, scale |-> s] # None
BY ViewerAssumption DEF None, Shot, Page

(* The parts of the state by their fields.                                 *)
LEMMA Fields ==
  ASSUME TypeOK
  PROVE  /\ doc.token \in 0..Loads /\ doc.shown \in 0..Loads
         /\ doc.loading \in BOOLEAN /\ doc.error \in BOOLEAN
         /\ view.current \in Page /\ view.target \in Page /\ view.scale \in Scales
         /\ view.visible \in BOOLEAN
         /\ queue.queued \in Nat /\ queue.active \in Nat /\ queue.run \in Nat \X Nat
         /\ queue.again \in BOOLEAN /\ queue.timer \in Nat /\ queue.frames \in Nat
         /\ screen.canvas \in Shot /\ screen.text \in Shot /\ screen.marks \in Shot
         /\ screen.signature \in Shot
         /\ sums.of \in [Page -> 0..NumPages] /\ sums.busy \in 0..NumPages
         /\ hist.slips \subseteq Slips
BY DEF TypeOK, Docs, Views, Queues, Screens, Summaries, Histories

(* What a step may write into the records.                                 *)
LEMMA DocTypes ==
  ASSUME NEW d \in Docs
  PROVE  /\ \A b \in BOOLEAN : [d EXCEPT !.error = b] \in Docs /\ [d EXCEPT !.loading = b] \in Docs
         /\ \A t \in 0..Loads : [d EXCEPT !.shown = t] \in Docs
         /\ [d EXCEPT !.error = TRUE, !.loading = FALSE] \in Docs
         /\ \A t \in 0..Loads : [d EXCEPT !.token = t, !.loading = TRUE, !.error = FALSE] \in Docs
BY DEF Docs

LEMMA QueueTypes ==
  ASSUME NEW q \in Queues
  PROVE  /\ FreshQueue \in Queues /\ \A n \in Nat : [FreshQueue EXCEPT !.frames = n] \in Queues
         /\ [q EXCEPT !.again = TRUE] \in Queues
         /\ \A n \in Nat : /\ [q EXCEPT !.queued = n] \in Queues /\ [q EXCEPT !.timer = n] \in Queues
                           /\ [q EXCEPT !.frames = n] \in Queues
         /\ \A n, k \in Nat : [q EXCEPT !.queued = n, !.timer = k] \in Queues
         /\ \A n, k, l \in Nat : [q EXCEPT !.active = n, !.run = <<k, l>>] \in Queues
         /\ \A n \in Nat, r \in Nat \X Nat : [q EXCEPT !.run = r, !.again = FALSE, !.frames = n] \in Queues
BY DEF Queues, FreshQueue, NoRun

LEMMA ScreenTypes ==
  ASSUME NEW s \in Screens
  PROVE  /\ \A b \in BOOLEAN : [s EXCEPT !.rendering = b] \in Screens
         /\ [s EXCEPT !.rendering = TRUE, !.marks = None, !.text = None] \in Screens
         /\ \A c \in Shot : /\ [s EXCEPT !.marks = c] \in Screens /\ [s EXCEPT !.canvas = c] \in Screens
                            /\ [s EXCEPT !.text = c] \in Screens
         /\ \A c, d \in Shot : [s EXCEPT !.signature = c, !.marks = d] \in Screens
         /\ [s EXCEPT !.canvas = None, !.text = None] \in Screens
         /\ [s EXCEPT !.canvas = None, !.text = None, !.marks = None, !.signature = None] \in Screens
BY NoneIs DEF Screens

LEMMA RunTypes ==
  ASSUME NEW rs, rs \subseteq Runs
  PROVE  /\ Cancelled(rs) \subseteq Runs
         /\ \A r \in rs, step \in Steps : (rs \ {r}) \cup {[r EXCEPT !.step = step]} \subseteq Runs
         /\ \A r \in rs, s \in Shot :
               (rs \ {r}) \cup {[r EXCEPT !.step = "paint", !.sign = s]} \subseteq Runs
         /\ \A r \in rs : r \in Runs /\ RunId(r) \in Nat \X Nat
<1>1. \A r \in Runs, step \in Steps : [r EXCEPT !.step = step] \in Runs
  BY DEF Runs
<1>2. \A r \in Runs, s \in Shot : [r EXCEPT !.step = "paint", !.sign = s] \in Runs
  BY DEF Runs, Steps
<1>3. Cancelled(rs) \subseteq Runs
  BY <1>1 DEF Cancelled, Steps
<1>4. \A r \in Runs : RunId(r) \in Nat \X Nat
  BY ViewerAssumption DEF Runs, RunId
<1>. QED  BY <1>1, <1>2, <1>3, <1>4

LEMMA ViewerInit == Init => PictureTrue
<1>. SUFFICES ASSUME Init PROVE PictureTrue  OBVIOUS
<1>1. TypeOK
  <2>1. doc \in Docs  BY ViewerAssumption DEF Init, Docs
  <2>2. loads \in [1..Loads -> Stages]  BY DEF Init, Stages
  <2>3. view \in Views  BY NoneIs, ViewerAssumption DEF Init, Views
  <2>4. queue \in Queues  BY DEF Init, Queues, FreshQueue, NoRun
  <2>5. runs \subseteq Runs  BY DEF Init
  <2>6. screen \in Screens  BY NoneIs DEF Init, Screens
  <2>7. sums \in Summaries  BY NoneIs DEF Init, Summaries, NoSummaries
  <2>8. hist \in Histories  BY DEF Init, Histories
  <2>. QED  BY <2>1, <2>2, <2>3, <2>4, <2>5, <2>6, <2>7, <2>8 DEF TypeOK
<1>2. LoadOK
  BY ViewerAssumption DEF Init, LoadOK
<1>3. RunOK /\ SummaryOK /\ OwnPicture /\ MarksOnPicture
  BY DEF Init, RunOK, FreshQueue, SummaryOK, OwnPicture, MarksOnPicture
<1>4. ScreenOK /\ ViewAwaited /\ PageShown /\ SummaryOfPage
  BY NoneIs DEF Init, ScreenOK, ViewAwaited, Wanted, PageShown, SummaryOfPage, Quiet, None, Page
<1>. QED  BY <1>1, <1>2, <1>3, <1>4 DEF PictureTrue

(* At rest the wanted view is the one painted last, and it is there.       *)
LEMMA ViewedShows == Viewed => PageShown /\ SummaryOfPage
<1>. SUFFICES ASSUME Viewed PROVE PageShown /\ SummaryOfPage  OBVIOUS
<1>1. ASSUME Quiet, Straight
      PROVE  screen.signature = Wanted(view) /\ screen.canvas = screen.signature
  <2>1. loads[doc.token] = "done" /\ queue.again = FALSE
    BY <1>1, Fields DEF Quiet, Viewed, Held, RunOK
  <2>2. screen.signature = Wanted(view)
    BY <1>1, <2>1, Fields DEF Quiet, Viewed, Held, ViewAwaited
  <2>. QED  BY <1>1, <2>2 DEF Quiet, Viewed, Held, ScreenOK
<1>2. PageShown  BY <1>1 DEF PageShown
<1>3. ASSUME Quiet, hist.slips = {} PROVE sums.of[view.current] \in {0, view.current}
  <2>1. Straight  BY <1>3 DEF Straight
  <2>2. doc.token \in 1..Loads /\ view.current \in Page /\ view.scale \in Scales
    BY <1>3, Fields DEF Quiet, Viewed, Held
  <2>3. Wanted(view) # None /\ Wanted(view).page = view.current
    BY <2>2, NoneIs DEF Wanted
  <2>. QED  BY <1>1, <1>3, <2>1, <2>3 DEF Viewed, Held, SummaryOK
<1>. QED  BY <1>2, <1>3 DEF SummaryOfPage

-----------------------------------------------------------------------------
(* Types *)

LEMMA SlipTypes ==
  ASSUME TypeOK, NEW s, s \subseteq Slips
  PROVE  /\ Slip(s) => hist' \in Histories
         /\ hist' = [hist EXCEPT !.faults = @ + 1] => hist' \in Histories
         /\ \A v : Act(v) => hist' \in Histories
<1>1. hist \in Histories /\ hist.slips \in SUBSET Slips  BY DEF TypeOK, Histories
<1>2. [hist EXCEPT !.slips = @ \cup s] \in Histories  BY <1>1 DEF Histories
<1>3. [hist EXCEPT !.faults = @ + 1] \in Histories  BY <1>1 DEF Histories
<1>4. ASSUME NEW e, e \subseteq Slips
      PROVE  [hist EXCEPT !.acts = @ + 1, !.slips = @ \cup e] \in Histories
  <2>1. [hist EXCEPT !.slips = @ \cup e] \in Histories  BY <1>1, <1>4 DEF Histories
  <2>2. \A h \in Histories : [h EXCEPT !.acts = @ + 1] \in Histories  BY DEF Histories
  <2>3. [hist EXCEPT !.acts = @ + 1, !.slips = @ \cup e]
          = [[hist EXCEPT !.slips = @ \cup e] EXCEPT !.acts = @ + 1]
    BY <1>1 DEF Histories
  <2>. QED  BY <2>1, <2>2, <2>3
<1>5. ASSUME NEW v, Act(v) PROVE hist' \in Histories
  <2>1. \A c \in BOOLEAN : (IF c THEN {"back"} ELSE {}) \subseteq Slips  BY DEF Slips
  <2>. QED  BY <1>4, <1>5, <2>1 DEF Act
<1>. QED  BY <1>2, <1>3, <1>5 DEF Slip

LEMMA FlushTypes ==
  ASSUME TypeOK, LoadOK, NEW q \in Queues, NEW version \in Nat, NEW number,
         Flush(q, version, number)
  PROVE  doc' \in Docs /\ queue' \in Queues /\ runs' \subseteq Runs /\ screen' \in Screens
         /\ hist' \in Histories
<1>. USE DEF TypeOK
<1>1. CASE UNCHANGED <<doc, runs, screen, hist>> /\ queue' = q
  BY <1>1
<1>. SUFFICES ASSUME MayRender(number) PROVE doc' \in Docs /\ queue' \in Queues /\ runs' \subseteq Runs
                                             /\ screen' \in Screens /\ hist' \in Histories
  BY <1>1 DEF Flush
<1>0. number \in 1..Loads
  <2>1. doc.token \in 0..Loads /\ doc.shown \in 0..Loads  BY Fields
  <2>2. doc.shown <= doc.token /\ doc.shown # 0 /\ number = doc.token  BY DEF MayRender, LoadOK
  <2>. QED  BY <2>1, <2>2, NoneIs
<1>2. CASE queue' = [q EXCEPT !.again = TRUE] /\ runs' = Cancelled(runs) /\ UNCHANGED <<doc, screen, hist>>
  <2>1. Cancelled(runs) \subseteq Runs  BY RunTypes
  <2>2. [q EXCEPT !.again = TRUE] \in Queues  BY QueueTypes
  <2>. QED  BY <1>2, <2>1, <2>2
<1>3. \A step \in Steps : [token |-> number, version |-> version, page |-> view.current,
                           sign |-> None, step |-> step] \in Runs
  BY <1>0, NoneIs, Fields DEF Runs
<1>4. [q EXCEPT !.active = version, !.run = <<number, version>>] \in Queues
  <2>1. number \in Nat  BY <1>0, ViewerAssumption
  <2>. QED  BY <2>1, QueueTypes
<1>5. {"page", "ended"} \subseteq Steps /\ {"reopened"} \subseteq Slips  BY DEF Steps, Slips
<1>6. CASE /\ queue' = [q EXCEPT !.active = version, !.run = <<number, version>>]
           /\ runs' = runs \cup {[token |-> number, version |-> version, page |-> view.current,
                                 sign |-> None, step |-> "ended"]}
           /\ doc' = [doc EXCEPT !.error = FALSE]
           /\ screen' = [screen EXCEPT !.rendering = TRUE]
           /\ Slip({"reopened"})
  <2>1. hist' \in Histories  BY <1>5, <1>6, SlipTypes
  <2>2. doc' \in Docs /\ screen' \in Screens  BY <1>6, DocTypes, ScreenTypes
  <2>. QED  BY <1>3, <1>4, <1>5, <1>6, <2>1, <2>2
<1>7. CASE /\ queue' = [q EXCEPT !.active = version, !.run = <<number, version>>]
           /\ runs' = runs \cup {[token |-> number, version |-> version, page |-> view.current,
                                 sign |-> None, step |-> "page"]}
           /\ screen' = [screen EXCEPT !.rendering = TRUE, !.marks = None, !.text = None]
           /\ UNCHANGED <<doc, hist>>
  <2>1. screen' \in Screens  BY <1>7, ScreenTypes
  <2>. QED  BY <1>3, <1>4, <1>5, <1>7, <2>1
<1>. QED  BY <1>1, <1>2, <1>6, <1>7 DEF Flush

LEMMA StepTypes ==
  ASSUME TypeOK, NEW r \in runs, NEW step \in Steps, Step(r, step)
  PROVE  runs' \subseteq Runs
<1>1. runs \subseteq Runs  BY DEF TypeOK
<1>. QED  BY <1>1, RunTypes DEF Step

LEMMA SumTypes ==
  ASSUME TypeOK
  PROVE  /\ sums \in Summaries
         /\ \A s \in Summaries, c \in Page : Prioritised(s, c) \in Summaries
         /\ \A s \in Summaries : LoopOn(s) \subseteq Summaries
         /\ \A s \in Summaries, p \in Page, n \in 0..NumPages : Summarised(s, p, n) \in Summaries
         /\ \A s \in Summaries : /\ [s EXCEPT !.timer = FALSE] \in Summaries
                             /\ [s EXCEPT !.of = NoSummaries, !.loaded = {}, !.queue = {}] \in Summaries
                             /\ [s EXCEPT !.of = NoSummaries, !.loaded = {}, !.queue = {},
                                          !.timer = FALSE] \in Summaries
<1>1. sums \in Summaries  BY DEF TypeOK
<1>2. ASSUME NEW s \in Summaries, NEW q, q \subseteq Page, NEW b \in BOOLEAN, NEW n \in 0..NumPages
      PROVE  /\ [s EXCEPT !.queue = q, !.timer = b] \in Summaries
             /\ [s EXCEPT !.busy = n, !.timer = b] \in Summaries
             /\ [s EXCEPT !.busy = n, !.queue = q] \in Summaries
             /\ [s EXCEPT !.timer = b] \in Summaries
             /\ s.queue \subseteq Page /\ s.timer \in BOOLEAN
  BY <1>2 DEF Summaries
<1>3. ASSUME NEW s \in Summaries, NEW c \in Page PROVE Prioritised(s, c) \in Summaries
  <2> DEFINE new == PriorityPages(c) \ (s.loaded \cup {s.busy})
  <2>1. s.queue \cup new \subseteq Page  BY <1>2, <1>3, NoneIs DEF PriorityPages
  <2>2. [s EXCEPT !.queue = s.queue \cup new, !.timer = TRUE] \in Summaries  BY <1>2, <2>1, NoneIs
  <2>3. Prioritised(s, c) \in {s, [s EXCEPT !.queue = s.queue \cup new, !.timer = TRUE]}
    BY DEF Prioritised
  <2>. QED  BY <2>2, <2>3
<1>4. ASSUME NEW s \in Summaries PROVE LoopOn(s) \subseteq Summaries
  <2> DEFINE rest == s.queue \ s.loaded
  <2>1. rest \subseteq Page /\ (s.timer \/ s.queue # {}) \in BOOLEAN  BY <1>2, <1>4, NoneIs
  <2>2. [s EXCEPT !.busy = 0, !.timer = s.timer \/ s.queue # {}] \in Summaries
    BY <1>2, <2>1, NoneIs
  <2>3. [s EXCEPT !.busy = 0, !.queue = {}] \in Summaries  BY <1>2, NoneIs
  <2>4. \A p \in rest : [s EXCEPT !.busy = p, !.queue = rest \ {p}] \in Summaries
    <3>1. \A p \in rest : p \in 0..NumPages /\ rest \ {p} \subseteq Page  BY <2>1 DEF Page
    <3>. QED  BY <1>2, <3>1
  <2>. QED  BY <2>2, <2>3, <2>4 DEF LoopOn
<1>5. ASSUME NEW s \in Summaries, NEW p \in Page, NEW n \in 0..NumPages
      PROVE  Summarised(s, p, n) \in Summaries
  <2>1. [s.of EXCEPT ![p] = n] \in [Page -> 0..NumPages]  BY DEF Summaries
  <2>. QED  BY <2>1 DEF Summarised, Summaries
<1>6. NoSummaries \in [Page -> 0..NumPages]  BY NoneIs DEF NoSummaries
<1>7. \A s \in Summaries : /\ [s EXCEPT !.of = NoSummaries, !.loaded = {}, !.queue = {}] \in Summaries
                        /\ [s EXCEPT !.of = NoSummaries, !.loaded = {}, !.queue = {},
                                     !.timer = FALSE] \in Summaries
  BY <1>6 DEF Summaries
<1>. QED  BY <1>1, <1>2, <1>3, <1>4, <1>5, <1>7, NoneIs

LEMMA MarkedTypes ==
  ASSUME TypeOK PROVE Marked(screen.text) \in Shot
BY NoneIs, Fields DEF Marked

LEMMA ScheduledTypes ==
  ASSUME TypeOK, NEW v PROVE Scheduled(v) \in Queues
<1>0. queue.queued \in Nat  BY Fields
<1>1. queue \in Queues /\ queue.queued + 1 \in Nat  BY <1>0 DEF TypeOK
<1>2. [queue EXCEPT !.queued = @ + 1, !.timer = queue.queued + 1] \in Queues  BY <1>1, QueueTypes
<1>. QED  BY <1>1, <1>2 DEF Scheduled

LEMMA RunIs ==
  ASSUME TypeOK, RunOK, NEW r \in runs
  PROVE  /\ r \in Runs /\ r.token \in 1..Loads /\ r.version \in Nat /\ r.page \in Page
         /\ r.sign \in Shot /\ r.step \in Steps
         /\ doc.token \in 1..Loads
         /\ r.step \in {"paint", "text", "layer"} => Picture(r) \in Shot /\ Picture(r) # None
         /\ Picture(r).token = r.sign.token /\ Picture(r).page = r.page
<1>1. r \in Runs /\ r.token \in 1..Loads /\ r.version \in Nat /\ r.page \in Page
      /\ r.sign \in Shot /\ r.step \in Steps
  BY DEF TypeOK, Runs
<1>2. doc.token \in 1..Loads  BY <1>1, Fields, ViewerAssumption DEF RunOK
<1>3. Picture(r).token = r.sign.token /\ Picture(r).page = r.page
  BY <1>1 DEF Picture, Shot, None
<1>4. ASSUME r.step \in {"paint", "text", "layer"} PROVE Picture(r) \in Shot /\ Picture(r) # None
  <2>1. r.sign.token = r.token  BY <1>4 DEF RunOK
  <2>2. r.sign \in [token : 1..Loads, page : Page, scale : Scales]
    BY <1>1, <2>1, NoneIs DEF Shot
  <2>3. Picture(r) \in [token : 1..Loads, page : Page, scale : Scales]  BY <1>1, <2>2 DEF Picture
  <2>. QED  BY <2>3, <1>1, <1>3, <2>1, NoneIs DEF Shot
<1>. QED  BY <1>1, <1>2, <1>3, <1>4

LEMMA RenderingTypes ==
  ASSUME TypeOK, LoadOK, RunOK, Rendering PROVE TypeOK'
<1>. USE DEF TypeOK
<1>1. ASSUME RenderTimer PROVE TypeOK'
  <2>1. [queue EXCEPT !.timer = 0] \in Queues  BY QueueTypes
  <2>. QED  BY <1>1, <2>1, FlushTypes, Fields DEF RenderTimer
<1>2. ASSUME Frame PROVE TypeOK'
  <2>1. queue.frames - 1 \in Nat  BY <1>2, Fields DEF Frame
  <2>2. [queue EXCEPT !.frames = @ - 1] \in Queues  BY <2>1, QueueTypes
  <2>. QED  BY <1>2, <2>2, FlushTypes, Fields DEF Frame
<1>3. ASSUME NEW r \in runs, Paint(r) PROVE TypeOK'
  <2> DEFINE sign == [token |-> r.token, page |-> view.current, scale |-> view.scale]
  <2>1. sign \in Shot  BY RunIs, NoneIs, Fields
  <2>2. (runs \ {r}) \cup {[r EXCEPT !.step = "paint", !.sign = sign]} \subseteq Runs
    <3>. HIDE DEF sign
    <3>. QED  BY <2>1, RunTypes
  <2>3. {"ended"} \subseteq Steps  BY DEF Steps
  <2>4. \A c \in BOOLEAN : (IF c THEN {"crossed"} ELSE {}) \subseteq Slips  BY DEF Slips
  <2>5. runs' \subseteq Runs  BY <1>3, <2>2, <2>3, StepTypes DEF Paint
  <2>6. screen' \in Screens  BY <1>3, ScreenTypes, MarkedTypes, NoneIs DEF Paint
  <2>7. hist' \in Histories  BY <1>3, <2>4, SlipTypes DEF Paint
  <2>. QED  BY <1>3, <2>5, <2>6, <2>7 DEF Paint
<1>4. ASSUME NEW r \in runs, Painted(r) PROVE TypeOK'
  <2>1. Picture(r) \in Shot  BY <1>4, RunIs DEF Painted
  <2>2. \A c \in BOOLEAN : (IF c THEN "ended" ELSE "text") \in Steps  BY DEF Steps
  <2>3. runs' \subseteq Runs  BY <1>4, <2>2, StepTypes DEF Painted
  <2>4. screen' \in Screens  BY <1>4, <2>1, ScreenTypes DEF Painted
  <2>. QED  BY <1>4, <2>3, <2>4 DEF Painted
<1>5. ASSUME NEW r \in runs, TextArrives(r) PROVE TypeOK'
  <2>1. Picture(r) \in Shot /\ r.page \in 0..NumPages  BY <1>5, RunIs DEF TextArrives, Page
  <2>2. "layer" \in Steps  BY DEF Steps
  <2>3. runs' \subseteq Runs  BY <1>5, <2>2, StepTypes DEF TextArrives
  <2>4. screen' \in Screens  BY <1>5, <2>1, ScreenTypes DEF TextArrives
  <2>5. sums' \in Summaries  BY <1>5, <2>1, SumTypes, Fields DEF TextArrives
  <2>6. \A c \in BOOLEAN : (IF c THEN {"misfiled"} ELSE {}) \subseteq Slips  BY DEF Slips
  <2>7. hist' \in Histories  BY <1>5, <2>6, SlipTypes DEF TextArrives
  <2>. QED  BY <1>5, <2>3, <2>4, <2>5, <2>7 DEF TextArrives
<1>6. ASSUME NEW r \in runs, Layered(r) PROVE TypeOK'
  <2>1. "ended" \in Steps  BY DEF Steps
  <2>2. runs' \subseteq Runs  BY <1>6, <2>1, StepTypes DEF Layered
  <2>3. screen' \in Screens  BY <1>6, ScreenTypes, MarkedTypes, RunIs DEF Layered
  <2>. QED  BY <1>6, <2>2, <2>3 DEF Layered
<1>7. ASSUME NEW r \in runs, Finish(r) PROVE TypeOK'
  <2>0. queue.frames \in Nat  BY Fields
  <2>1. /\ \A c \in BOOLEAN : (IF c THEN queue.frames + 1 ELSE queue.frames) \in Nat
        /\ NoRun \in Nat \X Nat
    BY <2>0 DEF NoRun
  <2>2. (IF queue.run = RunId(r) THEN NoRun ELSE queue.run) \in Nat \X Nat  BY <2>1, Fields
  <2>3. queue' \in Queues  BY <1>7, <2>1, <2>2, QueueTypes DEF Finish
  <2>4. screen' \in Screens  BY <1>7, ScreenTypes DEF Finish
  <2>. QED  BY <1>7, <2>3, <2>4 DEF Finish
<1>. QED  BY <1>1, <1>2, <1>3, <1>4, <1>5, <1>6, <1>7 DEF Rendering

LEMMA LoadingTypes ==
  ASSUME TypeOK, LoadOK, RunOK, Loading PROVE TypeOK'
<1>. USE DEF TypeOK
<1>0. \A t \in 1..Loads, l \in {"fetching", "staging", "mounting", "done", "cleaning"} :
         [loads EXCEPT ![t] = l] \in [1..Loads -> Stages]
  BY DEF Stages
<1>. PICK t \in 1..Loads : Cleaned(t) \/ Arrives(t) \/ StageReady(t) \/ ForceRender(t)
  BY DEF Loading
<1>1. CASE Cleaned(t)
  <2>1. doc' \in Docs  BY <1>1, DocTypes, NoneIs DEF Cleaned
  <2>. QED  BY <1>0, <1>1, <2>1 DEF Cleaned
<1>2. CASE Arrives(t)
  <2>1. t \in 0..Loads  BY NoneIs
  <2>2. [doc EXCEPT !.shown = t] \in Docs  BY <2>1, DocTypes
  <2>3. view' \in Views  BY <1>2 DEF Arrives, Views
  <2> DEFINE s == [sums EXCEPT !.of = NoSummaries, !.loaded = {}, !.queue = {}]
  <2>4. s \in Summaries /\ view.target \in Page  BY SumTypes, Fields
  <2>5. Prioritised(s, view.target) \in Summaries
    <3>. HIDE DEF s
    <3>. QED  BY <2>4, SumTypes
  <2>6. doc' \in Docs /\ sums' \in Summaries  BY <1>2, <2>2, <2>5 DEF Arrives
  <2>. QED  BY <1>0, <1>2, <2>3, <2>6 DEF Arrives
<1>3. CASE StageReady(t)
  <2>1. doc' \in Docs  BY <1>3, DocTypes DEF StageReady
  <2>. QED  BY <1>0, <1>3, <2>1 DEF StageReady
<1>4. CASE ForceRender(t)
  <2>0. queue.queued \in Nat  BY Fields
  <2>1. queue.queued + 1 \in Nat  BY <2>0
  <2>2. [queue EXCEPT !.queued = @ + 1] \in Queues  BY <2>1, QueueTypes
  <2>. QED  BY <1>0, <1>4, <2>1, <2>2, FlushTypes DEF ForceRender
<1>. QED  BY <1>1, <1>2, <1>3, <1>4

LEMMA SummingTypes ==
  ASSUME TypeOK, Summing PROVE TypeOK'
<1>. USE DEF TypeOK
<1>1. CASE SummaryTimer
  <2>1. sums' \in Summaries  BY <1>1, SumTypes DEF SummaryTimer
  <2>. QED  BY <1>1, <2>1 DEF SummaryTimer
<1>2. CASE SummaryArrives
  <2>. PICK ok \in BOOLEAN :
         /\ sums' \in LoopOn(Summarised(sums, sums.busy, IF ok THEN sums.busy ELSE 0))
         /\ hist' = [hist EXCEPT !.faults = IF ok \/ doc.shown # doc.token THEN @ ELSE @ + 1]
    BY <1>2 DEF SummaryArrives
  <2>1. sums.busy \in Page /\ (IF ok THEN sums.busy ELSE 0) \in 0..NumPages
    <3>1. sums.busy \in 0..NumPages /\ NumPages \in Nat  BY Fields, NoneIs
    <3>2. sums.busy # 0  BY <1>2 DEF SummaryArrives
    <3>. QED  BY <3>1, <3>2 DEF Page
  <2>2. sums' \in Summaries  BY <2>1, SumTypes
  <2>3. hist' \in Histories  BY SlipTypes DEF Histories
  <2>. QED  BY <1>2, <2>2, <2>3 DEF SummaryArrives
<1>. QED  BY <1>1, <1>2 DEF Summing

LEMMA ReadingTypes ==
  ASSUME TypeOK, LoadOK, RunOK, Reading PROVE TypeOK'
<1>. USE DEF TypeOK
<1>0. /\ \A p \in Page : [view EXCEPT !.current = p] \in Views /\ [view EXCEPT !.target = p] \in Views
                         /\ [view EXCEPT !.target = p, !.current = p] \in Views
      /\ \A s \in Scales : [view EXCEPT !.scale = s] \in Views
      /\ [view EXCEPT !.visible = ~@] \in Views
  BY DEF Views
<1>1. CASE Open
  <2>1. doc.token + 1 \in 0..Loads /\ doc.token + 1 \in 1..Loads
    <3>1. doc.token \in 0..Loads /\ doc.token < Loads  BY <1>1, Fields DEF Open
    <3>. QED  BY <3>1, NoneIs
  <2>2. doc' \in Docs  BY <1>1, <2>1, DocTypes DEF Open
  <2>3. loads' \in [1..Loads -> Stages]  BY <1>1, <2>1 DEF Open, Stages
  <2>4. view' \in Views  BY <1>0, <1>1, NoneIs DEF Open
  <2>5. queue' \in Queues  BY <1>1, QueueTypes, Fields DEF Open
  <2>6. runs' \subseteq Runs  BY <1>1, RunTypes DEF Open
  <2>7. screen' \in Screens  BY <1>1, ScreenTypes DEF Open
  <2>8. sums' \in Summaries  BY <1>1, SumTypes DEF Open
  <2>9. hist' \in Histories  BY <1>1, SlipTypes DEF Open
  <2>. QED  BY <2>2, <2>3, <2>4, <2>5, <2>6, <2>7, <2>8, <2>9
<1>2. ASSUME NEW p \in Page, Turn(p) PROVE TypeOK'
  <2>1. queue' \in Queues /\ sums' \in Summaries /\ hist' \in Histories
    BY <1>2, ScheduledTypes, SumTypes, SlipTypes DEF Turn
  <2>. QED  BY <1>0, <1>2, <2>1 DEF Turn
<1>3. ASSUME NEW p \in Page, Retarget(p) PROVE TypeOK'
  <2>1. queue' \in Queues /\ sums' \in Summaries /\ hist' \in Histories
    BY <1>3, ScheduledTypes, SumTypes, SlipTypes DEF Retarget
  <2>. QED  BY <1>0, <1>3, <2>1 DEF Retarget
<1>4. ASSUME NEW s \in Scales, Rescale(s) PROVE TypeOK'
  <2>1. queue' \in Queues /\ hist' \in Histories  BY <1>4, ScheduledTypes, SlipTypes DEF Rescale
  <2>. QED  BY <1>0, <1>4, <2>1 DEF Rescale
<1>5. CASE Toggle
  <2>1. queue' \in Queues /\ hist' \in Histories  BY <1>5, ScheduledTypes, SlipTypes DEF Toggle
  <2>. QED  BY <1>0, <1>5, <2>1 DEF Toggle
<1>6. CASE Reclue
  <2>1. screen' \in Screens /\ hist' \in Histories
    BY <1>6, ScreenTypes, MarkedTypes, SlipTypes, Fields DEF Reclue
  <2>. QED  BY <1>6, <2>1 DEF Reclue
<1>. QED  BY <1>1, <1>2, <1>3, <1>4, <1>5, <1>6 DEF Reading

LEMMA FaultTypes ==
  ASSUME TypeOK, Fault PROVE TypeOK'
<1>. USE DEF TypeOK
<1>1. ASSUME NEW r \in runs, RunFails(r) PROVE TypeOK'
  <2>1. "ended" \in Steps  BY DEF Steps
  <2>2. runs' \subseteq Runs  BY <1>1, <2>1, StepTypes DEF RunFails
  <2>3. doc' \in Docs /\ screen' \in Screens  BY <1>1, DocTypes, ScreenTypes DEF RunFails
  <2>4. hist' \in Histories  BY <1>1, SlipTypes DEF RunFails
  <2>. QED  BY <1>1, <2>2, <2>3, <2>4 DEF RunFails
<1>2. ASSUME NEW t \in 1..Loads, LoadFails(t) PROVE TypeOK'
  <2>1. doc' \in Docs  BY <1>2, DocTypes DEF LoadFails
  <2>2. hist' \in Histories  BY <1>2, SlipTypes DEF LoadFails
  <2>3. loads' \in [1..Loads -> Stages]  BY <1>2 DEF LoadFails, Stages
  <2>. QED  BY <1>2, <2>1, <2>2, <2>3 DEF LoadFails
<1>. QED  BY <1>1, <1>2 DEF Fault

-----------------------------------------------------------------------------
(* What a rendering under way says of the rest                             *)

LEMMA Alone ==
  ASSUME Viewed, NEW r \in runs, Current(r)
  PROVE  /\ runs = {r} /\ Mounted /\ queue.run = RunId(r) /\ queue.active = r.version
         /\ queue.run # NoRun /\ doc.shown # 0 /\ doc.loading = FALSE
         /\ loads[doc.token] # "cleaning" /\ doc.token \in 1..Loads
         /\ r.step # "ended" => ~doc.error
<1>1. doc.token \in 1..Loads /\ r.token \in 1..Loads  BY RunIs DEF Viewed, Held
<1>2. /\ Mounted /\ queue.run = RunId(r) /\ queue.active = r.version
      /\ r.step # "ended" => ~doc.error
  BY DEF Viewed, Held, RunOK
<1>3. loads[doc.token] # "cleaning" /\ doc.shown # 0
  BY <1>1, <1>2, NoneIs DEF Mounted
<1>4. ASSUME NEW q \in runs PROVE q = r
  <2>1. Current(q)  BY <1>3 DEF Viewed, Held, RunOK
  <2>. QED  BY <2>1 DEF Viewed, Held, RunOK
<1>5. doc.loading = FALSE
  <2>1. doc.token > 0  BY <1>1, NoneIs
  <2>. QED  BY <1>2, <2>1, Fields DEF Viewed, Held, LoadOK, Mounted
<1>6. queue.run # NoRun  BY <1>1, <1>2, NoneIs DEF RunId, NoRun
<1>. QED  BY <1>1, <1>2, <1>3, <1>4, <1>5, <1>6

LEMMA NoneCurrent ==
  ASSUME Viewed, ~Mounted \/ queue.run = NoRun
  PROVE  /\ \A r \in runs : ~Current(r)
         /\ queue.run = NoRun /\ queue.again = FALSE
         /\ ~Mounted => screen.signature = None
<1>1. \A r \in runs : ~Current(r)  BY Alone
<1>2. queue.run = NoRun  BY <1>1 DEF Viewed, Held, RunOK
<1>3. queue.again = FALSE  BY <1>2, Fields DEF Viewed, Held, RunOK
<1>. QED  BY <1>1, <1>2, <1>3 DEF Viewed, Held, ScreenOK

LEMMA Old ==
  ASSUME Viewed, NEW r \in runs, ~Current(r)
  PROVE  /\ loads[doc.token] = "cleaning" /\ ~Mounted /\ doc.loading = TRUE /\ r.token < doc.token
         /\ doc.token \in 1..Loads /\ doc.shown < doc.token /\ r.step # "paint"
<1>1. doc.token \in 1..Loads /\ r.token \in 1..Loads  BY RunIs DEF Viewed, Held
<1>2. loads[doc.token] = "cleaning" /\ r.step # "paint" /\ r.token <= doc.token
  BY DEF Viewed, Held, RunOK
<1>3. r.token < doc.token  BY <1>1, <1>2, NoneIs DEF Current
<1>4. doc.token > 0  BY <1>1, NoneIs
<1>5. doc.loading = TRUE /\ doc.shown < doc.token  BY <1>2, <1>4, Fields DEF Viewed, Held, LoadOK
<1>. QED  BY <1>1, <1>2, <1>3, <1>5 DEF Mounted

-----------------------------------------------------------------------------
(* The reader                                                              *)

(* A step that changes the view and asks for a rendering of the new one.   *)
LEMMA ViewChanged ==
  ASSUME Viewed, UNCHANGED <<doc, loads, runs, screen>>, Act(view'), sums'.of = sums.of,
         queue'.run = queue.run, queue'.active = queue.active, queue'.again = queue.again,
         queue'.frames = queue.frames,
         \/ /\ view'.current = view.current /\ view'.scale = view.scale
            /\ view'.visible => view.visible
            /\ queue'.timer = queue.timer
         \/ doc.shown # 0 /\ doc.loading = FALSE /\ view'.visible => queue'.timer # 0
  PROVE  Held'
<1>1. /\ LoadOK /\ RunOK /\ ScreenOK /\ ViewAwaited /\ SummaryOK /\ MarksOnPicture /\ OwnPicture
  BY DEF Viewed, Held
<1>2. /\ hist.slips \subseteq hist'.slips
      /\ Wanted(view') = screen.signature /\ screen.canvas # screen.signature => "back" \in hist'.slips
      /\ Straight' => Straight
      /\ Wanted(view)' = Wanted(view')
  <2>1. hist'.slips = hist.slips \cup IF Wanted(view') = screen.signature /\ screen.canvas # screen.signature
                                     THEN {"back"} ELSE {}
    BY DEF Act, Viewed, Held, TypeOK, Histories
  <2>2. Wanted(view)' = Wanted(view')  BY DEF Wanted
  <2>. QED  BY <2>1, <2>2 DEF Straight
<1>3. LoadOK'  BY <1>1 DEF LoadOK
<1>4. RunOK'  BY <1>1 DEF RunOK, Current, Mounted, RunId
<1>5. ScreenOK'
  BY <1>1, <1>2 DEF ScreenOK, Current, Mounted, Picture, Straight
<1>6. MarksOnPicture' /\ OwnPicture'  BY <1>1, <1>2 DEF MarksOnPicture, OwnPicture
<1>7. SummaryOK'  BY <1>1, <1>2 DEF SummaryOK, Current
<1>8. ViewAwaited'
  <2>. SUFFICES ASSUME Straight', doc.token > 0, doc.shown = doc.token, loads[doc.token] = "done",
                       view'.visible, ~doc.error, queue'.timer = 0
                PROVE  ViewAwaited'
    BY DEF ViewAwaited
  <2>1. doc.shown # 0 /\ doc.loading = FALSE  BY <1>1, Fields, NoneIs DEF LoadOK, Viewed, Held
  <2>2. /\ view'.current = view.current /\ view'.scale = view.scale
        /\ view.visible /\ queue'.timer = queue.timer
    BY <2>1
  <2>3. Wanted(view)' = Wanted(view)  BY <2>2 DEF Wanted
  <2>. QED  BY <1>1, <1>2, <2>2, <2>3 DEF ViewAwaited, Current
<1>. QED  BY <1>3, <1>4, <1>5, <1>6, <1>7, <1>8 DEF Held

LEMMA ScheduledIs ==
  ASSUME TypeOK, NEW v, queue' = Scheduled(v)
  PROVE  /\ queue'.run = queue.run /\ queue'.active = queue.active /\ queue'.again = queue.again
         /\ queue'.frames = queue.frames
         /\ doc.shown # 0 /\ doc.loading = FALSE /\ v.visible => queue'.timer # 0
<1>1. queue \in Queues  BY DEF TypeOK
<1>. QED  BY <1>1 DEF Scheduled, Queues

LEMMA PrioritisedIs ==
  ASSUME NEW s \in Summaries, NEW c PROVE Prioritised(s, c).of = s.of
BY DEF Prioritised, Summaries

LEMMA ReadingKept ==
  ASSUME Viewed, NEW p \in Page, NEW s \in Scales,
         Turn(p) \/ Retarget(p) \/ Rescale(s) \/ Toggle
  PROVE  Held'
<1>0. TypeOK /\ view \in Views /\ sums \in Summaries  BY DEF Viewed, Held, TypeOK
<1>1. CASE Turn(p)
  <2>1. view'.visible = view.visible  BY <1>0, <1>1 DEF Turn, Views
  <2>2. sums'.of = sums.of  BY <1>0, <1>1, PrioritisedIs DEF Turn
  <2>. QED  BY <1>0, <1>1, <2>1, <2>2, ScheduledIs, ViewChanged DEF Turn
<1>2. CASE Retarget(p)
  <2>1. view'.visible = view.visible  BY <1>0, <1>2 DEF Retarget, Views
  <2>2. CASE Total = 0 \/ p = view.current
    <3>1. view'.current = view.current /\ view'.scale = view.scale
      BY <1>0, <1>2, <2>2 DEF Retarget, Views
    <3>. QED  BY <1>2, <2>1, <2>2, <3>1, ViewChanged DEF Retarget
  <2>3. CASE ~(Total = 0 \/ p = view.current)
    <3>1. sums'.of = sums.of  BY <1>0, <1>2, <2>3, PrioritisedIs DEF Retarget
    <3>. QED  BY <1>0, <1>2, <2>1, <2>3, <3>1, ScheduledIs, ViewChanged DEF Retarget
  <2>. QED  BY <2>2, <2>3
<1>3. CASE Rescale(s)
  <2>1. view'.visible = view.visible  BY <1>0, <1>3 DEF Rescale, Views
  <2>. QED  BY <1>0, <1>3, <2>1, ScheduledIs, ViewChanged DEF Rescale
<1>4. CASE Toggle
  <2>1. view'.current = view.current /\ view'.scale = view.scale  BY <1>0, <1>4 DEF Toggle, Views
  <2>2. CASE view'.visible
    <3>1. queue' = Scheduled(view')  BY <1>4, <2>2 DEF Toggle
    <3>. QED  BY <1>0, <1>4, <2>2, <3>1, ScheduledIs, ViewChanged DEF Toggle
  <2>3. CASE ~view'.visible
    <3>1. UNCHANGED queue  BY <1>4, <2>3 DEF Toggle
    <3>. QED  BY <1>4, <2>1, <2>3, <3>1, ViewChanged DEF Toggle
  <2>. QED  BY <2>2, <2>3
<1>. QED  BY <1>1, <1>2, <1>3, <1>4

(* The marks are looked up on the text layer that is there: while a        *)
(* rendering has its page or paints, there is none.                        *)
LEMMA ReclueKept ==
  ASSUME Viewed, Reclue
  PROVE  Held'
<1>1. /\ LoadOK /\ RunOK /\ ScreenOK /\ ViewAwaited /\ SummaryOK /\ MarksOnPicture /\ OwnPicture
  BY DEF Viewed, Held
<1>2. /\ hist.slips \subseteq hist'.slips
      /\ Wanted(view) = screen.signature /\ screen.canvas # screen.signature => "back" \in hist'.slips
      /\ Straight' => Straight
  BY DEF Reclue, Act, Viewed, Held, TypeOK, Histories, Straight
<1>3. /\ screen'.canvas = screen.canvas /\ screen'.text = screen.text
      /\ screen'.signature = screen.signature
      /\ screen'.marks = IF screen.text = None \/ doc.loading \/ doc.error THEN screen.marks
                         ELSE Marked(screen.text)
  BY DEF Reclue, Viewed, Held, TypeOK, Screens
<1>4. UNCHANGED <<doc, loads, view, queue, runs, sums>>  BY DEF Reclue
<1>5. LoadOK' /\ RunOK'  BY <1>1, <1>4 DEF LoadOK, RunOK, Current, Mounted, RunId
<1>6. Wanted(view)' = Wanted(view)  BY <1>4 DEF Wanted
<1>7. ScreenOK'
  <2>1. \A r \in runs : Current(r) /\ r.step \in {"page", "paint"} => screen'.marks = None
    BY <1>1, <1>3 DEF ScreenOK
  <2>. QED  BY <1>1, <1>2, <1>3, <1>4, <1>6, <2>1 DEF ScreenOK, Current, Mounted, Picture, Straight
<1>8. MarksOnPicture'
  <2>. SUFFICES ASSUME screen'.marks # None, ~doc.error, "reopened" \notin hist'.slips
                PROVE  screen'.marks.token = doc.token /\ screen'.canvas = screen'.marks
    BY <1>4 DEF MarksOnPicture
  <2>1. CASE screen'.marks = screen.marks
    BY <1>1, <1>2, <1>3, <2>1 DEF MarksOnPicture
  <2>2. CASE screen'.marks # screen.marks
    <3>1. screen'.marks = screen.text /\ screen.text.token = doc.token
      BY <1>3, <2>2 DEF Marked
    <3>. QED  BY <1>1, <1>2, <1>3, <3>1 DEF ScreenOK
  <2>. QED  BY <2>1, <2>2
<1>9. OwnPicture' /\ SummaryOK'
  BY <1>1, <1>2, <1>3, <1>4 DEF OwnPicture, SummaryOK, Current
<1>10. ViewAwaited'
  BY <1>1, <1>2, <1>3, <1>4, <1>6 DEF ViewAwaited, Current
<1>. QED  BY <1>5, <1>7, <1>8, <1>9, <1>10 DEF Held

-----------------------------------------------------------------------------
(* Summaries                                                               *)

LEMMA LoopOnIs ==
  ASSUME NEW s \in Summaries, NEW n \in LoopOn(s) PROVE n.of = s.of
BY DEF LoopOn, Summaries

(* The loop lists a page's own text, or none.                              *)
LEMMA SummingKept ==
  ASSUME Viewed, Summing
  PROVE  Held'
<1>1. /\ LoadOK /\ RunOK /\ ScreenOK /\ ViewAwaited /\ SummaryOK /\ MarksOnPicture /\ OwnPicture
      /\ sums \in Summaries /\ hist \in Histories
  BY DEF Viewed, Held, TypeOK
<1>2. UNCHANGED <<doc, loads, view, queue, runs, screen>> /\ hist'.slips = hist.slips
  <2>1. CASE SummaryTimer  BY <2>1 DEF SummaryTimer
  <2>2. CASE SummaryArrives  BY <1>1, <2>2 DEF SummaryArrives, Histories
  <2>. QED  BY <2>1, <2>2 DEF Summing
<1>3. \A p \in Page : sums'.of[p] \in {0, p, sums.of[p]}
  <2>1. CASE SummaryTimer
    <3>1. [sums EXCEPT !.timer = FALSE] \in Summaries /\ [sums EXCEPT !.timer = FALSE].of = sums.of
      BY <1>1 DEF Summaries
    <3>2. sums'.of = sums.of  BY <2>1, <3>1, LoopOnIs DEF SummaryTimer
    <3>. QED  BY <3>2
  <2>2. CASE SummaryArrives
    <3>. PICK ok \in BOOLEAN :
           sums' \in LoopOn(Summarised(sums, sums.busy, IF ok THEN sums.busy ELSE 0))
      BY <2>2 DEF SummaryArrives
    <3> DEFINE n == IF ok THEN sums.busy ELSE 0
    <3>1. sums.busy \in Page /\ n \in 0..NumPages /\ n \in {0, sums.busy}
      BY <2>2, Fields, NoneIs DEF SummaryArrives, Page, Viewed, Held
    <3>. HIDE DEF n
    <3>2. Summarised(sums, sums.busy, n) \in Summaries  BY <1>1, <3>1, SumTypes DEF Viewed, Held
    <3>3. sums' \in LoopOn(Summarised(sums, sums.busy, n))  BY DEF n
    <3>4. sums'.of = Summarised(sums, sums.busy, n).of  BY <3>2, <3>3, LoopOnIs
    <3>5. Summarised(sums, sums.busy, n).of = [sums.of EXCEPT ![sums.busy] = n]
      BY <1>1 DEF Summarised, Summaries
    <3>6. sums.of \in [Page -> 0..NumPages]  BY <1>1 DEF Summaries
    <3>. QED  BY <3>1, <3>4, <3>5, <3>6
  <2>. QED  BY <2>1, <2>2 DEF Summing
<1>4. LoadOK' /\ RunOK'  BY <1>1, <1>2 DEF LoadOK, RunOK, Current, Mounted, RunId
<1>5. Wanted(view)' = Wanted(view) /\ (Straight' <=> Straight)  BY <1>2 DEF Wanted, Straight
<1>6. ScreenOK'
  BY <1>1, <1>2, <1>5 DEF ScreenOK, Current, Mounted, Picture
<1>7. ViewAwaited'  BY <1>1, <1>2, <1>5 DEF ViewAwaited, Current
<1>8. MarksOnPicture' /\ OwnPicture'  BY <1>1, <1>2 DEF MarksOnPicture, OwnPicture
<1>9. SummaryOK'
  <2>1. screen.canvas # None => screen.canvas.page \in Page
    BY Fields DEF Shot, Viewed, Held
  <2>2. \A r \in runs : r.page \in Page  BY <1>1, RunIs DEF Viewed, Held
  <2>. QED  BY <1>1, <1>2, <1>3, <2>1, <2>2 DEF SummaryOK, Current
<1>. QED  BY <1>4, <1>6, <1>7, <1>8, <1>9 DEF Held

-----------------------------------------------------------------------------
(* The queue                                                               *)

(* Where the loads stand after a request, forceRender's included.          *)
LoadsKept(number) ==
  \A u \in 1..Loads : \/ loads'[u] = loads[u]
                      \/ loads[u] = "mounting" /\ loads'[u] = "done" /\ u = number

LEMMA FlushLoads ==
  ASSUME Viewed, NEW number, doc'.token = doc.token, doc'.shown = doc.shown, doc'.loading = doc.loading,
         LoadsKept(number)
  PROVE  /\ LoadOK'
         /\ doc.token > 0 => (Mounted' <=> Mounted)
         /\ doc.token > 0 => (loads'[doc.token] = "cleaning" <=> loads[doc.token] = "cleaning")
<1>. USE DEF LoadsKept
<1>1. LoadOK /\ doc.token \in 0..Loads  BY Fields DEF Viewed, Held
<1>2. doc.token > 0 => doc.token \in 1..Loads  BY <1>1, NoneIs
<1>3. doc.token > 0 => (Mounted' <=> Mounted)  BY <1>2 DEF Mounted
<1>4. /\ \A t \in 1..Loads : loads'[t] = "unused" <=> t > doc.token
      /\ \A t, u \in 1..Loads :
            loads'[t] = "cleaning" /\ u > t => loads'[u] \in {"unused", "cleaning"}
  BY <1>1 DEF LoadOK
<1>5. LoadOK'  BY <1>1, <1>2, <1>4 DEF LoadOK
<1>. QED  BY <1>2, <1>3, <1>5

LEMMA FlushKept ==
  ASSUME Viewed, NEW q, q \in Queues, NEW version, version \in Nat, NEW number, Flush(q, version, number),
         q.run = queue.run, q.active = queue.active, q.again = queue.again,
         number = doc.token \/ (q.timer = queue.timer /\ q.frames = queue.frames),
         UNCHANGED <<view, sums>>,
         LoadsKept(number)
  PROVE  Held'
<1>0. /\ LoadOK /\ RunOK /\ ScreenOK /\ ViewAwaited /\ SummaryOK /\ MarksOnPicture /\ OwnPicture
      /\ sums \in Summaries /\ hist \in Histories /\ screen \in Screens /\ doc \in Docs /\ TypeOK
  BY DEF Viewed, Held, TypeOK
<1>1. doc'.token = doc.token /\ doc'.shown = doc.shown /\ doc'.loading = doc.loading
  BY <1>0 DEF Flush, Docs
<1>2. /\ LoadOK' /\ (doc.token > 0 => (Mounted' <=> Mounted))
      /\ doc.token > 0 => (loads'[doc.token] = "cleaning" <=> loads[doc.token] = "cleaning")
  BY <1>1, FlushLoads
<1>3. Wanted(view)' = Wanted(view)  BY <1>1 DEF Wanted
<1>4. \A r \in runs : doc.token > 0  BY <1>0, RunIs, NoneIs
<1>5. screen.signature # None => doc.token > 0
  <2>. SUFFICES ASSUME screen.signature # None PROVE doc.token > 0  OBVIOUS
  <2>1. screen.signature.token \in 1..Loads  BY <1>0, NoneIs, Fields
  <2>2. screen.signature.token = doc.token  BY <1>0 DEF ScreenOK
  <2>. QED  BY <2>1, <2>2, NoneIs
<1>6. CASE ~MayRender(number)
  <2>1. queue' = q /\ UNCHANGED <<doc, runs, screen, hist>>  BY <1>6 DEF Flush
  <2>2. RunOK'  BY <1>0, <1>2, <1>4, <2>1 DEF RunOK, Current, RunId
  <2>3. ScreenOK'
    BY <1>0, <1>2, <1>3, <1>4, <1>5, <2>1 DEF ScreenOK, Current, Picture, Straight
  <2>4. MarksOnPicture' /\ OwnPicture' /\ SummaryOK'
    BY <1>0, <2>1 DEF MarksOnPicture, OwnPicture, SummaryOK, Current
  <2>5. ViewAwaited'
    <3>. SUFFICES ASSUME Straight, doc.token > 0, doc.shown = doc.token, loads'[doc.token] = "done",
                         view.visible, ~doc.error
                  PROVE  ViewAwaited'
      BY <2>1 DEF ViewAwaited, Straight
    <3>1. doc.token \in 1..Loads  BY <1>0, Fields, NoneIs
    <3>2. loads[doc.token] \in {"done", "mounting"}  BY <3>1 DEF LoadsKept
    <3>3. doc.loading = FALSE  BY <1>0, <3>2, Fields DEF LoadOK
    <3>4. number # doc.token  BY <1>6, <3>1, <3>3, NoneIs DEF MayRender
    <3>5. loads[doc.token] = "done" /\ q.timer = queue.timer /\ q.frames = queue.frames
      BY <3>1, <3>4 DEF LoadsKept
    <3>. QED  BY <1>0, <1>3, <2>1, <3>5 DEF ViewAwaited, Current
  <2>. QED  BY <1>2, <2>2, <2>3, <2>4, <2>5 DEF Held
<1>7. ASSUME MayRender(number)
      PROVE  /\ Mounted /\ doc.token \in 1..Loads /\ number = doc.token /\ doc.token > 0 /\ Mounted'
             /\ \A r \in runs : Current(r)
  <2>1. doc.shown # 0 /\ doc.loading = FALSE /\ number = doc.token  BY <1>7, Fields DEF MayRender, Viewed, Held
  <2>2. doc.token \in 1..Loads
    <3>1. doc.shown \in 0..Loads /\ doc.shown <= doc.token /\ doc.token \in 0..Loads
      BY <1>0, Fields DEF LoadOK
    <3>. QED  BY <2>1, <3>1, NoneIs
  <2>3. doc.token > 0  BY <2>2, NoneIs
  <2>4. loads[doc.token] \in Stages /\ loads[doc.token] # "unused"
    <3>1. ~(doc.token > doc.token)  BY <2>2, NoneIs
    <3>. QED  BY <1>0, <2>2, <3>1 DEF LoadOK, TypeOK
  <2>5. Mounted  BY <1>0, <2>1, <2>3, <2>4 DEF LoadOK, Mounted, Stages
  <2>6. \A r \in runs : Current(r)  BY <2>5, Old
  <2>. QED  BY <1>2, <2>1, <2>2, <2>3, <2>5, <2>6
<1>8. CASE MayRender(number) /\ q.run # NoRun
  <2>1. queue' = [q EXCEPT !.again = TRUE] /\ runs' = Cancelled(runs) /\ UNCHANGED <<doc, screen, hist>>
    BY <1>8 DEF Flush
  <2>2. /\ queue'.run = queue.run /\ queue'.active = queue.active /\ queue'.again = TRUE
    BY <2>1 DEF Queues
  <2>3. PICK r \in runs : runs = {r} /\ Current(r) /\ queue.run = RunId(r) /\ queue.active = r.version
                         /\ (r.step # "ended" => ~doc.error) /\ r \in Runs
    BY <1>0, <1>8, Alone DEF RunOK, TypeOK
  <2> DEFINE e == IF r.step \in {"paint", "layer"} THEN [r EXCEPT !.step = "ended"] ELSE r
  <2>4. runs' = {e}  BY <2>1, <2>3 DEF Cancelled
  <2>5. /\ e.token = r.token /\ e.version = r.version /\ e.page = r.page /\ e.sign = r.sign
        /\ e.step \in {r.step, "ended"}
    BY <2>3 DEF Runs
  <2>. HIDE DEF e
  <2>6. RunOK'
    <3>1. e.token = doc.token /\ RunId(e) = RunId(r)  BY <2>3, <2>5 DEF Current, RunId
    <3>2. e.step # "ended" => e.step = r.step  BY <2>5
    <3>3. r.step \in {"paint", "text", "layer"} => r.sign.token = r.token  BY <1>0, <2>3 DEF RunOK
    <3>4. queue'.run # NoRun  BY <1>8, <2>2
    <3>5. e.token <= doc.token  BY <1>7, <1>8, <3>1, NoneIs
    <3>. QED
      BY <1>7, <1>8, <2>1, <2>2, <2>3, <2>4, <2>5, <3>1, <3>2, <3>3, <3>4, <3>5 DEF RunOK, Current
  <2>7. Picture(e) = Picture(r)  BY <2>5 DEF Picture
  <2>8. ScreenOK'
    <3>1. /\ r.step \in {"page", "paint"} => screen.text = None /\ screen.marks = None
          /\ r.step = "paint" => screen.canvas = None
          /\ r.step \in {"text", "layer"} => screen.canvas = Picture(r)
          /\ r.step = "layer" => screen.text = Picture(r)
          /\ r.step \in {"paint", "text", "layer"} =>
                /\ r.sign # screen.signature
                /\ "crossed" \notin hist.slips => r.sign.page = r.page
      BY <1>0, <2>3 DEF ScreenOK
    <3>2. e.step # "ended" => e.step = r.step  BY <2>5
    <3>. QED
      BY <1>0, <1>3, <1>7, <1>8, <2>1, <2>4, <2>5, <2>7, <3>1, <3>2 DEF ScreenOK, Straight
  <2>9. MarksOnPicture' /\ OwnPicture'  BY <1>0, <2>1 DEF MarksOnPicture, OwnPicture
  <2>10. SummaryOK'  BY <1>0, <2>1, <2>3, <2>4, <2>5 DEF SummaryOK, Current
  <2>11. ViewAwaited'  BY <2>2 DEF ViewAwaited
  <2>. QED  BY <1>2, <2>6, <2>8, <2>9, <2>10, <2>11 DEF Held
<1>9. CASE MayRender(number) /\ q.run = NoRun
  <2>1. runs = {} /\ queue.again = FALSE  BY <1>7, <1>9, NoneCurrent
  <2>2. PICK step \in {"page", "ended"} :
          /\ queue' = [q EXCEPT !.active = version, !.run = <<number, version>>]
          /\ runs' = runs \cup {[token |-> number, version |-> version, page |-> view.current,
                                sign |-> None, step |-> step]}
          /\ \/ /\ step = "ended" /\ doc.error /\ doc' = [doc EXCEPT !.error = FALSE]
                /\ screen' = [screen EXCEPT !.rendering = TRUE] /\ Slip({"reopened"})
             \/ /\ step = "page" /\ ~doc.error /\ UNCHANGED <<doc, hist>>
                /\ screen' = [screen EXCEPT !.rendering = TRUE, !.marks = None, !.text = None]
    BY <1>9 DEF Flush
  <2> DEFINE r == [token |-> number, version |-> version, page |-> view.current,
                   sign |-> None, step |-> step]
  <2>3. runs' = {r}  BY <2>1, <2>2
  <2>4. r.token = doc.token /\ r.version = version /\ r.page = view.current /\ r.step = step
        /\ RunId(r) = <<number, version>>
    BY <1>7, <1>9 DEF RunId
  <2>5. queue'.active = version /\ queue'.run = <<number, version>> /\ queue'.again = queue.again
    BY <2>2 DEF Queues
  <2>6. doc'.error = FALSE  BY <1>0, <2>2, Fields DEF Docs
  <2>7. screen'.canvas = screen.canvas /\ screen'.signature = screen.signature
    BY <1>0, <2>2 DEF Screens
  <2>8. step = "page" => screen'.marks = None /\ screen'.text = None  BY <1>0, <2>2 DEF Screens
  <2>9. step = "ended" => /\ "reopened" \in hist'.slips
                          /\ screen'.marks = screen.marks /\ screen'.text = screen.text
    BY <1>0, <2>2 DEF Screens, Slip, Histories
  <2>10. step = "page" => hist'.slips = hist.slips /\ ~doc.error  BY <2>2
  <2>. HIDE DEF r
  <2>11. <<number, version>> # NoRun  BY <1>7, <1>9, NoneIs DEF NoRun
  <2>12. RunOK'
    BY <1>1, <1>7, <1>9, <2>1, <2>2, <2>3, <2>4, <2>5, <2>6, <2>11, NoneIs DEF RunOK, Current
  <2>13. Straight' => step = "page" /\ Straight  BY <2>2, <2>9, <2>10 DEF Straight
  <2>14. ScreenOK'
    <3>1. None.token # doc.token  BY <1>7, <1>9, NoneIs
    <3>. QED
      BY <1>0, <1>1, <1>3, <1>7, <1>9, <2>2, <2>3, <2>4, <2>6, <2>7, <2>8, <2>9, <2>10, <2>13, <3>1
      DEF ScreenOK, Current
  <2>15. MarksOnPicture' /\ OwnPicture'
    BY <1>0, <1>1, <2>2, <2>6, <2>7, <2>8, <2>9, <2>10 DEF MarksOnPicture, OwnPicture
  <2>16. SummaryOK'
    BY <1>0, <2>2, <2>3, <2>4, <2>7, <2>9, <2>10 DEF SummaryOK, Current
  <2>17. ViewAwaited'
    BY <1>1, <2>2, <2>3, <2>4, <2>13 DEF ViewAwaited, Current
  <2>. QED  BY <1>2, <2>12, <2>14, <2>15, <2>16, <2>17 DEF Held
<1>. QED  BY <1>6, <1>8, <1>9

LEMMA RequestsKept ==
  ASSUME Viewed, RenderTimer \/ Frame \/ \E t \in 1..Loads : ForceRender(t)
  PROVE  Held'
<1>0. queue \in Queues /\ loads \in [1..Loads -> Stages]  BY DEF Viewed, Held, TypeOK
<1>1. CASE RenderTimer
  <2>1. PICK q \in Queues : /\ q = [queue EXCEPT !.timer = 0]
                            /\ q.run = queue.run /\ q.active = queue.active /\ q.again = queue.again
    <3>1. [queue EXCEPT !.timer = 0] \in Queues  BY <1>0, QueueTypes
    <3>. QED  BY <1>0, <3>1 DEF Queues
  <2>2. Flush(q, queue.timer, doc.token) /\ UNCHANGED <<loads, view, sums>>  BY <1>1, <2>1 DEF RenderTimer
  <2>3. queue.timer \in Nat  BY Fields DEF Viewed, Held
  <2>4. LoadsKept(doc.token)  BY <2>2 DEF LoadsKept
  <2>5. UNCHANGED <<view, sums>>  BY <2>2
  <2>. QED  BY <2>1, <2>2, <2>3, <2>4, <2>5, FlushKept
<1>2. CASE Frame
  <2>0. queue.frames - 1 \in Nat /\ queue.queued \in Nat  BY <1>2, Fields DEF Frame, Viewed, Held
  <2>1. PICK q \in Queues : /\ q = [queue EXCEPT !.frames = @ - 1]
                            /\ q.run = queue.run /\ q.active = queue.active /\ q.again = queue.again
    <3>1. [queue EXCEPT !.frames = @ - 1] \in Queues  BY <1>0, <2>0, QueueTypes
    <3>. QED  BY <1>0, <3>1 DEF Queues
  <2>2. Flush(q, queue.queued, doc.token) /\ UNCHANGED <<loads, view, sums>>  BY <1>2, <2>1 DEF Frame
  <2>3. LoadsKept(doc.token)  BY <2>2 DEF LoadsKept
  <2>4. UNCHANGED <<view, sums>>  BY <2>2
  <2>. QED  BY <2>0, <2>1, <2>2, <2>3, <2>4, FlushKept
<1>3. ASSUME NEW t \in 1..Loads, ForceRender(t)
      PROVE  Held'
  <2>0. PICK n \in Nat : n = queue.queued + 1  BY Fields DEF Viewed, Held
  <2>1. PICK q \in Queues : /\ q = [queue EXCEPT !.queued = @ + 1]
                            /\ q.run = queue.run /\ q.active = queue.active /\ q.again = queue.again
                            /\ q.timer = queue.timer /\ q.frames = queue.frames
    <3>1. [queue EXCEPT !.queued = @ + 1] \in Queues  BY <1>0, <2>0, QueueTypes
    <3>. QED  BY <1>0, <3>1 DEF Queues
  <2>2. Flush(q, n, t) /\ UNCHANGED <<view, sums>>  BY <1>3, <2>0, <2>1 DEF ForceRender
  <2>3. LoadsKept(t)  BY <1>0, <1>3 DEF ForceRender, LoadsKept
  <2>4. UNCHANGED <<view, sums>>  BY <2>2
  <2>5. t = doc.token \/ (q.timer = queue.timer /\ q.frames = queue.frames)  BY <2>1
  <2>. QED  BY <2>0, <2>1, <2>2, <2>3, <2>4, <2>5, FlushKept
<1>. QED  BY <1>1, <1>2, <1>3

-----------------------------------------------------------------------------
(* A rendering                                                             *)

(* A rendering of a replaced document ends without leaving anything.       *)
LEMMA OldKept ==
  ASSUME Viewed, NEW r \in runs, ~Current(r), UNCHANGED <<doc, loads, view>>,
         queue'.run = NoRun, queue'.again = FALSE,
         \A q \in runs' : /\ \E o \in runs : q.token = o.token
                          /\ q.step # "paint"
                          /\ q.step \in {"text", "layer"} => q.sign.token = q.token,
         screen'.canvas = screen.canvas, screen'.marks = screen.marks,
         screen'.signature = screen.signature,
         screen'.text.token = doc.token => screen'.text = screen.text,
         hist.slips \subseteq hist'.slips
  PROVE  Held'
<1>1. LoadOK /\ RunOK /\ ScreenOK /\ ViewAwaited /\ SummaryOK /\ MarksOnPicture /\ OwnPicture
  BY DEF Viewed, Held
<1>2. /\ loads[doc.token] = "cleaning" /\ ~Mounted /\ screen.signature = None
      /\ \A q \in runs : ~Current(q)
  BY Old, NoneCurrent
<1>3. \A q \in runs' : q.token <= doc.token /\ q.token # doc.token
  BY <1>1, <1>2 DEF RunOK, Current
<1>4. LoadOK'  BY <1>1 DEF LoadOK
<1>5. RunOK'  BY <1>2, <1>3 DEF RunOK, Current
<1>6. Wanted(view)' = Wanted(view) /\ (Straight' => Straight)  BY DEF Wanted, Straight
<1>7. ScreenOK'
  BY <1>1, <1>2, <1>3, <1>6 DEF ScreenOK, Current
<1>8. ViewAwaited'  BY <1>2 DEF ViewAwaited
<1>9. SummaryOK'  BY <1>2, <1>3 DEF SummaryOK, Current
<1>10. MarksOnPicture' /\ OwnPicture'  BY <1>1 DEF MarksOnPicture, OwnPicture
<1>. QED  BY <1>4, <1>5, <1>7, <1>8, <1>9, <1>10 DEF Held

(* A step of a rendering that leaves the others and its own names.         *)
LEMMA Stepped ==
  ASSUME Viewed, NEW r \in runs, NEW step, Step(r, step), step # "paint",
         step \in {"text", "layer"} => r.step \in {"paint", "text"}
  PROVE  \A q \in runs' : /\ \E o \in runs : q.token = o.token
                          /\ ~Current(r) => q.step # "paint"
                          /\ ~Current(r) /\ q.step \in {"text", "layer"} => q.sign.token = q.token
<1>1. RunOK /\ runs \subseteq Runs  BY DEF Viewed, Held, TypeOK
<1>2. PICK e : e = [r EXCEPT !.step = step]  OBVIOUS
<1>3. e.token = r.token /\ e.sign = r.sign /\ e.step = step  BY <1>1, <1>2 DEF Runs
<1>4. ASSUME NEW q \in runs'
      PROVE  /\ \E o \in runs : q.token = o.token
             /\ ~Current(r) => q.step # "paint"
             /\ ~Current(r) /\ q.step \in {"text", "layer"} => q.sign.token = q.token
  <2>1. q \in runs \/ q = e  BY <1>2, <1>4 DEF Step
  <2>2. CASE q \in runs
    <3>1. ~Current(r) => ~Mounted  BY Old
    <3>2. ~Current(r) => ~Current(q)  BY <2>2, <3>1, Alone
    <3>. QED  BY <1>1, <2>2, <3>2 DEF RunOK
  <2>3. CASE q = e  BY <1>1, <1>3, <2>3 DEF RunOK
  <2>. QED  BY <2>1, <2>2, <2>3
<1>. QED  BY <1>4

LEMMA OldRunKept ==
  ASSUME Viewed, NEW r \in runs, ~Current(r),
         Paint(r) \/ Painted(r) \/ TextArrives(r) \/ Layered(r) \/ Finish(r) \/ RunFails(r)
  PROVE  Held'
<1>1. r.token # doc.token /\ r.step # "paint" /\ ~Mounted  BY Old DEF Current
<1>2. queue.run = NoRun /\ queue.again = FALSE  BY <1>1, NoneCurrent
<1>3. screen \in Screens /\ hist \in Histories /\ queue \in Queues /\ RunOK
  BY DEF Viewed, Held, TypeOK
<1>4. CASE Paint(r)
  <2>1. Step(r, "ended") /\ UNCHANGED <<doc, loads, view, queue, sums, screen, hist>>
    BY <1>1, <1>4 DEF Paint
  <2>. QED  BY <1>2, <2>1, Stepped, OldKept
<1>5. CASE Painted(r)  BY <1>1, <1>5 DEF Painted
<1>6. CASE TextArrives(r)
  <2>1. r.step = "text" /\ Step(r, "layer") /\ UNCHANGED <<doc, loads, view, queue>>
    BY <1>6 DEF TextArrives
  <2>2. Picture(r).token = r.token  BY <1>3, <2>1, RunIs DEF RunOK, Viewed, Held
  <2>3. /\ screen'.canvas = screen.canvas /\ screen'.marks = screen.marks
        /\ screen'.signature = screen.signature /\ screen'.text = Picture(r)
    BY <1>3, <1>6 DEF TextArrives, Screens
  <2>4. hist.slips \subseteq hist'.slips  BY <1>3, <1>6 DEF TextArrives, Slip, Histories
  <2>. QED  BY <1>1, <1>2, <2>1, <2>2, <2>3, <2>4, Stepped, OldKept
<1>7. CASE Layered(r)
  <2>1. Step(r, "ended") /\ UNCHANGED <<doc, loads, view, queue, sums, screen, hist>>
    BY <1>1, <1>7 DEF Layered
  <2>. QED  BY <1>2, <2>1, Stepped, OldKept
<1>8. CASE Finish(r)
  <2>1. runs' = runs \ {r} /\ UNCHANGED <<doc, loads, view, sums, hist>> /\ screen' = screen
    BY <1>1, <1>8 DEF Finish
  <2>2. queue'.run = NoRun /\ queue'.again = FALSE  BY <1>2, <1>3, <1>8 DEF Finish, Queues
  <2>3. \A q \in runs' : ~Current(q)  BY <1>1, <2>1, NoneCurrent
  <2>. QED  BY <1>3, <2>1, <2>2, <2>3, OldKept DEF RunOK
<1>9. CASE RunFails(r)
  <2>1. Step(r, "ended") /\ UNCHANGED <<doc, loads, view, queue, sums, screen, hist>>
    BY <1>1, <1>9 DEF RunFails
  <2>. QED  BY <1>2, <2>1, Stepped, OldKept
<1>. QED  BY <1>4, <1>5, <1>6, <1>7, <1>8, <1>9

(* The one rendering there is after a step of it.                          *)
LEMMA OneRun ==
  ASSUME Viewed, NEW r \in runs, Current(r), NEW e \in Runs, runs' = {e}, e.token = r.token,
         e.version = r.version, queue' = queue, UNCHANGED <<loads, view>>,
         doc'.token = doc.token, doc'.shown = doc.shown, doc'.loading = doc.loading,
         e.step # "ended" => doc'.error = doc.error /\ r.step # "ended",
         e.step \in {"paint", "text", "layer"} => e.sign.token = e.token
  PROVE  /\ LoadOK' /\ RunOK' /\ (Mounted' <=> Mounted)
         /\ Wanted(view)' = Wanted(view) /\ Current(e)' /\ Current(e)
<1>1. /\ LoadOK /\ RunOK /\ runs = {r} /\ Mounted /\ queue.run = RunId(r)
      /\ queue.active = r.version /\ doc.token \in 1..Loads
      /\ r.step # "ended" => ~doc.error
  BY Alone DEF Viewed, Held
<1>2. LoadOK'  BY <1>1 DEF LoadOK
<1>3. Mounted' /\ Mounted  BY <1>1 DEF Mounted
<1>4. Current(e)' /\ Current(e) /\ RunId(e) = RunId(r)  BY DEF Current, RunId
<1>5. e.token <= doc.token  BY <1>1, <1>4, NoneIs DEF Current
<1>6. RunOK'
  BY <1>1, <1>3, <1>4, <1>5 DEF RunOK, Current, RunId
<1>7. Wanted(view)' = Wanted(view)  BY DEF Wanted
<1>. QED  BY <1>2, <1>3, <1>4, <1>6, <1>7

LEMMA PaintKept ==
  ASSUME Viewed, NEW r \in runs, Current(r), Paint(r)
  PROVE  Held'
<1>1. /\ LoadOK /\ RunOK /\ ScreenOK /\ ViewAwaited /\ SummaryOK /\ MarksOnPicture /\ OwnPicture
      /\ screen \in Screens /\ hist \in Histories /\ r \in Runs /\ runs = {r} /\ TypeOK
  BY Alone DEF Viewed, Held, TypeOK
<1>2. /\ r.token = doc.token /\ r.step = "page" /\ UNCHANGED <<doc, loads, view, queue, sums>>
      /\ screen.text = None /\ screen.marks = None /\ doc.token \in 1..Loads /\ Mounted
  BY <1>1, Alone DEF Paint, Current, ScreenOK
<1>3. view.current \in Page /\ view.scale \in Scales /\ None.token # doc.token
      /\ Wanted(view) \in Shot /\ Wanted(view) # None
      /\ Wanted(view).token = doc.token /\ Wanted(view).page = view.current
  BY <1>1, <1>2, Fields, NoneIs DEF Wanted
<1>4. CASE screen.signature = Wanted(view)
  <2>1. /\ Step(r, "ended") /\ hist' = hist
        /\ screen' = [screen EXCEPT !.marks = Marked(screen.text)]
    BY <1>2, <1>4 DEF Paint, Wanted
  <2>2. PICK e \in Runs : /\ e = [r EXCEPT !.step = "ended"] /\ runs' = {e}
                          /\ e.token = r.token /\ e.version = r.version /\ e.step = "ended"
    <3>1. [r EXCEPT !.step = "ended"] \in Runs  BY <1>1 DEF Runs, Steps
    <3>. QED  BY <1>1, <2>1, <3>1 DEF Step, Runs
  <2>3. screen' = screen  BY <1>1, <1>2, <2>1 DEF Marked, Screens
  <2>4. LoadOK' /\ RunOK' /\ (Mounted' <=> Mounted) /\ Wanted(view)' = Wanted(view)
    BY <1>2, <2>2, OneRun
  <2>5. ScreenOK'
    BY <1>1, <1>2, <2>1, <2>2, <2>3, <2>4 DEF ScreenOK, Straight
  <2>6. ViewAwaited'  BY <1>4, <2>3, <2>4 DEF ViewAwaited
  <2>7. SummaryOK' /\ MarksOnPicture' /\ OwnPicture'
    BY <1>1, <1>2, <2>1, <2>2, <2>3 DEF SummaryOK, MarksOnPicture, OwnPicture
  <2>. QED  BY <2>4, <2>5, <2>6, <2>7 DEF Held
<1>5. CASE screen.signature # Wanted(view)
  <2>1. /\ runs' = (runs \ {r}) \cup {[r EXCEPT !.step = "paint", !.sign = Wanted(view)]}
        /\ screen' = [screen EXCEPT !.canvas = None]
        /\ Slip(IF r.page # view.current THEN {"crossed"} ELSE {})
    BY <1>2, <1>5 DEF Paint, Wanted
  <2>2. PICK e \in Runs : /\ e = [r EXCEPT !.step = "paint", !.sign = Wanted(view)] /\ runs' = {e}
                          /\ e.token = r.token /\ e.version = r.version /\ e.step = "paint"
                          /\ e.sign = Wanted(view) /\ e.page = r.page
    <3>1. [r EXCEPT !.step = "paint", !.sign = Wanted(view)] \in Runs  BY <1>1, <1>3 DEF Runs, Steps
    <3>. QED  BY <1>1, <2>1, <3>1 DEF Runs
  <2>3. /\ screen'.canvas = None /\ screen'.text = None /\ screen'.marks = None
        /\ screen'.signature = screen.signature
    BY <1>1, <1>2, <2>1 DEF Screens
  <2>4. /\ LoadOK' /\ RunOK' /\ (Mounted' <=> Mounted) /\ Wanted(view)' = Wanted(view)
        /\ Current(e)' /\ Current(e)
    <3>1. /\ queue' = queue /\ UNCHANGED <<loads, view>> /\ doc' = doc
          /\ r.step # "ended" /\ e.sign.token = e.token
      BY <1>2, <1>3, <2>2
    <3>. QED  BY <2>2, <3>1, OneRun
  <2>5. r.page # view.current => "crossed" \in hist'.slips
    BY <1>1, <2>1 DEF Slip, Histories
  <2>6. ScreenOK'
    BY <1>1, <1>2, <1>3, <1>5, <2>2, <2>3, <2>4, <2>5 DEF ScreenOK
  <2>7. ViewAwaited'  BY <2>2, <2>4 DEF ViewAwaited
  <2>8. SummaryOK' /\ MarksOnPicture' /\ OwnPicture'
    BY <2>2, <2>3 DEF SummaryOK, MarksOnPicture, OwnPicture
  <2>. QED  BY <2>4, <2>6, <2>7, <2>8 DEF Held
<1>. QED  BY <1>4, <1>5

LEMMA PaintedKept ==
  ASSUME Viewed, NEW r \in runs, Current(r), Painted(r)
  PROVE  Held'
<1>1. /\ LoadOK /\ RunOK /\ ScreenOK /\ ViewAwaited /\ SummaryOK /\ MarksOnPicture /\ OwnPicture
      /\ screen \in Screens /\ hist \in Histories /\ r \in Runs /\ runs = {r} /\ TypeOK
  BY Alone DEF Viewed, Held, TypeOK
<1>2. /\ r.token = doc.token /\ r.step = "paint" /\ UNCHANGED <<doc, loads, view, queue, sums, hist>>
      /\ queue.active = r.version /\ doc.token \in 1..Loads /\ Mounted
      /\ screen.canvas = None /\ screen.text = None /\ screen.marks = None
      /\ r.sign # screen.signature /\ r.sign.token = doc.token
      /\ "crossed" \notin hist.slips => r.sign.page = r.page
  BY <1>1, Alone DEF Painted, Current, ScreenOK, RunOK
<1>3. Step(r, "text")  BY <1>2 DEF Painted
<1>4. PICK e \in Runs : /\ runs' = {e} /\ e.token = r.token /\ e.version = r.version
                        /\ e.step = "text" /\ e.page = r.page /\ e.sign = r.sign
  <2>1. [r EXCEPT !.step = "text"] \in Runs  BY <1>1 DEF Runs, Steps
  <2>. QED  BY <1>1, <1>3, <2>1 DEF Step, Runs
<1>5. /\ screen'.canvas = Picture(r) /\ screen'.text = None /\ screen'.marks = None
      /\ screen'.signature = screen.signature
  BY <1>1, <1>2 DEF Painted, Screens
<1>6. /\ LoadOK' /\ RunOK' /\ (Mounted' <=> Mounted) /\ Wanted(view)' = Wanted(view)
      /\ Current(e)' /\ Current(e)
  BY <1>2, <1>4, OneRun
<1>7. /\ Picture(e) = Picture(r) /\ Picture(r).token = doc.token
      /\ r.sign.page = r.page => Picture(r) = r.sign
  <2>1. r.sign.page = r.page => Picture(r) = r.sign  BY <1>1 DEF Picture, Runs, Shot, None
  <2>. QED  BY <1>1, <1>2, <1>4, <2>1, RunIs DEF Picture
<1>8. Wanted(view) # None /\ None.token # doc.token
  BY <1>1, <1>2, Fields, NoneIs DEF Wanted
<1>9. ScreenOK'
  BY <1>1, <1>2, <1>4, <1>5, <1>6, <1>7, <1>8 DEF ScreenOK, Straight
<1>10. ViewAwaited'  BY <1>1, <1>2, <1>4, <1>5, <1>6 DEF ViewAwaited, Straight
<1>11. SummaryOK'  BY <1>2, <1>4, <1>5, <1>7 DEF SummaryOK
<1>12. MarksOnPicture' /\ OwnPicture'  BY <1>2, <1>5, <1>7 DEF MarksOnPicture, OwnPicture
<1>. QED  BY <1>6, <1>9, <1>10, <1>11, <1>12 DEF Held

(* The text of the page comes to lie on its picture; its summary is the    *)
(* page's own, or the text was filed under the page turned to meanwhile.   *)
LEMMA TextKept ==
  ASSUME Viewed, NEW r \in runs, Current(r), TextArrives(r)
  PROVE  Held'
<1>1. /\ LoadOK /\ RunOK /\ ScreenOK /\ ViewAwaited /\ SummaryOK /\ MarksOnPicture /\ OwnPicture
      /\ screen \in Screens /\ hist \in Histories /\ sums \in Summaries /\ r \in Runs /\ runs = {r}
      /\ TypeOK
  BY Alone DEF Viewed, Held, TypeOK
<1>2. /\ r.token = doc.token /\ r.step = "text" /\ UNCHANGED <<doc, loads, view, queue>>
      /\ doc.token \in 1..Loads /\ Mounted /\ screen.canvas = Picture(r)
      /\ r.sign # screen.signature /\ r.sign.token = doc.token
      /\ "crossed" \notin hist.slips => r.sign.page = r.page
  BY <1>1, Alone DEF TextArrives, Current, ScreenOK, RunOK
<1>3. Step(r, "layer")  BY DEF TextArrives
<1>4. PICK e \in Runs : /\ runs' = {e} /\ e.token = r.token /\ e.version = r.version
                        /\ e.step = "layer" /\ e.page = r.page /\ e.sign = r.sign
  <2>1. [r EXCEPT !.step = "layer"] \in Runs  BY <1>1 DEF Runs, Steps
  <2>. QED  BY <1>1, <1>3, <2>1 DEF Step, Runs
<1>5. /\ screen'.canvas = screen.canvas /\ screen'.text = Picture(r) /\ screen'.marks = screen.marks
      /\ screen'.signature = screen.signature
  BY <1>1 DEF TextArrives, Screens
<1>6. /\ LoadOK' /\ RunOK' /\ (Mounted' <=> Mounted) /\ Wanted(view)' = Wanted(view)
      /\ Current(e)' /\ Current(e)
  BY <1>2, <1>4, OneRun
<1>7. /\ Picture(e) = Picture(r)
      /\ r.sign.page = r.page => Picture(r) = r.sign
  BY <1>1, <1>4 DEF Picture, Runs, Shot, None
<1>8. /\ hist'.slips = hist.slips \cup (IF r.page # view.current /\ sums.of[r.page] \notin {0, r.page}
                                       THEN {"misfiled"} ELSE {})
      /\ Straight' => Straight
  <2>1. hist'.slips = hist.slips \cup (IF r.page # view.current /\ sums.of[r.page] \notin {0, r.page}
                                      THEN {"misfiled"} ELSE {})
    BY <1>1 DEF TextArrives, Slip, Histories
  <2>. QED  BY <2>1 DEF Straight
<1>9. ScreenOK'
  BY <1>1, <1>2, <1>4, <1>5, <1>6, <1>7, <1>8 DEF ScreenOK
<1>10. ViewAwaited'  BY <1>1, <1>2, <1>4, <1>5, <1>6, <1>8 DEF ViewAwaited
<1>11. SummaryOK'
  <2>. SUFFICES ASSUME hist'.slips = {}
                PROVE  /\ screen'.canvas # screen'.signature
                       /\ sums'.of[r.page] \in {0, r.page}
    BY <1>4 DEF SummaryOK
  <2>1. hist.slips = {} /\ (r.page = view.current \/ sums.of[r.page] \in {0, r.page})  BY <1>8
  <2>2. screen'.canvas # screen'.signature  BY <1>2, <1>5, <1>7, <2>1
  <2>3. sums'.of = [sums.of EXCEPT ![view.current] = r.page]
    BY <1>1 DEF TextArrives, Summarised, Summaries
  <2>4. sums.of \in [Page -> 0..NumPages] /\ r.page \in Page /\ view.current \in Page
    BY <1>1, Fields DEF Runs
  <2>. QED  BY <2>1, <2>2, <2>3, <2>4
<1>12. MarksOnPicture' /\ OwnPicture'  BY <1>1, <1>2, <1>5, <1>8 DEF MarksOnPicture, OwnPicture
<1>. QED  BY <1>6, <1>9, <1>10, <1>11, <1>12 DEF Held

(* The rendering is complete: its view becomes the signature.              *)
LEMMA LayeredKept ==
  ASSUME Viewed, NEW r \in runs, Current(r), Layered(r)
  PROVE  Held'
<1>1. /\ LoadOK /\ RunOK /\ ScreenOK /\ ViewAwaited /\ SummaryOK /\ MarksOnPicture /\ OwnPicture
      /\ screen \in Screens /\ hist \in Histories /\ r \in Runs /\ runs = {r}
      /\ TypeOK
  BY Alone DEF Viewed, Held, TypeOK
<1>2. /\ r.token = doc.token /\ r.step = "layer"
      /\ UNCHANGED <<doc, loads, view, queue, sums, hist>>
      /\ doc.token \in 1..Loads /\ Mounted /\ screen.canvas = Picture(r) /\ screen.text = Picture(r)
      /\ r.sign # screen.signature /\ r.sign.token = doc.token /\ queue.active = r.version
      /\ "crossed" \notin hist.slips => r.sign.page = r.page
  BY <1>1, Alone DEF Layered, Current, ScreenOK, RunOK
<1>3. Step(r, "ended")  BY DEF Layered
<1>4. PICK e \in Runs : /\ runs' = {e} /\ e.token = r.token /\ e.version = r.version
                        /\ e.step = "ended" /\ e.page = r.page /\ e.sign = r.sign
  <2>1. [r EXCEPT !.step = "ended"] \in Runs  BY <1>1 DEF Runs, Steps
  <2>. QED  BY <1>1, <1>3, <2>1 DEF Step, Runs
<1>5. /\ screen'.canvas = screen.canvas /\ screen'.text = screen.text
      /\ screen'.marks = Marked(screen.text) /\ screen'.signature = r.sign
  BY <1>1, <1>2 DEF Layered, Screens
<1>6. /\ LoadOK' /\ RunOK' /\ (Mounted' <=> Mounted) /\ Wanted(view)' = Wanted(view)
      /\ Current(e)' /\ Current(e)
  BY <1>2, <1>4, OneRun
<1>7. r.sign.page = r.page => Picture(r) = r.sign
  BY <1>1 DEF Picture, Runs, Shot, None
<1>8. ScreenOK'
  <2>1. Straight => screen.canvas = r.sign  BY <1>2, <1>7 DEF Straight
  <2>. QED  BY <1>1, <1>2, <1>4, <1>5, <1>6, <2>1 DEF ScreenOK, Straight
<1>9. ViewAwaited'
  <2>. SUFFICES ASSUME Straight, doc.shown = doc.token, loads[doc.token] = "done", view.visible, ~doc.error,
                       doc.token > 0, queue.timer = 0, ~(queue.frames > 0), ~queue.again
                PROVE  r.sign = Wanted(view)
    BY <1>2, <1>5, <1>6 DEF ViewAwaited, Straight
  <2>1. screen.signature # Wanted(view)
    BY <1>1, <1>2, <1>7 DEF ScreenOK, Straight
  <2>. QED  BY <1>1, <1>2, <2>1 DEF ViewAwaited
<1>10. SummaryOK'
  <2>1. Picture(r).page = r.page  BY <1>1, RunIs
  <2>. QED  BY <1>1, <1>2, <1>4, <1>5, <2>1 DEF SummaryOK, Current
<1>11. MarksOnPicture' /\ OwnPicture'
  BY <1>1, <1>2, <1>5 DEF MarksOnPicture, OwnPicture, Marked
<1>. QED  BY <1>6, <1>8, <1>9, <1>10, <1>11 DEF Held

(* A rendering that has ended is followed by another round, if the queue   *)
(* asks for one.                                                           *)
LEMMA FinishKept ==
  ASSUME Viewed, NEW r \in runs, Current(r), Finish(r)
  PROVE  Held'
<1>1. /\ LoadOK /\ RunOK /\ ScreenOK /\ ViewAwaited /\ SummaryOK /\ MarksOnPicture /\ OwnPicture
      /\ screen \in Screens /\ queue \in Queues /\ runs = {r} /\ queue.run = RunId(r)
      /\ doc.shown # 0 /\ doc.loading = FALSE
  BY Alone DEF Viewed, Held, TypeOK
<1>2. r.step = "ended" /\ runs' = {} /\ UNCHANGED <<doc, loads, view, sums, hist>>
  BY <1>1 DEF Finish
<1>3. /\ queue'.run = NoRun /\ queue'.again = FALSE /\ queue'.timer = queue.timer
      /\ queue.frames \in Nat
      /\ queue'.frames \in {queue.frames, queue.frames + 1}
      /\ queue.again => queue'.frames = queue.frames + 1
  BY <1>1 DEF Finish, Queues
<1>4. /\ screen'.canvas = screen.canvas /\ screen'.text = screen.text
      /\ screen'.marks = screen.marks /\ screen'.signature = screen.signature
  BY <1>1 DEF Finish, Screens
<1>5. Wanted(view)' = Wanted(view) /\ (Mounted' <=> Mounted) /\ (Straight' <=> Straight)
  BY <1>2 DEF Wanted, Mounted, Straight
<1>6. LoadOK' /\ RunOK'  BY <1>1, <1>2, <1>3 DEF LoadOK, RunOK
<1>7. ScreenOK'  BY <1>1, <1>2, <1>4, <1>5 DEF ScreenOK
<1>8. ViewAwaited'
  <2>1. queue.frames > 0 \/ queue.again => queue'.frames > 0  BY <1>3
  <2>. QED  BY <1>1, <1>2, <1>3, <1>4, <1>5, <2>1 DEF ViewAwaited
<1>9. SummaryOK' /\ MarksOnPicture' /\ OwnPicture'
  BY <1>1, <1>2, <1>4 DEF SummaryOK, MarksOnPicture, OwnPicture
<1>. QED  BY <1>6, <1>7, <1>8, <1>9 DEF Held

(* An error takes the page away with what was painted on it.               *)
LEMMA RunFailsKept ==
  ASSUME Viewed, NEW r \in runs, Current(r), RunFails(r)
  PROVE  Held'
<1>1. /\ LoadOK /\ RunOK /\ ScreenOK /\ ViewAwaited /\ SummaryOK /\ MarksOnPicture /\ OwnPicture
      /\ screen \in Screens /\ hist \in Histories /\ doc \in Docs /\ r \in Runs /\ runs = {r}
      /\ queue.active = r.version /\ doc.token \in 1..Loads
  BY Alone DEF Viewed, Held, TypeOK
<1>2. /\ Step(r, "ended") /\ UNCHANGED <<loads, view, queue, sums>>
      /\ doc' = [doc EXCEPT !.error = TRUE] /\ screen' = [screen EXCEPT !.canvas = None, !.text = None]
      /\ hist' = [hist EXCEPT !.faults = @ + 1]
  BY <1>1 DEF RunFails, Current
<1>3. PICK e \in Runs : /\ runs' = {e} /\ e.token = r.token /\ e.version = r.version
                        /\ e.step = "ended"
  <2>1. [r EXCEPT !.step = "ended"] \in Runs  BY <1>1 DEF Runs, Steps
  <2>. QED  BY <1>1, <1>2, <2>1 DEF Step, Runs
<1>4. /\ doc'.token = doc.token /\ doc'.shown = doc.shown /\ doc'.loading = doc.loading
      /\ doc'.error = TRUE /\ hist'.slips = hist.slips
      /\ screen'.canvas = None /\ screen'.signature = screen.signature
  BY <1>1, <1>2 DEF Docs, Screens, Histories
<1>5. /\ LoadOK' /\ RunOK' /\ (Mounted' <=> Mounted) /\ Wanted(view)' = Wanted(view)
  BY <1>2, <1>3, <1>4, OneRun
<1>6. ScreenOK'  BY <1>1, <1>3, <1>4, <1>5 DEF ScreenOK
<1>7. ViewAwaited' /\ MarksOnPicture' /\ OwnPicture'
  BY <1>4 DEF ViewAwaited, MarksOnPicture, OwnPicture
<1>8. SummaryOK'  BY <1>3, <1>4 DEF SummaryOK
<1>. QED  BY <1>5, <1>6, <1>7, <1>8 DEF Held

-----------------------------------------------------------------------------
(* Loading a document                                                      *)

(* Nothing is rendered, and the newest load is not finished, or has failed. *)
LEMMA FreshKept ==
  ASSUME Viewed, LoadOK', UNCHANGED <<queue, runs, screen>>, hist'.slips = hist.slips,
         runs = {}, queue.run = NoRun, queue.again = FALSE, screen.signature = None,
         doc'.token = doc.token, doc.error => doc'.error, Wanted(view)' # None,
         loads'[doc.token] # "done" \/ doc'.error
  PROVE  Held'
<1>1. ScreenOK /\ MarksOnPicture /\ OwnPicture  BY DEF Viewed, Held
<1>2. RunOK' /\ SummaryOK' /\ ViewAwaited'  BY DEF RunOK, SummaryOK, ViewAwaited
<1>3. ScreenOK'  BY <1>1 DEF ScreenOK
<1>4. MarksOnPicture' /\ OwnPicture'  BY <1>1 DEF MarksOnPicture, OwnPicture
<1>. QED  BY <1>2, <1>3, <1>4 DEF Held

(* The awaits of a load that is not the newest change its own standing.    *)
LEMMA OldLoadKept ==
  ASSUME Viewed, NEW t \in 1..Loads, t # doc.token, NEW stage \in {"done", "mounting"},
         loads[t] \in {"fetching", "staging"}, loads' = [loads EXCEPT ![t] = stage],
         UNCHANGED <<doc, view, queue, runs, screen, sums, hist>>
  PROVE  Held'
<1>1. /\ LoadOK /\ RunOK /\ ScreenOK /\ ViewAwaited /\ SummaryOK /\ MarksOnPicture /\ OwnPicture
      /\ loads \in [1..Loads -> Stages] /\ doc.token \in 0..Loads
  BY Fields DEF Viewed, Held, TypeOK
<1>2. \A u \in 1..Loads : u # t => loads'[u] = loads[u]  BY <1>1
<1>3. doc.token > 0 => doc.token \in 1..Loads  BY <1>1, NoneIs
<1>4. doc.token > 0 => loads'[doc.token] = loads[doc.token]  BY <1>2, <1>3
<1>5. loads'[t] = stage  BY <1>1
<1>6. LoadOK'
  <2>1. \A u \in 1..Loads : loads'[u] = "unused" <=> u > doc.token
    BY <1>1, <1>2, <1>5 DEF LoadOK
  <2>2. \A u, s \in 1..Loads : loads'[u] = "cleaning" /\ s > u => loads'[s] \in {"unused", "cleaning"}
    BY <1>1, <1>2, <1>5 DEF LoadOK
  <2>. QED  BY <1>1, <1>4, <2>1, <2>2 DEF LoadOK
<1>7. doc.token > 0 => (Mounted' <=> Mounted)  BY <1>4 DEF Mounted
<1>8. \A r \in runs : doc.token > 0  BY RunIs, NoneIs DEF Viewed, Held
<1>9. screen.signature # None => doc.token > 0
  <2>. SUFFICES ASSUME screen.signature # None PROVE doc.token > 0  OBVIOUS
  <2>1. screen.signature.token \in 1..Loads  BY NoneIs, Fields DEF Viewed, Held
  <2>2. screen.signature.token = doc.token  BY <1>1 DEF ScreenOK
  <2>. QED  BY <2>1, <2>2, NoneIs
<1>10. RunOK'  BY <1>1, <1>4, <1>7, <1>8 DEF RunOK, Current, RunId
<1>11. Wanted(view)' = Wanted(view)  BY DEF Wanted
<1>12. ScreenOK'
  BY <1>1, <1>7, <1>8, <1>9, <1>11 DEF ScreenOK, Current, Picture, Straight
<1>13. ViewAwaited'  BY <1>1, <1>4, <1>11 DEF ViewAwaited, Current, Straight
<1>14. SummaryOK' /\ MarksOnPicture' /\ OwnPicture'
  BY <1>1 DEF SummaryOK, MarksOnPicture, OwnPicture, Current
<1>. QED  BY <1>6, <1>10, <1>12, <1>13, <1>14 DEF Held

(* What holds of the newest load until its document is on the stage.       *)
LEMMA Newest ==
  ASSUME Viewed, doc.token \in 1..Loads, loads[doc.token] \in {"fetching", "staging"}
  PROVE  /\ runs = {} /\ queue.run = NoRun /\ queue.again = FALSE /\ screen.signature = None
         /\ doc.loading = TRUE
         /\ loads[doc.token] = "fetching" => doc.shown = 0
         /\ loads[doc.token] = "staging" => doc.shown = doc.token
<1>1. ~Mounted  BY DEF Mounted
<1>2. doc.token > 0  BY NoneIs
<1>3. runs = {}  BY <1>1, Alone, Old
<1>4. /\ doc.loading = TRUE
      /\ loads[doc.token] = "fetching" => doc.shown = 0
      /\ loads[doc.token] = "staging" => doc.shown = doc.token
  BY <1>2, Fields DEF Viewed, Held, LoadOK
<1>. QED  BY <1>1, <1>3, <1>4, NoneCurrent

LEMMA CleanedKept ==
  ASSUME Viewed, NEW t \in 1..Loads, Cleaned(t)
  PROVE  Held'
<1>1. /\ LoadOK /\ RunOK /\ ScreenOK /\ ViewAwaited /\ SummaryOK /\ MarksOnPicture /\ OwnPicture
      /\ loads \in [1..Loads -> Stages] /\ doc.token \in 0..Loads /\ doc \in Docs
  BY Fields DEF Viewed, Held, TypeOK
<1>2. /\ loads[t] = "cleaning" /\ loads' = [loads EXCEPT ![t] = "fetching"]
      /\ \A e \in 1..(t - 1) : loads[e] # "cleaning"
      /\ \A r \in runs : r.token >= t
      /\ UNCHANGED <<view, queue, runs, screen, sums, hist>>
  BY DEF Cleaned
<1>3. /\ doc'.token = doc.token /\ doc'.shown = 0 /\ doc'.loading = doc.loading
      /\ doc'.error = doc.error
  BY <1>1 DEF Cleaned, Docs
<1>4. t <= doc.token /\ doc.token \in 1..Loads /\ doc.token > 0
  <2>1. ~(t > doc.token)  BY <1>1, <1>2 DEF LoadOK
  <2>. QED  BY <1>1, <2>1, NoneIs
<1>5. loads[doc.token] = "cleaning"
  <2>1. ~(doc.token > doc.token) /\ (doc.token = t \/ doc.token > t)  BY <1>4, NoneIs
  <2>. QED  BY <1>1, <1>2, <1>4, <2>1 DEF LoadOK
<1>6. \A u \in 1..Loads : loads'[u] = IF u = t THEN "fetching" ELSE loads[u]  BY <1>1, <1>2
<1>7. LoadOK'
  <2>1. \A u \in 1..Loads : loads'[u] = "unused" <=> u > doc.token
    BY <1>1, <1>2, <1>6 DEF LoadOK
  <2>2. \A u, s \in 1..Loads : loads'[u] = "cleaning" /\ s > u => loads'[s] \in {"unused", "cleaning"}
    <3>. SUFFICES ASSUME NEW u \in 1..Loads, NEW s \in 1..Loads, loads'[u] = "cleaning", s > u
                  PROVE  loads'[s] \in {"unused", "cleaning"}
      OBVIOUS
    <3>1. u # t /\ loads[u] = "cleaning"  BY <1>6
    <3>2. s # t
      <4>. SUFFICES ASSUME s = t PROVE FALSE  OBVIOUS
      <4>1. u \in 1..(t - 1)  BY NoneIs
      <4>. QED  BY <1>2, <3>1, <4>1
    <3>. QED  BY <1>1, <1>6, <3>1, <3>2 DEF LoadOK
  <2>3. doc.loading /\ 0 <= doc.token /\ 0 < doc.token  BY <1>1, <1>4, <1>5, NoneIs DEF LoadOK
  <2>4. loads'[doc.token] \in {"fetching", "cleaning"}  BY <1>4, <1>5, <1>6
  <2>. QED  BY <1>3, <1>4, <2>1, <2>2, <2>3, <2>4 DEF LoadOK
<1>8. ~Mounted  BY <1>5 DEF Mounted
<1>9. Wanted(view)' = Wanted(view) /\ Wanted(view) # None /\ 0 # doc.token
  BY <1>2, <1>3, <1>4, Fields, NoneIs DEF Wanted, Viewed, Held
<1>10. queue.run = NoRun /\ queue.again = FALSE /\ screen.signature = None /\ \A r \in runs : ~Current(r)
  BY <1>8, NoneCurrent
<1>11. CASE t = doc.token
  <2>1. runs = {}
    <3>1. \A r \in runs : r.token < t /\ r.token >= t /\ r.token \in 1..Loads
      BY <1>2, <1>10, <1>11, Old, RunIs DEF Viewed, Held
    <3>. QED  BY <3>1, NoneIs
  <2>2. loads'[doc.token] # "done"  BY <1>4, <1>6, <1>11
  <2>. QED  BY <1>2, <1>3, <1>7, <1>9, <1>10, <2>1, <2>2, FreshKept
<1>12. CASE t # doc.token
  <2>1. loads'[doc.token] = "cleaning"  BY <1>4, <1>5, <1>6, <1>12
  <2>2. RunOK'  BY <1>1, <1>2, <1>3, <1>10, <2>1 DEF RunOK, Current
  <2>3. ScreenOK'  BY <1>1, <1>2, <1>3, <1>9, <1>10 DEF ScreenOK, Current
  <2>4. ViewAwaited'  BY <1>3, <2>1 DEF ViewAwaited
  <2>5. SummaryOK' /\ MarksOnPicture' /\ OwnPicture'
    BY <1>1, <1>2, <1>3, <1>10 DEF SummaryOK, MarksOnPicture, OwnPicture, Current
  <2>. QED  BY <1>7, <2>2, <2>3, <2>4, <2>5 DEF Held
<1>. QED  BY <1>11, <1>12

LEMMA LoadingKept ==
  ASSUME Viewed, NEW t \in 1..Loads, Arrives(t) \/ LoadFails(t) \/ StageReady(t)
  PROVE  Held'
<1>1. /\ LoadOK /\ loads \in [1..Loads -> Stages] /\ doc \in Docs /\ view \in Views /\ hist \in Histories
  BY DEF Viewed, Held, TypeOK
<1>2. CASE t # doc.token
  <2>1. CASE Arrives(t)  BY <1>2, <2>1, OldLoadKept DEF Arrives
  <2>2. CASE LoadFails(t)  BY <1>2, <2>2, OldLoadKept DEF LoadFails
  <2>3. CASE StageReady(t)  BY <1>2, <2>3, OldLoadKept DEF StageReady
  <2>. QED  BY <2>1, <2>2, <2>3
<1>3. CASE t = doc.token
  <2>1. loads[t] \in {"fetching", "staging"}  BY DEF Arrives, LoadFails, StageReady
  <2>2. /\ runs = {} /\ queue.run = NoRun /\ queue.again = FALSE /\ screen.signature = None
        /\ doc.loading = TRUE /\ (loads[t] = "fetching" => doc.shown = 0)
        /\ (loads[t] = "staging" => doc.shown = doc.token)
    BY <1>3, <2>1, Newest
  <2>3. /\ UNCHANGED <<queue, runs, screen>> /\ doc'.token = doc.token /\ hist'.slips = hist.slips
        /\ doc.error => doc'.error
    BY <1>1, <1>3 DEF Arrives, LoadFails, StageReady, Docs, Histories
  <2>4. Wanted(view)' # None
    <3>1. view'.current \in Page /\ view'.scale \in Scales
      BY <1>1 DEF Arrives, LoadFails, StageReady, Views
    <3>. QED  BY <1>3, <2>3, <3>1, NoneIs DEF Wanted
  <2>5. /\ \A u \in 1..Loads : u # t => loads'[u] = loads[u]
        /\ \/ loads'[t] = "staging" /\ doc'.shown = t /\ doc'.loading = doc.loading
           \/ loads'[t] = "done" /\ doc'.shown = doc.shown /\ doc'.loading = FALSE /\ doc.shown = 0
              /\ doc'.error = TRUE
           \/ loads'[t] = "mounting" /\ doc'.shown = doc.shown /\ doc'.loading = FALSE
              /\ doc.shown = doc.token
    <3>1. CASE Arrives(t)  BY <1>1, <1>3, <3>1 DEF Arrives, Docs
    <3>2. CASE LoadFails(t)  BY <1>1, <1>3, <2>2, <3>2 DEF LoadFails, Docs
    <3>3. CASE StageReady(t)  BY <1>1, <1>3, <2>2, <3>3 DEF StageReady, Docs
    <3>. QED  BY <3>1, <3>2, <3>3
  <2>6. LoadOK'
    <3>1. \A u \in 1..Loads : loads'[u] = "unused" <=> u > doc.token
      BY <1>1, <2>1, <2>5 DEF LoadOK
    <3>2. \A u, s \in 1..Loads : loads'[u] = "cleaning" /\ s > u => loads'[s] \in {"unused", "cleaning"}
      BY <1>1, <2>1, <2>5 DEF LoadOK
    <3>3. doc.token > 0 /\ doc.token <= doc.token /\ 0 <= doc.token  BY <1>3, NoneIs
    <3>. QED  BY <1>3, <2>2, <2>3, <2>5, <3>1, <3>2, <3>3 DEF LoadOK
  <2>7. loads'[doc.token] # "done" \/ doc'.error  BY <1>3, <2>5
  <2>. QED  BY <2>2, <2>3, <2>4, <2>6, <2>7, FreshKept
<1>. QED  BY <1>2, <1>3

(* Another document: what was on the screen is cleared, and the renderings *)
(* under way belong to a replaced document.                                *)
LEMMA OpenKept ==
  ASSUME Viewed, Open
  PROVE  Held'
<1>1. /\ LoadOK /\ RunOK /\ runs \subseteq Runs /\ loads \in [1..Loads -> Stages] /\ doc \in Docs
      /\ view \in Views /\ screen \in Screens /\ doc.token \in 0..Loads /\ doc.shown \in 0..Loads
  BY Fields DEF Viewed, Held, TypeOK
<1>2. PICK t \in 1..Loads : t = doc.token + 1
  <2>1. doc.token < Loads  BY DEF Open
  <2>. QED  BY <1>1, <2>1, NoneIs
<1>3. /\ doc'.token = t /\ doc'.loading = TRUE /\ doc'.shown = doc.shown
      /\ loads' = [loads EXCEPT ![t] = "cleaning"] /\ runs' = Cancelled(runs)
      /\ queue'.run = NoRun /\ queue'.again = FALSE
      /\ screen'.canvas = None /\ screen'.text = None /\ screen'.marks = None
      /\ screen'.signature = None
  BY <1>1, <1>2 DEF Open, Docs, Screens, FreshQueue
<1>4. view'.current \in Page /\ view'.scale \in Scales  BY <1>1, NoneIs DEF Open, Views
<1>5. \A u \in 1..Loads : loads'[u] = IF u = t THEN "cleaning" ELSE loads[u]  BY <1>1, <1>3
<1>6. \A u \in 1..Loads : /\ u # t => (u > t <=> u > doc.token)
                          /\ u > t => u > doc.token
  BY <1>1, <1>2, NoneIs
<1>7. t > 0 /\ t > doc.token /\ doc.shown <= t /\ doc.shown < t /\ ~(t > t)
  BY <1>1, <1>2, NoneIs DEF LoadOK
<1>8. LoadOK'
  <2>1. \A u \in 1..Loads : loads'[u] = "unused" <=> u > t
    BY <1>1, <1>5, <1>6, <1>7 DEF LoadOK
  <2>2. \A u, s \in 1..Loads : loads'[u] = "cleaning" /\ s > u => loads'[s] \in {"unused", "cleaning"}
    BY <1>1, <1>5, <1>6 DEF LoadOK
  <2>. QED  BY <1>3, <1>5, <1>7, <2>1, <2>2 DEF LoadOK
<1>9. \A e \in runs' : /\ e.token <= t /\ e.token # t /\ e.step # "paint"
                       /\ e.step \in {"text", "layer"} => e.sign.token = e.token
  <2>. SUFFICES ASSUME NEW e \in runs'
                PROVE  /\ e.token <= t /\ e.token # t /\ e.step # "paint"
                       /\ e.step \in {"text", "layer"} => e.sign.token = e.token
    OBVIOUS
  <2>1. PICK r \in runs : e = IF r.step \in {"paint", "layer"} THEN [r EXCEPT !.step = "ended"] ELSE r
    BY <1>3 DEF Cancelled
  <2>2. /\ e.token = r.token /\ e.sign = r.sign /\ e.step # "paint"
        /\ e.step \in {"text", "layer"} => r.step = e.step
    BY <1>1, <2>1 DEF Runs
  <2>3. r.token \in 1..Loads /\ r.token <= doc.token  BY <1>1, RunIs DEF RunOK, Viewed, Held
  <2>4. e.token <= t /\ e.token # t  BY <1>1, <1>2, <2>2, <2>3, NoneIs
  <2>. QED  BY <1>1, <2>2, <2>4 DEF RunOK
<1>10. loads'[t] = "cleaning"  BY <1>5
<1>11. RunOK'  BY <1>3, <1>9, <1>10 DEF RunOK, Current
<1>12. Wanted(view)' # None /\ None.token # t  BY <1>3, <1>4, NoneIs DEF Wanted
<1>13. ScreenOK'  BY <1>3, <1>9, <1>12 DEF ScreenOK, Current
<1>14. ViewAwaited'  BY <1>3, <1>10 DEF ViewAwaited
<1>15. SummaryOK' /\ MarksOnPicture' /\ OwnPicture'
  BY <1>3, <1>9 DEF SummaryOK, MarksOnPicture, OwnPicture, Current
<1>. QED  BY <1>8, <1>11, <1>13, <1>14, <1>15 DEF Held

-----------------------------------------------------------------------------
(* Theorems                                                                *)

LEMMA ViewerStep == Viewed /\ [Next]_vars => Viewed'
<1>. SUFFICES ASSUME Viewed, [Next]_vars PROVE Viewed'  OBVIOUS
<1>0. TypeOK /\ LoadOK /\ RunOK  BY DEF Viewed, Held
<1>1. TypeOK'
  <2>1. CASE Next
    BY <1>0, <2>1, RenderingTypes, LoadingTypes, SummingTypes, ReadingTypes, FaultTypes DEF Next
  <2>2. CASE UNCHANGED vars  BY <1>0, <2>2 DEF vars, TypeOK
  <2>. QED  BY <2>1, <2>2
<1>. SUFFICES Held'  BY <1>1 DEF Viewed
<1>2. CASE Rendering \/ \E r \in runs : RunFails(r)
  <2>1. CASE RenderTimer \/ Frame  BY <2>1, RequestsKept
  <2>2. ASSUME NEW r \in runs,
               \/ Paint(r) \/ Painted(r) \/ TextArrives(r) \/ Layered(r) \/ Finish(r)
               \/ RunFails(r)
        PROVE  Held'
    <3>1. CASE ~Current(r)  BY <2>2, <3>1, OldRunKept
    <3>2. CASE Current(r)
      BY <2>2, <3>2, PaintKept, PaintedKept, TextKept, LayeredKept, FinishKept, RunFailsKept
    <3>. QED  BY <3>1, <3>2
  <2>. QED  BY <1>2, <2>1, <2>2 DEF Rendering
<1>3. CASE Loading \/ \E t \in 1..Loads : LoadFails(t)
  <2>1. ASSUME NEW t \in 1..Loads,
               Cleaned(t) \/ Arrives(t) \/ StageReady(t) \/ ForceRender(t) \/ LoadFails(t)
        PROVE  Held'
    BY <2>1, CleanedKept, LoadingKept, RequestsKept
  <2>. QED  BY <1>3, <2>1 DEF Loading
<1>4. CASE Summing  BY <1>4, SummingKept
<1>5. CASE Reading
  <2>1. PICK p \in Page, s \in Scales : TRUE  BY NoneIs, ViewerAssumption
  <2>. QED  BY <1>5, <2>1, OpenKept, ReadingKept, ReclueKept DEF Reading
<1>6. CASE UNCHANGED vars
  <2>. USE <1>6 DEF vars, Viewed, Held
  <2>1. LoadOK' /\ RunOK'  BY DEF LoadOK, RunOK, Current, Mounted, RunId
  <2>2. Wanted(view)' = Wanted(view)  BY DEF Wanted
  <2>3. ScreenOK'  BY <2>2 DEF ScreenOK, Current, Mounted, Picture, Straight
  <2>4. ViewAwaited'  BY <2>2 DEF ViewAwaited, Current, Straight
  <2>5. SummaryOK' /\ MarksOnPicture' /\ OwnPicture'
    BY DEF SummaryOK, MarksOnPicture, OwnPicture, Current
  <2>. QED  BY <2>1, <2>3, <2>4, <2>5
<1>. QED  BY <1>2, <1>3, <1>4, <1>5, <1>6 DEF Next, Fault

(* The picture, its marks and its summary are of the document and the page *)
(* that are shown, whatever the reader does while documents load, pages    *)
(* are painted and answers come late or not at all.                        *)
THEOREM ViewerInvariance == Spec => []PictureTrue
<1>1. Init => Viewed  BY ViewerInit DEF PictureTrue, Viewed, Held
<1>2. Viewed => PictureTrue  BY ViewedShows DEF PictureTrue, Viewed, Held
<1>. QED  BY <1>1, <1>2, ViewerStep, PTL DEF Spec

(* At rest the canvas shows the page the toolbar names, of the document    *)
(* open now, at the current scale.                                         *)
THEOREM PageIsShown == Spec => []PageShown
<1>1. PictureTrue => PageShown  BY DEF PictureTrue
<1>. QED  BY <1>1, ViewerInvariance, PTL

-----------------------------------------------------------------------------
(* The socket                                                              *)

USE SocketAssumption, TokensAssumption DEF flags, timers, socketHistory

(* A token is its user and a number, and is not NoToken.                   *)
LEMMA FirstToken ==
  ASSUME NEW t \in User \X {1}
  PROVE  t \in Token /\ t # NoToken
<1>1. t \in Token  BY DEF Token
<1>. QED  BY <1>1

(* The page begins without a socket, or with the one of its token.         *)
LEMMA SocketInitServed == SocketInit => SocketServed
<1>. SUFFICES ASSUME SocketInit PROVE SocketServed  OBVIOUS
<1>1. wsToken \in Token \cup {NoToken}  BY FirstToken DEF SocketInit
<1>2. SocketTypeOK
  <2>1. cur \in [state : {"none", "connecting", "open", "dead"}, url : Token \cup {NoToken}]
    BY <1>1 DEF SocketInit, NoSocket
  <2>2. allow \in BOOLEAN /\ intentional \in BOOLEAN  BY DEF SocketInit
  <2>3. status \in {"CLOSED", "CONNECTING", "OPEN"}  BY DEF SocketInit
  <2>4. /\ closing = 0 /\ orphans = 0 /\ strays = 0 /\ buffer = {} /\ asking = NoToken
        /\ explicit = FALSE /\ retry = FALSE /\ beat = FALSE /\ pong = FALSE
        /\ confirmed = FALSE /\ notified = FALSE
        /\ crossed = FALSE /\ late = FALSE /\ leaked = FALSE
    BY DEF SocketInit
  <2>5. 0 \in 0..MaxClosing  OBVIOUS
  <2>. QED  BY <1>1, <2>1, <2>2, <2>3, <2>4, <2>5 DEF SocketTypeOK
<1>3. OneConnection /\ OwnMessages /\ OneTimer /\ OwnLine /\ BufferLate
  BY DEF SocketInit, NoSocket, OneConnection, OwnMessages, OneTimer, OwnLine, BufferLate, Alive
<1>. QED  BY <1>2, <1>3 DEF SocketServed

(* What closing the socket that is there leaves.                           *)
LEMMA ClosedType ==
  ASSUME SocketTypeOK, CanClose
  PROVE  /\ Closed.closing \in 0..MaxClosing
         /\ Closed.explicit \in BOOLEAN /\ Closed.beat \in BOOLEAN /\ Closed.pong \in BOOLEAN
         /\ cur.state # "none" => Closed.explicit
         /\ cur.state = "none" => Closed.closing = closing /\ Closed.explicit = explicit
<1>1. CASE cur.state = "none"  BY <1>1 DEF Closed, SocketTypeOK
<1>2. CASE cur.state # "none" /\ Alive
  <2>1. closing < MaxClosing  BY <1>2 DEF CanClose
  <2>2. Closed = [explicit |-> TRUE, closing |-> closing + 1, beat |-> FALSE, pong |-> FALSE]
    BY <1>2 DEF Closed
  <2>3. closing + 1 \in 0..MaxClosing  BY <2>1 DEF SocketTypeOK
  <2>. QED  BY <1>2, <2>2, <2>3
<1>3. CASE cur.state # "none" /\ ~Alive
  BY <1>3 DEF Closed, SocketTypeOK
<1>. QED  BY <1>1, <1>2, <1>3

(* The token and the new socket change in one step.                        *)
LEMMA OpenServed ==
  ASSUME SocketServed, NEW t \in Token, t # NoToken,
         wsOpen(t), wsToken' = t, UNCHANGED <<buffer, asking, socketHistory>>
  PROVE  SocketServed'
<1>1. CanClose /\ SocketTypeOK  BY DEF wsOpen, rawWsOpen, SocketServed
<1>2. SocketTypeOK'
  <2>1. /\ cur' = [state |-> "connecting", url |-> t] /\ status' = "CONNECTING"
        /\ retry' = FALSE /\ explicit' = FALSE /\ UNCHANGED <<orphans, strays>>
        /\ closing' = Closed.closing /\ beat' = Closed.beat /\ pong' = Closed.pong
    BY DEF wsOpen, rawWsOpen
  <2>2. /\ allow' = TRUE /\ confirmed' = FALSE /\ notified' = FALSE
        /\ intentional' = (status \in {"OPEN", "CONNECTING"})
    BY DEF wsOpen, Reset
  <2>3. intentional' \in BOOLEAN  BY <2>2
  <2>4. cur' \in [state : {"none", "connecting", "open", "dead"}, url : Token \cup {NoToken}]
    BY <2>1
  <2>. QED  BY <1>1, <2>1, <2>2, <2>3, <2>4, ClosedType DEF SocketTypeOK
<1>3. cur' = [state |-> "connecting", url |-> t] /\ status' = "CONNECTING" /\ retry' = FALSE
  BY DEF wsOpen, rawWsOpen
<1>4. OneTimer' /\ OwnLine'
  BY <1>3 DEF SocketServed, OneTimer, OwnLine, Alive, wsOpen, rawWsOpen
<1>5. OneConnection' /\ OwnMessages' /\ BufferLate'
  BY DEF SocketServed, OneConnection, OwnMessages, BufferLate, wsOpen, rawWsOpen
<1>. QED  BY <1>2, <1>4, <1>5 DEF SocketServed

LEMMA EnterServed ==
  ASSUME SocketServed, NEW t \in Token, SetToken(t)
  PROVE  SocketServed'
BY OpenServed DEF SetToken

LEMMA ReconnectServed ==
  ASSUME SocketServed, Reconnect
  PROVE  SocketServed'
<1>1. wsToken \in Token /\ wsToken # NoToken  BY DEF Reconnect, SocketServed, SocketTypeOK
<1>2. wsOpen(wsToken) /\ wsToken' = wsToken /\ UNCHANGED <<buffer, asking, socketHistory>>
  BY DEF Reconnect
<1>. QED  BY <1>1, <1>2, OpenServed

(* A logout leaves no socket and no timer.                                 *)
LEMMA SocketResetServed ==
  ASSUME SocketServed, handleAuthReset
  PROVE  SocketServed'
<1>1. CanClose /\ SocketTypeOK  BY DEF handleAuthReset, wsClose, rawWsClose, SocketServed
<1>2. SocketTypeOK'
  BY <1>1, ClosedType DEF SocketTypeOK, handleAuthReset, wsClose, rawWsClose, Reset, NoSocket
<1>3. cur' = NoSocket /\ retry' = FALSE /\ status' = status /\ strays' = strays
  BY DEF handleAuthReset, wsClose, rawWsClose
<1>4. explicit' = Closed.explicit /\ closing' = Closed.closing
  BY DEF handleAuthReset, wsClose, rawWsClose
<1>5. OneTimer'
  BY <1>1, <1>3, <1>4, ClosedType DEF SocketServed, OneTimer, NoSocket
<1>6. OwnLine'  BY <1>3 DEF OwnLine, Alive, NoSocket
<1>7. OneConnection' /\ OwnMessages' /\ BufferLate'
  BY DEF SocketServed, OneConnection, OwnMessages, BufferLate, handleAuthReset, wsClose, rawWsClose
<1>. QED  BY <1>2, <1>5, <1>6, <1>7 DEF SocketServed

(* The parts that speak of the socket, when it does not move.              *)
LEMMA LineKept ==
  ASSUME SocketServed, UNCHANGED <<wsToken, cur, closing, orphans, status, explicit, retry, strays>>
  PROVE  OneConnection' /\ OneTimer' /\ OwnLine'
BY DEF SocketServed, OneConnection, OneTimer, OwnLine, Alive

(* The parts that speak of messages, when none is written or sent.         *)
LEMMA MessagesKept ==
  ASSUME SocketServed, UNCHANGED <<buffer, late, leaked>>
  PROVE  OwnMessages' /\ BufferLate'
BY DEF SocketServed, OwnMessages, BufferLate

(* What is in the buffer excuses what goes out with it.                    *)
LEMMA FlushServed ==
  ASSUME SocketServed, NEW messages, NEW t, Flushed(messages, t),
         \/ buffer # {}
         \/ \A b \in messages : b[1] = t[1]
         \/ late',
         late' \in BOOLEAN, late => late'
  PROVE  OwnMessages' /\ BufferLate' /\ buffer' \subseteq Token /\ leaked' \in BOOLEAN
BY DEF SocketServed, SocketTypeOK, OwnMessages, BufferLate, Flushed

(* wsSend of a message of the token of now, or of one that counts as late. *)
LEMMA SentServed ==
  ASSUME SocketServed, NEW owner \in Token, wsSend(owner),
         late' \in BOOLEAN, late => late',
         cur.state = "none" \/ status # "OPEN" \/ owner # wsToken => late'
  PROVE  OwnMessages' /\ BufferLate' /\ buffer' \subseteq Token /\ leaked' \in BOOLEAN
<1>1. CASE cur.state # "none" /\ status = "OPEN"
  <2>1. Flushed(buffer \cup {owner}, cur.url)  BY <1>1 DEF wsSend
  <2>2. Alive /\ cur.url = wsToken  BY <1>1 DEF SocketServed, OwnLine, Alive
  <2>3. \/ buffer # {}
        \/ \A b \in buffer \cup {owner} : b[1] = cur.url[1]
        \/ late'
    BY <2>2
  <2>. QED  BY <2>1, <2>3, FlushServed
<1>2. CASE ~(cur.state # "none" /\ status = "OPEN")
  <2>1. buffer' = buffer \cup {owner} /\ leaked' = leaked /\ late'  BY <1>2 DEF wsSend
  <2>. QED  BY <2>1 DEF SocketServed, SocketTypeOK, OwnMessages, BufferLate
<1>. QED  BY <1>1, <1>2

LEMMA SocketSendServed ==
  ASSUME SocketServed, Send
  PROVE  SocketServed'
<1>1. wsToken \in Token /\ late \in BOOLEAN  BY DEF Send, SocketServed, SocketTypeOK
<1>2. wsSend(wsToken) /\ late' = (late \/ cur.state = "none") /\ status = "OPEN"  BY DEF Send
<1>3. OwnMessages' /\ BufferLate' /\ buffer' \subseteq Token /\ leaked' \in BOOLEAN
  BY <1>1, <1>2, SentServed
<1>4. OneConnection' /\ OneTimer' /\ OwnLine'  BY LineKept DEF Send
<1>5. SocketTypeOK'  BY <1>1, <1>2, <1>3 DEF Send, SocketServed, SocketTypeOK
<1>. QED  BY <1>3, <1>4, <1>5 DEF SocketServed

LEMMA AskStopServed ==
  ASSUME SocketServed, AskStop
  PROVE  SocketServed'
<1>1. SocketTypeOK'  BY DEF AskStop, SocketServed, SocketTypeOK
<1>. QED  BY <1>1, LineKept, MessagesKept DEF AskStop, SocketServed

LEMMA StopServed ==
  ASSUME SocketServed, Stop
  PROVE  SocketServed'
<1>1. asking \in Token /\ late \in BOOLEAN  BY DEF Stop, SocketServed, SocketTypeOK
<1>2. OneConnection' /\ OneTimer' /\ OwnLine'  BY LineKept DEF Stop
<1>3. CASE wsSend(asking) /\ late' = (late \/ status # "OPEN" \/ cur.state = "none" \/ asking # wsToken)
  <2>1. OwnMessages' /\ BufferLate' /\ buffer' \subseteq Token /\ leaked' \in BOOLEAN
    BY <1>1, <1>3, SentServed
  <2>2. SocketTypeOK'  BY <1>1, <1>3, <2>1 DEF Stop, SocketServed, SocketTypeOK
  <2>. QED  BY <1>2, <2>1, <2>2 DEF SocketServed
<1>4. CASE UNCHANGED <<buffer, late, leaked>>
  <2>1. SocketTypeOK'  BY <1>4 DEF Stop, SocketServed, SocketTypeOK
  <2>. QED  BY <1>2, <1>4, <2>1, MessagesKept DEF SocketServed
<1>. QED  BY <1>3, <1>4 DEF Stop

LEMMA OpenedServed ==
  ASSUME SocketServed, Opened
  PROVE  SocketServed'
<1>1. Flushed(buffer, cur.url) /\ late' = late /\ late \in BOOLEAN
  BY DEF Opened, SocketServed, SocketTypeOK
<1>2. buffer # {} \/ \A b \in buffer : b[1] = cur.url[1]  OBVIOUS
<1>3. OwnMessages' /\ BufferLate' /\ buffer' \subseteq Token /\ leaked' \in BOOLEAN
  BY <1>1, <1>2, FlushServed
<1>4. cur' = [state |-> "open", url |-> cur.url] /\ cur.state = "connecting"
  BY DEF Opened, SocketServed, SocketTypeOK
<1>5. SocketTypeOK'  BY <1>3, <1>4 DEF Opened, SocketServed, SocketTypeOK
<1>6. OneConnection' /\ OneTimer' /\ OwnLine'
  BY <1>4 DEF Opened, SocketServed, OneConnection, OneTimer, OwnLine, Alive
<1>. QED  BY <1>3, <1>5, <1>6 DEF SocketServed

LEMMA BeatsServed ==
  ASSUME SocketServed, Handshake \/ Message \/ Beat
  PROVE  SocketServed'
<1>1. UNCHANGED <<wsToken, cur, closing, orphans, status, explicit, retry, strays>>
  BY DEF Handshake, Message, Beat
<1>2. UNCHANGED <<buffer, late, leaked>>  BY DEF Handshake, Message, Beat
<1>3. UNCHANGED <<allow, intentional, notified, asking, crossed>>
  BY DEF Handshake, Message, Beat
<1>4. /\ pong' \in BOOLEAN /\ beat' = beat
      /\ confirmed' \in {TRUE, confirmed}
  BY DEF Handshake, Message, Beat
<1>5. confirmed' \in BOOLEAN  BY <1>4 DEF SocketServed, SocketTypeOK
<1>6. SocketTypeOK'  BY <1>1, <1>2, <1>3, <1>4, <1>5 DEF SocketServed, SocketTypeOK
<1>. QED  BY <1>1, <1>2, <1>6, LineKept, MessagesKept DEF SocketServed

(* The socket given up is the only one whose close event is due.           *)
LEMMA PongServed ==
  ASSUME SocketServed, PongTimeout
  PROVE  SocketServed'
<1>1. SocketTypeOK /\ CanClose  BY DEF PongTimeout, SocketServed, SocketTypeOK, CanClose
<1>2. Closed.closing \in {0, 1}
  BY DEF PongTimeout, SocketServed, SocketTypeOK, Closed
<1>3. SocketTypeOK'
  <2>1. closing' = Closed.closing /\ beat' = Closed.beat /\ cur' = NoSocket  BY DEF PongTimeout
  <2>2. closing' \in 0..MaxClosing /\ beat' \in BOOLEAN  BY <1>1, <2>1, ClosedType
  <2>3. cur' \in [state : {"none", "connecting", "open", "dead"}, url : Token \cup {NoToken}]
    BY <2>1 DEF NoSocket
  <2>4. explicit' = FALSE /\ retry' = FALSE /\ pong' = FALSE  BY DEF PongTimeout
  <2>5. UNCHANGED <<wsToken, orphans, status, strays, flags, buffer, asking, socketHistory>>
    BY DEF PongTimeout
  <2>6. /\ wsToken' \in Token \cup {NoToken} /\ strays' \in Nat /\ orphans' \in Nat
        /\ status' \in {"CLOSED", "CONNECTING", "OPEN"}
    BY <1>1, <2>5 DEF SocketTypeOK
  <2>7. /\ allow' \in BOOLEAN /\ confirmed' \in BOOLEAN
        /\ intentional' \in BOOLEAN /\ notified' \in BOOLEAN
    BY <1>1, <2>5 DEF SocketTypeOK
  <2>8. /\ buffer' \subseteq Token /\ asking' \in Token \cup {NoToken}
        /\ crossed' \in BOOLEAN /\ late' \in BOOLEAN /\ leaked' \in BOOLEAN
    BY <1>1, <2>5 DEF SocketTypeOK
  <2>. QED  BY <2>2, <2>3, <2>4, <2>6, <2>7, <2>8 DEF SocketTypeOK
<1>4. OneConnection' /\ OneTimer' /\ OwnLine'
  BY <1>2 DEF PongTimeout, SocketServed, OneConnection, OneTimer, OwnLine, Alive, NoSocket
<1>. QED  BY <1>3, <1>4, MessagesKept DEF PongTimeout, SocketServed

(* The types after a close event.                                          *)
LEMMA CloseType ==
  ASSUME SocketTypeOK, NEW c \in BOOLEAN, onClose(c)
  PROVE  /\ status' = "CLOSED" /\ beat' = FALSE /\ pong' = FALSE
         /\ intentional' \in BOOLEAN /\ allow' \in BOOLEAN /\ notified' \in BOOLEAN
         /\ retry' \in BOOLEAN /\ strays' \in Nat
         /\ UNCHANGED <<wsToken, explicit, confirmed, buffer, asking, late, leaked>>
<1>1. intentional' \in BOOLEAN /\ allow' \in BOOLEAN /\ notified' \in BOOLEAN
  BY DEF onClose, onDisconnected, SocketTypeOK
<1>2. \/ retry' = TRUE /\ strays' = IF retry THEN strays + 1 ELSE strays
      \/ retry' = retry /\ strays' = strays
  BY DEF onClose
<1>3. strays + 1 \in Nat /\ strays \in Nat /\ retry \in BOOLEAN  BY DEF SocketTypeOK
<1>4. retry' \in BOOLEAN /\ strays' \in Nat  BY <1>2, <1>3
<1>. QED  BY <1>1, <1>4 DEF onClose

(* The socket of now has ended: no timer was pending, one may be.          *)
LEMMA LostServed ==
  ASSUME SocketServed, Lost
  PROVE  SocketServed'
<1>1. SocketTypeOK /\ onClose(TRUE) /\ UNCHANGED <<closing, orphans, crossed>>
  BY DEF Lost, SocketServed
<1>2. cur' = [state |-> "dead", url |-> cur.url]  BY DEF Lost, SocketServed, SocketTypeOK
<1>3. ~retry  BY DEF Lost, SocketServed, OneTimer, SocketTypeOK
<1>4. SocketTypeOK'  BY <1>1, <1>2, CloseType DEF SocketTypeOK
<1>5. strays' = 0  BY <1>1, <1>3 DEF onClose, SocketServed, OneTimer
<1>6. OneConnection' /\ OneTimer' /\ OwnLine'
  BY <1>1, <1>2, <1>5, CloseType DEF SocketServed, OneConnection, OneTimer, OwnLine, Alive
<1>7. UNCHANGED <<buffer, late, leaked>>  BY <1>1, CloseType
<1>. QED  BY <1>4, <1>6, <1>7, MessagesKept DEF SocketServed

(* A close event of a socket the page closed sets a timer only when there  *)
(* is no socket, and it was the last one due.                              *)
LEMMA OldClosedServed ==
  ASSUME SocketServed, OldClosed
  PROVE  SocketServed'
<1>1. SocketTypeOK /\ onClose(FALSE) /\ closing > 0 /\ closing' = closing - 1 /\ UNCHANGED <<cur, orphans>>
  BY DEF OldClosed, SocketServed
<1>2. crossed' \in BOOLEAN  BY <1>1 DEF OldClosed, SocketTypeOK
<1>3. SocketTypeOK'
  <2>1. closing' \in 0..MaxClosing  BY <1>1 DEF SocketTypeOK
  <2>2. onClose(FALSE) /\ FALSE \in BOOLEAN  BY <1>1
  <2>. QED  BY <1>1, <1>2, <2>1, <2>2, CloseType DEF SocketTypeOK
<1>4. CASE ~explicit /\ cur.state = "none" /\ allow'
  <2>1. closing = 1 /\ ~retry
    BY <1>1, <1>4 DEF SocketServed, OneTimer, SocketTypeOK
  <2>2. retry' /\ strays' = strays  BY <1>1, <1>4, <2>1 DEF onClose, SocketTypeOK
  <2>3. closing' = 0 /\ strays' = 0 /\ cur'.state = "none"
    BY <1>1, <1>4, <2>1, <2>2 DEF SocketServed, OneTimer
  <2>4. OneTimer'  BY <2>3 DEF OneTimer, Alive
  <2>5. OneConnection' /\ OwnLine'
    BY <1>1, CloseType DEF SocketServed, OneConnection, OwnLine, Alive
  <2>. QED  BY <1>1, <1>3, <2>4, <2>5, CloseType, MessagesKept DEF SocketServed
<1>5. CASE ~(~explicit /\ cur.state = "none" /\ allow')
  <2>1. retry' = retry /\ strays' = strays /\ explicit' = explicit /\ cur' = cur
    BY <1>1, <1>5 DEF onClose
  <2>2. closing \in Nat /\ closing' = closing - 1 /\ closing > 0 /\ OneTimer
    BY <1>1 DEF SocketServed, SocketTypeOK
  <2>3. cur.state = "none" /\ ~explicit => closing' = 0 /\ ~retry
    BY <2>2 DEF OneTimer
  <2>4. OneTimer'
    BY <2>1, <2>2, <2>3 DEF OneTimer, Alive
  <2>5. OneConnection' /\ OwnLine'
    BY <1>1, CloseType DEF SocketServed, OneConnection, OwnLine, Alive
  <2>. QED  BY <1>1, <1>3, <2>4, <2>5, CloseType, MessagesKept DEF SocketServed
<1>. QED  BY <1>4, <1>5

(* What a timer opens replaces no live socket.                             *)
LEMMA RetryServed ==
  ASSUME SocketServed, Retry
  PROVE  SocketServed'
<1>1. retry /\ ~Alive /\ strays = 0  BY DEF Retry, SocketServed, OneTimer, SocketTypeOK
<1>2. retry' = FALSE /\ strays' = strays  BY <1>1 DEF Retry
<1>3. /\ UNCHANGED <<wsToken, closing, explicit, beat, pong, buffer, asking>>
      /\ UNCHANGED <<allow, confirmed, intentional, notified, crossed, late, leaked>>
  BY DEF Retry
<1>4. CASE explicit \/ wsToken = NoToken
  <2>1. cur' = cur /\ orphans' = orphans /\ status' = status  BY <1>4 DEF Retry
  <2>2. SocketTypeOK  BY DEF SocketServed
  <2>3. cur' \in [state : {"none", "connecting", "open", "dead"}, url : Token \cup {NoToken}]
    BY <2>1, <2>2 DEF SocketTypeOK
  <2>4. status' \in {"CLOSED", "CONNECTING", "OPEN"} /\ orphans' \in Nat
    BY <2>1, <2>2 DEF SocketTypeOK
  <2>5. /\ wsToken' \in Token \cup {NoToken} /\ asking' \in Token \cup {NoToken}
        /\ buffer' \subseteq Token /\ closing' \in 0..MaxClosing
    BY <1>3, <2>2 DEF SocketTypeOK
  <2>6. /\ explicit' \in BOOLEAN /\ beat' \in BOOLEAN /\ pong' \in BOOLEAN
        /\ allow' \in BOOLEAN /\ confirmed' \in BOOLEAN /\ intentional' \in BOOLEAN
        /\ notified' \in BOOLEAN /\ crossed' \in BOOLEAN /\ late' \in BOOLEAN /\ leaked' \in BOOLEAN
    BY <1>3, <2>2 DEF SocketTypeOK
  <2>7. retry' \in BOOLEAN /\ strays' \in Nat  BY <1>2, <2>2 DEF SocketTypeOK
  <2>8. SocketTypeOK'  BY <2>3, <2>4, <2>5, <2>6, <2>7 DEF SocketTypeOK
  <2>9. OneConnection' /\ OneTimer' /\ OwnLine'
    BY <1>2, <1>3, <2>1 DEF SocketServed, OneConnection, OneTimer, OwnLine, Alive
  <2>. QED  BY <1>3, <2>8, <2>9, MessagesKept DEF SocketServed
<1>5. CASE ~(explicit \/ wsToken = NoToken)
  <2>1. /\ cur' = [state |-> "connecting", url |-> wsToken]
        /\ orphans' = orphans /\ status' = "CONNECTING"
    BY <1>1, <1>5 DEF Retry
  <2>2. SocketTypeOK'
    <3>1. SocketTypeOK  BY DEF SocketServed
    <3>2. cur' \in [state : {"none", "connecting", "open", "dead"}, url : Token \cup {NoToken}]
      BY <2>1, <3>1 DEF SocketTypeOK
    <3>3. /\ wsToken' \in Token \cup {NoToken} /\ asking' \in Token \cup {NoToken}
          /\ buffer' \subseteq Token /\ closing' \in 0..MaxClosing
      BY <1>3, <3>1 DEF SocketTypeOK
    <3>4. /\ status' \in {"CLOSED", "CONNECTING", "OPEN"} /\ orphans' \in Nat
          /\ retry' \in BOOLEAN /\ strays' \in Nat
      BY <1>2, <2>1, <3>1 DEF SocketTypeOK
    <3>5. /\ explicit' \in BOOLEAN /\ beat' \in BOOLEAN /\ pong' \in BOOLEAN
          /\ allow' \in BOOLEAN /\ confirmed' \in BOOLEAN /\ intentional' \in BOOLEAN
          /\ notified' \in BOOLEAN /\ crossed' \in BOOLEAN /\ late' \in BOOLEAN /\ leaked' \in BOOLEAN
      BY <1>3, <3>1 DEF SocketTypeOK
    <3>. QED  BY <3>2, <3>3, <3>4, <3>5 DEF SocketTypeOK
  <2>3. OneConnection' /\ OneTimer' /\ OwnLine'
    BY <1>2, <1>3, <1>5, <2>1 DEF SocketServed, OneConnection, OneTimer, OwnLine, Alive
  <2>. QED  BY <1>3, <2>2, <2>3, MessagesKept DEF SocketServed
<1>. QED  BY <1>4, <1>5

LEMMA StutterServed ==
  ASSUME SocketServed, UNCHANGED socketVars
  PROVE  SocketServed'
<1>1. UNCHANGED <<wsToken, cur, closing, orphans, status, explicit, retry, strays>>
  BY DEF socketVars
<1>2. UNCHANGED <<beat, pong, allow, confirmed, intentional, notified, asking, crossed>>
  BY DEF socketVars
<1>3. UNCHANGED <<buffer, late, leaked>>  BY DEF socketVars
<1>4. SocketTypeOK'  BY <1>1, <1>2, <1>3 DEF SocketServed, SocketTypeOK
<1>. QED  BY <1>1, <1>3, <1>4, LineKept, MessagesKept DEF SocketServed

LEMMA SocketNextServed == SocketServed /\ [SocketNext]_socketVars => SocketServed'
BY EnterServed, ReconnectServed, SocketResetServed, SocketSendServed, AskStopServed, StopServed, OpenedServed,
   BeatsServed, PongServed, LostServed, OldClosedServed, RetryServed, StutterServed
DEF SocketNext

----------------------------------------------------------------------------
(* The page has one connection, of the session it is in, and sends no      *)
(* other session's messages: the inductive invariant.                      *)
THEOREM SocketInvariance == SocketSpec => []SocketServed
<1>. QED  BY SocketInitServed, SocketNextServed, PTL DEF SocketSpec

(* No second connection is ever left open behind the store's back          *)
(* (chat/index.ts, useWebSocket).                                          *)
THEOREM OneConnectionOnly == SocketSpec => []OneConnection
<1>1. SocketServed => OneConnection  BY DEF SocketServed
<1>. QED  BY <1>1, SocketInvariance, PTL

(* What is sent to another user's account was written late: to a socket    *)
(* the page had given up, or a stop whose token was replaced meanwhile.    *)
THEOREM MessagesAreOwn == SocketSpec => []OwnMessages
<1>1. SocketServed => OwnMessages  BY DEF SocketServed
<1>. QED  BY <1>1, SocketInvariance, PTL

----------------------------------------------------------------------------
(* The socket is the link of ChatLink.                                     *)

Line == IF cur.state = "open" THEN cur.url ELSE NoToken

LEMMA LinkStart == SocketInit => Link!Init
<1>. SUFFICES ASSUME SocketInit PROVE Link!Init  OBVIOUS
<1>1. wsToken \in Token \cup {NoToken}  BY FirstToken DEF SocketInit
<1>2. cur.state # "open"  BY DEF SocketInit, NoSocket
<1>. QED  BY <1>1, <1>2 DEF Link!Init

(* Every step of the page is a step of the link, or none.                  *)
LEMMA LinkStep ==
  ASSUME SocketServed, [SocketNext]_socketVars
  PROVE  [Link!Next]_<<wsToken, Line>>
<1>. USE DEF Line, Link!Next, Link!Enter, Link!Leave, Link!Up, Link!Down
<1>1. ASSUME NEW t \in Token, SetToken(t) PROVE Link!Enter(t)
  BY <1>1 DEF SetToken, wsOpen, rawWsOpen
<1>2. CASE handleAuthReset  BY <1>2 DEF handleAuthReset, wsClose, rawWsClose, NoSocket
<1>3. CASE Reconnect
  <2>1. Line' = NoToken /\ wsToken' = wsToken  BY <1>3 DEF Reconnect, wsOpen, rawWsOpen
  <2>. QED  BY <2>1
<1>4. CASE Opened
  <2>1. cur.url = wsToken /\ wsToken # NoToken  BY <1>4 DEF Opened, SocketServed, OwnLine, Alive
  <2>2. Line = NoToken /\ Line' = wsToken /\ wsToken' = wsToken
    BY <1>4, <2>1 DEF Opened, SocketServed, SocketTypeOK
  <2>. QED  BY <2>1, <2>2
<1>5. CASE PongTimeout
  <2>1. Line' = NoToken /\ wsToken' = wsToken  BY <1>5 DEF PongTimeout, NoSocket
  <2>. QED  BY <2>1
<1>6. CASE Lost
  <2>1. Line' = NoToken /\ wsToken' = wsToken  BY <1>6 DEF Lost, onClose, SocketServed, SocketTypeOK
  <2>. QED  BY <2>1
<1>7. CASE OldClosed  BY <1>7 DEF OldClosed, onClose
<1>8. CASE Retry
  <2>1. cur.state # "open"  BY <1>8 DEF Retry, SocketServed, OneTimer, SocketTypeOK, Alive
  <2>2. Line' = NoToken /\ wsToken' = wsToken  BY <1>8, <2>1 DEF Retry
  <2>. QED  BY <2>1, <2>2
<1>9. CASE Send \/ AskStop \/ Stop \/ Handshake \/ Message \/ Beat
  BY <1>9 DEF Send, AskStop, Stop, Handshake, Message, Beat
<1>10. CASE UNCHANGED socketVars  BY <1>10 DEF socketVars
<1>. QED  BY <1>1, <1>2, <1>3, <1>4, <1>5, <1>6, <1>7, <1>8, <1>9, <1>10 DEF SocketNext

(* The socket implements the link: one line at most, opened with the token *)
(* of now, never kept when it changes.                                     *)
THEOREM ImplementsLink == SocketSpec => LinkSpec
<1>1. SocketServed /\ [SocketNext]_socketVars => [Link!Next]_<<wsToken, Line>>  BY LinkStep
<1>. QED  BY <1>1, LinkStart, SocketInvariance, PTL DEF SocketSpec, LinkSpec, Link!Spec, Line

-----------------------------------------------------------------------------
(* The session                                                             *)

HIDE DEF flags, timers, socketHistory

USE TokensAssumption, SessionAssumption DEF storage, layer, server, sessionHistory

Sound == ~half /\ ~mixed

(* Logins in flight come from before, and are whose they were.             *)
LoginsKept ==
  \A r \in Slot : request'[r].kind \in {"login", "loginMe"} =>
    /\ request'[r].kind = request[r].kind
    /\ request'[r].own = request[r].own
    /\ request'[r].kind = "login" => Owner(request'[r].tok) \in User

(* A token has a user, NoToken has none.                                   *)
LEMMA Owners ==
  /\ Owner(NoToken) = NoUser
  /\ \A t \in Token : Owner(t) \in User /\ Owner(t) # NoUser
<1>1. Owner(NoToken) = NoUser  BY DEF Owner
<1>2. ASSUME NEW t \in Token PROVE Owner(t) \in User /\ Owner(t) # NoUser
  <2>1. t # NoToken /\ t[1] \in User  BY DEF Token
  <2>. QED  BY <2>1 DEF Owner
<1>. QED  BY <1>1, <1>2

(* The next token of a user is one, and is theirs.                         *)
LEMMA Issued ==
  ASSUME SessionTypeOK, NEW u \in User, Issue(u)
  PROVE  /\ NextToken(u) \in Token /\ Owner(NextToken(u)) = u
         /\ issued' \in [User -> 0..MaxSerial]
<1>1. issued[u] \in 0..MaxSerial /\ issued[u] < MaxSerial  BY DEF SessionTypeOK, Issue
<1>2. issued[u] + 1 \in 1..MaxSerial  BY <1>1
<1>3. NextToken(u) \in Token  BY <1>2 DEF NextToken, Token
<1>4. Owner(NextToken(u)) = u
  <2>1. NextToken(u) # NoToken /\ NextToken(u)[1] = u  BY <1>3 DEF NextToken
  <2>. QED  BY <2>1 DEF Owner
<1>5. issued' \in [User -> 0..MaxSerial]
  <2>1. issued \in [User -> 0..MaxSerial] /\ issued' = [issued EXCEPT ![u] = @ + 1]
    BY DEF SessionTypeOK, Issue
  <2>2. issued[u] + 1 \in 0..MaxSerial  BY <1>1
  <2>. QED  BY <2>1, <2>2
<1>. QED  BY <1>3, <1>4, <1>5

----------------------------------------------------------------------------
(* Requests.                                                               *)

LEMMA NoIdle == Idle.kind = "none" /\ Idle.tok = NoToken /\ Idle.waiting = FALSE
BY DEF Idle

(* What a request in flight is made of.                                    *)
LEMMA RequestType ==
  ASSUME SessionTypeOK, NEW s \in Slot
  PROVE  /\ request[s] \in Requests
         /\ request[s].tok \in Token \cup {NoToken}
         /\ request[s] = Idle
              \/ request[s] \in [kind : Kind, tok : Carried, own : Carried, waiting : BOOLEAN]
<1>1. request[s] \in Requests  BY DEF SessionTypeOK
<1>2. request[s] = Idle
        \/ request[s] \in [kind : Kind, tok : Carried, own : Carried, waiting : BOOLEAN]
  BY <1>1 DEF Requests
<1>3. request[s].tok \in Token \cup {NoToken}
  BY <1>2, NoIdle DEF Carried
<1>. QED  BY <1>1, <1>2, <1>3

(* A request ends.                                                         *)
LEMMA FreeKeeps ==
  ASSUME SessionServed, NEW s \in Slot, request' = Free(s)
  PROVE  /\ request' \in [Slot -> Requests] /\ LoginsKept
         /\ request[s].kind # "loginMe" /\ LoggingIn => LoggingIn'
<1>1. request \in [Slot -> Requests]  BY DEF SessionServed, SessionTypeOK
<1>2. request' \in [Slot -> Requests]  BY <1>1 DEF Free, Requests
<1>3. request'[s] = Idle /\ \A r \in Slot \ {s} : request'[r] = request[r]  BY <1>1 DEF Free
<1>4. LoginsKept  BY <1>3, NoIdle DEF LoginsKept, SessionServed, OneLogin
<1>5. ASSUME request[s].kind # "loginMe", LoggingIn PROVE LoggingIn'
  <2>1. PICK r \in Slot : request[r].kind = "loginMe"  BY <1>5 DEF LoggingIn
  <2>2. request'[r].kind = "loginMe"  BY <1>3, <1>5, <2>1
  <2>. QED  BY <2>2 DEF LoggingIn
<1>. QED  BY <1>2, <1>4, <1>5

(* A request of another kind than a login begins in a free slot.           *)
LEMMA SendKeeps ==
  ASSUME SessionServed, NEW s \in Slot, NEW kind \in Kind \ {"login", "loginMe"},
         NEW tok \in Token \cup {NoToken}, SendAs(s, kind, tok)
  PROVE  request' \in [Slot -> Requests] /\ LoginsKept /\ (LoggingIn => LoggingIn')
<1>1. request \in [Slot -> Requests]  BY DEF SessionServed, SessionTypeOK
<1>2. Request(kind, tok) \in Requests /\ Request(kind, tok).kind = kind
  BY DEF Request, Requests, Carried
<1>3. request' = [request EXCEPT ![s] = Request(kind, tok)] /\ request[s] = Idle  BY DEF SendAs
<1>4. request' \in [Slot -> Requests]  BY <1>1, <1>2, <1>3
<1>5. request'[s] = Request(kind, tok) /\ \A r \in Slot \ {s} : request'[r] = request[r]
  BY <1>1, <1>3
<1>6. LoginsKept  BY <1>2, <1>5 DEF LoginsKept, SessionServed, OneLogin
<1>7. ASSUME LoggingIn PROVE LoggingIn'
  <2>1. PICK r \in Slot : request[r].kind = "loginMe"  BY <1>7 DEF LoggingIn
  <2>2. request'[r].kind = "loginMe"  BY <1>3, <1>5, <2>1, NoIdle
  <2>. QED  BY <2>2 DEF LoggingIn
<1>. QED  BY <1>4, <1>6, <1>7

(* A request in flight keeps what it is, with another token or not.        *)
LEMMA AgainKeeps ==
  ASSUME SessionServed, request' \in [Slot -> Requests],
         \A r \in Slot : /\ request'[r].kind = request[r].kind /\ request'[r].own = request[r].own
                         /\ request'[r].tok = request[r].tok \/ Owner(request'[r].tok) \in User
                              \/ request[r].kind # "login"
  PROVE  LoginsKept /\ (LoggingIn => LoggingIn')
<1>1. LoginsKept  BY DEF LoginsKept, SessionServed, OneLogin
<1>2. LoggingIn => LoggingIn'  BY DEF LoggingIn
<1>. QED  BY <1>1, <1>2

----------------------------------------------------------------------------
(* The three ways in which storage moves while a login keeps its place.    *)

LEMMA OneLoginKept ==
  ASSUME SessionServed, LoginsKept, Sound' => Sound,
         Sound' /\ stored = NoToken => stored' = NoToken
  PROVE  OneLogin'
<1>1. ASSUME NEW r \in Slot, NEW s \in Slot,
             request'[r].kind \in {"login", "loginMe"}, request'[s].kind \in {"login", "loginMe"}
      PROVE  r = s
  BY <1>1 DEF LoginsKept, SessionServed, OneLogin
<1>2. ASSUME NEW s \in Slot, request'[s].kind = "login"
      PROVE  /\ Owner(request'[s].tok) \in User
             /\ Sound' => stored' = NoToken
  BY <1>2 DEF LoginsKept, SessionServed, OneLogin, Sound
<1>. QED  BY <1>1, <1>2 DEF OneLogin, Sound, Owner

(* It stands still.                                                        *)
LEMMA StillServed ==
  ASSUME SessionServed, LoginsKept, Sound' => Sound,
         UNCHANGED <<stored, rStored, token, info>>, atLogin' => atLogin,
         Sound' /\ LoggingIn => LoggingIn'
  PROVE  OneLogin' /\ LoginKeeps' /\ OneSession'
<1>1. OneLogin'  BY OneLoginKept
<1>2. ASSUME Sound' PROVE LoginKeeps' /\ OneSession'
  <2>1. Sound /\ (LoggingIn => LoggingIn')  BY <1>2
  <2>2. \A s \in Slot : request'[s].kind = "loginMe" => stored' \in {request'[s].own, NoToken}
    BY <2>1 DEF LoginsKept, SessionServed, LoginKeeps, Sound
  <2>3. rStored' = Owner(stored')  BY <2>1 DEF SessionServed, LoginKeeps, Sound, Owner
  <2>4. atLogin' /\ ~LoggingIn' => stored' = NoToken
    BY <2>1 DEF SessionServed, LoginKeeps, Sound
  <2>5. /\ token' = stored' \/ LoggingIn'
        /\ info' # NoUser => info' = Owner(stored')
        /\ stored' = NoToken <=> rStored' = NoUser
    BY <2>1 DEF SessionServed, OneSession, Sound, Owner
  <2>. QED  BY <2>2, <2>3, <2>4, <2>5 DEF LoginKeeps, OneSession, Owner
<1>3. CASE ~Sound'  BY <1>1, <1>3 DEF LoginKeeps, OneSession, Sound
<1>. QED  BY <1>1, <1>2, <1>3

(* The session ends.                                                       *)
LEMMA SessionResetServed ==
  ASSUME SessionServed, LoginsKept, Sound' => Sound, resetStore
  PROVE  OneLogin' /\ LoginKeeps' /\ OneSession'
<1>1. stored' = NoToken /\ rStored' = NoUser /\ token' = NoToken /\ info' = NoUser
  BY DEF resetStore
<1>2. OneLogin'  BY <1>1, OneLoginKept
<1>3. LoginKeeps'  BY <1>1 DEF LoginKeeps, Owner
<1>4. OneSession'  BY <1>1 DEF OneSession
<1>. QED  BY <1>2, <1>3, <1>4

(* A new token comes: for the user of now, or it is mixed.                 *)
LEMMA TokenServed ==
  ASSUME SessionServed, LoginsKept, half' = half,
         NEW u \in User, NEW t \in Token, Owner(t) = u, setToken(t),
         rStored' \in {rStored, u}, UNCHANGED <<info, atLogin>>, MixToken(u)
  PROVE  OneLogin' /\ LoginKeeps' /\ OneSession'
<1>1. mixed' = (mixed \/ u # Owner(stored) \/ LoggingIn)  BY DEF MixToken
<1>2. Sound' => Sound /\ u = Owner(stored) /\ ~LoggingIn  BY <1>1 DEF Sound
<1>3. u # NoUser /\ t # NoToken /\ stored' = t /\ token' = t  BY DEF setToken
<1>4. Sound' => stored # NoToken  BY <1>2, <1>3, Owners
<1>5. OneLogin'  BY <1>2, <1>4, OneLoginKept
<1>6. ASSUME Sound' PROVE LoginKeeps' /\ OneSession'
  <2>1. Sound /\ u = Owner(stored) /\ ~LoggingIn  BY <1>2, <1>6
  <2>2. rStored' = u  BY <2>1 DEF SessionServed, LoginKeeps, Sound
  <2>3. \A s \in Slot : request'[s].kind # "loginMe"  BY <2>1 DEF LoginsKept, LoggingIn
  <2>4. ~atLogin'  BY <1>3, <1>4, <1>6, <2>1 DEF SessionServed, LoginKeeps, Sound
  <2>5. info' # NoUser => info' = u  BY <2>1 DEF SessionServed, OneSession, Sound
  <2>6. Owner(stored') = u  BY <1>3
  <2>. QED  BY <1>3, <2>2, <2>3, <2>4, <2>5, <2>6 DEF LoginKeeps, OneSession, Owner
<1>7. CASE ~Sound'  BY <1>5, <1>7 DEF LoginKeeps, OneSession, Sound
<1>. QED  BY <1>5, <1>6, <1>7

----------------------------------------------------------------------------
(* Types, where only some of the state moves.                              *)

LEMMA StorageType ==
  ASSUME SessionTypeOK, UNCHANGED <<stored, rStored, token, info>> \/ resetStore
  PROVE  /\ stored' \in Token \cup {NoToken} /\ token' \in Token \cup {NoToken}
         /\ rStored' \in User \cup {NoUser} /\ info' \in User \cup {NoUser}
BY DEF SessionTypeOK, resetStore

LEMMA KeepUnfolds ==
  ASSUME Keep
  PROVE  UNCHANGED <<stored, rStored, token, info>> /\ atLogin' = atLogin
BY DEF Keep

LEMMA SessionSendServed ==
  ASSUME SessionServed, NEW s \in Slot, Load(s) \/ Navigate(s) \/ Logout(s)
  PROVE  SessionServed'
<1>1. PICK kind \in {"data", "me", "logout"} : SendAs(s, kind, stored)
  BY DEF Load, Navigate, Logout
<1>2. UNCHANGED <<stored, rStored, token, info>> /\ atLogin' \in {atLogin, FALSE}
  BY KeepUnfolds DEF Load, Navigate, Logout
<1>3. stored \in Token \cup {NoToken} /\ atLogin \in BOOLEAN  BY DEF SessionServed, SessionTypeOK
<1>4. kind \in Kind \ {"login", "loginMe"}  BY DEF Kind
<1>5. request' \in [Slot -> Requests] /\ LoginsKept /\ (LoggingIn => LoggingIn')
  BY <1>1, <1>3, <1>4, SendKeeps
<1>6. UNCHANGED <<refreshFn, refresh, clears, modal, issued, expired, refused, half, mixed>>
  BY <1>1 DEF SendAs
<1>7. SessionTypeOK'  BY <1>2, <1>3, <1>5, <1>6 DEF SessionServed, SessionTypeOK
<1>8. Sound' => Sound  BY <1>6 DEF Sound
<1>9. atLogin' => atLogin  BY <1>2, <1>3
<1>10. OneLogin' /\ LoginKeeps' /\ OneSession'  BY <1>2, <1>5, <1>8, <1>9, StillServed
<1>. QED  BY <1>7, <1>10 DEF SessionServed

(* A login begins on the login page, where there is no session.            *)
LEMMA LoginServed ==
  ASSUME SessionServed, NEW s \in Slot, Login(s)
  PROVE  SessionServed'
<1>1. PICK u \in User : SendAs(s, "login", <<u, 1>>)  BY DEF Login
<1>2. UNCHANGED <<stored, rStored, token, info>> /\ atLogin' = atLogin  BY KeepUnfolds DEF Login
<1>3. UNCHANGED <<refreshFn, refresh, clears, modal, issued, expired, refused, half, mixed>>
  BY <1>1 DEF SendAs
<1>4. <<u, 1>> \in Token /\ Owner(<<u, 1>>) = u
  <2>1. <<u, 1>> \in Token  BY DEF Token
  <2>2. <<u, 1>> # NoToken /\ <<u, 1>>[1] = u  BY <2>1
  <2>. QED  BY <2>1, <2>2 DEF Owner
<1>5. Request("login", <<u, 1>>) \in Requests  BY <1>4 DEF Request, Requests, Carried, Kind
<1>6. request \in [Slot -> Requests] /\ atLogin \in BOOLEAN  BY DEF SessionServed, SessionTypeOK
<1>7. request' = [request EXCEPT ![s] = Request("login", <<u, 1>>)]  BY <1>1 DEF SendAs
<1>8. /\ request' \in [Slot -> Requests]
      /\ request'[s] = Request("login", <<u, 1>>)
      /\ \A r \in Slot \ {s} : request'[r] = request[r]
  BY <1>5, <1>6, <1>7
<1>9. request'[s].kind = "login" /\ request'[s].tok = <<u, 1>>  BY <1>8 DEF Request
<1>10. \A r \in Slot : request[r].kind \notin {"login", "loginMe"}  BY DEF Login
<1>11. SessionTypeOK'  BY <1>2, <1>3, <1>8 DEF SessionServed, SessionTypeOK
<1>12. Sound => stored = NoToken
  BY <1>10 DEF Login, SessionServed, LoginKeeps, Sound, LoggingIn
<1>13. OneLogin'
  <2>1. \A r \in Slot : request'[r].kind \in {"login", "loginMe"} => r = s  BY <1>8, <1>10
  <2>2. \A r \in Slot : request'[r].kind = "login" =>
          Owner(request'[r].tok) \in User /\ (~half' /\ ~mixed' => stored' = NoToken)
    BY <1>2, <1>3, <1>4, <1>9, <1>12, <2>1 DEF Sound
  <2>. QED  BY <2>1, <2>2 DEF OneLogin, Owner
<1>14. ~LoggingIn /\ ~LoggingIn'  BY <1>8, <1>9, <1>10 DEF LoggingIn
<1>15. \A r \in Slot : request'[r].kind # "loginMe"  BY <1>8, <1>9, <1>10
<1>16. LoginKeeps'
  BY <1>2, <1>3, <1>12, <1>15 DEF SessionServed, LoginKeeps, Sound, Owner
<1>17. OneSession'
  BY <1>2, <1>3, <1>14 DEF SessionServed, OneSession, Owner
<1>. QED  BY <1>11, <1>13, <1>16, <1>17 DEF SessionServed

(* The tokens of a login meet no user info, for there was no session.      *)
LEMMA LoggedInServed ==
  ASSUME SessionServed, NEW s \in Slot, LoggedIn(s)
  PROVE  SessionServed'
<1>. DEFINE u == Owner(request[s].tok)
            t == NextToken(u)
<1>1. request[s].kind = "login" /\ Issue(u)  BY DEF LoggedIn
<1>2. u \in User /\ (Sound => stored = NoToken)
  BY <1>1 DEF SessionServed, OneLogin, Sound
<1>3. t \in Token /\ Owner(t) = u /\ issued' \in [User -> 0..MaxSerial]
  BY <1>1, <1>2, Issued DEF SessionServed
<1>4. /\ stored' = t /\ rStored' = u /\ token' = token /\ info' = info /\ atLogin' = atLogin
      /\ UNCHANGED <<refreshFn, refresh, clears, modal, expired, refused, half, mixed>>
      /\ request' = [request EXCEPT ![s] = Request("loginMe", t)]
  BY DEF LoggedIn
<1>. HIDE DEF u, t
<1>5. request \in [Slot -> Requests]  BY DEF SessionServed, SessionTypeOK
<1>6. Request("loginMe", t) \in Requests  BY <1>3 DEF Request, Requests, Carried, Kind
<1>7. /\ request' \in [Slot -> Requests]
      /\ request'[s] = Request("loginMe", t)
      /\ \A r \in Slot \ {s} : request'[r] = request[r]
  BY <1>4, <1>5, <1>6
<1>8. request'[s].kind = "loginMe" /\ request'[s].own = t  BY <1>7 DEF Request
<1>9. SessionTypeOK'  BY <1>2, <1>3, <1>4, <1>7 DEF SessionServed, SessionTypeOK
<1>10. \A r \in Slot : request'[r].kind \in {"login", "loginMe"} => r = s
  BY <1>1, <1>7 DEF SessionServed, OneLogin
<1>11. OneLogin'  BY <1>8, <1>10 DEF OneLogin, Owner
<1>12. LoggingIn'  BY <1>8 DEF LoggingIn
<1>13. LoginKeeps'  BY <1>3, <1>4, <1>8, <1>10, <1>12 DEF LoginKeeps, Owner
<1>14. Sound => info = NoUser  BY <1>2, Owners DEF SessionServed, OneSession, Sound
<1>15. t # NoToken /\ u # NoUser  BY <1>2, <1>3
<1>16. OneSession'  BY <1>4, <1>12, <1>14, <1>15 DEF OneSession, Sound, Owner
<1>. QED  BY <1>9, <1>11, <1>13, <1>16 DEF SessionServed

LEMMA LoggedOutServed ==
  ASSUME SessionServed, NEW s \in Slot, LoggedOut(s)
  PROVE  SessionServed'
<1>1. /\ resetStore /\ request' = Free(s)
      /\ UNCHANGED <<refreshFn, refresh, clears, modal, issued, expired, acts, refused, half, mixed>>
  BY DEF LoggedOut
<1>2. request' \in [Slot -> Requests] /\ LoginsKept  BY <1>1, FreeKeeps
<1>3. OneLogin' /\ LoginKeeps' /\ OneSession'  BY <1>1, <1>2, SessionResetServed DEF Sound
<1>4. atLogin' = TRUE  BY <1>1 DEF resetStore
<1>5. SessionTypeOK'  BY <1>1, <1>2, <1>4, StorageType DEF SessionServed, SessionTypeOK
<1>. QED  BY <1>3, <1>5 DEF SessionServed

(* The user of an answer is the one of its token, and of the session.      *)
LEMMA KnownServed ==
  ASSUME SessionServed, NEW s \in Slot, Known(s)
  PROVE  SessionServed'
<1>. DEFINE r == request[s]
            u == Owner(request[s].tok)
<1>1. /\ r.kind \in {"me", "loginMe"} /\ Valid(r) /\ info' = u /\ Mix(u)
      /\ request' = Free(s) /\ UNCHANGED <<stored, rStored, half>>
  BY DEF Known
<1>2. UNCHANGED <<refreshFn, refresh, clears, modal, issued, expired>>  BY DEF Known
<1>3. IF r.kind = "loginMe" THEN token' = r.own /\ atLogin' = FALSE ELSE UNCHANGED <<token, atLogin>>
  BY DEF Known
<1>4. r \in [kind : Kind, tok : Carried, own : Carried, waiting : BOOLEAN]
  BY <1>1, RequestType, NoIdle DEF SessionServed
<1>5. r.tok \in Token /\ r.own \in Token \cup {NoToken}  BY <1>1, <1>4 DEF Valid, Carried
<1>6. u \in User /\ u # NoUser  BY <1>5, Owners
<1>7. mixed' = (mixed \/ u # Owner(stored))  BY <1>1 DEF Mix
<1>8. request' \in [Slot -> Requests] /\ LoginsKept /\ (r.kind # "loginMe" /\ LoggingIn => LoggingIn')
  BY <1>1, FreeKeeps
<1>9. token' \in Token \cup {NoToken} /\ atLogin' \in BOOLEAN
  BY <1>3, <1>5 DEF SessionServed, SessionTypeOK
<1>10. SessionTypeOK'
  BY <1>1, <1>2, <1>6, <1>8, <1>9 DEF SessionServed, SessionTypeOK
<1>11. Sound' => Sound /\ u = Owner(stored) /\ stored # NoToken  BY <1>1, <1>6, <1>7, Owners DEF Sound
<1>12. OneLogin'  BY <1>1, <1>8, <1>11, OneLoginKept
<1>. HIDE DEF r, u
<1>13. ASSUME Sound' PROVE LoginKeeps' /\ OneSession'
  <2>1. Sound /\ u = Owner(stored) /\ stored # NoToken  BY <1>11, <1>13
  <2>2. rStored' = Owner(stored')  BY <1>1, <2>1 DEF SessionServed, LoginKeeps, Sound, Owner
  <2>3. \A q \in Slot : request'[q].kind = "loginMe" => stored' \in {request'[q].own, NoToken}
    BY <1>1, <1>8, <2>1 DEF SessionServed, LoginKeeps, LoginsKept, Sound
  <2>4. CASE r.kind = "loginMe"
    <3>1. token' = stored' /\ atLogin' = FALSE
      BY <1>1, <1>3, <2>1, <2>4 DEF SessionServed, LoginKeeps, Sound, r
    <3>. QED  BY <1>1, <1>6, <2>1, <2>2, <2>3, <3>1, Owners DEF LoginKeeps, OneSession, Owner
  <2>5. CASE r.kind # "loginMe"
    <3>1. token' = token /\ atLogin' = atLogin /\ (LoggingIn => LoggingIn')  BY <1>3, <1>8, <2>5
    <3>2. token' = stored' \/ LoggingIn'
      BY <1>1, <2>1, <3>1 DEF SessionServed, OneSession, Sound
    <3>3. atLogin' /\ ~LoggingIn' => stored' = NoToken
      BY <1>1, <2>1, <3>1 DEF SessionServed, LoginKeeps, Sound
    <3>. QED  BY <1>1, <1>6, <2>1, <2>2, <2>3, <3>2, <3>3, Owners DEF LoginKeeps, OneSession, Owner
  <2>. QED  BY <2>4, <2>5
<1>14. ~Sound' => LoginKeeps' /\ OneSession'  BY DEF LoginKeeps, OneSession, Sound
<1>. QED  BY <1>10, <1>12, <1>13, <1>14 DEF SessionServed

LEMMA LoadedServed ==
  ASSUME SessionServed, NEW s \in Slot, Loaded(s)
  PROVE  SessionServed'
<1>1. /\ request[s].kind = "data" /\ request' = Free(s)
      /\ UNCHANGED <<stored, rStored, token, info>> /\ atLogin' = atLogin
      /\ UNCHANGED <<refreshFn, refresh, clears, modal, issued, expired, acts, refused, half, mixed>>
  BY KeepUnfolds DEF Loaded
<1>2. request' \in [Slot -> Requests] /\ LoginsKept /\ (LoggingIn => LoggingIn')  BY <1>1, FreeKeeps
<1>3. OneLogin' /\ LoginKeeps' /\ OneSession'  BY <1>1, <1>2, StillServed DEF Sound
<1>4. SessionTypeOK'  BY <1>1, <1>2 DEF SessionServed, SessionTypeOK
<1>. QED  BY <1>3, <1>4 DEF SessionServed

LEMMA RenewedServed ==
  ASSUME SessionServed, NEW s \in Slot, Renewed(s)
  PROVE  SessionServed'
<1>. DEFINE u == Owner(request[s].tok)
            t == NextToken(u)
<1>1. /\ request[s].kind = "data" /\ Valid(request[s]) /\ Issue(u) /\ setToken(t) /\ MixToken(u)
      /\ request' = Free(s)
      /\ UNCHANGED <<rStored, info, atLogin, refreshFn, refresh, clears, modal, expired, acts, refused, half>>
  BY DEF Renewed
<1>2. u \in User  BY <1>1, RequestType, Owners DEF Valid, SessionServed
<1>3. t \in Token /\ Owner(t) = u /\ issued' \in [User -> 0..MaxSerial]
  BY <1>1, <1>2, Issued DEF SessionServed
<1>. HIDE DEF u, t
<1>4. request' \in [Slot -> Requests] /\ LoginsKept  BY <1>1, FreeKeeps
<1>5. OneLogin' /\ LoginKeeps' /\ OneSession'  BY <1>1, <1>2, <1>3, <1>4, TokenServed
<1>6. SessionTypeOK'  BY <1>1, <1>3, <1>4 DEF SessionServed, SessionTypeOK, setToken
<1>. QED  BY <1>5, <1>6 DEF SessionServed

(* A request ends in failure: a login then has lost its second half.       *)
LEMMA EndedServed ==
  ASSUME SessionServed, NEW s \in Slot, request' = Free(s),
         resetStore \/ Keep,
         Sound' => Sound /\ request[s].kind # "loginMe",
         modal' \in BOOLEAN, clears' \in Nat, UNCHANGED <<refreshFn, refresh, issued, expired>>
  PROVE  SessionServed'
<1>1. request' \in [Slot -> Requests] /\ LoginsKept /\ (request[s].kind # "loginMe" /\ LoggingIn => LoggingIn')
  BY FreeKeeps
<1>2. OneLogin' /\ LoginKeeps' /\ OneSession'
  BY <1>1, KeepUnfolds, StillServed, SessionResetServed
<1>3. atLogin' \in BOOLEAN  BY KeepUnfolds DEF SessionServed, SessionTypeOK, resetStore
<1>4. UNCHANGED <<stored, rStored, token, info>> \/ resetStore  BY KeepUnfolds
<1>5. SessionTypeOK'  BY <1>1, <1>3, <1>4, StorageType DEF SessionServed, SessionTypeOK
<1>. QED  BY <1>2, <1>5 DEF SessionServed

LEMMA FailedServed ==
  ASSUME SessionServed, NEW s \in Slot, Failed(s)
  PROVE  SessionServed'
<1>1. resetStore \/ Keep  BY DEF Failed, FailedKind
<1>2. half' = (half \/ request[s].kind = "loginMe") /\ request' = Free(s)  BY DEF Failed
<1>3. mixed' = mixed \/ mixed' = (mixed \/ Owner(request[s].tok) # Owner(stored))  BY DEF Failed, Mix
<1>4. UNCHANGED <<refreshFn, refresh, clears, modal, issued, expired>>  BY DEF Failed
<1>5. Sound' => Sound /\ request[s].kind # "loginMe"  BY <1>2, <1>3 DEF Sound
<1>6. modal' \in BOOLEAN /\ clears' \in Nat  BY <1>4 DEF SessionServed, SessionTypeOK
<1>. QED  BY <1>1, <1>2, <1>4, <1>5, <1>6, EndedServed

LEMMA GiveUpServed ==
  ASSUME SessionServed, NEW s \in Slot, GiveUp(s)
  PROVE  SessionServed'
<1>1. resetStore \/ Keep  BY DEF GiveUp, FailedKind
<1>2. half' = (half \/ request[s].kind = "loginMe") /\ request' = Free(s)  BY DEF GiveUp
<1>3. mixed' = mixed \/ mixed' = (mixed \/ Owner(request[s].tok) # Owner(stored))  BY DEF GiveUp, Mix
<1>4. UNCHANGED <<refreshFn, refresh, modal, issued, expired>> /\ clears' = clears + 1  BY DEF GiveUp
<1>5. Sound' => Sound /\ request[s].kind # "loginMe"  BY <1>2, <1>3 DEF Sound
<1>6. modal' \in BOOLEAN /\ clears' \in Nat  BY <1>4 DEF SessionServed, SessionTypeOK
<1>. QED  BY <1>1, <1>2, <1>4, <1>5, <1>6, EndedServed

LEMMA RefuseServed ==
  ASSUME SessionServed, NEW s \in Slot, NEW code \in Codes, RefuseAs(s, code)
  PROVE  SessionServed'
<1>1. resetStore \/ Keep  BY DEF RefuseAs, FailedKind
<1>2. half' = (half \/ request[s].kind = "loginMe") /\ request' = Free(s)  BY DEF RefuseAs
<1>3. mixed => mixed'  BY DEF RefuseAs
<1>4. UNCHANGED <<refreshFn, refresh, clears, issued, expired>> /\ modal' = (modal \/ code = "modal")
  BY DEF RefuseAs
<1>5. Sound' => Sound /\ request[s].kind # "loginMe"  BY <1>2, <1>3 DEF Sound
<1>6. modal' \in BOOLEAN /\ clears' \in Nat  BY <1>4 DEF SessionServed, SessionTypeOK
<1>. QED  BY <1>1, <1>2, <1>4, <1>5, <1>6, EndedServed

(* A request that waits, or is sent again, is the request it was.          *)
LEMMA WaitsServed ==
  ASSUME SessionServed, NEW s \in Slot, AwaitRefresh(s) \/ SendAgain(s)
  PROVE  SessionServed'
<1>. DEFINE r == request[s]
<1>1. /\ UNCHANGED <<stored, rStored, token, info>> /\ atLogin' = atLogin
      /\ UNCHANGED <<modal, issued, expired, half, mixed>>
  BY KeepUnfolds DEF AwaitRefresh, SendAgain
<1>2. request \in [Slot -> Requests] /\ stored \in Carried
  BY DEF SessionServed, SessionTypeOK, Carried
<1>3. r.kind \in {"data", "me", "loginMe"}  BY DEF AwaitRefresh, SendAgain, Refused
<1>4. r \in [kind : Kind, tok : Carried, own : Carried, waiting : BOOLEAN]
  BY <1>3, RequestType, NoIdle DEF SessionServed
<1>5. request' = [request EXCEPT ![s].waiting = TRUE] \/ request' = [request EXCEPT ![s].tok = stored]
  BY DEF AwaitRefresh, SendAgain
<1>6. /\ \A q \in Slot \ {s} : request'[q] = request[q]
      /\ request'[s] = [r EXCEPT !.waiting = TRUE] \/ request'[s] = [r EXCEPT !.tok = stored]
      /\ DOMAIN request' = Slot /\ request' = [q \in Slot |-> request'[q]]
  BY <1>2, <1>5
<1>7. /\ request'[s] \in [kind : Kind, tok : Carried, own : Carried, waiting : BOOLEAN]
      /\ request'[s].kind = r.kind /\ request'[s].own = r.own
  BY <1>2, <1>4, <1>6
<1>8. request' \in [Slot -> Requests]  BY <1>2, <1>6, <1>7 DEF Requests
<1>. HIDE DEF r
<1>9. LoginsKept /\ (LoggingIn => LoggingIn')
  <2>1. ASSUME NEW q \in Slot
        PROVE  /\ request'[q].kind = request[q].kind /\ request'[q].own = request[q].own
               /\ request'[q].tok = request[q].tok \/ Owner(request'[q].tok) \in User
                    \/ request[q].kind # "login"
    BY <1>3, <1>6, <1>7 DEF r
  <2>. QED  BY <1>8, <2>1, AgainKeeps
<1>10. OneLogin' /\ LoginKeeps' /\ OneSession'  BY <1>1, <1>9, StillServed DEF Sound
<1>11. /\ refreshFn' \in {"pending", refreshFn} /\ refresh' \in {rStored, refresh}
       /\ clears' \in {clears, clears + 1}
  BY DEF AwaitRefresh, SendAgain
<1>12. /\ refreshFn' \in {"none", "pending", "success", "failure"}
       /\ refresh' \in User \cup {NoUser} /\ clears' \in Nat
  BY <1>11 DEF SessionServed, SessionTypeOK
<1>13. SessionTypeOK'  BY <1>1, <1>8, <1>12 DEF SessionServed, SessionTypeOK
<1>. QED  BY <1>10, <1>13 DEF SessionServed

LEMMA ConfirmServed ==
  ASSUME SessionServed, Confirm
  PROVE  SessionServed'
<1>1. /\ resetStore /\ modal' = FALSE
      /\ UNCHANGED <<request, refreshFn, refresh, clears, issued, expired, acts, refused, half, mixed>>
  BY DEF Confirm
<1>2. LoginsKept  BY <1>1 DEF LoginsKept, SessionServed, OneLogin
<1>3. OneLogin' /\ LoginKeeps' /\ OneSession'  BY <1>1, <1>2, SessionResetServed DEF Sound
<1>4. atLogin' = TRUE  BY <1>1 DEF resetStore
<1>5. SessionTypeOK'  BY <1>1, <1>4, StorageType DEF SessionServed, SessionTypeOK
<1>. QED  BY <1>3, <1>5 DEF SessionServed

(* The requests that waited carry the new token.                           *)
LEMMA RefreshedServed ==
  ASSUME SessionServed, Refreshed
  PROVE  SessionServed'
<1>. DEFINE t == NextToken(refresh)
<1>1. /\ refresh # NoUser /\ Issue(refresh) /\ setToken(t) /\ rStored' = refresh /\ MixToken(refresh)
      /\ refresh' = NoUser /\ clears' = clears + 1
      /\ UNCHANGED <<info, atLogin, modal, expired, acts, refused, half>>
  BY DEF Refreshed
<1>2. refreshFn' \in {"success", refreshFn}  BY DEF Refreshed
<1>3. refresh \in User  BY <1>1 DEF SessionServed, SessionTypeOK
<1>4. t \in Token /\ Owner(t) = refresh /\ issued' \in [User -> 0..MaxSerial]
  BY <1>1, <1>3, Issued DEF SessionServed
<1>5. request' = [s \in Slot |-> IF s \in Waiting THEN [request[s] EXCEPT !.tok = t, !.waiting = FALSE]
                                                  ELSE request[s]]
  BY DEF Refreshed
<1>. HIDE DEF t
<1>6. ASSUME NEW s \in Slot
      PROVE  /\ request'[s] \in Requests
             /\ request'[s].kind = request[s].kind /\ request'[s].own = request[s].own
             /\ request'[s].tok = request[s].tok \/ Owner(request'[s].tok) \in User
                  \/ request[s].kind # "login"
  <2>1. CASE s \in Waiting
    <3>1. request[s].waiting  BY <2>1 DEF Waiting
    <3>2. request[s] \in [kind : Kind, tok : Carried, own : Carried, waiting : BOOLEAN]
      BY <3>1, RequestType, NoIdle DEF SessionServed
    <3>3. request'[s] = [request[s] EXCEPT !.tok = t, !.waiting = FALSE]  BY <1>5, <2>1
    <3>4. /\ request'[s] \in [kind : Kind, tok : Carried, own : Carried, waiting : BOOLEAN]
          /\ request'[s].kind = request[s].kind /\ request'[s].own = request[s].own
          /\ request'[s].tok = t
      BY <1>4, <3>2, <3>3 DEF Carried
    <3>. QED  BY <1>3, <1>4, <3>4 DEF Requests
  <2>2. CASE s \notin Waiting
    <3>1. request'[s] = request[s]  BY <1>5, <2>2
    <3>. QED  BY <3>1, RequestType DEF SessionServed
  <2>. QED  BY <2>1, <2>2
<1>7. request' \in [Slot -> Requests]  BY <1>5, <1>6
<1>8. LoginsKept  BY <1>6, <1>7, AgainKeeps
<1>9. OneLogin' /\ LoginKeeps' /\ OneSession'  BY <1>1, <1>3, <1>4, <1>8, TokenServed
<1>10. /\ refreshFn' \in {"none", "pending", "success", "failure"} /\ clears' \in Nat
       /\ stored' = t /\ token' = t
  BY <1>1, <1>2 DEF SessionServed, SessionTypeOK, setToken
<1>11. SessionTypeOK'
  BY <1>1, <1>3, <1>4, <1>7, <1>10 DEF SessionServed, SessionTypeOK
<1>. QED  BY <1>9, <1>11 DEF SessionServed

LEMMA RefreshFailedServed ==
  ASSUME SessionServed, RefreshFailed
  PROVE  SessionServed'
<1>1. resetStore /\ refresh' = NoUser /\ clears' = clears + 1 /\ UNCHANGED <<modal, issued, expired>>
  BY DEF RefreshFailed
<1>2. refreshFn' \in {"failure", refreshFn} /\ (mixed => mixed') /\ (half => half')
  BY DEF RefreshFailed
<1>3. request' = [s \in Slot |-> IF s \in Waiting THEN Idle ELSE request[s]]  BY DEF RefreshFailed
<1>4. request' \in [Slot -> Requests]  BY <1>3 DEF SessionServed, SessionTypeOK, Requests
<1>5. LoginsKept
  <2>1. \A s \in Slot : request'[s] = Idle \/ request'[s] = request[s]  BY <1>3
  <2>. QED  BY <2>1, NoIdle DEF LoginsKept, SessionServed, OneLogin
<1>6. OneLogin' /\ LoginKeeps' /\ OneSession'  BY <1>1, <1>2, <1>5, SessionResetServed DEF Sound
<1>7. /\ atLogin' = TRUE /\ clears' \in Nat
      /\ refreshFn' \in {"none", "pending", "success", "failure"}
  BY <1>1, <1>2 DEF resetStore, SessionServed, SessionTypeOK
<1>8. SessionTypeOK'
  BY <1>1, <1>4, <1>7, StorageType DEF SessionServed, SessionTypeOK
<1>. QED  BY <1>6, <1>8 DEF SessionServed

(* Neither the session nor a request moves.                                *)
LEMMA QuietServed ==
  ASSUME SessionServed, Forget \/ Expire \/ UNCHANGED sessionVars
  PROVE  SessionServed'
<1>1. /\ UNCHANGED <<stored, rStored, token, info>> /\ atLogin' = atLogin
      /\ UNCHANGED <<request, modal, issued, refresh, half, mixed>>
  BY DEF Forget, Expire, sessionVars
<1>2. /\ refreshFn' \in {"none", refreshFn} /\ clears' \in {clears, clears - 1}
      /\ clears' = clears - 1 => clears > 0
  BY DEF Forget, Expire, sessionVars, SessionServed, SessionTypeOK
<1>3. expired' \subseteq Token
  BY DEF Forget, Expire, sessionVars, SessionServed, SessionTypeOK
<1>4. LoginsKept /\ (LoggingIn => LoggingIn')  BY <1>1 DEF LoginsKept, SessionServed, OneLogin, LoggingIn
<1>5. OneLogin' /\ LoginKeeps' /\ OneSession'  BY <1>1, <1>4, StillServed DEF Sound
<1>6. clears' \in Nat /\ refreshFn' \in {"none", "pending", "success", "failure"}
  BY <1>2 DEF SessionServed, SessionTypeOK
<1>7. SessionTypeOK'  BY <1>1, <1>3, <1>6 DEF SessionServed, SessionTypeOK
<1>. QED  BY <1>5, <1>7 DEF SessionServed

----------------------------------------------------------------------------
(* The page begins with the session of local storage, or without one.      *)
LEMMA SessionInitServed == SessionInit => SessionServed
<1>. SUFFICES ASSUME SessionInit PROVE SessionServed  OBVIOUS
<1>1. /\ stored \in Token \cup {NoToken} /\ rStored \in User \cup {NoUser} /\ rStored = Owner(stored)
      /\ issued \in [User -> 0..MaxSerial]
  <2>1. CASE stored = NoToken /\ rStored = NoUser /\ issued = [v \in User |-> 0]
    BY <2>1, Owners
  <2>2. ASSUME NEW u \in User, stored = <<u, 1>>, rStored = u,
               issued = [v \in User |-> IF v = u THEN 1 ELSE 0]
        PROVE  /\ stored \in Token /\ rStored \in User /\ rStored = Owner(stored)
               /\ issued \in [User -> 0..MaxSerial]
    <3>1. stored \in Token  BY <2>2 DEF Token
    <3>2. stored # NoToken /\ stored[1] = u  BY <2>2, <3>1
    <3>. QED  BY <2>2, <3>1, <3>2 DEF Owner
  <2>. QED  BY <2>1, <2>2 DEF SessionInit
<1>2. /\ token = stored /\ info = NoUser /\ atLogin = (stored = NoToken)
      /\ request = [s \in Slot |-> Idle]
      /\ refreshFn = "none" /\ refresh = NoUser /\ clears = 0
      /\ modal = FALSE /\ expired = {} /\ acts = 0
      /\ refused = {} /\ half = FALSE /\ mixed = FALSE
  BY DEF SessionInit
<1>3. request \in [Slot -> Requests]  BY <1>2 DEF Requests
<1>4. SessionTypeOK  BY <1>1, <1>2, <1>3 DEF SessionTypeOK
<1>5. \A s \in Slot : request[s].kind = "none"  BY <1>2, NoIdle
<1>6. OneLogin /\ LoginKeeps /\ OneSession
  BY <1>1, <1>2, <1>5, Owners DEF OneLogin, LoginKeeps, OneSession
<1>. QED  BY <1>4, <1>6 DEF SessionServed

LEMMA SessionNextServed == SessionServed /\ [SessionNext]_sessionVars => SessionServed'
BY SessionSendServed, LoginServed, LoggedInServed, LoggedOutServed, KnownServed, LoadedServed, RenewedServed,
   FailedServed, GiveUpServed, RefuseServed, WaitsServed, ConfirmServed, RefreshedServed,
   RefreshFailedServed, QuietServed
DEF SessionNext, Answer

(* The tokens, the store and the user info stay one session's: the         *)
(* inductive invariant.                                                    *)
THEOREM SessionInvariance == SessionSpec => []SessionServed
<1>. QED  BY SessionInitServed, SessionNextServed, PTL DEF SessionSpec

(* Unless a login lost its second half or an answer came for a session     *)
(* that was over, the token of the store is the stored one, the user shown *)
(* is its user, and there is a refresh token exactly when there is one.    *)
THEOREM OneSessionOnly == SessionSpec => []OneSession
<1>1. SessionServed => OneSession  BY DEF SessionServed
<1>. QED  BY <1>1, SessionInvariance, PTL
=============================================================================
