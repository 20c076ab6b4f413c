---------------------------- MODULE SourcePreview ----------------------------
(* From a citation in an answer to the document on the screen:               *)
(*   chat-message.vue             the click on a source link                 *)
(*   reference-preview-page.vue   the page it opens in a new window          *)
(*   file-preview.vue             the preview, also used by the dialog of    *)
(*                                the knowledge base                         *)
(*                                                                           *)
(* A document has a content hash and a file name, and names repeat: asked    *)
(* by name the server answers with one of them, asked by hash with that one. *)
(* The reference's details can come from three places: what the message      *)
(* kept, the server when the link is clicked, the server when the page       *)
(* opens.  A behaviour has one host of the preview: an answer's link, or the *)
(* knowledge base's table.  The PDF viewer inside is module PdfViewer.       *)
EXTENDS Naturals, Sequences, FiniteSets

CONSTANTS Docs,      \* documents, that is content hashes
          Names,     \* file names
          NameOf,    \* the file name of each document
          Pages,     \* page numbers, from 1
          MaxRowOpens,  \* previews opened from the table
          MaxErrors   \* requests that fail

ASSUME SourceAssumption ==
    /\ NameOf \in [Docs -> Names]
    /\ {MaxRowOpens, MaxErrors} \subseteq Nat /\ Pages \subseteq Nat \ {0}
    /\ "none" \notin Docs \cup Names /\ "error" \notin Docs

NoPage == 0
Hash == Docs \cup {"none"}

VARIABLES host,    \* "answer" or "table"
          cited,   \* the link in the answer: document, page, its form
          kept,    \* what the message kept of the reference
          ask,     \* the request for the details: where it stands
          target,  \* the properties of the preview: name, hash, page, visible
          loads,   \* requests of the preview: name, hash, order
          shown,   \* what the preview shows
          spinning,
          download,  \* the last download: by which name and hash, of which citation, what came
          trail      \* budgets and what happened on the way (slips)

sourceVars == <<host, cited, kept, ask, target, loads, shown, spinning, download, trail>>

NothingShown == [doc |-> "none", page |-> NoPage]

SourceTypeOK ==
    /\ host \in {"answer", "table"}
    /\ cited \in [doc : Docs, page : Pages, form : {"page", "md5", "plain"}]
    /\ kept \in {"none", "part", "whole"}
    /\ ask \in {"idle", "click", "ready", "page", "opened"}
    /\ target \in [name : Names \cup {"none"}, hash : Hash, page : Pages \cup {NoPage},
                   visible : BOOLEAN]
    /\ loads \subseteq [name : Names, hash : Hash, at : Nat]
    /\ shown \in [doc : Hash \cup {"error"}, page : Pages \cup {NoPage}]
    /\ spinning \in BOOLEAN
    /\ download \in [name : Names \cup {"none"}, hash : Hash, wanted : Hash, got : Hash]
    /\ trail \in [opens : 0..MaxRowOpens, sent : Nat, newest : Nat, fails : 0..MaxErrors,
                 slips : SUBSET {"byName", "overtaken", "pageLost"}]

SourceInit ==
    /\ host \in {"answer", "table"}
    /\ cited \in [doc : Docs, page : Pages, form : {"page", "md5", "plain"}]
    /\ kept \in {"none", "part", "whole"}
    /\ ask = "idle"
    /\ target = [name |-> "none", hash |-> "none", page |-> NoPage, visible |-> FALSE]
    /\ loads = {} /\ shown = NothingShown /\ spinning = FALSE
    /\ download = [name |-> "none", hash |-> "none", wanted |-> "none", got |-> "none"]
    /\ trail = [opens |-> 0, sent |-> 0, newest |-> 0, fails |-> 0, slips |-> {}]

Fail == trail.fails < MaxErrors
FailsBy(ok) == IF ok THEN trail.fails ELSE trail.fails + 1

(* loadPreviewContent, n times: the old content goes, a request by hash if   *)
(* there is one, else by name, beside those still under way.                 *)
Loading(others, t, n) ==
    /\ loads' = others \cup {[name |-> t.name, hash |-> t.hash, at |-> trail.sent + i] : i \in 1..n}
    /\ shown' = NothingShown
    /\ spinning' = TRUE

-----------------------------------------------------------------------------
(* The link of an answer *)

(* handleSourceFileClick: the details are asked for unless the message kept  *)
(* all of them.                                                              *)
Click ==
    /\ host = "answer" /\ ask = "idle"
    /\ ask' = IF kept = "whole" THEN "ready" ELSE "click"
    /\ UNCHANGED <<host, cited, kept, target, loads, shown, spinning, download, trail>>

(* openReferencePreviewPage with the details d ("none": only what the link   *)
(* says, and of that not its page), and the page in the new window: the      *)
(* preview is mounted with them, and what still lacks a hash is asked again. *)
OpensWith(known, fails) ==
    LET hash == IF known \/ cited.form = "md5" THEN cited.doc ELSE "none"
        t == [name |-> NameOf[cited.doc], hash |-> hash, visible |-> TRUE,
              page |-> IF known THEN cited.page ELSE NoPage]
    IN /\ target' = t
       /\ Loading(loads, t, 1)
       /\ ask' = IF hash # "none" THEN "opened" ELSE "page"
       /\ trail' = [trail EXCEPT !.sent = @ + 1, !.fails = fails,
                             !.slips = @ \cup (IF hash = "none" THEN {"byName"} ELSE {})
                                         \cup (IF known THEN {} ELSE {"pageLost"})]

ClickAnswers ==
    /\ ask = "click"
    /\ \E ok \in BOOLEAN : (ok \/ Fail) /\ OpensWith(ok \/ kept # "none", FailsBy(ok))
    /\ UNCHANGED <<host, cited, kept, download>>

OpenKept ==
    /\ ask = "ready"
    /\ OpensWith(TRUE, trail.fails)
    /\ UNCHANGED <<host, cited, kept, download>>

(* loadReferenceDetail answers: hash and page become known, but the name is  *)
(* the same, so the preview's watcher does not load again.                   *)
DetailAnswers ==
    /\ ask = "page"
    /\ \E ok \in BOOLEAN :
        /\ ok \/ Fail
        /\ target' = IF ok THEN [target EXCEPT !.hash = cited.doc, !.page = cited.page] ELSE target
        /\ trail' = [trail EXCEPT !.fails = FailsBy(ok)]
    /\ ask' = "opened"
    /\ UNCHANGED <<host, cited, kept, loads, shown, spinning, download>>

-----------------------------------------------------------------------------
(* The knowledge base's dialog *)

(* handleFilePreview sets name, hash and visibility together.  A dialog that *)
(* had closed mounts a new preview, which loads at once and owes nothing to  *)
(* earlier answers; one reopened while it is still closing keeps its preview, *)
(* and the watchers of name and visibility each load.                        *)
OpenRow(d) ==
    /\ host = "table" /\ ~target.visible /\ trail.opens < MaxRowOpens
    /\ cited' = [cited EXCEPT !.doc = d]
    /\ \E same \in IF trail.opens = 0 THEN {FALSE} ELSE BOOLEAN :
        LET t == [name |-> NameOf[d], hash |-> d, page |-> NoPage, visible |-> TRUE]
            n == IF same THEN 2 ELSE 1
        IN /\ target' = t
           /\ Loading(IF same THEN loads ELSE {}, t, n)
           /\ trail' = [trail EXCEPT !.opens = @ + 1, !.sent = @ + n,
                                 !.newest = IF same THEN @ ELSE 0]
    /\ UNCHANGED <<host, kept, ask, download>>

CloseRow ==
    /\ host = "table" /\ target.visible
    /\ target' = [name |-> "none", hash |-> "none", page |-> NoPage, visible |-> FALSE]
    /\ UNCHANGED <<host, cited, kept, ask, loads, shown, spinning, download, trail>>

-----------------------------------------------------------------------------
(* The preview *)

(* The documents the server may answer with.                                 *)
Found(l) == IF l.hash # "none" THEN {l.hash} ELSE {d \in Docs : NameOf[d] = l.name}

(* An answer, of whichever load, is shown; the page is the one the server    *)
(* names or the one in the properties by now.                                *)
Answer(l) ==
    /\ loads' = loads \ {l}
    /\ spinning' = FALSE
    /\ \E ok \in BOOLEAN, d \in Found(l) :
        /\ ok \/ Fail
        /\ shown' = [doc |-> IF ok THEN d ELSE "error",
                     page |-> IF ok THEN target.page ELSE NoPage]
        /\ trail' = [trail EXCEPT !.fails = FailsBy(ok),
                              !.newest = IF @ > l.at THEN @ ELSE l.at,
                              !.slips = @ \cup IF trail.newest > l.at THEN {"overtaken"} ELSE {}]
    /\ UNCHANGED <<host, cited, kept, ask, target, download>>

(* Mutant: the name is asked for although the hash is known. *)
DownloadKeyName(t) == [name |-> t.name, hash |-> "none"]

(* downloadFile: by hash if there is one, else by name.                      *)
DownloadKey(t) == [name |-> t.name, hash |-> t.hash]

(* The button of a preview that has loaded (one download per behaviour).     *)
Download ==
    /\ target.visible /\ ~spinning /\ shown.doc # "error" /\ target.name # "none"
    /\ download.name = "none"
    /\ LET key == DownloadKey(target)
       IN download' = [name |-> key.name, hash |-> key.hash, wanted |-> cited.doc, got |-> "none"]
    /\ UNCHANGED <<host, cited, kept, ask, target, loads, shown, spinning, trail>>

(* Its answer: an address the browser then follows; an error is a message.   *)
DownloadAnswers ==
    /\ download.name # "none" /\ download.got = "none"
    /\ \E d \in Found(download) : download' = [download EXCEPT !.got = d]
    /\ UNCHANGED <<host, cited, kept, ask, target, loads, shown, spinning, trail>>

SourceNext ==
    \/ Click
    \/ ClickAnswers
    \/ OpenKept
    \/ DetailAnswers
    \/ \E d \in Docs : OpenRow(d)
    \/ CloseRow
    \/ \E l \in loads : Answer(l)
    \/ Download
    \/ DownloadAnswers

SourceSpec == SourceInit /\ [][SourceNext]_sourceVars

-----------------------------------------------------------------------------
Settled == target.visible /\ loads = {} /\ shown.doc \in Docs

(* Once every answer is in, the preview shows the document that was cited or *)
(* clicked - unless it was asked for by name, or an answer was overtaken by  *)
(* that of a later load.                                                     *)
PreviewOfCited ==
    Settled /\ trail.slips \cap {"byName", "overtaken"} = {} => shown.doc = cited.doc

(* The preview of a citation stands on the page the answer cites, whenever   *)
(* the reference's details were to be had from the message or the server.    *)
PreviewOnPage ==
    host = "answer" /\ Settled /\ "pageLost" \notin trail.slips => shown.page = cited.page

(* What is downloaded is the document that was cited or opened when the      *)
(* button was pressed, whatever is opened while it is fetched - unless only  *)
(* its name was known.                                                       *)
DownloadOfCited ==
    download.got # "none" /\ (download.hash # "none" \/ "byName" \notin trail.slips)
        => download.got = download.wanted

(* Citations lead to their documents, whatever is clicked, closed and opened *)
(* again while requests are under way (file-preview.vue).                    *)
CitationsLead == PreviewOfCited /\ PreviewOnPage /\ DownloadOfCited

(* Why: the newest load is of the document that is open, and until it is     *)
(* answered it is under way; what was shown after it is its answer, or was   *)
(* overtaken.                                                                *)
AsCited(hash) == hash = cited.doc \/ (hash = "none" /\ "byName" \in trail.slips)
LoadsInOrder == trail.newest <= trail.sent /\ \A l \in loads : l.at <= trail.sent
NewestLoad ==
    target.visible =>
        /\ AsCited(target.hash)
        /\ \A l \in loads : l.at = trail.sent => AsCited(l.hash)
        /\ trail.newest < trail.sent => \E l \in loads : l.at = trail.sent
        /\ trail.newest = trail.sent /\ trail.slips \cap {"byName", "overtaken"} = {}
              => shown.doc \in {"error", cited.doc}
PageOfCited ==
    host = "answer" /\ target.visible /\ "pageLost" \notin trail.slips =>
        target.page = cited.page /\ (shown.doc \in Docs => shown.page = cited.page)
DownloadAsAsked ==
    /\ download.got # "none" => download.name # "none" /\ download.got \in Found(download)
    /\ download.name # "none" =>
          /\ download.wanted \in Docs
          /\ download.hash = download.wanted \/ (download.hash = "none" /\ "byName" \in trail.slips)
SourceInv == SourceTypeOK /\ LoadsInOrder /\ NewestLoad /\ PageOfCited /\ DownloadAsAsked

-----------------------------------------------------------------------------
(* What the preview makes of the server's answer                             *)
(* (FileUploadService.build_preview_payload): the stage, the page, the clues *)
(* for the highlight, the new window, and where an address that is not       *)
(* absolute leads under each way the front end is served.                    *)

NoUrl == [kind |-> "none", origin |-> "none", version |-> "none", path |-> "none"]

-----------------------------------------------------------------------------
(* Addresses: kind is how it is written, "absolute" with its origin, "api"   *)
(* for /api/<version>/<path>, "rooted" for another /<path>, "bare" for none. *)
(* base: where the service is, [kind, origin, version]; a development server *)
(* forwards /proxy-default to the base, origin and version.                  *)

Address(kind, origin, version, path) ==
    [kind |-> kind, origin |-> origin, version |-> version, path |-> path]

(* resolveFileAccessUrl.                                                     *)
ResolveFileAccessUrl(url, base) ==
    CASE url.kind \in {"none", "absolute", "rooted"} -> url
      [] url.kind = "api" /\ base.kind = "proxy" -> Address("proxied", "page", "none", url.path)
      [] url.kind = "api" /\ base.kind = "absolute" -> Address("absolute", base.origin, url.version, url.path)
      [] url.kind = "api" /\ base.kind = "relative" -> url
      [] url.kind = "bare" -> Address(IF base.kind = "proxy" THEN "proxied" ELSE "absolute",
                                      base.origin, "none", url.path)

(* Where the browser, and the development server's proxy, take an address.   *)
Leads(a, url, base) ==
    CASE a.kind = "proxied" -> [origin |-> base.origin, path |-> a.path,
                                version |-> IF a.version = "twice" THEN "twice" ELSE base.version]
      [] a.kind = "absolute" /\ url.kind = "bare" -> [origin |-> a.origin, version |-> base.version, path |-> a.path]
      [] a.kind = "absolute" -> [origin |-> a.origin, version |-> a.version, path |-> a.path]
      [] OTHER -> [origin |-> "page", version |-> a.version, path |-> a.path]

(* An address of the interface leads to the service however the front end is *)
(* served - behind the development proxy only if it is of the version the    *)
(* proxy forwards to, for the version in the address is dropped there; an    *)
(* absolute address stays what it is.                                        *)
FileReached(url, base) ==
    LET at == Leads(ResolveFileAccessUrl(url, base), url, base)
    IN /\ url.kind = "api" /\ (base.kind = "proxy" => url.version = base.version)
            => at = [origin |-> base.origin, version |-> url.version, path |-> url.path]
       /\ url.kind = "bare" => at = [origin |-> base.origin, version |-> base.version, path |-> url.path]
       /\ url.kind = "absolute" => at.origin = url.origin /\ at.version = url.version

-----------------------------------------------------------------------------
(* The answer and the stage *)

(* build_preview_payload: what the server sends of a file of this type, when *)
(* it is asked for this page (0: none).                                      *)
Payload(type, page, url) ==
    [type |-> type, content |-> type = "text",
     previewUrl |-> IF type = "text" THEN NoUrl ELSE url,
     sourceUrl |-> IF type = "pdf" /\ page > 0 THEN url ELSE NoUrl]

(* The state the answer leaves: sourceUrl falls back to the preview's, the   *)
(* page to the one that was asked for.                                       *)
Loaded(p, page) ==
    [type |-> p.type, content |-> p.content, previewUrl |-> p.previewUrl, page |-> page,
     sourceUrl |-> IF p.sourceUrl # NoUrl THEN p.sourceUrl ELSE p.previewUrl]

Stage(s) ==
    CASE s.type = "pdf" /\ s.previewUrl # NoUrl -> "viewer"
      [] s.type = "image" /\ s.previewUrl # NoUrl -> "image"
      [] s.type = "text" -> "text"
      [] OTHER -> "placeholder"

(* openPreviewInNewTab, canOpenInNewTab.                                     *)
NewTab(s) ==
    LET address == IF s.sourceUrl # NoUrl THEN s.sourceUrl ELSE s.previewUrl
    IN [url |-> address, page |-> IF s.type = "pdf" THEN s.page ELSE 0]
CanOpenInNewTab(s) == NewTab(s).url # NoUrl

(* Whatever the type of the file: the stage shows the content the server     *)
(* sent, and there is a way to see the file - on the stage or in a window of *)
(* its own, which for a PDF opens on the page the viewer stands on.          *)
StageShows(type, page, url) ==
    LET s == Loaded(Payload(type, page, url), page)
    IN /\ s.content => Stage(s) = "text"
       /\ Stage(s) = "placeholder" => CanOpenInNewTab(s)
       /\ Stage(s) = "viewer" => NewTab(s) = [url |-> url, page |-> page]

-----------------------------------------------------------------------------
(* What the preview looks for.  A clue is a text, <<>> when it is empty.     *)

HighlightAnchor(props) == props.anchor

(* resolvedHighlightSearchText: none beside an anchor; empty and repeated    *)
(* ones are left out.                                                        *)
SearchTexts(props) ==
    IF HighlightAnchor(props) # <<>> THEN <<>>
    ELSE LET texts == <<props.search, props.chunk>>
             keep == SelectSeq(<<1, 2>>, LAMBDA i : texts[i] # <<>> /\ \A j \in 1..(i - 1) : texts[j] # texts[i])
         IN [i \in 1..Len(keep) |-> texts[keep[i]]]

(* heroHeadline: the way the reference was found, if it is known.            *)
HeroHeadline(props, type) ==
    CASE props.label # "" -> "label"
      [] props.label = "" /\ props.mode \in {"HYBRID", "TEXT_ONLY"} -> props.mode
      [] props.label = "" /\ props.mode \notin {"HYBRID", "TEXT_ONLY"} -> IF type = "pdf" THEN "located" ELSE "ready"

(* heroDescription, and the card of the clue beside it.                      *)
HeroDescription(props) ==
    CASE props.query -> "query"
      [] ~props.query /\ props.evidence -> "evidence"
      [] ~props.query /\ ~props.evidence -> IF props.anchor # <<>> THEN "anchor" ELSE "plain"
ClueCard(props) == IF props.evidence THEN "evidence" ELSE IF props.anchor # <<>> THEN "anchor" ELSE "none"

(* The viewer is given one kind of clue: the anchor if there is one, else    *)
(* each other text once, and a clue whenever there is any; the words beside  *)
(* it speak of a clue only if there is one, and of the one that is shown.    *)
ClueIsOne(props, type) ==
    /\ HighlightAnchor(props) # <<>> => SearchTexts(props) = <<>>
    /\ {SearchTexts(props)[i] : i \in DOMAIN SearchTexts(props)}
         = IF props.anchor # <<>> THEN {} ELSE {props.search, props.chunk} \ {<<>>}
    /\ Len(SearchTexts(props)) = 2 => SearchTexts(props)[1] # SearchTexts(props)[2]
    /\ HeroDescription(props) = "evidence" => ClueCard(props) = "evidence"
    /\ HeroDescription(props) = "anchor" => ClueCard(props) = "anchor"
    /\ HeroHeadline(props, type) = "located" => type = "pdf" /\ props.mode = ""
=============================================================================
