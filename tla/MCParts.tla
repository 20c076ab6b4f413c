------------------------------- MODULE MCParts -------------------------------
(* The smaller parts of the system in one run.  They share nothing, so a     *)
(* behaviour moves one of them, chosen at the start, and the others stand    *)
(* still: the state spaces are added, not multiplied.  The pure functions    *)
(* are evaluated over a sample that is chosen at the start too.              *)
EXTENDS Highlight, Citations, Palette, Menus, ListViews, EditForms, SourcePreview, Theme,
        DataTables, UsageMonitor, ProfilePage, RechargePage, Requests, UpdateNotice,
        OrganizationTags, Conversations, MemoryExtraction, UploadDialog

CONSTANTS Letters,      \* symbols of the texts
          MaxItems      \* text items and lines of a page, rectangles

VARIABLES focus, sample

Functions == {"links", "urls", "anchor", "direct", "segment", "paragraph", "frame", "lines", "antd", "recommended", "name",
              "tokens", "menus", "vue", "tabs", "cells", "paging", "offers", "amounts", "alerts",
              "stage", "clues", "address", "chunks"}
Machines == {"lists", "forms", "source", "theme", "chart", "search", "columns", "profile", "recharge",
             "requests", "notice", "organization", "conversation", "memory", "upload"}

vars == <<focus, sample, listVars, formVars, sourceVars, themeVars, chartVars, searchVars,
          columnVars, profileVars, shopVars, requestVars, noticeVars, tagVars, convVars, memoryVars, dialogVars>>

-----------------------------------------------------------------------------
(* Values for the constants                                                  *)

CutSmall == [clue |-> 2, split |-> 4, share |-> 3, anchor |-> 2, partial |-> 2, most |-> 3,
             prefix |-> 2, cover |-> 4, window |-> 2]
SameName == [d \in Docs |-> CHOOSE n \in Names : TRUE]
Sizes == [f \in DialogFiles |-> IF f = "small" THEN 1 ELSE 3]
TagLimits == [t \in DialogTags |-> IF t = "a" THEN 2 ELSE 0]
Finds == [k \in Keywords |-> IF k = "a" THEN <<"chat", "user">> ELSE <<"user">>]

-----------------------------------------------------------------------------
(* Samples.  Of pages and clues the clue is chosen at the start, of a text   *)
(* with addresses its first token, of an answer its first citation, of lines *)
(* the first rectangle, of a menu tree its first node, of three users the    *)
(* first; every page, rest and other two are tried with it.                  *)

Texts(m, n) == UNION {[1..k -> Letters] : k \in m..n}
SeqsUpTo(S, n) == UNION {[1..k -> S] : k \in 1..n}

DirectPages == SeqsUpTo(Texts(0, 2), MaxItems)
DirectClues == Texts(1, 5)

SegmentPages == {s \in SeqsUpTo(Texts(1, 3), 2) : s[1][1] = "a"}
SegmentClues == UNION {[1..k -> Letters \cup {",", ":"}] : k \in 1..4}

(* The letters stand for nothing: the first one may be called "a".           *)
ParagraphPages ==
    {s \in SeqsUpTo([text : Texts(2, 2), break : BOOLEAN, stop : BOOLEAN], MaxItems) : s[1].text[1] = "a"}
ParagraphClues ==
    {<<c>> : c \in Texts(3, 4)} \cup {<<c, d>> : c \in {<<"a", "a">>, <<"a", "b">>}, d \in Texts(4, 4)}

Words == {<<Tok("word", 1)>>, <<Tok("word", 1), Tok("word", 2)>>}
Entries == [name : Words, form : {"page", "md5", "plain"}, glue : {"same", "apart", "meets"}]
Numbered(es) == [k \in 1..Len(es) |-> [number |-> k, name |-> es[k].name, form |-> es[k].form,
                                      tail |-> IF es[k].form = "plain" THEN 0 ELSE 4 + k, glue |-> es[k].glue]]
LinkRests == {<<>>} \cup SeqsUpTo(Entries, MaxItems - 1)
UrlTokens == {Tok(k, 0) : k \in UrlKinds \cup {"lt", "gt", "target"}}
UrlRests == {<<>>} \cup SeqsUpTo(UrlTokens, 4)
AnchorSamples == SeqsUpTo({Tok(k, 3) : k \in {"word", "open", "close", "semi"}}, 3)
                    \X {Numbered(es) : es \in SeqsUpTo([name : Words, form : {"page", "plain"}, glue : {"same"}], 2)}

Rects == [left : {0, 6, 9}, top : {0, 3, 12}, width : {1, 5}, height : {4, 6}]
PageWidth == 10
PageHeight == 16
FrameSamples == {{r, s} : r, s \in {q \in Rects : Right(q) <= PageWidth /\ Bottom(q) <= PageHeight}}
WideRects == {r \in Rects : r.width > 1}
LineRests == {<<>>} \cup SeqsUpTo(WideRects, MaxItems - 1)

AntdSamples == {c \in [h : {0, 1, 8, 59, 60, 61, 120, 239, 240, 241, 352, 359},
                       s : {0, 1, 5, 6, 9, 10, 50, 95, 100}, v : {0, 5, 50, 99, 100}] :
                  c.s = 0 => c.h = 0}

Hues == {0, 20, 200}
Colors == {c \in [h : Hues, s : {0, 40, 90}, l : {10, 45, 50, 95}] : c.s = 0 => c.h = 0}
Distance(c, d) == (c.h - d.h) * (c.h - d.h) + (c.s - d.s) * (c.s - d.s) + (c.l - d.l) * (c.l - d.l)
FamilyOf(h, s) == <<[number |-> 50, color |-> [h |-> h, s |-> s, l |-> 94]],
                    [number |-> 500, color |-> [h |-> h, s |-> s, l |-> 48]],
                    [number |-> 950, color |-> [h |-> h, s |-> 0, l |-> 12]]>>
Families == <<FamilyOf(0, 0), FamilyOf(20, 80), FamilyOf(210, 60)>>

TokenSamples == SUBSET {<<"container", 0>>, <<"layout", 0>>, <<"inverted", 0>>, <<"base-text", 0>>}
LightTokens == [x \in {"container", "layout", "inverted", "base-text"} \X {0} |-> "light"]
PaletteValues == [k \in ThemeColorKeys |-> [n \in Numbers |-> k]]

Route(name, order, roles, hidden, active, kind, children) ==
    [name |-> name, order |-> order, roles |-> roles, hidden |-> hidden, active |-> active,
     kind |-> kind, children |-> children]

(* A menu tree of two first levels, the first with up to two children, one   *)
(* of which may have a child.                                                *)
Below(name, roles, hidden, active) == Route(name, 0, roles, hidden, active, "view", <<>>)
MenuKids ==
    {<<>>} \cup
        {<<Route(<<"a", "x">>, xo, xr, xh, <<>>, "view", deep), Below(<<"a", "y">>, yr, yh, ya)>> :
            xo \in {0, 1}, xr \in SUBSET {"ADMIN"}, xh \in BOOLEAN,
            deep \in {<<>>} \cup {<<Below(<<"a", "x", "z">>, zr, zh, za)>> :
                         zr \in SUBSET {"ADMIN"}, zh \in BOOLEAN, za \in {<<>>, <<"a", "x">>, <<"b">>}},
            yr \in SUBSET {"ADMIN"}, yh \in BOOLEAN, ya \in {<<>>, <<"a">>}}
MenuSamples == [order : {0, 2}, roles : SUBSET {"ADMIN"}, hidden : BOOLEAN]
MenuTree(first, kids) ==
    <<Route(<<"a">>, first.order, first.roles, first.hidden, <<>>, "layout", kids), Below(<<"b">>, {}, FALSE, <<>>)>>

VueSamples ==
    {<<Route(<<"a">>, 0, {}, FALSE, <<>>, ka,
         IF top THEN <<>>
         ELSE <<Route(<<"a", "x">>, 0, {}, FALSE, <<>>, kx,
                  IF flat THEN <<>> ELSE <<Route(<<"a", "x", "z">>, 0, {}, FALSE, <<>>, kz, <<>>)>>),
                Route(<<"a", "y">>, 0, {}, FALSE, <<>>, ky, <<>>)>>)>> :
        ka, kx, ky, kz \in {"view", "broken"}, top, flat \in BOOLEAN}

HomeTab == [id |-> GetTabIdByRoute("chat", <<"m">>, FALSE), fixed |-> 0]
TabSamples ==
    {s \in SeqsUpTo([id : {GetTabIdByRoute(p, <<"m">>, m) : p \in {"chat", "user"}, m \in BOOLEAN},
                     fixed : 0..2], MaxItems) :
        \A j, k \in 1..Len(s) : j # k => s[j].id # s[k].id}

PagingSamples == [all : {[i \in 1..n |-> i] : n \in 0..7}, size : 1..4]
People == {[id |-> "u1", admin |-> FALSE], [id |-> "u1", admin |-> TRUE]}
OfferSamples ==
    [me : People, row : [owner : {"u1", "u2", "unset"}, status : {"break", "completed", "uploading"}],
     order : [status : {"NOT_PAY", "PAYING", "SUCCEED", "FAIL", "CANCELLED"}]]
AmountSamples == [amount : {0, 1, 99, 100, 149, 150, 1999, 1200000}, error : {-1, 0, 1}, unit : {1, 100}]

Uses == {[used |-> u, requests |-> r, increase |-> i, consume |-> c] :
            u \in {0, 5, 9}, r \in {0, 1}, i \in {0, 10}, c \in {0, 9, 10, 12}}
UsageSamples == {x \in Uses : x.used <= x.consume /\ (x.used > 0 => x.requests > 0)}

Versions == {"v1", "v2"}
Given(kind) == Address(kind, IF kind = "absolute" THEN "store" ELSE "page",
                       IF kind \in {"api"} THEN "v1" ELSE "none", "p")
StageSamples == [type : {"pdf", "image", "text", "download"}, page : 0..2, url : {Given("absolute"), Given("api")}]
ClueSamples ==
    [props : [anchor : Texts(0, 1), search : Texts(0, 1), chunk : Texts(0, 1), label : {"", "given"},
              mode : {"", "HYBRID", "TEXT_ONLY"}, query : BOOLEAN, evidence : BOOLEAN],
     type : {"pdf", "text"}]
AddressSamples ==
    [url : {[Given(k) EXCEPT !.version = v] : k \in {"absolute", "api", "rooted", "bare"}, v \in Versions} \cup {NoUrl},
     base : {[kind |-> "relative", origin |-> "page", version |-> v] : v \in Versions}
              \cup [kind : {"proxy", "absolute"}, origin : {"service"}, version : Versions]]

ChunkSamples == [size : 0..9, chunk : 1..4]

Roles == {"ADMIN", "USER"}
SamplesOf(f) ==
    CASE f = "links" -> Entries
      [] f = "urls" -> UrlTokens
      [] f = "anchor" -> AnchorSamples
      [] f = "direct" -> DirectClues
      [] f = "segment" -> SegmentClues
      [] f = "paragraph" -> ParagraphClues
      [] f = "frame" -> FrameSamples
      [] f = "lines" -> WideRects
      [] f = "antd" -> AntdSamples
      [] f \in {"recommended", "name"} -> Colors
      [] f = "tokens" -> TokenSamples
      [] f = "menus" -> MenuSamples
      [] f = "vue" -> VueSamples
      [] f = "tabs" -> TabSamples
      [] f = "cells" -> DOMAIN ColumnsOf
      [] f = "paging" -> PagingSamples
      [] f = "offers" -> OfferSamples
      [] f = "amounts" -> AmountSamples
      [] f = "alerts" -> UsageSamples
      [] f = "stage" -> StageSamples
      [] f = "clues" -> ClueSamples
      [] f = "address" -> AddressSamples
      [] f = "chunks" -> ChunkSamples

-----------------------------------------------------------------------------
(* The composition                                                           *)

Init ==
    /\ \/ focus \in Functions /\ sample \in SamplesOf(focus)
       \/ focus \in Machines /\ sample = "none"
    /\ ListInit /\ (focus = "lists" \/ view = "search")
    /\ FormInit /\ (focus = "forms" \/ what = "quota")
    /\ SourceInit /\ (focus = "source" \/ (host = "table" /\ kept = "none" /\ cited =
                        CHOOSE c \in [doc : Docs, page : Pages, form : {"md5"}] : TRUE))
    /\ ThemeInit /\ (focus = "theme" \/ (~system.dark /\ ~system.dev))
    /\ ChartInit /\ (focus = "chart" \/ ~darkMode)
    /\ SearchInit
    /\ ColumnInit /\ (focus = "columns" \/ tableOf = "tags")
    /\ ProfileInit /\ (focus = "profile" \/ preference.mode = "FREE")
    /\ RechargeInit /\ RequestInit
    /\ OrganizationInit /\ ConversationInit /\ MemoryInit
    /\ UploadDialogInit /\ (focus = "upload" \/ (who.admin /\ who.tags = DialogTags))
    /\ NoticeInit /\ (focus = "notice" \/ (front /\ build = 0))

(* All but the part that moves.                                              *)
Others(part) ==
    /\ UNCHANGED <<focus, sample>>
    /\ IF part = "lists" THEN TRUE ELSE UNCHANGED listVars
    /\ IF part = "forms" THEN TRUE ELSE UNCHANGED formVars
    /\ IF part = "source" THEN TRUE ELSE UNCHANGED sourceVars
    /\ IF part = "theme" THEN TRUE ELSE UNCHANGED themeVars
    /\ IF part = "chart" THEN TRUE ELSE UNCHANGED chartVars
    /\ IF part = "search" THEN TRUE ELSE UNCHANGED searchVars
    /\ IF part = "columns" THEN TRUE ELSE UNCHANGED columnVars
    /\ IF part = "profile" THEN TRUE ELSE UNCHANGED profileVars
    /\ IF part = "recharge" THEN TRUE ELSE UNCHANGED shopVars
    /\ IF part = "requests" THEN TRUE ELSE UNCHANGED requestVars
    /\ IF part = "notice" THEN TRUE ELSE UNCHANGED noticeVars
    /\ IF part = "organization" THEN TRUE ELSE UNCHANGED tagVars
    /\ IF part = "conversation" THEN TRUE ELSE UNCHANGED convVars
    /\ IF part = "memory" THEN TRUE ELSE UNCHANGED memoryVars
    /\ IF part = "upload" THEN TRUE ELSE UNCHANGED dialogVars

Lists == focus = "lists" /\ ListNext /\ Others("lists")
Forms == focus = "forms" /\ FormNext /\ Others("forms")
Previews == focus = "source" /\ SourceNext /\ Others("source")
Themes == focus = "theme" /\ ThemeNext /\ Others("theme")
Charts == focus = "chart" /\ ChartNext /\ Others("chart")
Searches == focus = "search" /\ SearchNext /\ Others("search")
Columns == focus = "columns" /\ ColumnNext /\ Others("columns")
Profiles == focus = "profile" /\ ProfileNext /\ Others("profile")
Recharges == focus = "recharge" /\ RechargeNext /\ Others("recharge")
Nets == focus = "requests" /\ RequestNext /\ Others("requests")
Notices == focus = "notice" /\ NoticeNext /\ Others("notice")
Organizations == focus = "organization" /\ OrganizationNext /\ Others("organization")
Talks == focus = "conversation" /\ ConversationNext /\ Others("conversation")
Memories == focus = "memory" /\ MemoryNext /\ Others("memory")
Uploads == focus = "upload" /\ UploadDialogNext /\ Others("upload")

Next ==
    \/ Lists \/ Forms \/ Previews \/ Themes \/ Charts \/ Searches
    \/ Columns \/ Profiles \/ Recharges \/ Nets \/ Notices
    \/ Organizations \/ Talks \/ Memories \/ Uploads

Spec == Init /\ [][Next]_vars

-----------------------------------------------------------------------------
(* Each variable of each part has the values its module names.               *)
TypeOK ==
    /\ focus \in Functions \cup Machines
    /\ CASE focus \in Functions -> TRUE
         [] focus = "lists" -> ListTypeOK
         [] focus = "forms" -> FormTypeOK
         [] focus = "source" -> SourceTypeOK
         [] focus = "theme" -> ThemeTypeOK
         [] focus = "chart" -> ChartTypeOK
         [] focus = "search" -> SearchTypeOK
         [] focus = "columns" -> ColumnTypeOK
         [] focus = "profile" -> ProfileTypeOK
         [] focus = "recharge" -> RechargeTypeOK
         [] focus = "requests" -> RequestTypeOK
         [] focus = "notice" -> NoticeTypeOK
         [] focus = "organization" -> OrganizationTypeOK
         [] focus = "conversation" -> ConversationTypeOK
         [] focus = "memory" -> MemoryTypeOK
         [] focus = "upload" -> UploadDialogTypeOK

(* processSourceLinks on answers of up to three citations.                   *)
LinkOfCitation == focus = "links" => \A rest \in LinkRests : LinksFaithful(Numbered(<<sample>> \o rest))

(* normalizeBareUrls on every short text.                                    *)
WrappedOnce == focus = "urls" => \A rest \in UrlRests : UrlsWrappedOnce(<<sample>> \o rest)

(* extractContextAnchorText on claims with one or two citations.             *)
ClueIsClaim == focus = "anchor" => AnchorIsClaim(sample[1], sample[2])

(* resolveDirectClueHighlight on every small page and clue.                  *)
DirectCovers == focus = "direct" => \A lines \in DirectPages : MarksHold(lines, sample)

(* applyHighlight with clues of several segments.                            *)
SegmentIsFound == focus = "segment" => \A lines \in SegmentPages : SegmentFound(lines, sample)

(* resolveParagraphHighlight on every small page and ranking of clues.       *)
ParagraphHolds == focus = "paragraph" => \A lines \in ParagraphPages : WindowHolds(lines, sample)

(* buildHighlightRects and clampRectToContainer round fragments of a page.   *)
RectFits == focus = "frame" => FrameFits(sample, PageWidth, PageHeight)

(* buildTextLines on every small page.                                       *)
LineHolds == focus = "lines" => \A rest \in LineRests : LineCovers(<<sample>> \o rest)

(* getAntDColorPalette of the colours at the edges of its cases.             *)
AntdOrdered == focus = "antd" => PaletteOrdered(sample)

(* getRecommendedColorPaletteFamily, with a grey family and families whose   *)
(* darkest colour has no saturation.                                         *)
RecommendedHasColor == focus = "recommended" => PaletteHasColor(sample, Families, Distance)

(* getColorName over the families' main colours as names.                    *)
NameIsNearest ==
    focus = "name" => NameNearest(sample, <<[h |-> 0, s |-> 0, l |-> 10], [h |-> 20, s |-> 80, l |-> 48],
                                            [h |-> 200, s |-> 40, l |-> 50]>>, Distance)

(* createThemeToken, whatever the dark settings leave out.                   *)
TokensDeclared ==
    focus = "tokens" => TokensComplete(PaletteValues, LightTokens, [x \in sample |-> "dark"])

(* filterAuthRoutesByRoles and getGlobalMenusByAuthRoutes for both roles.    *)
MenusOfRole ==
    focus = "menus" =>
        \A kids \in MenuKids, role \in Roles : MenusPermitted(MenuTree(sample, kids), role)

(* Paths, first levels and breadcrumbs of every small menu tree.             *)
CrumbsAgree == focus = "menus" => \A kids \in MenuKids : PathsAgree(MenuTree(sample, kids))

(* transformElegantRoutesToVueRoutes with components that are not found.     *)
VueRoutesFlat == focus = "vue" => RoutesFlat(sample)

(* getAllTabs of every few tabs, the home tab among them or not.             *)
TabsInOrder == focus = "tabs" => TabsOrdered(sample, HomeTab)

(* The columns of every table against the rows of the server.                *)
FieldsSent == focus = "cells" => CellsAreSent(sample)

(* Lists that are paged on the page, of up to seven rows.                    *)
PagesAddUp == focus = "paging" => PagesWhole(sample.all, sample.size)

(* The buttons of documents, orders and users for both roles.                *)
OffersHonoured ==
    focus = "offers" => DocumentHonoured(sample.row, sample.me) /\ OrderHonoured(sample.order) /\ UsersHonoured(sample.me)

(* handleEdit and handleSubmit of a package, in cents and in tokens.         *)
AmountsKept == focus = "amounts" => AmountKept(sample.amount, sample.error, sample.unit)

(* _rankings and _alerts of three users, two of whom are ranked and one      *)
(* alert of whom is shown.                                                   *)
AlertsTrue ==
    focus = "alerts" =>
        \A second, third \in UsageSamples : AlertsHonest(<<1, 2, 3>>, <<sample, second, third>>, 2, 1)

(* Every type of file, with a page and without one.                          *)
StageTrue == focus = "stage" => StageShows(sample.type, sample.page, sample.url)

(* Every combination of clues.                                               *)
CluesOnce == focus = "clues" => ClueIsOne(sample.props, sample.type)

(* resolveFileAccessUrl under each way the front end is served.              *)
AddressesLead == focus = "address" => FileReached(sample.url, sample.base)

(* Files of up to nine bytes in chunks of up to four.                        *)
ChunksWhole == focus = "chunks" => ChunksCover(sample.size, sample.chunk)

-----------------------------------------------------------------------------
(* The invariants of the run: one for each group of parts.  Those of the     *)
(* parts that move stand in their modules and are proved: CitationsLead of   *)
(* SourcePreview, ErrorsTold of UpdateNotice, FormsKept of UploadDialog and  *)
(* ScreenFollows of Theme in NavigationProofs, RecordsAgree of Conversations *)
(* in RecordsProofs.                                                         *)

(* A citation in an answer becomes the link of the document and page cited,  *)
(* the clues that go with it are the claim's, what the server answers is on  *)
(* the stage, and the marks in a PDF cover what was searched for and stay on *)
(* the page (processSourceLinks, extractContextAnchorText, file-preview.vue, *)
(* applyHighlight, resolveParagraphHighlight, buildHighlightRects).          *)
CluesFound ==
    /\ LinkOfCitation /\ WrappedOnce /\ ClueIsClaim
    /\ StageTrue /\ CluesOnce /\ AddressesLead
    /\ DirectCovers /\ SegmentIsFound /\ ParagraphHolds /\ RectFits /\ LineHolds

(* Menus, routes and tabs are those of the role, the menu search marks one   *)
(* of its results, colours stay in order; columns are those the user chose   *)
(* and read what the server sends, what a row offers the server will do,     *)
(* amounts and chunks are counted as the server counts them, and the alerts  *)
(* follow the balances (route/shared.ts, search-modal.vue, palettes,         *)
(* table.ts, usage_dashboard_service.py).                                    *)
ViewsAgree ==
    /\ MenusOfRole /\ CrumbsAgree /\ VueRoutesFlat /\ TabsInOrder
    /\ AntdOrdered /\ RecommendedHasColor /\ NameIsNearest /\ TokensDeclared
    /\ FieldsSent /\ PagesAddUp /\ OffersHonoured /\ AmountsKept /\ ChunksWhole /\ AlertsTrue
    /\ focus = "search" => HighlightIsResult
    /\ focus = "columns" => ShownAsChosen
=============================================================================
