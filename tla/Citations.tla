------------------------------ MODULE Citations ------------------------------
(* What chat-message.vue makes of the text of an answer before it is         *)
(* rendered: processSourceLinks turns the citations the model wrote into     *)
(* links, normalizeBareUrls wraps the addresses, and the text before a       *)
(* citation becomes the clue of its preview.                                 *)
(*                                                                           *)
(* A text is a sequence of tokens [k |-> kind, v |-> number]:                *)
(*   cite    "source #v:"                   bar    "|"                       *)
(*   page    "page v"                       md5    "MD5: v"                  *)
(*   semi    ; , . and the other stops      line   a line break              *)
(*   open, close   brackets                 word   anything else             *)
(*   tag, end      <span> of link v, </span>                                 *)
(*   http    the start of an address        lt, gt, target   < > ](          *)
EXTENDS Naturals, Sequences, FiniteSets

Tok(k, v) == [k |-> k, v |-> v]

-----------------------------------------------------------------------------
(* The three patterns                                                        *)

Stops == {"bar", "semi", "line"}

(* The first place from i on with a kind in ks, or the end.                  *)
FirstOf(t, i, ks) ==
    LET at == {j \in i..Len(t) : t[j].k \in ks}
    IN IF at = {} THEN Len(t) + 1 ELSE CHOOSE j \in at : \A m \in at : j <= m

(* White space: line breaks are tokens, blanks are not.                      *)
Skip(t, i) ==
    LET at == {j \in i..Len(t) : t[j].k # "line"}
    IN IF at = {} THEN Len(t) + 1 ELSE CHOOSE j \in at : \A m \in at : j <= m

Has(t, i, k) == i <= Len(t) /\ t[i].k = k

(* entryBoundary                                                             *)
EntryEnds(t, i) == LET j == Skip(t, i) IN j > Len(t) \/ t[j].k \in {"semi", "close"}

NoLink == [name |-> <<>>, tail |-> 0, next |-> 0]

(* pagePattern and md5Pattern at a citation: the name reaches to the first   *)
(* stop, whatever else is in it, and that must be the bar.                   *)
TailedAt(t, i, kind) ==
    LET a == Skip(t, i + 1)
        b == FirstOf(t, a, Stops)
        c == Skip(t, b)
        d == Skip(t, c + 1)
    IN IF b > a /\ Has(t, c, "bar") /\ Has(t, d, kind) /\ EntryEnds(t, d + 1)
       THEN [name |-> SubSeq(t, a, b - 1), tail |-> t[d].v, next |-> d + 1]
       ELSE NoLink

(* simplePattern: the shortest name that an entry can end after.             *)
SimpleAt(t, i) ==
    LET a == Skip(t, i + 1)
        ends == {j \in (a + 1)..FirstOf(t, a, Stops \cup {"tag", "end"}) : EntryEnds(t, j)}
    IN IF ends = {} THEN NoLink
       ELSE LET b == CHOOSE j \in ends : \A m \in ends : j <= m
            IN [name |-> SubSeq(t, a, b - 1), tail |-> 0, next |-> b]

(* createSourceLink: an entry of sourceFiles, and the link in the text.      *)
SourceLink(number, m, pass) ==
    [number |-> number, name |-> m.name,
     page |-> IF pass = "page" THEN m.tail ELSE 0,
     md5 |-> IF pass = "md5" THEN m.tail ELSE 0]

LinkText(number, m, pass, id) ==
    <<Tok("cite", number), Tok("tag", id)>> \o m.name
    \o (IF pass = "page" THEN <<Tok("open", 0), Tok("page", m.tail), Tok("close", 0)>> ELSE <<>>)
    \o <<Tok("end", 0)>>

(* text.replace(pattern): from the left, past what was matched.              *)
RECURSIVE Replaced(_, _, _, _)
Replaced(t, i, links, pass) ==
    IF i > Len(t) THEN [text |-> <<>>, links |-> links]
    ELSE LET m == IF t[i].k # "cite" THEN NoLink
                  ELSE IF pass = "plain" THEN SimpleAt(t, i) ELSE TailedAt(t, i, pass)
         IN IF m = NoLink
            THEN LET rest == Replaced(t, i + 1, links, pass)
                 IN [rest EXCEPT !.text = <<t[i]>> \o @]
            ELSE LET l == SourceLink(t[i].v, m, pass)
                     rest == Replaced(t, m.next, Append(links, l), pass)
                 IN [rest EXCEPT !.text = LinkText(t[i].v, m, pass, Len(links) + 1) \o @]

(* processSourceLinks                                                        *)
ProcessSourceLinks(t) ==
    LET paged == Replaced(t, 1, <<>>, "page")
        hashed == Replaced(paged.text, 1, paged.links, "md5")
    IN Replaced(hashed.text, 1, hashed.links, "plain")

-----------------------------------------------------------------------------
(* Addresses                                                                 *)

Times1(t, k) == Cardinality({j \in 1..Len(t) : t[j].k = k})

(* splitTrailingUrlPunctuation: stops at the end go, and a closing bracket   *)
(* that the address did not open.                                            *)
RECURSIVE SplitTrailing(_, _)
SplitTrailing(url, trailing) ==
    LET last == url[Len(url)]
    IN IF \/ url # <<>> /\ last.k = "semi"
          \/ url # <<>> /\ last.k = "close" /\ Times1(url, "close") > Times1(url, "open")
       THEN SplitTrailing(SubSeq(url, 1, Len(url) - 1), <<last>> \o trailing)
       ELSE [url |-> url, trailing |-> trailing]

UrlKinds == {"http", "word", "semi", "open", "close"}

(* The end of the address that starts at i.                                  *)
UrlEnd(t, i) ==
    LET at == {j \in i..Len(t) : t[j].k \notin UrlKinds}
    IN IF at = {} THEN Len(t) ELSE (CHOOSE j \in at : \A m \in at : j <= m) - 1

(* An address in < > or in a Markdown link is left as it is.                 *)
Wraps(t, i) == i = 1 \/ t[i - 1].k \notin {"lt", "target"}

(* normalizeBareUrls                                                         *)
RECURSIVE NormalizedFrom(_, _)
NormalizedFrom(t, i) ==
    IF i > Len(t) THEN <<>>
    ELSE IF t[i].k # "http" THEN <<t[i]>> \o NormalizedFrom(t, i + 1)
    ELSE LET raw == SubSeq(t, i, UrlEnd(t, i))
             s == SplitTrailing(raw, <<>>)
         IN (IF Wraps(t, i) THEN <<Tok("lt", 0)>> \o s.url \o <<Tok("gt", 0)>> \o s.trailing ELSE raw)
            \o NormalizedFrom(t, UrlEnd(t, i) + 1)

NormalizeBareUrls(t) == NormalizedFrom(t, 1)

-----------------------------------------------------------------------------
(* The clue of a preview                                                     *)

(* extractContextAnchorText: what the paragraph says before its first        *)
(* citation, or all of it when it begins with one.                           *)
Anchor(scope) ==
    LET first == FirstOf(scope, 1, {"cite"})
        cut == IF first > 1 /\ first <= Len(scope) /\ Has(scope, first - 1, "open")
               THEN first - 2 ELSE first - 1
        text == IF cut = 0 THEN scope ELSE SubSeq(scope, 1, cut)
    IN IF Has(text, Len(text), "open") THEN SubSeq(text, 1, Len(text) - 1) ELSE text

-----------------------------------------------------------------------------
(* Entries of an answer: number, name, form, tail, and how the next one      *)
(* follows: in the same brackets, after a stop, or bracket to bracket.       *)
EntryText(e) ==
    <<Tok("cite", e.number)>> \o e.name
    \o (IF e.form = "plain" THEN <<>> ELSE <<Tok("bar", 0), Tok(e.form, e.tail)>>)

Glue(e) ==
    CASE e.glue = "same" -> <<Tok("semi", 0)>>
      [] e.glue = "apart" -> <<Tok("close", 0), Tok("semi", 0), Tok("word", 0), Tok("open", 0)>>
      [] e.glue = "meets" -> <<Tok("close", 0), Tok("open", 0)>>

RECURSIVE AnswerFrom(_, _)
AnswerFrom(es, i) ==
    EntryText(es[i]) \o (IF i = Len(es) THEN <<Tok("close", 0)>> ELSE Glue(es[i]) \o AnswerFrom(es, i + 1))

AnswerText(es) == <<Tok("word", 0), Tok("open", 0)>> \o AnswerFrom(es, 1)

(* Every citation of the answer becomes one link, with its own number, name, *)
(* page and hash, and a click on the k-th link opens the k-th citation -     *)
(* unless a citation without a bar meets, bracket to bracket, what follows.  *)
LinksFaithful(es) ==
    (\A k \in 1..(Len(es) - 1) : es[k].glue # "meets") =>
        LET r == ProcessSourceLinks(AnswerText(es))
            tags == SelectSeq(r.text, LAMBDA x : x.k = "tag")
        IN /\ Len(tags) = Len(es) /\ Len(r.links) = Len(es)
           /\ \A k \in 1..Len(es) :
                r.links[tags[k].v] = SourceLink(es[k].number, [name |-> es[k].name, tail |-> es[k].tail], es[k].form)

(* The addresses of a text are wrapped once, those written as links not at   *)
(* all: a text that went through stays as it is, and nothing of it is lost.  *)
UrlsWrappedOnce(t) ==
    LET n == NormalizeBareUrls(t)
        bare(s) == SelectSeq(s, LAMBDA x : x.k \notin {"lt", "gt"})
    IN /\ NormalizeBareUrls(n) = n
       /\ bare(n) = bare(t)

(* The clue is the claim that a citation follows: it holds no citation and   *)
(* no bracket that was opened for one.                                       *)
AnchorIsClaim(claim, es) ==
    LET scope == claim \o SubSeq(AnswerText(es), 2, Len(AnswerText(es)))
    IN claim # <<>> /\ ~Has(claim, Len(claim), "open") => Anchor(scope) = claim
=============================================================================
