------------------------------ MODULE Highlight ------------------------------
(* Where the PDF viewer frames the clue of a reference on a page: the pure   *)
(* functions of frontend/src/components/custom/pdf-document-viewer.vue.      *)
(*                                                                           *)
(* A text is a sequence of symbols after normalizeForMatch and without       *)
(* blanks, which is how the code compares; a page is the sequence of its     *)
(* text items.  The lengths the code compares with are the record Cut, so    *)
(* that small texts meet every case; scores are fractions <<n, d>>.          *)
EXTENDS Naturals, Sequences, FiniteSets, SequencesExt, FiniteSetsExt

CONSTANT Cut    \* clue 8, split 20, share 28, anchor 6, partial 8, most 48,
                \* prefix 14, cover 18, window 6 in the code

ASSUME CutAssumption ==
    /\ DOMAIN Cut = {"clue", "split", "share", "anchor", "partial", "most", "prefix",
                     "cover", "window"}
    /\ \A k \in DOMAIN Cut : Cut[k] \in Nat \ {0}

-----------------------------------------------------------------------------
(* Numbers, fractions and texts                                              *)

Least(m, n) == IF m < n THEN m ELSE n
Most(m, n) == IF m < n THEN n ELSE m
Minus(m, n) == IF m > n THEN m - n ELSE 0

Less(a, b) == a[1] * b[2] < b[1] * a[2]
Larger(a, b) == IF Less(a, b) THEN b ELSE a
Smaller(a, b) == IF Less(a, b) THEN a ELSE b
Times(a, b) == <<a[1] * b[1], a[2] * b[2]>>

Joined(texts) == FlattenSeq(texts)

(* indexOf from position `from`: the first place of p in t, or 0.            *)
PlaceFrom(t, p, from) ==
    LET at == {i \in from..Minus(Len(t) + 1, Len(p)) : SubSeq(t, i, i + Len(p) - 1) = p}
    IN IF at = {} \/ p = <<>> THEN 0 ELSE Min(at)
Place(t, p) == PlaceFrom(t, p, 1)
Includes(t, p) == Place(t, p) # 0

Prefix(t, n) == SubSeq(t, 1, Least(n, Len(t)))
Suffix(t, n) == SubSeq(t, Minus(Len(t), n) + 1, Len(t))

-----------------------------------------------------------------------------
(* The clue as it stands on the page                                         *)

(* The positions item i takes in the joined text.                            *)
StartOf(items, i) == Len(Joined(SubSeq(items, 1, i - 1))) + 1
EndOf(items, i) == Len(Joined(SubSeq(items, 1, i)))

(* Mutant: an item that ends where the match begins is left out. *)
TouchedInside(items, range) ==
    {i \in 1..Len(items) : /\ items[i] # <<>>
                           /\ EndOf(items, i) > range[1] /\ StartOf(items, i) <= range[2]}

(* The items, empty ones apart, that a range of the joined text touches.     *)
Touched(items, range) ==
    {i \in 1..Len(items) : /\ items[i] # <<>>
                           /\ EndOf(items, i) >= range[1] /\ StartOf(items, i) <= range[2]}

NoRange == <<0, 0>>

(* resolveDirectClueHighlight: the whole clue, or for a long one from its    *)
(* first two fifths to its last two fifths.                                  *)
DirectRange(text, clue) ==
    LET part == Least(Cut.share, (Len(clue) * 2) \div 5)
        head == Place(text, Prefix(clue, part))
        tail == PlaceFrom(text, Suffix(clue, part), head + part)
    IN IF Len(clue) < Cut.clue THEN NoRange
       ELSE IF Includes(text, clue)
            THEN <<Place(text, clue), Place(text, clue) + Len(clue) - 1>>
       ELSE IF Len(clue) >= Cut.split /\ head # 0 /\ tail # 0
            THEN <<head, tail + part - 1>>
       ELSE NoRange

DirectMarks(items, clue) ==
    LET range == DirectRange(Joined(items), clue)
    IN IF range = NoRange THEN {} ELSE Touched(items, range)

(* resolveMatchRange: the first candidate found, whole or by its beginning.  *)
MatchOf(text, clue) ==
    LET part == Prefix(clue, Cut.most)
    IN IF Includes(text, clue) THEN <<Place(text, clue), Place(text, clue) + Len(clue) - 1>>
       ELSE IF Len(part) >= Cut.partial /\ Includes(text, part)
            THEN <<Place(text, part), Place(text, part) + Len(part) - 1>>
       ELSE NoRange

MatchRange(text, clues) ==
    LET hits == {k \in 1..Len(clues) : MatchOf(text, clues[k]) # NoRange}
    IN IF hits = {} THEN NoRange ELSE MatchOf(text, clues[Min(hits)])

-----------------------------------------------------------------------------
(* Scores                                                                    *)

Pairs(t) == IF Len(t) = 1 THEN <<t>> ELSE [i \in 1..Minus(Len(t), 1) |-> SubSeq(t, i, i + 1)]
Times2(t, b) == Cardinality({i \in 1..Len(Pairs(t)) : Pairs(t)[i] = b})

(* calculateDiceCoefficient over the bags of neighbouring symbols.           *)
Dice(l, r) ==
    LET shared == MapThenSumSet(LAMBDA b : Least(Times2(l, b), Times2(r, b)), ToSet(Pairs(l)))
    IN IF l = <<>> \/ r = <<>> THEN <<0, 1>>
       ELSE <<2 * shared, Len(Pairs(l)) + Len(Pairs(r))>>

(* scoreAgainstAnchor: containment, coverage or likeness; a long clue must   *)
(* also begin in the text.                                                   *)
Score(text, clue) ==
    LET coverage == <<Len(text), Len(clue)>>
        base == IF Includes(text, clue) THEN <<1, 1>>
                ELSE IF Includes(clue, text)
                     THEN IF Len(text) >= Cut.cover
                          THEN Larger(<<48, 100>>, Smaller(<<82, 100>>, coverage)) ELSE coverage
                ELSE Dice(text, clue)
    IN IF text = <<>> \/ clue = <<>> THEN <<0, 1>>
       ELSE IF Len(clue) < Cut.cover THEN base
       ELSE IF Includes(text, Prefix(clue, Cut.prefix)) THEN Larger(base, <<62, 100>>)
       ELSE Times(base, <<42, 100>>)

(* scoreParagraphMatch: the best score over some clues.                      *)
BestScore(text, clues) ==
    FoldLeft(LAMBDA best, c : Larger(best, Score(text, c)), <<0, 1>>, clues)

(* getPrimaryMatchMinimum by the length of the clue.                         *)
Minimum(n) ==
    IF n >= 2 * Cut.split THEN <<58, 100>> ELSE IF n >= Cut.split THEN <<62, 100>> ELSE <<68, 100>>

-----------------------------------------------------------------------------
(* resolveParagraphHighlight over lines [text, break, stop]: `break` says    *)
(* that a window does not run into this line (a gap, or a list item after    *)
(* the end of a sentence), `stop` that the line ends a sentence.             *)

Window(lines, w) == Joined([k \in 1..(w[2] - w[1] + 1) |-> lines[w[1] + k - 1].text])

(* The windows the two loops come to: no break inside, and no earlier end    *)
(* that held the whole clue or ended a sentence with most of it.             *)
Reached(lines, primary) ==
    {w \in (1..Len(lines)) \X (1..Len(lines)) :
        /\ w[1] <= w[2] /\ w[2] - w[1] < Cut.window
        /\ \A k \in (w[1] + 1)..w[2] : ~lines[k].break
        /\ \A k \in w[1]..(w[2] - 1) :
             LET text == Window(lines, <<w[1], k>>)
                 scored == Len(text) >= Cut.anchor /\ Less(<<0, 1>>, Score(text, primary))
             IN scored => /\ ~Includes(text, primary)
                          /\ lines[k].stop => Less(Score(text, primary), <<52, 100>>)}

Before(v, w) == v[1] < w[1] \/ (v[1] = w[1] /\ v[2] < w[2])
NoWindow == <<0, 0>>

(* The first window, in the order of the loops, with the best score.         *)
BestOf(windows, score(_)) ==
    IF windows = {} THEN NoWindow
    ELSE CHOOSE w \in windows : \A v \in windows \ {w} :
            Less(score(v), score(w)) \/ (~Less(score(w), score(v)) /\ Before(w, v))

(* The clues long enough, the longest first.                                 *)
Ranked(clues) ==
    SortSeq(SelectSeq(clues, LAMBDA c : Len(c) >= Cut.anchor), LAMBDA a, b : Len(a) > Len(b))

Paragraph(lines, clues) ==
    LET long == Ranked(clues)
        own(w) == Score(Window(lines, w), long[1])
        other(w) == BestScore(Window(lines, w), Tail(long))
        tried == {w \in Reached(lines, long[1]) : Len(Window(lines, w)) >= Cut.anchor}
        strong == {w \in tried : ~Less(own(w), Minimum(Len(long[1])))}
        weak == {w \in tried \ strong : ~Less(other(w), <<62, 100>>)}
    IN IF long = <<>> THEN NoWindow
       ELSE IF strong = {} THEN BestOf(weak, other)
       ELSE BestOf(strong, LAMBDA w : Larger(Times(own(w), <<112, 100>>), other(w)))

-----------------------------------------------------------------------------
(* Which of the three finds a clue                                           *)

(* A text cut at every symbol of `at`.                                       *)
Pieces(t, at) ==
    FoldLeft(LAMBDA ps, c : IF c \in at THEN Append(ps, <<>>)
                            ELSE [ps EXCEPT ![Len(ps)] = Append(@, c)], <<(<<>>)>>, t)

LongEnough(texts) == SelectSeq(texts, LAMBDA t : Len(t) >= Cut.anchor)

(* buildMatchCandidates of one line: the whole, its segments, the longest    *)
(* first, and the parts before and after its first colon.  (Addresses and    *)
(* quotations, which only add candidates, are left out.)                     *)
Candidates(clue) ==
    LET byLength == SortSeq(LongEnough(Pieces(clue, {","})), LAMBDA a, b : Len(a) > Len(b))
        before == Head(Pieces(clue, {":"}))
    IN LongEnough(<<clue>>) \o byLength
         \o IF Includes(clue, <<":">>)
            THEN LongEnough(<<before, SubSeq(clue, Len(before) + 2, Len(clue))>>) ELSE <<>>

(* The text applyHighlight itself searches: the items with blanks between.   *)
Spaced(items) ==
    FoldLeft(LAMBDA t, i : IF i = <<>> THEN t ELSE IF t = <<>> THEN i ELSE t \o <<" ">> \o i,
             <<>>, items)

(* applyHighlight: the clue itself, the window of lines most like it, the    *)
(* first candidate that stands in the text; else only the page is right.     *)
FoundBy(items, lines, clue) ==
    LET clues == Candidates(clue)
    IN IF clues = <<>> THEN "page-only"
       ELSE IF DirectMarks(items, clue) # {} THEN "clue"
       ELSE IF Paragraph(lines, clues) # NoWindow THEN "paragraph"
       ELSE IF MatchRange(Spaced(items), clues) # NoRange THEN "candidate"
       ELSE "page-only"

-----------------------------------------------------------------------------
(* Rectangles [left, top, width, height], in pixels of the page              *)

Right(r) == r.left + r.width
Bottom(r) == r.top + r.height
Covers(r, s) ==
    r.left <= s.left /\ r.top <= s.top /\ Right(s) <= Right(r) /\ Bottom(s) <= Bottom(r)

(* clampRectToContainer along one axis: at least one pixel, in the container. *)
Clamped(from, to, max) ==
    LET start == Least(from, Minus(max, 1)) IN <<start, Most(start + 1, Least(to, max))>>

Pad(size, percent) == Most(2, Least(8, (size * percent) \div 100))

(* A fragment with its padding; a fragment is not moved off the left or top. *)
Padded(r) ==
    LET x == Pad(r.width, 4) y == Pad(r.height, 22)
    IN [left |-> Minus(r.left, x), top |-> Minus(r.top, y),
        width |-> r.width + 2 * x, height |-> r.height + 2 * y]

(* buildHighlightRects: one frame round the fragments that can be seen.      *)
Frame(fragments, width, height) ==
    LET seen == {Padded(r) : r \in {f \in fragments : f.width >= 2 /\ f.height >= 2}}
        x == Clamped(Min({r.left : r \in seen}), Max({Right(r) : r \in seen}), width)
        y == Clamped(Min({r.top : r \in seen}), Max({Bottom(r) : r \in seen}), height)
    IN IF seen = {} THEN {}
       ELSE {[left |-> x[1], top |-> y[1], width |-> x[2] - x[1], height |-> y[2] - y[1]]}

(* A line of text: its rectangle, the items in it, and the sum of their      *)
(* doubled centres (centerY is their mean).                                  *)
CentreOf(r) == 2 * r.top + r.height
Near(line, r) ==
    LET n == Len(line.items) c == CentreOf(r) * n
        apart == Minus(c, line.sum) + Minus(line.sum, c)
    IN apart * 100 <= 2 * n * Most(400, 65 * Least(line.rect.height, r.height))

(* The width is taken from the new left edge: when an item stands left of    *)
(* the line, the line's old right edge moves left with it (so for the top).  *)
Extended(line, r) ==
    LET left == Least(line.rect.left, r.left) top == Least(line.rect.top, r.top)
    IN [line EXCEPT !.rect = [left |-> left, top |-> top,
                              width |-> Most(left + line.rect.width, Right(r)) - left,
                              height |-> Most(top + line.rect.height, Bottom(r)) - top]]

(* buildTextLines, before its sort: an item joins the first line it is level *)
(* with, or starts one.                                                      *)
AddItem(lines, r) ==
    LET near == {k \in 1..Len(lines) : Near(lines[k], r)}
        k == Min(near)
    IN IF r.width < 2 \/ r.height < 2 THEN lines
       ELSE IF near = {} THEN Append(lines, [rect |-> r, sum |-> CentreOf(r), items |-> <<r>>])
       ELSE [lines EXCEPT ![k] = [Extended(@, r) EXCEPT !.sum = @ + CentreOf(r),
                                                        !.items = Append(@, r)]]

Lines(rects) == FoldLeft(AddItem, <<>>, rects)

-----------------------------------------------------------------------------
(* What the highlight promises, for one page and clue                        *)

(* A clue that stands in the page's text is marked: the marked items hold    *)
(* it, and end no later than where it is first complete.                     *)
MarksHold(items, clue) ==
    LET marks == DirectMarks(items, clue)
        block(i, j) == Joined(SubSeq(items, i, j))
    IN Len(clue) >= Cut.clue /\ Includes(Joined(items), clue)
         => /\ marks # {} /\ Includes(block(Min(marks), Max(marks)), clue)
            /\ ~Includes(block(1, Max(marks) - 1), clue)

(* The longest clue, standing in few enough unbroken lines with no end of a  *)
(* sentence between them, is in the window that is framed (or all its pairs  *)
(* of neighbours are, which the score cannot tell from it).                  *)
WindowHolds(lines, clues) ==
    LET long == Ranked(clues) w == Paragraph(lines, clues)
    IN (/\ long # <<>>
        /\ \E s, e \in 1..Len(lines) :
             /\ s <= e /\ e - s < Cut.window
             /\ \A k \in (s + 1)..e : ~lines[k].break /\ ~lines[k - 1].stop
             /\ Includes(Window(lines, <<s, e>>), long[1]))
       => /\ w # NoWindow
          /\ ~Less(Score(Window(lines, w), long[1]), <<1, 1>>)

(* A clue of which a segment stands whole in one item of the page is framed, *)
(* however little the rest of it is like the page.  Each item is a line.     *)
SegmentFound(items, clue) ==
    LET lines == [i \in 1..Len(items) |-> [text |-> items[i], break |-> FALSE, stop |-> FALSE]]
        segments == ToSet(LongEnough(Pieces(clue, {","})))
    IN (\E i \in 1..Len(items), s \in segments : Includes(items[i], s))
         => FoundBy(items, SelectSeq(lines, LAMBDA l : Len(l.text) >= 2), clue) # "page-only"

(* The frame round fragments of the page stays on the page and round them.   *)
FrameFits(fragments, width, height) ==
    \A f \in Frame(fragments, width, height) :
        /\ Right(f) <= width /\ Bottom(f) <= height
        /\ \A r \in fragments : r.width >= 2 /\ r.height >= 2 => Covers(f, r)

(* A line's rectangle covers its items, when no item stands left of or above *)
(* the items before it.                                                      *)
LineCovers(rects) ==
    \A k \in 1..Len(Lines(rects)) :
        LET line == Lines(rects)[k] n == Len(line.items)
        IN (\A i, j \in 1..n : i < j =>
                line.items[i].left <= line.items[j].left /\ line.items[i].top <= line.items[j].top)
           => \A i \in 1..n : Covers(line.rect, line.items[i])
=============================================================================
