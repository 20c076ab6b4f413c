------------------------------- MODULE Palette -------------------------------
(* The colours of the theme: packages/color and the tokens the theme store   *)
(* (store/modules/theme/shared.ts) makes of them.  colord's conversions give *)
(* whole degrees and percents, so a colour is [h, s, v] or [h, s, l]; which  *)
(* of two colours are near (delta E, the sum of squares) is a parameter.     *)
EXTENDS Integers, Sequences, FiniteSets, SequencesExt, FiniteSetsExt

(* colord wraps the hue and clamps the percents of what it is given.         *)
Percent(n) == IF n > 100 THEN 100 ELSE IF n < 0 THEN 0 ELSE n
Wrapped(h) == h % 360

-----------------------------------------------------------------------------
(* palette/antd.ts: eleven colours round the main one, index 6               *)

hueStep == 2
saturationStep == 16
saturationStep2 == 5
brightnessStep1 == 5
brightnessStep2 == 15
lightColorCount == 5
darkColorCount == 4

GetHue(h, i, light) ==
    LET turn == IF (60 <= h /\ h <= 240) = light THEN -hueStep * i ELSE hueStep * i
        hue == h + turn
    IN IF hue < 0 THEN hue + 360 ELSE IF hue >= 360 THEN hue - 360 ELSE hue

(* Grey stays grey; otherwise from 6 to 100, the lightest at most 10.        *)
GetSaturation(c, i, light) ==
    LET raw == IF light THEN c.s - saturationStep * i
               ELSE IF i = darkColorCount THEN c.s + saturationStep
               ELSE c.s + saturationStep2 * i
        top == IF light /\ i = lightColorCount THEN 10 ELSE 100
        capped == IF raw > top THEN top ELSE raw
    IN IF c.h = 0 /\ c.s = 0 THEN 0 ELSE IF capped < 6 THEN 6 ELSE capped

(* A dark value may come out negative; colord makes it 0.                    *)
GetValue(v, i, light) ==
    IF light THEN (IF v + brightnessStep1 * i > 100 THEN 100 ELSE v + brightnessStep1 * i)
    ELSE v - brightnessStep2 * i

GetAntDPaletteColorByIndex(c, index) ==
    LET light == index < 6
        i == IF light THEN lightColorCount + 1 - index ELSE index - lightColorCount - 1
    IN IF index = 6 THEN c
       ELSE [h |-> Wrapped(GetHue(c.h, i, light)), s |-> Percent(GetSaturation(c, i, light)),
             v |-> Percent(GetValue(c.v, i, light))]

GetAntDColorPalette(c) == [index \in 1..11 |-> GetAntDPaletteColorByIndex(c, index)]

(* From the lightest to the darkest no colour is brighter than the one       *)
(* before, none but the main one paler, and the hue turns one way by at most *)
(* ten degrees each side.                                                    *)
PaletteOrdered(c) ==
    LET p == GetAntDColorPalette(c)
        turn(h) == Wrapped(h - c.h + 180) - 180
    IN /\ \A j \in 1..10 : p[j + 1].v <= p[j].v
       /\ \A j, k \in (1..11) \ {6} : j < k => p[j].s <= p[k].s
       /\ \A j \in 1..11 : turn(p[j].h) \in -10..10
       /\ \A j, k \in 1..11 : j < 6 /\ k > 6 => turn(p[j].h) * turn(p[k].h) < 0

-----------------------------------------------------------------------------
(* palette/recommend.ts: families of palettes [number, color], colours       *)
(* [h, s, l]; dist is the distance between two colours.                      *)

Hsl(c) == [h |-> Wrapped(c.h), s |-> Percent(c.s), l |-> Percent(c.l)]
Apart(m, n) == IF m < n THEN n - m ELSE m - n

(* reduce((prev, curr) => prev < curr ? prev : curr): the last of the least. *)
LastLeast(s, cost(_)) ==
    CHOOSE k \in 1..Len(s) : \A j \in 1..Len(s) : cost(s[k]) <= cost(s[j])
                                               /\ (j > k => cost(s[k]) < cost(s[j]))

NearestFamily(c, families, dist(_, _)) ==
    families[LastLeast(families, LAMBDA f : Min({dist(c, f[k].color) : k \in 1..Len(f)}))]

NearestNumber(c, family) == family[LastLeast(family, LAMBDA p : Apart(p.color.l, c.l))].number

(* newS: the saturation times s1 / s2, where 0 / 0 is NaN, which colord      *)
(* clamps to 0, and a division by 0 is infinite, which it clamps to 100.     *)
Scaled(s3, s1, s2) ==
    IF s2 # 0 THEN Percent((s3 * s1) \div s2) ELSE IF s1 = 0 \/ s3 = 0 THEN 0 ELSE 100

(* getRecommendedColorPaletteFamily: the colour in the place of the palette  *)
(* nearest in lightness, the others turned with it (backwards, whichever the *)
(* sign of the difference).                                                  *)
RecommendedPalette(c, families, dist(_, _)) ==
    LET family == NearestFamily(c, families, dist)
        number == NearestNumber(c, family)
        near == CHOOSE k \in 1..Len(family) : family[k].number = number
        h2 == family[near].color.h
        s2 == family[near].color.s
    IN [k \in 1..Len(family) |->
          [number |-> family[k].number,
           color |-> IF k = near THEN c
                     ELSE Hsl([h |-> family[k].color.h - Apart(c.h, h2),
                               s |-> Scaled(family[k].color.s, c.s, s2),
                               l |-> family[k].color.l])]]

(* The recommended palette has the colour in it, in the order of lightness   *)
(* of its family: every number keeps its lightness but the colour's own,     *)
(* which is no further from it than from any other.                          *)
PaletteHasColor(c, families, dist(_, _)) ==
    LET p == RecommendedPalette(c, families, dist)
        family == NearestFamily(c, families, dist)
    IN \E k \in 1..Len(p) :
         /\ p[k].color = c
         /\ \A j \in 1..Len(p) : /\ Apart(family[k].color.l, c.l) <= Apart(family[j].color.l, c.l)
                                 /\ p[j].number = family[j].number
                                 /\ j # k => p[j].color.l = family[j].color.l

-----------------------------------------------------------------------------
(* shared/name.ts                                                            *)

(* getColorName: the names up to one that matches exactly, and of those      *)
(* before it the first of the nearest: the match itself is never returned,   *)
(* and a match of the first name leaves no index (0), which throws.          *)
NameIndex(c, names, costs) ==
    LET exact == {k \in 1..Len(names) : names[k] = c}
        last == IF exact = {} THEN Len(names) ELSE Min(exact) - 1
    IN FoldLeft(LAMBDA best, k : IF best = 0 \/ costs[best] > costs[k] THEN k ELSE best,
                0, [k \in 1..last |-> k])

(* A colour that is none of the named ones gets the name nearest to it.      *)
NameNearest(c, names, dist(_, _)) ==
    (\A k \in 1..Len(names) : names[k] # c) =>
        LET n == NameIndex(c, names, [k \in 1..Len(names) |-> dist(c, names[k])])
        IN n # 0 /\ \A k \in 1..Len(names) : dist(c, names[n]) <= dist(c, names[k])

-----------------------------------------------------------------------------
(* theme/shared.ts: the tokens of the light and the dark theme               *)

ThemeColorKeys == {"primary", "info", "success", "warning", "error"}
Numbers == {50, 500, 950}      \* standing for the eleven
(* themeVars.colors: the variables a page may use.                           *)
ThemeVars == (ThemeColorKeys \X (Numbers \cup {0}))
             \cup ({"nprogress", "container", "layout", "inverted", "base-text"} \X {0})

(* createThemePaletteColors: number 0 is the colour itself, as 500.          *)
CreateThemePaletteColors(palette) ==
    [x \in ThemeColorKeys \X (Numbers \cup {0}) |-> palette[x[1]][IF x[2] = 0 THEN 500 ELSE x[2]]]

Spread(f, g) == [x \in DOMAIN f \cup DOMAIN g |-> IF x \in DOMAIN g THEN g[x] ELSE f[x]]

(* createThemeToken: palette, progress bar, the light tokens; the dark ones  *)
(* start from the light.                                                     *)
CreateThemeToken(palette, light, dark) ==
    LET colors == CreateThemePaletteColors(palette)
        progress == [x \in {<<"nprogress", 0>>} |-> colors[<<"primary", 0>>]]
        lights == Spread(Spread(colors, progress), light)
    IN [light |-> lights, dark |-> Spread(lights, dark)]

(* getCssVarByTokens: one declaration for every variable that has a token.   *)
CssVars(tokens) == {<<x, tokens[x]>> : x \in ThemeVars \cap DOMAIN tokens}

(* Every variable is declared in the light and in the dark theme, and what   *)
(* the dark settings leave out is as in the light theme.                     *)
TokensComplete(palette, light, dark) ==
    LET t == CreateThemeToken(palette, light, dark)
    IN /\ {v[1] : v \in CssVars(t.light)} = ThemeVars
       /\ {v[1] : v \in CssVars(t.dark)} = ThemeVars
       /\ \A x \in ThemeVars \ DOMAIN dark : t.dark[x] = t.light[x]
=============================================================================
