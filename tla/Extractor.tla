----------------------------- MODULE Extractor -----------------------------
(***************************************************************************)
(* features/extractor.py.  A name is the sequence of its words (what       *)
(* stands between underscores).  A number is its binary exponent: below    *)
(* -Span it is Zero, above Span it is Infinite.  A column is given by the  *)
(* exponents of its largest magnitude and of its largest distance from its *)
(* mean, as the mean is rounded: a constant column may have such a         *)
(* distance, of one unit in the last place.                                *)
(***************************************************************************)
EXTENDS Integers, Sequences, FiniteSets

CONSTANTS
  Words,          \* that channels are named with
  ChannelLists,   \* the channels an extractor may be made with
  Exponents,      \* of the numbers in a waveform
  Span

Zero     == 0 - Span - 1
Infinite == Span + 1
NaN      == Span + 2

STAT_FUNCS ==
  {<<"rms">>, <<"mean", "abs">>, <<"peak">>, <<"kurtosis">>, <<"crest", "factor">>, <<"std">>}

\* A name has at least one word, the empty name too.
ExtractorAssumption ==
  /\ Span \in Nat /\ Exponents \subseteq (0 - Span)..Span
  /\ ChannelLists \subseteq Seq(Seq(Words) \ {<<>>})
  /\ \A list \in ChannelLists : \A i, j \in DOMAIN list : list[i] = list[j] => i = j

Columns == {c \in [peak : Exponents \cup {Zero}, spread : Exponents \cup {Zero}] : c.spread <= c.peak}

VARIABLES
  channels, width,   \* of the extractor, of the waveform
  read,              \* the columns that extract has been through
  out,               \* the features so far: a function from names to values
  pc                 \* "start", "extract", "raised", "done"

vars == <<channels, width, read, out, pc>>

Init ==
  /\ channels \in ChannelLists
  /\ width \in {Len(list) : list \in ChannelLists} \cup {0}
  /\ read = <<>> /\ out = <<>> /\ pc = "start"

fit(e)  == IF e < 0 - Span THEN Zero ELSE IF e > Span THEN Infinite ELSE e
over(a, b) == IF a = b /\ a \in {Zero, Infinite} THEN NaN
              ELSE IF b = Zero \/ a = Infinite THEN Infinite
              ELSE IF a = Zero \/ b = Infinite THEN Zero ELSE fit(a - b)

rms(c) == IF fit(2 * c.peak) \in {Zero, Infinite} THEN fit(2 * c.peak) ELSE c.peak
std(c) == IF fit(2 * c.spread) \in {Zero, Infinite} THEN fit(2 * c.spread) ELSE c.spread

\* A constant channel is divided by 0.
BugKurtosis(c) == over(fit(4 * c.spread), fit(2 * fit(2 * c.spread)))

kurtosis(c) ==
  LET var == fit(2 * c.spread)
  IN IF var = Zero THEN Zero ELSE over(fit(4 * c.spread), fit(2 * var))

crest_factor(c) == IF rms(c) = Zero THEN Zero ELSE over(c.peak, rms(c))

stats(st, c) ==
  CASE st = <<"rms">> -> rms(c) [] st = <<"std">> -> std(c)
    [] st = <<"kurtosis">> -> kurtosis(c) [] st = <<"crest", "factor">> -> crest_factor(c)
    [] OTHER -> c.peak   \* peak, mean_abs

feature_name(ch, st) == ch \o st

endsWith(name, st) ==
  Len(name) > Len(st) /\ SubSeq(name, Len(name) - Len(st) + 1, Len(name)) = st

\* Longest first.
split_feature_name(name) ==
  LET known == {st \in STAT_FUNCS : endsWith(name, st)}
      stat  == CHOOSE st \in known : \A other \in known : Len(other) <= Len(st)
  IN <<SubSeq(name, 1, Len(name) - Len(stat)), stat>>

Start ==
  /\ pc = "start"
  /\ pc' = IF width = Len(channels) THEN "extract" ELSE "raised"
  /\ UNCHANGED <<channels, width, read, out>>

\* A later channel overwrites features of the same name.
merged(f, g) == [n \in DOMAIN f \cup DOMAIN g |-> IF n \in DOMAIN g THEN g[n] ELSE f[n]]

Extract(c) ==
  /\ pc = "extract" /\ Len(read) < Len(channels)
  /\ LET ch    == channels[Len(read) + 1]
         names == {feature_name(ch, st) : st \in STAT_FUNCS}
     IN out' = merged(out, [n \in names |->
                 stats(CHOOSE st \in STAT_FUNCS : n = feature_name(ch, st), c)])
  /\ read' = Append(read, c)
  /\ UNCHANGED <<channels, width, pc>>

Return ==
  /\ pc = "extract" /\ Len(read) = Len(channels) /\ pc' = "done"
  /\ UNCHANGED <<channels, width, read, out>>

Next == Start \/ Return \/ \E c \in Columns : Extract(c)

Spec == Init /\ [][Next]_vars

-----------------------------------------------------------------------------
\* "Inverse of feature_name": every extracted name splits into the channel and the
\* statistic it was made of, also where a channel ends like a part of a statistic; so no
\* two features share a name, and each of them has its own channel's value.
NamesInvert ==
  \A k \in DOMAIN read : \A st \in STAT_FUNCS :
    LET name == feature_name(channels[k], st)
    IN /\ name \in DOMAIN out /\ split_feature_name(name) = <<channels[k], st>>
       /\ out[name] = stats(st, read[k])

\* Constant and silent channels, and all whose fourth powers are in range, give
\* numbers; a constant channel may look noisy to the rounded mean.
OrdinaryIsFinite ==
  \A k \in DOMAIN read : \A st \in STAT_FUNCS :
    4 * read[k].peak <= Span /\ (read[k].spread = Zero \/ 4 * read[k].spread >= 0 - Span) =>
      out[feature_name(channels[k], st)] \in Zero..Span

\* Both.
FeaturesSafe == NamesInvert /\ OrdinaryIsFinite
=============================================================================
