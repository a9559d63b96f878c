------------------------------- MODULE Filter --------------------------------
(* The filter stage: rules that hide, highlight or mask a message, applied in *)
(* order to its segments (filter.Stage.Annotate).                             *)
(*                                                                            *)
(* A text is a sequence of characters, a regular expression the literal it    *)
(* matches.  A message is chosen at the start, every step applies one more    *)
(* rule, and fiRules is the ruleset so far.                                   *)
EXTENDS Integers, Sequences, SequencesExt, FiniteSets

CONSTANTS
  Chars, WordChars,   \* characters, and those isWordRune accepts
  Lower,              \* strings.ToLower of a character, the mask token among them
  FiRules,            \* the rules that rulesets are made of; see RuleType
  FiMessage,          \* the message but for its text: [Categories -> values]
  MaxText, MaxRules   \* bounds of the instance

Categories == DOMAIN FiMessage
FilterTexts == UNION {[1 .. n -> Chars] : n \in 0 .. MaxText}
Actions == {"hide", "highlight", "mask"}

VARIABLES
  fiText,    \* the text of the message
  fiRules,   \* the rules applied so far
  fiSegs,    \* the segments of the message
  fiLower,   \* the flattened text that Annotate keeps once a rule needed it
  fiMarks    \* the annotations of the message

fiVars == <<fiText, fiRules, fiSegs, fiLower, fiMarks>>

-----------------------------------------------------------------------------
(* Spans of a text: <<first, last>>. *)

Lowered(t) == [i \in DOMAIN t |-> Lower[t[i]]]
Part(t, sp) == SubSeq(t, sp[1], sp[2])

\* The words of a text: its longest runs of letters and digits.
Words(t) ==
  {sp \in (1 .. Len(t)) \X (1 .. Len(t)) :
    /\ sp[1] <= sp[2]
    /\ \A i \in sp[1] .. sp[2] : t[i] \in WordChars
    /\ (sp[1] > 1 => t[sp[1] - 1] \notin WordChars) /\ (sp[2] < Len(t) => t[sp[2] + 1] \notin WordChars)}

\* FindAllStringIndex: the matches of a literal, leftmost first, none overlapping another.
MatchAt(t, i, lit) == i + Len(lit) - 1 <= Len(t) /\ SubSeq(t, i, i + Len(lit) - 1) = lit
FindAll(t, lit) ==
  LET taken[i \in 1 .. Len(t)] ==
        MatchAt(t, i, lit) /\ \A j \in 1 .. i - 1 : j > i - Len(lit) => ~taken[j]
  IN {<<i, i + Len(lit) - 1>> : i \in {i \in 1 .. Len(t) : lit # <<>> /\ taken[i]}}

\* A bug for comparison: a span inside the one before it shortens it.
MergeIntoShortens(merged, sp) ==
  IF merged # <<>> /\ sp[1] <= Last(merged)[2] + 1
  THEN [merged EXCEPT ![Len(merged)] = <<@[1], sp[2]>>]
  ELSE Append(merged, sp)
\* mergeSpans: sorted by their starts, overlapping and adjacent spans are joined.
MergeInto(merged, sp) ==
  IF merged # <<>> /\ sp[1] <= Last(merged)[2] + 1
  THEN IF sp[2] > Last(merged)[2] THEN [merged EXCEPT ![Len(merged)] = <<@[1], sp[2]>>] ELSE merged
  ELSE Append(merged, sp)
MergeSpans(spans) ==
  FoldLeft(MergeInto, <<>>, SetToSortSeq(spans, LAMBDA a, b : a[1] < b[1] \/ (a[1] = b[1] /\ a[2] < b[2])))

\* collectSpans: whole words among the keywords, and matches of the expressions.
Hits(t, r) == {sp \in Words(t) : Lowered(Part(t, sp)) \in r.keywords} \cup UNION {FindAll(t, l) : l \in r.regexes}
CollectSpans(t, r) == MergeSpans(Hits(t, r))

-----------------------------------------------------------------------------
(* Rules. *)

\* Compile: the keywords of a rule are lower-cased.
Compile(r) == [r EXCEPT !.keywords = {Lowered(k) : k \in @}]

\* scopeMatches: a category without options does not constrain.
ScopeMatches(r) == \A c \in Categories : r.scope[c] = {} \/ FiMessage[c] \in r.scope[c]

\* textHit and needsText
HasPart(t, k) == \E i \in 1 .. Len(t) : MatchAt(t, i, k)
NeedsText(r) == r.keywords # {} \/ r.regexes # {}
TextHit(r, text) ==
  ~NeedsText(r) \/ (\E k \in r.keywords : HasPart(Lowered(text), k)) \/ \E l \in r.regexes : HasPart(text, l)

\* splitMasked: the pieces of a text between and at the spans.
TextSeg(t) == [kind |-> "text", text |-> t]
MaskedSeg(t) == [kind |-> "masked", text |-> <<"*">>, reveal |-> t]
\* A bug for comparison: what follows the last span is lost.
SplitMaskedLoses(t, spans) ==
  FoldLeft(LAMBDA a, sp : [segs |-> a.segs \o (IF sp[1] > a.cursor THEN <<TextSeg(SubSeq(t, a.cursor, sp[1] - 1))>> ELSE <<>>)
                                      \o <<MaskedSeg(Part(t, sp))>>,
                           cursor |-> sp[2] + 1],
           [segs |-> <<>>, cursor |-> 1], spans).segs
SplitMasked(t, spans) ==
  LET done == FoldLeft(LAMBDA a, sp :
                [segs |-> a.segs \o (IF sp[1] > a.cursor THEN <<TextSeg(SubSeq(t, a.cursor, sp[1] - 1))>> ELSE <<>>)
                                 \o <<MaskedSeg(Part(t, sp))>>,
                 cursor |-> sp[2] + 1],
                [segs |-> <<>>, cursor |-> 1], spans)
  IN done.segs \o (IF done.cursor <= Len(t) THEN <<TextSeg(SubSeq(t, done.cursor, Len(t)))>> ELSE <<>>)

\* maskSegments: text segments only.
MaskSegments(segs, r) ==
  FlattenSeq([i \in DOMAIN segs |->
    IF segs[i].kind # "text" \/ CollectSpans(segs[i].text, r) = <<>> THEN <<segs[i]>>
    ELSE SplitMasked(segs[i].text, CollectSpans(segs[i].text, r))])
PlainText(segs) == FlattenSeq([i \in DOMAIN segs |-> segs[i].text])

-----------------------------------------------------------------------------
(* Annotate. *)

NotRead == <<"not read">>
FilterInit ==
  /\ fiText \in FilterTexts
  /\ fiRules = <<>>
  /\ fiSegs = <<TextSeg(fiText)>>
  /\ fiLower = NotRead
  /\ fiMarks = [hidden |-> FALSE, highlight |-> 0, masked |-> FALSE]

\* The flattened text is taken the first time a rule needs it, and kept.
TextFor(r) == IF fiLower = NotRead /\ NeedsText(r) THEN PlainText(fiSegs) ELSE fiLower
ApplyRule(rule) ==
  /\ Len(fiRules) < MaxRules /\ fiRules' = Append(fiRules, rule)
  /\ LET r == Compile(rule)
         reads == ScopeMatches(r) /\ r.action # "mask"
         hit == reads /\ TextHit(r, TextFor(r))
         segs == IF ScopeMatches(r) /\ r.action = "mask" THEN MaskSegments(fiSegs, r) ELSE fiSegs IN
       /\ fiLower' = IF reads THEN TextFor(r) ELSE fiLower
       /\ fiSegs' = segs
       /\ fiMarks' = [hidden |-> fiMarks.hidden \/ (hit /\ r.action = "hide"),
                      highlight |-> IF hit /\ r.action = "highlight" THEN Len(fiRules) + 1 ELSE fiMarks.highlight,
                      masked |-> fiMarks.masked \/ segs # fiSegs]
  /\ UNCHANGED fiText

FilterNext == \E r \in FiRules : ApplyRule(r)

-----------------------------------------------------------------------------
\* The segments with what they hide put back.
Revealed(segs) == FlattenSeq([i \in DOMAIN segs |-> IF segs[i].kind = "masked" THEN segs[i].reveal ELSE segs[i].text])
\* The characters of the message that are masked.
MaskedAt(segs) ==
  LET from(i) == Len(Revealed(SubSeq(segs, 1, i - 1))) IN
    UNION {from(i) + 1 .. from(i) + Len(segs[i].reveal) : i \in {i \in DOMAIN segs : segs[i].kind = "masked"}}
Applied == {i \in DOMAIN fiRules : fiRules[i].action = "mask" /\ ScopeMatches(fiRules[i])}

\* Masking hides exactly what it should: whatever rules ran, in whatever order,
\* with overlapping and adjacent matches, the original text can be revealed in
\* full, every word and every match of a mask rule in the original text is at
\* least partly masked, and with one mask rule exactly the matches are.
MaskExact ==
  /\ Revealed(fiSegs) = fiText
  /\ fiMarks.masked = (MaskedAt(fiSegs) # {})
  /\ \A i \in Applied : \A sp \in Hits(fiText, Compile(fiRules[i])) : \E k \in sp[1] .. sp[2] : k \in MaskedAt(fiSegs)
  /\ Cardinality(Applied) = 1 =>
       MaskedAt(fiSegs) = UNION {UNION {sp[1] .. sp[2] : sp \in Hits(fiText, Compile(fiRules[i]))} : i \in Applied}

\* "Annotate evaluates every rule in order": whether a rule highlights the
\* message depends on the text as the rules before it left it.
HitNow(r) == ScopeMatches(r) /\ TextHit(r, PlainText(fiSegs))
RulesInOrder ==
  [][fiRules' # fiRules =>
       LET r == Last(fiRules') IN
         r.action = "highlight" => (HitNow(Compile(r)) <=> fiMarks'.highlight = Len(fiRules'))]_fiVars
=============================================================================
