------------------------------ MODULE Segments ------------------------------
(* How a chat message becomes segments: segment.Text, which every platform    *)
(* shares, and what each normalizer carves out first - Twitch's emote ranges  *)
(* and cheers, Kick's inline emote tokens, YouTube's runs.                    *)
(*                                                                            *)
(* A text is a sequence of atoms: a space, another white space, "@", a        *)
(* letter, the "http" and "://" of a link, a cheermote worth one bit, and the *)
(* pieces of a Kick emote token.                                              *)
EXTENDS Integers, Sequences, SequencesExt, FiniteSets

CONSTANTS
  PlainLen,     \* longest text given to Text, to Twitch and to YouTube
  KickLen       \* longest content given to Kick

ASSUME SegmentsConstants == {PlainLen, KickLen} \subseteq Nat

VARIABLE sgLast   \* the last message normalized: its input and its segments
sgVars == <<sgLast>>

Space == " "
Tab == "tab"   \* white space that is not a space
Letters == {"w", "http"}
PlainAtoms == {Space, Tab, "@", "://", "c1"} \cup Letters
KickAtoms == {"[emote", ":", "]", "w"}

Seg(kind, text) == [kind |-> kind, text |-> text]
Flush(buf) == IF buf = <<>> THEN <<>> ELSE <<Seg("text", buf)>>

-----------------------------------------------------------------------------
(* segment.Text *)

\* The position after the token that starts at i.
TokenEnd(s, i) == CHOOSE j \in i .. Len(s) + 1 :
  (j = Len(s) + 1 \/ s[j] = Space) /\ \A k \in i .. j - 1 : s[k] # Space
IsLink(tok) == Len(tok) > 1 /\ tok[1] = "http" /\ tok[2] = "://"
\* mentionLen: the "@" and the user name characters after it; a cheermote is
\* made of them.
IsUserChar(a) == a \in Letters \cup {"c1"}
MentionLen(tok) == CHOOSE n \in 1 .. Len(tok) :
  (\A k \in 2 .. n : IsUserChar(tok[k])) /\ (n = Len(tok) \/ ~IsUserChar(tok[n + 1]))

\* The segments of s from position i on; buf is text not yet flushed.
RECURSIVE Split(_, _, _)
Split(s, i, buf) ==
  IF i > Len(s) THEN Flush(buf)
  ELSE IF s[i] = Space THEN Split(s, i + 1, Append(buf, Space))
  ELSE LET j == TokenEnd(s, i)
           tok == SubSeq(s, i, j - 1)
           n == MentionLen(tok)
       IN CASE IsLink(tok) -> Flush(buf) \o <<Seg("link", tok)>> \o Split(s, j, <<>>)
            [] tok[1] = "@" /\ n > 1 ->
                 Flush(buf) \o <<Seg("mention", SubSeq(tok, 1, n))>> \o Split(s, j, SubSeq(tok, n + 1, Len(tok)))
            [] OTHER -> Split(s, j, buf \o tok)
Text(s) == Split(s, 1, <<>>)

-----------------------------------------------------------------------------
(* Twitch: emote ranges by inclusive offsets from 0, then cheers. *)

\* parseEmotes: the ranges in the order of their starts.
ParseEmotes(spans) == SortSeq(spans, LAMBDA a, b : a[1] < b[1])

\* A bug for comparison: a range that overlaps the previous one is used.
UsableOverlapping(span, cursor, len) == span[1] >= 0 /\ span[2] < len /\ span[1] <= span[2]
Usable(span, cursor, len) ==
  span[1] >= 0 /\ span[2] < len /\ span[1] <= span[2] /\ span[1] >= cursor

\* One range: the text before it, the emote, and the new cursor.
CarveEmote(text, acc, span) ==
  IF ~Usable(span, acc.cursor, Len(text)) THEN acc
  ELSE [cursor |-> span[2] + 1,
        segs |-> acc.segs \o Text(SubSeq(text, acc.cursor + 1, span[1]))
                   \o <<Seg("emote", SubSeq(text, span[1] + 1, span[2] + 1))>>]
BuildSegments(text, spans) ==
  LET done == FoldLeft(LAMBDA acc, span : CarveEmote(text, acc, span), [cursor |-> 0, segs |-> <<>>], spans)
  IN IF spans = <<>> THEN Text(text)
     ELSE done.segs \o Text(SubSeq(text, done.cursor + 1, Len(text)))

\* cheerToken: letters, then an amount.
IsCheer(tok) == Last(tok) = "c1" /\ \A k \in 1 .. Len(tok) - 1 : tok[k] \in Letters
\* splitTextCheers: a word between spaces that is a cheermote becomes a segment
\* of its own.
RECURSIVE SplitTextCheers(_, _, _)
SplitTextCheers(s, i, buf) ==
  IF i > Len(s) THEN Flush(buf)
  ELSE IF s[i] = Space THEN SplitTextCheers(s, i + 1, Append(buf, Space))
  ELSE LET j == TokenEnd(s, i)
           tok == SubSeq(s, i, j - 1)
       IN IF IsCheer(tok) THEN Flush(buf) \o <<Seg("cheer", tok)>> \o SplitTextCheers(s, j, <<>>)
          ELSE SplitTextCheers(s, j, buf \o tok)
\* strings.Fields: the words between white space of any kind.
IsBlank(a) == a \in {Space, Tab}
Fields(s) ==
  {<<i, j>> \in (1 .. Len(s)) \X (1 .. Len(s)) :
     /\ i <= j /\ \A k \in i .. j : ~IsBlank(s[k])
     /\ (i = 1 \/ IsBlank(s[i - 1])) /\ (j = Len(s) \/ IsBlank(s[j + 1]))}
CheerWords(text) == {f \in Fields(text) : IsCheer(SubSeq(text, f[1], f[2]))}
CheerSum(segs) ==
  FoldLeft(LAMBDA n, s : n + IF s.kind = "text" THEN Cardinality(CheerWords(s.text)) ELSE 0, 0, segs)

\* A bug for comparison: the message's total is not compared.
SplitCheersAlways(segs, bits) ==
  FlattenSeq([i \in 1 .. Len(segs) |->
    IF segs[i].kind = "text" THEN SplitTextCheers(segs[i].text, 1, <<>>) ELSE <<segs[i]>>])
\* splitCheers: only when the amounts add up to the message's bits.
SplitCheers(segs, bits) ==
  IF CheerSum(segs) # bits THEN segs
  ELSE FlattenSeq([i \in 1 .. Len(segs) |->
         IF segs[i].kind = "text" THEN SplitTextCheers(segs[i].text, 1, <<>>) ELSE <<segs[i]>>])
NormalizePrivmsg(text, spans, bits) ==
  LET segs == BuildSegments(text, ParseEmotes(spans)) IN IF bits > 0 THEN SplitCheers(segs, bits) ELSE segs

-----------------------------------------------------------------------------
(* Kick: [emote:id:name]. *)

IndexFrom(s, i, atoms) ==
  LET at == {k \in i .. Len(s) - Len(atoms) + 1 : SubSeq(s, k, k + Len(atoms) - 1) = atoms}
  IN IF at = {} THEN 0 ELSE CHOOSE k \in at : \A l \in at : k <= l

\* An emote keeps its token, so that what was said can be read back.
KickEmote(token, name) == [kind |-> "emote", text |-> name, token |-> token]
RECURSIVE ParseContent(_)
ParseContent(rest) ==
  LET open == IndexFrom(rest, 1, <<"[emote", ":">>)
      end == IndexFrom(rest, open, <<"]">>)
      token == SubSeq(rest, open, end)
      colon == IndexFrom(token, 3, <<":">>)
  IN IF open = 0 THEN Text(rest)
     ELSE Text(SubSeq(rest, 1, open - 1)) \o
          IF end = 0 THEN Text(SubSeq(rest, open, Len(rest)))
          ELSE (IF colon > 0 THEN <<KickEmote(token, SubSeq(token, colon + 1, Len(token) - 1))>> ELSE Text(token))
               \o ParseContent(SubSeq(rest, end + 1, Len(rest)))

-----------------------------------------------------------------------------
(* YouTube: runs of text, custom emoji with artwork, standard emoji. *)

RunsSegments(runs) ==
  LET step(acc, r) ==
        IF r.emoji = "custom" THEN [segs |-> acc.segs \o Text(acc.buf) \o <<Seg("emote", r.text)>>, buf |-> <<>>]
        ELSE [acc EXCEPT !.buf = @ \o r.text]
      done == FoldLeft(step, [segs |-> <<>>, buf |-> <<>>], runs)
  IN done.segs \o Text(done.buf)

-----------------------------------------------------------------------------
Texts(atoms, n) == UNION {[1 .. k -> atoms] : k \in 0 .. n}
Spans == (-1 .. 3) \X (-1 .. 3)
SpanLists == {<<>>} \cup {<<a>> : a \in Spans} \cup {<<a, b>> : a, b \in Spans}
Runs == [text : {<<"w">>, <<"@">>, <<Space>>}, emoji : {"none", "custom", "standard"}]

SegmentsInit == sgLast = [from |-> "none", text |-> <<>>, bits |-> 0, segs |-> <<>>]
Normalized(from, text, bits, segs) == sgLast' = [from |-> from, text |-> text, bits |-> bits, segs |-> segs]
NormalizeTwitch ==
  \/ \E text \in Texts(PlainAtoms, PlainLen), bits \in 0 .. 2 :
       Normalized("twitch", text, bits, NormalizePrivmsg(text, <<>>, bits))
  \/ \E text \in Texts({"w", "@", Space}, 3), spans \in SpanLists :
       Normalized("twitch", text, 0, NormalizePrivmsg(text, spans, 0))
NormalizeKick == \E text \in Texts(KickAtoms, KickLen) : Normalized("kick", text, 0, ParseContent(text))
NormalizeYouTube ==
  \E runs \in Texts(Runs, 3) :
    Normalized("youtube", FlattenSeq([i \in 1 .. Len(runs) |-> runs[i].text]), 0, RunsSegments(runs))
SegmentsNext == sgLast.from = "none" /\ (NormalizeTwitch \/ NormalizeKick \/ NormalizeYouTube)

\* What was said, read back from the segments.
Spoken(s) == IF s.kind = "emote" /\ "token" \in DOMAIN s THEN s.token ELSE s.text

Cheers == Len(SelectSeq(sgLast.segs, LAMBDA s : s.kind = "cheer"))

\* "The concatenation of all segment Texts reproduces s exactly", through every
\* normalizer: no character of a message is lost, doubled or moved, wherever
\* emotes, mentions, links and cheers fall or overlap; and no more bits are
\* shown as cheers than the message came with, which are all of them or none
\* where words are only parted by spaces.
Lossless ==
  LET segs == sgLast.segs IN
    /\ FlattenSeq([i \in 1 .. Len(segs) |-> Spoken(segs[i])]) = sgLast.text
    /\ \A i \in 1 .. Len(segs) : segs[i].kind = "text" => segs[i].text # <<>>
    /\ Cheers <= sgLast.bits
    /\ (\A i \in 1 .. Len(sgLast.text) : sgLast.text[i] # Tab) => Cheers \in {0, sgLast.bits}

\* "A token is only treated as a cheer when the amounts across all candidates
\* add up to the message's authoritative bits total - otherwise the text is
\* left as-is" (normalize.go:196): the cheers of a message are all of its bits
\* or none.  No run checks it: the total counts the words between white space
\* of any kind (line 204), the split looks at words between spaces only (line
\* 237), so a cheermote behind a tab is counted and stays text.
CheersAllOrNone == Cheers \in {0, sgLast.bits}
=============================================================================
