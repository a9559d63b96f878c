------------------------------- MODULE MCChat -------------------------------
(***************************************************************************)
(* Small instances of the readers of Kick and YouTube, of what is done to  *)
(* a message's text on its way (segments, mask, emotes) and of what is     *)
(* fetched beside the chat.  They share no state, so a behaviour exercises *)
(* one of them, its focus, and leaves the others in their initial state.   *)
(***************************************************************************)
EXTENDS KickAdapter, YouTubeAdapter, Segments, Overlays, Filter, TLC

VARIABLE focus   \* the component whose behaviours are explored

ovAll == <<emVars, lzVars, wdVars>>
vars == <<kkVars, ytVars, sgVars, ovAll, fiVars, focus>>

Init ==
  /\ KickInit /\ YouTubeInit /\ SegmentsInit /\ OverlaysInit /\ FilterInit
  /\ focus \in {"kick", "youtube", "segments", "emotes", "lazy", "words", "filter"}
  /\ focus # "words" => ovText = <<>> /\ ovGroup = <<>>
  /\ focus # "filter" => fiText = <<>>

Next ==
  \/ focus = "kick" /\ KickNext /\ UNCHANGED <<ytVars, sgVars, ovAll, fiVars, focus>>
  \/ focus = "youtube" /\ YouTubeNext /\ UNCHANGED <<kkVars, sgVars, ovAll, fiVars, focus>>
  \/ focus = "segments" /\ SegmentsNext /\ UNCHANGED <<kkVars, ytVars, ovAll, fiVars, focus>>
  \/ focus = "emotes" /\ EmotesNext /\ UNCHANGED <<kkVars, ytVars, sgVars, fiVars, focus>>
  \/ focus = "lazy" /\ LazyNext /\ UNCHANGED <<kkVars, ytVars, sgVars, fiVars, focus>>
  \/ focus = "words" /\ WordsNext /\ UNCHANGED <<kkVars, ytVars, sgVars, fiVars, focus>>
  \/ focus = "filter" /\ FilterNext /\ UNCHANGED <<kkVars, ytVars, sgVars, ovAll, focus>>

Spec == Init /\ [][Next]_vars

\* A message keeps its text on its way from the platform to the views: what the
\* adapters split into segments, the filter masks and the emote stage splits
\* again can be put back together to what was said, and the pieces are the
\* ones they should be (normalize of each platform, Ruleset.Annotate, the
\* emote Stage).
TextKept == Lossless /\ MaskExact /\ EmoteWords

-----------------------------------------------------------------------------
Emote(name, provider) == [name |-> name, from |-> provider]
EmoteLists ==
  {<< <<Emote(<<"a">>, 1), Emote(<< >>, 1)>>, <<Emote(<<"a">>, 2), Emote(<<"b", "a">>, 2)>> >>,
   << << >>, <<Emote(<<"a", "a">>, 2)>> >>, << >>}

LowerCase == [c \in Chars \cup {"*"} |-> IF c = "A" THEN "a" ELSE c]
ChatMessage == [author |-> "u", type |-> "chat"]
Rule(action, keywords, regexes, authors) ==
  [action |-> action, keywords |-> keywords, regexes |-> regexes,
   scope |-> [author |-> authors, type |-> {}]]
RulePool ==
  {Rule("mask", {<<"A">>}, {}, {}), Rule("mask", {}, {<<"a", " ">>, <<"A", "a">>}, {}),
   Rule("mask", {<<"a", "a", "a">>}, {<<"A">>}, {"u"}), Rule("mask", {<<"a">>}, {}, {"other"}),
   Rule("highlight", {<<"a">>}, {}, {}), Rule("hide", {}, {<<"a", "a">>}, {}),
   Rule("hide", {}, {}, {"other"})}

\* Calls of Join are interchangeable, and so are the channels of an adapter.
Symmetric == Permutations(KkJoins) \cup Permutations(KkChannels)

=============================================================================
