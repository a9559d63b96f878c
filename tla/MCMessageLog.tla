---------------------------- MODULE MCMessageLog -----------------------------
(* Three messages of two channels, a flush at two, an idMap of two.        *)
EXTENDS MessageLog, TLC
MCChannelOf == <<"x", "x", "y">>
OneChannel == <<"x">>
Sym == Permutations(PlatformIds)
=============================================================================
