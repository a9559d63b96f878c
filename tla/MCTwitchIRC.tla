----------------------------- MODULE MCTwitchIRC -----------------------------
(* Two channels, one channel per connection, so that a second shard opens. *)
EXTENDS TwitchIRC
MCShards == 1 .. 2
=============================================================================
