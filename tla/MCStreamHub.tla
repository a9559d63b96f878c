---------------------------- MODULE MCStreamHub -----------------------------
(* One client that may lose its connection, change its filter and stop. *)
EXTENDS StreamHub

CONSTANTS chA, chB

(* The page shows only the first channel, or both. *)
AOrBoth == {{chA}, {chA, chB}}
=============================================================================
