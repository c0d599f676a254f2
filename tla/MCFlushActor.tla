---------------------------- MODULE MCFlushActor ----------------------------
(* Small instances of FlushActor: two addresses that compete for the one     *)
(* slot of a row, or one address of each of two rows.                        *)
EXTENDS FlushActor

CONSTANTS m, n

TwoKeys == {"a1", "b1"}
OneRow == {"a1", "a2"}
MCRowOf == [k \in Keys |-> IF k = "b1" THEN "b" ELSE "a"]
=============================================================================
