----------------------------- MODULE MCConfSync -----------------------------
(* Small instances of ConfSync.  Texts: "base" and the comment-only edits    *)
(* "note" and "memo" derive fabric F0, "alt" derives F1, "bad" derives F2,   *)
(* under which nothing is forwarded, and "torn" is a cut-short write.        *)
EXTENDS ConfSync

CONSTANTS Stranger   \* the member that texts in Foreign have no row for
CONSTANTS Foreign

MCFabricOf == [c \in Confs |-> CASE c = "alt" -> "F1"
                                 [] c = "bad" -> "F2"
                                 [] OTHER -> "F0"]
MCValid == [m \in Members |-> Confs \ ({"torn"} \union
                                 (IF m = Stranger THEN Foreign ELSE {}))]
MCCarries == {"F0", "F1"}
=============================================================================
