--------------------------- MODULE MCTaskService ---------------------------
(* Small instances of TaskService for TLC. *)
EXTENDS TaskService, TLC

CONSTANTS h1, h2, h3, t1, t2

MCNone == "no value"

(* Two colours on different backgrounds, each in a file of its own. *)
TwoColors == {"white", "blue"}

(* Besides, a name that differs from another in a letter's case, and one   *)
(* that leads to the file of the sheet.                                    *)
OddColors == {"white", "blue", "Blue", "layout_6inch"}

MCLower == [c \in Colors |-> IF c = "Blue" THEN "blue" ELSE c]

MCJoined == [id \in TaskIDs |->
  [c \in Colors |-> [dir |-> id, name |-> IF c = "layout_6inch" THEN Layout ELSE c]]]

Goroutines == Permutations({h1, h2, h3})
=============================================================================
