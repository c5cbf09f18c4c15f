---------------------------- MODULE MCCursorLife ----------------------------
(* Two cursors on one database, for TLC.  The cursors are interchangeable. *)
EXTENDS CursorLife, TLC

CONSTANTS c1, c2

MCCursors == {c1, c2}

CursorSymmetry == Permutations(MCCursors)
====
