---- MODULE MCWindowUpdate ----
(* Instances of WindowUpdate: a window and the rectangles of two or three of its widgets. *)
EXTENDS WindowUpdate

CONSTANTS w, r1, r2, r3

W == w
Few == {w, r1, r2}
Many == {w, r1, r2, r3}
=============================
