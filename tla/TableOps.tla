------------------------------ MODULE TableOps ------------------------------
(***************************************************************************)
(* The arrays in which FTK keeps its sources, windows and items: slots     *)
(* 0 .. nr-1 of a C array, here 1 .. Len(q) of a sequence.                 *)
(***************************************************************************)
EXTENDS Integers, Sequences, FiniteSets

\* How often x occurs in q.
Occ(q, x) == Cardinality({k \in DOMAIN q : q[k] = x})

\* The first slot that holds x.
FirstSlot(q, x) ==
    CHOOSE k \in DOMAIN q : /\ q[k] = x
                            /\ \A j \in 1 .. (k - 1) : q[j] # x

\* The loop that closes the gap at slot k: every later slot moves down by one.
ShiftDown(q, k) == [j \in 1 .. (Len(q) - 1) |-> IF j < k THEN q[j] ELSE q[j + 1]]

\* The loops that move slot k to n: the slots between make room by one.
MoveSlot(q, k, n) ==
    [j \in DOMAIN q |-> IF j = n THEN q[k]
                        ELSE IF k <= j /\ j < n THEN q[j + 1]
                        ELSE IF n < j /\ j <= k THEN q[j - 1]
                        ELSE q[j]]

=============================================================================
