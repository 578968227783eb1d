------------------------ MODULE WindowUpdate_proofs ------------------------
(***************************************************************************)
(* What WindowUpdate promises for every window, every size of the array of *)
(* dirty rectangles and every bound: the invariants are proved together,   *)
(* since the type of the reference count rests on the balance of the       *)
(* references, and the schedule of repaints on the idle being disabled     *)
(* only when its window goes.                                              *)
(***************************************************************************)
EXTENDS WindowUpdate, TableOps_proofs, FiniteSetTheorems

\* An idle that is not allocated, of a window that lives, has not been asked for.
NotYetAskedFor ==
    (~alive /\ ~destroyed) => (slots = 0 /\ Pending = 0 /\ refused = 0)

\* The idle is disabled, and a REMOVE queued, when its window goes and not before.
DisabledOnDestroy ==
    /\ ~destroyed => (~disable /\ Occ(pipe, "REMOVE") = 0)
    /\ (destroyed /\ alive) => disable

\* A destroyed window is not seen.
DestroyedIsHidden == destroyed => ~visible

RefInv == TypeOK /\ RefsBalance /\ NotYetAskedFor /\ DisabledOnDestroy /\ DestroyedIsHidden

Kinds == {"USER", "ADD", "REMOVE"}

(***************************************************************************)
(* The pipe                                                                *)
(***************************************************************************)

\* What one more event, or one less, does to the counts of events.
LEMMA WriteCount ==
    ASSUME pipe \in Seq(Kinds), NEW e \in Kinds, pipe' = Append(pipe, e)
    PROVE  /\ pipe' \in Seq(Kinds)
           /\ \A x \in Kinds : Occ(pipe', x) = Occ(pipe, x) + (IF e = x THEN 1 ELSE 0)
<1>1. \A x \in Kinds : Occ(Append(pipe, e), x) = Occ(pipe, x) + (IF e = x THEN 1 ELSE 0)
  BY OccAppend
<1> QED
  BY <1>1

LEMMA ReadCount ==
    ASSUME pipe \in Seq(Kinds), NEW e \in Kinds, Reads(e)
    PROVE  /\ pipe' \in Seq(Kinds)
           /\ \A x \in Kinds : Occ(pipe', x) = Occ(pipe, x) - (IF e = x THEN 1 ELSE 0)
<1>1. pipe # <<>> /\ Head(pipe) = e /\ pipe' = Tail(pipe)
  BY DEF Reads
<1>2. \A x \in Kinds : Occ(Tail(pipe), x) = Occ(pipe, x) - (IF Head(pipe) = x THEN 1 ELSE 0)
  BY <1>1, OccTail
<1>3. Tail(pipe) \in Seq(Kinds)
  BY <1>1
<1> QED
  BY <1>1, <1>2, <1>3

LEMMA CountIsNat ==
    ASSUME pipe \in Seq(Kinds)
    PROVE  \A x \in Kinds : Occ(pipe, x) \in Nat
BY OccType

(***************************************************************************)
(* References of the idle                                                  *)
(***************************************************************************)

\* Asking for the idle adds one reference and one ADD.
LEMMA ScheduleRefs ==
    ASSUME RefInv, Schedule, ~destroyed, visible' \in BOOLEAN, mapped' \in BOOLEAN,
           dirty' \subseteq Rects, unpainted' \subseteq Rects,
           UNCHANGED <<destroyed, table, mode>>
    PROVE  RefInv'
<1> USE DEF RefInv, Schedule, table
<1>1. /\ pipe' \in Seq(Kinds)
      /\ Occ(pipe', "ADD") = Occ(pipe, "ADD") + 1
      /\ Occ(pipe', "REMOVE") = Occ(pipe, "REMOVE")
  <2>1. pipe \in Seq(Kinds) /\ "ADD" \in Kinds /\ "REMOVE" \in Kinds
    BY DEF TypeOK, Kinds
  <2>2. pipe' = Append(pipe, "ADD")
    OBVIOUS
  <2>3. \A x \in Kinds : Occ(pipe', x) = Occ(pipe, x) + (IF "ADD" = x THEN 1 ELSE 0)
    BY <2>1, <2>2, WriteCount
  <2>4. pipe' \in Seq(Kinds) /\ \A x \in Kinds : Occ(pipe, x) \in Nat
    BY <2>1, <2>2, CountIsNat
  <2> QED
    BY <2>1, <2>3, <2>4
<1>2. Occ(pipe, "ADD") \in Nat
  BY CountIsNat DEF TypeOK, Kinds
<1>3. TypeOK'
  BY <1>1 DEF TypeOK, Kinds
<1>4. RefsBalance'
  BY <1>1, <1>2 DEF RefsBalance, NotYetAskedFor, TypeOK, Pending
<1>5. NotYetAskedFor' /\ DisabledOnDestroy' /\ DestroyedIsHidden'
  BY <1>1 DEF NotYetAskedFor, DisabledOnDestroy, DestroyedIsHidden
<1> QED
  BY <1>3, <1>4, <1>5

\* Steps that leave the idle and the pipe alone, and show no destroyed window.
LEMMA QuietRefs ==
    ASSUME RefInv, UNCHANGED <<idle, slots, refused, pipe, destroyed>>,
           visible' \in BOOLEAN, mapped' \in BOOLEAN, destroyed => ~visible',
           dirty' \subseteq Rects, unpainted' \subseteq Rects,
           full' \in BOOLEAN, mode' \in {"loop", "handler"}
    PROVE  RefInv'
BY DEF RefInv, TypeOK, RefsBalance, NotYetAskedFor, DisabledOnDestroy, DestroyedIsHidden,
       Pending, idle

LEMMA InvalidateRefs ==
    ASSUME RefInv, ~destroyed, NEW r \in Rects, NEW seen \in BOOLEAN,
           NEW stale \in SUBSET Rects, Invalidate(r, seen, stale),
           visible' \in BOOLEAN, mapped' \in BOOLEAN,
           UNCHANGED <<destroyed, table, mode>>
    PROVE  RefInv'
<1>1. dirty' \subseteq Rects /\ unpainted' \subseteq Rects
  BY DEF Invalidate, RefInv, TypeOK
<1>2. Schedule \/ UNCHANGED <<idle, pipe>>
  BY DEF Invalidate
<1>3. CASE Schedule
  BY <1>1, <1>3, ScheduleRefs
<1>4. CASE UNCHANGED <<idle, pipe>>
  <2>1. /\ UNCHANGED <<slots, refused>> /\ full' \in BOOLEAN /\ mode' \in {"loop", "handler"}
    BY DEF table, RefInv, TypeOK
  <2> QED
    BY <1>1, <1>4, <2>1, QuietRefs
<1> QED
  BY <1>2, <1>3, <1>4

LEMMA DestroyRefs ==
    ASSUME RefInv, Destroy
    PROVE  RefInv'
<1> USE DEF RefInv
<1>1. ~destroyed /\ destroyed' /\ visible' = FALSE /\ mapped' = FALSE
      /\ UNCHANGED <<unpainted, dirty, slots, full, refused, mode>>
  BY DEF Destroy, InHandler, table
<1>2. CASE alive
  <2>1. /\ pipe' = Append(pipe, "REMOVE") /\ disable' = TRUE /\ ref' = ref - 1
        /\ alive' = (active /\ ref # 1) /\ active' = active
    BY <1>2 DEF Destroy
  <2>2. pipe \in Seq(Kinds) /\ "ADD" \in Kinds /\ "REMOVE" \in Kinds
    BY DEF TypeOK, Kinds
  <2>3. /\ pipe' \in Seq(Kinds)
        /\ \A x \in Kinds : Occ(pipe', x) = Occ(pipe, x) + (IF "REMOVE" = x THEN 1 ELSE 0)
    BY <2>1, <2>2, WriteCount
  <2>4. Occ(pipe, "ADD") \in Nat /\ Occ(pipe', "ADD") = Occ(pipe, "ADD")
    <3> HIDE DEF RefInv
    <3>1. Occ(pipe, "ADD") \in Nat
      BY <2>2, CountIsNat
    <3>2. Occ(pipe', "ADD") = Occ(pipe, "ADD") + 0
      BY <2>2, <2>3
    <3> QED
      BY <3>1, <3>2
  <2>5. ref = 1 + slots + Occ(pipe, "ADD") + refused
    BY <1>1, <1>2 DEF RefsBalance, Pending
  <2>6. ref' \in Nat /\ ref' = slots + Occ(pipe, "ADD") + refused
    BY <2>1, <2>4, <2>5 DEF TypeOK
  <2>7. TypeOK'
    BY <1>1, <2>1, <2>3, <2>6 DEF TypeOK, Kinds
  <2>8. RefsBalance'
    BY <1>1, <2>4, <2>6 DEF RefsBalance, Pending, TypeOK
  <2> QED
    BY <1>1, <2>1, <2>7, <2>8 DEF NotYetAskedFor, DisabledOnDestroy, DestroyedIsHidden
<1>3. CASE ~alive
  BY <1>1, <1>3 DEF Destroy, idle, TypeOK, RefsBalance, NotYetAskedFor, DisabledOnDestroy,
                    DestroyedIsHidden
<1> QED
  BY <1>2, <1>3

\* A slot is taken away, from an idle that is allocated.
LEMMA TakeSlotRefs ==
    ASSUME RefInv, TakeSlot, slots > 0, alive,
           pipe' \in Seq(Kinds), Occ(pipe', "ADD") = Occ(pipe, "ADD"),
           Occ(pipe', "REMOVE") \in Nat, Occ(pipe', "REMOVE") <= Occ(pipe, "REMOVE"),
           dirty' \subseteq Rects, unpainted' \subseteq Rects,
           UNCHANGED <<visible, mapped, destroyed, disable, full, refused, mode>>
    PROVE  RefInv'
<1>1. TypeOK /\ RefsBalance /\ NotYetAskedFor /\ DisabledOnDestroy /\ DestroyedIsHidden
  BY DEF RefInv
<1>2. Occ(pipe, "ADD") \in Nat /\ Occ(pipe, "REMOVE") \in Nat
  BY <1>1, CountIsNat DEF TypeOK, Kinds
<1>3. ref = (IF destroyed THEN 0 ELSE 1) + slots + Occ(pipe, "ADD") + refused
  <2>1. alive = TRUE /\ RefsBalance
    BY <1>1 DEF TypeOK
  <2> QED
    BY <2>1 DEF RefsBalance, Pending
<1>4. /\ slots' = slots - 1 /\ ref' = ref - 1 /\ active' = FALSE
      /\ alive' \in BOOLEAN /\ (alive' <=> ref # 1)
  <2>1. ref \in Nat
    BY <1>1 DEF TypeOK
  <2>2. slots' = slots - 1 /\ ref' = ref - 1 /\ active' = FALSE /\ alive' = (ref # 1)
    BY DEF TakeSlot
  <2>3. alive' \in BOOLEAN /\ (alive' <=> ref # 1)
    BY <2>2, Zenon
  <2> QED
    BY <2>2, <2>3
<1>5. slots' \in Nat /\ ref' \in Nat
  <2>1. slots \in Nat /\ refused \in Nat /\ ref \in Nat
    BY <1>1 DEF TypeOK
  <2>2. slots - 1 \in Nat
    BY <2>1
  <2>3. ref \in Nat \ {0}
    <3> DEFINE w == IF destroyed THEN 0 ELSE 1
    <3>1. w \in Nat
      OBVIOUS
    <3>2. ref = w + slots + Occ(pipe, "ADD") + refused
      BY <1>3
    <3> HIDE DEF w
    <3> QED
      BY <1>2, <2>1, <3>1, <3>2
  <2> QED
    BY <1>4, <2>2, <2>3
<1>6. TypeOK'
  BY <1>1, <1>4, <1>5 DEF TypeOK, Kinds
<1>7. RefsBalance'
  <2>1. slots \in Nat /\ refused \in Nat /\ ref \in Nat
    BY <1>1 DEF TypeOK
  <2>2. ref - 1 = (IF destroyed THEN 0 ELSE 1) + (slots - 1) + Occ(pipe, "ADD") + refused
    <3> DEFINE w == IF destroyed THEN 0 ELSE 1
    <3>1. w \in Nat
      OBVIOUS
    <3>2. ref = w + slots + Occ(pipe, "ADD") + refused
      BY <1>3
    <3> HIDE DEF w
    <3>3. ref - 1 = w + (slots - 1) + Occ(pipe, "ADD") + refused
      BY <1>2, <2>1, <3>1, <3>2
    <3> QED
      BY <3>3 DEF w
  <2> QED
    BY <1>4, <2>2 DEF RefsBalance, Pending
<1>8. NotYetAskedFor'
  <2>1. ~destroyed => ref # 1
    <3>1. slots \in Nat \ {0} /\ refused \in Nat
      BY <1>1 DEF TypeOK
    <3>2. ~destroyed => ref = 1 + slots + Occ(pipe, "ADD") + refused
      BY <1>3
    <3> QED
      BY <1>2, <3>1, <3>2
  <2> QED
    BY <1>1, <1>4, <2>1 DEF NotYetAskedFor
<1>9. DisabledOnDestroy' /\ DestroyedIsHidden'
  BY <1>1, <1>2, <1>4 DEF DisabledOnDestroy, DestroyedIsHidden, TypeOK
<1> QED
  BY <1>6, <1>7, <1>8, <1>9 DEF RefInv

\* Steps that leave the idle alone, and change only the user events of the pipe.
LEMMA UserEventRefs ==
    ASSUME RefInv, UNCHANGED <<window, unpainted, dirty, idle, table>>,
           mode' \in {"loop", "handler"}, pipe' \in Seq(Kinds),
           Occ(pipe', "ADD") = Occ(pipe, "ADD"),
           Occ(pipe', "REMOVE") = Occ(pipe, "REMOVE")
    PROVE  RefInv'
BY DEF RefInv, TypeOK, RefsBalance, NotYetAskedFor, DisabledOnDestroy, DestroyedIsHidden,
       Pending, idle, window, table, Kinds

\* One ADD that is dispatched becomes one slot, or one refusal.
LEMMA OneMoves ==
    ASSUME NEW s \in Nat, NEW f \in Nat, NEW p \in Nat,
           NEW s1 \in Nat, NEW f1 \in Nat, NEW p1 \in Nat,
           s1 + f1 = s + f + 1, p1 = p - 1
    PROVE  s1 + p1 + f1 = s + p + f
OBVIOUS

LEMMA DispatchAddRefs ==
    ASSUME RefInv, DispatchAdd
    PROVE  RefInv'
<1>1. TypeOK /\ RefsBalance /\ NotYetAskedFor /\ DisabledOnDestroy /\ DestroyedIsHidden
  BY DEF RefInv
<1>2. pipe \in Seq(Kinds) /\ "ADD" \in Kinds /\ "REMOVE" \in Kinds /\ Reads("ADD")
  BY <1>1 DEF TypeOK, Kinds, DispatchAdd
<1>3. /\ pipe' \in Seq(Kinds)
      /\ \A x \in Kinds : Occ(pipe', x) = Occ(pipe, x) - (IF "ADD" = x THEN 1 ELSE 0)
  BY <1>2, ReadCount
<1>4. \A x \in Kinds : Occ(pipe, x) \in Nat /\ Occ(pipe', x) \in Nat
  BY <1>2, <1>3, CountIsNat, OccType
<1>5. Occ(pipe', "ADD") = Occ(pipe, "ADD") - 1 /\ Occ(pipe', "REMOVE") = Occ(pipe, "REMOVE")
  <2>1. Occ(pipe', "ADD") = Occ(pipe, "ADD") - 1
    BY <1>2, <1>3
  <2>2. Occ(pipe', "REMOVE") = Occ(pipe, "REMOVE") - 0 /\ Occ(pipe, "REMOVE") \in Nat
    BY <1>2, <1>3, <1>4
  <2> QED
    BY <2>1, <2>2
<1>6. alive /\ UNCHANGED <<window, unpainted, dirty, ref, disable, alive, full, mode>>
  BY DEF DispatchAdd
<1>7. /\ slots' \in Nat /\ refused' \in Nat /\ active' \in BOOLEAN
      /\ slots' + refused' = slots + refused + 1
  <2>1. slots \in Nat /\ refused \in Nat /\ active \in BOOLEAN
    BY <1>1 DEF TypeOK
  <2>2. CASE full
    <3>1. refused' = refused + 1 /\ slots' = slots /\ active' = active
      BY <2>2 DEF DispatchAdd
    <3> QED
      BY <2>1, <3>1
  <2>3. CASE ~full
    <3>1. slots' = slots + 1 /\ active' = TRUE /\ refused' = refused
      BY <2>3 DEF DispatchAdd
    <3> QED
      BY <2>1, <3>1
  <2> QED
    BY <2>2, <2>3
<1>8. TypeOK'
  BY <1>1, <1>3, <1>6, <1>7 DEF TypeOK, Kinds, window
<1>9. RefsBalance'
  <2>1. slots \in Nat /\ refused \in Nat /\ Occ(pipe, "ADD") \in Nat
    BY <1>1, <1>2, <1>4 DEF TypeOK
  <2>2. slots' + Occ(pipe', "ADD") + refused' = slots + Occ(pipe, "ADD") + refused
    <3>1. Occ(pipe', "ADD") = Occ(pipe, "ADD") - 1
      BY <1>5
    <3>2. slots' \in Nat /\ refused' \in Nat /\ slots' + refused' = slots + refused + 1
      BY <1>7
    <3>3. Occ(pipe', "ADD") \in Nat
      BY <1>2, <1>4
    <3> QED
      <4>1. PICK p \in Nat : p = Occ(pipe, "ADD")
        BY <2>1
      <4>2. PICK p1 \in Nat : p1 = Occ(pipe', "ADD")
        BY <3>3
      <4>3. p1 = p - 1
        BY <3>1, <4>1, <4>2
      <4>4. PICK s1 \in Nat : s1 = slots'
        BY <3>2
      <4>5. PICK f1 \in Nat : f1 = refused'
        BY <3>2
      <4>6. s1 + f1 = slots + refused + 1
        BY <3>2, <4>4, <4>5
      <4>7. s1 + p1 + f1 = slots + p + refused
        BY <2>1, <4>3, <4>6, OneMoves
      <4> QED
        BY <4>1, <4>2, <4>4, <4>5, <4>7
  <2>3. ref = (IF destroyed THEN 0 ELSE 1) + slots + Occ(pipe, "ADD") + refused
    BY <1>1, <1>6 DEF RefsBalance, Pending
  <2>4. Occ(pipe', "ADD") \in Nat
    BY <1>2, <1>4
  <2>5. ref = (IF destroyed THEN 0 ELSE 1) + slots' + Occ(pipe', "ADD") + refused'
    BY <1>7, <2>1, <2>2, <2>3, <2>4
  <2> QED
    BY <1>6, <2>5 DEF RefsBalance, Pending, window
<1>10. NotYetAskedFor' /\ DisabledOnDestroy' /\ DestroyedIsHidden'
  BY <1>1, <1>5, <1>6 DEF NotYetAskedFor, DisabledOnDestroy, DestroyedIsHidden, window
<1> QED
  BY <1>8, <1>9, <1>10 DEF RefInv

LEMMA DispatchRemoveRefs ==
    ASSUME RefInv, DispatchRemove
    PROVE  RefInv'
<1>1. pipe \in Seq(Kinds) /\ "ADD" \in Kinds /\ "REMOVE" \in Kinds /\ Reads("REMOVE")
  BY DEF RefInv, TypeOK, Kinds, DispatchRemove
<1>2. /\ pipe' \in Seq(Kinds)
      /\ \A x \in Kinds : Occ(pipe', x) = Occ(pipe, x) - (IF "REMOVE" = x THEN 1 ELSE 0)
  BY <1>1, ReadCount
<1>3. \A x \in Kinds : Occ(pipe, x) \in Nat /\ Occ(pipe', x) \in Nat
  BY <1>1, <1>2, CountIsNat, OccType
<1>4. Occ(pipe', "ADD") = Occ(pipe, "ADD")
      /\ Occ(pipe', "REMOVE") = Occ(pipe, "REMOVE") - 1 /\ Occ(pipe', "REMOVE") \in Nat
  <2>1. Occ(pipe', "ADD") = Occ(pipe, "ADD") - 0
    BY <1>1, <1>2
  <2>2. Occ(pipe, "ADD") \in Nat /\ Occ(pipe', "REMOVE") \in Nat
    BY <1>1, <1>3
  <2>3. Occ(pipe', "REMOVE") = Occ(pipe, "REMOVE") - 1
    BY <1>1, <1>2
  <2>4. Occ(pipe', "ADD") = Occ(pipe, "ADD")
    BY <2>1, <2>2
  <2> QED
    BY <2>2, <2>3, <2>4
<1>5. UNCHANGED <<window, unpainted, dirty, disable, full, refused, mode>>
  BY DEF DispatchRemove
<1>6. CASE slots > 0 /\ alive
  <2>1. TakeSlot
    BY <1>6 DEF DispatchRemove
  <2>2. Occ(pipe, "REMOVE") \in Nat
    BY <1>1, <1>3
  <2>3. dirty' \subseteq Rects /\ unpainted' \subseteq Rects
    BY <1>5 DEF RefInv, TypeOK
  <2>4. UNCHANGED <<visible, mapped, destroyed, disable, full, refused, mode>>
    BY <1>5 DEF window
  <2> QED
    BY <1>2, <1>4, <1>6, <2>1, <2>2, <2>3, <2>4, TakeSlotRefs
<1>7. CASE ~(slots > 0 /\ alive)
  <2>1. UNCHANGED <<slots, active, ref, alive>>
    BY <1>7 DEF DispatchRemove
  <2>2. Occ(pipe, "REMOVE") # 0
    BY <1>1, <1>3, <1>4
  <2> QED
    BY <1>2, <1>4, <1>5, <2>1, <2>2
       DEF RefInv, TypeOK, RefsBalance, NotYetAskedFor, DisabledOnDestroy,
           DestroyedIsHidden, Pending, window, Kinds
<1> QED
  BY <1>6, <1>7

\* The idle's turn in the pass, while it is enabled and after.
LEMMA TurnRefs ==
    ASSUME RefInv, DispatchIdle \/ RemoveDisabled
    PROVE  RefInv'
<1>1. slots > 0 /\ alive /\ TakeSlot /\ pipe' = pipe
  BY DEF DispatchIdle, RemoveDisabled
<1>2. pipe \in Seq(Kinds) /\ "ADD" \in Kinds /\ "REMOVE" \in Kinds
  BY DEF RefInv, TypeOK, Kinds
<1>3. /\ pipe' \in Seq(Kinds)
      /\ Occ(pipe', "ADD") = Occ(pipe, "ADD")
      /\ Occ(pipe', "REMOVE") \in Nat /\ Occ(pipe', "REMOVE") <= Occ(pipe, "REMOVE")
  <2>1. Occ(pipe, "REMOVE") \in Nat
    BY <1>2, CountIsNat
  <2> QED
    BY <1>1, <1>2, <2>1
<1>4. dirty' \subseteq Rects /\ unpainted' \subseteq Rects
  BY DEF RefInv, TypeOK, DispatchIdle, RemoveDisabled, IdleInvalidate
<1>5. UNCHANGED <<visible, mapped, destroyed, disable, full, refused, mode>>
  BY DEF DispatchIdle, RemoveDisabled, window
<1> QED
  BY <1>1, <1>3, <1>4, <1>5, TakeSlotRefs

LEMMA RefInit == Init => RefInv
<1> SUFFICES ASSUME Init PROVE RefInv
  OBVIOUS
<1>1. Occ(<<>>, "ADD") = 0 /\ Occ(<<>>, "REMOVE") = 0
  BY OccEmpty
<1>2. pipe = <<>> /\ alive = FALSE /\ destroyed = FALSE /\ visible = FALSE
      /\ disable = FALSE /\ slots = 0 /\ refused = 0
  BY DEF Init
<1>3. Occ(pipe, "ADD") = 0 /\ Occ(pipe, "REMOVE") = 0
  BY <1>1, <1>2
<1>4. TypeOK
  <2>1. pipe \in Seq({"USER", "ADD", "REMOVE"})
    BY <1>2
  <2>2. unpainted \subseteq Rects /\ dirty \subseteq Rects
    BY DEF Init
  <2>3. ref \in Nat /\ slots \in Nat /\ refused \in Nat /\ mode \in {"loop", "handler"}
    BY DEF Init
  <2>4. /\ visible \in BOOLEAN /\ mapped \in BOOLEAN /\ destroyed \in BOOLEAN
        /\ active \in BOOLEAN /\ disable \in BOOLEAN /\ alive \in BOOLEAN /\ full \in BOOLEAN
    BY DEF Init
  <2> QED
    BY <2>1, <2>2, <2>3, <2>4 DEF TypeOK
<1>5. RefsBalance /\ NotYetAskedFor
  BY <1>2, <1>3 DEF RefsBalance, NotYetAskedFor, Pending
<1>6. DisabledOnDestroy /\ DestroyedIsHidden
  BY <1>2, <1>3 DEF DisabledOnDestroy, DestroyedIsHidden
<1> QED
  BY <1>4, <1>5, <1>6 DEF RefInv

LEMMA RefStep == RefInv /\ [Next]_vars => RefInv'
<1> SUFFICES ASSUME RefInv, [Next]_vars PROVE RefInv'
  OBVIOUS
<1>1. TypeOK
  BY DEF RefInv
<1>2. ASSUME NEW r \in Rects, WidgetChanges(r) PROVE RefInv'
  <2>1. Invalidate(r, mapped, unpainted \cup {r})
    BY <1>2 DEF WidgetChanges
  <2>2. ~destroyed /\ mapped \in BOOLEAN /\ unpainted \cup {r} \in SUBSET Rects
        /\ visible' \in BOOLEAN /\ mapped' \in BOOLEAN /\ UNCHANGED <<destroyed, table, mode>>
    BY <1>1, <1>2 DEF WidgetChanges, InHandler, TypeOK, window
  <2> QED
    BY <2>1, <2>2, InvalidateRefs
<1>3. CASE Show
  <2>1. PICK onTop \in BOOLEAN : Invalidate(Whole, onTop, Rects)
    BY <1>3 DEF Show
  <2>2. ~destroyed /\ Whole \in Rects /\ Rects \in SUBSET Rects
        /\ visible' \in BOOLEAN /\ mapped' \in BOOLEAN /\ UNCHANGED <<destroyed, table, mode>>
    BY <1>3, RectsAssumption DEF Show, InHandler
  <2> QED
    BY <2>1, <2>2, InvalidateRefs
<1>4. CASE Hide \/ Cover \/ Uncover \/ HandlerReturn \/ OtherSources
  <2>1. UNCHANGED <<idle, slots, refused, pipe, destroyed>>
    BY <1>4 DEF Hide, Cover, Uncover, HandlerReturn, OtherSources, window, table
  <2>2. visible' \in BOOLEAN /\ mapped' \in BOOLEAN /\ (destroyed => ~visible')
    <3>1. visible \in BOOLEAN /\ mapped \in BOOLEAN /\ (destroyed => ~visible)
      BY <1>1 DEF TypeOK, RefInv, DestroyedIsHidden
    <3>2. CASE Hide
      BY <3>2 DEF Hide, InHandler
    <3>3. CASE Cover
      BY <3>1, <3>3 DEF Cover
    <3>4. CASE Uncover
      BY <3>1, <3>4 DEF Uncover
    <3>5. CASE HandlerReturn \/ OtherSources
      BY <3>1, <3>5 DEF HandlerReturn, OtherSources, window
    <3> QED
      BY <1>4, <3>2, <3>3, <3>4, <3>5
  <2>3. /\ dirty' \subseteq Rects /\ unpainted' \subseteq Rects
        /\ full' \in BOOLEAN /\ mode' \in {"loop", "handler"}
    BY <1>1, <1>4 DEF Hide, Cover, Uncover, HandlerReturn, OtherSources, TypeOK, table
  <2> QED
    BY <2>1, <2>2, <2>3, QuietRefs
<1>5. CASE Destroy
  BY <1>5, DestroyRefs
<1>6. CASE UserEvent
  <2>1. pipe \in Seq(Kinds) /\ "USER" \in Kinds /\ "ADD" \in Kinds /\ "REMOVE" \in Kinds
    BY <1>1 DEF TypeOK, Kinds
  <2>2. pipe' = Append(pipe, "USER") /\ UNCHANGED <<window, unpainted, dirty, idle, table, mode>>
    BY <1>6 DEF UserEvent
  <2>3. /\ pipe' \in Seq(Kinds)
        /\ \A x \in Kinds : Occ(pipe', x) = Occ(pipe, x) + (IF "USER" = x THEN 1 ELSE 0)
    BY <2>1, <2>2, WriteCount
  <2>4. Occ(pipe', "ADD") = Occ(pipe, "ADD") /\ Occ(pipe', "REMOVE") = Occ(pipe, "REMOVE")
    BY <2>1, <2>3, CountIsNat
  <2> QED
    BY <1>1, <2>2, <2>3, <2>4, UserEventRefs DEF TypeOK
<1>7. CASE DispatchUser
  <2>1. pipe \in Seq(Kinds) /\ "USER" \in Kinds /\ "ADD" \in Kinds /\ "REMOVE" \in Kinds
    BY <1>1 DEF TypeOK, Kinds
  <2>2. Reads("USER") /\ mode' = "handler" /\ UNCHANGED <<window, unpainted, dirty, idle, table>>
    BY <1>7 DEF DispatchUser
  <2>3. /\ pipe' \in Seq(Kinds)
        /\ \A x \in Kinds : Occ(pipe', x) = Occ(pipe, x) - (IF "USER" = x THEN 1 ELSE 0)
    BY <2>1, <2>2, ReadCount
  <2>4. Occ(pipe', "ADD") = Occ(pipe, "ADD") /\ Occ(pipe', "REMOVE") = Occ(pipe, "REMOVE")
    BY <2>1, <2>3, CountIsNat
  <2> QED
    BY <2>2, <2>3, <2>4, UserEventRefs
<1>8. CASE DispatchAdd
  BY <1>8, DispatchAddRefs
<1>9. CASE DispatchRemove
  BY <1>9, DispatchRemoveRefs
<1>10. CASE DispatchIdle \/ RemoveDisabled
  BY <1>10, TurnRefs
<1>11. CASE UNCHANGED vars
  BY <1>11 DEF vars, window, idle, table, RefInv, TypeOK, RefsBalance, NotYetAskedFor,
               DisabledOnDestroy, DestroyedIsHidden, Pending
<1> QED
  BY <1>2, <1>3, <1>4, <1>5, <1>6, <1>7, <1>8, <1>9, <1>10, <1>11
     DEF Next, Application, LoopStep

(***************************************************************************)
(* Rectangles                                                              *)
(***************************************************************************)

\* What one more rectangle is sure to bring up to date.
LEMMA CoveredGrows ==
    ASSUME NEW d \in SUBSET Rects, NEW r \in Rects
    PROVE  Covered(d) \cup {r} \subseteq Covered(d \cup {r})
BY RectsAssumption DEF Covered

\* After an invalidation what is out of date is dirty, in a window that is seen.
LEMMA InvalidateStale ==
    ASSUME dirty \subseteq Rects, NEW r \in Rects, NEW seen \in BOOLEAN,
           NEW stale \in SUBSET Rects, Invalidate(r, seen, stale), seen,
           stale \subseteq Covered(dirty) \cup {r} \/ r = Whole
    PROVE  unpainted' \subseteq Covered(dirty')
<1> DEFINE flush == Cardinality(dirty) + 1 >= MaxDirty
<1>1. CASE r = Whole
  <2>1. Whole \in dirty' /\ unpainted' \subseteq Rects
    BY <1>1 DEF Invalidate
  <2> QED
    BY <2>1 DEF Covered
<1>2. CASE r # Whole
  <2>1. stale \subseteq Covered(dirty) \cup {r}
    BY <1>2
  <2>2. CASE flush
    <3>1. dirty' = {r} /\ unpainted' = stale \ Covered(dirty)
      BY <2>2 DEF Invalidate
    <3>2. unpainted' \subseteq {r} /\ r \in Covered({r})
      BY <2>1, <3>1 DEF Covered
    <3> QED
      BY <3>1, <3>2
  <2>3. CASE ~flush
    <3>1. dirty' = dirty \cup {r} /\ unpainted' = stale
      BY <2>3 DEF Invalidate
    <3>2. unpainted' \subseteq Covered(dirty) \cup {r}
      BY <2>1, <3>1
    <3>3. Covered(dirty) \cup {r} \subseteq Covered(dirty \cup {r})
      BY CoveredGrows
    <3> QED
      BY <3>1, <3>2, <3>3
  <2> QED
    BY <2>2, <2>3
<1> QED
  BY <1>1, <1>2

\* After an invalidation there is room for one more rectangle before a flush.
LEMMA InvalidateFits ==
    ASSUME dirty \subseteq Rects, NEW r \in Rects, NEW seen, NEW stale,
           Invalidate(r, seen, stale)
    PROVE  DirtyFits'
<1>1. IsFiniteSet(dirty) /\ MaxDirty \in Nat /\ MaxDirty > 1
  <2>1. IsFiniteSet(dirty)
    BY RectsAssumption, FS_Subset
  <2> QED
    BY <2>1, BoundsAssumption
<1>2. Cardinality(dirty) \in Nat
  BY <1>1, FS_CardinalityType
<1>3. CASE Cardinality(dirty) + 1 >= MaxDirty
  <2>1. dirty' = {r}
    BY <1>3 DEF Invalidate
  <2>2. Cardinality(dirty') = 1
    BY <2>1, FS_Singleton
  <2> QED
    BY <1>1, <2>2 DEF DirtyFits
<1>4. CASE ~(Cardinality(dirty) + 1 >= MaxDirty)
  <2>1. dirty' = dirty \cup {r}
    BY <1>4 DEF Invalidate
  <2>2. Cardinality(dirty \cup {r}) = Cardinality(dirty)
        \/ Cardinality(dirty \cup {r}) = Cardinality(dirty) + 1
    BY <1>1, FS_AddElement
  <2>3. PICK n \in Nat : n = Cardinality(dirty)
    BY <1>2
  <2>4. n + 1 < MaxDirty
    BY <1>1, <1>4, <2>3
  <2>5. Cardinality(dirty') = n \/ Cardinality(dirty') = n + 1
    BY <2>1, <2>2, <2>3
  <2> QED
    BY <1>1, <2>4, <2>5 DEF DirtyFits
<1> QED
  BY <1>3, <1>4

LEMMA StaleStep == TypeOK /\ StaleIsDirty /\ [Next]_vars => StaleIsDirty'
<1> SUFFICES ASSUME TypeOK, StaleIsDirty, [Next]_vars, Seen'
             PROVE  unpainted' \subseteq Covered(dirty')
  BY DEF StaleIsDirty
<1>1. dirty \subseteq Rects /\ unpainted \subseteq Rects /\ mapped \in BOOLEAN
  BY DEF TypeOK
<1>2. ASSUME NEW r \in Rects, WidgetChanges(r)
      PROVE  unpainted' \subseteq Covered(dirty')
  <2>1. Seen /\ mapped /\ Invalidate(r, mapped, unpainted \cup {r})
    BY <1>2 DEF WidgetChanges, Seen, window
  <2>2. unpainted \cup {r} \subseteq Covered(dirty) \cup {r}
    BY <2>1 DEF StaleIsDirty
  <2> QED
    BY <1>1, <2>1, <2>2, InvalidateStale
<1>3. CASE Show
  <2>1. Whole \in dirty' /\ unpainted' \subseteq Rects
    BY <1>3 DEF Show, Invalidate
  <2> QED
    BY <2>1 DEF Covered
<1>4. CASE Hide \/ Cover \/ Destroy
  BY <1>4 DEF Hide, Cover, Destroy, Seen
<1>5. CASE Uncover
  BY <1>5 DEF Uncover
<1>6. CASE DispatchIdle
  <2>1. Seen /\ unpainted' = unpainted \ Covered(dirty)
    BY <1>6 DEF DispatchIdle, IdleInvalidate, Seen, window
  <2> QED
    BY <2>1 DEF StaleIsDirty
<1>7. CASE \/ DispatchUser \/ DispatchAdd \/ DispatchRemove \/ RemoveDisabled
           \/ HandlerReturn \/ UserEvent \/ OtherSources \/ UNCHANGED vars
  <2>1. UNCHANGED <<visible, mapped, unpainted, dirty>>
    BY <1>7 DEF DispatchUser, DispatchAdd, DispatchRemove, RemoveDisabled, HandlerReturn,
                UserEvent, OtherSources, vars, window
  <2> QED
    BY <2>1 DEF StaleIsDirty, Seen, Covered
<1> QED
  BY <1>2, <1>3, <1>4, <1>5, <1>6, <1>7 DEF Next, Application, LoopStep

LEMMA FitsStep == TypeOK /\ DirtyFits /\ [Next]_vars => DirtyFits'
<1> SUFFICES ASSUME TypeOK, DirtyFits, [Next]_vars PROVE DirtyFits'
  OBVIOUS
<1>1. dirty \subseteq Rects
  BY DEF TypeOK
<1>2. ASSUME NEW r \in Rects, WidgetChanges(r) PROVE DirtyFits'
  <2>1. Invalidate(r, mapped, unpainted \cup {r})
    BY <1>2 DEF WidgetChanges
  <2> QED
    BY <1>1, <2>1, InvalidateFits
<1>3. CASE Show
  <2>1. PICK onTop \in BOOLEAN : Invalidate(Whole, onTop, Rects)
    BY <1>3 DEF Show
  <2> QED
    BY <1>1, <2>1, RectsAssumption, InvalidateFits
<1>4. CASE DispatchIdle
  <2>1. dirty' = {}
    BY <1>4 DEF DispatchIdle, IdleInvalidate
  <2>2. Cardinality(dirty') = 0
    BY <2>1, FS_EmptySet
  <2> QED
    BY <2>2, BoundsAssumption DEF DirtyFits
<1>5. CASE \/ Hide \/ Cover \/ Uncover \/ Destroy
           \/ DispatchUser \/ DispatchAdd \/ DispatchRemove \/ RemoveDisabled
           \/ HandlerReturn \/ UserEvent \/ OtherSources \/ UNCHANGED vars
  <2>1. dirty' = dirty
    BY <1>5 DEF Hide, Cover, Uncover, Destroy, DispatchUser, DispatchAdd, DispatchRemove,
                RemoveDisabled, HandlerReturn, UserEvent, OtherSources, vars
  <2> QED
    BY <2>1 DEF DirtyFits
<1> QED
  BY <1>2, <1>3, <1>4, <1>5 DEF Next, Application, LoopStep

(***************************************************************************)
(* The schedule of repaints                                                *)
(***************************************************************************)

\* After an invalidation the idle is on its way, if it was so whenever something
\* was dirty.
LEMMA InvalidateScheduled ==
    ASSUME RefInv, RepaintIsScheduled, ~destroyed, NEW r, NEW seen, NEW stale,
           Invalidate(r, seen, stale), UNCHANGED table
    PROVE  RepaintIsScheduled'
<1>1. slots' = slots /\ refused' = refused
  BY DEF table
<1>2. CASE Schedule
  <2>1. pipe \in Seq(Kinds) /\ "ADD" \in Kinds /\ pipe' = Append(pipe, "ADD")
    BY <1>2 DEF RefInv, TypeOK, Kinds, Schedule
  <2>2. Occ(pipe', "ADD") = Occ(pipe, "ADD") + 1 /\ Occ(pipe, "ADD") \in Nat
    BY <2>1, WriteCount, CountIsNat
  <2>3. Pending' > 0
    BY <2>2 DEF Pending
  <2> QED
    BY <2>3 DEF RepaintIsScheduled
<1>3. CASE ~Schedule
  <2>1. dirty # {} /\ UNCHANGED <<idle, pipe>>
    BY <1>3 DEF Invalidate
  <2> QED
    BY <1>1, <2>1 DEF RepaintIsScheduled, Pending
<1> QED
  BY <1>2, <1>3

LEMMA ScheduledStep == RefInv /\ RepaintIsScheduled /\ [Next]_vars => RepaintIsScheduled'
<1> SUFFICES ASSUME RefInv, RepaintIsScheduled, [Next]_vars PROVE RepaintIsScheduled'
  OBVIOUS
<1>1. /\ pipe \in Seq(Kinds) /\ "USER" \in Kinds /\ "ADD" \in Kinds /\ "REMOVE" \in Kinds
      /\ slots \in Nat /\ refused \in Nat
  BY DEF RefInv, TypeOK, Kinds
<1>2. \A x \in Kinds : Occ(pipe, x) \in Nat
  BY <1>1, CountIsNat
<1>3. ASSUME NEW r \in Rects, WidgetChanges(r) PROVE RepaintIsScheduled'
  <2>1. ~destroyed /\ UNCHANGED table /\ Invalidate(r, mapped, unpainted \cup {r})
    BY <1>3 DEF WidgetChanges, InHandler
  <2> QED
    BY <2>1, InvalidateScheduled
<1>4. CASE Show
  <2>1. ~destroyed /\ UNCHANGED table
    BY <1>4 DEF Show, InHandler
  <2>2. PICK onTop \in BOOLEAN : Invalidate(Whole, onTop, Rects)
    BY <1>4 DEF Show
  <2> QED
    BY <2>1, <2>2, InvalidateScheduled
<1>5. CASE UserEvent
  <2>1. pipe' = Append(pipe, "USER") /\ UNCHANGED <<dirty, destroyed, slots, refused>>
    BY <1>5 DEF UserEvent, window, table
  <2>2. Occ(pipe', "ADD") = Occ(pipe, "ADD")
    BY <1>1, <1>2, <2>1, WriteCount
  <2> QED
    BY <2>1, <2>2 DEF RepaintIsScheduled, Pending
<1>6. CASE DispatchUser
  <2>1. Reads("USER") /\ UNCHANGED <<dirty, destroyed, slots, refused>>
    BY <1>6 DEF DispatchUser, window, table
  <2>2. \A x \in Kinds : Occ(pipe', x) = Occ(pipe, x) - (IF "USER" = x THEN 1 ELSE 0)
    BY <1>1, <2>1, ReadCount
  <2>3. Occ(pipe', "ADD") = Occ(pipe, "ADD")
    BY <1>1, <1>2, <2>2
  <2> QED
    BY <2>1, <2>3 DEF RepaintIsScheduled, Pending
<1>7. CASE DispatchAdd
  <2>1. CASE full
    <3>1. refused' = refused + 1
      BY <1>7, <2>1 DEF DispatchAdd
    <3>2. refused' # 0
      BY <1>1, <3>1
    <3> QED
      BY <3>2 DEF RepaintIsScheduled
  <2>2. CASE ~full
    <3>1. slots' = slots + 1
      BY <1>7, <2>2 DEF DispatchAdd
    <3>2. slots' > 0
      BY <1>1, <3>1
    <3> QED
      BY <3>2 DEF RepaintIsScheduled
  <2> QED
    BY <2>1, <2>2
<1>8. CASE DispatchRemove
  <2>1. Reads("REMOVE") /\ destroyed' = destroyed
    BY <1>8 DEF DispatchRemove, window
  <2>2. \A x \in Kinds : Occ(pipe', x) = Occ(pipe, x) - (IF "REMOVE" = x THEN 1 ELSE 0)
    BY <1>1, <2>1, ReadCount
  <2>3. Occ(pipe', "REMOVE") = Occ(pipe, "REMOVE") - 1 /\ Occ(pipe', "REMOVE") \in Nat
    BY <1>1, <2>1, <2>2, ReadCount, CountIsNat, OccType
  <2>4. Occ(pipe, "REMOVE") # 0
    BY <1>1, <1>2, <2>3
  <2>5. destroyed
    BY <2>4 DEF RefInv, DisabledOnDestroy
  <2> QED
    BY <2>1, <2>5 DEF RepaintIsScheduled
<1>9. CASE DispatchIdle
  BY <1>9 DEF DispatchIdle, IdleInvalidate, RepaintIsScheduled
<1>10. CASE RemoveDisabled
  BY <1>10 DEF RemoveDisabled, RefInv, DisabledOnDestroy, RepaintIsScheduled, window
<1>11. CASE Destroy
  BY <1>11 DEF Destroy, RepaintIsScheduled
<1>12. CASE Hide \/ Cover \/ Uncover \/ HandlerReturn \/ OtherSources \/ UNCHANGED vars
  <2>1. UNCHANGED <<dirty, destroyed, slots, refused, pipe>>
    BY <1>12 DEF Hide, Cover, Uncover, HandlerReturn, OtherSources, vars, window, table
  <2> QED
    BY <2>1 DEF RepaintIsScheduled, Pending
<1> QED
  BY <1>3, <1>4, <1>5, <1>6, <1>7, <1>8, <1>9, <1>10, <1>11, <1>12
     DEF Next, Application, LoopStep

(***************************************************************************)
(* The memory of the idle                                                  *)
(***************************************************************************)

\* One more rectangle does not fill the array.
RoomLeft == Cardinality(dirty) + 1 < MaxDirty

\* ftk_window_invalidate comes only when it has no need to flush.
WithoutFlush == (Show \/ \E r \in Rects : WidgetChanges(r)) => RoomLeft

\* The idle has been asked for once if something is dirty, and not otherwise.
AskedOnce ==
    /\ (alive /\ ~destroyed) => /\ ref = (IF dirty = {} THEN 1 ELSE 2)
                                /\ active <=> dirty # {}
    /\ (~alive /\ ~destroyed) => dirty = {}
    /\ FreedIsUnmanaged

\* Steps that leave the idle, its place in the table and the batch alone.
LEMMA QuietAsked ==
    ASSUME AskedOnce, UNCHANGED <<idle, slots, destroyed, dirty>>,
           Occ(pipe', "ADD") = Occ(pipe, "ADD")
    PROVE  AskedOnce'
BY DEF AskedOnce, FreedIsUnmanaged, Pending, idle

\* An invalidation that does not fill the array.
LEMMA InvalidateAsked ==
    ASSUME RefInv, AskedOnce, RoomLeft, ~destroyed, NEW r, NEW seen, NEW stale,
           Invalidate(r, seen, stale), UNCHANGED <<destroyed, table>>
    PROVE  AskedOnce'
<1>1. /\ dirty' = dirty \cup {r} /\ dirty' # {}
      /\ IF dirty = {} THEN Schedule ELSE UNCHANGED <<idle, pipe>>
  <2>1. ~(Cardinality(dirty) + 1 >= MaxDirty)
    <3>1. dirty \subseteq Rects /\ IsFiniteSet(dirty)
      BY RectsAssumption, FS_Subset DEF RefInv, TypeOK
    <3>2. Cardinality(dirty) \in Nat
      BY <3>1, FS_CardinalityType
    <3> QED
      BY <3>2, BoundsAssumption DEF RoomLeft
  <2> QED
    BY <2>1 DEF Invalidate
<1>2. CASE dirty = {}
  <2>1. /\ ref' = (IF alive THEN ref + 1 ELSE 2) /\ alive' = TRUE /\ active' = TRUE
    BY <1>1, <1>2 DEF Schedule
  <2>2. ref' = 2
    BY <1>2, <2>1 DEF AskedOnce
  <2> QED
    BY <1>1, <2>1, <2>2 DEF AskedOnce, FreedIsUnmanaged
<1>3. CASE dirty # {}
  BY <1>1, <1>3 DEF AskedOnce, FreedIsUnmanaged, Pending, idle, table
<1> QED
  BY <1>2, <1>3

\* A slot is taken away, and the idle freed with it when it was the last that held it.
LEMMA TakeSlotAsked ==
    ASSUME RefInv, AskedOnce, TakeSlot, slots > 0, alive,
           Occ(pipe', "ADD") = Occ(pipe, "ADD"), destroyed' = destroyed,
           destroyed \/ dirty' = {}
    PROVE  AskedOnce'
<1>1. /\ slots \in Nat /\ ref \in Nat /\ refused \in Nat /\ Occ(pipe, "ADD") \in Nat
      /\ destroyed \in BOOLEAN /\ alive \in BOOLEAN
  BY CountIsNat DEF RefInv, TypeOK, Kinds
<1>2. ref = (IF destroyed THEN 0 ELSE 1) + slots + Occ(pipe, "ADD") + refused
  BY DEF RefInv, RefsBalance, Pending
<1>3. /\ slots' = slots - 1 /\ active' = FALSE /\ ref' = ref - 1
      /\ alive' <=> ref # 1
  <2>1. slots' = slots - 1 /\ active' = FALSE /\ ref' = ref - 1 /\ alive' = (ref # 1)
    BY DEF TakeSlot
  <2>2. alive' <=> ref # 1
    BY <2>1, Zenon
  <2> QED
    BY <2>1, <2>2
<1>4. ref = 1 => slots' = 0 /\ Occ(pipe', "ADD") = 0
  BY <1>1, <1>2, <1>3
<1>5. FreedIsUnmanaged'
  BY <1>3, <1>4 DEF FreedIsUnmanaged, Pending
<1>6. ASSUME ~destroyed PROVE dirty' = {} /\ ref' = 1 /\ alive' /\ ~active'
  <2>1. ref = 2
    BY <1>1, <1>2, <1>6 DEF AskedOnce
  <2> QED
    BY <1>3, <1>6, <2>1
<1> QED
  BY <1>5, <1>6 DEF AskedOnce

\* A window that goes frees its idle only if nobody else holds it.
LEMMA DestroyAsked ==
    ASSUME RefInv, AskedOnce, Destroy
    PROVE  AskedOnce'
<1>1. ~destroyed /\ destroyed' /\ UNCHANGED <<dirty, slots>>
  BY DEF Destroy, InHandler, table
<1>2. CASE alive
  <2>1. pipe' = Append(pipe, "REMOVE") /\ alive' = (active /\ ref # 1)
    BY <1>2 DEF Destroy
  <2>2. /\ pipe \in Seq(Kinds) /\ "ADD" \in Kinds /\ "REMOVE" \in Kinds
        /\ slots \in Nat /\ refused \in Nat
    BY DEF RefInv, TypeOK, Kinds
  <2>3. Occ(pipe', "ADD") = Occ(pipe, "ADD") /\ Occ(pipe, "ADD") \in Nat
    BY <2>1, <2>2, WriteCount, CountIsNat
  <2>4. ref = 1 + slots + Occ(pipe, "ADD") + refused
    BY <1>1, <1>2 DEF RefInv, RefsBalance, Pending
  <2>5. ASSUME ~alive' PROVE slots = 0 /\ Occ(pipe, "ADD") = 0
    <3>1. ref = 1
      BY <1>1, <1>2, <2>1, <2>5 DEF AskedOnce
    <3> QED
      BY <2>2, <2>3, <2>4, <3>1
  <2> QED
    BY <1>1, <2>3, <2>5 DEF AskedOnce, FreedIsUnmanaged, Pending
<1>3. CASE ~alive
  <2>1. UNCHANGED <<idle, pipe>>
    BY <1>3 DEF Destroy
  <2> QED
    BY <1>1, <1>3, <2>1 DEF AskedOnce, FreedIsUnmanaged, Pending, idle
<1> QED
  BY <1>2, <1>3

\* Any step but an invalidation that flushes.
LEMMA AskedStep == RefInv /\ AskedOnce /\ [Next]_vars /\ [WithoutFlush]_vars => AskedOnce'
<1> SUFFICES ASSUME RefInv, AskedOnce, [Next]_vars, WithoutFlush \/ UNCHANGED vars
             PROVE  AskedOnce'
  OBVIOUS
<1>1. /\ pipe \in Seq(Kinds) /\ "USER" \in Kinds /\ "ADD" \in Kinds /\ "REMOVE" \in Kinds
      /\ slots \in Nat /\ refused \in Nat
  BY DEF RefInv, TypeOK, Kinds
<1>2. \A x \in Kinds : Occ(pipe, x) \in Nat
  BY <1>1, CountIsNat
<1>3. ASSUME NEW r \in Rects, WidgetChanges(r), WithoutFlush PROVE AskedOnce'
  <2>1. /\ ~destroyed /\ UNCHANGED <<destroyed, table>>
        /\ Invalidate(r, mapped, unpainted \cup {r}) /\ RoomLeft
    BY <1>3 DEF WidgetChanges, InHandler, window, WithoutFlush
  <2> QED
    BY <2>1, InvalidateAsked
<1>4. CASE Show /\ WithoutFlush
  <2>1. ~destroyed /\ UNCHANGED <<destroyed, table>> /\ RoomLeft
    BY <1>4 DEF Show, InHandler, WithoutFlush
  <2>2. PICK onTop \in BOOLEAN : Invalidate(Whole, onTop, Rects)
    BY <1>4 DEF Show
  <2> QED
    BY <2>1, <2>2, InvalidateAsked
<1>5. CASE Destroy
  BY <1>5, DestroyAsked
<1>6. CASE UserEvent
  <2>1. pipe' = Append(pipe, "USER") /\ UNCHANGED <<idle, slots, destroyed, dirty>>
    BY <1>6 DEF UserEvent, window, table
  <2>2. Occ(pipe', "ADD") = Occ(pipe, "ADD")
    BY <1>1, <1>2, <2>1, WriteCount
  <2> QED
    BY <2>1, <2>2, QuietAsked
<1>7. CASE DispatchUser
  <2>1. Reads("USER") /\ UNCHANGED <<idle, slots, destroyed, dirty>>
    BY <1>7 DEF DispatchUser, window, table
  <2>2. \A x \in Kinds : Occ(pipe', x) = Occ(pipe, x) - (IF "USER" = x THEN 1 ELSE 0)
    BY <1>1, <2>1, ReadCount
  <2>3. Occ(pipe', "ADD") = Occ(pipe, "ADD")
    BY <1>1, <1>2, <2>2
  <2> QED
    BY <2>1, <2>3, QuietAsked
<1>8. CASE DispatchAdd
  <2>1. /\ Reads("ADD") /\ alive /\ alive' = alive /\ ref' = ref
        /\ UNCHANGED <<destroyed, dirty>> /\ (active' = active \/ active' = TRUE)
    BY <1>8 DEF DispatchAdd, window
  <2>2. \A x \in Kinds : Occ(pipe', x) \in Nat
    BY <1>1, <2>1, ReadCount, OccType
  <2>3. Occ(pipe', "ADD") = Occ(pipe, "ADD") - 1
    BY <1>1, <2>1, ReadCount
  <2>4. ASSUME ~destroyed PROVE dirty # {}
    <3>1. ref = 1 + slots + Occ(pipe, "ADD") + refused
      BY <2>1, <2>4 DEF RefInv, RefsBalance, Pending
    <3>2. Occ(pipe, "ADD") \in Nat /\ Occ(pipe, "ADD") # 0
      BY <1>1, <1>2, <2>2, <2>3
    <3>3. ref # 1
      BY <1>1, <3>1, <3>2
    <3> QED
      BY <2>1, <2>4, <3>3 DEF AskedOnce
  <2> QED
    BY <2>1, <2>4 DEF AskedOnce, FreedIsUnmanaged
<1>9. CASE DispatchRemove
  <2>1. Reads("REMOVE") /\ UNCHANGED <<destroyed, disable, dirty>>
    BY <1>9 DEF DispatchRemove, window
  <2>2. \A x \in Kinds : Occ(pipe', x) = Occ(pipe, x) - (IF "REMOVE" = x THEN 1 ELSE 0)
    BY <1>1, <2>1, ReadCount
  <2>3. Occ(pipe', "ADD") = Occ(pipe, "ADD")
    BY <1>1, <1>2, <2>2
  <2>4. destroyed
    <3>1. Occ(pipe', "REMOVE") = Occ(pipe, "REMOVE") - 1 /\ Occ(pipe', "REMOVE") \in Nat
      BY <1>1, <2>1, <2>2, ReadCount, OccType
    <3>2. Occ(pipe, "REMOVE") # 0
      BY <3>1
    <3> QED
      BY <3>2 DEF RefInv, DisabledOnDestroy
  <2>5. CASE slots > 0 /\ alive
    <3>1. TakeSlot
      BY <1>9, <2>5 DEF DispatchRemove
    <3> QED
      BY <2>1, <2>3, <2>4, <2>5, <3>1, TakeSlotAsked
  <2>6. CASE ~(slots > 0 /\ alive)
    <3>1. UNCHANGED <<idle, slots>>
      BY <1>9, <2>1, <2>6 DEF DispatchRemove, idle
    <3> QED
      BY <2>1, <2>3, <3>1, QuietAsked
  <2> QED
    BY <2>5, <2>6
<1>10. CASE DispatchIdle \/ RemoveDisabled
  <2>1. slots > 0 /\ alive /\ TakeSlot /\ pipe' = pipe /\ destroyed' = destroyed
    BY <1>10 DEF DispatchIdle, RemoveDisabled, window
  <2>2. destroyed \/ dirty' = {}
    BY <1>10 DEF DispatchIdle, RemoveDisabled, IdleInvalidate, RefInv, DisabledOnDestroy
  <2> QED
    BY <2>1, <2>2, TakeSlotAsked
<1>11. CASE Hide \/ Cover \/ Uncover \/ HandlerReturn \/ OtherSources \/ UNCHANGED vars
  <2>1. UNCHANGED <<idle, slots, destroyed, dirty, pipe>>
    BY <1>11 DEF Hide, Cover, Uncover, HandlerReturn, OtherSources, vars, window, table
  <2> QED
    BY <2>1, QuietAsked
<1> QED
  BY <1>3, <1>4, <1>5, <1>6, <1>7, <1>8, <1>9, <1>10, <1>11
     DEF Next, Application, LoopStep

\* In the beginning there is no idle.
LEMMA AskedInit == Init => AskedOnce
<1>1. Occ(<<>>, "ADD") = 0
  BY OccEmpty
<1> QED
  BY <1>1 DEF Init, AskedOnce, FreedIsUnmanaged, Pending

(***************************************************************************)
(* The idle as a source                                                    *)
(***************************************************************************)

\* The steps of SourceLife, in terms of the idle.
LEMMA IdleCreated ==
    ASSUME ~alive, alive', ~destroyed, ~destroyed', Pending = 0, Pending' = 1,
           UNCHANGED <<slots, refused>>
    PROVE  Life!Create("idle", TRUE, TRUE)
BY DEF Life!Create, Life!KeptIfHeld, Life!Held

LEMMA IdleStarted ==
    ASSUME alive, alive', ~destroyed, ~destroyed', Pending' = Pending + 1,
           UNCHANGED <<slots, refused>>
    PROVE  Life!Start("idle")
BY DEF Life!Start

LEMMA IdleLetGo ==
    ASSUME alive, ~destroyed, destroyed', UNCHANGED <<slots, refused>>, Pending' = Pending,
           alive' \in BOOLEAN, alive' <=> (Pending > 0 \/ slots > 0 \/ refused > 0)
    PROVE  Life!LetGo("idle")
BY DEF Life!LetGo, Life!KeptIfHeld, Life!Held

LEMMA IdleEntered ==
    ASSUME alive, alive', UNCHANGED <<alive, destroyed>>, Pending > 0, Pending' = Pending - 1,
           \/ slots' = slots + 1 /\ refused' = refused
           \/ refused' = refused + 1 /\ slots' = slots
    PROVE  Life!Enter("idle")
BY DEF Life!Enter

LEMMA IdleLeft ==
    ASSUME alive, destroyed' = destroyed, refused' = refused, Pending' = Pending,
           slots > 0, slots' = slots - 1,
           alive' \in BOOLEAN, ~destroyed => alive',
           alive' <=> (~destroyed \/ Pending > 0 \/ slots' > 0 \/ refused > 0)
    PROVE  Life!Leave("idle")
BY DEF Life!Leave, Life!KeptIfHeld, Life!Held

LEMMA IdleSame ==
    ASSUME alive' = alive, alive => destroyed' = destroyed, Pending' = Pending,
           UNCHANGED <<slots, refused>>
    PROVE  UNCHANGED Life!vars
BY DEF Life!vars

\* An invalidation that does not flush.
LEMMA InvalidateLife ==
    ASSUME RefInv, AskedOnce, RoomLeft, ~destroyed, NEW r, NEW seen, NEW stale,
           Invalidate(r, seen, stale), UNCHANGED <<destroyed, table>>
    PROVE  Life!OwnerStep("idle") \/ UNCHANGED Life!vars
<1>1. IF dirty = {} THEN Schedule ELSE UNCHANGED <<idle, pipe>>
  <2>1. dirty \subseteq Rects /\ IsFiniteSet(dirty)
    BY RectsAssumption, FS_Subset DEF RefInv, TypeOK
  <2>2. Cardinality(dirty) \in Nat
    BY <2>1, FS_CardinalityType
  <2>3. ~(Cardinality(dirty) + 1 >= MaxDirty)
    BY <2>2, BoundsAssumption DEF RoomLeft
  <2> QED
    BY <2>3 DEF Invalidate
<1>2. UNCHANGED <<slots, refused>>
  BY DEF table
<1>3. CASE dirty = {}
  <2>1. pipe' = Append(pipe, "ADD") /\ alive'
    BY <1>1, <1>3 DEF Schedule
  <2>2. pipe \in Seq(Kinds) /\ "ADD" \in Kinds
    BY DEF RefInv, TypeOK, Kinds
  <2>3. Pending \in Nat
    BY <2>2, CountIsNat DEF Pending
  <2>4. Pending' = Pending + 1
    BY <2>1, <2>2, WriteCount DEF Pending
  <2>5. CASE alive
    <3>1. Life!Start("idle")
      BY <1>2, <2>1, <2>4, <2>5, IdleStarted
    <3> QED
      BY <3>1 DEF Life!OwnerStep
  <2>6. CASE ~alive
    <3>1. Pending = 0
      BY <2>6 DEF AskedOnce, FreedIsUnmanaged
    <3>2. Pending' = 1
      BY <2>4, <3>1
    <3>3. Life!Create("idle", TRUE, TRUE)
      BY <1>2, <2>1, <2>6, <3>1, <3>2, IdleCreated
    <3> QED
      BY <3>3 DEF Life!OwnerStep
  <2> QED
    BY <2>5, <2>6
<1>4. CASE dirty # {}
  <2>1. UNCHANGED <<alive, pipe>>
    BY <1>1, <1>4 DEF idle
  <2>2. Pending' = Pending
    BY <2>1 DEF Pending
  <2> QED
    BY <1>2, <2>1, <2>2, IdleSame
<1> QED
  BY <1>3, <1>4

\* A slot that is taken away, with the idle's memory when nobody else holds it.
LEMMA TakeSlotLife ==
    ASSUME RefInv, AskedOnce, TakeSlot, slots > 0, alive, Pending' = Pending,
           UNCHANGED <<destroyed, refused>>
    PROVE  Life!Leave("idle")
<1>1. /\ slots \in Nat \ {0} /\ refused \in Nat /\ ref \in Nat
      /\ destroyed \in BOOLEAN /\ pipe \in Seq(Kinds) /\ "ADD" \in Kinds
  BY DEF RefInv, TypeOK, Kinds
<1>2. Pending \in Nat
  BY <1>1, CountIsNat DEF Pending
<1>3. /\ ~destroyed => ref = 1 + slots + Pending + refused
      /\ destroyed => ref = slots + Pending + refused
  <2>1. ref = (IF destroyed THEN 0 ELSE 1) + slots + Pending + refused
    BY DEF RefInv, RefsBalance
  <2>2. ASSUME destroyed PROVE ref = 0 + slots + Pending + refused
    BY <2>1, <2>2
  <2> QED
    BY <1>1, <1>2, <2>1, <2>2
<1>4. /\ slots' = slots - 1 /\ slots' \in Nat
      /\ alive' \in BOOLEAN /\ (alive' <=> ref # 1)
  <2>1. slots' = slots - 1 /\ alive' = (ref # 1)
    BY DEF TakeSlot
  <2>2. alive' \in BOOLEAN /\ (alive' <=> ref # 1)
    BY <2>1, Zenon
  <2> QED
    BY <1>1, <2>1, <2>2
<1>5. ~destroyed => alive'
  BY <1>1, <1>2, <1>3, <1>4
<1>6. destroyed => (alive' <=> (Pending > 0 \/ slots' > 0 \/ refused > 0))
  BY <1>1, <1>2, <1>3, <1>4
<1> QED
  BY <1>1, <1>4, <1>5, <1>6, IdleLeft

\* ftk_window_destroy lets go of the idle.
LEMMA DestroyLife ==
    ASSUME RefInv, AskedOnce, Destroy
    PROVE  Life!OwnerStep("idle") \/ UNCHANGED Life!vars
<1>1. ~destroyed /\ destroyed' /\ UNCHANGED <<slots, refused>>
  BY DEF Destroy, InHandler, table
<1>2. CASE alive
  <2>1. pipe' = Append(pipe, "REMOVE") /\ alive' = (active /\ ref # 1)
    BY <1>2 DEF Destroy
  <2>2. /\ pipe \in Seq(Kinds) /\ "ADD" \in Kinds /\ "REMOVE" \in Kinds
        /\ slots \in Nat /\ refused \in Nat /\ active \in BOOLEAN
    BY DEF RefInv, TypeOK, Kinds
  <2>3. Pending \in Nat
    BY <2>2, CountIsNat DEF Pending
  <2>4. Pending' = Pending
    <3>1. Occ(pipe', "ADD") = Occ(pipe, "ADD") + 0
      BY <2>1, <2>2, WriteCount
    <3> QED
      BY <2>3, <3>1 DEF Pending
  <2>5. ref = 1 + slots + Pending + refused
    BY <1>1, <1>2 DEF RefInv, RefsBalance
  <2>6. alive' \in BOOLEAN /\ (alive' <=> active /\ ref # 1)
    BY <2>1, <2>2, <2>3, Zenon
  <2>7. active <=> ref # 1
    BY <1>1, <1>2 DEF AskedOnce
  <2>8. alive' <=> (Pending > 0 \/ slots > 0 \/ refused > 0)
    BY <2>2, <2>3, <2>5, <2>6, <2>7
  <2>9. Life!LetGo("idle")
    BY <1>1, <1>2, <2>4, <2>6, <2>8, IdleLetGo
  <2> QED
    BY <2>9 DEF Life!OwnerStep
<1>3. CASE ~alive
  <2>1. UNCHANGED <<alive, pipe>>
    BY <1>3 DEF Destroy, idle
  <2>2. Pending' = Pending
    BY <2>1 DEF Pending
  <2> QED
    BY <1>1, <1>3, <2>1, <2>2, IdleSame
<1> QED
  BY <1>2, <1>3

\* Each step but an invalidation that flushes is a step of the source, or none.
LEMMA LifeStep ==
    RefInv /\ AskedOnce /\ [Next]_vars /\ [WithoutFlush]_vars => [Life!Next]_(Life!vars)
<1> SUFFICES ASSUME RefInv, AskedOnce, [Next]_vars, WithoutFlush \/ UNCHANGED vars
             PROVE  [Life!Next]_(Life!vars)
  OBVIOUS
<1>1. /\ pipe \in Seq(Kinds) /\ "USER" \in Kinds /\ "ADD" \in Kinds /\ "REMOVE" \in Kinds
      /\ slots \in Nat /\ refused \in Nat
  BY DEF RefInv, TypeOK, Kinds
<1>2. Pending \in Nat
  BY <1>1, CountIsNat DEF Pending
<1>3. ASSUME Life!OwnerStep("idle") \/ Life!TableStep("idle") PROVE Life!Next
  BY <1>3 DEF Life!Next
<1>4. ASSUME NEW r \in Rects, WidgetChanges(r), WithoutFlush PROVE [Life!Next]_(Life!vars)
  <2>1. /\ ~destroyed /\ UNCHANGED <<destroyed, table>>
        /\ Invalidate(r, mapped, unpainted \cup {r}) /\ RoomLeft
    BY <1>4 DEF WidgetChanges, InHandler, window, WithoutFlush
  <2> QED
    BY <1>3, <2>1, InvalidateLife
<1>5. CASE Show /\ WithoutFlush
  <2>1. ~destroyed /\ UNCHANGED <<destroyed, table>> /\ RoomLeft
    BY <1>5 DEF Show, InHandler, WithoutFlush
  <2>2. PICK onTop \in BOOLEAN : Invalidate(Whole, onTop, Rects)
    BY <1>5 DEF Show
  <2> QED
    BY <1>3, <2>1, <2>2, InvalidateLife
<1>6. CASE Destroy
  BY <1>3, <1>6, DestroyLife
<1>7. CASE UserEvent \/ DispatchUser
  <2>1. UNCHANGED <<alive, destroyed, slots, refused>>
    BY <1>7 DEF UserEvent, DispatchUser, window, idle, table
  <2>2. Pending' = Pending
    <3>1. CASE UserEvent
      <4>1. pipe' = Append(pipe, "USER")
        BY <3>1 DEF UserEvent
      <4>2. Occ(pipe', "ADD") = Occ(pipe, "ADD") + 0
        BY <1>1, <4>1, WriteCount
      <4> QED
        BY <1>2, <4>2 DEF Pending
    <3>2. CASE DispatchUser
      <4>1. Occ(pipe', "ADD") = Occ(pipe, "ADD") - 0
        BY <1>1, <3>2, ReadCount DEF DispatchUser
      <4> QED
        BY <1>2, <4>1 DEF Pending
    <3> QED
      BY <1>7, <3>1, <3>2
  <2> QED
    BY <2>1, <2>2, IdleSame
<1>8. CASE DispatchAdd
  <2>1. /\ Reads("ADD") /\ alive /\ alive' = alive /\ destroyed' = destroyed
        /\ \/ slots' = slots + 1 /\ refused' = refused
           \/ refused' = refused + 1 /\ slots' = slots
    BY <1>8 DEF DispatchAdd, window
  <2>2. Pending' = Pending - 1 /\ Pending' \in Nat
    <3>1. pipe' \in Seq(Kinds) /\ Occ(pipe', "ADD") = Occ(pipe, "ADD") - 1
      BY <1>1, <2>1, ReadCount
    <3> QED
      BY <1>1, <3>1, OccType DEF Pending
  <2>3. Life!Enter("idle")
    BY <1>2, <2>1, <2>2, IdleEntered
  <2> QED
    BY <1>3, <2>3 DEF Life!TableStep
<1>9. ASSUME TakeSlot, slots > 0, alive, Pending' = Pending, UNCHANGED <<destroyed, refused>>
      PROVE  Life!Next
  <2>1. Life!Leave("idle")
    BY <1>9, TakeSlotLife
  <2> QED
    BY <1>3, <2>1 DEF Life!TableStep
<1>10. CASE DispatchRemove
  <2>1. Reads("REMOVE") /\ UNCHANGED <<destroyed, refused>>
    BY <1>10 DEF DispatchRemove, window
  <2>2. Pending' = Pending
    <3>1. Occ(pipe', "ADD") = Occ(pipe, "ADD") - 0
      BY <1>1, <2>1, ReadCount
    <3> QED
      BY <1>2, <3>1 DEF Pending
  <2>3. CASE slots > 0 /\ alive
    BY <1>9, <1>10, <2>1, <2>2, <2>3 DEF DispatchRemove
  <2>4. CASE ~(slots > 0 /\ alive)
    <3>1. UNCHANGED <<slots, alive>>
      BY <1>10, <2>4 DEF DispatchRemove
    <3> QED
      BY <2>1, <2>2, <3>1, IdleSame
  <2> QED
    BY <2>3, <2>4
<1>11. CASE DispatchIdle \/ RemoveDisabled
  <2>1. slots > 0 /\ alive /\ TakeSlot /\ UNCHANGED <<pipe, destroyed, refused>>
    BY <1>11 DEF DispatchIdle, RemoveDisabled, window
  <2>2. Pending' = Pending
    BY <2>1 DEF Pending
  <2> QED
    BY <1>9, <2>1, <2>2
<1>12. CASE Hide \/ Cover \/ Uncover \/ HandlerReturn \/ OtherSources \/ UNCHANGED vars
  <2>1. UNCHANGED <<alive, slots, destroyed, refused, pipe>>
    BY <1>12 DEF Hide, Cover, Uncover, HandlerReturn, OtherSources, vars, window, table, idle
  <2>2. Pending' = Pending
    BY <2>1 DEF Pending
  <2> QED
    BY <2>1, <2>2, IdleSame
<1> QED
  BY <1>4, <1>5, <1>6, <1>7, <1>8, <1>10, <1>11, <1>12 DEF Next, Application, LoopStep

(***************************************************************************)
(* Theorems                                                                *)
(***************************************************************************)

\* Every variable keeps its type: the reference count and the counts of slots
\* never go below zero.
THEOREM WindowTypes == Spec => []TypeOK
<1>1. RefInv => TypeOK
  BY DEF RefInv
<1> QED
  BY <1>1, RefInit, RefStep, PTL DEF Spec

\* The references of the idle are those of its window, its slots, its queued ADDs
\* and those lost with a refused ADD, whatever order ftk_window_invalidate, the
\* loop and ftk_window_destroy come in.
THEOREM RefsAreBalanced == Spec => []RefsBalance
<1>1. RefInv => RefsBalance
  BY DEF RefInv
<1> QED
  BY <1>1, RefInit, RefStep, PTL DEF Spec

\* ftk_window_idle_invalidate never runs for a window that ftk_window_destroy has
\* freed, although the idle may stay in the table after it.
THEOREM DestroyedIsNotPainted == Spec => NoPaintAfterDestroy
<1>1. RefInv /\ [Next]_vars => [DispatchIdle => ~destroyed]_vars
  BY DEF RefInv, DisabledOnDestroy, DispatchIdle
<1> QED
  BY <1>1, RefInit, RefStep, PTL DEF Spec, NoPaintAfterDestroy

\* ftk_window_invalidate never writes past the end of the array of dirty
\* rectangles.
THEOREM DirtyAlwaysFits == Spec => []DirtyFits
<1>1. Init => DirtyFits
  <2>1. Cardinality({}) = 0
    BY FS_EmptySet
  <2> QED
    BY <2>1, BoundsAssumption DEF Init, DirtyFits
<1> QED
  BY <1>1, FitsStep, WindowTypes, PTL DEF Spec

\* What is out of date on the screen is in the batch, however flushes, repaints,
\* and the showing, hiding and covering of the window follow one another.
THEOREM StaleIsAlwaysDirty == Spec => []StaleIsDirty
<1>1. Init => StaleIsDirty
  BY DEF Init, StaleIsDirty
<1> QED
  BY <1>1, StaleStep, WindowTypes, PTL DEF Spec

\* No repaint is forgotten: a window with dirty rectangles has its idle in the
\* table or on its way there, unless the table has refused it.
THEOREM RepaintIsAlwaysScheduled == Spec => []RepaintIsScheduled
<1>1. Init => RepaintIsScheduled
  BY DEF Init, RepaintIsScheduled
<1>2. Spec => []RefInv
  BY RefInit, RefStep, PTL DEF Spec
<1> QED
  BY <1>1, <1>2, ScheduledStep, PTL DEF Spec

\* As long as no invalidation has to flush a full array, what ftk_source.h says of
\* the active flag holds of the repaint idle, and ftk_window_destroy frees no source
\* that the table or the pipe still has: the flush is the only way to get there.
THEOREM FreedIsUnmanagedWithoutFlush ==
    Spec /\ [][WithoutFlush]_vars => []FreedIsUnmanaged
<1>1. AskedOnce => FreedIsUnmanaged
  BY DEF AskedOnce
<1>2. Spec => []RefInv
  BY RefInit, RefStep, PTL DEF Spec
<1> QED
  BY <1>1, <1>2, AskedInit, AskedStep, PTL DEF Spec

\* As long as no invalidation has to flush a full array, the repaint idle is a source
\* as the main loop keeps it for everybody: ftk_window.c asks for it, lets go of it and
\* frees it by the rules that MainLoop implements for all its sources.
THEOREM IdleIsSource == Spec /\ [][WithoutFlush]_vars => Life!Spec
<1>1. Init => Life!Init
  <2> SUFFICES ASSUME Init PROVE Life!Init
    OBVIOUS
  <2>1. alive = FALSE /\ slots = 0 /\ refused = 0 /\ Pending = 0
    BY OccEmpty DEF Init, Pending
  <2>2. (alive /\ ~destroyed) = FALSE
    BY <2>1
  <2>3. \A s \in {"idle"} : (s \in {}) = FALSE
    OBVIOUS
  <2>4. /\ [s \in {"idle"} |-> alive] = [s \in {"idle"} |-> s \in {}]
        /\ [s \in {"idle"} |-> alive /\ ~destroyed] = [s \in {"idle"} |-> FALSE]
        /\ [s \in {"idle"} |-> alive /\ ~destroyed] = [s \in {"idle"} |-> s \in {}]
    BY <2>1, <2>2, <2>3, Zenon
  <2>5. \A s \in {"idle"} : (IF s \in {} THEN 1 ELSE 0) = 0
    OBVIOUS
  <2> QED
    BY <2>1, <2>4, <2>5 DEF Life!Init
<1>2. Spec => []RefInv
  BY RefInit, RefStep, PTL DEF Spec
<1> QED
  BY <1>1, <1>2, AskedInit, AskedStep, LifeStep, PTL DEF Spec, Life!Spec

=============================================================================
