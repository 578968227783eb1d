---------------------------- MODULE WindowUpdate ----------------------------
(***************************************************************************)
(* How a window repaints (ftk_window.c): the rectangles that widgets have  *)
(* invalidated, the idle source that paints them, and the life of that     *)
(* source in the main loop's table.                                        *)
(*                                                                         *)
(* The main loop is the one of module MainLoop, seen from one source: its  *)
(* slots in the table and the events about it in the pipe. Handlers of     *)
(* user events run application code, which invalidates, shows, hides and   *)
(* at last destroys the window.                                            *)
(***************************************************************************)
EXTENDS TableOps

CONSTANTS
    Rects,     \* the rectangles of the widgets of the window
    Whole,     \* the rectangle of the window
    MaxDirty,  \* FTK_MAX_DIRTY_RECT
    MaxSlots,  \* bound: the slots one source takes, the ADD events refused
    PipeSize   \* bound: events in flight in the pipe

ASSUME RectsAssumption == IsFiniteSet(Rects) /\ Whole \in Rects
ASSUME BoundsAssumption ==
    /\ MaxDirty \in Nat \ {0, 1}
    /\ MaxSlots \in Nat \ {0} /\ PipeSize \in Nat \ {0}

VARIABLES
    visible,   \* is the window shown?
    mapped,    \* is the window mapped?
    destroyed, \* has ftk_window_destroy run?
    unpainted, \* the rectangles whose pixels on the screen are out of date
    dirty,     \* dirty_rect[0 .. dirty_rect_nr - 1]; repeated ones are dropped
    ref,       \* update_idle: its reference count
    active,    \* ... its active flag
    disable,   \* ... is it disabled?
    alive,     \* ... is its memory allocated?
    slots,     \* its slots in the table of the sources manager
    full,      \* is the rest of the table taken by other sources?
    refused,   \* references lost with an ADD that found the table full
    pipe,      \* the events in the pipe: "USER", "ADD", "REMOVE"
    mode       \* "loop" or "handler"

window == <<visible, mapped, destroyed>>
idle == <<ref, active, disable, alive>>
table == <<slots, full, refused>>
vars == <<window, unpainted, dirty, idle, table, pipe, mode>>

\* What a paint of the rectangles d is sure to bring up to date.
Covered(d) == IF Whole \in d THEN Rects ELSE d

Seen == visible /\ mapped

\* Mutant: a window that is not mapped keeps its rectangles but is not painted.
IdleInvalidateKeeps ==
    /\ unpainted' = IF Seen THEN unpainted \ Covered(dirty) ELSE unpainted
    /\ UNCHANGED dirty

\* ftk_window_idle_invalidate: paints what is dirty, or drops it when the window
\* cannot be seen.
IdleInvalidate ==
    /\ unpainted' = IF Seen THEN unpainted \ Covered(dirty) ELSE unpainted
    /\ dirty' = {}

\* ftk_window_invalidate asks for the idle: created at first, with one more
\* reference for the table.
Schedule ==
    /\ Len(pipe) < PipeSize
    /\ pipe' = Append(pipe, "ADD")
    /\ ref' = IF alive THEN ref + 1 ELSE 2
    /\ alive' = TRUE
    /\ active' = TRUE
    /\ UNCHANGED disable

\* Mutant: the rectangle that makes room by a flush is forgotten.
InvalidateDrops(r, seen, stale) ==
    LET flush == Cardinality(dirty) + 1 >= MaxDirty
    IN /\ dirty' = IF flush THEN {} ELSE dirty \cup {r}
       /\ unpainted' = IF flush /\ seen THEN stale \ Covered(dirty) ELSE stale
       /\ IF dirty = {} THEN Schedule ELSE UNCHANGED <<idle, pipe>>

\* Mutant: the flush comes one rectangle late.
InvalidateLate(r, seen, stale) ==
    LET flush == Cardinality(dirty) >= MaxDirty
        kept == IF flush THEN {} ELSE dirty
    IN /\ dirty' = kept \cup {r}
       /\ unpainted' = IF flush /\ seen THEN stale \ Covered(dirty) ELSE stale
       /\ IF kept = {} THEN Schedule ELSE UNCHANGED <<idle, pipe>>

\* ftk_window_invalidate of a visible window, seen when it is mapped too, where
\* stale is what is out of date on the screen. With the array full, what is dirty
\* is painted at once. The first rectangle of a batch asks for the idle.
Invalidate(r, seen, stale) ==
    LET flush == Cardinality(dirty) + 1 >= MaxDirty
        kept == IF flush THEN {} ELSE dirty
    IN /\ dirty' = kept \cup {r}
       /\ unpainted' = IF flush /\ seen THEN stale \ Covered(dirty) ELSE stale
       /\ IF kept = {} THEN Schedule ELSE UNCHANGED <<idle, pipe>>

(***************************************************************************)
(* Application code and the window manager                                 *)
(***************************************************************************)
InHandler == mode = "handler" /\ ~destroyed

\* ftk_widget_invalidate: a widget has changed.
WidgetChanges(r) ==
    /\ InHandler
    /\ visible
    /\ Invalidate(r, mapped, unpainted \cup {r})
    /\ UNCHANGED <<window, table, mode>>

\* ftk_widget_show(window, 1): the manager maps the window if it is now the top one
\* (another may lie above it, or the manager have had no room for it), and it is
\* invalidated in either case.
Show ==
    /\ InHandler
    /\ ~visible
    /\ visible' = TRUE
    /\ \E onTop \in BOOLEAN :
          /\ mapped' = onTop
          /\ Invalidate(Whole, onTop, Rects)
    /\ UNCHANGED <<destroyed, table, mode>>

\* ftk_widget_show(window, 0)
Hide ==
    /\ InHandler
    /\ visible
    /\ visible' = FALSE
    /\ mapped' = FALSE
    /\ UNCHANGED <<destroyed, unpainted, dirty, idle, table, pipe, mode>>

\* Another window comes on top, and the manager sends UNMAP.
Cover ==
    /\ InHandler
    /\ visible /\ mapped
    /\ mapped' = FALSE
    /\ UNCHANGED <<visible, destroyed, unpainted, dirty, idle, table, pipe, mode>>

\* It goes: MAP, then ftk_wnd_manager_update paints the window whole.
Uncover ==
    /\ InHandler
    /\ visible /\ ~mapped
    /\ mapped' = TRUE
    /\ unpainted' = {}
    /\ UNCHANGED <<visible, destroyed, dirty, idle, table, pipe, mode>>

\* Mutant: the idle is not disabled when its window goes.
DestroyEnabled ==
    /\ InHandler
    /\ destroyed' = TRUE
    /\ visible' = FALSE /\ mapped' = FALSE
    /\ IF alive
       THEN /\ Len(pipe) < PipeSize
            /\ pipe' = Append(pipe, "REMOVE")
            /\ ref' = ref - 1
            /\ alive' = (active /\ ref # 1)
            /\ UNCHANGED <<active, disable>>
       ELSE UNCHANGED <<idle, pipe>>
    /\ UNCHANGED <<unpainted, dirty, table, mode>>

\* Mutant: the window keeps its reference.
DestroyKeepsRef ==
    /\ InHandler
    /\ destroyed' = TRUE
    /\ visible' = FALSE /\ mapped' = FALSE
    /\ IF alive
       THEN /\ Len(pipe) < PipeSize
            /\ pipe' = Append(pipe, "REMOVE")
            /\ disable' = TRUE
            /\ alive' = active
            /\ UNCHANGED <<active, ref>>
       ELSE UNCHANGED <<idle, pipe>>
    /\ UNCHANGED <<unpainted, dirty, table, mode>>

\* Mutant: the memory goes at once, whatever the table holds.
DestroyFrees ==
    /\ InHandler
    /\ destroyed' = TRUE
    /\ visible' = FALSE /\ mapped' = FALSE
    /\ IF alive
       THEN /\ Len(pipe) < PipeSize
            /\ pipe' = Append(pipe, "REMOVE")
            /\ disable' = TRUE
            /\ ref' = ref - 1
            /\ alive' = FALSE
            /\ UNCHANGED active
       ELSE UNCHANGED <<idle, pipe>>
    /\ UNCHANGED <<unpainted, dirty, table, mode>>

\* ftk_window_destroy: the idle is disabled and a REMOVE is queued; its memory is
\* freed at once when active says that the table does not have it.
Destroy ==
    /\ InHandler
    /\ destroyed' = TRUE
    /\ visible' = FALSE /\ mapped' = FALSE
    /\ IF alive
       THEN /\ Len(pipe) < PipeSize
            /\ pipe' = Append(pipe, "REMOVE")
            /\ disable' = TRUE
            /\ ref' = ref - 1
            /\ alive' = (active /\ ref # 1)
            /\ UNCHANGED active
       ELSE UNCHANGED <<idle, pipe>>
    /\ UNCHANGED <<unpainted, dirty, table, mode>>

HandlerReturn ==
    /\ mode = "handler"
    /\ mode' = "loop"
    /\ UNCHANGED <<window, unpainted, dirty, idle, table, pipe>>

(***************************************************************************)
(* The main loop, seen from the idle                                       *)
(***************************************************************************)
UserEvent ==
    /\ Len(pipe) < PipeSize
    /\ pipe' = Append(pipe, "USER")
    /\ UNCHANGED <<window, unpainted, dirty, idle, table, mode>>

\* Other sources come and go: is there room for one more slot?
OtherSources ==
    /\ full' = ~full
    /\ UNCHANGED <<window, unpainted, dirty, idle, slots, refused, pipe, mode>>

Reads(e) ==
    /\ mode = "loop"
    /\ pipe # <<>> /\ Head(pipe) = e
    /\ pipe' = Tail(pipe)

DispatchUser ==
    /\ Reads("USER")
    /\ mode' = "handler"
    /\ UNCHANGED <<window, unpainted, dirty, idle, table>>

\* ftk_sources_manager_add
DispatchAdd ==
    /\ Reads("ADD")
    /\ alive
    /\ IF full
       THEN /\ refused < MaxSlots
            /\ refused' = refused + 1
            /\ UNCHANGED <<slots, active>>
       ELSE /\ slots < MaxSlots
            /\ slots' = slots + 1
            /\ active' = TRUE
            /\ UNCHANGED refused
    /\ UNCHANGED <<window, unpainted, dirty, ref, disable, alive, full, mode>>

\* ftk_sources_manager_remove takes one slot of the idle away.
TakeSlot ==
    /\ slots' = slots - 1
    /\ active' = FALSE
    /\ ref' = ref - 1
    /\ alive' = (ref # 1)

\* Mutant: the slot is taken although the idle has none.
DispatchRemoveBlind ==
    /\ Reads("REMOVE")
    /\ IF alive THEN TakeSlot ELSE UNCHANGED <<slots, active, ref, alive>>
    /\ UNCHANGED <<window, unpainted, dirty, disable, full, refused, mode>>

DispatchRemove ==
    /\ Reads("REMOVE")
    /\ IF slots > 0 /\ alive
       THEN TakeSlot
       ELSE UNCHANGED <<slots, active, ref, alive>>
    /\ UNCHANGED <<window, unpainted, dirty, disable, full, refused, mode>>

\* The pass comes to the idle while it is enabled; it paints once and is removed.
DispatchIdle ==
    /\ mode = "loop"
    /\ slots > 0 /\ alive /\ ~disable
    /\ IdleInvalidate
    /\ TakeSlot
    /\ UNCHANGED <<window, disable, full, refused, pipe, mode>>

\* The pass comes to the idle after its window has gone.
RemoveDisabled ==
    /\ mode = "loop"
    /\ slots > 0 /\ alive /\ disable
    /\ TakeSlot
    /\ UNCHANGED <<window, unpainted, dirty, disable, full, refused, pipe, mode>>

Init ==
    /\ visible = FALSE /\ mapped = FALSE /\ destroyed = FALSE
    /\ unpainted = {} /\ dirty = {}
    /\ ref = 0 /\ active = FALSE /\ disable = FALSE /\ alive = FALSE
    /\ slots = 0 /\ full = FALSE /\ refused = 0
    /\ pipe = <<>>
    /\ mode = "handler"

Application ==
    \/ \E r \in Rects : WidgetChanges(r)
    \/ Show \/ Hide \/ Cover \/ Uncover \/ Destroy

LoopStep ==
    \/ DispatchUser \/ DispatchAdd \/ DispatchRemove
    \/ DispatchIdle \/ RemoveDisabled \/ HandlerReturn

Next == Application \/ LoopStep \/ UserEvent \/ OtherSources

Spec == Init /\ [][Next]_vars

\* The thread goes on, a pass of the loop reads one event if there is one, and
\* sooner or later a pass comes to every slot that stays in the table.
Fairness ==
    /\ WF_vars(HandlerReturn)
    /\ WF_vars(DispatchUser \/ DispatchAdd \/ DispatchRemove)
    /\ SF_vars(DispatchIdle \/ RemoveDisabled)

FairSpec == Spec /\ Fairness

(***************************************************************************)
(* Properties                                                              *)
(***************************************************************************)

\* The ADD events of the idle that are still in the pipe.
Pending == Occ(pipe, "ADD")

\* Counts are numbers, and only rectangles of the window are dirty.
TypeOK ==
    /\ visible \in BOOLEAN /\ mapped \in BOOLEAN /\ destroyed \in BOOLEAN
    /\ unpainted \subseteq Rects /\ dirty \subseteq Rects
    /\ ref \in Nat /\ active \in BOOLEAN /\ disable \in BOOLEAN /\ alive \in BOOLEAN
    /\ slots \in Nat /\ full \in BOOLEAN /\ refused \in Nat
    /\ pipe \in Seq({"USER", "ADD", "REMOVE"})
    /\ mode \in {"loop", "handler"}

\* The array of dirty rectangles is never written past its end.
DirtyFits == Cardinality(dirty) < MaxDirty

\* What is dirty has the idle on its way, unless a full table has refused it: no
\* repaint is forgotten because a batch was flushed, or the window hidden or
\* covered meanwhile.
RepaintIsScheduled ==
    (dirty # {} /\ ~destroyed /\ refused = 0) => (slots > 0 \/ Pending > 0)

\* Everything on the screen that is out of date is in the batch.
StaleIsDirty == Seen => unpainted \subseteq Covered(dirty)

\* The idle's references: the window's, the table's, the pipe's and those lost
\* with a refused ADD.
RefsBalance ==
    alive => ref = (IF destroyed THEN 0 ELSE 1) + slots + Pending + refused

\* ftk_source.h says of active: "If this source is managed by sources_manager." The
\* idle that ftk_window_destroy frees because it is not active is neither in the
\* table nor on its way there.
FreedIsUnmanaged == ~alive => (slots = 0 /\ Pending = 0)

\* The idle is a source like those of MainLoop.
Life == INSTANCE SourceLife WITH
            Sources <- {"idle"},
            Resident <- {},
            exists <- [s \in {"idle"} |-> alive],
            owned <- [s \in {"idle"} |-> alive /\ ~destroyed],
            wanted <- [s \in {"idle"} |-> alive /\ ~destroyed],
            asked <- [s \in {"idle"} |-> Pending],
            slots <- [s \in {"idle"} |-> slots],
            lost <- [s \in {"idle"} |-> refused],
            serving <- <<>>

\* ftk_window_idle_invalidate never runs for a window that has been destroyed.
NoPaintAfterDestroy == [][DispatchIdle => ~destroyed]_vars

\* A change of a widget reaches the screen, unless the window goes out of sight or
\* the table has had no room for the idle.
ChangeIsPainted ==
    \A r \in Rects : (r \in unpainted /\ Seen) ~> (r \notin unpainted \/ ~Seen \/ refused > 0)

\* The idle of a destroyed window is freed, unless a refused ADD has lost one of
\* its references.
IdleIsFreed == (destroyed /\ alive) ~> (~alive \/ refused > 0)

=============================================================================
