------------------------------ MODULE MainLoop ------------------------------
(***************************************************************************)
(* The FTK main loop: the sources manager (ftk_sources_manager.c), the     *)
(* primary source and its pipe (ftk_source_primary.c), timer, idle and fd  *)
(* sources (ftk_source.h, ftk_source_timer.c, ftk_source_idle.c), the      *)
(* select() loop (ftk_main_loop_select.c) with the loops that modal        *)
(* dialogs nest inside it (ftk_dialog.c), and the widgets that own         *)
(* sources.                                                                *)
(*                                                                         *)
(* Everything runs in one thread; what interleaves is the environment      *)
(* (clock, file descriptors, input events) with the loop, and the calls    *)
(* that the handlers dispatched by the loop make on the very table the     *)
(* loop is walking.                                                        *)
(***************************************************************************)
EXTENDS TableOps

CONSTANTS
    Primary,     \* the primary source, at the read end of the pipe
    Clients,     \* the other sources
    Owner,       \* [Clients -> Owners]: which code owns the source
    Kind,        \* [Clients -> Kinds]: which vtable the source has
    MaxSources,  \* max_source_nr, the capacity of the table
    PipeSize,    \* bound: events in flight in the pipe
    MaxRef,      \* bound: references a client source may collect
    MaxDisable,  \* bound: the disable counter of a client source
    MaxDepth,    \* bound: main loops on the stack (1: no modal dialog)
    FdErrors     \* BOOLEAN: may select() fail, or report an exceptional fd?

(***************************************************************************)
(* The owners met in the code.                                             *)
(*   "long_press"  the window manager's timer: restarted by every DOWN     *)
(*   "entry"       caret timer of an entry; its action may fail            *)
(*   "text_view"   caret timer of a text view; its action never fails      *)
(*   "wait_box"    timer of a wait box; its action may fail                *)
(*   "dialog"      quit timer of a dialog, handed over to the loop         *)
(*   "marquee"     timer of a list render, handed over to the loop         *)
(*   "adopted"     created, handed over and forgotten (an fbus connection, *)
(*                 an application's timer or idle)                         *)
(***************************************************************************)
Owners == {"long_press", "entry", "text_view", "wait_box", "dialog", "marquee", "adopted"}
Kinds == {"timer", "idle", "fd"}

ASSUME PrimaryAssumption == Primary \notin Clients
ASSUME ClientsAssumption == IsFiniteSet(Clients)
ASSUME OwnerAssumption == Owner \in [Clients -> Owners]
ASSUME KindAssumption == Kind \in [Clients -> Kinds]
ASSUME WidgetTimers == \A s \in Clients : Owner[s] # "adopted" => Kind[s] = "timer"
ASSUME BoundsAssumption ==
    /\ MaxSources \in Nat \ {0} /\ PipeSize \in Nat \ {0}
    /\ MaxRef \in Nat \ {0} /\ MaxDisable \in Nat \ {0} /\ MaxDepth \in Nat \ {0}
    /\ FdErrors \in BOOLEAN

Sources == {Primary} \cup Clients
OwnerOf(s) == IF s = Primary THEN "wnd_manager" ELSE Owner[s]
KindOf(s) == IF s = Primary THEN "fd" ELSE Kind[s]

NopEvt == [type |-> "NOP", source |-> Primary]      \* FTK_EVT_NOP
UserEvt == [type |-> "USER", source |-> Primary]    \* any event for on_event
AddEvt(s) == [type |-> "ADD", source |-> s]         \* FTK_EVT_ADD_SOURCE
RemoveEvt(s) == [type |-> "REMOVE", source |-> s]   \* FTK_EVT_REMOVE_SOURCE
Events == [type : {"NOP", "USER", "ADD", "REMOVE"}, source : Sources]

VARIABLES
    sources,      \* the table of the sources manager, in dispatch order
    need_refresh, \* its counter of pending "break and reselect" requests
    ref,          \* reference count of every source
    active,       \* the active flag of every source
    disable,      \* the disable counter of every source
    alive,        \* is the memory of the source allocated?
    own,          \* does the owner hold its pointer to the source?
    want,         \* was the owner's last call on the source a start?
    refused,      \* references lost with an ADD that found the table full
    due,          \* a timer: its time has come; an fd: it is readable
    pipe,         \* the events written to the primary source's pipe
    frames        \* the stack of running main loops, innermost last

vars == <<sources, need_refresh, ref, active, disable, alive, own, want,
          refused, due, pipe, frames>>

\* Is s in a slot of the table?
InTable(s) == \E k \in DOMAIN sources : sources[k] = s

Frame == [pc : {"setup", "loop", "pass", "handler", "exited", "deinit"},
          i : Nat \ {0}, cur : Sources,
          fdset : SUBSET Sources, err_fdset : SUBSET Sources,
          running : BOOLEAN, stale : BOOLEAN]

NewFrame(at) == [pc |-> at, i |-> 1, cur |-> Primary, fdset |-> {}, err_fdset |-> {},
                 running |-> at = "loop", stale |-> FALSE]

Top == frames[Len(frames)]
\* The stack with the innermost frame replaced.
SetTop(f) == [frames EXCEPT ![Len(frames)] = f]

(***************************************************************************)
(* Pieces of the sources manager and of ftk_source.h.                      *)
(***************************************************************************)

\* ftk_source_unref: the source is destroyed with its last reference.
Unref(s) ==
    /\ ref' = [ref EXCEPT ![s] = @ - 1]
    /\ alive' = [alive EXCEPT ![s] = @ /\ ref[s] # 1]

\* Every loop on the stack walks the same table: a change makes the pass that
\* each of them may be in out of date.
StaleFrames(fs) == [k \in DOMAIN fs |-> [fs[k] EXCEPT !.stale = TRUE]]

\* Mutant: the added source does not ask for a refresh.
ManagerAddSilently(s) ==
    /\ sources' = Append(sources, s)
    /\ active' = [active EXCEPT ![s] = TRUE]
    /\ UNCHANGED <<need_refresh, refused>>

\* ftk_sources_manager_add; the caller changes no other source.
ManagerAdd(s) ==
    IF Len(sources) < MaxSources
    THEN /\ sources' = Append(sources, s)
         /\ active' = [active EXCEPT ![s] = TRUE]
         /\ need_refresh' = need_refresh + 1
         /\ UNCHANGED refused
    ELSE /\ refused' = [refused EXCEPT ![s] = @ + 1]
         /\ UNCHANGED <<sources, active, need_refresh>>

\* Mutant: the slot's reference is not given back.
ManagerRemoveNoUnref(s) ==
    /\ need_refresh' = need_refresh + 1
    /\ sources' = IF InTable(s) THEN ShiftDown(sources, FirstSlot(sources, s)) ELSE sources
    /\ active' = [active EXCEPT ![s] = FALSE]
    /\ UNCHANGED <<ref, alive>>

\* Mutant: the search stops before the last slot.
ManagerRemoveMissesLast(s) ==
    /\ need_refresh' = need_refresh + 1
    /\ IF InTable(s) /\ FirstSlot(sources, s) < Len(sources)
       THEN /\ sources' = ShiftDown(sources, FirstSlot(sources, s))
            /\ active' = [active EXCEPT ![s] = FALSE]
            /\ Unref(s)
       ELSE UNCHANGED <<sources, active, ref, alive>>

\* ftk_sources_manager_remove. A source that is not there only asks for a
\* refresh, which is also all that happens for a source freed meanwhile.
ManagerRemove(s) ==
    /\ need_refresh' = need_refresh + 1
    /\ IF InTable(s)
       THEN /\ sources' = ShiftDown(sources, FirstSlot(sources, s))
            /\ active' = [active EXCEPT ![s] = FALSE]
            /\ Unref(s)
       ELSE UNCHANGED <<sources, active, ref, alive>>

\* The write that ftk_source_queue_event does. PipeSize bounds it while the loop
\* runs; ftk_deinit adds at most one event for every client.
QueueEvent(e) ==
    /\ Len(pipe) < PipeSize \/ Top.pc = "exited"
    /\ pipe' = Append(pipe, e)

\* Mutants: enabling counts below zero; enabling does nothing.
EnabledBelowZero(n) == n - 1
EnabledNever(n) == n

\* ftk_source_enable
Enabled(n) == IF n > 0 THEN n - 1 ELSE 0

(***************************************************************************)
(* The code that handlers and the application run. It calls the main loop  *)
(* only while no pass is between two sources: before ftk_run, inside a     *)
(* handler, and in ftk_deinit.                                             *)
(***************************************************************************)
InUserCode == Top.pc \in {"setup", "handler"}
InTeardown == Top.pc = "exited"

\* ftk_source_timer_create, ftk_source_idle_create and the fd sources: one
\* reference, the next time of a timer computed. A freed address may be handed
\* out again.
Create(s) ==
    /\ ~alive[s]
    /\ alive' = [alive EXCEPT ![s] = TRUE]
    /\ ref' = [ref EXCEPT ![s] = 1]
    /\ disable' = [disable EXCEPT ![s] = 0]
    /\ due' = [due EXCEPT ![s] = FALSE]
    /\ refused' = [refused EXCEPT ![s] = 0]

\* A widget creates the timer it will start and stop (entry, text view, wait
\* box), the window manager its long press timer.
CreateOwned(s) ==
    /\ InUserCode
    /\ Owner[s] \in {"long_press", "entry", "text_view", "wait_box"}
    /\ Create(s)
    /\ own' = [own EXCEPT ![s] = TRUE]
    /\ active' = [active EXCEPT ![s] = FALSE]
    /\ want' = [want EXCEPT ![s] = FALSE]
    /\ UNCHANGED <<sources, need_refresh, pipe, frames>>

\* A source that is created and given to the loop at once, with the only
\* reference there is: a dialog's quit timer, a marquee timer, or one that
\* nobody keeps a pointer to.
CreateAndAdd(s) ==
    /\ InUserCode
    /\ Owner[s] \in {"dialog", "marquee", "adopted"}
    /\ Create(s)
    /\ own' = [own EXCEPT ![s] = Owner[s] # "adopted"]
    /\ active' = [active EXCEPT ![s] = TRUE]
    /\ want' = [want EXCEPT ![s] = TRUE]
    /\ QueueEvent(AddEvt(s))
    /\ UNCHANGED <<sources, need_refresh, frames>>

\* Mutant: no reference for the table.
StartWithResetNoRef(s) ==
    /\ InUserCode
    /\ Owner[s] \in {"long_press", "entry"}
    /\ own[s]
    /\ disable' = [disable EXCEPT ![s] = 0]
    /\ due' = [due EXCEPT ![s] = FALSE]
    /\ active' = [active EXCEPT ![s] = TRUE]
    /\ want' = [want EXCEPT ![s] = TRUE]
    /\ QueueEvent(AddEvt(s))
    /\ UNCHANGED <<sources, need_refresh, ref, alive, own, refused, frames>>

\* A DOWN event or FOCUS_IN: a reference for the table, ftk_source_timer_reset,
\* ftk_main_loop_add_source.
StartWithReset(s) ==
    /\ InUserCode
    /\ Owner[s] \in {"long_press", "entry"}
    /\ own[s]
    /\ ref[s] < MaxRef
    /\ ref' = [ref EXCEPT ![s] = @ + 1]
    /\ disable' = [disable EXCEPT ![s] = 0]
    /\ due' = [due EXCEPT ![s] = FALSE]
    /\ active' = [active EXCEPT ![s] = TRUE]
    /\ want' = [want EXCEPT ![s] = TRUE]
    /\ QueueEvent(AddEvt(s))
    /\ UNCHANGED <<sources, need_refresh, alive, own, refused, frames>>

\* FOCUS_IN of a text view, or ftk_wait_box_start_waiting: no reset. Neither
\* starts twice in a row: the waiting flag, and the focus state, see to it.
StartPlain(s) ==
    /\ InUserCode
    /\ Owner[s] \in {"text_view", "wait_box"}
    /\ own[s]
    /\ ~want[s]
    /\ ref[s] < MaxRef
    /\ ref' = [ref EXCEPT ![s] = @ + 1]
    /\ disable' = [disable EXCEPT ![s] = Enabled(@)]
    /\ active' = [active EXCEPT ![s] = TRUE]
    /\ want' = [want EXCEPT ![s] = TRUE]
    /\ QueueEvent(AddEvt(s))
    /\ UNCHANGED <<sources, need_refresh, alive, own, refused, due, frames>>

\* Mutant: only the REMOVE event is queued, the source stays enabled.
StopNoDisable(s) ==
    /\ InUserCode
    /\ Owner[s] \in {"long_press", "entry", "text_view", "wait_box"}
    /\ own[s]
    /\ Owner[s] # "long_press" => want[s]
    /\ want' = [want EXCEPT ![s] = FALSE]
    /\ QueueEvent(RemoveEvt(s))
    /\ UNCHANGED <<sources, need_refresh, ref, active, disable, alive, own, refused,
                   due, frames>>

\* An UP event, FOCUS_OUT, ftk_wait_box_stop_waiting: ftk_main_loop_remove_source.
\* UP may come without a DOWN; the other owners stop only what they started.
Stop(s) ==
    /\ InUserCode
    /\ Owner[s] \in {"long_press", "entry", "text_view", "wait_box"}
    /\ own[s]
    /\ Owner[s] # "long_press" => want[s]
    /\ disable[s] < MaxDisable
    /\ disable' = [disable EXCEPT ![s] = @ + 1]
    /\ want' = [want EXCEPT ![s] = FALSE]
    /\ QueueEvent(RemoveEvt(s))
    /\ UNCHANGED <<sources, need_refresh, ref, active, alive, own, refused, due, frames>>

\* ftk_entry_destroy, ftk_text_view_destroy: disable, ftk_main_loop_remove_source
\* (which disables again), and the owner's reference is dropped.
DestroyCaretOwner(s) ==
    /\ InUserCode \/ InTeardown
    /\ Owner[s] \in {"entry", "text_view"}
    /\ own[s]
    /\ disable' = [disable EXCEPT ![s] = @ + 2]
    /\ want' = [want EXCEPT ![s] = FALSE]
    /\ own' = [own EXCEPT ![s] = FALSE]
    /\ Unref(s)
    /\ QueueEvent(RemoveEvt(s))
    /\ UNCHANGED <<sources, need_refresh, active, refused, due, frames>>

\* ftk_wait_box_destroy: stop_waiting if it waits, then the reference is dropped.
DestroyWaitBox(s) ==
    /\ InUserCode \/ InTeardown
    /\ Owner[s] = "wait_box"
    /\ own[s]
    /\ own' = [own EXCEPT ![s] = FALSE]
    /\ want' = [want EXCEPT ![s] = FALSE]
    /\ Unref(s)
    /\ IF want[s]
       THEN /\ disable' = [disable EXCEPT ![s] = @ + 1]
            /\ QueueEvent(RemoveEvt(s))
       ELSE UNCHANGED <<disable, pipe>>
    /\ UNCHANGED <<sources, need_refresh, active, refused, due, frames>>

\* ftk_wnd_manager_default_destroy, in ftk_deinit: only the reference is dropped.
DestroyWndManager(s) ==
    /\ InTeardown
    /\ Owner[s] = "long_press"
    /\ own[s]
    /\ own' = [own EXCEPT ![s] = FALSE]
    /\ want' = [want EXCEPT ![s] = FALSE]
    /\ Unref(s)
    /\ UNCHANGED <<sources, need_refresh, active, disable, refused, due, pipe, frames>>

\* ftk_dialog_destroy and ftk_list_render_default_destroy (which disables
\* first): the source is taken back from the loop, no reference is dropped.
ReleaseHandedOver(s) ==
    /\ InUserCode \/ InTeardown
    /\ Owner[s] \in {"dialog", "marquee"}
    /\ own[s]
    /\ own' = [own EXCEPT ![s] = FALSE]
    /\ want' = [want EXCEPT ![s] = FALSE]
    /\ disable' = [disable EXCEPT ![s] = IF Owner[s] = "dialog" THEN @ + 1 ELSE @ + 2]
    /\ QueueEvent(RemoveEvt(s))
    /\ UNCHANGED <<sources, need_refresh, ref, active, alive, refused, due, frames>>

\* ftk_main_loop_quit on the k-th loop: from ftk_quit, on the innermost one,
\* or from ftk_dialog_quit, on any dialog's.
Quit(k) ==
    /\ Top.pc = "handler"
    /\ k \in DOMAIN frames
    /\ k = Len(frames) \/ k > 1
    /\ frames' = [frames EXCEPT ![k].running = FALSE]
    /\ QueueEvent(NopEvt)
    /\ UNCHANGED <<sources, need_refresh, ref, active, disable, alive, own, want, refused, due>>

\* ftk_dialog_run from a handler that runs application code: a new loop over
\* the same sources manager.
DialogRun ==
    /\ Top.pc = "handler"
    /\ OwnerOf(Top.cur) \in {"wnd_manager", "long_press"}
    /\ Len(frames) < MaxDepth
    /\ frames' = Append(frames, NewFrame("loop"))
    /\ UNCHANGED <<sources, need_refresh, ref, active, disable, alive, own, want,
                   refused, due, pipe>>

\* ftk_run: ftk_main_loop_run sets running.
Run ==
    /\ Top.pc = "setup"
    /\ frames' = SetTop(NewFrame("loop"))
    /\ UNCHANGED <<sources, need_refresh, ref, active, disable, alive, own, want,
                   refused, due, pipe>>

(***************************************************************************)
(* The environment: time passes, a peer sends, an input backend queues an  *)
(* event (ftk_wnd_manager_queue_event).                                    *)
(***************************************************************************)
Tick(s) ==
    /\ alive[s] /\ Kind[s] # "idle" /\ ~due[s]
    /\ Top.pc # "deinit"
    /\ due' = [due EXCEPT ![s] = TRUE]
    /\ UNCHANGED <<sources, need_refresh, ref, active, disable, alive, own, want,
                   refused, pipe, frames>>

UserInput ==
    /\ Top.pc \notin {"exited", "deinit"}
    /\ QueueEvent(UserEvt)
    /\ UNCHANGED <<sources, need_refresh, ref, active, disable, alive, own, want,
                   refused, due, frames>>

(***************************************************************************)
(* ftk_main_loop_run                                                       *)
(***************************************************************************)
IsFd(s) == KindOf(s) = "fd"
Readable(s) == IF s = Primary THEN pipe # <<>> ELSE due[s]
\* ftk_source_check(source) == 0; it is -1 for every fd source.
CheckIsZero(s) == KindOf(s) = "idle" \/ (KindOf(s) = "timer" /\ due[s])

TableSet == {sources[k] : k \in DOMAIN sources}
TableFds == {s \in TableSet : IsFd(s)}

\* Mutant: the loop does not look at its running flag.
SelectForever(err) ==
    /\ Top.pc = "loop"
    /\ err # {} \/ \E s \in TableSet : CheckIsZero(s) \/ (IsFd(s) /\ Readable(s))
    /\ frames' = SetTop([Top EXCEPT !.pc = "pass", !.i = 1, !.stale = FALSE,
                                    !.fdset = {s \in TableFds : Readable(s)},
                                    !.err_fdset = err])
    /\ UNCHANGED <<sources, need_refresh, ref, active, disable, alive, own, want,
                   refused, due, pipe>>

\* The top of while(running): the scan of the table and select(), which returns
\* when an fd of the table is readable, or exceptional, or the wait time is over.
Select(err) ==
    /\ Top.pc = "loop"
    /\ Top.running
    /\ err # {} \/ \E s \in TableSet : CheckIsZero(s) \/ (IsFd(s) /\ Readable(s))
    /\ frames' = SetTop([Top EXCEPT !.pc = "pass", !.i = 1, !.stale = FALSE,
                                    !.fdset = {s \in TableFds : Readable(s)},
                                    !.err_fdset = err])
    /\ UNCHANGED <<sources, need_refresh, ref, active, disable, alive, own, want,
                   refused, due, pipe>>

\* select() returns -1 and leaves both sets as the scan filled them; with ret < 0
\* only err_fdset is looked at.
SelectFail ==
    /\ FdErrors
    /\ Top.pc = "loop"
    /\ Top.running
    /\ frames' = SetTop([Top EXCEPT !.pc = "pass", !.i = 1, !.stale = FALSE,
                                    !.fdset = {}, !.err_fdset = TableFds])
    /\ UNCHANGED <<sources, need_refresh, ref, active, disable, alive, own, want,
                   refused, due, pipe>>

\* Back to while(running); what the pass knew is cleared before it is used again.
Reselect == [NewFrame("loop") EXCEPT !.running = Top.running]

\* The for loop over the table is over.
PassEnd ==
    /\ Top.pc = "pass"
    /\ Top.i > Len(sources)
    /\ frames' = SetTop(Reselect)
    /\ UNCHANGED <<sources, need_refresh, ref, active, disable, alive, own, want,
                   refused, due, pipe>>

\* Mutant: the refresh request is not consumed.
PassBreakForever ==
    /\ Top.pc = "pass"
    /\ Top.i <= Len(sources)
    /\ need_refresh > 0
    /\ frames' = SetTop(Reselect)
    /\ UNCHANGED <<sources, need_refresh, ref, active, disable, alive, own, want,
                   refused, due, pipe>>

\* ftk_sources_manager_need_refresh: break, and reselect.
PassBreak ==
    /\ Top.pc = "pass"
    /\ Top.i <= Len(sources)
    /\ need_refresh > 0
    /\ need_refresh' = need_refresh - 1
    /\ frames' = SetTop(Reselect)
    /\ UNCHANGED <<sources, ref, active, disable, alive, own, want, refused, due, pipe>>

\* The body of the for loop has come to source s.
AtSource(s) ==
    /\ Top.pc = "pass"
    /\ Top.i <= Len(sources)
    /\ need_refresh = 0
    /\ s = sources[Top.i]

\* The stack after a step that leaves f on top; a changed table makes every
\* frame's pass stale.
After(f) == IF sources' = sources THEN SetTop(f) ELSE StaleFrames(SetTop(f))

\* Mutant: i is not advanced after a source that stays.
NextSourceStays == [Top EXCEPT !.pc = "pass", !.cur = Primary]

NextSource == [Top EXCEPT !.pc = "pass", !.cur = Primary, !.i = @ + 1]
SameSlot == [Top EXCEPT !.pc = "pass", !.cur = Primary]

\* A disabled source is dropped from the table, not dispatched.
RemoveDisabled(s) ==
    /\ AtSource(s)
    /\ disable[s] > 0
    /\ ManagerRemove(s)
    /\ frames' = After(SameSlot)
    /\ UNCHANGED <<disable, own, want, refused, due, pipe>>

\* An fd that is not readable but exceptional.
RemoveBroken(s) ==
    /\ AtSource(s)
    /\ disable[s] = 0
    /\ s \in Top.err_fdset \ Top.fdset
    /\ ManagerRemove(s)
    /\ frames' = After(SameSlot)
    /\ UNCHANGED <<disable, own, want, refused, due, pipe>>

\* Is this the step that dispatches s?
Dispatches(s) ==
    /\ AtSource(s)
    /\ disable[s] = 0
    /\ s \in Top.fdset \/ CheckIsZero(s)

Skip(s) ==
    /\ AtSource(s)
    /\ disable[s] = 0
    /\ s \notin Top.fdset \cup Top.err_fdset
    /\ ~CheckIsZero(s)
    /\ frames' = SetTop(NextSource)
    /\ UNCHANGED <<sources, need_refresh, ref, active, disable, alive, own, want,
                   refused, due, pipe>>

(***************************************************************************)
(* ftk_source_primary_dispatch: one event is read from the pipe. The read  *)
(* blocks while the pipe is empty.                                         *)
(***************************************************************************)
PrimaryNop ==
    /\ Dispatches(Primary)
    /\ pipe # <<>> /\ Head(pipe).type = "NOP"
    /\ pipe' = Tail(pipe)
    /\ frames' = SetTop(NextSource)
    /\ UNCHANGED <<sources, need_refresh, ref, active, disable, alive, own, want,
                   refused, due>>

PrimaryAdd ==
    /\ Dispatches(Primary)
    /\ pipe # <<>> /\ Head(pipe).type = "ADD"
    /\ pipe' = Tail(pipe)
    /\ ManagerAdd(Head(pipe).source)
    /\ frames' = After(NextSource)
    /\ UNCHANGED <<ref, disable, alive, own, want, due>>

PrimaryRemove ==
    /\ Dispatches(Primary)
    /\ pipe # <<>> /\ Head(pipe).type = "REMOVE"
    /\ pipe' = Tail(pipe)
    /\ ManagerRemove(Head(pipe).source)
    /\ frames' = After(NextSource)
    /\ UNCHANGED <<disable, own, want, refused, due>>

\* Any other event goes to on_event: the window manager runs the handlers of
\* the widgets.
PrimaryOnEvent ==
    /\ Dispatches(Primary)
    /\ pipe # <<>> /\ Head(pipe).type = "USER"
    /\ pipe' = Tail(pipe)
    /\ frames' = SetTop([Top EXCEPT !.pc = "handler", !.cur = Primary])
    /\ UNCHANGED <<sources, need_refresh, ref, active, disable, alive, own, want,
                   refused, due>>

(***************************************************************************)
(* The dispatch functions of the other sources.                            *)
(***************************************************************************)

\* The action of a widget's own timer repaints, or fails; it calls nothing that
\* touches the loop. Then ftk_source_timer_calc_timer.
DispatchWidgetTimer(s, ok) ==
    /\ Dispatches(s)
    /\ OwnerOf(s) \in {"entry", "text_view", "wait_box", "marquee"}
    /\ ok \/ OwnerOf(s) \in {"entry", "wait_box"}
    /\ due' = [due EXCEPT ![s] = FALSE]
    /\ IF ok
       THEN /\ frames' = SetTop(NextSource)
            /\ UNCHANGED <<sources, need_refresh, ref, active, alive>>
       ELSE /\ ManagerRemove(s)
            /\ frames' = After(SameSlot)
    /\ UNCHANGED <<disable, own, want, refused, pipe>>

\* The action of the other sources runs application code. A dialog's quit timer
\* is forgotten by its owner first; an fd source reads what is there.
DispatchHandler(s) ==
    /\ Dispatches(s)
    /\ OwnerOf(s) \in {"long_press", "dialog", "adopted"}
    /\ own' = [own EXCEPT ![s] = IF OwnerOf(s) = "dialog" THEN FALSE ELSE @]
    /\ due' = [due EXCEPT ![s] = IF KindOf(s) = "fd" THEN FALSE ELSE @]
    /\ frames' = SetTop([Top EXCEPT !.pc = "handler", !.cur = s])
    /\ UNCHANGED <<sources, need_refresh, ref, active, disable, alive, want, refused, pipe>>

\* Mutant: i is not advanced after a handler that succeeds.
HandlerReturnStays(ok) ==
    /\ Top.pc = "handler"
    /\ ok
    /\ OwnerOf(Top.cur) \in {"wnd_manager", "adopted"}
    /\ due' = [due EXCEPT ![Top.cur] = IF KindOf(Top.cur) = "timer" THEN FALSE ELSE @]
    /\ frames' = SetTop(SameSlot)
    /\ UNCHANGED <<sources, need_refresh, ref, active, disable, alive, own, want,
                   refused, pipe>>

\* The handler returns. A timer computes its next time after its action, so a
\* loop that the action runs finds it due all the time.
HandlerReturn(ok) ==
    /\ Top.pc = "handler"
    /\ LET s == Top.cur
       IN /\ IF ok THEN OwnerOf(s) \in {"wnd_manager", "adopted"} ELSE s # Primary
          /\ due' = [due EXCEPT ![s] = IF KindOf(s) = "timer" THEN FALSE ELSE @]
          /\ IF ok
             THEN /\ frames' = SetTop(NextSource)
                  /\ UNCHANGED <<sources, need_refresh, ref, active, alive>>
             ELSE /\ ManagerRemove(s)
                  /\ frames' = After(SameSlot)
    /\ UNCHANGED <<disable, own, want, refused, pipe>>

\* while(running) is over: back to the handler that ran the dialog, or to
\* ftk_run, which calls ftk_deinit.
LoopExit ==
    /\ Top.pc = "loop"
    /\ ~Top.running
    /\ frames' = IF Len(frames) > 1 THEN SubSeq(frames, 1, Len(frames) - 1)
                                    ELSE SetTop([Top EXCEPT !.pc = "exited"])
    /\ UNCHANGED <<sources, need_refresh, ref, active, disable, alive, own, want,
                   refused, due, pipe>>

\* ftk_sources_manager_destroy, after ftk_deinit has destroyed the widgets: every
\* slot gives its reference up.
ManagerDestroy ==
    /\ InTeardown
    /\ \A s \in Clients : ~own[s]
    /\ sources' = <<>>
    /\ ref' = [s \in Sources |-> ref[s] - Occ(sources, s)]
    /\ alive' = [s \in Sources |-> alive[s] /\ (InTable(s) => ref'[s] # 0)]
    /\ frames' = SetTop([Top EXCEPT !.pc = "deinit"])
    /\ UNCHANGED <<need_refresh, active, disable, own, want, refused, due, pipe>>

Terminated == Top.pc = "deinit" /\ UNCHANGED vars

Init ==
    /\ sources = <<Primary>>
    /\ need_refresh = 1
    /\ ref = [s \in Sources |-> IF s = Primary THEN 1 ELSE 0]
    /\ active = [s \in Sources |-> s = Primary]
    /\ disable = [s \in Sources |-> 0]
    /\ alive = [s \in Sources |-> s = Primary]
    /\ own = [s \in Sources |-> FALSE]
    /\ want = [s \in Sources |-> FALSE]
    /\ refused = [s \in Sources |-> 0]
    /\ due = [s \in Sources |-> FALSE]
    /\ pipe = <<>>
    /\ frames = <<NewFrame("setup")>>

OwnerStep(s) ==
    \/ CreateOwned(s) \/ CreateAndAdd(s)
    \/ StartWithReset(s) \/ StartPlain(s) \/ Stop(s)
    \/ DestroyCaretOwner(s) \/ DestroyWaitBox(s) \/ DestroyWndManager(s)
    \/ ReleaseHandedOver(s)

Application ==
    \/ \E s \in Clients : OwnerStep(s)
    \/ \E k \in DOMAIN frames : Quit(k)
    \/ DialogRun
    \/ Run

Environment ==
    \/ \E s \in Clients : Tick(s)
    \/ UserInput

\* What the loop does with the source it has come to.
LoopVisit(s) ==
    \/ RemoveDisabled(s) \/ RemoveBroken(s) \/ Skip(s)
    \/ \E ok \in BOOLEAN : DispatchWidgetTimer(s, ok)
    \/ DispatchHandler(s)

PrimaryDispatch == PrimaryNop \/ PrimaryAdd \/ PrimaryRemove \/ PrimaryOnEvent

\* The thread, when it is not inside application code that goes on.
LoopStep ==
    \/ \E err \in SUBSET (IF FdErrors THEN TableFds \ {Primary} ELSE {}) : Select(err)
    \/ SelectFail
    \/ PassEnd \/ PassBreak
    \/ \E s \in Sources : LoopVisit(s)
    \/ PrimaryDispatch
    \/ \E ok \in BOOLEAN : HandlerReturn(ok)
    \/ LoopExit
    \/ ManagerDestroy

Next == Application \/ Environment \/ LoopStep \/ Terminated

Spec == Init /\ [][Next]_vars

\* The thread goes on: handlers return and the loop takes its next step. The
\* clock goes on: a timer's time comes. Nothing is assumed of the application,
\* of the user and of the peers.
Fairness ==
    /\ WF_vars(LoopStep)
    /\ \A s \in Clients : Kind[s] = "timer" => WF_vars(Tick(s))

FairSpec == Spec /\ Fairness

(***************************************************************************)
(* Properties                                                              *)
(***************************************************************************)

TypeOK ==
    /\ sources \in Seq(Sources)
    /\ need_refresh \in Nat
    /\ ref \in [Sources -> Int]
    /\ active \in [Sources -> BOOLEAN]
    /\ disable \in [Sources -> Nat]
    /\ alive \in [Sources -> BOOLEAN]
    /\ own \in [Sources -> BOOLEAN]
    /\ want \in [Sources -> BOOLEAN]
    /\ refused \in [Sources -> Nat]
    /\ due \in [Sources -> BOOLEAN]
    /\ pipe \in Seq(Events)
    /\ frames \in Seq(Frame) /\ frames # <<>>

\* The owners whose pointer carries a reference of its own.
KeepsReference(s) == OwnerOf(s) \in {"long_press", "entry", "text_view", "wait_box"}

\* Every reference of a live source is accounted for: the owner's, one for each
\* slot of the table, one for each ADD still in the pipe, and those an ADD lost
\* on a full table. Nothing refers to a source that has been freed.
RefConservation ==
    \A s \in Sources :
        ref[s] = (IF own[s] /\ KeepsReference(s) THEN 1 ELSE 0)
                   + Occ(sources, s) + Occ(pipe, AddEvt(s)) + refused[s]

\* No pointer dangles where the loop will use it: in the table, and in an ADD on
\* its way to the table.
ManagedIsAlive ==
    /\ \A k \in DOMAIN sources : alive[sources[k]]
    /\ \A k \in DOMAIN pipe : pipe[k].type = "ADD" => alive[pipe[k].source]

\* No pointer dangles where an owner will disable or unref it, nor in a loop that
\* computes the next time of the timer whose action has just returned.
HeldIsAlive ==
    /\ \A s \in Clients : own[s] => alive[s]
    /\ \A k \in DOMAIN frames : frames[k].pc = "handler" => alive[frames[k].cur]

\* No action runs after its owner has stopped or destroyed the source, however
\* many starts are still in the pipe or in the table.
StoppedNeverDispatched ==
    \A s \in Clients : Dispatches(s) => want[s]

\* The sources whose actions are running: below the innermost loop each loop is in
\* one, which has run a dialog.
Serving == [k \in 1 .. (IF Top.pc = "handler" THEN Len(frames) ELSE Len(frames) - 1) |->
               frames[k].cur]

Life == INSTANCE SourceLife WITH
            Resident <- {Primary},
            exists <- alive,
            owned <- [s \in Sources |-> own[s] /\ KeepsReference(s)],
            wanted <- [s \in Sources |-> s = Primary \/ want[s]],
            asked <- [s \in Sources |-> Occ(pipe, AddEvt(s))],
            slots <- [s \in Sources |-> Occ(sources, s)],
            lost <- refused,
            serving <- Serving

\* To its widget a source is what SourceLife says: reference counts, the disable
\* counter, the order of the events in the pipe and the loops that walk one table
\* come to a source which exists as long as somebody holds it, has one slot for each
\* request that is met, and is served while it is wanted.
ImplementsSourceLife == Life!Spec

\* The positions in the pipe of the events about s.
PendingAbout(s) ==
    {k \in DOMAIN pipe : pipe[k].source = s /\ pipe[k].type \in {"ADD", "REMOVE"}}

\* A running text view or marquee timer is not lost: once the pipe is drained it
\* is in the table. No REMOVE of an earlier stop, or of an earlier source at the
\* same address, takes it out.
StartedIsManaged ==
    \A s \in Clients :
        (want[s] /\ Owner[s] \in {"text_view", "marquee"} /\ refused[s] = 0
            /\ Top.pc # "deinit")
        => IF PendingAbout(s) = {}
           THEN InTable(s)
           ELSE \E k \in PendingAbout(s) : /\ pipe[k].type = "ADD"
                                           /\ \A j \in PendingAbout(s) : j <= k

\* "Tell the main-loop break current loop and reselect": a pass that the table
\* has changed under does not come to another source.
ReselectAfterChange ==
    (Top.pc = "pass" /\ Top.stale /\ Top.i <= Len(sources)) => need_refresh > 0

\* The thread that fills its own pipe never waits in a read of it.
OwnPipeNeverBlocks == Dispatches(Primary) => pipe # <<>>

\* An fd source is dispatched only when there is something to read, so that a
\* silent peer cannot stop the loop.
PeerNeverBlocks ==
    \A s \in Clients : Dispatches(s) /\ Kind[s] = "fd" => due[s]

\* A loop told to quit is left, unless its handler starts another dialog.
QuitLeavesLoop ==
    \A k \in 1 .. MaxDepth :
        (Len(frames) = k /\ ~frames[k].running /\ Top.pc \in {"loop", "pass", "handler"})
            ~> (Len(frames) # k \/ Top.pc \in {"exited", "deinit"})

\* A persistent timer whose time has come is dispatched while its owner wants it
\* and the loop runs, whatever events keep coming.
DueTimerIsServed ==
    \A s \in Clients :
        Owner[s] \in {"text_view", "marquee"} =>
            ((want[s] /\ due[s] /\ frames[1].running)
                ~> (~due[s] \/ ~want[s] \/ refused[s] > 0 \/ ~frames[1].running))

\* A source that its owner has stopped leaves the table, in all its slots.
StoppedLeavesTable ==
    \A s \in Clients :
        (InTable(s) /\ ~want[s] /\ frames[1].running)
            ~> (~InTable(s) \/ want[s] \/ ~frames[1].running)

=============================================================================
