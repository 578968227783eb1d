----------------------------- MODULE WndManager -----------------------------
(***************************************************************************)
(* The default window manager (ftk_wnd_manager_default.c) with the windows *)
(* it manages (ftk_window.c, the life of a widget in ftk_widget.c), the    *)
(* menu panel (ftk_menu_panel.c) and the listener of the status panel that *)
(* keeps a pointer to the window its close button closes (ftk.c).          *)
(*                                                                         *)
(* All calls are synchronous, and the events a window manager operation    *)
(* dispatches (TOP_WND_CHANGED, UNMAP, MAP, WND_DESTROY) are handled by    *)
(* FTK's own code before the operation returns: an operation is one step.  *)
(* What comes between steps is application code: the handler of an input   *)
(* event or of a timer makes any calls, in any order, while the dispatch   *)
(* that called it still holds its target, and may run a modal dialog,      *)
(* which dispatches further events meanwhile.                              *)
(***************************************************************************)
EXTENDS TableOps

CONSTANTS
    Windows,     \* the window objects the program may create
    Type,        \* [Windows -> Types]
    Panel,       \* the status panel, created and shown by ftk_init
    None,        \* NULL
    MaxWindows,  \* FTK_MAX_WINDOWS
    MaxGrab,     \* bound: the grab count of a window
    MaxDepth     \* bound: handlers on the stack (1: no modal dialog)

Types == {"window", "dialog", "misc", "menu_panel", "status_panel"}

ASSUME WindowsAssumption == None \notin Windows /\ Panel \in Windows
ASSUME TypeAssumption ==
    /\ Type \in [Windows -> Types]
    /\ \A w \in Windows : Type[w] = "status_panel" <=> w = Panel
ASSUME BoundsAssumption ==
    MaxWindows \in Nat \ {0, 1} /\ MaxGrab \in Nat \ {0} /\ MaxDepth \in Nat \ {0}

VARIABLES
    windows,      \* the stack of managed windows, topmost last
    top_window,   \* the window that was mapped last
    focus_widget, \* the window that gets the keys
    grab_widget,  \* the window that gets the mouse
    visible,      \* per window: shown
    mapped,       \* per window: mapped
    fullscreen,   \* per window: the fullscreen flag
    grab_ref,     \* per window: how many grabs are not released
    grab_child,   \* per window: the child that has the grab, and its state
    ref,          \* per window: reference count, 0 when it is not allocated
    own,          \* per window: does the program still hold its reference?
    title,        \* user data of the status panel's title: what "close" closes
    held,         \* the targets of the dispatches on the call stack
    modals,       \* the dialogs whose ftk_dialog_run is on the call stack
    pressed,      \* is the mouse button, or the stylus, down?
    mode          \* "loop", "handler", "dieing" or "gone"

stack == <<windows, top_window, focus_widget, title, visible, mapped>>
grabs == <<grab_widget, grab_ref, grab_child>>
calls == <<held, modals, mode>>
vars == <<stack, fullscreen, grabs, ref, own, calls, pressed>>

Alive(w) == ref[w] > 0
Managed(w) == \E k \in DOMAIN windows : windows[k] = w

\* The types that compete for the top: an application window, a dialog, or a
\* popup of the input method.
IsMain(w) == Type[w] \in {"window", "dialog", "misc"}

\* The topmost visible main window of the stack ws, or None.
TopVisible(ws, vis) ==
    LET shown == {k \in DOMAIN ws : IsMain(ws[k]) /\ vis[ws[k]]}
    IN IF shown = {} THEN None
       ELSE ws[CHOOSE k \in shown : \A j \in shown : j <= k]

\* ftk_wnd_manager_default_has_fullscreen_win
HasFullscreen(ws, vis, fs, m) ==
    \E k \in DOMAIN ws : vis[ws[k]] /\ fs[ws[k]] /\ m[ws[k]]

\* ftk_wnd_manager_default_map_panels, as ftk_wnd_manager_default_update and a
\* SHOW call it.
PanelsMapped(ws, vis, fs, m) ==
    IF vis[Panel] /\ \E k \in DOMAIN ws : ws[k] = Panel
    THEN [m EXCEPT ![Panel] = ~HasFullscreen(ws, vis, fs, m)]
    ELSE m

\* Mutants: the old top window stays mapped; the focus stays; the title stays.
EmitKeepsMapped(ws, vis, m, f, t) ==
    LET new == TopVisible(ws, vis)
    IN /\ windows' = ws /\ visible' = vis
       /\ top_window' = new
       /\ focus_widget' = IF new = None THEN f ELSE new
       /\ title' = IF new # None /\ Type[new] = "window" THEN new ELSE t
       /\ mapped' = PanelsMapped(ws, vis, fullscreen, [w \in Windows |-> w = new \/ m[w]])
EmitKeepsFocus(ws, vis, m, f, t) ==
    LET new == TopVisible(ws, vis)
        now == [w \in Windows |-> w = new \/ (m[w] /\ w # top_window)]
    IN /\ windows' = ws /\ visible' = vis
       /\ top_window' = new
       /\ focus_widget' = IF f = None THEN new ELSE f
       /\ title' = IF new # None /\ Type[new] = "window" THEN new ELSE t
       /\ mapped' = PanelsMapped(ws, vis, fullscreen, now)
EmitKeepsTitle(ws, vis, m, f, t) ==
    LET new == TopVisible(ws, vis)
        now == [w \in Windows |-> w = new \/ (m[w] /\ w # top_window)]
    IN /\ windows' = ws /\ visible' = vis
       /\ top_window' = new
       /\ focus_widget' = IF new = None THEN f ELSE new
       /\ title' = IF t = None /\ new # None /\ Type[new] = "window" THEN new ELSE t
       /\ mapped' = PanelsMapped(ws, vis, fullscreen, now)

\* ftk_wnd_manager_default_emit_top_wnd_changed over the stack ws, with the flags
\* vis and m, the focus f and the title t, and the update that follows. The old top
\* window gets UNMAP, the new one the focus, the title and MAP. With no window
\* to show, the focus stays; with another type on top, the title stays.
Emit(ws, vis, m, f, t) ==
    LET new == TopVisible(ws, vis)
        now == [w \in Windows |-> w = new \/ (m[w] /\ w # top_window)]
    IN /\ windows' = ws /\ visible' = vis
       /\ top_window' = new
       /\ focus_widget' = IF new = None THEN f ELSE new
       /\ title' = IF new # None /\ Type[new] = "window" THEN new ELSE t
       /\ mapped' = PanelsMapped(ws, vis, fullscreen, now)

(***************************************************************************)
(* The calls of application code.                                          *)
(***************************************************************************)
InHandler == mode = "handler"

\* ftk_window_create and ftk_wnd_manager_default_add: with the stack full the
\* window exists but is not managed. A menu panel is mapped at once.
Create(w) ==
    /\ InHandler
    /\ ~Alive(w)
    /\ ref' = [ref EXCEPT ![w] = 1]
    /\ own' = [own EXCEPT ![w] = TRUE]
    /\ IF Len(windows) + 1 < MaxWindows
       THEN /\ windows' = Append(windows, w)
            /\ mapped' = [mapped EXCEPT ![w] = Type[w] = "menu_panel"]
       ELSE UNCHANGED <<windows, mapped>>
    /\ UNCHANGED <<top_window, focus_widget, title, visible, fullscreen, grabs,
                   calls, pressed>>

\* ftk_widget_show(w, 1): a menu panel grabs the mouse first; then the top window
\* is found again. Only an application window has the panels mapped anew.
Show(w) ==
    /\ Alive(w)
    /\ ~visible[w]
    /\ LET vis == [visible EXCEPT ![w] = TRUE]
           new == TopVisible(windows, vis)
       IN IF Type[w] = "window"
          THEN Emit(windows, vis, mapped, focus_widget, title)
          ELSE /\ visible' = vis
               /\ top_window' = new
               /\ focus_widget' = IF new = None THEN focus_widget ELSE new
               /\ title' = IF new # None /\ Type[new] = "window" THEN new ELSE title
               /\ mapped' = [x \in Windows |-> x = new \/ (mapped[x] /\ x # top_window)]
               /\ UNCHANGED windows
    /\ grab_widget' = IF Type[w] = "menu_panel" THEN w ELSE grab_widget
    /\ UNCHANGED <<grab_ref, grab_child, fullscreen, ref, own, pressed>>

AppShow(w) ==
    /\ InHandler
    /\ Show(w)
    /\ UNCHANGED calls

\* ftk_dialog_run: the dialog is shown, and its loop dispatches from here on.
DialogRun(w) ==
    /\ InHandler
    /\ Len(held) < MaxDepth
    /\ Type[w] = "dialog"
    /\ own[w]
    /\ Show(w)
    /\ modals' = Append(modals, w)
    /\ mode' = "loop"
    /\ UNCHANGED held

\* ftk_widget_show(w, 0): a menu panel gives the mouse back.
Hide(w) ==
    /\ InHandler
    /\ Alive(w) /\ w # Panel
    /\ visible[w]
    /\ Emit(windows, [visible EXCEPT ![w] = FALSE], mapped, focus_widget, title)
    /\ grab_widget' = IF Type[w] = "menu_panel" /\ grab_widget = w THEN None ELSE grab_widget
    /\ UNCHANGED <<fullscreen, grab_ref, grab_child, ref, own, calls, pressed>>

\* The slots of windows without w, if it is there.
Without(w) == IF Managed(w) THEN ShiftDown(windows, FirstSlot(windows, w)) ELSE windows

\* Mutant: ftk_wnd_manager_default_remove leaves the grab alone.
DestroyKeepsGrab(w, t) ==
    /\ fullscreen' = [fullscreen EXCEPT ![w] = FALSE]
    /\ Emit(Without(w), [visible EXCEPT ![w] = FALSE], [mapped EXCEPT ![w] = FALSE],
            IF focus_widget = w THEN None ELSE focus_widget, t)
    /\ grab_ref' = [grab_ref EXCEPT ![w] = 0]
    /\ grab_child' = [grab_child EXCEPT ![w] = "none"]
    /\ UNCHANGED grab_widget

\* Mutant: a window that is destroyed is not hidden first.
DestroyShown(w, t) ==
    /\ fullscreen' = [fullscreen EXCEPT ![w] = FALSE]
    /\ Emit(Without(w), visible, [mapped EXCEPT ![w] = FALSE],
            IF focus_widget = w THEN None ELSE focus_widget, t)
    /\ grab_widget' = IF grab_widget = w THEN None ELSE grab_widget
    /\ grab_ref' = [grab_ref EXCEPT ![w] = 0]
    /\ grab_child' = [grab_child EXCEPT ![w] = "none"]

\* The last reference of w goes: ftk_widget_unref hides a visible window, and
\* ftk_window_destroy has the manager remove it (WND_DESTROY), which clears the
\* focus and the grab that point to it. Both find the top window again; the first
\* finds what the second finds, since a hidden window does not count.
Destroy(w, t) ==
    /\ fullscreen' = [fullscreen EXCEPT ![w] = FALSE]
    /\ Emit(Without(w), [visible EXCEPT ![w] = FALSE], [mapped EXCEPT ![w] = FALSE],
            IF focus_widget = w THEN None ELSE focus_widget, t)
    /\ grab_widget' = IF grab_widget = w THEN None ELSE grab_widget
    /\ grab_ref' = [grab_ref EXCEPT ![w] = 0]
    /\ grab_child' = [grab_child EXCEPT ![w] = "none"]

\* ftk_widget_unref on a window.
Unref(w, t) ==
    /\ ref' = [ref EXCEPT ![w] = @ - 1]
    /\ IF ref[w] = 1
       THEN Destroy(w, t)
       ELSE /\ title' = t
            /\ UNCHANGED <<windows, top_window, focus_widget, visible, mapped, fullscreen, grabs>>

\* The program lets its reference go, once, and not while the dialog is running.
AppUnref(w) ==
    /\ InHandler
    /\ own[w] /\ w # Panel
    /\ \A k \in DOMAIN modals : modals[k] # w
    /\ own' = [own EXCEPT ![w] = FALSE]
    /\ Unref(w, title)
    /\ UNCHANGED <<calls, pressed>>

\* button_close_top_clicked, from a click on the status panel. A pointer that has
\* gone stale, or a window given up already, is the hazard the README describes.
CloseTop ==
    /\ InHandler
    /\ held # <<>> /\ held[Len(held)] = Panel
    /\ title # None
    /\ own[title]
    /\ own' = [own EXCEPT ![title] = FALSE]
    /\ Unref(title, None)
    /\ UNCHANGED <<calls, pressed>>

\* ftk_wnd_manager_default_restack
Restack(w, offset) ==
    /\ InHandler
    /\ Managed(w)
    /\ LET k == FirstSlot(windows, w)
           n == IF k + offset < 1 THEN 1
                ELSE IF k + offset > Len(windows) THEN Len(windows) ELSE k + offset
       IN /\ n # k
          /\ Emit(MoveSlot(windows, k, n), visible, mapped, focus_widget, title)
    /\ UNCHANGED <<fullscreen, grabs, ref, own, calls, pressed>>

\* Mutant: the windows are not laid out again.
SetFullscreenOnly(w) ==
    /\ InHandler
    /\ Alive(w) /\ Type[w] = "window"
    /\ fullscreen' = [fullscreen EXCEPT ![w] = ~@]
    /\ UNCHANGED <<stack, grabs, ref, own, calls, pressed>>

\* ftk_window_set_fullscreen with another value: RELAYOUT_WND maps every panel,
\* then the update unmaps the status panel again under a fullscreen window.
SetFullscreen(w) ==
    /\ InHandler
    /\ Alive(w) /\ Type[w] = "window"
    /\ fullscreen' = [fullscreen EXCEPT ![w] = ~@]
    /\ LET laid == [x \in Windows |-> mapped[x] \/ (Managed(x) /\ ~IsMain(x))]
       IN mapped' = PanelsMapped(windows, visible, fullscreen', laid)
    /\ UNCHANGED <<windows, top_window, focus_widget, title, visible, grabs, ref, own,
                   calls, pressed>>

\* ftk_main_loop_quit on the dialog's loop has taken effect: ftk_dialog_run
\* returns to the handler that called it.
DialogReturn ==
    /\ mode = "loop"
    /\ modals # <<>>
    /\ modals' = SubSeq(modals, 1, Len(modals) - 1)
    /\ mode' = "handler"
    /\ UNCHANGED <<stack, fullscreen, grabs, ref, own, held, pressed>>

(***************************************************************************)
(* ftk_wnd_manager_default_dispatch_event on an input event.               *)
(***************************************************************************)

\* ftk_wnd_manager_find_target: the topmost mapped window under the pointer. Where
\* the pointer is, is left open.
UnderPointer == {None} \cup {w \in Windows : Managed(w) /\ visible[w] /\ mapped[w]}

\* ftk_widget_ref and ftk_widget_event: the handler of the target runs.
Deliver(t) ==
    IF t = None
    THEN UNCHANGED <<ref, calls>>
    ELSE /\ ref' = [ref EXCEPT ![t] = @ + 1]
         /\ held' = Append(held, t)
         /\ mode' = "handler"
         /\ UNCHANGED modals

CanDispatch == mode = "loop" /\ Len(held) < MaxDepth

\* MOUSE_DOWN: without a grab the window under the pointer gets the event and,
\* unless it is the status panel, the focus, which is lost where there is no
\* window. The child that has the window's grab, or the one that is hit, becomes
\* active and takes the grab (ftk_window_grab).
MouseDown(under, hit) ==
    /\ CanDispatch
    /\ ~pressed
    /\ pressed' = TRUE
    /\ LET t == IF grab_widget = None THEN under ELSE grab_widget
       IN /\ focus_widget' = IF grab_widget = None /\ t # Panel THEN t ELSE focus_widget
          /\ IF t # None /\ (hit \/ grab_child[t] # "none")
             THEN /\ grab_ref[t] < MaxGrab
                  /\ grab_ref' = [grab_ref EXCEPT ![t] = @ + 1]
                  /\ grab_child' = [grab_child EXCEPT ![t] = "active"]
                  /\ grab_widget' = t
             ELSE UNCHANGED grabs
          /\ Deliver(t)
    /\ UNCHANGED <<windows, top_window, title, visible, mapped, fullscreen, own>>

\* Mutant: the manager keeps the grab when the window's last grab is released.
UngrabWindowOnly(t) ==
    /\ grab_ref' = [grab_ref EXCEPT ![t] = @ - 1]
    /\ grab_child' = [grab_child EXCEPT ![t] = "none"]
    /\ UNCHANGED grab_widget

\* ftk_window_ungrab from the child that has the grab.
Ungrab(t) ==
    /\ grab_ref' = [grab_ref EXCEPT ![t] = @ - 1]
    /\ grab_child' = [grab_child EXCEPT ![t] = "none"]
    /\ grab_widget' = IF grab_ref[t] = 1 /\ grab_widget = t THEN None ELSE grab_widget

\* MOUSE_UP: the child that has the grab releases it; a button or a check button
\* only while it is active, the other widgets in any case.
MouseUp(under, always) ==
    /\ CanDispatch
    /\ pressed
    /\ pressed' = FALSE
    /\ LET t == IF grab_widget = None THEN under ELSE grab_widget
       IN /\ IF t # None /\ (grab_child[t] = "active" \/ (grab_child[t] = "inactive" /\ always))
             THEN Ungrab(t)
             ELSE UNCHANGED grabs
          /\ Deliver(t)
    /\ UNCHANGED <<stack, fullscreen, own>>

\* A key event, or a long press, goes to the grab, to the focus, or to the topmost
\* window in the stack. A key that moves the focus inside the window makes
\* the child that is pressed inactive (ftk_window_set_focus).
Key(leaves) ==
    /\ CanDispatch
    /\ LET t == IF grab_widget # None THEN grab_widget
                ELSE IF focus_widget # None THEN focus_widget
                ELSE IF windows # <<>> THEN windows[Len(windows)] ELSE None
       IN /\ grab_child' = IF leaves /\ t # None /\ grab_child[t] = "active"
                           THEN [grab_child EXCEPT ![t] = "inactive"] ELSE grab_child
          /\ Deliver(t)
    /\ UNCHANGED <<stack, fullscreen, grab_widget, grab_ref, own, pressed>>

\* A timer, an idle or an fd source runs application code: no target is held.
SourceFires ==
    /\ CanDispatch
    /\ held' = Append(held, None)
    /\ mode' = "handler"
    /\ UNCHANGED <<stack, fullscreen, grabs, ref, own, modals, pressed>>

\* The handler returns, and the dispatch gives its target up.
HandlerReturn ==
    /\ InHandler
    /\ held # <<>>
    /\ LET t == held[Len(held)]
       IN IF t = None
          THEN UNCHANGED <<stack, fullscreen, grabs, ref>>
          ELSE Unref(t, title)
    /\ held' = SubSeq(held, 1, Len(held) - 1)
    /\ mode' = "loop"
    /\ UNCHANGED <<own, modals, pressed>>

(***************************************************************************)
(* ftk_deinit                                                              *)
(***************************************************************************)

\* The outermost loop is over: from now on no event is dispatched.
Deinit ==
    /\ mode = "loop"
    /\ held = <<>>
    /\ mode' = "dieing"
    /\ UNCHANGED <<stack, fullscreen, grabs, ref, own, held, modals, pressed>>

\* ftk_wnd_manager_default_destroy removes and frees the window at the bottom.
DestroyBottom ==
    /\ mode = "dieing"
    /\ windows # <<>>
    /\ LET w == windows[1]
       IN /\ windows' = Without(w)
          /\ focus_widget' = IF focus_widget = w THEN None ELSE focus_widget
          /\ grab_widget' = IF grab_widget = w THEN None ELSE grab_widget
          /\ ref' = [ref EXCEPT ![w] = @ - 1]
          /\ own' = [own EXCEPT ![w] = FALSE]
          /\ visible' = [visible EXCEPT ![w] = FALSE]
          /\ mode' = IF Len(windows) = 1 THEN "gone" ELSE mode
    /\ UNCHANGED <<top_window, title, mapped, fullscreen, grab_ref, grab_child, held,
                   modals, pressed>>

Terminated == mode = "gone" /\ UNCHANGED vars

\* ftk_init has created and shown the status panel; the program's main function
\* goes on to create its windows before the loop runs.
Init ==
    /\ windows = <<Panel>>
    /\ top_window = None /\ focus_widget = None /\ grab_widget = None /\ title = None
    /\ visible = [w \in Windows |-> w = Panel]
    /\ mapped = [w \in Windows |-> w = Panel]
    /\ fullscreen = [w \in Windows |-> FALSE]
    /\ grab_ref = [w \in Windows |-> 0]
    /\ grab_child = [w \in Windows |-> "none"]
    /\ ref = [w \in Windows |-> IF w = Panel THEN 1 ELSE 0]
    /\ own = [w \in Windows |-> w = Panel]
    /\ held = <<None>> /\ modals = <<>>
    /\ pressed = FALSE
    /\ mode = "handler"

Application ==
    \/ \E w \in Windows :
          \/ Create(w) \/ AppShow(w) \/ DialogRun(w) \/ Hide(w) \/ AppUnref(w)
          \/ SetFullscreen(w)
          \/ \E offset \in -MaxWindows .. MaxWindows : Restack(w, offset)
    \/ CloseTop

Input ==
    \/ \E under \in UnderPointer, hit \in BOOLEAN : MouseDown(under, hit)
    \/ \E under \in UnderPointer, always \in BOOLEAN : MouseUp(under, always)
    \/ \E leaves \in BOOLEAN : Key(leaves)
    \/ SourceFires

Next ==
    \/ Application \/ Input
    \/ HandlerReturn \/ DialogReturn
    \/ Deinit \/ DestroyBottom \/ Terminated

Spec == Init /\ [][Next]_vars

(***************************************************************************)
(* Properties                                                              *)
(***************************************************************************)

\* ftk_init is over and ftk_deinit has not begun.
Running == mode \in {"loop", "handler"}

Pointers == Windows \cup {None}

TypeOK ==
    /\ windows \in Seq(Windows)
    /\ top_window \in Pointers /\ focus_widget \in Pointers
    /\ grab_widget \in Pointers /\ title \in Pointers
    /\ visible \in [Windows -> BOOLEAN]
    /\ mapped \in [Windows -> BOOLEAN]
    /\ fullscreen \in [Windows -> BOOLEAN]
    /\ grab_ref \in [Windows -> Nat]
    /\ grab_child \in [Windows -> {"none", "active", "inactive"}]
    /\ ref \in [Windows -> Nat]
    /\ own \in [Windows -> BOOLEAN]
    /\ held \in Seq(Pointers) /\ modals \in Seq(Windows)
    /\ pressed \in BOOLEAN
    /\ mode \in {"loop", "handler", "dieing", "gone"}

\* No window is freed while the manager, or a dispatch or a dialog further down
\* the call stack, still has a pointer to it.
PointersAlive ==
    /\ \A k \in DOMAIN windows : Alive(windows[k])
    /\ \A p \in {focus_widget, grab_widget} : p # None => Alive(p)
    /\ (Running /\ top_window # None) => Alive(top_window)
    /\ \A k \in DOMAIN held : held[k] # None => Alive(held[k])
    /\ \A k \in DOMAIN modals : Alive(modals[k])

\* "find the topest app/dialog window": whatever was shown, hidden, restacked or
\* closed, the one mapped main window is the topmost visible one.
OneMapped ==
    Running =>
        /\ top_window = TopVisible(windows, visible)
        /\ \A w \in Windows : IsMain(w) /\ mapped[w] => w = top_window

\* Keys never go to a hidden window while there is one to show.
FocusFollowsTop ==
    Running /\ focus_widget # None /\ top_window # None => visible[focus_widget]

\* The status panel is mapped over an application window exactly when that window
\* leaves room for it.
PanelFollowsFullscreen ==
    (Running /\ top_window # None /\ Type[top_window] = "window")
        => mapped[Panel] = ~fullscreen[top_window]

\* The close button in the status panel closes the window whose title it shows:
\* never one that is gone, or one that is covered, while a window is on top.
CloseButtonClosesTop ==
    (Running /\ top_window # None /\ Type[top_window] = "window")
        => title \in {top_window, None}

\* The manager's grab and the window's count of grabs agree: no window keeps the
\* mouse without a child that asked for it, and no child loses the rest of its click.
GrabPaired ==
    /\ \A w \in Windows :
          Alive(w) /\ grab_ref[w] > 0 /\ Running => grab_widget = w
    /\ grab_widget # None => grab_ref[grab_widget] > 0

\* With a menu panel, which takes the mouse from whoever has it: a grab is still
\* backed by a child's grab or by the menu being shown.
GrabJustified ==
    grab_widget # None =>
        \/ grab_ref[grab_widget] > 0
        \/ Type[grab_widget] = "menu_panel" /\ visible[grab_widget]

\* The screen, as the program sees it: the panels do not compete for it.
MainWindows == {w \in Windows : IsMain(w)}
Living == {w \in MainWindows : Alive(w)}
ShownWindows == {w \in MainWindows : visible[w]}
OnScreen == {w \in ShownWindows : mapped[w]}

Scr == INSTANCE Screen WITH
           Mains <- MainWindows, exists <- Living, shown <- ShownWindows, onscreen <- OnScreen

\* Whatever is in the stack and in which order its events are sent, the manager keeps
\* the promise of Screen, up to the end of ftk_deinit.
ImplementsScreen == Scr!Spec

=============================================================================
