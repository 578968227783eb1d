------------------------------- MODULE Screen -------------------------------
(***************************************************************************)
(* What a window may rely on when it leaves the screen to the window       *)
(* manager (ftk_wnd_manager.h), and what WindowUpdate takes for granted.   *)
(* One main window at most is on the screen, and it is one that is shown.  *)
(* What the program does to one window moves another only to make room for *)
(* it or to take its place: to create, hide or destroy a window that is    *)
(* not on the screen changes nothing there, and a window that is shown     *)
(* comes on the screen or stays below the one that is there.               *)
(*                                                                         *)
(* Nothing here knows of a stack, of panels, of references or of events.   *)
(***************************************************************************)
EXTENDS FiniteSets

CONSTANT Mains   \* the windows that compete for the screen

VARIABLES
    exists,    \* the windows that have been created and not destroyed
    shown,     \* ... that the program has shown and not hidden
    onscreen   \* ... that are on the screen

vars == <<exists, shown, onscreen>>

\* What may be on the screen when the windows in S are shown.
Views(S) == {{}} \cup {{w} : w \in S}

\* The window w is not shown any more. If it was on the screen another one that is
\* shown may take its place.
Leave(w) ==
    /\ shown' = shown \ {w}
    /\ onscreen' \in IF w \in onscreen THEN Views(shown \ {w}) ELSE {onscreen}

Create(w) ==
    /\ w \notin exists
    /\ exists' = exists \cup {w}
    /\ UNCHANGED <<shown, onscreen>>

Show(w) ==
    /\ w \in exists \ shown
    /\ shown' = shown \cup {w}
    /\ onscreen' \in {onscreen, {w}}
    /\ UNCHANGED exists

Hide(w) ==
    /\ w \in shown
    /\ Leave(w)
    /\ UNCHANGED exists

Destroy(w) ==
    /\ w \in exists
    /\ exists' = exists \ {w}
    /\ Leave(w)

\* The order of the windows changes: another one may come on the screen, which never
\* gets empty by it.
Restack ==
    /\ onscreen # {}
    /\ \E w \in shown : onscreen' = {w}
    /\ UNCHANGED <<exists, shown>>

Init == exists = {} /\ shown = {} /\ onscreen = {}

Next == \/ \E w \in Mains : Create(w) \/ Show(w) \/ Hide(w) \/ Destroy(w)
        \/ Restack

Spec == Init /\ [][Next]_vars

=============================================================================
