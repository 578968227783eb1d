---------------------------- MODULE MCWndManager ----------------------------
(***************************************************************************)
(* Instances of WndManager for TLC: the type of a window follows from its  *)
(* name.                                                                   *)
(***************************************************************************)
EXTENDS WndManager

CONSTANTS panel, appA, appB, dlg, popup, menu

MCType ==
    [w \in Windows |->
        CASE w = panel -> "status_panel"
          [] w = dlg -> "dialog"
          [] w = popup -> "misc"
          [] w = menu -> "menu_panel"
          [] OTHER -> "window"]

=============================================================================
