----------------------------- MODULE MCMainLoop -----------------------------
(***************************************************************************)
(* Instances of MainLoop for TLC. Each configuration names the clients it  *)
(* wants; what owns a client and which vtable it has follows from its      *)
(* name.                                                                   *)
(***************************************************************************)
EXTENDS MainLoop

CONSTANTS primary, longPress, entry, textView, waitBox, dialog, marquee,
          fdSource, idleSource, appTimer

MCOwner ==
    [s \in Clients |->
        CASE s = longPress -> "long_press"
          [] s = entry -> "entry"
          [] s = textView -> "text_view"
          [] s = waitBox -> "wait_box"
          [] s = dialog -> "dialog"
          [] s = marquee -> "marquee"
          [] OTHER -> "adopted"]

MCKind ==
    [s \in Clients |-> IF s = fdSource THEN "fd"
                       ELSE IF s = idleSource THEN "idle" ELSE "timer"]

=============================================================================
