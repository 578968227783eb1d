----------------------------- MODULE SourceLife -----------------------------
(***************************************************************************)
(* What a widget may rely on when it hands a source to the main loop       *)
(* (ftk_source.h, ftk_main_loop.h). A source exists as long as somebody    *)
(* holds it: its owner, a request to put it in the table, a slot of the    *)
(* table, or a request that was turned down. It gets into the table only   *)
(* on request, once for each, and its action is run only from the table    *)
(* and only while its owner wants it, but may then go on for longer.       *)
(*                                                                         *)
(* Nothing here counts references, disables sources or knows of a pipe:    *)
(* MainLoop implements this specification for all its sources, and         *)
(* WindowUpdate for the repaint idle.                                      *)
(***************************************************************************)
EXTENDS Naturals, Sequences

CONSTANTS
    Sources,   \* the sources
    Resident   \* those that are in the table from the beginning

VARIABLES
    exists,    \* is the source allocated?
    owned,     \* does its owner hold it?
    wanted,    \* is it to be served?
    asked,     \* the requests to put it in the table that are on their way
    slots,     \* the slots of the table that it has
    lost,      \* the requests that were turned down; what they hold is never let go
    serving    \* the sources whose actions are running, innermost last

vars == <<exists, owned, wanted, asked, slots, lost, serving>>

Held(s) == owned[s] \/ asked[s] > 0 \/ slots[s] > 0 \/ lost[s] > 0

\* After a step that is about s alone, s exists if it is held.
KeptIfHeld(s) == exists' = [exists EXCEPT ![s] = Held(s)']

\* A source that does not exist is created, for its owner, for the table or for both.
Create(s, forOwner, forTable) ==
    /\ ~exists[s]
    /\ forOwner \/ forTable
    /\ owned' = [owned EXCEPT ![s] = forOwner]
    /\ wanted' = [wanted EXCEPT ![s] = forTable]
    /\ asked' = [asked EXCEPT ![s] = IF forTable THEN 1 ELSE 0]
    /\ KeptIfHeld(s)
    /\ UNCHANGED <<slots, lost, serving>>

\* Its owner asks for it to be served.
Start(s) ==
    /\ owned[s]
    /\ wanted' = [wanted EXCEPT ![s] = TRUE]
    /\ asked' = [asked EXCEPT ![s] = @ + 1]
    /\ UNCHANGED <<exists, owned, slots, lost, serving>>

\* Its owner wants it no longer. One that was created for the table alone can be
\* stopped by a widget that does not hold it.
Stop(s) ==
    /\ wanted' = [wanted EXCEPT ![s] = FALSE]
    /\ UNCHANGED <<exists, owned, asked, slots, lost, serving>>

\* Its owner gives it up.
LetGo(s) ==
    /\ owned[s]
    /\ owned' = [owned EXCEPT ![s] = FALSE]
    /\ wanted' = [wanted EXCEPT ![s] = FALSE]
    /\ KeptIfHeld(s)
    /\ UNCHANGED <<asked, slots, lost, serving>>

\* A request is met, or turned down.
Enter(s) ==
    /\ asked[s] > 0
    /\ asked' = [asked EXCEPT ![s] = @ - 1]
    /\ \/ slots' = [slots EXCEPT ![s] = @ + 1] /\ lost' = lost
       \/ lost' = [lost EXCEPT ![s] = @ + 1] /\ slots' = slots
    /\ UNCHANGED <<exists, owned, wanted, serving>>

\* It loses a slot.
Leave(s) ==
    /\ slots[s] > 0
    /\ slots' = [slots EXCEPT ![s] = @ - 1]
    /\ KeptIfHeld(s)
    /\ UNCHANGED <<owned, wanted, asked, lost>>

\* Its action begins. One that calls nothing back is over at once, and not seen here.
Serve(s) ==
    /\ wanted[s] /\ slots[s] > 0
    /\ serving' = Append(serving, s)
    /\ UNCHANGED <<exists, owned, wanted, asked, slots, lost>>

\* The innermost action ends. If it has failed, the source loses a slot, should it
\* still have one.
Served ==
    /\ serving # <<>>
    /\ serving' = SubSeq(serving, 1, Len(serving) - 1)
    /\ \/ UNCHANGED <<exists, owned, wanted, asked, slots, lost>>
       \/ \E s \in Sources : s = serving[Len(serving)] /\ Leave(s)

\* The table is given up, with all its slots.
CloseTable ==
    /\ slots' = [s \in Sources |-> 0]
    /\ exists' = [s \in Sources |-> Held(s)']
    /\ UNCHANGED <<owned, wanted, asked, lost, serving>>

Init ==
    /\ exists = [s \in Sources |-> s \in Resident]
    /\ owned = [s \in Sources |-> FALSE]
    /\ wanted = [s \in Sources |-> s \in Resident]
    /\ asked = [s \in Sources |-> 0]
    /\ slots = [s \in Sources |-> IF s \in Resident THEN 1 ELSE 0]
    /\ lost = [s \in Sources |-> 0]
    /\ serving = <<>>

OwnerStep(s) ==
    \/ \E forOwner, forTable \in BOOLEAN : Create(s, forOwner, forTable)
    \/ Start(s) \/ Stop(s) \/ LetGo(s)

TableStep(s) ==
    \/ Enter(s)
    \/ Leave(s) /\ UNCHANGED serving
    \/ Serve(s)

Next ==
    \/ \E s \in Sources : OwnerStep(s) \/ TableStep(s)
    \/ Served
    \/ CloseTable

Spec == Init /\ [][Next]_vars

=============================================================================
