------------------------- MODULE WndManager_proofs --------------------------
(***************************************************************************)
(* What WndManager promises of the stack, of the pointers, of the focus    *)
(* and of the grab holds for any windows and bounds. The inductive         *)
(* invariant counts: the references of a window are its program's and one  *)
(* for each dispatch that holds it (CountOK), so that a window goes only   *)
(* when nothing on the call stack knows it; and what the operations find   *)
(* in the manager then never is a window that has gone (GoneOK). With it   *)
(* an operation that finds the top window again repairs all that hangs on  *)
(* it (TopOK).                                                             *)
(***************************************************************************)
EXTENDS WndManager, TableOps_proofs

-----------------------------------------------------------------------------
(* The top window.                                                         *)

Shown(vis, w) == IsMain(w) /\ vis[w]

(* p is what the search for the top window of ws ends at. *)
IsTop(ws, vis, p) ==
    \/ p = None /\ \A k \in DOMAIN ws : ~Shown(vis, ws[k])
    \/ \E k \in DOMAIN ws :
        /\ p = ws[k] /\ Shown(vis, ws[k])
        /\ \A j \in DOMAIN ws : Shown(vis, ws[j]) => j <= k

(* The search ends. *)
LEMMA TopFound ==
    ASSUME NEW ws \in Seq(Windows), NEW vis
    PROVE  IsTop(ws, vis, TopVisible(ws, vis))
<1> DEFINE shown == {k \in DOMAIN ws : IsMain(ws[k]) /\ vis[ws[k]]}
           last == CHOOSE k \in shown : \A j \in shown : j <= k
<1>1. CASE shown = {}
  <2>1. TopVisible(ws, vis) = None
    BY <1>1 DEF TopVisible
  <2> QED BY <1>1, <2>1 DEF IsTop, Shown
<1>2. CASE shown # {}
  <2>1. Len(ws) \in Nat /\ shown \in SUBSET (1 .. Len(ws))
    OBVIOUS
  <2>2. \E k \in shown : \A j \in shown : j <= k
    BY <1>2, <2>1, LastOf
  <2>3. last \in shown /\ \A j \in shown : j <= last
    BY <2>2
  <2>4. TopVisible(ws, vis) = ws[last]
    BY <1>2 DEF TopVisible
  <2> HIDE DEF last
  <2> QED BY <2>3, <2>4 DEF IsTop, Shown
<1> QED BY <1>1, <1>2

(* It has one end only. *)
LEMMA TopIs ==
    ASSUME NEW ws \in Seq(Windows), NEW vis, NEW p, IsTop(ws, vis, p)
    PROVE  TopVisible(ws, vis) = p
<1> DEFINE t == TopVisible(ws, vis)
<1>1. IsTop(ws, vis, t)
  BY TopFound
<1> HIDE DEF t
<1>2. DOMAIN ws \subseteq Int
  OBVIOUS
<1>3. CASE \A k \in DOMAIN ws : ~Shown(vis, ws[k])
  BY <1>1, <1>3 DEF IsTop, t
<1>4. CASE \E k \in DOMAIN ws : Shown(vis, ws[k])
  <2>1. PICK k \in DOMAIN ws : p = ws[k] /\ Shown(vis, ws[k])
                /\ \A j \in DOMAIN ws : Shown(vis, ws[j]) => j <= k
    BY <1>4 DEF IsTop
  <2>2. PICK i \in DOMAIN ws : t = ws[i] /\ Shown(vis, ws[i])
                /\ \A j \in DOMAIN ws : Shown(vis, ws[j]) => j <= i
    BY <1>1, <1>4 DEF IsTop
  <2>3. i = k
    BY <1>2, <2>1, <2>2
  <2> QED BY <2>1, <2>2, <2>3 DEF t
<1> QED BY <1>3, <1>4

(* The top window is a main window, managed and shown; there is one if any is. *)
LEMMA TopFacts ==
    ASSUME NEW ws \in Seq(Windows), NEW vis, NEW t, t = TopVisible(ws, vis)
    PROVE  /\ t \in Pointers
           /\ t # None => t \in Windows /\ Holds(ws, t) /\ IsMain(t) /\ vis[t]
           /\ \A w : Holds(ws, w) /\ Shown(vis, w) => t # None
<1>1. IsTop(ws, vis, t)
  BY TopFound
<1>2. \A k \in DOMAIN ws : ws[k] \in Windows
  OBVIOUS
<1>3. None \notin Windows
  BY WindowsAssumption
<1> QED BY <1>1, <1>2, <1>3 DEF IsTop, Holds, Shown, Pointers

(* A window that is shown goes on top or changes nothing. *)
LEMMA TopOfShown ==
    ASSUME NEW ws \in Seq(Windows), NEW vis \in [Windows -> BOOLEAN],
           NEW w \in Windows
    PROVE  TopVisible(ws, [vis EXCEPT ![w] = TRUE]) \in {w, TopVisible(ws, vis)}
<1> DEFINE v == [vis EXCEPT ![w] = TRUE]
           t == TopVisible(ws, v)
<1>1. IsTop(ws, v, t)
  BY TopFound
<1>2. \A k \in DOMAIN ws : ws[k] \in Windows
  OBVIOUS
<1>3. \A k \in DOMAIN ws : Shown(vis, ws[k]) => Shown(v, ws[k])
  BY <1>2 DEF Shown
<1>4. \A k \in DOMAIN ws : Shown(v, ws[k]) /\ ws[k] # w => Shown(vis, ws[k])
  BY <1>2 DEF Shown
<1> HIDE DEF v, t
<1>5. t # w => IsTop(ws, vis, t)
  BY <1>1, <1>3, <1>4 DEF IsTop
<1> QED BY <1>5, TopIs DEF t, v

(* A window that is not shown does not count where it is appended. *)
LEMMA TopOfAppended ==
    ASSUME NEW ws \in Seq(Windows), NEW vis, NEW w \in Windows, ~vis[w]
    PROVE  TopVisible(Append(ws, w), vis) = TopVisible(ws, vis)
<1> DEFINE a == Append(ws, w)
           t == TopVisible(ws, vis)
<1>1. IsTop(ws, vis, t)
  BY TopFound
<1>2. a \in Seq(Windows) /\ DOMAIN a = 1 .. (Len(ws) + 1) /\ DOMAIN ws = 1 .. Len(ws)
  OBVIOUS
<1>3. \A k \in DOMAIN ws : k \in DOMAIN a /\ a[k] = ws[k]
  BY <1>2
<1>4. \A k \in DOMAIN a : Shown(vis, a[k]) => k \in DOMAIN ws
  <2>1. a[Len(ws) + 1] = w
    OBVIOUS
  <2>2. \A k \in DOMAIN a : k \in DOMAIN ws \/ k = Len(ws) + 1
    BY <1>2
  <2> QED BY <2>1, <2>2 DEF Shown
<1> HIDE DEF a, t
<1>5. IsTop(a, vis, t)
  BY <1>1, <1>3, <1>4 DEF IsTop
<1> QED BY <1>2, <1>5, TopIs DEF a, t

-----------------------------------------------------------------------------
(* The inductive invariant.                                                *)

(* The references of a window, and the dialogs and dispatches on the stack. *)
CountOK ==
    /\ \A w \in Windows : ref[w] = (IF own[w] THEN 1 ELSE 0) + Occ(held, w)
    /\ Len(held) = Len(modals) + (IF mode = "handler" THEN 1 ELSE 0)
    /\ \A k \in DOMAIN modals : Type[modals[k]] = "dialog" /\ own[modals[k]]
    /\ ~Running => held = <<>>

(* Of a window that is gone the manager knows nothing. *)
GoneOK ==
    /\ \A w \in Windows : ~Alive(w) => ~Managed(w) /\ focus_widget # w /\ grab_widget # w
    /\ \A w \in Windows : Running /\ ~Alive(w) =>
        ~visible[w] /\ ~mapped[w] /\ ~fullscreen[w] /\ grab_ref[w] = 0

(* A child that has a grab is counted, and the grab has its reason. *)
GrabOK ==
    /\ \A w \in Windows : grab_child[w] # "none" => grab_ref[w] > 0
    /\ GrabJustified

(* What hangs on the top window. *)
TopOK ==
    /\ top_window = TopVisible(windows, visible)
    /\ \A w \in Windows : IsMain(w) /\ mapped[w] => w = top_window
    /\ top_window # None => mapped[top_window]
    /\ focus_widget # None /\ top_window # None => visible[focus_widget]
    /\ title # None => Type[title] = "window"
    /\ top_window # None /\ Type[top_window] = "window" => title \in {top_window, None}
    /\ top_window # None /\ Type[top_window] = "window" =>
        (mapped[Panel] <=> ~fullscreen[top_window])

(* The status panel stays, and only an application window is fullscreen. *)
PanelOK ==
    /\ own[Panel] /\ Managed(Panel) /\ visible[Panel]
    /\ \A w \in Windows : fullscreen[w] => Type[w] = "window"

IInv ==
    /\ TypeOK
    /\ NoRepeat(windows)
    /\ CountOK
    /\ GoneOK
    /\ GrabOK
    /\ Running => TopOK /\ PanelOK

(* A status panel and a menu panel do not compete for the top. *)
LEMMA PanelType == Panel \in Windows /\ Type[Panel] = "status_panel" /\ ~IsMain(Panel)
BY WindowsAssumption, TypeAssumption DEF IsMain

(* The status panel is mapped unless the window on top is fullscreen. *)
LEMMA PanelFacts ==
    ASSUME NEW ws \in Seq(Windows), NEW vis, NEW fs, NEW m \in [Windows -> BOOLEAN],
           NEW p, p = TopVisible(ws, vis),
           Holds(ws, Panel), vis[Panel],
           \A w \in Windows : fs[w] => Type[w] = "window",
           \A w \in Windows : IsMain(w) => (m[w] <=> w = p)
    PROVE  /\ PanelsMapped(ws, vis, fs, m) \in [Windows -> BOOLEAN]
           /\ \A w \in Windows : w # Panel => PanelsMapped(ws, vis, fs, m)[w] = m[w]
           /\ PanelsMapped(ws, vis, fs, m)[Panel] <=> ~(p # None /\ fs[p])
<1> DEFINE has == HasFullscreen(ws, vis, fs, m)
<1>1. p # None => p \in Windows /\ Holds(ws, p) /\ IsMain(p) /\ vis[p]
  BY TopFacts
<1>2. has \in BOOLEAN
  BY DEF HasFullscreen
<1>3. has => p # None /\ fs[p]
  <2> SUFFICES ASSUME has PROVE p # None /\ fs[p]
    OBVIOUS
  <2>1. PICK k \in DOMAIN ws : fs[ws[k]] /\ m[ws[k]]
    BY DEF HasFullscreen
  <2>2. ws[k] \in Windows /\ IsMain(ws[k])
    BY <2>1 DEF IsMain
  <2> QED BY <2>1, <2>2, WindowsAssumption
<1>4. p # None /\ fs[p] => has
  BY <1>1 DEF HasFullscreen, Holds
<1>5. PanelsMapped(ws, vis, fs, m) = [m EXCEPT ![Panel] = ~has]
  BY DEF PanelsMapped, Holds
<1> HIDE DEF has
<1> QED BY <1>2, <1>3, <1>4, <1>5, PanelType

(***************************************************************************)
(* The facts about the stack that emitting TOP_WND_CHANGED starts from: m  *)
(* maps no main window but the old top, and the flags of a fullscreen      *)
(* window change only when it is hidden.                                   *)
(***************************************************************************)
LEMMA EmitFacts ==
    ASSUME NEW ws \in Seq(Windows), NEW vis \in [Windows -> BOOLEAN],
           NEW m \in [Windows -> BOOLEAN], NEW f \in Pointers, NEW t \in Pointers,
           Emit(ws, vis, m, f, t),
           \A w \in Windows : IsMain(w) /\ m[w] => w = top_window,
           t # None => Type[t] = "window",
           Holds(ws, Panel), vis[Panel],
           \A w \in Windows : fullscreen[w] => Type[w] = "window",
           fullscreen \in [Windows -> BOOLEAN],
           \A w \in Windows : vis[w] => (fullscreen'[w] <=> fullscreen[w])
    PROVE  /\ TopOK'
           /\ windows' = ws /\ visible' = vis
           /\ top_window' \in Pointers /\ focus_widget' \in Pointers /\ title' \in Pointers
           /\ mapped' \in [Windows -> BOOLEAN]
           /\ focus_widget' # f => Holds(ws, focus_widget')
           /\ \A w \in Windows : mapped'[w] => m[w] \/ Holds(ws, w)
<1> DEFINE new == TopVisible(ws, vis)
           now == [w \in Windows |-> w = new \/ (m[w] /\ w # top_window)]
<1>1. /\ windows' = ws /\ visible' = vis
      /\ top_window' = new
      /\ focus_widget' = IF new = None THEN f ELSE new
      /\ title' = IF new # None /\ Type[new] = "window" THEN new ELSE t
      /\ mapped' = PanelsMapped(ws, vis, fullscreen, now)
  BY DEF Emit
<1>2. /\ new \in Pointers
      /\ new # None => new \in Windows /\ Holds(ws, new) /\ IsMain(new) /\ vis[new]
  BY TopFacts
<1>3. now \in [Windows -> BOOLEAN] /\ \A w \in Windows : IsMain(w) => (now[w] <=> w = new)
  OBVIOUS
<1> HIDE DEF new, now
<1>4. new = TopVisible(ws, vis)
  BY DEF new
<1>5. /\ mapped' \in [Windows -> BOOLEAN]
      /\ \A w \in Windows : w # Panel => mapped'[w] = now[w]
      /\ mapped'[Panel] <=> ~(new # None /\ fullscreen[new])
  BY <1>1, <1>3, <1>4, PanelFacts
<1>6. mapped' \in [Windows -> BOOLEAN]
  BY <1>5
<1>7. \A w \in Windows : w # Panel => mapped'[w] = now[w]
  BY <1>5
<1>8. \A w \in Windows : IsMain(w) => (mapped'[w] <=> w = new)
  BY <1>3, <1>7, PanelType
<1>9. ASSUME new # None PROVE mapped'[Panel] <=> ~fullscreen'[new]
  <2>1. fullscreen'[new] <=> fullscreen[new]
    BY <1>2, <1>9
  <2>2. mapped'[Panel] <=> ~fullscreen'[new]
    BY <1>5, <1>9, <2>1
  <2> QED BY <2>2
<1>10. TopOK'
  <2>1. top_window' = TopVisible(windows', visible')
    BY <1>1 DEF new
  <2>2. \A w \in Windows : IsMain(w) /\ mapped'[w] => w = top_window'
    BY <1>1, <1>8
  <2>3. top_window' # None => mapped'[top_window']
    BY <1>1, <1>2, <1>8
  <2>4. focus_widget' # None /\ top_window' # None => visible'[focus_widget']
    BY <1>1, <1>2
  <2>5. title' # None => Type[title'] = "window"
    BY <1>1
  <2>6. top_window' # None /\ Type[top_window'] = "window" => title' \in {top_window', None}
    BY <1>1
  <2>7. top_window' # None => (mapped'[Panel] <=> ~fullscreen'[top_window'])
    BY <1>1, <1>9
  <2>8. TopVisible(windows, visible)' = TopVisible(windows', visible')
    BY DEF TopVisible, IsMain
  <2> QED BY <2>1, <2>2, <2>3, <2>4, <2>5, <2>6, <2>7, <2>8 DEF TopOK, IsMain
<1>11. \A w \in Windows : mapped'[w] => m[w] \/ Holds(ws, w)
  <2>1. \A w \in Windows : now[w] => m[w] \/ w = new
    BY DEF now
  <2>2. \A w \in Windows : w = new => Holds(ws, w)
    BY <1>2, WindowsAssumption
  <2> QED BY <1>7, <2>1, <2>2
<1> QED BY <1>1, <1>2, <1>6, <1>10, <1>11

(* What the manager and the call stack point to is alive. *)
LEMMA AliveFacts ==
    ASSUME IInv
    PROVE  /\ \A w \in Windows : Managed(w) => Alive(w)
           /\ \A p \in {focus_widget, grab_widget} : p # None => p \in Windows /\ Alive(p)
           /\ \A w \in Windows : own[w] => Alive(w)
           /\ \A k \in DOMAIN held : held[k] # None => held[k] \in Windows /\ Alive(held[k])
           /\ \A w \in Windows : Occ(held, w) \in Nat
<1>1. TypeOK /\ GoneOK /\ CountOK
  BY DEF IInv
<1>2. \A w \in Windows : Managed(w) => Alive(w)
  BY <1>1 DEF GoneOK
<1>3. \A p \in {focus_widget, grab_widget} : p # None => p \in Windows /\ Alive(p)
  BY <1>1 DEF GoneOK, TypeOK, Pointers
<1>4. \A w \in Windows :
        /\ Occ(held, w) \in Nat
        /\ Occ(held, w) = 0 <=> \A k \in DOMAIN held : held[k] # w
  BY <1>1, OccType DEF TypeOK
<1>5. ASSUME NEW w \in Windows, own[w] PROVE Alive(w)
  <2>1. ref[w] = 1 + Occ(held, w)
    BY <1>1, <1>5 DEF CountOK
  <2> QED BY <1>4, <2>1 DEF Alive
<1>6. ASSUME NEW k \in DOMAIN held, held[k] # None PROVE held[k] \in Windows /\ Alive(held[k])
  <2>1. held[k] \in Windows
    BY <1>1, <1>6 DEF TypeOK, Pointers
  <2>2. Occ(held, held[k]) \in Nat /\ Occ(held, held[k]) # 0
    BY <1>4, <2>1
  <2>3. ref[held[k]] = (IF own[held[k]] THEN 1 ELSE 0) + Occ(held, held[k])
    BY <1>1, <2>1 DEF CountOK
  <2> QED BY <2>1, <2>2, <2>3 DEF Alive
<1> QED BY <1>2, <1>3, <1>4, <1>5, <1>6

(* What is managed, as the lemmas about tables say it. *)
LEMMA ManagedHolds == \A w : Managed(w) <=> Holds(windows, w)
BY DEF Managed, Holds

LEMMA ManagedHoldsPrime == \A w : Managed(w)' <=> Holds(windows', w)
BY DEF Managed, Holds

(* Counts stay where nothing that they depend on changes. *)
LEMMA CountKept ==
    ASSUME IInv, UNCHANGED <<ref, own, held, modals, mode>>
    PROVE  CountOK'
BY DEF IInv, CountOK, Running

-----------------------------------------------------------------------------
(* Windows come, are shown and hidden, and go.                             *)

(* A new window has no part in anything yet. *)
LEMMA CreateStep ==
    ASSUME IInv, NEW w \in Windows, Create(w)
    PROVE  IInv'
<1>1. /\ TypeOK /\ NoRepeat(windows) /\ CountOK /\ GoneOK /\ GrabOK /\ TopOK /\ PanelOK
      /\ Running /\ mode' = mode
  BY DEF IInv, Create, InHandler, Running, calls
<1>2. /\ ref[w] = 0 /\ ~visible[w] /\ ~mapped[w] /\ ~Managed(w)
      /\ ref' = [ref EXCEPT ![w] = 1] /\ own' = [own EXCEPT ![w] = TRUE]
  BY <1>1 DEF Create, Alive, GoneOK, TypeOK
<1>3. /\ top_window' = top_window /\ focus_widget' = focus_widget /\ title' = title
      /\ visible' = visible /\ fullscreen' = fullscreen
      /\ grab_widget' = grab_widget /\ grab_ref' = grab_ref /\ grab_child' = grab_child
      /\ held' = held /\ modals' = modals /\ pressed' = pressed
  BY DEF Create, grabs, calls
<1>4. \/ /\ windows' = Append(windows, w)
         /\ mapped' = [mapped EXCEPT ![w] = Type[w] = "menu_panel"]
      \/ windows' = windows /\ mapped' = mapped
  BY DEF Create
<1>5. /\ windows' \in Seq(Windows) /\ NoRepeat(windows')
      /\ \A x \in Windows : Managed(x)' => Managed(x) \/ x = w
      /\ \A x \in Windows : Managed(x) => Managed(x)'
      /\ TopVisible(windows', visible) = TopVisible(windows, visible)
  <2>1. windows \in Seq(Windows) /\ ~Holds(windows, w)
    BY <1>1, <1>2, ManagedHolds DEF TypeOK
  <2>2. /\ Append(windows, w) \in Seq(Windows) /\ NoRepeat(Append(windows, w))
        /\ \A x : Holds(Append(windows, w), x) <=> Holds(windows, x) \/ x = w
    BY <1>1, <2>1, AppendHolds
  <2>3. TopVisible(Append(windows, w), visible) = TopVisible(windows, visible)
    BY <1>2, <2>1, TopOfAppended
  <2>4. CASE windows' = Append(windows, w)
    BY <2>2, <2>3, <2>4, ManagedHolds, ManagedHoldsPrime
  <2>5. CASE windows' = windows
    BY <1>1, <2>1, <2>5, ManagedHolds, ManagedHoldsPrime
  <2> QED BY <1>4, <2>4, <2>5
<1>6. /\ mapped' \in [Windows -> BOOLEAN]
      /\ \A x \in Windows : x # w => mapped'[x] = mapped[x]
      /\ IsMain(w) => ~mapped'[w]
  BY <1>1, <1>2, <1>4 DEF TypeOK, IsMain
<1>7. /\ ref' \in [Windows -> Nat] /\ own' \in [Windows -> BOOLEAN]
      /\ ref'[w] = 1 /\ own'[w]
      /\ \A x \in Windows : x # w => ref'[x] = ref[x] /\ own'[x] = own[x]
  BY <1>1, <1>2 DEF TypeOK
<1>8. TypeOK'
  BY <1>1, <1>3, <1>5, <1>6, <1>7 DEF TypeOK
<1>9. CountOK'
  <2>1. Occ(held, w) = 0 /\ own[w] = FALSE
    <3>1. Occ(held, w) \in Nat /\ ref[w] = (IF own[w] THEN 1 ELSE 0) + Occ(held, w)
      BY <1>1, AliveFacts DEF CountOK
    <3> QED BY <1>1, <1>2, <3>1 DEF TypeOK
  <2>2. \A x \in Windows : ref'[x] = (IF own'[x] THEN 1 ELSE 0) + Occ(held, x)
    BY <1>1, <1>7, <2>1 DEF CountOK
  <2>3. \A k \in DOMAIN modals : modals[k] \in Windows
    BY <1>1 DEF TypeOK
  <2>4. \A k \in DOMAIN modals : Type[modals[k]] = "dialog" /\ own'[modals[k]]
    BY <1>1, <1>7, <2>3 DEF CountOK
  <2> QED BY <1>1, <1>3, <2>2, <2>4 DEF CountOK, Running
<1>10. GoneOK'
  <2>1. \A x \in Windows : ~Alive(x)' => x # w /\ ~Alive(x)
    BY <1>7 DEF Alive
  <2>2. ASSUME NEW x \in Windows, x # w, ~Alive(x)
        PROVE  /\ ~Managed(x) /\ focus_widget # x /\ grab_widget # x
               /\ ~visible[x] /\ ~mapped[x] /\ ~fullscreen[x] /\ grab_ref[x] = 0
    BY <1>1, <2>2 DEF GoneOK
  <2>3. ASSUME NEW x \in Windows, x # w, ~Alive(x)
        PROVE  /\ ~Managed(x)' /\ focus_widget' # x /\ grab_widget' # x
               /\ ~visible'[x] /\ ~mapped'[x] /\ ~fullscreen'[x] /\ grab_ref'[x] = 0
    <3>1. ~Managed(x)'
      BY <1>5, <2>2, <2>3
    <3> QED BY <1>3, <1>6, <2>2, <2>3, <3>1
  <2> QED BY <2>1, <2>3 DEF GoneOK
<1>11. GrabOK'
  BY <1>1, <1>3 DEF GrabOK, GrabJustified
<1>12. top_window # None => top_window \in Windows /\ top_window # w /\ IsMain(top_window)
  BY <1>1, <1>2, TopFacts, ManagedHolds DEF TopOK, TypeOK
<1>13. TopVisible(windows, visible)' = TopVisible(windows', visible')
  BY DEF TopVisible, IsMain
<1>14. Panel # w
  BY <1>1, <1>2 DEF PanelOK
<1>15. TopOK'
  BY <1>1, <1>3, <1>5, <1>6, <1>12, <1>13, <1>14, PanelType DEF TopOK, IsMain
<1>16. PanelOK'
  BY <1>1, <1>3, <1>5, <1>7, <1>14, PanelType DEF PanelOK
<1> QED BY <1>5, <1>8, <1>9, <1>10, <1>11, <1>15, <1>16 DEF IInv

(* What changes when the manager finds the top again, but for the references. *)
StackOK == NoRepeat(windows) /\ GoneOK /\ GrabOK /\ TopOK

StackTypes ==
    /\ windows \in Seq(Windows)
    /\ top_window \in Pointers /\ focus_widget \in Pointers
    /\ grab_widget \in Pointers /\ title \in Pointers
    /\ visible \in [Windows -> BOOLEAN]
    /\ mapped \in [Windows -> BOOLEAN]

(* Showing a window. *)
LEMMA ShowFacts ==
    ASSUME IInv, Running, Running', NEW w \in Windows, Show(w)
    PROVE  /\ StackTypes' /\ StackOK'
           /\ windows' = windows /\ visible' = [visible EXCEPT ![w] = TRUE]
<1> DEFINE vis == [visible EXCEPT ![w] = TRUE]
           new == TopVisible(windows, vis)
<1>1. TypeOK /\ NoRepeat(windows) /\ GoneOK /\ GrabOK /\ TopOK /\ PanelOK /\ Alive(w)
  BY DEF IInv, Show
<1>2. vis \in [Windows -> BOOLEAN] /\ vis[w] /\ \A x \in Windows : visible[x] => vis[x]
  BY <1>1 DEF TypeOK
<1>3. \A x \in Windows : x # w => vis[x] = visible[x]
  BY <1>1 DEF TypeOK
<1>4. /\ grab_widget' = IF Type[w] = "menu_panel" THEN w ELSE grab_widget
      /\ grab_ref' = grab_ref /\ grab_child' = grab_child /\ fullscreen' = fullscreen
      /\ ref' = ref
  BY DEF Show
<1>5. /\ windows' = windows /\ visible' = vis
      /\ top_window' \in Pointers /\ focus_widget' \in Pointers /\ title' \in Pointers
      /\ mapped' \in [Windows -> BOOLEAN]
      /\ focus_widget' # focus_widget => Holds(windows, focus_widget')
      /\ \A x \in Windows : mapped'[x] => mapped[x] \/ Holds(windows, x)
      /\ TopOK'
  <2>1. CASE Type[w] = "window"
    <3>1. Emit(windows, vis, mapped, focus_widget, title)
      BY <2>1 DEF Show
    <3>2. Holds(windows, Panel) /\ vis[Panel]
      BY <1>1, <1>2, ManagedHolds, PanelType DEF PanelOK
    <3> HIDE DEF vis
    <3> QED BY <1>1, <1>2, <1>4, <3>1, <3>2, EmitFacts DEF TypeOK, TopOK, PanelOK
  <2>2. CASE Type[w] # "window"
    <3>1. /\ windows' = windows /\ visible' = vis
          /\ top_window' = new
          /\ focus_widget' = IF new = None THEN focus_widget ELSE new
          /\ title' = IF new # None /\ Type[new] = "window" THEN new ELSE title
          /\ mapped' = [x \in Windows |-> x = new \/ (mapped[x] /\ x # top_window)]
      BY <2>2 DEF Show
    <3>2. /\ new \in Pointers
          /\ new # None => new \in Windows /\ Holds(windows, new) /\ IsMain(new) /\ vis[new]
      <4>1. windows \in Seq(Windows)
        BY <1>1 DEF TypeOK
      <4> HIDE DEF vis
      <4> QED BY <4>1, TopFacts
    <3>3. new \in {w, top_window}
      BY <1>1, TopOfShown DEF TypeOK, TopOK
    <3>4. TopVisible(windows, visible)' = TopVisible(windows', visible')
      BY DEF TopVisible, IsMain
    <3>5. TopVisible(windows', visible') = new
      BY <3>1
    <3> HIDE DEF vis, new
    <3>6. /\ mapped' \in [Windows -> BOOLEAN]
          /\ \A x \in Windows : IsMain(x) => (mapped'[x] <=> x = new)
      BY <1>1, <3>1 DEF TopOK
    <3>7. ASSUME new # None, Type[new] = "window" PROVE mapped'[Panel] <=> ~fullscreen'[new]
      <4>1. new = top_window
        BY <2>2, <3>3, <3>7
      <4>2. Panel # new
        BY <3>2, <3>7, PanelType
      <4>3. mapped'[Panel] <=> mapped[Panel]
        BY <3>1, <4>1, <4>2, PanelType
      <4> QED BY <1>1, <1>4, <3>7, <4>1, <4>3 DEF TopOK
    <3>8. TopOK'
      BY <1>1, <3>1, <3>2, <3>4, <3>5, <3>6, <3>7 DEF TopOK, IsMain
    <3>9. \A x \in Windows : mapped'[x] => mapped[x] \/ Holds(windows, x)
      BY <3>1, <3>2, WindowsAssumption
    <3> QED BY <1>1, <3>1, <3>2, <3>6, <3>8, <3>9 DEF TypeOK, Pointers
  <2> QED BY <2>1, <2>2
<1> HIDE DEF vis
<1>6. StackTypes'
  BY <1>1, <1>2, <1>4, <1>5 DEF StackTypes, TypeOK, Pointers
<1>7. GoneOK'
  <2>1. \A x \in Windows : Alive(x)' <=> Alive(x)
    BY <1>4 DEF Alive
  <2>2. \A x \in Windows : Managed(x)' <=> Managed(x)
    BY <1>5 DEF Managed
  <2>3. ASSUME NEW x \in Windows, ~Alive(x)
        PROVE  /\ ~Managed(x) /\ focus_widget # x /\ grab_widget # x /\ x # w
               /\ ~visible[x] /\ ~mapped[x] /\ ~fullscreen[x] /\ grab_ref[x] = 0
    BY <1>1, <2>3 DEF GoneOK
  <2>4. ASSUME NEW x \in Windows, ~Alive(x)
        PROVE  /\ focus_widget' # x /\ grab_widget' # x
               /\ ~visible'[x] /\ ~mapped'[x] /\ ~fullscreen'[x] /\ grab_ref'[x] = 0
    BY <1>3, <1>4, <1>5, <2>3, <2>4, ManagedHolds
  <2> QED BY <2>1, <2>2, <2>3, <2>4 DEF GoneOK
<1>8. GrabOK'
  <2>1. CASE Type[w] = "menu_panel"
    BY <1>1, <1>2, <1>4, <1>5, <2>1 DEF GrabOK, GrabJustified
  <2>2. CASE Type[w] # "menu_panel"
    BY <1>1, <1>2, <1>4, <1>5, <2>2 DEF GrabOK, GrabJustified, TypeOK, Pointers
  <2> QED BY <2>1, <2>2
<1> QED BY <1>1, <1>5, <1>6, <1>7, <1>8 DEF StackOK, vis

(* The status panel after a step that only shows. *)
LEMMA ShowPanel ==
    ASSUME IInv, Running, Running', NEW w \in Windows, Show(w)
    PROVE  PanelOK'
<1>1. /\ windows' = windows /\ visible' = [visible EXCEPT ![w] = TRUE]
      /\ own' = own /\ fullscreen' = fullscreen
  BY ShowFacts DEF Show
<1>2. PanelOK /\ visible \in [Windows -> BOOLEAN]
  BY DEF IInv, TypeOK
<1> QED BY <1>1, <1>2, PanelType DEF PanelOK, Managed

(* Types of what showing leaves alone. *)
LEMMA ShowStep ==
    ASSUME IInv, NEW w \in Windows, AppShow(w)
    PROVE  IInv'
<1>1. Running /\ Running' /\ Show(w) /\ UNCHANGED calls
  BY DEF AppShow, InHandler, Running, calls
<1>2. UNCHANGED <<ref, own, held, modals, mode, grab_ref, grab_child, fullscreen, pressed>>
  BY <1>1 DEF Show, calls
<1>3. StackTypes' /\ StackOK' /\ PanelOK'
  BY <1>1, ShowFacts, ShowPanel
<1>4. TypeOK'
  BY <1>2, <1>3 DEF IInv, TypeOK, StackTypes
<1>5. CountOK'
  BY <1>2, CountKept
<1> QED BY <1>3, <1>4, <1>5 DEF IInv, StackOK

(* A dialog that runs is held by its program. *)
LEMMA DialogRunStep ==
    ASSUME IInv, NEW w \in Windows, DialogRun(w)
    PROVE  IInv'
<1>1. Running /\ Running' /\ Show(w)
  BY DEF DialogRun, InHandler, Running
<1>2. /\ UNCHANGED <<ref, own, held, grab_ref, grab_child, fullscreen, pressed>>
      /\ modals' = Append(modals, w) /\ mode = "handler" /\ mode' = "loop"
      /\ Type[w] = "dialog" /\ own[w]
  BY <1>1 DEF Show, DialogRun, InHandler
<1>3. StackTypes' /\ StackOK' /\ PanelOK'
  BY <1>1, ShowFacts, ShowPanel
<1>4. TypeOK /\ CountOK
  BY DEF IInv
<1>5. modals' \in Seq(Windows) /\ Len(modals') = Len(modals) + 1
  BY <1>2, <1>4 DEF TypeOK
<1>6. TypeOK'
  BY <1>2, <1>3, <1>4, <1>5 DEF TypeOK, StackTypes
<1>7. CountOK'
  <2>1. \A k \in DOMAIN modals' : Type[modals'[k]] = "dialog" /\ own[modals'[k]]
    <3>1. modals \in Seq(Windows)
      BY <1>4 DEF TypeOK
    <3>2. \A k \in DOMAIN modals' : (k \in DOMAIN modals /\ modals'[k] = modals[k]) \/ modals'[k] = w
      BY <1>2, <3>1, AppendSlots
    <3> QED BY <1>2, <1>4, <3>2 DEF CountOK
  <2>2. Len(held) = Len(modals) + 1 /\ Len(modals) \in Nat
    BY <1>2, <1>4 DEF CountOK, TypeOK
  <2>3. Len(held') = Len(modals')
    BY <1>2, <1>5, <2>2
  <2> QED BY <1>1, <1>2, <1>4, <2>1, <2>3 DEF CountOK
<1> QED BY <1>3, <1>6, <1>7 DEF IInv, StackOK

(* Hiding gives a menu's grab back. *)
LEMMA HideStep ==
    ASSUME IInv, NEW w \in Windows, Hide(w)
    PROVE  IInv'
<1> DEFINE vis == [visible EXCEPT ![w] = FALSE]
<1>1. /\ TypeOK /\ NoRepeat(windows) /\ CountOK /\ GoneOK /\ GrabOK /\ TopOK /\ PanelOK
      /\ Running /\ Running' /\ w # Panel /\ Alive(w)
  BY DEF IInv, Hide, InHandler, Running, calls
<1>2. /\ UNCHANGED <<ref, own, held, modals, mode, grab_ref, grab_child, fullscreen, pressed>>
      /\ grab_widget' = IF Type[w] = "menu_panel" /\ grab_widget = w THEN None ELSE grab_widget
      /\ Emit(windows, vis, mapped, focus_widget, title)
  BY DEF Hide, calls
<1>3. vis \in [Windows -> BOOLEAN] /\ \A x \in Windows : vis[x] <=> x # w /\ visible[x]
  BY <1>1 DEF TypeOK
<1>4. Holds(windows, Panel) /\ vis[Panel]
  BY <1>1, <1>3, ManagedHolds, PanelType DEF PanelOK
<1> HIDE DEF vis
<1>5. /\ TopOK' /\ windows' = windows /\ visible' = vis
      /\ top_window' \in Pointers /\ focus_widget' \in Pointers /\ title' \in Pointers
      /\ mapped' \in [Windows -> BOOLEAN]
      /\ focus_widget' # focus_widget => Holds(windows, focus_widget')
      /\ \A x \in Windows : mapped'[x] => mapped[x] \/ Holds(windows, x)
  <2>1. /\ windows \in Seq(Windows) /\ mapped \in [Windows -> BOOLEAN]
        /\ focus_widget \in Pointers /\ title \in Pointers
        /\ fullscreen \in [Windows -> BOOLEAN]
    BY <1>1 DEF TypeOK
  <2>2. /\ \A x \in Windows : IsMain(x) /\ mapped[x] => x = top_window
        /\ title # None => Type[title] = "window"
    BY <1>1 DEF TopOK
  <2>3. \A x \in Windows : fullscreen[x] => Type[x] = "window"
    BY <1>1 DEF PanelOK
  <2>4. \A x \in Windows : vis[x] => (fullscreen'[x] <=> fullscreen[x])
    BY <1>2
  <2>5. Emit(windows, vis, mapped, focus_widget, title) /\ vis \in [Windows -> BOOLEAN]
    BY <1>2, <1>3 DEF vis
  <2> QED BY <1>4, <2>1, <2>2, <2>3, <2>4, <2>5, EmitFacts
<1>6. TypeOK'
  BY <1>1, <1>2, <1>3, <1>5 DEF TypeOK, Pointers
<1>7. CountOK'
  BY <1>2, CountKept
<1>8. GoneOK'
  <2>1. \A x \in Windows : (Alive(x)' <=> Alive(x)) /\ (Managed(x)' <=> Managed(x))
    BY <1>2, <1>5 DEF Alive, Managed
  <2>2. ASSUME NEW x \in Windows, ~Alive(x)
        PROVE  /\ ~Managed(x) /\ focus_widget # x /\ grab_widget # x
               /\ ~visible[x] /\ ~mapped[x] /\ ~fullscreen[x] /\ grab_ref[x] = 0
    BY <1>1, <2>2 DEF GoneOK
  <2>3. ASSUME NEW x \in Windows, ~Alive(x)
        PROVE  /\ focus_widget' # x /\ grab_widget' # x
               /\ ~visible'[x] /\ ~mapped'[x] /\ ~fullscreen'[x] /\ grab_ref'[x] = 0
    BY <1>2, <1>3, <1>5, <2>2, <2>3, ManagedHolds, WindowsAssumption
  <2> QED BY <2>1, <2>2, <2>3 DEF GoneOK
<1>9. GrabOK'
  BY <1>1, <1>2, <1>3, <1>5 DEF GrabOK, GrabJustified, TypeOK, Pointers
<1>10. PanelOK'
  BY <1>1, <1>2, <1>3, <1>5, PanelType DEF PanelOK, Managed
<1> QED BY <1>1, <1>5, <1>6, <1>7, <1>8, <1>9, <1>10 DEF IInv

(* The stack without w. *)
LEMMA WithoutFacts ==
    ASSUME NEW w \in Windows, windows \in Seq(Windows), NoRepeat(windows)
    PROVE  /\ Without(w) \in Seq(Windows) /\ NoRepeat(Without(w))
           /\ \A x : Holds(Without(w), x) <=> Holds(windows, x) /\ x # w
<1>1. CASE Managed(w)
  <2> DEFINE k == FirstSlot(windows, w)
  <2>1. k \in 1 .. Len(windows) /\ windows[k] = w
    BY <1>1, FirstSlotFound DEF Managed
  <2>2. Without(w) = ShiftDown(windows, k)
    BY <1>1 DEF Without
  <2> HIDE DEF k
  <2> QED BY <2>1, <2>2, ShiftDownHolds
<1>2. CASE ~Managed(w)
  BY <1>2, ManagedHolds DEF Without
<1> QED BY <1>1, <1>2

(* One reference of w goes, and w with the last one. *)
LEMMA UnrefFacts ==
    ASSUME IInv, Running, Running',
           NEW w \in Windows, NEW t \in {None, title}, Unref(w, t),
           Alive(w), ref[w] = 1 => w # Panel
    PROVE  /\ StackTypes' /\ StackOK'
           /\ ref' \in [Windows -> Nat] /\ ref' = [ref EXCEPT ![w] = ref[w] - 1]
           /\ grab_ref' \in [Windows -> Nat]
           /\ grab_child' \in [Windows -> {"none", "active", "inactive"}]
           /\ fullscreen' \in [Windows -> BOOLEAN]
           /\ own'[Panel] => PanelOK'
<1>1. TypeOK /\ NoRepeat(windows) /\ CountOK /\ GoneOK /\ GrabOK /\ TopOK /\ PanelOK
  BY DEF IInv
<1>2. /\ t \in Pointers
      /\ t # None => Type[t] = "window"
      /\ t # None => t = title
  BY <1>1 DEF TypeOK, Pointers, TopOK
<1>3. /\ ref \in [Windows -> Nat] /\ ref[w] \in Nat /\ ref[w] >= 1
  BY <1>1 DEF TypeOK, Alive
<1>4. ref' = [ref EXCEPT ![w] = ref[w] - 1]
  BY <1>3 DEF Unref
<1>5. /\ ref' \in [Windows -> Nat] /\ ref'[w] = ref[w] - 1
      /\ \A x \in Windows : x # w => ref'[x] = ref[x]
  BY <1>3, <1>4
<1>6. CASE ref[w] # 1
  <2>1. /\ title' = t
        /\ UNCHANGED <<windows, top_window, focus_widget, visible, mapped, fullscreen,
                       grab_widget, grab_ref, grab_child>>
    BY <1>6 DEF Unref, grabs
  <2>2. \A x \in Windows : Alive(x)' <=> Alive(x)
    BY <1>3, <1>5, <1>6 DEF Alive
  <2>3. GoneOK'
    BY <1>1, <2>1, <2>2 DEF GoneOK, Managed
  <2>4. GrabOK'
    BY <1>1, <2>1 DEF GrabOK, GrabJustified
  <2>5. TopVisible(windows, visible)' = TopVisible(windows, visible)
    BY <2>1 DEF TopVisible, IsMain
  <2>6. TopOK'
    BY <1>1, <1>2, <2>1, <2>5 DEF TopOK, IsMain
  <2>7. own'[Panel] => PanelOK'
    BY <1>1, <2>1 DEF PanelOK, Managed
  <2>8. StackTypes'
    <3>1. /\ windows' = windows /\ top_window' = top_window /\ focus_widget' = focus_widget
          /\ grab_widget' = grab_widget /\ visible' = visible /\ mapped' = mapped
          /\ title' = t
      BY <2>1
    <3> QED BY <1>1, <1>2, <3>1 DEF StackTypes, TypeOK, Pointers
  <2> QED BY <1>1, <1>4, <1>5, <2>1, <2>3, <2>4, <2>6, <2>7, <2>8 DEF StackOK, TypeOK
<1>7. CASE ref[w] = 1
  <2> DEFINE ws == Without(w)
             vis == [visible EXCEPT ![w] = FALSE]
             m == [mapped EXCEPT ![w] = FALSE]
             f == IF focus_widget = w THEN None ELSE focus_widget
  <2>1. /\ fullscreen' = [fullscreen EXCEPT ![w] = FALSE]
        /\ Emit(ws, vis, m, f, t)
        /\ grab_widget' = IF grab_widget = w THEN None ELSE grab_widget
        /\ grab_ref' = [grab_ref EXCEPT ![w] = 0]
        /\ grab_child' = [grab_child EXCEPT ![w] = "none"]
    BY <1>7 DEF Unref, Destroy
  <2>2. /\ fullscreen' \in [Windows -> BOOLEAN] /\ ~fullscreen'[w]
        /\ \A x \in Windows : x # w => fullscreen'[x] = fullscreen[x]
    BY <1>1, <2>1 DEF TypeOK
  <2>3. /\ vis \in [Windows -> BOOLEAN] /\ ~vis[w]
        /\ \A x \in Windows : x # w => vis[x] = visible[x]
    BY <1>1 DEF TypeOK
  <2>4. /\ m \in [Windows -> BOOLEAN] /\ ~m[w]
        /\ \A x \in Windows : x # w => m[x] = mapped[x]
    BY <1>1 DEF TypeOK
  <2>5. /\ grab_ref' \in [Windows -> Nat] /\ grab_ref'[w] = 0
        /\ \A x \in Windows : x # w => grab_ref'[x] = grab_ref[x]
    BY <1>1, <2>1 DEF TypeOK
  <2>6. /\ grab_child' \in [Windows -> {"none", "active", "inactive"}]
        /\ grab_child'[w] = "none"
        /\ \A x \in Windows : x # w => grab_child'[x] = grab_child[x]
    BY <1>1, <2>1 DEF TypeOK
  <2>7. /\ ws \in Seq(Windows) /\ NoRepeat(ws)
        /\ \A x : Holds(ws, x) <=> Holds(windows, x) /\ x # w
    BY <1>1, WithoutFacts DEF TypeOK
  <2>8. f \in Pointers /\ f # w /\ (f # None => f = focus_widget)
    BY <1>1, WindowsAssumption DEF TypeOK, Pointers
  <2>9. w # Panel
    BY <1>7
  <2> HIDE DEF ws, vis, m, f
  <2>10. /\ TopOK' /\ windows' = ws /\ visible' = vis
         /\ top_window' \in Pointers /\ focus_widget' \in Pointers /\ title' \in Pointers
         /\ mapped' \in [Windows -> BOOLEAN]
         /\ focus_widget' # f => Holds(ws, focus_widget')
         /\ \A x \in Windows : mapped'[x] => m[x] \/ Holds(ws, x)
    <3>1. \A x \in Windows : IsMain(x) /\ m[x] => x = top_window
      BY <1>1, <2>4 DEF TopOK
    <3>2. Holds(ws, Panel) /\ vis[Panel]
      BY <1>1, <2>3, <2>7, <2>9, ManagedHolds, PanelType DEF PanelOK
    <3>3. \A x \in Windows : vis[x] => (fullscreen'[x] <=> fullscreen[x])
      BY <2>2, <2>3
    <3>4. fullscreen \in [Windows -> BOOLEAN] /\ \A x \in Windows : fullscreen[x] => Type[x] = "window"
      BY <1>1 DEF TypeOK, PanelOK
    <3>5. Emit(ws, vis, m, f, t)
      BY <2>1
    <3>6. /\ ws \in Seq(Windows) /\ vis \in [Windows -> BOOLEAN] /\ m \in [Windows -> BOOLEAN]
          /\ f \in Pointers /\ t \in Pointers /\ (t # None => Type[t] = "window")
      <4>1. ws \in Seq(Windows) /\ vis \in [Windows -> BOOLEAN] /\ m \in [Windows -> BOOLEAN]
        BY <2>3, <2>4, <2>7
      <4>2. f \in Pointers
        BY <2>8
      <4>3. t \in Pointers
        BY <1>2
      <4>4. t # None => Type[t] = "window"
        BY <1>2
      <4> QED BY <4>1, <4>2, <4>3, <4>4
    <3> QED BY <3>1, <3>2, <3>3, <3>4, <3>5, <3>6, EmitFacts
  <2>11. GoneOK'
    <3>1. \A x \in Windows : ~Alive(x)' => x = w \/ ~Alive(x)
      BY <1>5 DEF Alive
    <3>2. ASSUME NEW x \in Windows, x # w, ~Alive(x)
          PROVE  /\ ~Holds(windows, x) /\ focus_widget # x /\ grab_widget # x
                 /\ ~visible[x] /\ ~mapped[x] /\ ~fullscreen[x] /\ grab_ref[x] = 0
      BY <1>1, <3>2, ManagedHolds DEF GoneOK
    <3>3. ASSUME NEW x \in Windows, x = w \/ ~Alive(x)
          PROVE  /\ ~Holds(windows', x) /\ focus_widget' # x /\ grab_widget' # x
                 /\ ~visible'[x] /\ ~mapped'[x] /\ ~fullscreen'[x] /\ grab_ref'[x] = 0
      <4>1. CASE x = w
        BY <2>1, <2>2, <2>3, <2>4, <2>5, <2>7, <2>8, <2>10, <4>1, WindowsAssumption
      <4>2. CASE x # w
        BY <2>1, <2>2, <2>3, <2>4, <2>5, <2>7, <2>8, <2>10, <3>2, <3>3, <4>2, WindowsAssumption
      <4> QED BY <4>1, <4>2
    <3> QED BY <3>1, <3>3, ManagedHoldsPrime DEF GoneOK
  <2>12. GrabOK'
    <3>1. \A x \in Windows : grab_child'[x] # "none" => grab_ref'[x] > 0
      BY <1>1, <2>5, <2>6 DEF GrabOK
    <3>2. grab_widget' # None => grab_widget' \in Windows \ {w} /\ grab_widget' = grab_widget
      BY <1>1, <2>1 DEF TypeOK, Pointers
    <3> QED BY <1>1, <2>3, <2>5, <2>10, <3>1, <3>2 DEF GrabOK, GrabJustified
  <2>13. own'[Panel] => PanelOK'
    <3>1. Managed(Panel)' /\ visible'[Panel]
      BY <1>1, <2>3, <2>7, <2>9, <2>10, PanelType, ManagedHolds, ManagedHoldsPrime DEF PanelOK
    <3> QED BY <1>1, <2>2, <3>1 DEF PanelOK
  <2>14. StackTypes'
    BY <1>1, <2>1, <2>3, <2>7, <2>10 DEF StackTypes, TypeOK, Pointers
  <2> QED BY <1>4, <1>5, <2>2, <2>5, <2>6, <2>7, <2>10, <2>11, <2>12, <2>13, <2>14 DEF StackOK
<1> QED BY <1>6, <1>7

(* The program gives up a window that it owns and that no dialog runs on. *)
LEMMA GiveUpStep ==
    ASSUME IInv, NEW w \in Windows, NEW t \in {None, title}, mode = "handler",
           own[w], w # Panel, \A k \in DOMAIN modals : modals[k] # w,
           Unref(w, t), own' = [own EXCEPT ![w] = FALSE], UNCHANGED <<calls, pressed>>
    PROVE  IInv'
<1>1. Running /\ Running' /\ UNCHANGED <<held, modals, mode, pressed>>
  BY DEF Running, calls
<1>2. TypeOK /\ CountOK /\ PanelOK /\ Alive(w)
  BY <1>1, AliveFacts DEF IInv
<1>3. /\ own' \in [Windows -> BOOLEAN] /\ ~own'[w]
      /\ \A x \in Windows : x # w => own'[x] = own[x]
  BY <1>2 DEF TypeOK
<1>4. /\ StackTypes' /\ StackOK'
      /\ ref' \in [Windows -> Nat] /\ ref' = [ref EXCEPT ![w] = ref[w] - 1]
      /\ grab_ref' \in [Windows -> Nat]
      /\ grab_child' \in [Windows -> {"none", "active", "inactive"}]
      /\ fullscreen' \in [Windows -> BOOLEAN]
      /\ own'[Panel] => PanelOK'
  BY <1>1, <1>2, UnrefFacts
<1>5. PanelOK'
  BY <1>2, <1>3, <1>4, PanelType DEF PanelOK
<1>6. TypeOK'
  BY <1>1, <1>2, <1>3, <1>4 DEF TypeOK, StackTypes
<1>7. CountOK'
  <2>1. ASSUME NEW x \in Windows
        PROVE  ref'[x] = (IF own'[x] THEN 1 ELSE 0) + Occ(held, x)
    <3>1. /\ Occ(held, x) \in Nat
          /\ ref[x] = (IF own[x] THEN 1 ELSE 0) + Occ(held, x)
      BY <1>2, AliveFacts DEF CountOK
    <3>2. CASE x = w
      <4>1. ref'[x] = ref[x] - 1
        BY <1>2, <1>4, <3>2 DEF TypeOK
      <4> QED BY <1>3, <3>1, <3>2, <4>1
    <3>3. CASE x # w
      <4>1. ref'[x] = ref[x]
        BY <1>2, <1>4, <3>3 DEF TypeOK
      <4> QED BY <1>3, <3>1, <3>3, <4>1
    <3> QED BY <3>2, <3>3
  <2>2. \A k \in DOMAIN modals : modals[k] \in Windows
    BY <1>2 DEF TypeOK
  <2>3. \A k \in DOMAIN modals : own'[modals[k]]
    BY <1>2, <1>3, <2>2 DEF CountOK
  <2> QED BY <1>1, <1>2, <2>1, <2>3 DEF CountOK
<1> QED BY <1>4, <1>5, <1>6, <1>7 DEF IInv, StackOK

(* ftk_widget_unref by the program. *)
LEMMA AppUnrefStep ==
    ASSUME IInv, NEW w \in Windows, AppUnref(w)
    PROVE  IInv'
BY GiveUpStep DEF AppUnref, InHandler

(* The close button. *)
LEMMA CloseTopStep ==
    ASSUME IInv, CloseTop
    PROVE  IInv'
<1>1. mode = "handler" /\ title # None /\ own[title] /\ Unref(title, None)
      /\ own' = [own EXCEPT ![title] = FALSE] /\ UNCHANGED <<calls, pressed>>
  BY DEF CloseTop, InHandler
<1>2. TypeOK /\ CountOK /\ TopOK
  BY <1>1 DEF IInv, Running
<1>3. title \in Windows /\ Type[title] = "window"
  BY <1>1, <1>2 DEF TypeOK, TopOK, Pointers
<1>4. title # Panel /\ \A k \in DOMAIN modals : modals[k] # title
  BY <1>2, <1>3, PanelType DEF CountOK
<1> QED BY <1>1, <1>3, <1>4, GiveUpStep

(* The call stack without its topmost dispatch. *)
LEMMA PopFacts ==
    ASSUME IInv, held # <<>>, held' = SubSeq(held, 1, Len(held) - 1)
    PROVE  /\ held' \in Seq(Pointers) /\ Len(held') = Len(held) - 1
           /\ held[Len(held)] \in Pointers
           /\ \A x \in Windows :
                Occ(held', x) = Occ(held, x) - (IF held[Len(held)] = x THEN 1 ELSE 0)
<1>1. held \in Seq(Pointers)
  BY DEF IInv, TypeOK
<1>2. held[Len(held)] \in Pointers
  <2>1. Len(held) \in DOMAIN held
    BY <1>1
  <2> QED BY <1>1, <2>1
<1> QED BY <1>1, <1>2, OccFront

(* A dispatch that ends gives its target up, which may have been the last reference. *)
LEMMA HandlerReturnStep ==
    ASSUME IInv, HandlerReturn
    PROVE  IInv'
<1> DEFINE t == held[Len(held)]
<1>1. /\ Running /\ Running' /\ mode = "handler" /\ mode' = "loop" /\ held # <<>>
      /\ UNCHANGED <<own, modals, pressed>>
  BY DEF HandlerReturn, InHandler, Running
<1>2. TypeOK /\ CountOK /\ PanelOK
  BY <1>1 DEF IInv
<1>3. /\ held' \in Seq(Pointers) /\ Len(held') = Len(held) - 1 /\ t \in Pointers
      /\ \A x \in Windows : Occ(held', x) = Occ(held, x) - (IF t = x THEN 1 ELSE 0)
  BY <1>1, PopFacts DEF HandlerReturn
<1>4. t # None => t \in Windows /\ Alive(t)
  <2>1. Len(held) \in DOMAIN held
    BY <1>1, <1>2 DEF TypeOK
  <2> QED BY <2>1, AliveFacts
<1>5. t = None => UNCHANGED <<stack, fullscreen, grabs, ref>>
  BY DEF HandlerReturn
<1>6. t # None => Unref(t, title)
  BY DEF HandlerReturn
<1>7. \A x \in Windows : Occ(held, x) \in Nat /\ ref[x] = (IF own[x] THEN 1 ELSE 0) + Occ(held, x)
  BY <1>2, AliveFacts DEF CountOK
<1>8. t = Panel => ref[t] # 1
  <2> SUFFICES ASSUME t = Panel PROVE ref[Panel] # 1
    OBVIOUS
  <2>1. Occ(held, Panel) # 0
    <3>1. held \in Seq(Pointers) /\ Len(held) \in DOMAIN held
      BY <1>1, <1>2 DEF TypeOK
    <3> QED BY <3>1, OccType
  <2>2. ref[Panel] = 1 + Occ(held, Panel) /\ Occ(held, Panel) \in Nat
    BY <1>2, <1>7, PanelType DEF PanelOK
  <2> QED BY <2>1, <2>2
<1> HIDE DEF t
<1>9. Len(held') = Len(modals')
  <2>1. Len(held) = Len(modals) + 1 /\ Len(modals) \in Nat
    BY <1>1, <1>2 DEF CountOK, TypeOK
  <2> QED BY <1>1, <1>3, <2>1
<1>10. CASE t = None
  <2>1. UNCHANGED <<windows, top_window, focus_widget, title, visible, mapped, fullscreen,
                    grab_widget, grab_ref, grab_child, ref>>
    BY <1>5, <1>10 DEF stack, grabs
  <2>2. \A x \in Windows : Occ(held', x) = Occ(held, x)
    BY <1>3, <1>7, <1>10, WindowsAssumption
  <2>3. CountOK'
    BY <1>1, <1>2, <1>7, <1>9, <2>1, <2>2 DEF CountOK
  <2>4. TypeOK'
    BY <1>1, <1>2, <1>3, <2>1 DEF TypeOK
  <2>5. GoneOK' /\ GrabOK'
    BY <1>1, <2>1 DEF IInv, GoneOK, GrabOK, GrabJustified, Alive, Managed
  <2>6. TopVisible(windows, visible)' = TopVisible(windows, visible)
    BY <2>1 DEF TopVisible, IsMain
  <2>7. TopOK' /\ PanelOK'
    BY <1>1, <2>1, <2>6 DEF IInv, TopOK, PanelOK, IsMain, Managed
  <2> QED BY <2>1, <2>3, <2>4, <2>5, <2>7 DEF IInv
<1>11. CASE t # None
  <2>1. /\ StackTypes' /\ StackOK'
        /\ ref' \in [Windows -> Nat] /\ ref' = [ref EXCEPT ![t] = ref[t] - 1]
        /\ grab_ref' \in [Windows -> Nat]
        /\ grab_child' \in [Windows -> {"none", "active", "inactive"}]
        /\ fullscreen' \in [Windows -> BOOLEAN]
        /\ own'[Panel] => PanelOK'
    BY <1>1, <1>4, <1>6, <1>8, <1>11, UnrefFacts
  <2>2. PanelOK'
    BY <1>1, <1>2, <2>1 DEF PanelOK
  <2>3. TypeOK'
    BY <1>1, <1>2, <1>3, <2>1 DEF TypeOK, StackTypes
  <2>4. ASSUME NEW x \in Windows
        PROVE  ref'[x] = (IF own[x] THEN 1 ELSE 0) + Occ(held', x)
    <3>1. ref'[x] = ref[x] - (IF t = x THEN 1 ELSE 0)
      BY <1>2, <1>4, <1>11, <2>1 DEF TypeOK
    <3> QED BY <1>3, <1>7, <3>1
  <2>5. CountOK'
    BY <1>1, <1>2, <1>9, <2>4 DEF CountOK
  <2> QED BY <2>1, <2>2, <2>3, <2>5 DEF IInv, StackOK
<1> QED BY <1>10, <1>11


-----------------------------------------------------------------------------
(* The stack changes its order, or a window its flag.                      *)

(* The slot a restack moves to. *)
RestackTo(k, offset) ==
    IF k + offset < 1 THEN 1
    ELSE IF k + offset > Len(windows) THEN Len(windows) ELSE k + offset

(* Moving a window in the stack keeps who is managed. *)
LEMMA RestackStep ==
    ASSUME IInv, NEW w \in Windows, NEW offset \in Int, Restack(w, offset)
    PROVE  IInv'
<1> DEFINE k == FirstSlot(windows, w)
           n == RestackTo(k, offset)
           ws == MoveSlot(windows, k, n)
<1>1. /\ TypeOK /\ NoRepeat(windows) /\ CountOK /\ GoneOK /\ GrabOK /\ TopOK /\ PanelOK
      /\ Running /\ Running' /\ Managed(w)
  BY DEF IInv, Restack, InHandler, Running, calls
<1>2. /\ UNCHANGED <<ref, own, held, modals, mode, grab_widget, grab_ref, grab_child,
                     fullscreen, pressed>>
      /\ Emit(ws, visible, mapped, focus_widget, title)
  BY DEF Restack, RestackTo, calls, grabs
<1>3. k \in 1 .. Len(windows)
  BY <1>1, FirstSlotFound DEF TypeOK, Managed
<1>4. n \in 1 .. Len(windows)
  <2>1. Len(windows) \in Nat
    BY <1>1 DEF TypeOK
  <2> HIDE DEF k
  <2> QED BY <1>3, <2>1 DEF RestackTo
<1>5. /\ ws \in Seq(Windows) /\ NoRepeat(ws)
      /\ \A x : Holds(ws, x) <=> Holds(windows, x)
  <2> HIDE DEF k, n
  <2> QED BY <1>1, <1>3, <1>4, MoveSlotHolds DEF TypeOK
<1>6. Holds(ws, Panel) /\ visible[Panel]
  BY <1>1, <1>5, ManagedHolds DEF PanelOK
<1> HIDE DEF k, n, ws
<1>7. /\ TopOK' /\ windows' = ws /\ visible' = visible
      /\ top_window' \in Pointers /\ focus_widget' \in Pointers /\ title' \in Pointers
      /\ mapped' \in [Windows -> BOOLEAN]
      /\ focus_widget' # focus_widget => Holds(ws, focus_widget')
      /\ \A x \in Windows : mapped'[x] => mapped[x] \/ Holds(ws, x)
  BY <1>1, <1>2, <1>5, <1>6, EmitFacts DEF TypeOK, TopOK, PanelOK
<1>8. TypeOK'
  BY <1>1, <1>2, <1>5, <1>7 DEF TypeOK
<1>9. CountOK'
  BY <1>2, CountKept
<1>10. GoneOK'
  <2>1. \A x \in Windows : (Alive(x)' <=> Alive(x)) /\ (Managed(x)' <=> Managed(x))
    BY <1>2, <1>5, <1>7, ManagedHolds, ManagedHoldsPrime DEF Alive
  <2>2. ASSUME NEW x \in Windows, ~Alive(x)
        PROVE  /\ ~Managed(x) /\ focus_widget # x /\ grab_widget # x
               /\ ~visible[x] /\ ~mapped[x] /\ ~fullscreen[x] /\ grab_ref[x] = 0
    BY <1>1, <2>2 DEF GoneOK
  <2>3. ASSUME NEW x \in Windows, ~Alive(x)
        PROVE  /\ focus_widget' # x /\ grab_widget' # x
               /\ ~visible'[x] /\ ~mapped'[x] /\ ~fullscreen'[x] /\ grab_ref'[x] = 0
    BY <1>2, <1>5, <1>7, <2>2, <2>3, ManagedHolds
  <2> QED BY <2>1, <2>2, <2>3 DEF GoneOK
<1>11. GrabOK'
  BY <1>1, <1>2, <1>7 DEF GrabOK, GrabJustified
<1>12. PanelOK'
  BY <1>1, <1>2, <1>6, <1>7, ManagedHoldsPrime DEF PanelOK
<1> QED BY <1>1, <1>5, <1>7, <1>8, <1>9, <1>10, <1>11, <1>12 DEF IInv

(* The layout after a window changed its flag maps no other main window. *)
LEMMA SetFullscreenStep ==
    ASSUME IInv, NEW w \in Windows, SetFullscreen(w)
    PROVE  IInv'
<1> DEFINE laid == [x \in Windows |-> mapped[x] \/ (Managed(x) /\ ~IsMain(x))]
<1>1. /\ TypeOK /\ NoRepeat(windows) /\ CountOK /\ GoneOK /\ GrabOK /\ TopOK /\ PanelOK
      /\ Running /\ Running' /\ Alive(w) /\ Type[w] = "window"
  BY DEF IInv, SetFullscreen, InHandler, Running, calls
<1>2. /\ UNCHANGED <<ref, own, held, modals, mode, grab_widget, grab_ref, grab_child, pressed,
                     windows, top_window, focus_widget, title, visible>>
      /\ fullscreen' = [fullscreen EXCEPT ![w] = ~fullscreen[w]]
      /\ mapped' = PanelsMapped(windows, visible, fullscreen', laid)
  BY DEF SetFullscreen, calls, grabs
<1>3. /\ fullscreen' \in [Windows -> BOOLEAN]
      /\ \A x \in Windows : x # w => fullscreen'[x] = fullscreen[x]
      /\ \A x \in Windows : fullscreen'[x] => Type[x] = "window"
  BY <1>1, <1>2 DEF TypeOK, PanelOK
<1>4. top_window = TopVisible(windows, visible)
  BY <1>1 DEF TopOK
<1>5. /\ top_window \in Pointers
      /\ top_window # None => top_window \in Windows /\ IsMain(top_window)
  BY <1>1, <1>4, TopFacts DEF TypeOK
<1>6. laid \in [Windows -> BOOLEAN] /\ \A x \in Windows : IsMain(x) => (laid[x] <=> x = top_window)
  <2>1. \A x \in Windows : IsMain(x) => (mapped[x] <=> x = top_window)
    BY <1>1, WindowsAssumption DEF TopOK
  <2>2. mapped \in [Windows -> BOOLEAN]
    BY <1>1 DEF TypeOK
  <2>3. laid \in [Windows -> BOOLEAN]
    BY <2>2 DEF Managed, IsMain
  <2> QED BY <2>1, <2>3
<1>7. \A x \in Windows : laid[x] => mapped[x] \/ Managed(x)
  OBVIOUS
<1> HIDE DEF laid
<1>8. windows \in Seq(Windows) /\ Holds(windows, Panel) /\ visible[Panel]
  BY <1>1, ManagedHolds DEF TypeOK, PanelOK
<1>9. /\ mapped' \in [Windows -> BOOLEAN]
      /\ \A x \in Windows : x # Panel => mapped'[x] = laid[x]
      /\ mapped'[Panel] <=> ~(top_window # None /\ fullscreen'[top_window])
  <2>1. \A x \in Windows : fullscreen'[x] => Type[x] = "window"
    BY <1>3
  <2>2. laid \in [Windows -> BOOLEAN]
    BY <1>6
  <2>3. \A x \in Windows : IsMain(x) => (laid[x] <=> x = top_window)
    BY <1>6
  <2>4. /\ PanelsMapped(windows, visible, fullscreen', laid) \in [Windows -> BOOLEAN]
        /\ \A x \in Windows : x # Panel =>
              PanelsMapped(windows, visible, fullscreen', laid)[x] = laid[x]
        /\ PanelsMapped(windows, visible, fullscreen', laid)[Panel]
              <=> ~(top_window # None /\ fullscreen'[top_window])
    BY <1>4, <1>8, <2>1, <2>2, <2>3, PanelFacts
  <2> QED BY <1>2, <2>4
<1>10. mapped' \in [Windows -> BOOLEAN]
  BY <1>9
<1>11. \A x \in Windows : x # Panel => mapped'[x] = laid[x]
  BY <1>9
<1>12. mapped'[Panel] <=> ~(top_window # None /\ fullscreen'[top_window])
  BY <1>9
<1>13. \A x \in Windows : IsMain(x) => (mapped'[x] <=> x = top_window)
  BY <1>6, <1>11, PanelType
<1>14. TypeOK'
  BY <1>1, <1>2, <1>3, <1>10 DEF TypeOK
<1>15. CountOK'
  BY <1>2, CountKept
<1>16. GoneOK'
  <2>1. \A x \in Windows : (Alive(x)' <=> Alive(x)) /\ (Managed(x)' <=> Managed(x))
    BY <1>2 DEF Alive, Managed
  <2>2. ASSUME NEW x \in Windows, ~Alive(x)
        PROVE  /\ ~Managed(x) /\ focus_widget # x /\ grab_widget # x /\ x # w /\ x # Panel
               /\ ~visible[x] /\ ~mapped[x] /\ ~fullscreen[x] /\ grab_ref[x] = 0
    BY <1>1, <2>2 DEF GoneOK, PanelOK
  <2>3. ASSUME NEW x \in Windows, ~Alive(x)
        PROVE  ~mapped'[x] /\ ~fullscreen'[x]
    BY <1>3, <1>7, <1>11, <2>2, <2>3
  <2> QED BY <1>2, <2>1, <2>2, <2>3 DEF GoneOK
<1>17. GrabOK'
  BY <1>1, <1>2 DEF GrabOK, GrabJustified
<1>18. TopOK'
  <2>1. TopVisible(windows, visible)' = TopVisible(windows, visible)
    BY <1>2 DEF TopVisible, IsMain
  <2>2. top_window # None => mapped'[top_window]
    BY <1>5, <1>13
  <2> QED BY <1>1, <1>2, <1>12, <1>13, <2>1, <2>2 DEF TopOK, IsMain
<1>19. PanelOK'
  BY <1>1, <1>2, <1>3 DEF PanelOK, Managed
<1> QED BY <1>1, <1>2, <1>14, <1>15, <1>16, <1>17, <1>18, <1>19 DEF IInv

(* The stack where a step leaves it alone. *)
LEMMA StackKept ==
    ASSUME IInv, Running, Running',
           UNCHANGED <<windows, top_window, title, visible, mapped, fullscreen>>,
           focus_widget' \in {focus_widget, None} \/ visible[focus_widget']
    PROVE  TopOK' /\ NoRepeat(windows')
<1>1. TopOK /\ NoRepeat(windows)
  BY DEF IInv
<1>2. TopVisible(windows, visible)' = TopVisible(windows, visible)
  BY DEF TopVisible, IsMain
<1> QED BY <1>1, <1>2 DEF TopOK, IsMain

(* ftk_dialog_run returns. *)
LEMMA DialogReturnStep ==
    ASSUME IInv, DialogReturn
    PROVE  IInv'
<1>1. /\ Running /\ Running' /\ mode = "loop" /\ mode' = "handler" /\ modals # <<>>
      /\ modals' = SubSeq(modals, 1, Len(modals) - 1)
      /\ UNCHANGED <<windows, top_window, focus_widget, title, visible, mapped, fullscreen,
                     grab_widget, grab_ref, grab_child, ref, own, held, pressed>>
  BY DEF DialogReturn, Running, stack, grabs
<1>2. /\ TypeOK /\ CountOK /\ TopOK /\ PanelOK /\ GoneOK /\ GrabOK
  BY <1>1 DEF IInv
<1>3. /\ modals' \in Seq(Windows) /\ Len(modals') = Len(modals) - 1 /\ Len(modals) \in Nat
      /\ \A k \in DOMAIN modals' : k \in DOMAIN modals /\ modals'[k] = modals[k]
  <2>1. modals \in Seq(Windows) /\ Len(modals) \in Nat /\ Len(modals) > 0
    BY <1>1, <1>2 DEF TypeOK
  <2>2. modals' \in Seq(Windows) /\ Len(modals') = Len(modals) - 1
    BY <1>1, <2>1, OccFront
  <2>3. \A k \in 1 .. (Len(modals) - 1) : modals'[k] = modals[k]
    BY <1>1, <2>1
  <2> QED BY <2>1, <2>2, <2>3
<1>4. CountOK'
  <2>1. \A k \in DOMAIN modals' : Type[modals'[k]] = "dialog" /\ own[modals'[k]]
    BY <1>2, <1>3 DEF CountOK
  <2>2. Len(held) = Len(modals') + 1
    BY <1>1, <1>2, <1>3 DEF CountOK
  <2> QED BY <1>1, <1>2, <2>1, <2>2 DEF CountOK
<1>5. TypeOK'
  BY <1>1, <1>2, <1>3 DEF TypeOK
<1>6. GoneOK' /\ GrabOK' /\ PanelOK'
  BY <1>1, <1>2 DEF GoneOK, GrabOK, GrabJustified, PanelOK, Alive, Managed
<1> QED BY <1>1, <1>4, <1>5, <1>6, StackKept DEF IInv

-----------------------------------------------------------------------------
(* Events.                                                                 *)

(* A dispatch holds its target: it lives on as it lived before. *)
LEMMA DeliverFacts ==
    ASSUME IInv, CanDispatch, NEW t \in Pointers, Deliver(t),
           t # None => Alive(t), own' = own
    PROVE  /\ Running /\ Running' /\ CountOK' /\ mode' \in {"loop", "handler"}
           /\ ref' \in [Windows -> Nat] /\ held' \in Seq(Pointers) /\ modals' = modals
           /\ \A x \in Windows : Alive(x)' <=> Alive(x)
<1>1. TypeOK /\ CountOK /\ mode = "loop" /\ Running
  BY DEF IInv, CanDispatch, Running
<1>2. CASE t = None
  BY <1>1, <1>2 DEF Deliver, calls, CountOK, TypeOK, Running, Alive
<1>3. CASE t # None
  <2>1. /\ ref' = [ref EXCEPT ![t] = ref[t] + 1] /\ held' = Append(held, t)
        /\ mode' = "handler" /\ modals' = modals
    BY <1>3 DEF Deliver
  <2>2. t \in Windows /\ ref \in [Windows -> Nat] /\ held \in Seq(Pointers)
    BY <1>1, <1>3 DEF TypeOK, Pointers
  <2>3. /\ held' \in Seq(Pointers) /\ Len(held') = Len(held) + 1
        /\ \A x \in Windows : Occ(held', x) = Occ(held, x) + (IF t = x THEN 1 ELSE 0)
    BY <2>1, <2>2, OccAppend
  <2>4. /\ ref' \in [Windows -> Nat]
        /\ \A x \in Windows : ref'[x] = ref[x] + (IF t = x THEN 1 ELSE 0)
    BY <2>1, <2>2
  <2>5. \A x \in Windows : Alive(x)' <=> Alive(x)
    <3>1. \A x \in Windows : ref[x] \in Nat
      BY <2>2
    <3> QED BY <1>3, <2>2, <2>4, <3>1 DEF Alive
  <2>6. ASSUME NEW x \in Windows
        PROVE  ref'[x] = (IF own[x] THEN 1 ELSE 0) + Occ(held', x)
    <3>1. ref[x] \in Nat /\ Occ(held, x) \in Nat
          /\ ref[x] = (IF own[x] THEN 1 ELSE 0) + Occ(held, x)
      BY <1>1, <2>2, AliveFacts DEF CountOK
    <3> QED BY <2>3, <2>4, <3>1
  <2>7. Len(held') = Len(modals) + 1
    <3>1. Len(held) = Len(modals)
      <4>1. Len(modals) \in Nat
        BY <1>1 DEF TypeOK
      <4> QED BY <1>1, <4>1 DEF CountOK
    <3> QED BY <2>3, <3>1
  <2>8. CountOK'
    BY <1>1, <2>1, <2>6, <2>7 DEF CountOK, Running
  <2> QED BY <1>1, <2>1, <2>3, <2>4, <2>5, <2>8 DEF Running
<1> QED BY <1>2, <1>3

(* The press of a button takes the focus and the grab to a window that lives. *)
LEMMA MouseDownStep ==
    ASSUME IInv, NEW under \in UnderPointer, NEW hit \in BOOLEAN, MouseDown(under, hit)
    PROVE  IInv'
<1> DEFINE t == IF grab_widget = None THEN under ELSE grab_widget
<1>1. /\ CanDispatch /\ pressed' = TRUE /\ own' = own
      /\ focus_widget' = IF grab_widget = None /\ t # Panel THEN t ELSE focus_widget
      /\ IF t # None /\ (hit \/ grab_child[t] # "none")
         THEN /\ grab_ref' = [grab_ref EXCEPT ![t] = @ + 1]
              /\ grab_child' = [grab_child EXCEPT ![t] = "active"]
              /\ grab_widget' = t
         ELSE UNCHANGED grabs
      /\ Deliver(t)
      /\ UNCHANGED <<windows, top_window, title, visible, mapped, fullscreen>>
  BY DEF MouseDown
<1>2. TypeOK /\ GoneOK /\ GrabOK
  BY DEF IInv
<1>3. t \in Pointers /\ (t # None => t \in Windows /\ Alive(t))
  <2>1. under # None => under \in Windows /\ Managed(under)
    BY DEF UnderPointer
  <2>2. under # None => under \in Windows /\ Alive(under)
    BY <2>1, AliveFacts
  <2>3. grab_widget # None => grab_widget \in Windows /\ Alive(grab_widget)
    BY AliveFacts
  <2> QED BY <2>2, <2>3 DEF Pointers
<1>4. grab_widget = None /\ t # None => visible[t]
  BY DEF UnderPointer
<1> HIDE DEF t
<1>5. /\ Running /\ Running' /\ CountOK' /\ mode' \in {"loop", "handler"}
      /\ ref' \in [Windows -> Nat] /\ held' \in Seq(Pointers) /\ modals' = modals
      /\ \A x \in Windows : Alive(x)' <=> Alive(x)
  BY <1>1, <1>3, DeliverFacts
<1>6. focus_widget' \in {focus_widget, None} \/ (focus_widget' = t /\ visible[t])
  BY <1>1, <1>4
<1>7. focus_widget' \in Pointers
  BY <1>1, <1>2, <1>3 DEF TypeOK
<1>8. /\ grab_widget' \in {grab_widget, t}
      /\ grab_ref' \in [Windows -> Nat]
      /\ grab_child' \in [Windows -> {"none", "active", "inactive"}]
      /\ \A x \in Windows : x # t => grab_ref'[x] = grab_ref[x]
      /\ \A x \in Windows : grab_ref'[x] >= grab_ref[x]
      /\ \A x \in Windows : grab_child'[x] # "none" => grab_child[x] # "none" \/ grab_ref'[x] > 0
      /\ grab_widget' # grab_widget => grab_ref'[grab_widget'] > 0
  <2>1. CASE t # None /\ (hit \/ grab_child[t] # "none")
    <3>1. t \in Windows /\ grab_ref \in [Windows -> Nat] /\ grab_ref[t] \in Nat
          /\ grab_child \in [Windows -> {"none", "active", "inactive"}]
      BY <1>2, <1>3, <2>1 DEF TypeOK
    <3>2. /\ grab_ref' = [grab_ref EXCEPT ![t] = grab_ref[t] + 1]
          /\ grab_child' = [grab_child EXCEPT ![t] = "active"] /\ grab_widget' = t
      BY <1>1, <2>1
    <3>3. /\ grab_ref' \in [Windows -> Nat] /\ grab_ref'[t] > 0
          /\ \A x \in Windows : x # t => grab_ref'[x] = grab_ref[x]
          /\ \A x \in Windows : grab_ref'[x] >= grab_ref[x]
      BY <3>1, <3>2
    <3>4. /\ grab_child' \in [Windows -> {"none", "active", "inactive"}]
          /\ \A x \in Windows : x # t => grab_child'[x] = grab_child[x]
      BY <3>1, <3>2
    <3> QED BY <3>1, <3>2, <3>3, <3>4
  <2>2. CASE ~(t # None /\ (hit \/ grab_child[t] # "none"))
    <3>1. grab_widget' = grab_widget /\ grab_ref' = grab_ref /\ grab_child' = grab_child
      BY <1>1, <2>2 DEF grabs
    <3>2. \A x \in Windows : grab_ref[x] \in Nat
      BY <1>2 DEF TypeOK
    <3> QED BY <1>2, <3>1, <3>2 DEF TypeOK
  <2> QED BY <2>1, <2>2
<1>9. TypeOK'
  BY <1>1, <1>2, <1>3, <1>5, <1>7, <1>8 DEF TypeOK
<1>10. GrabOK'
  <2>1. \A x \in Windows : grab_ref[x] \in Nat /\ grab_ref'[x] \in Nat
    BY <1>2, <1>8 DEF TypeOK
  <2>2. \A x \in Windows : grab_child'[x] # "none" => grab_ref'[x] > 0
    BY <1>2, <1>8, <2>1 DEF GrabOK
  <2>3. GrabJustified'
    <3>1. CASE grab_widget' # grab_widget
      BY <1>8, <3>1 DEF GrabJustified
    <3>2. CASE grab_widget' = grab_widget
      <4>1. grab_widget # None => grab_widget \in Windows
        BY <1>2 DEF TypeOK, Pointers
      <4> QED BY <1>1, <1>2, <1>8, <2>1, <3>2, <4>1 DEF GrabOK, GrabJustified
    <3> QED BY <3>1, <3>2
  <2> QED BY <2>2, <2>3 DEF GrabOK
<1>11. GoneOK'
  <2>1. \A x \in Windows : Managed(x)' <=> Managed(x)
    BY <1>1 DEF Managed
  <2>2. ASSUME NEW x \in Windows, ~Alive(x)
        PROVE  /\ ~Managed(x) /\ focus_widget # x /\ grab_widget # x /\ x # t
               /\ ~visible[x] /\ ~mapped[x] /\ ~fullscreen[x] /\ grab_ref[x] = 0
    BY <1>2, <1>3, <1>5, <2>2, WindowsAssumption DEF GoneOK
  <2>3. ASSUME NEW x \in Windows, ~Alive(x)
        PROVE  focus_widget' # x /\ grab_widget' # x /\ grab_ref'[x] = 0
    BY <1>6, <1>8, <2>2, <2>3, WindowsAssumption
  <2> QED BY <1>1, <1>5, <2>1, <2>2, <2>3 DEF GoneOK
<1>12. TopOK' /\ NoRepeat(windows')
  BY <1>1, <1>5, <1>6, StackKept
<1>13. PanelOK'
  BY <1>1, <1>5 DEF IInv, PanelOK, Managed
<1> QED BY <1>5, <1>9, <1>10, <1>11, <1>12, <1>13 DEF IInv

(* The grab that ends with a release. *)
LEMMA UngrabFacts ==
    ASSUME TypeOK, GrabOK, NEW t \in Windows, grab_ref[t] > 0, Ungrab(t),
           visible' = visible
    PROVE  /\ GrabOK' /\ grab_widget' \in {grab_widget, None}
           /\ grab_ref' \in [Windows -> Nat]
           /\ grab_child' \in [Windows -> {"none", "active", "inactive"}]
           /\ \A x \in Windows : grab_ref[x] = 0 => grab_ref'[x] = 0
<1>1. /\ grab_ref' = [grab_ref EXCEPT ![t] = grab_ref[t] - 1]
      /\ grab_child' = [grab_child EXCEPT ![t] = "none"]
      /\ grab_widget' = IF grab_ref[t] = 1 /\ grab_widget = t THEN None ELSE grab_widget
  BY DEF Ungrab
<1>2. /\ grab_ref \in [Windows -> Nat] /\ grab_ref[t] \in Nat /\ grab_ref[t] > 0
      /\ grab_child \in [Windows -> {"none", "active", "inactive"}]
  BY DEF TypeOK
<1>3. /\ grab_ref' \in [Windows -> Nat] /\ grab_ref'[t] = grab_ref[t] - 1
      /\ \A x \in Windows : x # t => grab_ref'[x] = grab_ref[x]
  BY <1>1, <1>2
<1>4. /\ grab_child' \in [Windows -> {"none", "active", "inactive"}]
      /\ grab_child'[t] = "none"
      /\ \A x \in Windows : x # t => grab_child'[x] = grab_child[x]
  BY <1>1, <1>2
<1>5. \A x \in Windows : grab_child'[x] # "none" => grab_ref'[x] > 0
  BY <1>3, <1>4 DEF GrabOK
<1>6. ASSUME grab_widget' # None
      PROVE  \/ grab_ref'[grab_widget'] > 0
             \/ Type[grab_widget'] = "menu_panel" /\ visible[grab_widget']
  <2>1. grab_widget' = grab_widget /\ grab_widget # None /\ grab_widget \in Windows
    BY <1>1, <1>6 DEF TypeOK, Pointers
  <2>2. CASE grab_widget = t
    <3>1. grab_ref[t] # 1
      BY <1>1, <1>6, <2>2
    <3> QED BY <1>2, <1>3, <2>1, <2>2, <3>1
  <2>3. CASE grab_widget # t
    BY <1>3, <2>1, <2>3 DEF GrabOK, GrabJustified
  <2> QED BY <2>2, <2>3
<1>7. GrabOK'
  BY <1>5, <1>6 DEF GrabOK, GrabJustified
<1>8. \A x \in Windows : grab_ref[x] = 0 => grab_ref'[x] = 0
  BY <1>2, <1>3
<1> QED BY <1>1, <1>3, <1>4, <1>7, <1>8

(* The target of a key or of a button that is released is alive. *)
LEMMA EventStep ==
    ASSUME IInv, CanDispatch, NEW t \in Pointers, Deliver(t), t # None => Alive(t),
           UNCHANGED <<windows, top_window, focus_widget, title, visible, mapped, fullscreen, own>>,
           grab_widget' \in {grab_widget, None}, grab_ref' \in [Windows -> Nat],
           grab_child' \in [Windows -> {"none", "active", "inactive"}],
           \A x \in Windows : grab_ref[x] = 0 => grab_ref'[x] = 0,
           GrabOK', pressed' \in BOOLEAN
    PROVE  IInv'
<1>1. TypeOK /\ GoneOK
  BY DEF IInv
<1>2. /\ Running /\ Running' /\ CountOK' /\ mode' \in {"loop", "handler"}
      /\ ref' \in [Windows -> Nat] /\ held' \in Seq(Pointers) /\ modals' = modals
      /\ \A x \in Windows : Alive(x)' <=> Alive(x)
  BY DeliverFacts
<1>3. TypeOK'
  <2>1. grab_widget' \in Pointers
    BY <1>1 DEF TypeOK, Pointers
  <2> QED BY <1>1, <1>2, <2>1 DEF TypeOK, Pointers
<1>4. GoneOK'
  <2>1. \A x \in Windows : Managed(x)' <=> Managed(x)
    BY DEF Managed
  <2> QED BY <1>1, <1>2, <2>1, WindowsAssumption DEF GoneOK
<1>5. TopOK' /\ NoRepeat(windows')
  BY <1>2, StackKept
<1>6. PanelOK'
  BY <1>2 DEF IInv, PanelOK, Managed
<1> QED BY <1>2, <1>3, <1>4, <1>5, <1>6 DEF IInv

(* The release of the button. *)
LEMMA MouseUpStep ==
    ASSUME IInv, NEW under \in UnderPointer, NEW always \in BOOLEAN, MouseUp(under, always)
    PROVE  IInv'
<1> DEFINE t == IF grab_widget = None THEN under ELSE grab_widget
<1>1. /\ CanDispatch /\ pressed' = FALSE /\ own' = own
      /\ IF t # None /\ (grab_child[t] = "active" \/ (grab_child[t] = "inactive" /\ always))
         THEN Ungrab(t) ELSE UNCHANGED grabs
      /\ Deliver(t)
      /\ UNCHANGED <<windows, top_window, focus_widget, title, visible, mapped, fullscreen>>
  BY DEF MouseUp, stack
<1>2. TypeOK /\ GrabOK
  BY DEF IInv
<1>3. t \in Pointers /\ (t # None => t \in Windows /\ Alive(t))
  <2>1. under # None => under \in Windows /\ Managed(under)
    BY DEF UnderPointer
  <2>2. under # None => under \in Windows /\ Alive(under)
    BY <2>1, AliveFacts
  <2>3. grab_widget # None => grab_widget \in Windows /\ Alive(grab_widget)
    BY AliveFacts
  <2> QED BY <2>2, <2>3 DEF Pointers
<1> HIDE DEF t
<1>4. /\ GrabOK' /\ grab_widget' \in {grab_widget, None}
      /\ grab_ref' \in [Windows -> Nat]
      /\ grab_child' \in [Windows -> {"none", "active", "inactive"}]
      /\ \A x \in Windows : grab_ref[x] = 0 => grab_ref'[x] = 0
  <2>1. CASE t # None /\ (grab_child[t] = "active" \/ (grab_child[t] = "inactive" /\ always))
    <3>1. t \in Windows /\ grab_ref[t] > 0 /\ Ungrab(t)
      BY <1>1, <1>2, <1>3, <2>1 DEF GrabOK
    <3> QED BY <1>1, <1>2, <3>1, UngrabFacts
  <2>2. CASE ~(t # None /\ (grab_child[t] = "active" \/ (grab_child[t] = "inactive" /\ always)))
    <3>1. grab_widget' = grab_widget /\ grab_ref' = grab_ref /\ grab_child' = grab_child
      BY <1>1, <2>2 DEF grabs
    <3> QED BY <1>1, <1>2, <3>1 DEF TypeOK, GrabOK, GrabJustified
  <2> QED BY <2>1, <2>2
<1>5. pressed' \in BOOLEAN
  BY <1>1
<1> QED BY <1>1, <1>3, <1>4, <1>5, EventStep

(* A key. *)
LEMMA KeyStep ==
    ASSUME IInv, NEW leaves \in BOOLEAN, Key(leaves)
    PROVE  IInv'
<1> DEFINE t == IF grab_widget # None THEN grab_widget
                ELSE IF focus_widget # None THEN focus_widget
                ELSE IF windows # <<>> THEN windows[Len(windows)] ELSE None
<1>1. /\ CanDispatch
      /\ UNCHANGED <<windows, top_window, focus_widget, title, visible, mapped, fullscreen,
                     own, grab_widget, grab_ref, pressed>>
      /\ grab_child' = IF leaves /\ t # None /\ grab_child[t] = "active"
                       THEN [grab_child EXCEPT ![t] = "inactive"] ELSE grab_child
      /\ Deliver(t)
  BY DEF Key, stack
<1>2. TypeOK /\ GrabOK
  BY DEF IInv
<1>3. t \in Pointers /\ (t # None => t \in Windows /\ Alive(t))
  <2>1. ASSUME windows # <<>>
        PROVE  windows[Len(windows)] \in Windows /\ Alive(windows[Len(windows)])
    <3>1. windows \in Seq(Windows)
      BY <1>2 DEF TypeOK
    <3>2. Len(windows) \in DOMAIN windows /\ windows[Len(windows)] \in Windows
      BY <2>1, <3>1
    <3>3. Managed(windows[Len(windows)])
      BY <3>2 DEF Managed
    <3> QED BY <3>2, <3>3, AliveFacts
  <2>2. focus_widget # None => focus_widget \in Windows /\ Alive(focus_widget)
    BY AliveFacts
  <2>3. grab_widget # None => grab_widget \in Windows /\ Alive(grab_widget)
    BY AliveFacts
  <2> QED BY <2>1, <2>2, <2>3 DEF Pointers
<1> HIDE DEF t
<1>4. /\ grab_child' \in [Windows -> {"none", "active", "inactive"}]
      /\ \A x \in Windows : grab_child'[x] # "none" => grab_child[x] # "none"
  <2>1. CASE leaves /\ t # None /\ grab_child[t] = "active"
    <3>1. grab_child' = [grab_child EXCEPT ![t] = "inactive"]
      BY <1>1, <2>1
    <3> QED BY <1>2, <1>3, <2>1, <3>1 DEF TypeOK
  <2>2. CASE ~(leaves /\ t # None /\ grab_child[t] = "active")
    BY <1>1, <1>2, <2>2 DEF TypeOK
  <2> QED BY <2>1, <2>2
<1>5. GrabOK'
  BY <1>1, <1>2, <1>4 DEF GrabOK, GrabJustified
<1>6. grab_ref' \in [Windows -> Nat] /\ pressed' \in BOOLEAN
  BY <1>1, <1>2 DEF TypeOK
<1> QED BY <1>1, <1>3, <1>4, <1>5, <1>6, EventStep

(* The handler of a source holds no window. *)
LEMMA SourceFiresStep ==
    ASSUME IInv, SourceFires
    PROVE  IInv'
<1>1. /\ Running /\ Running' /\ mode = "loop" /\ mode' = "handler"
      /\ held' = Append(held, None)
      /\ UNCHANGED <<windows, top_window, focus_widget, title, visible, mapped, fullscreen,
                     grab_widget, grab_ref, grab_child, ref, own, modals, pressed>>
  BY DEF SourceFires, CanDispatch, Running, stack, grabs
<1>2. TypeOK /\ CountOK /\ GoneOK /\ GrabOK /\ PanelOK
  BY <1>1 DEF IInv
<1>3. held \in Seq(Pointers) /\ None \in Pointers
  BY <1>2 DEF TypeOK, Pointers
<1>4. /\ held' \in Seq(Pointers) /\ Len(held') = Len(held) + 1
      /\ \A x \in Windows : Occ(held', x) = Occ(held, x)
  <2>1. \A x \in Windows : Occ(held', x) = Occ(held, x) + (IF None = x THEN 1 ELSE 0)
    BY <1>1, <1>3, OccAppend
  <2>2. \A x \in Windows : Occ(held, x) \in Nat /\ x # None
    BY AliveFacts, WindowsAssumption
  <2>3. \A x \in Windows : Occ(held', x) = Occ(held, x)
    BY <2>1, <2>2
  <2> QED BY <1>1, <1>3, <2>3
<1>5. CountOK'
  <2>1. Len(held') = Len(modals) + 1
    <3>1. Len(modals) \in Nat /\ Len(held) = Len(modals)
      <4>1. Len(modals) \in Nat
        BY <1>2 DEF TypeOK
      <4> QED BY <1>1, <1>2, <4>1 DEF CountOK
    <3> QED BY <1>4, <3>1
  <2> QED BY <1>1, <1>2, <1>4, <2>1 DEF CountOK
<1>6. TypeOK'
  BY <1>1, <1>2, <1>4 DEF TypeOK
<1>7. GoneOK' /\ GrabOK' /\ PanelOK'
  BY <1>1, <1>2 DEF GoneOK, GrabOK, GrabJustified, PanelOK, Alive, Managed
<1> QED BY <1>1, <1>5, <1>6, <1>7, StackKept DEF IInv

-----------------------------------------------------------------------------
(* The end.                                                                *)

(* ftk_deinit begins when no dispatch is under way. *)
LEMMA DeinitStep ==
    ASSUME IInv, Deinit
    PROVE  IInv'
<1>1. /\ mode = "loop" /\ mode' = "dieing" /\ held = <<>>
      /\ UNCHANGED <<windows, top_window, focus_widget, title, visible, mapped, fullscreen,
                     grab_widget, grab_ref, grab_child, ref, own, held, modals, pressed>>
  BY DEF Deinit, stack, grabs
<1>2. ~Running'
  BY <1>1 DEF Running
<1>3. TypeOK' /\ NoRepeat(windows')
  BY <1>1 DEF IInv, TypeOK, NoRepeat
<1>4. CountOK'
  BY <1>1 DEF IInv, CountOK
<1>5. GoneOK' /\ GrabOK'
  BY <1>1, <1>2 DEF IInv, GoneOK, GrabOK, GrabJustified, Alive, Managed
<1> QED BY <1>2, <1>3, <1>4, <1>5 DEF IInv

(* The manager goes, and with it the window at the bottom. *)
LEMMA DestroyBottomStep ==
    ASSUME IInv, DestroyBottom
    PROVE  IInv'
<1> DEFINE w == windows[1]
<1>1. /\ mode = "dieing" /\ mode' \in {"dieing", "gone"} /\ windows # <<>>
      /\ windows' = Without(w)
      /\ focus_widget' = IF focus_widget = w THEN None ELSE focus_widget
      /\ grab_widget' = IF grab_widget = w THEN None ELSE grab_widget
      /\ ref' = [ref EXCEPT ![w] = ref[w] - 1]
      /\ own' = [own EXCEPT ![w] = FALSE]
      /\ visible' = [visible EXCEPT ![w] = FALSE]
      /\ UNCHANGED <<top_window, title, mapped, fullscreen, grab_ref, grab_child, held,
                     modals, pressed>>
  BY DEF DestroyBottom
<1>2. TypeOK /\ NoRepeat(windows) /\ CountOK /\ GoneOK /\ GrabOK
  BY DEF IInv
<1>3. ~Running /\ ~Running' /\ held = <<>>
  BY <1>1, <1>2 DEF Running, CountOK
<1>4. w \in Windows /\ Managed(w)
  <2>1. windows \in Seq(Windows)
    BY <1>2 DEF TypeOK
  <2>2. 1 \in DOMAIN windows
    BY <1>1, <2>1
  <2> QED BY <2>1, <2>2 DEF Managed
<1>5. Alive(w)
  BY <1>4, AliveFacts
<1>6. \A x \in Windows : Occ(held, x) = 0
  BY <1>3, OccEmpty
<1>7. \A x \in Windows : ref[x] = IF own[x] THEN 1 ELSE 0
  BY <1>2, <1>6 DEF CountOK
<1>8. modals = <<>>
  <2>1. modals \in Seq(Windows) /\ Len(held) = 0
    BY <1>2, <1>3 DEF TypeOK
  <2>2. Len(modals) = 0
    <3>1. Len(held) = Len(modals) + (IF mode = "handler" THEN 1 ELSE 0)
      BY <1>2 DEF CountOK
    <3>2. Len(modals) \in Nat
      BY <2>1
    <3> QED BY <1>1, <2>1, <3>1, <3>2
  <2> QED BY <2>1, <2>2
<1>9. /\ windows' \in Seq(Windows) /\ NoRepeat(windows')
      /\ \A x : Holds(windows', x) <=> Holds(windows, x) /\ x # w
  BY <1>1, <1>2, <1>4, WithoutFacts DEF TypeOK
<1> HIDE DEF w
<1>10. ref[w] = 1
  BY <1>4, <1>5, <1>7 DEF Alive
<1>11. /\ ref' \in [Windows -> Nat] /\ ref'[w] = 0
       /\ \A x \in Windows : x # w => ref'[x] = ref[x]
  BY <1>1, <1>2, <1>4, <1>10 DEF TypeOK
<1>12. /\ own' \in [Windows -> BOOLEAN] /\ ~own'[w]
       /\ \A x \in Windows : x # w => own'[x] = own[x]
  BY <1>1, <1>2, <1>4 DEF TypeOK
<1>13. /\ visible' \in [Windows -> BOOLEAN]
       /\ \A x \in Windows : x # w => visible'[x] = visible[x]
  BY <1>1, <1>2, <1>4 DEF TypeOK
<1>14. focus_widget' \in Pointers /\ grab_widget' \in Pointers
  BY <1>1, <1>2 DEF TypeOK, Pointers
<1>15. TypeOK'
  BY <1>1, <1>2, <1>9, <1>11, <1>12, <1>13, <1>14 DEF TypeOK
<1>16. CountOK'
  <2>1. \A x \in Windows : ref'[x] = (IF own'[x] THEN 1 ELSE 0) + Occ(held', x)
    <3>1. \A x \in Windows : Occ(held', x) = 0
      BY <1>1, <1>6
    <3>2. \A x \in Windows : ref'[x] = IF own'[x] THEN 1 ELSE 0
      BY <1>7, <1>11, <1>12
    <3>3. \A x \in Windows : ref'[x] \in Nat
      BY <1>11
    <3> QED BY <3>1, <3>2, <3>3
  <2>2. held' = <<>> /\ modals' = <<>> /\ mode' # "handler"
    BY <1>1, <1>3, <1>8
  <2> QED BY <1>1, <1>8, <2>1, <2>2 DEF CountOK, Running
<1>17. GoneOK'
  <2>1. \A x \in Windows : ~Alive(x)' => x = w \/ ~Alive(x)
    BY <1>11 DEF Alive
  <2>2. \A x \in Windows : x # w /\ ~Alive(x) => ~Holds(windows', x) /\ focus_widget' # x
                                                   /\ grab_widget' # x
    BY <1>1, <1>2, <1>9, ManagedHolds, WindowsAssumption DEF GoneOK
  <2>3. ~Holds(windows', w) /\ focus_widget' # w /\ grab_widget' # w
    BY <1>1, <1>4, <1>9, WindowsAssumption
  <2> QED BY <1>3, <2>1, <2>2, <2>3, ManagedHoldsPrime DEF GoneOK
<1>18. GrabOK'
  <2>1. grab_widget' # None => grab_widget' = grab_widget /\ grab_widget \in Windows \ {w}
    BY <1>1, <1>2 DEF TypeOK, Pointers
  <2> QED BY <1>1, <1>2, <1>13, <2>1 DEF GrabOK, GrabJustified
<1> QED BY <1>3, <1>9, <1>15, <1>16, <1>17, <1>18 DEF IInv

-----------------------------------------------------------------------------
(* The specification.                                                      *)

(* ftk_init leaves the status panel alone on the stack. *)
LEMMA InitIInv == Init => IInv
<1> SUFFICES ASSUME Init PROVE IInv
  OBVIOUS
<1>1. /\ windows = <<Panel>>
      /\ top_window = None /\ focus_widget = None /\ grab_widget = None /\ title = None
      /\ visible = [w \in Windows |-> w = Panel]
      /\ mapped = [w \in Windows |-> w = Panel]
      /\ fullscreen = [w \in Windows |-> FALSE]
      /\ grab_ref = [w \in Windows |-> 0]
      /\ grab_child = [w \in Windows |-> "none"]
      /\ ref = [w \in Windows |-> IF w = Panel THEN 1 ELSE 0]
      /\ own = [w \in Windows |-> w = Panel]
      /\ held = <<None>> /\ modals = <<>> /\ pressed = FALSE /\ mode = "handler"
  BY DEF Init
<1>2. windows \in Seq(Windows) /\ DOMAIN windows = {1} /\ windows[1] = Panel
  BY <1>1, PanelType
<1>3. TypeOK
  <2>1. /\ visible \in [Windows -> BOOLEAN] /\ mapped \in [Windows -> BOOLEAN]
        /\ fullscreen \in [Windows -> BOOLEAN] /\ own \in [Windows -> BOOLEAN]
    BY <1>1
  <2>2. grab_ref \in [Windows -> Nat] /\ ref \in [Windows -> Nat]
    BY <1>1
  <2>3. grab_child \in [Windows -> {"none", "active", "inactive"}]
    BY <1>1
  <2>4. /\ top_window \in Pointers /\ focus_widget \in Pointers
        /\ grab_widget \in Pointers /\ title \in Pointers
        /\ held \in Seq(Pointers) /\ modals \in Seq(Windows)
    BY <1>1 DEF Pointers
  <2> QED BY <1>1, <1>2, <2>1, <2>2, <2>3, <2>4 DEF TypeOK
<1>4. NoRepeat(windows)
  BY <1>2 DEF NoRepeat
<1>5. CountOK
  <2>1. \A w \in Windows : Occ(held, w) = 0
    BY <1>1, OccSingleton, WindowsAssumption
  <2>2. ASSUME NEW w \in Windows PROVE ref[w] = (IF own[w] THEN 1 ELSE 0) + Occ(held, w)
    <3>1. ref[w] = (IF w = Panel THEN 1 ELSE 0) /\ (own[w] <=> w = Panel)
      BY <1>1
    <3> QED BY <2>1, <3>1
  <2>3. Len(held) = Len(modals) + 1
    BY <1>1
  <2> QED BY <1>1, <2>2, <2>3 DEF CountOK, Running
<1>6. GoneOK
  <2>1. \A w \in Windows : ~Alive(w) => w # Panel
    BY <1>1 DEF Alive
  <2>2. \A w \in Windows : Managed(w) => w = Panel
    BY <1>2 DEF Managed
  <2> QED BY <1>1, <2>1, <2>2, WindowsAssumption DEF GoneOK
<1>7. GrabOK
  BY <1>1 DEF GrabOK, GrabJustified
<1>8. top_window = TopVisible(windows, visible)
  <2>1. \A k \in DOMAIN windows : ~Shown(visible, windows[k])
    BY <1>2, PanelType DEF Shown
  <2>2. IsTop(windows, visible, None)
    BY <2>1 DEF IsTop
  <2> QED BY <1>1, <1>2, <2>2, TopIs
<1>9. TopOK
  <2>1. \A w \in Windows : ~(IsMain(w) /\ mapped[w])
    BY <1>1, PanelType
  <2> QED BY <1>1, <1>8, <2>1 DEF TopOK
<1>10. PanelOK
  BY <1>1, <1>2, PanelType DEF PanelOK, Managed
<1> QED BY <1>3, <1>4, <1>5, <1>6, <1>7, <1>9, <1>10 DEF IInv

(* A step that changes nothing. *)
LEMMA StutterStep ==
    ASSUME IInv, UNCHANGED vars
    PROVE  IInv'
<1>1. UNCHANGED <<windows, top_window, focus_widget, title, visible, mapped, fullscreen,
                  grab_widget, grab_ref, grab_child, ref, own, held, modals, mode, pressed>>
  BY DEF vars, stack, grabs, calls
<1>2. TypeOK' /\ NoRepeat(windows') /\ CountOK'
  BY <1>1 DEF IInv, TypeOK, NoRepeat, CountOK, Running
<1>3. GoneOK' /\ GrabOK'
  BY <1>1 DEF IInv, GoneOK, GrabOK, GrabJustified, Alive, Managed, Running
<1>4. TopVisible(windows, visible)' = TopVisible(windows, visible)
  BY <1>1 DEF TopVisible, IsMain
<1>5. Running' => TopOK' /\ PanelOK'
  BY <1>1, <1>4 DEF IInv, TopOK, PanelOK, Managed, Running, IsMain
<1> QED BY <1>2, <1>3, <1>5 DEF IInv

(* Every operation preserves the invariant. *)
LEMMA IInvStep == IInv /\ [Next]_vars => IInv'
<1> SUFFICES ASSUME IInv, [Next]_vars PROVE IInv'
  OBVIOUS
<1>1. CASE Application
  <2>1. ASSUME NEW w \in Windows,
               \/ Create(w) \/ AppShow(w) \/ DialogRun(w) \/ Hide(w) \/ AppUnref(w)
               \/ SetFullscreen(w)
        PROVE  IInv'
    BY <2>1, CreateStep, ShowStep, DialogRunStep, HideStep, AppUnrefStep, SetFullscreenStep
  <2>2. ASSUME NEW w \in Windows, NEW offset \in -MaxWindows .. MaxWindows,
               Restack(w, offset)
        PROVE  IInv'
    <3>1. offset \in Int
      BY BoundsAssumption
    <3> QED BY <2>2, <3>1, RestackStep
  <2> QED BY <1>1, <2>1, <2>2, CloseTopStep DEF Application
<1>2. CASE Input
  BY <1>2, MouseDownStep, MouseUpStep, KeyStep, SourceFiresStep DEF Input
<1>3. CASE HandlerReturn
  BY <1>3, HandlerReturnStep
<1>4. CASE DialogReturn
  BY <1>4, DialogReturnStep
<1>5. CASE Deinit
  BY <1>5, DeinitStep
<1>6. CASE DestroyBottom
  BY <1>6, DestroyBottomStep
<1>7. CASE Terminated \/ UNCHANGED vars
  BY <1>7, StutterStep DEF Terminated
<1> QED BY <1>1, <1>2, <1>3, <1>4, <1>5, <1>6, <1>7 DEF Next

(* The invariant always holds. *)
THEOREM Invariance == Spec => []IInv
<1>1. Init => IInv
  BY InitIInv
<1>2. IInv /\ [Next]_vars => IInv'
  BY IInvStep
<1> QED BY <1>1, <1>2, PTL DEF Spec

(* Types: every variable keeps its type, whatever the windows and the bounds. *)
THEOREM WndTypes == Spec => []TypeOK
<1>1. IInv => TypeOK
  BY DEF IInv
<1> QED BY <1>1, Invariance, PTL

(***************************************************************************)
(* Whatever handlers do with windows, nothing that is freed is in the      *)
(* stack, has the focus or the grab, is on top, is the target of a         *)
(* dispatch that is under way or the dialog of an ftk_dialog_run.          *)
(***************************************************************************)
THEOREM PointersStayAlive == Spec => []PointersAlive
<1>1. ASSUME IInv PROVE PointersAlive
  <2>1. TypeOK /\ CountOK
    BY <1>1 DEF IInv
  <2>2. \A k \in DOMAIN windows : Alive(windows[k])
    <3>1. \A k \in DOMAIN windows : windows[k] \in Windows /\ Managed(windows[k])
      BY <2>1 DEF TypeOK, Managed
    <3> QED BY <1>1, <3>1, AliveFacts
  <2>3. (Running /\ top_window # None) => Alive(top_window)
    <3> SUFFICES ASSUME Running, top_window # None PROVE Alive(top_window)
      OBVIOUS
    <3>1. top_window = TopVisible(windows, visible)
      BY <1>1 DEF IInv, TopOK
    <3>2. top_window \in Windows /\ Managed(top_window)
      BY <2>1, <3>1, TopFacts, ManagedHolds DEF TypeOK
    <3> QED BY <1>1, <3>2, AliveFacts
  <2>4. \A k \in DOMAIN modals : Alive(modals[k])
    <3>1. \A k \in DOMAIN modals : modals[k] \in Windows /\ own[modals[k]]
      BY <2>1 DEF TypeOK, CountOK
    <3> QED BY <1>1, <3>1, AliveFacts
  <2>5. \A p \in {focus_widget, grab_widget} : p # None => Alive(p)
    BY <1>1, AliveFacts
  <2>6. \A k \in DOMAIN held : held[k] # None => Alive(held[k])
    BY <1>1, AliveFacts
  <2> QED BY <2>2, <2>3, <2>4, <2>5, <2>6 DEF PointersAlive
<1> QED BY <1>1, Invariance, PTL

(***************************************************************************)
(* Whatever is shown, hidden, restacked or closed, in whatever order, the  *)
(* window the manager has mapped is the topmost visible one, and no other. *)
(***************************************************************************)
THEOREM OneIsMapped == Spec => []OneMapped
<1>1. IInv => OneMapped
  BY DEF IInv, TopOK, OneMapped
<1> QED BY <1>1, Invariance, PTL

(* Keys do not go to a hidden window while there is one to show. *)
THEOREM FocusOnShown == Spec => []FocusFollowsTop
<1>1. IInv => FocusFollowsTop
  BY DEF IInv, TopOK, FocusFollowsTop
<1> QED BY <1>1, Invariance, PTL

(* The close button never closes a covered window, or one that has gone. *)
THEOREM CloseIsTop == Spec => []CloseButtonClosesTop
<1>1. IInv => CloseButtonClosesTop
  BY DEF IInv, TopOK, CloseButtonClosesTop
<1> QED BY <1>1, Invariance, PTL

(* The status panel makes room for a fullscreen window, and comes back. *)
THEOREM PanelMakesRoom == Spec => []PanelFollowsFullscreen
<1>1. ASSUME IInv PROVE PanelFollowsFullscreen
  <2> SUFFICES ASSUME Running, top_window # None, Type[top_window] = "window"
               PROVE  mapped[Panel] = ~fullscreen[top_window]
    BY DEF PanelFollowsFullscreen
  <2>1. mapped[Panel] <=> ~fullscreen[top_window]
    BY <1>1 DEF IInv, TopOK
  <2>2. mapped[Panel] \in BOOLEAN
    BY <1>1, PanelType DEF IInv, TypeOK
  <2> QED BY <2>1, <2>2
<1> QED BY <1>1, Invariance, PTL

(* A grab always has a child or a menu that is shown behind it. *)
THEOREM GrabIsJustified == Spec => []GrabJustified
<1>1. IInv => GrabJustified
  BY DEF IInv, GrabOK
<1> QED BY <1>1, Invariance, PTL

-----------------------------------------------------------------------------
(* Grabs without a menu panel.                                             *)

NoMenus == \A w \in Windows : Type[w] # "menu_panel"

(* A window with an unreleased grab has the mouse of the manager too. *)
GrabHeld == Running => \A w \in Windows : grab_ref[w] > 0 => grab_widget = w

(* Only a press and a release touch a grab, and each does both halves. *)
LEMMA GrabHeldStep ==
    ASSUME NoMenus, IInv, GrabHeld, [Next]_vars
    PROVE  GrabHeld'
<1>1. TypeOK /\ GrabOK /\ IInv'
  BY IInvStep DEF IInv
<1>2. grab_widget # None => grab_widget \in Windows /\ grab_ref[grab_widget] > 0
  BY <1>1 DEF NoMenus, GrabOK, GrabJustified, TypeOK, Pointers
<1>3. ASSUME UNCHANGED <<grab_widget, grab_ref>>, Running' => Running PROVE GrabHeld'
  BY <1>3 DEF GrabHeld
<1>4. ASSUME NEW w \in Windows, NEW t, Unref(w, t), Running
      PROVE  GrabHeld'
  <2>1. CASE ref[w] # 1
    BY <1>4, <2>1 DEF GrabHeld, Unref, grabs, Running
  <2>2. CASE ref[w] = 1
    <3>1. /\ grab_widget' = IF grab_widget = w THEN None ELSE grab_widget
          /\ grab_ref' = [grab_ref EXCEPT ![w] = 0]
      BY <1>4, <2>2 DEF Unref, Destroy
    <3>2. \A x \in Windows : grab_ref'[x] > 0 => x # w /\ grab_ref[x] > 0
      BY <1>1, <3>1 DEF TypeOK
    <3> QED BY <1>4, <3>1, <3>2 DEF GrabHeld
  <2> QED BY <2>1, <2>2
<1>5. ASSUME NEW w \in Windows,
             \/ Create(w) \/ AppShow(w) \/ DialogRun(w) \/ Hide(w)
             \/ SetFullscreen(w) \/ \E offset \in Int : Restack(w, offset)
      PROVE  GrabHeld'
  <2>1. Running
    BY <1>5 DEF Create, AppShow, DialogRun, Hide, SetFullscreen, Restack, InHandler, Running
  <2>2. UNCHANGED <<grab_widget, grab_ref>>
    BY <1>5 DEF Create, AppShow, DialogRun, Hide, SetFullscreen, Restack, Show, grabs, NoMenus
  <2> QED BY <1>3, <2>1, <2>2
<1>6. ASSUME NEW w \in Windows, AppUnref(w) PROVE GrabHeld'
  BY <1>4, <1>6 DEF AppUnref, InHandler, Running
<1>7. CASE CloseTop
  <2>1. Running /\ Unref(title, None) /\ title # None
    BY <1>7 DEF CloseTop, InHandler, Running
  <2>2. title \in Windows
    BY <1>1, <2>1 DEF TypeOK, Pointers
  <2> QED BY <1>4, <2>1, <2>2
<1>8. ASSUME NEW under \in UnderPointer, NEW hit \in BOOLEAN, MouseDown(under, hit)
      PROVE  GrabHeld'
  <2> DEFINE t == IF grab_widget = None THEN under ELSE grab_widget
  <2>1. /\ Running
        /\ \/ /\ t # None
              /\ grab_ref' = [grab_ref EXCEPT ![t] = grab_ref[t] + 1] /\ grab_widget' = t
           \/ UNCHANGED <<grab_widget, grab_ref>>
    BY <1>8 DEF MouseDown, CanDispatch, Running, grabs
  <2>2. grab_widget \in {None, t}
    OBVIOUS
  <2> HIDE DEF t
  <2>3. CASE UNCHANGED <<grab_widget, grab_ref>>
    BY <1>3, <2>1, <2>3
  <2>4. CASE t # None /\ grab_ref' = [grab_ref EXCEPT ![t] = grab_ref[t] + 1] /\ grab_widget' = t
    <3>1. \A x \in Windows : x # t => grab_ref'[x] = grab_ref[x]
      BY <1>1, <2>4 DEF TypeOK
    <3>2. \A x \in Windows : grab_ref[x] > 0 => x = t
      BY <2>1, <2>2, WindowsAssumption DEF GrabHeld
    <3> QED BY <2>4, <3>1, <3>2 DEF GrabHeld
  <2> QED BY <2>1, <2>3, <2>4
<1>9. ASSUME NEW under \in UnderPointer, NEW always \in BOOLEAN, MouseUp(under, always)
      PROVE  GrabHeld'
  <2>1. /\ Running
        /\ \/ \E t \in Windows : Ungrab(t) /\ grab_child[t] # "none"
           \/ UNCHANGED <<grab_widget, grab_ref>>
    <3>1. under # None => under \in Windows
      BY DEF UnderPointer
    <3> QED BY <1>2, <1>9, <3>1 DEF MouseUp, CanDispatch, Running, grabs
  <2>2. CASE UNCHANGED <<grab_widget, grab_ref>>
    BY <1>3, <2>1, <2>2
  <2>3. ASSUME NEW t \in Windows, Ungrab(t), grab_child[t] # "none" PROVE GrabHeld'
    <3>1. /\ grab_ref' = [grab_ref EXCEPT ![t] = grab_ref[t] - 1]
          /\ grab_widget' = IF grab_ref[t] = 1 /\ grab_widget = t THEN None ELSE grab_widget
      BY <2>3 DEF Ungrab
    <3>2. grab_ref[t] \in Nat /\ grab_ref[t] > 0 /\ grab_ref \in [Windows -> Nat]
      BY <1>1, <2>3 DEF TypeOK, GrabOK
    <3>3. grab_ref'[t] = grab_ref[t] - 1 /\ \A x \in Windows : x # t => grab_ref'[x] = grab_ref[x]
      BY <3>1, <3>2
    <3>4. \A x \in Windows : grab_ref[x] > 0 => grab_widget = x
      BY <2>1 DEF GrabHeld
    <3>5. grab_widget = t
      BY <3>2, <3>4
    <3>6. ASSUME NEW x \in Windows, grab_ref'[x] > 0 PROVE grab_widget' = x
      <4>1. CASE x = t
        <5>1. grab_ref[t] # 1
          BY <3>2, <3>3, <3>6, <4>1
        <5> QED BY <3>1, <3>5, <4>1, <5>1
      <4>2. CASE x # t
        <5>1. grab_ref[x] > 0
          BY <3>3, <3>6, <4>2
        <5> QED BY <3>4, <3>5, <4>2, <5>1
      <4> QED BY <4>1, <4>2
    <3> QED BY <3>6 DEF GrabHeld
  <2> QED BY <2>1, <2>2, <2>3
<1>10. CASE (\E leaves \in BOOLEAN : Key(leaves)) \/ SourceFires
  BY <1>3, <1>10 DEF Key, SourceFires, CanDispatch, Running, grabs
<1>11. CASE HandlerReturn
  <2>1. Running /\ held # <<>>
    BY <1>11 DEF HandlerReturn, InHandler, Running
  <2>2. held[Len(held)] \in Pointers
    <3>1. held \in Seq(Pointers)
      BY <1>1 DEF TypeOK
    <3>2. Len(held) \in DOMAIN held
      BY <2>1, <3>1
    <3> QED BY <3>1, <3>2
  <2>3. CASE held[Len(held)] = None
    BY <1>3, <1>11, <2>1, <2>3 DEF HandlerReturn, grabs
  <2>4. CASE held[Len(held)] # None
    <3>1. held[Len(held)] \in Windows /\ Unref(held[Len(held)], title)
      BY <1>11, <2>2, <2>4 DEF HandlerReturn, Pointers
    <3> QED BY <1>4, <2>1, <3>1
  <2> QED BY <2>3, <2>4
<1>12. CASE DialogReturn \/ Terminated \/ UNCHANGED vars
  BY <1>3, <1>12 DEF DialogReturn, Terminated, Running, grabs, vars, calls
<1>13. CASE Deinit \/ DestroyBottom
  <2>1. ~Running'
    BY <1>13 DEF Deinit, DestroyBottom, Running
  <2> QED BY <2>1 DEF GrabHeld
<1>14. CASE Application
  <2>1. \A offset \in -MaxWindows .. MaxWindows : offset \in Int
    BY BoundsAssumption
  <2> QED BY <1>5, <1>6, <1>7, <1>14, <2>1 DEF Application
<1>15. CASE Input
  BY <1>8, <1>9, <1>10, <1>15 DEF Input
<1> QED BY <1>10, <1>11, <1>12, <1>13, <1>14, <1>15 DEF Next

(***************************************************************************)
(* In a program without menu panels, whose grab is not a child's, no       *)
(* window keeps the mouse without a child that asked for it, and no child  *)
(* loses the rest of its click.                                            *)
(***************************************************************************)
THEOREM GrabsPaired ==
    ASSUME NoMenus
    PROVE  Spec => []GrabPaired
<1>1. Init => GrabHeld
  BY DEF Init, GrabHeld
<1>2. IInv /\ GrabHeld /\ [Next]_vars => GrabHeld'
  BY GrabHeldStep
<1>3. IInv /\ GrabHeld => GrabPaired
  <2> SUFFICES ASSUME IInv, GrabHeld PROVE GrabPaired
    OBVIOUS
  <2>1. grab_widget # None => grab_widget \in Windows
    BY DEF IInv, TypeOK, Pointers
  <2> QED BY <2>1 DEF IInv, GrabOK, GrabJustified, GrabPaired, GrabHeld, NoMenus
<1> QED BY <1>1, <1>2, <1>3, Invariance, PTL DEF Spec

-----------------------------------------------------------------------------
(* The screen.                                                             *)

(* What is on the screen when p is the top window. *)
ViewOf(p) == IF p = None THEN {} ELSE {p}

LEMMA OnScreenIsTop == IInv /\ Running => OnScreen = ViewOf(TopVisible(windows, visible))
<1> SUFFICES ASSUME IInv, Running PROVE OnScreen = ViewOf(TopVisible(windows, visible))
  OBVIOUS
<1> DEFINE t == TopVisible(windows, visible)
<1>1. TypeOK /\ TopOK
  BY DEF IInv
<1>2. /\ t = top_window
      /\ t # None => t \in Windows /\ IsMain(t) /\ visible[t] /\ mapped[t]
      /\ \A w \in Windows : IsMain(w) /\ mapped[w] => w = t
  BY <1>1, TopFacts DEF TypeOK, TopOK
<1> HIDE DEF t
<1>3. None \notin Windows
  BY WindowsAssumption
<1>4. CASE t = None
  <2>1. OnScreen = {}
    BY <1>2, <1>3, <1>4 DEF OnScreen, ShownWindows, MainWindows
  <2> QED BY <1>4, <2>1 DEF ViewOf, t
<1>5. CASE t # None
  <2>1. OnScreen = {t}
    BY <1>2, <1>5 DEF OnScreen, ShownWindows, MainWindows
  <2> QED BY <1>5, <2>1 DEF ViewOf, t
<1> QED BY <1>4, <1>5

LEMMA OnScreenIsTopPrime ==
    IInv' /\ Running' => OnScreen' = ViewOf(TopVisible(windows', visible'))
<1>1. (IInv /\ Running => OnScreen = ViewOf(TopVisible(windows, visible)))'
  BY OnScreenIsTop, PTL
<1> QED BY <1>1 DEF ViewOf, TopVisible, IsMain

(* Of two windows one is not on the screen, also while ftk_deinit takes them away. *)
OneOnScreen == \A v, w \in OnScreen : v = w

(* Nothing moves while the stack, and who is shown and alive, stay. *)
LEMMA SameScreen ==
    ASSUME IInv, IInv', Running, Running', windows' = windows, visible' = visible,
           \A x \in Windows : Alive(x)' <=> Alive(x)
    PROVE  UNCHANGED Scr!vars
<1>1. OnScreen' = OnScreen
  BY OnScreenIsTop, OnScreenIsTopPrime
<1>2. ShownWindows' = ShownWindows
  BY DEF ShownWindows, MainWindows, IsMain
<1>3. Living' = Living
  BY DEF Living, MainWindows, IsMain
<1> QED BY <1>1, <1>2, <1>3 DEF Scr!vars

(* A window that is not on top can be hidden, and leave the stack, unnoticed. *)
LEMMA TopOfHidden ==
    ASSUME NEW ws \in Seq(Windows), NEW vis \in [Windows -> BOOLEAN], NEW w \in Windows,
           TopVisible(ws, vis) # w
    PROVE  TopVisible(ws, [vis EXCEPT ![w] = FALSE]) = TopVisible(ws, vis)
<1> DEFINE v == [vis EXCEPT ![w] = FALSE]
           t == TopVisible(ws, vis)
<1>1. IsTop(ws, vis, t) /\ t # w
  BY TopFound
<1>2. \A k \in DOMAIN ws : ws[k] \in Windows
  OBVIOUS
<1>3. \A k \in DOMAIN ws : Shown(v, ws[k]) <=> Shown(vis, ws[k]) /\ ws[k] # w
  BY <1>2 DEF Shown
<1> HIDE DEF v, t
<1>4. IsTop(ws, v, t)
  BY <1>1, <1>3 DEF IsTop
<1> QED BY <1>4, TopIs DEF v, t

LEMMA TopOfRemoved ==
    ASSUME NEW ws \in Seq(Windows), NEW vis \in [Windows -> BOOLEAN],
           NEW k \in 1 .. Len(ws), ~vis[ws[k]]
    PROVE  TopVisible(ShiftDown(ws, k), vis) = TopVisible(ws, vis)
<1> DEFINE r == ShiftDown(ws, k)
           t == TopVisible(ws, vis)
           n == Len(ws)
<1>1. n \in Nat /\ n >= 1 /\ k \in 1 .. n /\ DOMAIN ws = 1 .. n
  OBVIOUS
<1>2. IsTop(ws, vis, t)
  BY TopFound
<1>3. DOMAIN r = 1 .. (n - 1) /\ \A j \in 1 .. (n - 1) : r[j] = IF j < k THEN ws[j] ELSE ws[j + 1]
  BY <1>1 DEF ShiftDown
<1>4. r \in Seq(Windows)
  BY OccShiftDown
<1> HIDE DEF r, t, n
<1>5. ~Shown(vis, ws[k])
  BY DEF Shown
<1>6. CASE t = None /\ \A j \in DOMAIN ws : ~Shown(vis, ws[j])
  <2>1. \A j \in DOMAIN r : ~Shown(vis, r[j])
    BY <1>1, <1>3, <1>6
  <2> QED BY <1>4, <1>6, <2>1, TopIs DEF IsTop, r, t
<1>7. ASSUME NEW i \in DOMAIN ws, t = ws[i], Shown(vis, ws[i]),
             \A j \in DOMAIN ws : Shown(vis, ws[j]) => j <= i
      PROVE  TopVisible(r, vis) = t
  <2> DEFINE h == IF i < k THEN i ELSE i - 1
  <2>1. i # k /\ i \in 1 .. n
    BY <1>1, <1>5, <1>7
  <2>2. h \in 1 .. (n - 1) /\ r[h] = ws[i]
    BY <1>1, <1>3, <2>1
  <2>3. ASSUME NEW j \in 1 .. (n - 1), Shown(vis, r[j]) PROVE j <= h
    <3>1. CASE j < k
      <4>1. j <= i
        BY <1>1, <1>3, <1>7, <2>3, <3>1
      <4> QED BY <1>1, <2>1, <3>1, <4>1
    <3>2. CASE j >= k
      <4>1. j + 1 <= i
        BY <1>1, <1>3, <1>7, <2>3, <3>2
      <4> QED BY <1>1, <2>1, <3>2, <4>1
    <3> QED BY <1>1, <3>1, <3>2
  <2> HIDE DEF h
  <2>4. IsTop(r, vis, t)
    BY <1>3, <1>7, <2>2, <2>3 DEF IsTop
  <2> QED BY <1>4, <2>4, TopIs
<1> QED BY <1>2, <1>6, <1>7 DEF IsTop, r, t

LEMMA CreateScreen ==
    ASSUME IInv, IInv', NEW w \in Windows, Create(w)
    PROVE  [Scr!Next]_(Scr!vars)
<1>1. /\ TypeOK /\ GoneOK /\ Running /\ Running' /\ ~Alive(w) /\ ~visible[w]
      /\ ref' = [ref EXCEPT ![w] = 1] /\ visible' = visible
      /\ windows' \in {windows, Append(windows, w)}
  BY DEF IInv, GoneOK, Create, InHandler, Running, calls
<1>2. TopVisible(windows', visible') = TopVisible(windows, visible)
  BY <1>1, TopOfAppended DEF TypeOK
<1>3. OnScreen' = OnScreen
  BY <1>1, <1>2, OnScreenIsTop, OnScreenIsTopPrime
<1>4. ShownWindows' = ShownWindows
  BY <1>1 DEF ShownWindows, MainWindows, IsMain
<1>5. ref \in [Windows -> Nat] /\ ref'[w] = 1 /\ \A x \in Windows : x # w => ref'[x] = ref[x]
  BY <1>1 DEF TypeOK
<1>6. CASE IsMain(w)
  <2>1. w \in MainWindows /\ w \notin Living
    BY <1>1, <1>6 DEF Living, MainWindows
  <2>2. Living' = Living \cup {w}
    BY <1>5, <1>6 DEF Living, MainWindows, Alive, IsMain
  <2>3. Scr!Create(w)
    BY <1>3, <1>4, <2>1, <2>2 DEF Scr!Create
  <2> QED BY <2>1, <2>3 DEF Scr!Next
<1>7. CASE ~IsMain(w)
  <2>1. Living' = Living
    BY <1>5, <1>7 DEF Living, MainWindows, Alive, IsMain
  <2> QED BY <1>3, <1>4, <2>1 DEF Scr!vars
<1> QED BY <1>6, <1>7

LEMMA ShowScreen ==
    ASSUME IInv, IInv', Running, Running', NEW w \in Windows, Show(w)
    PROVE  [Scr!Next]_(Scr!vars)
<1> DEFINE t == TopVisible(windows, visible)
           s == TopVisible(windows', visible')
<1>1. TypeOK /\ windows \in Seq(Windows) /\ visible \in [Windows -> BOOLEAN] /\ w # None
  BY WindowsAssumption DEF IInv, TypeOK
<1>2. /\ Alive(w) /\ ~visible[w] /\ ref' = ref
      /\ windows' = windows /\ visible' = [visible EXCEPT ![w] = TRUE]
  BY ShowFacts DEF Show
<1>3. s \in {w, t}
  BY <1>1, <1>2, TopOfShown
<1>4. s # None => IsMain(s)
  BY <1>1, <1>2, TopFacts
<1>5. OnScreen = ViewOf(t) /\ OnScreen' = ViewOf(s)
  BY OnScreenIsTop, OnScreenIsTopPrime
<1>6. Living' = Living
  BY <1>2 DEF Living, MainWindows, Alive, IsMain
<1>7. \A x \in Windows : visible'[x] <=> visible[x] \/ x = w
  BY <1>1, <1>2
<1> HIDE DEF t, s
<1>8. CASE IsMain(w)
  <2>1. w \in MainWindows /\ w \in Living \ ShownWindows
    BY <1>2, <1>8 DEF Living, ShownWindows, MainWindows
  <2>2. ShownWindows' = ShownWindows \cup {w}
    BY <1>7, <1>8 DEF ShownWindows, MainWindows, IsMain
  <2>3. OnScreen' \in {OnScreen, {w}}
    BY <1>1, <1>3, <1>5 DEF ViewOf
  <2>4. Scr!Show(w)
    BY <1>6, <2>1, <2>2, <2>3 DEF Scr!Show
  <2> QED BY <2>1, <2>4 DEF Scr!Next
<1>9. CASE ~IsMain(w)
  <2>1. s = t
    BY <1>1, <1>3, <1>4, <1>9
  <2>2. ShownWindows' = ShownWindows
    BY <1>7, <1>9 DEF ShownWindows, MainWindows, IsMain
  <2> QED BY <1>5, <1>6, <2>1, <2>2 DEF Scr!vars
<1> QED BY <1>8, <1>9

(* A window is not shown any more; whoever is on top otherwise stays there. *)
LEMMA LeaveScreen ==
    ASSUME IInv, IInv', Running, Running', NEW w \in Windows,
           visible' = [visible EXCEPT ![w] = FALSE],
           TopVisible(windows, visible) # w =>
               TopVisible(windows', visible') = TopVisible(windows, visible)
    PROVE  IF IsMain(w) THEN Scr!Leave(w) ELSE UNCHANGED <<ShownWindows, OnScreen>>
<1> DEFINE t == TopVisible(windows, visible)
           s == TopVisible(windows', visible')
<1>1. windows \in Seq(Windows) /\ visible \in [Windows -> BOOLEAN] /\ w # None
  BY WindowsAssumption DEF IInv, TypeOK
<1>2. t # None => IsMain(t)
  BY <1>1, TopFacts
<1>3. OnScreen = ViewOf(t) /\ OnScreen' = ViewOf(s)
  BY OnScreenIsTop, OnScreenIsTopPrime
<1>4. \A x \in Windows : visible'[x] <=> visible[x] /\ x # w
  BY <1>1
<1>5. t # w => s = t
  OBVIOUS
<1> HIDE DEF t, s
<1>6. CASE IsMain(w)
  <2>1. ShownWindows' = ShownWindows \ {w}
    BY <1>4, <1>6 DEF ShownWindows, MainWindows, IsMain
  <2>2. OnScreen' \subseteq ShownWindows'
    BY DEF OnScreen
  <2>3. OnScreen' \in Scr!Views(ShownWindows \ {w})
    BY <1>3, <2>1, <2>2 DEF Scr!Views, ViewOf
  <2>4. w \notin OnScreen => OnScreen' = OnScreen
    BY <1>1, <1>3, <1>5 DEF ViewOf
  <2> QED BY <1>6, <2>1, <2>3, <2>4 DEF Scr!Leave
<1>7. CASE ~IsMain(w)
  <2>1. ShownWindows' = ShownWindows
    BY <1>4, <1>7 DEF ShownWindows, MainWindows, IsMain
  <2>2. t # w
    BY <1>1, <1>2, <1>7
  <2> QED BY <1>3, <1>5, <1>7, <2>1, <2>2
<1> QED BY <1>6, <1>7

LEMMA HideScreen ==
    ASSUME IInv, IInv', NEW w \in Windows, Hide(w)
    PROVE  [Scr!Next]_(Scr!vars)
<1>1. /\ Running /\ Running' /\ Alive(w) /\ visible[w] /\ ref' = ref /\ windows' = windows
      /\ visible' = [visible EXCEPT ![w] = FALSE]
  BY DEF Hide, InHandler, Running, calls, Emit
<1>2. windows \in Seq(Windows) /\ visible \in [Windows -> BOOLEAN]
  BY DEF IInv, TypeOK
<1>3. TopVisible(windows, visible) # w =>
        TopVisible(windows', visible') = TopVisible(windows, visible)
  BY <1>1, <1>2, TopOfHidden
<1>4. IF IsMain(w) THEN Scr!Leave(w) ELSE UNCHANGED <<ShownWindows, OnScreen>>
  BY <1>1, <1>3, LeaveScreen
<1>5. Living' = Living
  BY <1>1 DEF Living, MainWindows, Alive, IsMain
<1>6. CASE IsMain(w)
  <2>1. w \in MainWindows /\ w \in ShownWindows
    BY <1>1, <1>6 DEF ShownWindows, MainWindows
  <2>2. Scr!Hide(w)
    BY <1>4, <1>5, <1>6, <2>1 DEF Scr!Hide
  <2> QED BY <2>1, <2>2 DEF Scr!Next
<1>7. CASE ~IsMain(w)
  BY <1>4, <1>5, <1>7 DEF Scr!vars
<1> QED BY <1>6, <1>7

(* One reference goes, and with the last one the window. *)
LEMMA UnrefScreen ==
    ASSUME IInv, IInv', Running, Running', NEW w \in Windows, NEW t, Alive(w), Unref(w, t)
    PROVE  [Scr!Next]_(Scr!vars)
<1>1. /\ windows \in Seq(Windows) /\ visible \in [Windows -> BOOLEAN] /\ NoRepeat(windows)
      /\ ref \in [Windows -> Nat] /\ ref[w] >= 1 /\ ref[w] \in Nat
  BY DEF IInv, TypeOK, Alive
<1>2. ref' = [ref EXCEPT ![w] = ref[w] - 1]
  BY <1>1 DEF Unref
<1>3. ref'[w] = ref[w] - 1 /\ \A x \in Windows : x # w => ref'[x] = ref[x]
  BY <1>1, <1>2
<1>4. CASE ref[w] # 1
  <2>1. windows' = windows /\ visible' = visible
    BY <1>4 DEF Unref
  <2>2. \A x \in Windows : Alive(x)' <=> Alive(x)
    BY <1>1, <1>3, <1>4 DEF Alive
  <2>3. UNCHANGED Scr!vars
    BY <2>1, <2>2, SameScreen
  <2> QED BY <2>3
<1>5. CASE ref[w] = 1
  <2> DEFINE v == [visible EXCEPT ![w] = FALSE]
             k == FirstSlot(windows, w)
  <2>1. windows' = Without(w) /\ visible' = v
    BY <1>5 DEF Unref, Destroy, Emit
  <2>2. v \in [Windows -> BOOLEAN] /\ ~v[w]
    BY <1>1
  <2>3. TopVisible(Without(w), v) = TopVisible(windows, v)
    <3>1. CASE Managed(w)
      <4>1. k \in 1 .. Len(windows) /\ windows[k] = w
        BY <1>1, <3>1, FirstSlotFound DEF Managed
      <4>2. Without(w) = ShiftDown(windows, k)
        BY <3>1 DEF Without
      <4> HIDE DEF k, v
      <4> QED BY <1>1, <2>2, <4>1, <4>2, TopOfRemoved
    <3>2. CASE ~Managed(w)
      BY <3>2 DEF Without
    <3> QED BY <3>1, <3>2
  <2>4. TopVisible(windows, visible) # w => TopVisible(windows, v) = TopVisible(windows, visible)
    BY <1>1, TopOfHidden
  <2>5. IF IsMain(w) THEN Scr!Leave(w) ELSE UNCHANGED <<ShownWindows, OnScreen>>
    <3> HIDE DEF v
    <3>1. TopVisible(windows, visible) # w =>
            TopVisible(windows', visible') = TopVisible(windows, visible)
      BY <2>1, <2>3, <2>4
    <3> QED BY <2>1, <3>1, LeaveScreen DEF v
  <2>6. \A x \in Windows : Alive(x)' <=> Alive(x) /\ x # w
    BY <1>1, <1>3, <1>5 DEF Alive
  <2>7. CASE IsMain(w)
    <3>1. w \in MainWindows /\ w \in Living
      BY <2>7 DEF Living, MainWindows
    <3>2. Living' = Living \ {w}
      BY <2>6, <2>7 DEF Living, MainWindows, IsMain
    <3>3. Scr!Destroy(w)
      BY <2>5, <2>7, <3>1, <3>2 DEF Scr!Destroy
    <3> QED BY <3>1, <3>3 DEF Scr!Next
  <2>8. CASE ~IsMain(w)
    <3>1. Living' = Living
      BY <2>6, <2>8 DEF Living, MainWindows, IsMain
    <3> QED BY <2>5, <2>8, <3>1 DEF Scr!vars
  <2> QED BY <2>7, <2>8
<1> QED BY <1>4, <1>5

LEMMA RestackScreen ==
    ASSUME IInv, IInv', NEW w \in Windows, NEW offset \in Int, Restack(w, offset)
    PROVE  [Scr!Next]_(Scr!vars)
<1> DEFINE k == FirstSlot(windows, w)
           n == RestackTo(k, offset)
           t == TopVisible(windows, visible)
           s == TopVisible(windows', visible')
<1>1. /\ Running /\ Running' /\ Managed(w) /\ ref' = ref
      /\ windows' = MoveSlot(windows, k, n) /\ visible' = visible
  BY DEF Restack, RestackTo, InHandler, Running, calls, Emit
<1>2. windows \in Seq(Windows) /\ windows' \in Seq(Windows) /\ NoRepeat(windows)
  BY DEF IInv, TypeOK
<1>3. k \in 1 .. Len(windows)
  BY <1>1, <1>2, FirstSlotFound DEF Managed
<1>4. n \in 1 .. Len(windows)
  <2>1. Len(windows) \in Nat
    BY <1>2
  <2> HIDE DEF k
  <2> QED BY <1>3, <2>1 DEF RestackTo
<1>5. \A x : Holds(windows', x) <=> Holds(windows, x)
  <2> HIDE DEF k, n
  <2> QED BY <1>1, <1>2, <1>3, <1>4, MoveSlotHolds
<1>6. /\ t # None => t \in Windows /\ Holds(windows, t) /\ Shown(visible, t)
      /\ \A x : Holds(windows, x) /\ Shown(visible, x) => t # None
  BY <1>2, TopFacts DEF Shown
<1>7. /\ s # None => s \in Windows /\ Holds(windows', s) /\ Shown(visible, s)
      /\ \A x : Holds(windows', x) /\ Shown(visible, x) => s # None
  BY <1>1, <1>2, TopFacts DEF Shown
<1>8. OnScreen = ViewOf(t) /\ OnScreen' = ViewOf(s)
  BY <1>1, OnScreenIsTop, OnScreenIsTopPrime
<1>9. Living' = Living /\ ShownWindows' = ShownWindows
  BY <1>1 DEF Living, ShownWindows, MainWindows, Alive, IsMain
<1> HIDE DEF t, s
<1>10. CASE t = None
  <2>1. s = None
    BY <1>5, <1>6, <1>7, <1>10
  <2> QED BY <1>8, <1>9, <1>10, <2>1 DEF Scr!vars
<1>11. CASE t # None
  <2>1. s # None /\ s \in ShownWindows
    BY <1>5, <1>6, <1>7, <1>11 DEF ShownWindows, MainWindows, Shown
  <2>2. OnScreen # {} /\ OnScreen' = {s}
    BY <1>8, <1>11, <2>1 DEF ViewOf
  <2>3. Scr!Restack
    BY <1>9, <2>1, <2>2 DEF Scr!Restack
  <2> QED BY <2>3 DEF Scr!Next
<1> QED BY <1>10, <1>11

(* ftk_deinit takes the windows away, the lowest first. *)
LEMMA DestroyBottomScreen ==
    ASSUME IInv, OneOnScreen, DestroyBottom
    PROVE  [Scr!Next]_(Scr!vars) /\ OneOnScreen'
<1> DEFINE w == windows[1]
<1>1. /\ windows # <<>> /\ mapped' = mapped
      /\ ref' = [ref EXCEPT ![w] = ref[w] - 1]
      /\ visible' = [visible EXCEPT ![w] = FALSE]
  BY DEF DestroyBottom
<1>2. /\ windows \in Seq(Windows) /\ visible \in [Windows -> BOOLEAN]
      /\ ref \in [Windows -> Nat]
  BY DEF IInv, TypeOK
<1>3. w \in Windows /\ 1 \in DOMAIN windows
  BY <1>1, <1>2
<1>4. Alive(w)
  <2>1. Managed(w)
    BY <1>3 DEF Managed
  <2> QED BY <1>3, <2>1, AliveFacts
<1> HIDE DEF w
<1>5. \A x \in Windows : visible'[x] <=> visible[x] /\ x # w
  BY <1>1, <1>2, <1>3
<1>6. /\ ref[w] \in Nat /\ ref[w] >= 1 /\ ref'[w] = ref[w] - 1
      /\ \A x \in Windows : x # w => ref'[x] = ref[x]
  BY <1>1, <1>2, <1>3, <1>4 DEF Alive
<1>7. OnScreen' = OnScreen \ {w} /\ ShownWindows' = ShownWindows \ {w}
  BY <1>1, <1>5 DEF OnScreen, ShownWindows, MainWindows, IsMain
<1>8. OneOnScreen'
  BY <1>7 DEF OneOnScreen
<1>9. w \in OnScreen => OnScreen' = {}
  BY <1>7 DEF OneOnScreen
<1>10. w \notin OnScreen => OnScreen' = OnScreen
  BY <1>7
<1>11. Scr!Leave(w)
  BY <1>7, <1>9, <1>10 DEF Scr!Leave, Scr!Views
<1>12. CASE IsMain(w) /\ ref[w] = 1
  <2>1. w \in MainWindows /\ w \in Living
    BY <1>3, <1>4, <1>12 DEF Living, MainWindows
  <2>2. Living' = Living \ {w}
    BY <1>6, <1>12 DEF Living, MainWindows, Alive, IsMain
  <2>3. Scr!Destroy(w)
    BY <1>11, <2>1, <2>2 DEF Scr!Destroy
  <2> QED BY <1>8, <2>1, <2>3 DEF Scr!Next
<1>13. CASE IsMain(w) /\ ref[w] # 1
  <2>1. Living' = Living
    <3>1. \A x \in Windows : ref'[x] > 0 <=> ref[x] > 0
      BY <1>6, <1>13
    <3> QED BY <3>1 DEF Living, MainWindows, Alive, IsMain
  <2>2. CASE w \in ShownWindows
    <3>1. Scr!Hide(w) /\ w \in MainWindows
      BY <1>11, <2>1, <2>2 DEF Scr!Hide, ShownWindows
    <3> QED BY <1>8, <3>1 DEF Scr!Next
  <2>3. CASE w \notin ShownWindows
    BY <1>7, <1>8, <2>1, <2>3 DEF OnScreen, Scr!vars
  <2> QED BY <2>2, <2>3
<1>14. CASE ~IsMain(w)
  <2>1. Living' = Living
    BY <1>6, <1>14 DEF Living, MainWindows, Alive, IsMain
  <2>2. w \notin ShownWindows
    BY <1>14 DEF ShownWindows, MainWindows
  <2> QED BY <1>7, <1>8, <2>1, <2>2 DEF OnScreen, Scr!vars
<1> QED BY <1>12, <1>13, <1>14

(* Whoever an event goes to is alive. *)
LEMMA TargetsAlive ==
    ASSUME IInv
    PROVE  /\ \A p \in UnderPointer \cup {grab_widget, focus_widget} :
                 p \in Pointers /\ (p # None => Alive(p))
           /\ windows # <<>> => /\ windows[Len(windows)] \in Pointers
                                /\ Alive(windows[Len(windows)])
           /\ held # <<>> => /\ held[Len(held)] \in Pointers
                             /\ held[Len(held)] # None => Alive(held[Len(held)])
<1>1. TypeOK
  BY DEF IInv
<1>2. \A p \in UnderPointer : p # None => p \in Windows /\ Managed(p)
  BY DEF UnderPointer
<1>3. windows # <<>> => windows[Len(windows)] \in Windows /\ Managed(windows[Len(windows)])
  <2>1. windows \in Seq(Windows)
    BY <1>1 DEF TypeOK
  <2>2. windows # <<>> => Len(windows) \in DOMAIN windows /\ windows[Len(windows)] \in Windows
    BY <2>1
  <2> QED BY <2>2 DEF Managed
<1>4. held # <<>> => Len(held) \in DOMAIN held
  BY <1>1 DEF TypeOK
<1> QED BY <1>1, <1>2, <1>3, <1>4, AliveFacts DEF TypeOK, Pointers

LEMMA DeliverScreen ==
    ASSUME IInv, IInv', CanDispatch, NEW t \in Pointers, Deliver(t), t # None => Alive(t),
           UNCHANGED <<windows, visible, own>>
    PROVE  [Scr!Next]_(Scr!vars)
<1>1. Running /\ Running' /\ \A x \in Windows : Alive(x)' <=> Alive(x)
  BY DeliverFacts
<1>2. UNCHANGED Scr!vars
  BY <1>1, SameScreen
<1> QED BY <1>2

LEMMA InputScreen ==
    ASSUME IInv, IInv', Input
    PROVE  [Scr!Next]_(Scr!vars)
<1>1. ASSUME NEW under \in UnderPointer, NEW b \in BOOLEAN,
             MouseDown(under, b) \/ MouseUp(under, b)
      PROVE  [Scr!Next]_(Scr!vars)
  <2> DEFINE t == IF grab_widget = None THEN under ELSE grab_widget
  <2>1. CanDispatch /\ Deliver(t) /\ UNCHANGED <<windows, visible, own>>
    BY <1>1 DEF MouseDown, MouseUp, stack
  <2>2. t \in Pointers /\ (t # None => Alive(t))
    BY TargetsAlive
  <2> QED BY <2>1, <2>2, DeliverScreen
<1>2. ASSUME NEW leaves \in BOOLEAN, Key(leaves) PROVE [Scr!Next]_(Scr!vars)
  <2> DEFINE t == IF grab_widget # None THEN grab_widget
                  ELSE IF focus_widget # None THEN focus_widget
                  ELSE IF windows # <<>> THEN windows[Len(windows)] ELSE None
  <2>1. CanDispatch /\ Deliver(t) /\ UNCHANGED <<windows, visible, own>>
    BY <1>2 DEF Key, stack
  <2>2. t \in Pointers /\ (t # None => Alive(t))
    BY TargetsAlive DEF Pointers
  <2> QED BY <2>1, <2>2, DeliverScreen
<1>3. CASE SourceFires
  <2>1. Running /\ Running' /\ UNCHANGED <<windows, visible, ref>>
    BY <1>3 DEF SourceFires, CanDispatch, Running, stack
  <2>2. UNCHANGED Scr!vars
    BY <2>1, SameScreen DEF Alive
  <2> QED BY <2>2
<1> QED BY <1>1, <1>2, <1>3 DEF Input

(* Every step of the manager is one of the screen, or none. *)
LEMMA ScreenStep ==
    ASSUME IInv, IInv', OneOnScreen, [Next]_vars
    PROVE  [Scr!Next]_(Scr!vars)
<1>1. ASSUME NEW w \in Windows,
             \/ Create(w) \/ AppShow(w) \/ DialogRun(w) \/ Hide(w) \/ AppUnref(w)
             \/ SetFullscreen(w)
      PROVE  [Scr!Next]_(Scr!vars)
  <2>1. CASE AppShow(w) \/ DialogRun(w)
    <3>1. Show(w) /\ Running /\ Running'
      BY <2>1 DEF AppShow, DialogRun, InHandler, Running, calls
    <3> QED BY <3>1, ShowScreen
  <2>2. CASE AppUnref(w)
    <3>1. Unref(w, title) /\ own[w] /\ Running /\ Running'
      BY <2>2 DEF AppUnref, InHandler, Running, calls
    <3>2. Alive(w)
      BY <3>1, AliveFacts
    <3> QED BY <3>1, <3>2, UnrefScreen
  <2>3. CASE SetFullscreen(w)
    <3>1. Running /\ Running' /\ UNCHANGED <<windows, visible, ref>>
      BY <2>3 DEF SetFullscreen, InHandler, Running, calls
    <3>2. UNCHANGED Scr!vars
      BY <3>1, SameScreen DEF Alive
    <3> QED BY <3>2
  <2> QED BY <1>1, <2>1, <2>2, <2>3, CreateScreen, HideScreen
<1>2. ASSUME NEW w \in Windows, NEW offset \in -MaxWindows .. MaxWindows, Restack(w, offset)
      PROVE  [Scr!Next]_(Scr!vars)
  <2>1. offset \in Int
    BY BoundsAssumption
  <2> QED BY <1>2, <2>1, RestackScreen
<1>3. CASE CloseTop
  <2>1. /\ Unref(title, None) /\ own[title] /\ title # None /\ title \in Windows
        /\ Running /\ Running'
    BY <1>3 DEF CloseTop, InHandler, Running, calls, IInv, TypeOK, Pointers
  <2>2. Alive(title)
    BY <2>1, AliveFacts
  <2> QED BY <2>1, <2>2, UnrefScreen
<1>4. CASE HandlerReturn
  <2> DEFINE t == held[Len(held)]
  <2>1. /\ held # <<>> /\ Running /\ Running'
        /\ IF t = None THEN UNCHANGED <<stack, fullscreen, grabs, ref>> ELSE Unref(t, title)
    BY <1>4 DEF HandlerReturn, InHandler, Running
  <2>2. t \in Pointers /\ (t # None => t \in Windows /\ Alive(t))
    BY <2>1, TargetsAlive DEF Pointers
  <2> HIDE DEF t
  <2>3. CASE t = None
    <3>1. UNCHANGED <<windows, visible, ref>>
      BY <2>1, <2>3 DEF stack
    <3>2. UNCHANGED Scr!vars
      BY <2>1, <3>1, SameScreen DEF Alive
    <3> QED BY <3>2
  <2>4. CASE t # None
    BY <2>1, <2>2, <2>4, UnrefScreen
  <2> QED BY <2>3, <2>4
<1>5. CASE DialogReturn \/ Deinit \/ Terminated \/ UNCHANGED vars
  <2>1. UNCHANGED <<visible, mapped, ref>>
    BY <1>5 DEF DialogReturn, Deinit, Terminated, vars, stack
  <2>2. UNCHANGED Scr!vars
    BY <2>1 DEF Scr!vars, Living, ShownWindows, OnScreen, MainWindows, Alive, IsMain
  <2> QED BY <2>2
<1>6. CASE DestroyBottom
  BY <1>6, DestroyBottomScreen
<1> QED BY <1>1, <1>2, <1>3, <1>4, <1>5, <1>6, InputScreen DEF Next, Application

LEMMA OneOnScreenStep ==
    ASSUME IInv, IInv', OneOnScreen, [Next]_vars
    PROVE  OneOnScreen'
<1>1. CASE Running'
  <2>1. OnScreen' = ViewOf(TopVisible(windows', visible'))
    BY <1>1, OnScreenIsTopPrime
  <2> QED BY <2>1 DEF OneOnScreen, ViewOf
<1>2. CASE DestroyBottom
  BY <1>2, DestroyBottomScreen
<1>3. CASE Deinit \/ Terminated \/ UNCHANGED vars
  <2>1. UNCHANGED <<visible, mapped>>
    BY <1>3 DEF Deinit, Terminated, vars, stack
  <2>2. OnScreen' = OnScreen
    BY <2>1 DEF OnScreen, ShownWindows, MainWindows, IsMain
  <2> QED BY <2>2 DEF OneOnScreen
<1>4. CASE Input \/ HandlerReturn \/ DialogReturn \/ Application
  <2>1. CASE Input \/ HandlerReturn \/ DialogReturn
    <3>1. ASSUME NEW t, CanDispatch, Deliver(t) PROVE Running'
      BY <3>1 DEF CanDispatch, Deliver, Running, calls
    <3> QED BY <1>1, <2>1, <3>1 DEF Input, MouseDown, MouseUp, Key, SourceFires, HandlerReturn,
               DialogReturn, Running
  <2>2. CASE Application
    <3>1. mode' \in {"loop", "handler"}
      BY <2>2 DEF Application, Create, AppShow, DialogRun, Hide, AppUnref, SetFullscreen,
                  Restack, CloseTop, InHandler, calls
    <3> QED BY <1>1, <3>1 DEF Running
  <2> QED BY <1>4, <2>1, <2>2
<1> QED BY <1>2, <1>3, <1>4 DEF Next

(* The manager keeps the promise of Screen, whatever windows there are, in whichever *)
(* order handlers create, show, hide, restack and close them, also in the middle of  *)
(* a dispatch, and while ftk_deinit takes them away.                                 *)
THEOREM ManagerImplementsScreen == Spec => ImplementsScreen
<1>1. Init => Scr!Init /\ OneOnScreen
  <2> SUFFICES ASSUME Init PROVE Scr!Init /\ OneOnScreen
    OBVIOUS
  <2>1. \A w \in MainWindows : w \in Windows /\ w # Panel
    BY PanelType DEF MainWindows
  <2>2. \A w \in MainWindows : ~visible[w] /\ ~Alive(w)
    <3>1. /\ visible = [w \in Windows |-> w = Panel]
          /\ ref = [w \in Windows |-> IF w = Panel THEN 1 ELSE 0]
      BY DEF Init
    <3>2. \A w \in Windows : w # Panel => (visible[w] <=> FALSE) /\ ref[w] = 0
      BY <3>1
    <3> QED BY <2>1, <3>2 DEF Alive
  <2>3. Living = {} /\ ShownWindows = {} /\ OnScreen = {}
    BY <2>2 DEF Living, ShownWindows, OnScreen
  <2> QED BY <2>3 DEF Scr!Init, OneOnScreen
<1>2. IInv /\ IInv' /\ OneOnScreen /\ [Next]_vars => [Scr!Next]_(Scr!vars) /\ OneOnScreen'
  BY ScreenStep, OneOnScreenStep
<1> QED BY <1>1, <1>2, Invariance, PTL DEF Spec, ImplementsScreen, Scr!Spec

=============================================================================
