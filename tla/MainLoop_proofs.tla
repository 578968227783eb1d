-------------------------- MODULE MainLoop_proofs ---------------------------
(***************************************************************************)
(* Theorems of MainLoop, for every set of sources, every table and pipe    *)
(* size, and every depth of nested dialogs.                                *)
(***************************************************************************)
EXTENDS MainLoop, TableOps_proofs

PCs == {"setup", "loop", "pass", "handler", "exited", "deinit"}

(***************************************************************************)
(* The types of the values the actions are built from.                     *)
(***************************************************************************)

\* A client is not the primary source.
LEMMA ClientIsSource ==
    ASSUME NEW s \in Clients
    PROVE  s \in Sources /\ s # Primary
BY PrimaryAssumption DEF Sources

LEMMA EventType ==
    /\ NopEvt \in Events /\ UserEvt \in Events
    /\ \A s \in Sources : AddEvt(s) \in Events /\ RemoveEvt(s) \in Events
BY DEF Events, NopEvt, UserEvt, AddEvt, RemoveEvt, Sources

LEMMA NotEmpty ==
    ASSUME NEW q \in Seq(Frame), Len(q) > 0
    PROVE  q # <<>>
OBVIOUS

LEMMA NewFrameType ==
    ASSUME NEW at \in PCs
    PROVE  NewFrame(at) \in Frame
BY DEF NewFrame, Frame, PCs, Sources

LEMMA TopType ==
    ASSUME TypeOK
    PROVE  /\ Len(frames) \in Nat \ {0}
           /\ Len(frames) \in DOMAIN frames
           /\ Top \in Frame
           /\ Top.pc \in PCs /\ Top.i \in Nat \ {0} /\ Top.cur \in Sources
           /\ Top.running \in BOOLEAN
<1>1. frames \in Seq(Frame) /\ frames # <<>>
  BY DEF TypeOK
<1>2. Len(frames) \in Nat \ {0} /\ Len(frames) \in DOMAIN frames
  BY <1>1
<1>3. Top \in Frame
  BY <1>1, <1>2 DEF Top
<1> QED
  BY <1>2, <1>3 DEF Frame, PCs

\* Replacing the innermost frame gives a stack of the same depth.
LEMMA SetTopType ==
    ASSUME TypeOK, NEW f \in Frame
    PROVE  /\ SetTop(f) \in Seq(Frame) /\ SetTop(f) # <<>>
           /\ Len(SetTop(f)) = Len(frames)
           /\ SetTop(f)[Len(frames)] = f
           /\ \A k \in 1 .. (Len(frames) - 1) : SetTop(f)[k] = frames[k]
BY TopType DEF TypeOK, SetTop

LEMMA StaleFramesType ==
    ASSUME NEW fs \in Seq(Frame), fs # <<>>
    PROVE  /\ StaleFrames(fs) \in Seq(Frame) /\ StaleFrames(fs) # <<>>
           /\ Len(StaleFrames(fs)) = Len(fs)
           /\ \A k \in 1 .. Len(fs) : StaleFrames(fs)[k].pc = fs[k].pc
<1>1. DOMAIN fs = 1 .. Len(fs) /\ Len(fs) \in Nat
  OBVIOUS
<1>2. \A k \in 1 .. Len(fs) : fs[k] \in Frame
  OBVIOUS
<1>3. \A k \in 1 .. Len(fs) : [fs[k] EXCEPT !.stale = TRUE] \in Frame
                               /\ [fs[k] EXCEPT !.stale = TRUE].pc = fs[k].pc
  BY <1>2 DEF Frame
<1>4. StaleFrames(fs) \in [1 .. Len(fs) -> Frame]
  BY <1>1, <1>3 DEF StaleFrames
<1>5. \A k \in 1 .. Len(fs) : StaleFrames(fs)[k] = [fs[k] EXCEPT !.stale = TRUE]
  BY <1>1 DEF StaleFrames
<1>6. StaleFrames(fs) \in Seq(Frame) /\ Len(StaleFrames(fs)) = Len(fs)
  BY <1>1, <1>4
<1>7. StaleFrames(fs) # <<>>
  BY <1>1, <1>6
<1> HIDE DEF StaleFrames
<1> QED
  BY <1>1, <1>3, <1>5, <1>6, <1>7

\* The frames that the steps of a loop leave on top.
LEMMA NextFrameType ==
    ASSUME TypeOK
    PROVE  /\ NextSource \in Frame /\ NextSource.pc = "pass"
           /\ SameSlot \in Frame /\ SameSlot.pc = "pass"
           /\ Reselect \in Frame /\ Reselect.pc = "loop"
<1>1. Top \in Frame /\ Top.running \in BOOLEAN
  BY TopType
<1>2. NewFrame("loop") \in Frame
  BY NewFrameType DEF PCs
<1>3. NewFrame("loop").pc = "loop"
  BY DEF NewFrame
<1>4. Primary \in Sources
  BY DEF Sources
<1>5. NextSource \in Frame /\ NextSource.pc = "pass"
  <2> DEFINE next == Top.i + 1
  <2>1. next \in Nat \ {0}
    BY TopType
  <2>2. NextSource = [Top EXCEPT !.pc = "pass", !.cur = Primary, !.i = next]
    BY DEF NextSource
  <2> HIDE DEF next
  <2> QED
    BY <1>1, <1>4, <2>1, <2>2 DEF Frame
<1>6. SameSlot \in Frame /\ SameSlot.pc = "pass"
  BY <1>1, <1>4 DEF SameSlot, Frame
<1>7. Reselect \in Frame /\ Reselect.pc = "loop"
  BY <1>1, <1>2, <1>3 DEF Reselect, Frame
<1> QED
  BY <1>5, <1>6, <1>7

LEMMA AfterType ==
    ASSUME TypeOK, NEW f \in Frame
    PROVE  /\ After(f) \in Seq(Frame) /\ After(f) # <<>>
           /\ Len(After(f)) = Len(frames)
           /\ After(f)[Len(frames)].pc = f.pc
           /\ \A k \in 1 .. (Len(frames) - 1) : After(f)[k].pc = frames[k].pc
<1> DEFINE g == SetTop(f)
<1>1. Len(frames) \in Nat \ {0}
  BY TopType
<1>2. /\ g \in Seq(Frame) /\ g # <<>> /\ Len(g) = Len(frames) /\ g[Len(frames)] = f
      /\ \A k \in 1 .. (Len(frames) - 1) : g[k] = frames[k]
  BY SetTopType
<1>3. After(f) = g \/ After(f) = StaleFrames(g)
  BY DEF After
<1> HIDE DEF g
<1>4. CASE After(f) = g
  BY <1>2, <1>4
<1>5. CASE After(f) = StaleFrames(g)
  <2>1. /\ StaleFrames(g) \in Seq(Frame) /\ StaleFrames(g) # <<>>
        /\ Len(StaleFrames(g)) = Len(g)
        /\ \A k \in 1 .. Len(g) : StaleFrames(g)[k].pc = g[k].pc
    BY <1>2, StaleFramesType
  <2> QED
    BY <1>1, <1>2, <1>5, <2>1
<1> QED
  BY <1>3, <1>4, <1>5

\* Removing a source keeps the types, and gives up exactly the reference that
\* its slot held.
LEMMA ManagerRemoveType ==
    ASSUME TypeOK, NEW s \in Sources, ManagerRemove(s)
    PROVE  /\ sources' \in Seq(Sources) /\ need_refresh' \in Nat
           /\ ref' \in [Sources -> Int]
           /\ active' \in [Sources -> BOOLEAN] /\ alive' \in [Sources -> BOOLEAN]
<1>1. CASE InTable(s)
  <2>1. sources \in Seq(Sources)
    BY DEF TypeOK
  <2>2. FirstSlot(sources, s) \in 1 .. Len(sources)
    BY <1>1, <2>1, FirstSlotFound DEF InTable
  <2>3. sources' \in Seq(Sources)
    BY <1>1, <2>1, <2>2, OccShiftDown DEF ManagerRemove
  <2>4. need_refresh' \in Nat
    BY DEF TypeOK, ManagerRemove
  <2>5. ref' \in [Sources -> Int]
    BY <1>1 DEF TypeOK, ManagerRemove, Unref
  <2>6. active' \in [Sources -> BOOLEAN] /\ alive' \in [Sources -> BOOLEAN]
    BY <1>1 DEF TypeOK, ManagerRemove, Unref
  <2> QED
    BY <2>3, <2>4, <2>5, <2>6
<1>2. CASE ~InTable(s)
  BY <1>2 DEF TypeOK, ManagerRemove
<1> QED
  BY <1>1, <1>2

LEMMA ManagerAddType ==
    ASSUME TypeOK, NEW s \in Sources, ManagerAdd(s)
    PROVE  /\ sources' \in Seq(Sources) /\ need_refresh' \in Nat
           /\ active' \in [Sources -> BOOLEAN] /\ refused' \in [Sources -> Nat]
<1>0. /\ sources \in Seq(Sources) /\ need_refresh \in Nat
      /\ active \in [Sources -> BOOLEAN] /\ refused \in [Sources -> Nat]
  BY DEF TypeOK
<1>1. CASE Len(sources) < MaxSources
  <2>1. /\ sources' = Append(sources, s)
        /\ active' = [active EXCEPT ![s] = TRUE]
        /\ need_refresh' = need_refresh + 1
        /\ refused' = refused
    BY <1>1 DEF ManagerAdd
  <2>2. sources' \in Seq(Sources) /\ need_refresh' \in Nat
    BY <1>0, <2>1
  <2>3. active' \in [Sources -> BOOLEAN]
    BY <1>0, <2>1
  <2> QED
    BY <1>0, <2>1, <2>2, <2>3
<1>2. CASE ~(Len(sources) < MaxSources)
  <2>1. refused' = [refused EXCEPT ![s] = refused[s] + 1]
    BY <1>2 DEF ManagerAdd
  <2>2. UNCHANGED <<sources, active, need_refresh>>
    BY <1>2 DEF ManagerAdd
  <2> QED
    BY <1>0, <2>1, <2>2
<1> QED
  BY <1>1, <1>2

LEMMA QueueEventType ==
    ASSUME TypeOK, NEW e \in Events, QueueEvent(e)
    PROVE  pipe' \in Seq(Events)
BY DEF TypeOK, QueueEvent

LEMMA OwnerType ==
    ASSUME TypeOK, NEW s \in Clients, OwnerStep(s)
    PROVE  TypeOK'
<1>0. s \in Sources
  BY ClientIsSource
<1>1. CASE CreateOwned(s)
  BY <1>0, <1>1 DEF CreateOwned, Create, TypeOK
<1>2. CASE CreateAndAdd(s)
  <2>1. pipe' \in Seq(Events)
    BY <1>0, <1>2, EventType, QueueEventType DEF CreateAndAdd
  <2> QED BY <1>0, <1>2, <2>1 DEF CreateAndAdd, Create, TypeOK
<1>3. CASE StartWithReset(s)
  <2>1. pipe' \in Seq(Events)
    BY <1>0, <1>3, EventType, QueueEventType DEF StartWithReset
  <2> QED BY <1>0, <1>3, <2>1 DEF StartWithReset, TypeOK
<1>4. CASE StartPlain(s)
  <2>1. pipe' \in Seq(Events)
    BY <1>0, <1>4, EventType, QueueEventType DEF StartPlain
  <2> QED BY <1>0, <1>4, <2>1 DEF StartPlain, TypeOK, Enabled
<1>5. CASE Stop(s)
  <2>1. pipe' \in Seq(Events)
    BY <1>0, <1>5, EventType, QueueEventType DEF Stop
  <2> QED BY <1>0, <1>5, <2>1 DEF Stop, TypeOK
<1>6. CASE DestroyCaretOwner(s)
  <2>1. pipe' \in Seq(Events)
    BY <1>0, <1>6, EventType, QueueEventType DEF DestroyCaretOwner
  <2> QED BY <1>0, <1>6, <2>1 DEF DestroyCaretOwner, TypeOK, Unref
<1>7. CASE DestroyWaitBox(s)
  <2>1. pipe' \in Seq(Events)
    BY <1>0, <1>7, EventType, QueueEventType DEF DestroyWaitBox, TypeOK
  <2> QED BY <1>0, <1>7, <2>1 DEF DestroyWaitBox, TypeOK, Unref
<1>8. CASE DestroyWndManager(s)
  BY <1>0, <1>8 DEF DestroyWndManager, TypeOK, Unref
<1>9. CASE ReleaseHandedOver(s)
  <2>1. pipe' \in Seq(Events)
    BY <1>0, <1>9, EventType, QueueEventType DEF ReleaseHandedOver
  <2> QED BY <1>0, <1>9, <2>1 DEF ReleaseHandedOver, TypeOK
<1> QED
  BY <1>1, <1>2, <1>3, <1>4, <1>5, <1>6, <1>7, <1>8, <1>9 DEF OwnerStep


LEMMA RunnersType ==
    ASSUME TypeOK
    PROVE  /\ DialogRun => TypeOK'
           /\ Run => TypeOK'
           /\ UserInput => TypeOK'
           /\ \A k \in DOMAIN frames : Quit(k) => TypeOK'
           /\ \A s \in Clients : Tick(s) => TypeOK'
<1>1. NewFrame("loop") \in Frame
  BY NewFrameType DEF PCs
<1>2. ASSUME DialogRun PROVE TypeOK'
  <2>1. frames' = Append(frames, NewFrame("loop"))
    BY <1>2 DEF DialogRun
  <2>2. frames' \in Seq(Frame) /\ Len(frames') > 0
    BY <1>1, <2>1 DEF TypeOK
  <2> QED
    BY <1>2, <2>2, NotEmpty DEF DialogRun, TypeOK
<1>3. ASSUME Run PROVE TypeOK'
  BY <1>1, <1>3, SetTopType DEF Run, TypeOK
<1>4. ASSUME UserInput PROVE TypeOK'
  <2>1. pipe' \in Seq(Events)
    BY <1>4, EventType, QueueEventType DEF UserInput
  <2> QED
    BY <1>4, <2>1 DEF UserInput, TypeOK
<1>5. ASSUME NEW k \in DOMAIN frames, Quit(k) PROVE TypeOK'
  <2>1. pipe' \in Seq(Events)
    BY <1>5, EventType, QueueEventType DEF Quit
  <2>2. frames \in Seq(Frame) /\ frames[k] \in Frame
    BY DEF TypeOK
  <2>3. [frames[k] EXCEPT !.running = FALSE] \in Frame
    BY <2>2 DEF Frame
  <2>4. frames' = [frames EXCEPT ![k] = [frames[k] EXCEPT !.running = FALSE]]
    BY <1>5 DEF Quit
  <2>5. frames' \in Seq(Frame) /\ frames' # <<>>
    BY <2>2, <2>3, <2>4 DEF TypeOK
  <2> QED
    BY <1>5, <2>1, <2>5 DEF Quit, TypeOK
<1>6. ASSUME NEW s \in Clients, Tick(s) PROVE TypeOK'
  BY <1>6, ClientIsSource DEF Tick, TypeOK
<1> QED
  BY <1>2, <1>3, <1>4, <1>5, <1>6

LEMMA PassFrameType ==
    ASSUME TypeOK, NEW A \in SUBSET Sources, NEW B \in SUBSET Sources
    PROVE  [Top EXCEPT !.pc = "pass", !.i = 1, !.stale = FALSE, !.fdset = A,
                       !.err_fdset = B] \in Frame
<1> DEFINE first == 1
<1>1. first \in Nat \ {0}
  OBVIOUS
<1> HIDE DEF first
<1>2. [Top EXCEPT !.pc = "pass", !.i = first, !.stale = FALSE, !.fdset = A,
                  !.err_fdset = B] \in Frame
  BY <1>1, TopType DEF Frame
<1> QED
  BY <1>2 DEF first

LEMMA TableSetType ==
    ASSUME TypeOK
    PROVE  TableSet \subseteq Sources /\ TableFds \subseteq Sources
BY DEF TypeOK, TableSet, TableFds

LEMMA SelectionType ==
    ASSUME TypeOK
    PROVE  /\ \A err \in SUBSET Sources : Select(err) => TypeOK'
           /\ SelectFail => TypeOK'
           /\ PassEnd => TypeOK'
           /\ PassBreak => TypeOK'
<1>1. ASSUME NEW err \in SUBSET Sources, Select(err) PROVE TypeOK'
  <2> DEFINE readable == {s \in TableFds : Readable(s)}
             f == [Top EXCEPT !.pc = "pass", !.i = 1, !.stale = FALSE,
                              !.fdset = readable, !.err_fdset = err]
  <2>1. readable \in SUBSET Sources
    BY TableSetType
  <2>2. f \in Frame
    BY <2>1, PassFrameType
  <2>3. frames' = SetTop(f)
    BY <1>1 DEF Select
  <2> HIDE DEF f
  <2> QED
    BY <1>1, <2>2, <2>3, SetTopType DEF Select, TypeOK
<1>2. ASSUME SelectFail PROVE TypeOK'
  <2> DEFINE f == [Top EXCEPT !.pc = "pass", !.i = 1, !.stale = FALSE,
                              !.fdset = {}, !.err_fdset = TableFds]
  <2>1. f \in Frame
    BY TableSetType, PassFrameType
  <2>2. frames' = SetTop(f)
    BY <1>2 DEF SelectFail
  <2> HIDE DEF f
  <2> QED
    BY <1>2, <2>1, <2>2, SetTopType DEF SelectFail, TypeOK
<1>3. ASSUME PassEnd PROVE TypeOK'
  BY <1>3, NextFrameType, SetTopType DEF PassEnd, TypeOK
<1>4. ASSUME PassBreak PROVE TypeOK'
  BY <1>4, NextFrameType, SetTopType DEF PassBreak, TypeOK
<1> QED
  BY <1>1, <1>2, <1>3, <1>4

LEMMA HandlerFrameType ==
    ASSUME TypeOK, NEW s \in Sources
    PROVE  [Top EXCEPT !.pc = "handler", !.cur = s] \in Frame
BY TopType DEF Frame

LEMMA VisitType ==
    ASSUME TypeOK, NEW s \in Sources, LoopVisit(s)
    PROVE  TypeOK'
<1>1. CASE RemoveDisabled(s)
  BY <1>1, ManagerRemoveType, AfterType, NextFrameType DEF RemoveDisabled, TypeOK
<1>2. CASE RemoveBroken(s)
  BY <1>2, ManagerRemoveType, AfterType, NextFrameType DEF RemoveBroken, TypeOK
<1>3. CASE Skip(s)
  BY <1>3, SetTopType, NextFrameType DEF Skip, TypeOK
<1>4. ASSUME NEW ok \in BOOLEAN, DispatchWidgetTimer(s, ok) PROVE TypeOK'
  <2>1. CASE ok
    BY <1>4, <2>1, SetTopType, NextFrameType DEF DispatchWidgetTimer, TypeOK
  <2>2. CASE ~ok
    BY <1>4, <2>2, ManagerRemoveType, AfterType, NextFrameType DEF DispatchWidgetTimer, TypeOK
  <2> QED
    BY <2>1, <2>2
<1>5. CASE DispatchHandler(s)
  BY <1>5, SetTopType, HandlerFrameType DEF DispatchHandler, TypeOK
<1> QED
  BY <1>1, <1>2, <1>3, <1>4, <1>5 DEF LoopVisit

LEMMA PrimaryType ==
    ASSUME TypeOK, PrimaryDispatch
    PROVE  TypeOK'
<1>1. pipe # <<>>
  BY DEF PrimaryDispatch, PrimaryNop, PrimaryAdd, PrimaryRemove, PrimaryOnEvent
<1>2. Tail(pipe) \in Seq(Events) /\ Head(pipe) \in Events
  BY <1>1 DEF TypeOK
<1>3. Head(pipe).source \in Sources
  BY <1>2 DEF Events
<1>4. CASE PrimaryNop
  BY <1>2, <1>4, SetTopType, NextFrameType DEF PrimaryNop, TypeOK
<1>5. CASE PrimaryAdd
  BY <1>2, <1>3, <1>5, ManagerAddType, AfterType, NextFrameType DEF PrimaryAdd, TypeOK
<1>6. CASE PrimaryRemove
  BY <1>2, <1>3, <1>6, ManagerRemoveType, AfterType, NextFrameType DEF PrimaryRemove, TypeOK
<1>7. CASE PrimaryOnEvent
  BY <1>2, <1>7, SetTopType, HandlerFrameType DEF PrimaryOnEvent, TypeOK, Sources
<1> QED
  BY <1>4, <1>5, <1>6, <1>7 DEF PrimaryDispatch

LEMMA ReturnType ==
    ASSUME TypeOK, NEW ok \in BOOLEAN, HandlerReturn(ok)
    PROVE  TypeOK'
<1> DEFINE s == Top.cur
<1>1. s \in Sources
  BY TopType
<1>2. due' \in [Sources -> BOOLEAN]
  BY <1>1 DEF HandlerReturn, TypeOK
<1> HIDE DEF s
<1>3. CASE ok
  BY <1>1, <1>2, <1>3, SetTopType, NextFrameType DEF HandlerReturn, TypeOK
<1>4. CASE ~ok
  <2>1. ManagerRemove(s) /\ frames' = After(SameSlot)
    BY <1>4 DEF HandlerReturn, s
  <2> QED
    BY <1>1, <1>2, <2>1, ManagerRemoveType, AfterType, NextFrameType DEF HandlerReturn, TypeOK
<1> QED
  BY <1>3, <1>4

LEMMA ExitType ==
    ASSUME TypeOK
    PROVE  /\ LoopExit => TypeOK'
           /\ ManagerDestroy => TypeOK'
<1>1. ASSUME LoopExit PROVE TypeOK'
  <2>1. CASE Len(frames) > 1
    <3>1. frames' = SubSeq(frames, 1, Len(frames) - 1)
      BY <1>1, <2>1 DEF LoopExit
    <3>2. frames \in Seq(Frame) /\ Len(frames) - 1 \in 1 .. Len(frames)
      BY <2>1, TopType DEF TypeOK
    <3>3. /\ SubSeq(frames, 1, Len(frames) - 1) \in Seq(Frame)
          /\ Len(SubSeq(frames, 1, Len(frames) - 1)) = Len(frames) - 1
      BY <3>2
    <3>4. frames' \in Seq(Frame) /\ Len(frames') > 0
      BY <3>1, <3>2, <3>3
    <3> QED
      BY <1>1, <3>4, NotEmpty DEF LoopExit, TypeOK
  <2>2. CASE ~(Len(frames) > 1)
    <3>1. [Top EXCEPT !.pc = "exited"] \in Frame
      BY TopType DEF Frame
    <3> QED
      BY <1>1, <2>2, <3>1, SetTopType DEF LoopExit, TypeOK
  <2> QED
    BY <2>1, <2>2
<1>2. ASSUME ManagerDestroy PROVE TypeOK'
  <2>1. [Top EXCEPT !.pc = "deinit"] \in Frame
    BY TopType DEF Frame
  <2>2. frames' \in Seq(Frame) /\ frames' # <<>>
    BY <1>2, <2>1, SetTopType DEF ManagerDestroy
  <2>3. \A s \in Sources : Occ(sources, s) \in Nat
    BY OccType DEF TypeOK
  <2>4. ref' \in [Sources -> Int]
    BY <1>2, <2>3 DEF ManagerDestroy, TypeOK
  <2>5. alive' \in [Sources -> BOOLEAN]
    BY <1>2 DEF ManagerDestroy, TypeOK
  <2> QED
    BY <1>2, <2>2, <2>4, <2>5 DEF ManagerDestroy, TypeOK
<1> QED
  BY <1>1, <1>2

LEMMA TypeInit == Init => TypeOK
BY NewFrameType DEF Init, TypeOK, Sources, PCs

LEMMA TypeStep == TypeOK /\ [Next]_vars => TypeOK'
<1> SUFFICES ASSUME TypeOK, [Next]_vars PROVE TypeOK'
  OBVIOUS
<1>1. CASE UNCHANGED vars
  BY <1>1 DEF vars, TypeOK
<1>2. CASE Application
  BY <1>2, OwnerType, RunnersType DEF Application
<1>3. CASE Environment
  BY <1>3, RunnersType DEF Environment
<1>4. CASE LoopStep
  <2>1. (IF FdErrors THEN TableFds \ {Primary} ELSE {}) \subseteq Sources
    BY TableSetType
  <2> QED
    BY <1>4, <2>1, SelectionType, VisitType, PrimaryType, ReturnType, ExitType DEF LoopStep
<1> QED
  BY <1>1, <1>2, <1>3, <1>4 DEF Next, Terminated

\* Every variable keeps its type: reference counts and disable counters stay
\* numbers, and the table and the pipe hold sources and events only.
THEOREM TypeCorrect == Spec => []TypeOK
BY TypeInit, TypeStep, PTL DEF Spec


(***************************************************************************)
(* Reference counting. The invariant that is inductive says more than      *)
(* RefConservation: memory is given back exactly when the count is 0, so   *)
(* that an address handed out again has no reference left from its former  *)
(* life.                                                                   *)
(***************************************************************************)

\* The owner's own reference.
Held(s) == IF own[s] /\ KeepsReference(s) THEN 1 ELSE 0

\* A source is allocated exactly while it is referenced.
LiveWhileReferenced == \A s \in Sources : alive[s] <=> ref[s] > 0

CountInv == TypeOK /\ RefConservation /\ LiveWhileReferenced

LEMMA CountTypes ==
    ASSUME TypeOK, NEW s \in Sources
    PROVE  /\ Occ(sources, s) \in Nat /\ Occ(pipe, AddEvt(s)) \in Nat
           /\ refused[s] \in Nat /\ Held(s) \in {0, 1} /\ ref[s] \in Int
           /\ alive[s] \in BOOLEAN /\ own[s] \in BOOLEAN
           /\ InTable(s) <=> Occ(sources, s) # 0
<1>1. Occ(sources, s) \in Nat /\ (InTable(s) <=> Occ(sources, s) # 0)
  BY OccType DEF TypeOK, InTable
<1>2. Occ(pipe, AddEvt(s)) \in Nat
  BY OccType DEF TypeOK
<1> QED
  BY <1>1, <1>2 DEF TypeOK, Held

\* A source that is not allocated is held by nobody.
LEMMA DeadIsFree ==
    ASSUME CountInv, NEW s \in Sources
    PROVE  /\ ref[s] = Held(s) + Occ(sources, s) + Occ(pipe, AddEvt(s)) + refused[s]
           /\ ~alive[s] => /\ Held(s) = 0 /\ Occ(sources, s) = 0
                           /\ Occ(pipe, AddEvt(s)) = 0 /\ refused[s] = 0
<1>1. ref[s] = Held(s) + Occ(sources, s) + Occ(pipe, AddEvt(s)) + refused[s]
  BY DEF CountInv, RefConservation, Held
<1>2. ~alive[s] => ~(ref[s] > 0)
  BY DEF CountInv, LiveWhileReferenced
<1> QED
  BY <1>1, <1>2, CountTypes DEF CountInv

LEMMA QueueCount ==
    ASSUME TypeOK, NEW e \in Events, QueueEvent(e), NEW s \in Sources
    PROVE  Occ(pipe', AddEvt(s)) = Occ(pipe, AddEvt(s)) + (IF e = AddEvt(s) THEN 1 ELSE 0)
BY OccAppend DEF TypeOK, QueueEvent

LEMMA AddEventOf ==
    /\ \A s, t \in Sources : AddEvt(s) = AddEvt(t) => s = t
    /\ \A s, t \in Sources : RemoveEvt(t) # AddEvt(s)
    /\ \A s \in Sources : NopEvt # AddEvt(s) /\ UserEvt # AddEvt(s)
    /\ \A e \in Events, s \in Sources : e = AddEvt(s) <=> e.type = "ADD" /\ e.source = s
BY DEF AddEvt, RemoveEvt, NopEvt, UserEvt, Events

\* Taking a source out of a slot gives up that slot's reference.
LEMMA RemoveCount ==
    ASSUME TypeOK, LiveWhileReferenced, NEW s \in Sources, ManagerRemove(s),
           NEW t \in Sources
    PROVE  /\ ref'[t] - Occ(sources', t) = ref[t] - Occ(sources, t)
           /\ alive'[t] <=> ref'[t] > 0
           /\ Occ(sources', t) <= Occ(sources, t)
<1>1. CASE InTable(s)
  <2>1. sources \in Seq(Sources)
    BY DEF TypeOK
  <2>2. FirstSlot(sources, s) \in 1 .. Len(sources) /\ sources[FirstSlot(sources, s)] = s
    BY <1>1, <2>1, FirstSlotFound DEF InTable
  <2>3. Occ(sources', t) = Occ(sources, t) - (IF s = t THEN 1 ELSE 0)
    BY <1>1, <2>1, <2>2, OccShiftDown DEF ManagerRemove
  <2>4. ref'[t] = ref[t] - (IF s = t THEN 1 ELSE 0)
    BY <1>1 DEF ManagerRemove, Unref, TypeOK
  <2>5. alive'[t] <=> alive[t] /\ ~(s = t /\ ref[t] = 1)
    BY <1>1 DEF ManagerRemove, Unref, TypeOK
  <2>6. alive[t] <=> ref[t] > 0
    BY DEF LiveWhileReferenced
  <2>7. ref[t] \in Int /\ Occ(sources, t) \in Nat
    BY CountTypes
  <2> QED
    BY <2>3, <2>4, <2>5, <2>6, <2>7
<1>2. CASE ~InTable(s)
  BY <1>2, CountTypes DEF ManagerRemove, LiveWhileReferenced
<1> QED
  BY <1>1, <1>2


\* The two facts about one source, as one goal for every action.
Counted(t) ==
    /\ ref[t] = Held(t) + Occ(sources, t) + Occ(pipe, AddEvt(t)) + refused[t]
    /\ alive[t] <=> ref[t] > 0

LEMMA OwnerCount ==
    ASSUME CountInv, NEW s \in Clients, OwnerStep(s), NEW t \in Sources
    PROVE  Counted(t)'
<1> USE DEF CountInv
<1>1. s \in Sources /\ OwnerOf(s) = Owner[s]
  BY ClientIsSource DEF OwnerOf
<1>2. /\ Counted(t)
      /\ Occ(sources, t) \in Nat /\ Occ(pipe, AddEvt(t)) \in Nat
      /\ refused[t] \in Nat /\ Held(t) \in {0, 1} /\ ref[t] \in Int
  BY DeadIsFree, CountTypes DEF Counted, LiveWhileReferenced
<1>3. ~alive[t] => /\ Held(t) = 0 /\ Occ(sources, t) = 0
                   /\ Occ(pipe, AddEvt(t)) = 0 /\ refused[t] = 0
  BY DeadIsFree
<1>4. AddEvt(s) \in Events /\ RemoveEvt(s) \in Events
  BY <1>1, EventType
<1>5. (AddEvt(s) = AddEvt(t) <=> s = t) /\ RemoveEvt(s) # AddEvt(t)
  BY <1>1, AddEventOf
<1>6. CASE CreateOwned(s)
  <2>1. sources' = sources /\ pipe' = pipe
    BY <1>6 DEF CreateOwned
  <2>2. CASE t = s
    BY <1>1, <1>2, <1>3, <1>6, <2>1, <2>2
       DEF CreateOwned, Create, Counted, Held, KeepsReference, TypeOK
  <2>3. CASE t # s
    BY <1>2, <1>6, <2>1, <2>3 DEF CreateOwned, Create, Counted, Held, TypeOK
  <2> QED
    BY <2>2, <2>3
<1>7. CASE CreateAndAdd(s)
  <2>1. Occ(pipe', AddEvt(t)) = Occ(pipe, AddEvt(t)) + (IF s = t THEN 1 ELSE 0)
    BY <1>4, <1>5, <1>7, QueueCount DEF CreateAndAdd
  <2>2. sources' = sources
    BY <1>7 DEF CreateAndAdd
  <2>3. CASE t = s
    BY <1>1, <1>2, <1>3, <1>7, <2>1, <2>2, <2>3
       DEF CreateAndAdd, Create, Counted, Held, KeepsReference, TypeOK
  <2>4. CASE t # s
    BY <1>2, <1>7, <2>1, <2>2, <2>4 DEF CreateAndAdd, Create, Counted, Held, TypeOK
  <2> QED
    BY <2>3, <2>4
<1>8. CASE StartWithReset(s)
  <2>1. Occ(pipe', AddEvt(t)) = Occ(pipe, AddEvt(t)) + (IF s = t THEN 1 ELSE 0)
    BY <1>4, <1>5, <1>8, QueueCount DEF StartWithReset
  <2>2. ref'[t] = ref[t] + (IF s = t THEN 1 ELSE 0) /\ alive'[t] = alive[t]
    BY <1>1, <1>8 DEF StartWithReset, TypeOK
  <2>3. UNCHANGED <<sources, own, refused>>
    BY <1>8 DEF StartWithReset
  <2>4. alive[s]
    BY <1>1, <1>8, DeadIsFree DEF StartWithReset, Held, KeepsReference
  <2> QED
    BY <1>2, <2>1, <2>2, <2>3, <2>4 DEF Counted, Held
<1>9. CASE StartPlain(s)
  <2>1. Occ(pipe', AddEvt(t)) = Occ(pipe, AddEvt(t)) + (IF s = t THEN 1 ELSE 0)
    BY <1>4, <1>5, <1>9, QueueCount DEF StartPlain
  <2>2. ref'[t] = ref[t] + (IF s = t THEN 1 ELSE 0) /\ alive'[t] = alive[t]
    BY <1>1, <1>9 DEF StartPlain, TypeOK
  <2>3. UNCHANGED <<sources, own, refused>>
    BY <1>9 DEF StartPlain
  <2>4. alive[s]
    BY <1>1, <1>9, DeadIsFree DEF StartPlain, Held, KeepsReference
  <2> QED
    BY <1>2, <2>1, <2>2, <2>3, <2>4 DEF Counted, Held
<1>10. CASE Stop(s)
  <2>1. Occ(pipe', AddEvt(t)) = Occ(pipe, AddEvt(t))
    BY <1>2, <1>4, <1>5, <1>10, QueueCount DEF Stop
  <2> QED
    BY <1>2, <1>10, <2>1 DEF Stop, Counted, Held
<1>11. CASE DestroyCaretOwner(s)
  <2>1. Occ(pipe', AddEvt(t)) = Occ(pipe, AddEvt(t))
    BY <1>2, <1>4, <1>5, <1>11, QueueCount DEF DestroyCaretOwner
  <2>2. Held(t)' = Held(t) - (IF s = t THEN 1 ELSE 0)
    BY <1>1, <1>11 DEF DestroyCaretOwner, Held, KeepsReference, TypeOK
  <2>3. ref'[t] = ref[t] - (IF s = t THEN 1 ELSE 0)
    BY <1>1, <1>11 DEF DestroyCaretOwner, Unref, TypeOK
  <2>4. alive'[t] <=> alive[t] /\ ~(s = t /\ ref[t] = 1)
    BY <1>1, <1>11 DEF DestroyCaretOwner, Unref, TypeOK
  <2>5. UNCHANGED <<sources, refused>>
    BY <1>11 DEF DestroyCaretOwner
  <2> QED
    BY <1>2, <2>1, <2>2, <2>3, <2>4, <2>5 DEF Counted
<1>12. CASE DestroyWaitBox(s)
  <2>1. Occ(pipe', AddEvt(t)) = Occ(pipe, AddEvt(t))
    BY <1>2, <1>4, <1>5, <1>12, QueueCount DEF DestroyWaitBox
  <2>2. Held(t)' = Held(t) - (IF s = t THEN 1 ELSE 0)
    BY <1>1, <1>12 DEF DestroyWaitBox, Held, KeepsReference, TypeOK
  <2>3. ref'[t] = ref[t] - (IF s = t THEN 1 ELSE 0)
    BY <1>1, <1>12 DEF DestroyWaitBox, Unref, TypeOK
  <2>4. alive'[t] <=> alive[t] /\ ~(s = t /\ ref[t] = 1)
    BY <1>1, <1>12 DEF DestroyWaitBox, Unref, TypeOK
  <2>5. UNCHANGED <<sources, refused>>
    BY <1>12 DEF DestroyWaitBox
  <2> QED
    BY <1>2, <2>1, <2>2, <2>3, <2>4, <2>5 DEF Counted
<1>13. CASE DestroyWndManager(s)
  <2>1. pipe' = pipe
    BY <1>13 DEF DestroyWndManager
  <2>2. Held(t)' = Held(t) - (IF s = t THEN 1 ELSE 0)
    BY <1>1, <1>13 DEF DestroyWndManager, Held, KeepsReference, TypeOK
  <2>3. ref'[t] = ref[t] - (IF s = t THEN 1 ELSE 0)
    BY <1>1, <1>13 DEF DestroyWndManager, Unref, TypeOK
  <2>4. alive'[t] <=> alive[t] /\ ~(s = t /\ ref[t] = 1)
    BY <1>1, <1>13 DEF DestroyWndManager, Unref, TypeOK
  <2>5. UNCHANGED <<sources, refused>>
    BY <1>13 DEF DestroyWndManager
  <2> QED
    BY <1>2, <2>1, <2>2, <2>3, <2>4, <2>5 DEF Counted
<1>14. CASE ReleaseHandedOver(s)
  <2>1. Occ(pipe', AddEvt(t)) = Occ(pipe, AddEvt(t))
    BY <1>2, <1>4, <1>5, <1>14, QueueCount DEF ReleaseHandedOver
  <2>2. Held(t)' = Held(t)
    BY <1>1, <1>14 DEF ReleaseHandedOver, Held, KeepsReference, TypeOK
  <2> QED
    BY <1>2, <1>14, <2>1, <2>2 DEF ReleaseHandedOver, Counted
<1> QED
  BY <1>6, <1>7, <1>8, <1>9, <1>10, <1>11, <1>12, <1>13, <1>14 DEF OwnerStep


\* The steps of the loop that neither queue an event nor count references.
LEMMA QuietCount ==
    ASSUME CountInv, NEW t \in Sources,
           UNCHANGED <<sources, ref, alive, own, refused>>,
           Occ(pipe', AddEvt(t)) = Occ(pipe, AddEvt(t))
    PROVE  Counted(t)'
<1>1. Counted(t)
  BY DeadIsFree DEF Counted, CountInv, LiveWhileReferenced
<1> QED
  BY <1>1 DEF Counted, Held

\* A step whose only effect on references is to take s out of the table.
LEMMA RemovalCount ==
    ASSUME CountInv, NEW s \in Sources, NEW t \in Sources, ManagerRemove(s),
           UNCHANGED <<own, refused>>,
           Occ(pipe', AddEvt(t)) = Occ(pipe, AddEvt(t))
    PROVE  Counted(t)'
<1>1. Counted(t) /\ TypeOK /\ LiveWhileReferenced
  BY DeadIsFree DEF Counted, CountInv, LiveWhileReferenced
<1>2. /\ ref'[t] - Occ(sources', t) = ref[t] - Occ(sources, t)
      /\ alive'[t] <=> ref'[t] > 0
  BY <1>1, RemoveCount
<1>3. /\ Occ(sources, t) \in Nat /\ Occ(pipe, AddEvt(t)) \in Nat
      /\ refused[t] \in Nat /\ Held(t) \in {0, 1} /\ ref[t] \in Int
  BY <1>1, CountTypes
<1>4. ref'[t] \in Int /\ Occ(sources', t) \in Nat
  <2>1. sources' \in Seq(Sources) /\ ref' \in [Sources -> Int]
    BY <1>1, ManagerRemoveType
  <2> QED
    BY <2>1, OccType
<1>5. Held(t)' = Held(t)
  BY DEF Held
<1> QED
  BY <1>1, <1>2, <1>3, <1>4, <1>5 DEF Counted

\* An event that is not an ADD leaves the pipe without taking a reference along.
LEMMA ReadCount ==
    ASSUME TypeOK, pipe # <<>>, pipe' = Tail(pipe), NEW t \in Sources
    PROVE  Occ(pipe', AddEvt(t)) =
             Occ(pipe, AddEvt(t))
               - (IF Head(pipe).type = "ADD" /\ Head(pipe).source = t THEN 1 ELSE 0)
<1>1. pipe \in Seq(Events) /\ Head(pipe) \in Events
  BY DEF TypeOK
<1>2. Head(pipe) = AddEvt(t) <=> Head(pipe).type = "ADD" /\ Head(pipe).source = t
  BY <1>1, AddEventOf
<1> QED
  BY <1>1, <1>2, OccTail

LEMMA RunnersCount ==
    ASSUME CountInv, NEW t \in Sources,
           \/ DialogRun \/ Run \/ UserInput
           \/ \E k \in DOMAIN frames : Quit(k)
           \/ \E s \in Clients : Tick(s)
    PROVE  Counted(t)'
<1>1. UNCHANGED <<sources, ref, alive, own, refused>>
  BY DEF DialogRun, Run, UserInput, Quit, Tick
<1>2. Occ(pipe, AddEvt(t)) \in Nat
  BY CountTypes DEF CountInv
<1>3. CASE UserInput \/ \E k \in DOMAIN frames : Quit(k)
  <2>1. QueueEvent(UserEvt) \/ QueueEvent(NopEvt)
    BY <1>3 DEF UserInput, Quit
  <2>2. Occ(pipe', AddEvt(t)) = Occ(pipe, AddEvt(t))
    BY <1>2, <2>1, EventType, AddEventOf, QueueCount DEF CountInv
  <2> QED
    BY <1>1, <2>2, QuietCount
<1>4. CASE DialogRun \/ Run \/ \E s \in Clients : Tick(s)
  <2>1. pipe' = pipe
    BY <1>4 DEF DialogRun, Run, Tick
  <2> QED
    BY <1>1, <2>1, QuietCount
<1> QED
  BY <1>3, <1>4

LEMMA VisitCount ==
    ASSUME CountInv, NEW s \in Sources, LoopVisit(s), NEW t \in Sources
    PROVE  Counted(t)'
<1>1. CASE RemoveDisabled(s) \/ RemoveBroken(s)
  <2>1. ManagerRemove(s) /\ UNCHANGED <<own, refused, pipe>>
    BY <1>1 DEF RemoveDisabled, RemoveBroken
  <2> QED
    BY <2>1, RemovalCount
<1>2. CASE Skip(s)
  BY <1>2, QuietCount DEF Skip
<1>3. ASSUME NEW ok \in BOOLEAN, DispatchWidgetTimer(s, ok) PROVE Counted(t)'
  <2>1. CASE ok
    BY <1>3, <2>1, QuietCount DEF DispatchWidgetTimer
  <2>2. CASE ~ok
    BY <1>3, <2>2, RemovalCount DEF DispatchWidgetTimer
  <2> QED
    BY <2>1, <2>2
<1>4. CASE DispatchHandler(s)
  <2>1. Counted(t)
    BY DeadIsFree DEF Counted, CountInv, LiveWhileReferenced
  <2>2. UNCHANGED <<sources, ref, alive, refused, pipe>>
    BY <1>4 DEF DispatchHandler
  <2>3. Held(t)' = Held(t)
    BY <1>4 DEF DispatchHandler, Held, KeepsReference, CountInv, TypeOK
  <2> QED
    BY <2>1, <2>2, <2>3 DEF Counted
<1> QED
  BY <1>1, <1>2, <1>3, <1>4 DEF LoopVisit

LEMMA PrimaryCount ==
    ASSUME CountInv, PrimaryDispatch, NEW t \in Sources
    PROVE  Counted(t)'
<1>1. TypeOK /\ pipe # <<>> /\ pipe' = Tail(pipe)
  BY DEF CountInv, PrimaryDispatch, PrimaryNop, PrimaryAdd, PrimaryRemove, PrimaryOnEvent
<1>2. /\ Occ(sources, t) \in Nat /\ Occ(pipe, AddEvt(t)) \in Nat
      /\ refused[t] \in Nat /\ Held(t) \in {0, 1} /\ ref[t] \in Int
  BY <1>1, CountTypes
<1>3. Head(pipe).source \in Sources
  <2>1. Head(pipe) \in Events
    BY <1>1 DEF TypeOK
  <2> QED
    BY <2>1 DEF Events
<1>4. CASE PrimaryNop \/ PrimaryOnEvent
  <2>1. Occ(pipe', AddEvt(t)) = Occ(pipe, AddEvt(t))
    BY <1>1, <1>2, <1>4, ReadCount DEF PrimaryNop, PrimaryOnEvent
  <2> QED
    BY <1>4, <2>1, QuietCount DEF PrimaryNop, PrimaryOnEvent
<1>5. CASE PrimaryRemove
  <2>1. Occ(pipe', AddEvt(t)) = Occ(pipe, AddEvt(t))
    BY <1>1, <1>2, <1>5, ReadCount DEF PrimaryRemove
  <2> QED
    BY <1>3, <1>5, <2>1, RemovalCount DEF PrimaryRemove
<1>6. CASE PrimaryAdd
  <2> DEFINE s == Head(pipe).source
  <2>1. Occ(pipe', AddEvt(t)) = Occ(pipe, AddEvt(t)) - (IF s = t THEN 1 ELSE 0)
    BY <1>1, <1>6, ReadCount DEF PrimaryAdd
  <2>2. UNCHANGED <<ref, alive, own>> /\ Held(t)' = Held(t)
    BY <1>6 DEF PrimaryAdd, Held
  <2>3. Occ(sources', t) + refused'[t]
          = Occ(sources, t) + refused[t] + (IF s = t THEN 1 ELSE 0)
    <3> HIDE DEF s
    <3>1. ManagerAdd(s)
      BY <1>6 DEF PrimaryAdd, s
    <3>2. s \in Sources /\ sources \in Seq(Sources) /\ refused \in [Sources -> Nat]
      BY <1>1, <1>3 DEF TypeOK, s
    <3>3. CASE Len(sources) < MaxSources
      <4>1. Occ(sources', t) = Occ(sources, t) + (IF s = t THEN 1 ELSE 0)
        <5>1. sources' = Append(sources, s)
          BY <3>1, <3>3 DEF ManagerAdd
        <5>2. Occ(Append(sources, s), t) = Occ(sources, t) + (IF s = t THEN 1 ELSE 0)
          BY <3>2, OccAppend
        <5> QED
          BY <5>1, <5>2
      <4>2. refused' = refused
        BY <3>1, <3>3 DEF ManagerAdd
      <4> QED
        BY <1>2, <4>1, <4>2
    <3>4. CASE ~(Len(sources) < MaxSources)
      <4>1. sources' = sources /\ refused' = [refused EXCEPT ![s] = refused[s] + 1]
        BY <3>1, <3>4 DEF ManagerAdd
      <4> QED
        BY <1>2, <3>2, <4>1
    <3> QED
      BY <3>3, <3>4
  <2>4. Counted(t)
    BY DeadIsFree DEF Counted, CountInv, LiveWhileReferenced
  <2>5. Occ(sources', t) \in Nat /\ refused'[t] \in Nat
    <3>1. sources' \in Seq(Sources) /\ refused' \in [Sources -> Nat]
      BY <1>1, <1>3, <1>6, ManagerAddType DEF PrimaryAdd
    <3> QED
      BY <3>1, OccType
  <2> HIDE DEF s
  <2> QED
    BY <1>2, <2>1, <2>2, <2>3, <2>4, <2>5 DEF Counted
<1> QED
  BY <1>4, <1>5, <1>6 DEF PrimaryDispatch

LEMMA ReturnCount ==
    ASSUME CountInv, NEW ok \in BOOLEAN, HandlerReturn(ok), NEW t \in Sources
    PROVE  Counted(t)'
<1>1. UNCHANGED <<own, refused, pipe>>
  BY DEF HandlerReturn
<1>2. CASE ok
  BY <1>1, <1>2, QuietCount DEF HandlerReturn
<1>3. CASE ~ok
  <2>1. ManagerRemove(Top.cur) /\ Top.cur \in Sources
    BY <1>3, TopType DEF HandlerReturn, CountInv
  <2> QED
    BY <1>1, <2>1, RemovalCount
<1> QED
  BY <1>2, <1>3

LEMMA ManagerDestroyCount ==
    ASSUME CountInv, ManagerDestroy, NEW t \in Sources
    PROVE  Counted(t)'
<1>1. /\ Counted(t)
      /\ Occ(sources, t) \in Nat /\ Occ(pipe, AddEvt(t)) \in Nat
      /\ refused[t] \in Nat /\ Held(t) \in {0, 1} /\ ref[t] \in Int
      /\ InTable(t) <=> Occ(sources, t) # 0
  BY DeadIsFree, CountTypes DEF Counted, CountInv, LiveWhileReferenced
<1>2. Occ(sources', t) = 0
  BY OccEmpty DEF ManagerDestroy
<1>3. ref'[t] = ref[t] - Occ(sources, t)
  BY DEF ManagerDestroy
<1>4. alive'[t] <=> alive[t] /\ (InTable(t) => ref'[t] # 0)
  BY DEF ManagerDestroy
<1>5. Held(t)' = Held(t) /\ UNCHANGED <<refused, pipe>>
  BY DEF ManagerDestroy, Held
<1> QED
  BY <1>1, <1>2, <1>3, <1>4, <1>5 DEF Counted

LEMMA CountStep == CountInv /\ [Next]_vars => CountInv'
<1> SUFFICES ASSUME CountInv, [Next]_vars PROVE CountInv'
  OBVIOUS
<1>1. TypeOK'
  BY TypeStep DEF CountInv
<1>2. ASSUME NEW t \in Sources PROVE Counted(t)'
  <2>1. CASE UNCHANGED vars
    BY <2>1, QuietCount DEF vars
  <2>2. CASE Application
    BY <2>2, OwnerCount, RunnersCount DEF Application
  <2>3. CASE Environment
    BY <2>3, RunnersCount DEF Environment
  <2>4. CASE LoopStep
    <3>1. ASSUME \/ \E err \in SUBSET (IF FdErrors THEN TableFds \ {Primary} ELSE {}) : Select(err)
                 \/ SelectFail \/ PassEnd \/ PassBreak \/ LoopExit
          PROVE  Counted(t)'
      <4>1. UNCHANGED <<sources, ref, alive, own, refused, pipe>>
        BY <3>1 DEF Select, SelectFail, PassEnd, PassBreak, LoopExit
      <4> QED
        BY <4>1, QuietCount
    <3> QED
      BY <2>4, <3>1, VisitCount, PrimaryCount, ReturnCount, ManagerDestroyCount DEF LoopStep
  <2> QED
    BY <2>1, <2>2, <2>3, <2>4 DEF Next, Terminated
<1> QED
  BY <1>1, <1>2 DEF CountInv, Counted, RefConservation, LiveWhileReferenced, Held

LEMMA CountInit == Init => CountInv
<1> SUFFICES ASSUME Init PROVE CountInv
  OBVIOUS
<1>1. TypeOK
  BY TypeInit
<1>2. ASSUME NEW t \in Sources PROVE Counted(t)
  <2>1. Occ(pipe, AddEvt(t)) = 0
    BY OccEmpty DEF Init
  <2>2. Occ(sources, t) = IF t = Primary THEN 1 ELSE 0
    BY OccSingleton DEF Init
  <2>3. Held(t) = 0 /\ refused[t] = 0
    BY DEF Init, Held
  <2>4. ref[t] = (IF t = Primary THEN 1 ELSE 0) /\ (alive[t] <=> t = Primary)
    BY DEF Init
  <2> QED
    BY <2>1, <2>2, <2>3, <2>4 DEF Counted
<1> QED
  BY <1>1, <1>2 DEF CountInv, Counted, RefConservation, LiveWhileReferenced, Held

\* No reference is lost or invented, whatever the widgets, the loop and the
\* nested dialogs do, and however full the table is.
THEOREM ReferencesConserved == Spec => []RefConservation
<1>1. CountInv => RefConservation
  BY DEF CountInv
<1> QED
  BY <1>1, CountInit, CountStep, PTL DEF Spec

\* The table, and the ADD events on their way to it, never refer to freed memory.
THEOREM ManagedSourcesAlive == Spec => []ManagedIsAlive
<1>1. ASSUME CountInv PROVE ManagedIsAlive
  <2>1. ASSUME NEW k \in DOMAIN sources PROVE alive[sources[k]]
    <3>1. sources[k] \in Sources /\ InTable(sources[k])
      BY <1>1 DEF CountInv, TypeOK, InTable
    <3> QED
      BY <1>1, <3>1, CountTypes, DeadIsFree DEF CountInv
  <2>2. ASSUME NEW k \in DOMAIN pipe, pipe[k].type = "ADD" PROVE alive[pipe[k].source]
    <3> DEFINE s == pipe[k].source
    <3>1. pipe \in Seq(Events) /\ pipe[k] \in Events
      BY <1>1 DEF CountInv, TypeOK
    <3>2. s \in Sources
      BY <3>1 DEF Events
    <3>3. pipe[k] = AddEvt(s)
      BY <2>2, <3>1, <3>2, AddEventOf
    <3>4. Occ(pipe, AddEvt(s)) # 0
      BY <3>1, <3>3, OccType
    <3> HIDE DEF s
    <3>5. alive[s]
      BY <1>1, <3>2, <3>4, DeadIsFree
    <3> QED
      BY <3>5 DEF s
  <2> QED
    BY <2>1, <2>2 DEF ManagedIsAlive
<1> QED
  BY <1>1, CountInit, CountStep, PTL DEF Spec


(***************************************************************************)
(* A stopped source is not dispatched. The owner's stop only queues an     *)
(* event; what keeps the source quiet until the event is read is that      *)
(* every source which is stopped, but still in the table or on its way to  *)
(* it, is disabled. A source created at a freed address is enabled, so the *)
(* argument needs the counts: nothing of its former life is left.          *)
(***************************************************************************)

TopIsLive == Top.pc \notin {"exited", "deinit"}

\* The slots and the pending ADD events of a source.
Places(s) == Occ(sources, s) + Occ(pipe, AddEvt(s))

StoppedIsDisabled(s) ==
    TopIsLive /\ ~want[s] /\ Places(s) > 0 => disable[s] > 0

StopInv == CountInv /\ \A s \in Clients : StoppedIsDisabled(s)

\* A step that neither starts nor stops t, nor puts it anywhere.
LEMMA UnrelatedStep ==
    ASSUME NEW t, StoppedIsDisabled(t), Places(t) \in Int, Places(t)' \in Int,
           Places(t)' <= Places(t), TopIsLive' => TopIsLive,
           want'[t] = want[t], disable'[t] = disable[t]
    PROVE  StoppedIsDisabled(t)'
<1>1. Places(t)' > 0 => Places(t) > 0
  OBVIOUS
<1> QED
  BY <1>1 DEF StoppedIsDisabled

LEMMA PlacesType ==
    ASSUME CountInv, [Next]_vars, NEW t \in Clients
    PROVE  /\ Places(t) \in Nat /\ Places(t)' \in Nat
           /\ Occ(sources, t) \in Nat /\ Occ(pipe, AddEvt(t)) \in Nat
           /\ Occ(sources', t) \in Nat /\ Occ(pipe', AddEvt(t)) \in Nat
           /\ want[t] \in BOOLEAN /\ disable[t] \in Nat
<1>1. TypeOK /\ TypeOK'
  BY TypeStep DEF CountInv
<1>2. Occ(sources, t) \in Nat /\ Occ(sources', t) \in Nat
  BY <1>1, OccType DEF TypeOK
<1>3. Occ(pipe, AddEvt(t)) \in Nat /\ Occ(pipe', AddEvt(t)) \in Nat
  BY <1>1, OccType DEF TypeOK
<1>4. Places(t) \in Nat /\ Places(t)' \in Nat
  BY <1>2, <1>3 DEF Places
<1>5. want[t] \in BOOLEAN /\ disable[t] \in Nat
  BY <1>1, ClientIsSource DEF TypeOK
<1> QED
  BY <1>2, <1>3, <1>4, <1>5

LEMMA OwnerStop ==
    ASSUME StopInv, NEW s \in Clients, OwnerStep(s), [Next]_vars, NEW t \in Clients
    PROVE  StoppedIsDisabled(t)'
<1>1. s \in Sources /\ t \in Sources
  BY ClientIsSource
<1>2. CountInv /\ TypeOK /\ StoppedIsDisabled(t)
  BY DEF StopInv, CountInv
<1>3. UNCHANGED <<sources, frames>>
  BY DEF OwnerStep, CreateOwned, CreateAndAdd, StartWithReset, StartPlain, Stop,
         DestroyCaretOwner, DestroyWaitBox, DestroyWndManager, ReleaseHandedOver
<1>4. TopIsLive' = TopIsLive
  BY <1>3 DEF TopIsLive, Top
<1>5. CASE t # s
  <2>1. want'[t] = want[t] /\ disable'[t] = disable[t]
    BY <1>1, <1>2, <1>5
       DEF OwnerStep, CreateOwned, CreateAndAdd, StartWithReset, StartPlain, Stop,
           DestroyCaretOwner, DestroyWaitBox, DestroyWndManager, ReleaseHandedOver,
           Create, TypeOK
  <2>2. \/ pipe' = pipe \/ QueueEvent(AddEvt(s)) \/ QueueEvent(RemoveEvt(s))
    BY DEF OwnerStep, CreateOwned, CreateAndAdd, StartWithReset, StartPlain, Stop,
           DestroyCaretOwner, DestroyWaitBox, DestroyWndManager, ReleaseHandedOver
  <2>3. AddEvt(s) # AddEvt(t) /\ RemoveEvt(s) # AddEvt(t)
    BY <1>1, <1>5, AddEventOf
  <2>4. AddEvt(s) \in Events /\ RemoveEvt(s) \in Events
    BY <1>1, EventType
  <2>5. Occ(pipe', AddEvt(t)) = Occ(pipe, AddEvt(t))
    BY <1>1, <1>2, <2>2, <2>3, <2>4, QueueCount, PlacesType
  <2>6. Places(t)' = Places(t)
    BY <1>3, <2>5 DEF Places
  <2> QED
    BY <1>2, <1>4, <2>1, <2>6, PlacesType, UnrelatedStep
<1>6. CASE t = s
  <2>1. CASE CreateOwned(s)
    <3>1. Places(t) = 0
      BY <1>2, <1>1, <1>6, <2>1, DeadIsFree DEF CreateOwned, Create, Places
    <3>2. Places(t)' = Places(t)
      BY <2>1 DEF CreateOwned, Places
    <3> QED
      BY <3>1, <3>2 DEF StoppedIsDisabled
  <2>2. CASE CreateAndAdd(s) \/ StartWithReset(s) \/ StartPlain(s)
    <3>1. want'[t]
      BY <1>1, <1>2, <1>6, <2>2 DEF CreateAndAdd, StartWithReset, StartPlain, TypeOK
    <3> QED
      BY <3>1 DEF StoppedIsDisabled
  <2>3. CASE Stop(s) \/ DestroyCaretOwner(s) \/ ReleaseHandedOver(s)
    <3>1. disable'[t] > 0
      BY <1>1, <1>2, <1>6, <2>3
         DEF Stop, DestroyCaretOwner, ReleaseHandedOver, TypeOK
    <3> QED
      BY <3>1 DEF StoppedIsDisabled
  <2>4. CASE DestroyWaitBox(s)
    <3>1. CASE want[s]
      <4>1. disable'[t] > 0
        BY <1>1, <1>2, <1>6, <2>4, <3>1 DEF DestroyWaitBox, TypeOK
      <4> QED
        BY <4>1 DEF StoppedIsDisabled
    <3>2. CASE ~want[s]
      <4>1. want'[t] = want[t] /\ disable'[t] = disable[t] /\ Places(t)' = Places(t)
        BY <1>1, <1>2, <1>6, <2>4, <3>2 DEF DestroyWaitBox, TypeOK, Places
      <4> QED
        BY <1>2, <1>4, <4>1, PlacesType, UnrelatedStep
    <3> QED
      BY <3>1, <3>2
  <2>5. CASE DestroyWndManager(s)
    <3>1. ~TopIsLive
      BY <2>5 DEF DestroyWndManager, InTeardown, TopIsLive
    <3> QED
      BY <1>4, <3>1 DEF StoppedIsDisabled
  <2> QED
    BY <2>1, <2>2, <2>3, <2>4, <2>5 DEF OwnerStep
<1> QED
  BY <1>5, <1>6

LEMMA RunnersStop ==
    ASSUME StopInv, [Next]_vars, NEW t \in Clients,
           \/ DialogRun \/ Run \/ UserInput
           \/ \E k \in DOMAIN frames : Quit(k)
           \/ \E s \in Clients : Tick(s)
    PROVE  StoppedIsDisabled(t)'
<1>1. CountInv /\ TypeOK /\ StoppedIsDisabled(t) /\ t \in Sources
  BY ClientIsSource DEF StopInv, CountInv
<1>2. UNCHANGED <<sources, want, disable>>
  BY DEF DialogRun, Run, UserInput, Quit, Tick
<1>3. TopIsLive' => TopIsLive
  BY DEF DialogRun, Run, UserInput, Quit, Tick, TopIsLive, Top
<1>4. pipe' = pipe \/ QueueEvent(UserEvt) \/ QueueEvent(NopEvt)
  BY DEF DialogRun, Run, UserInput, Quit, Tick
<1>5. Occ(pipe', AddEvt(t)) = Occ(pipe, AddEvt(t))
  BY <1>1, <1>4, EventType, AddEventOf, QueueCount, PlacesType
<1>6. Places(t)' = Places(t)
  BY <1>2, <1>5 DEF Places
<1> QED
  BY <1>1, <1>2, <1>3, <1>6, PlacesType, UnrelatedStep

LEMMA LoopStop ==
    ASSUME StopInv, [Next]_vars, NEW t \in Clients, LoopStep
    PROVE  StoppedIsDisabled(t)'
<1>1. CountInv /\ TypeOK /\ LiveWhileReferenced /\ StoppedIsDisabled(t) /\ t \in Sources
  BY ClientIsSource DEF StopInv, CountInv
<1>2. UNCHANGED <<want, disable>>
  BY DEF LoopStep, Select, SelectFail, PassEnd, PassBreak, LoopVisit, RemoveDisabled,
         RemoveBroken, Skip, DispatchWidgetTimer, DispatchHandler, PrimaryDispatch,
         PrimaryNop, PrimaryAdd, PrimaryRemove, PrimaryOnEvent, HandlerReturn, LoopExit,
         ManagerDestroy
<1>3. CASE ManagerDestroy
  <2>1. Occ(sources', t) = 0 /\ pipe' = pipe
    BY <1>3, OccEmpty DEF ManagerDestroy
  <2>2. Places(t)' <= Places(t)
    BY <2>1, PlacesType, <1>1 DEF Places
  <2>3. ~TopIsLive'
    <3>1. [Top EXCEPT !.pc = "deinit"] \in Frame /\ [Top EXCEPT !.pc = "deinit"].pc = "deinit"
      BY <1>1, TopType DEF Frame
    <3>2. frames' = SetTop([Top EXCEPT !.pc = "deinit"])
      BY <1>3 DEF ManagerDestroy
    <3>3. Top'.pc = "deinit"
      BY <1>1, <3>1, <3>2, SetTopType DEF Top
    <3> QED
      BY <3>3 DEF TopIsLive
  <2> QED
    BY <2>3 DEF StoppedIsDisabled
<1>4. CASE ~ManagerDestroy
  <2>1. TopIsLive
    BY <1>4 DEF LoopStep, Select, SelectFail, PassEnd, PassBreak, LoopVisit, RemoveDisabled,
         RemoveBroken, Skip, DispatchWidgetTimer, DispatchHandler, PrimaryDispatch,
         PrimaryNop, PrimaryAdd, PrimaryRemove, PrimaryOnEvent, HandlerReturn, LoopExit,
         AtSource, Dispatches, TopIsLive
  <2>2. CASE PrimaryDispatch
    <3>1. pipe # <<>> /\ pipe' = Tail(pipe)
      BY <2>2 DEF PrimaryDispatch, PrimaryNop, PrimaryAdd, PrimaryRemove, PrimaryOnEvent
    <3>2. Occ(pipe', AddEvt(t)) =
             Occ(pipe, AddEvt(t))
               - (IF Head(pipe).type = "ADD" /\ Head(pipe).source = t THEN 1 ELSE 0)
      BY <1>1, <3>1, ReadCount
    <3>3. Head(pipe).source \in Sources
      <4>1. Head(pipe) \in Events
        BY <1>1, <3>1 DEF TypeOK
      <4> QED
        BY <4>1 DEF Events
    <3>4. Occ(sources', t) <=
             Occ(sources, t)
               + (IF Head(pipe).type = "ADD" /\ Head(pipe).source = t THEN 1 ELSE 0)
      <4>1. CASE PrimaryNop \/ PrimaryOnEvent
        BY <1>1, <4>1, PlacesType DEF PrimaryNop, PrimaryOnEvent
      <4>2. CASE PrimaryRemove
        BY <1>1, <3>3, <4>2, RemoveCount, PlacesType DEF PrimaryRemove
      <4>3. CASE PrimaryAdd
        <5> DEFINE s == Head(pipe).source
        <5>1. Head(pipe).type = "ADD" /\ ManagerAdd(s)
          BY <4>3 DEF PrimaryAdd
        <5>2. s \in Sources /\ sources \in Seq(Sources)
          BY <1>1, <3>3 DEF TypeOK
        <5>3. \/ sources' = sources \/ sources' = Append(sources, s)
          BY <5>1 DEF ManagerAdd
        <5> HIDE DEF s
        <5>4. Occ(Append(sources, s), t) = Occ(sources, t) + (IF s = t THEN 1 ELSE 0)
          BY <5>2, OccAppend
        <5>5. Occ(sources, t) \in Nat
          BY <1>1, PlacesType
        <5>6. Occ(sources', t) <= Occ(sources, t) + (IF s = t THEN 1 ELSE 0)
          <6>1. CASE sources' = sources
            BY <5>5, <6>1
          <6>2. CASE sources' = Append(sources, s)
            BY <5>4, <5>5, <6>2
          <6> QED
            BY <5>3, <6>1, <6>2
        <5> QED
          BY <5>1, <5>6 DEF s
      <4> QED
        BY <2>2, <4>1, <4>2, <4>3 DEF PrimaryDispatch
    <3>5. Places(t)' <= Places(t)
      BY <1>1, <3>2, <3>4, PlacesType DEF Places
    <3> QED
      BY <1>1, <1>2, <2>1, <3>5, PlacesType, UnrelatedStep
  <2>3. CASE ~PrimaryDispatch
    <3>1. pipe' = pipe
      BY <1>4, <2>3
         DEF LoopStep, Select, SelectFail, PassEnd, PassBreak, LoopVisit, RemoveDisabled,
             RemoveBroken, Skip, DispatchWidgetTimer, DispatchHandler, HandlerReturn, LoopExit
    <3>2. sources' = sources \/ \E s \in Sources : ManagerRemove(s)
      BY <1>1, <1>4, <2>3, TopType
         DEF LoopStep, Select, SelectFail, PassEnd, PassBreak, LoopVisit, RemoveDisabled,
             RemoveBroken, Skip, DispatchWidgetTimer, DispatchHandler, HandlerReturn, LoopExit
    <3>3. Occ(sources', t) <= Occ(sources, t)
      BY <1>1, <3>2, RemoveCount, PlacesType
    <3>4. Places(t)' <= Places(t)
      BY <1>1, <3>1, <3>3, PlacesType DEF Places
    <3> QED
      BY <1>1, <1>2, <2>1, <3>4, PlacesType, UnrelatedStep
  <2> QED
    BY <2>2, <2>3
<1> QED
  BY <1>3, <1>4

LEMMA StopInit == Init => StopInv
<1> SUFFICES ASSUME Init PROVE StopInv
  OBVIOUS
<1>1. ASSUME NEW s \in Clients PROVE Places(s) = 0
  <2>1. Occ(pipe, AddEvt(s)) = 0
    BY OccEmpty DEF Init
  <2>2. Occ(sources, s) = 0
    BY OccSingleton, ClientIsSource DEF Init
  <2> QED
    BY <2>1, <2>2 DEF Places
<1> QED
  BY <1>1, CountInit DEF StopInv, StoppedIsDisabled

LEMMA StopStep == StopInv /\ [Next]_vars => StopInv'
<1> SUFFICES ASSUME StopInv, [Next]_vars PROVE StopInv'
  OBVIOUS
<1>1. CountInv'
  BY CountStep DEF StopInv
<1>2. ASSUME NEW t \in Clients PROVE StoppedIsDisabled(t)'
  <2>1. CASE UNCHANGED vars
    BY <2>1 DEF vars, StopInv, StoppedIsDisabled, TopIsLive, Top, Places
  <2>2. CASE Application
    BY <2>2, OwnerStop, RunnersStop DEF Application
  <2>3. CASE Environment
    BY <2>3, RunnersStop DEF Environment
  <2>4. CASE LoopStep
    BY <2>4, LoopStop
  <2> QED
    BY <2>1, <2>2, <2>3, <2>4 DEF Next, Terminated
<1> QED
  BY <1>1, <1>2 DEF StopInv

LEMMA StopDispatch == StopInv => StoppedNeverDispatched
<1> SUFFICES ASSUME StopInv, NEW s \in Clients, Dispatches(s) PROVE want[s]
  BY DEF StoppedNeverDispatched
<1>1. TypeOK /\ s \in Sources /\ StoppedIsDisabled(s)
  BY ClientIsSource DEF StopInv, CountInv
<1>2. TopIsLive /\ disable[s] = 0 /\ s = sources[Top.i] /\ Top.i <= Len(sources)
  BY DEF Dispatches, AtSource, TopIsLive
<1>3. Occ(sources, s) \in Nat /\ Occ(pipe, AddEvt(s)) \in Nat
      /\ (InTable(s) <=> Occ(sources, s) # 0)
  BY <1>1, CountTypes
<1>4. InTable(s)
  BY <1>1, <1>2, TopType DEF InTable, TypeOK
<1>5. Places(s) > 0
  BY <1>3, <1>4 DEF Places
<1> QED
  BY <1>1, <1>2, <1>5 DEF StoppedIsDisabled

\* After its owner has stopped or destroyed it, no source is dispatched: the
\* callback of a timer never runs on a widget that is gone.
THEOREM StoppedIsQuiet == Spec => []StoppedNeverDispatched
BY StopInit, StopStep, StopDispatch, PTL DEF Spec

=============================================================================
