---------------------- MODULE MainLoopPointers_proofs ----------------------
(***************************************************************************)
(* Theorems of MainLoop about what the loop believes of its sources: the   *)
(* pointers that owners and handlers keep, the place of a started source,  *)
(* and what the fd sets and the index of a pass still say. After the       *)
(* lemmas on the stack, the table and the pipe come four parts: the        *)
(* pointers (PointersInv), the pipe that a pass found readable (PipeOK),   *)
(* the slots it has yet to visit (PassInv), and what has been started      *)
(* (StartOK, Settled).                                                     *)
(***************************************************************************)
EXTENDS MainLoop_proofs, SequenceTheorems

-----------------------------------------------------------------------------
(* The stack of loops.                                                     *)

\* What every loop on the stack knows of its sources.
FrameOK(f) ==
    /\ f.pc = "handler" =>
        OwnerOf(f.cur) \in {"wnd_manager", "long_press", "dialog", "adopted"}
    /\ \A s \in f.fdset \cup f.err_fdset : IsFd(s)
    /\ ~FdErrors => f.err_fdset = {}

\* A loop below the innermost one is in a handler that runs a dialog.
Suspended(f) == f.pc = "handler" /\ OwnerOf(f.cur) \in {"wnd_manager", "long_press"}

FramesOK ==
    /\ Len(frames) <= MaxDepth
    /\ \A k \in DOMAIN frames : FrameOK(frames[k])
    /\ \A k \in 1 .. (Len(frames) - 1) : Suspended(frames[k])
    /\ Top.pc \in {"setup", "exited", "deinit"} => Len(frames) = 1

\* Two frames that differ in nothing but running and stale.
Alike(f, g) ==
    /\ f.pc = g.pc /\ f.i = g.i /\ f.cur = g.cur
    /\ f.fdset = g.fdset /\ f.err_fdset = g.err_fdset

\* What FramesOK says of a frame does not depend on running and stale.
LEMMA AlikeOK ==
    ASSUME NEW f, NEW g, Alike(f, g)
    PROVE  /\ FrameOK(f) <=> FrameOK(g)
           /\ Suspended(f) <=> Suspended(g)
BY DEF Alike, FrameOK, Suspended

\* A step that leaves f on top: the loops below it are suspended as before.
LEMMA TopStep ==
    ASSUME TypeOK, NEW f \in Frame, frames' = SetTop(f) \/ frames' = After(f)
    PROVE  /\ Len(frames') = Len(frames) /\ Len(frames) \in Nat \ {0}
           /\ DOMAIN frames' = 1 .. Len(frames)
           /\ Top' = frames'[Len(frames)]
           /\ Alike(Top', f) /\ Top'.running = f.running
           /\ frames' = SetTop(f) \/ sources' = sources => Top' = f
           /\ \A k \in 1 .. (Len(frames) - 1) : Alike(frames'[k], frames[k])
<1> DEFINE g == SetTop(f)
<1>1. Len(frames) \in Nat \ {0}
  BY TopType
<1>2. /\ g \in Seq(Frame) /\ g # <<>> /\ Len(g) = Len(frames) /\ g[Len(frames)] = f
      /\ \A k \in 1 .. (Len(frames) - 1) : g[k] = frames[k]
  BY SetTopType
<1>3. frames' = g \/ (frames' = StaleFrames(g) /\ sources' # sources)
  BY DEF After
<1> HIDE DEF g
<1>4. DOMAIN g = 1 .. Len(frames)
  BY <1>2
<1>5. CASE frames' = g
  <2>1. Top' = f /\ Len(frames') = Len(frames) /\ DOMAIN frames' = 1 .. Len(frames)
    BY <1>2, <1>4, <1>5 DEF Top
  <2>2. \A k \in 1 .. (Len(frames) - 1) : frames'[k] = frames[k]
    BY <1>2, <1>5
  <2>3. Top' = frames'[Len(frames)]
    BY <2>1 DEF Top
  <2> QED
    BY <1>1, <2>1, <2>2, <2>3 DEF Alike
<1>6. CASE frames' = StaleFrames(g) /\ sources' # sources
  <2>1. StaleFrames(g) = [k \in 1 .. Len(frames) |-> [g[k] EXCEPT !.stale = TRUE]]
    BY <1>4 DEF StaleFrames
  <2>2. \A k \in 1 .. Len(frames) : g[k] \in Frame
    BY <1>2, <1>4
  <2>3. \A k \in 1 .. Len(frames) :
            /\ Alike([g[k] EXCEPT !.stale = TRUE], g[k])
            /\ [g[k] EXCEPT !.stale = TRUE].running = g[k].running
    BY <2>2 DEF Alike, Frame
  <2>4. Len(frames') = Len(frames) /\ DOMAIN frames' = 1 .. Len(frames)
    BY <1>1, <1>6, <2>1
  <2>5. \A k \in 1 .. Len(frames) :
            Alike(frames'[k], g[k]) /\ frames'[k].running = g[k].running
    BY <1>6, <2>1, <2>3
  <2>6. Top' = frames'[Len(frames)]
    BY <2>4 DEF Top
  <2>7. Alike(Top', f) /\ Top'.running = f.running
    <3>1. Len(frames) \in 1 .. Len(frames)
      BY <1>1
    <3> QED
      BY <1>2, <2>5, <2>6, <3>1
  <2>8. \A k \in 1 .. (Len(frames) - 1) : k \in 1 .. Len(frames)
    BY <1>1
  <2>9. \A k \in 1 .. (Len(frames) - 1) : Alike(frames'[k], frames[k])
    BY <1>2, <2>5, <2>8
  <2>10. frames' # SetTop(f) \/ Top' = f
    BY <1>2, <2>4, <2>6 DEF g
  <2> QED
    BY <1>1, <1>6, <2>4, <2>6, <2>7, <2>9, <2>10
<1> QED
  BY <1>3, <1>5, <1>6

\* The frames that the loop and the handlers leave on top.
LEMMA NextFrames ==
    ASSUME TypeOK
    PROVE  /\ NextSource \in Frame /\ NextSource.pc = "pass" /\ NextSource.i = Top.i + 1
           /\ NextSource.fdset = Top.fdset /\ NextSource.err_fdset = Top.err_fdset
           /\ NextSource.stale = Top.stale
           /\ SameSlot \in Frame /\ SameSlot.pc = "pass" /\ SameSlot.i = Top.i
           /\ SameSlot.fdset = Top.fdset /\ SameSlot.err_fdset = Top.err_fdset
           /\ SameSlot.stale = Top.stale
           /\ Reselect \in Frame /\ Reselect.pc = "loop"
           /\ Reselect.fdset = {} /\ Reselect.err_fdset = {}
<1>1. Top \in Frame
  BY TopType
<1>2. NewFrame("loop") \in Frame
  BY NewFrameType DEF PCs
<1>3. /\ NewFrame("loop").pc = "loop" /\ NewFrame("loop").fdset = {}
      /\ NewFrame("loop").err_fdset = {}
  BY DEF NewFrame
<1>4. NextSource \in Frame /\ SameSlot \in Frame /\ Reselect \in Frame
  BY NextFrameType
<1>5. /\ NextSource.pc = "pass" /\ NextSource.i = Top.i + 1
      /\ NextSource.fdset = Top.fdset /\ NextSource.err_fdset = Top.err_fdset
      /\ NextSource.stale = Top.stale
  BY <1>1 DEF NextSource, Frame
<1>6. /\ SameSlot.pc = "pass" /\ SameSlot.i = Top.i
      /\ SameSlot.fdset = Top.fdset /\ SameSlot.err_fdset = Top.err_fdset
      /\ SameSlot.stale = Top.stale
  BY <1>1 DEF SameSlot, Frame
<1>7. Reselect.pc = "loop" /\ Reselect.fdset = {} /\ Reselect.err_fdset = {}
  BY <1>2, <1>3 DEF Reselect, Frame
<1> QED
  BY <1>4, <1>5, <1>6, <1>7

\* A handler runs; a pass begins; the loop is over.
Handling(s) == [Top EXCEPT !.pc = "handler", !.cur = s]
Passing(A, B) == [Top EXCEPT !.pc = "pass", !.i = 1, !.stale = FALSE, !.fdset = A,
                             !.err_fdset = B]
Ended(at) == [Top EXCEPT !.pc = at]

\* The frame of a handler that has just been called.
LEMMA HandlingFrame ==
    ASSUME TypeOK, NEW s \in Sources
    PROVE  /\ Handling(s) \in Frame /\ Handling(s).pc = "handler" /\ Handling(s).cur = s
           /\ Handling(s).i = Top.i
           /\ Handling(s).fdset = Top.fdset /\ Handling(s).err_fdset = Top.err_fdset
           /\ Handling(s).stale = Top.stale
<1>1. Top \in Frame
  BY TopType
<1> QED
  BY <1>1, HandlerFrameType DEF Frame, Handling

\* The frame of a pass that has just begun.
LEMMA PassingFrame ==
    ASSUME TypeOK, NEW A \in SUBSET Sources, NEW B \in SUBSET Sources
    PROVE  /\ Passing(A, B) \in Frame /\ Passing(A, B).pc = "pass" /\ Passing(A, B).i = 1
           /\ ~Passing(A, B).stale
           /\ Passing(A, B).fdset = A /\ Passing(A, B).err_fdset = B
<1>1. Top \in Frame
  BY TopType
<1>2. Passing(A, B) \in Frame
  BY PassFrameType DEF Passing
<1>3. /\ Passing(A, B).pc = "pass" /\ Passing(A, B).i = 1
      /\ ~Passing(A, B).stale
      /\ Passing(A, B).fdset = A /\ Passing(A, B).err_fdset = B
  BY <1>1 DEF Frame, Passing
<1> QED
  BY <1>2, <1>3

\* The frame of a loop that is over.
LEMMA EndedFrame ==
    ASSUME TypeOK, NEW at \in PCs
    PROVE  /\ Ended(at) \in Frame /\ Ended(at).pc = at
           /\ Ended(at).fdset = Top.fdset /\ Ended(at).err_fdset = Top.err_fdset
<1>1. Top \in Frame
  BY TopType
<1> QED
  BY <1>1 DEF Frame, Ended, PCs

\* The innermost frame is one of those that FramesOK speaks of.
LEMMA TopFrameOK ==
    ASSUME TypeOK, FramesOK
    PROVE  FrameOK(Top)
BY TopType DEF FramesOK, Top

\* A step that changes the innermost frame alone keeps FramesOK if the new frame is
\* as it should be.
LEMMA FramesTopStep ==
    ASSUME TypeOK, FramesOK, NEW f \in Frame, FrameOK(f),
           f.pc \in {"setup", "exited", "deinit"} => Len(frames) = 1,
           frames' = SetTop(f) \/ frames' = After(f)
    PROVE  FramesOK'
<1>1. /\ Len(frames') = Len(frames) /\ Len(frames) \in Nat \ {0}
      /\ DOMAIN frames' = 1 .. Len(frames)
      /\ Top' = frames'[Len(frames)] /\ Alike(Top', f)
      /\ \A k \in 1 .. (Len(frames) - 1) : Alike(frames'[k], frames[k])
  BY TopStep
<1>2. DOMAIN frames = 1 .. Len(frames)
  BY DEF TypeOK
<1>3. FrameOK(Top') /\ Top'.pc = f.pc
  BY <1>1, AlikeOK DEF Alike
<1>4. ASSUME NEW k \in 1 .. (Len(frames) - 1)
      PROVE  FrameOK(frames'[k]) /\ Suspended(frames'[k])
  <2>1. k \in DOMAIN frames
    BY <1>1, <1>2
  <2>2. FrameOK(frames[k]) /\ Suspended(frames[k])
    BY <2>1 DEF FramesOK
  <2> QED
    BY <1>1, <2>2, AlikeOK
<1>5. ASSUME NEW k \in 1 .. Len(frames) PROVE FrameOK(frames'[k])
  <2>1. Len(frames) \in Nat \ {0}
    BY <1>1
  <2>2. k = Len(frames) \/ k \in 1 .. (Len(frames) - 1)
    BY <2>1
  <2> QED
    BY <1>1, <1>3, <1>4, <2>2
<1>6. Len(frames) <= MaxDepth
  BY DEF FramesOK
<1> QED
  BY <1>1, <1>3, <1>4, <1>5, <1>6 DEF FramesOK

\* The stack keeps its shape under every step.
LEMMA FramesStep == TypeOK /\ FramesOK /\ [Next]_vars => FramesOK'
<1> SUFFICES ASSUME TypeOK, FramesOK, [Next]_vars PROVE FramesOK'
  OBVIOUS
<1>1. /\ Len(frames) \in Nat \ {0} /\ Top \in Frame /\ FrameOK(Top)
      /\ Top.cur \in Sources /\ frames \in Seq(Frame)
  BY TopType, TopFrameOK DEF TypeOK
<1>2. ASSUME UNCHANGED frames PROVE FramesOK'
  BY <1>2 DEF FramesOK, Top
<1>3. ASSUME NEW s \in Clients, OwnerStep(s) PROVE FramesOK'
  <2>1. frames' = frames
    BY <1>3 DEF OwnerStep, CreateOwned, CreateAndAdd, StartWithReset, StartPlain, Stop,
         DestroyCaretOwner, DestroyWaitBox, DestroyWndManager, ReleaseHandedOver
  <2> QED
    BY <1>2, <2>1
<1>4. ASSUME NEW k \in DOMAIN frames, Quit(k) PROVE FramesOK'
  <2>1. frames' = [frames EXCEPT ![k] = [frames[k] EXCEPT !.running = FALSE]]
    BY <1>4 DEF Quit
  <2>2. frames[k] \in Frame
    BY <1>1
  <2>3. Alike([frames[k] EXCEPT !.running = FALSE], frames[k])
    BY <2>2 DEF Alike, Frame
  <2>4. DOMAIN frames' = DOMAIN frames /\ Len(frames') = Len(frames)
    BY <1>1, <2>1
  <2>5. \A j \in DOMAIN frames : Alike(frames'[j], frames[j])
    BY <2>1, <2>3 DEF Alike
  <2>6. \A j \in DOMAIN frames : FrameOK(frames'[j]) /\ (Suspended(frames[j]) => Suspended(frames'[j]))
    BY <2>5, AlikeOK DEF FramesOK
  <2>7. Len(frames) \in DOMAIN frames
    BY <1>1
  <2>8. Top'.pc = Top.pc
    BY <2>4, <2>5, <2>7 DEF Top, Alike
  <2>9. \A j \in 1 .. (Len(frames) - 1) : j \in DOMAIN frames
    BY <1>1
  <2> QED
    BY <2>4, <2>6, <2>8, <2>9 DEF FramesOK
<1>5. ASSUME DialogRun PROVE FramesOK'
  <2> DEFINE n == Len(frames)
  <2>1. /\ frames' = Append(frames, NewFrame("loop")) /\ n < MaxDepth
        /\ Top.pc = "handler" /\ OwnerOf(Top.cur) \in {"wnd_manager", "long_press"}
    BY <1>5 DEF DialogRun
  <2>2. NewFrame("loop") \in Frame /\ NewFrame("loop").pc = "loop" /\ FrameOK(NewFrame("loop"))
    BY NewFrameType DEF PCs, NewFrame, FrameOK
  <2>3. /\ Len(frames') = n + 1 /\ DOMAIN frames' = 1 .. (n + 1)
        /\ frames'[n + 1] = NewFrame("loop") /\ \A k \in 1 .. n : frames'[k] = frames[k]
    BY <1>1, <2>1, <2>2
  <2>4. Suspended(frames[n])
    BY <2>1 DEF Suspended, Top
  <2>5. \A k \in 1 .. n : Suspended(frames[k])
    <3>1. \A k \in 1 .. n : k = n \/ k \in 1 .. (n - 1)
      BY <1>1
    <3> QED
      BY <2>4, <3>1 DEF FramesOK
  <2>6. \A k \in 1 .. (n + 1) : k = n + 1 \/ k \in 1 .. n
    BY <1>1
  <2>7. \A k \in 1 .. n : FrameOK(frames[k])
    <3>1. DOMAIN frames = 1 .. n
      BY <1>1
    <3> QED
      BY <3>1 DEF FramesOK
  <2>8. \A k \in DOMAIN frames' : FrameOK(frames'[k])
    BY <2>2, <2>3, <2>6, <2>7
  <2>9. \A k \in 1 .. (Len(frames') - 1) : Suspended(frames'[k])
    BY <1>1, <2>3, <2>5
  <2>10. n + 1 <= MaxDepth
    BY <1>1, <2>1, BoundsAssumption
  <2>11. Top'.pc = "loop"
    BY <2>2, <2>3 DEF Top
  <2> QED
    BY <2>3, <2>8, <2>9, <2>10, <2>11 DEF FramesOK
<1>6. ASSUME Run PROVE FramesOK'
  <2>1. NewFrame("loop") \in Frame /\ NewFrame("loop").pc = "loop" /\ FrameOK(NewFrame("loop"))
    BY NewFrameType DEF PCs, NewFrame, FrameOK
  <2> QED
    BY <1>6, <2>1, FramesTopStep DEF Run
<1>7. ASSUME NEW err \in SUBSET (IF FdErrors THEN TableFds \ {Primary} ELSE {}), Select(err)
      PROVE  FramesOK'
  <2> DEFINE readable == {s \in TableFds : Readable(s)}
  <2>1. readable \in SUBSET Sources /\ err \in SUBSET Sources
    BY TableSetType
  <2>2. \A s \in readable \cup err : IsFd(s)
    BY DEF TableFds
  <2>3. ~FdErrors => err = {}
    OBVIOUS
  <2>4. frames' = SetTop(Passing(readable, err))
    BY <1>7 DEF Select, Passing
  <2> HIDE DEF readable
  <2>5. FrameOK(Passing(readable, err)) /\ Passing(readable, err) \in Frame
        /\ Passing(readable, err).pc = "pass"
    BY <2>1, <2>2, <2>3, PassingFrame DEF FrameOK
  <2> QED
    BY <2>4, <2>5, FramesTopStep
<1>8. ASSUME SelectFail PROVE FramesOK'
  <2>1. TableFds \in SUBSET Sources /\ \A s \in TableFds : IsFd(s)
    BY TableSetType DEF TableFds
  <2>2. frames' = SetTop(Passing({}, TableFds)) /\ FdErrors
    BY <1>8 DEF SelectFail, Passing
  <2>3. /\ Passing({}, TableFds) \in Frame /\ Passing({}, TableFds).pc = "pass"
        /\ Passing({}, TableFds).fdset = {} /\ Passing({}, TableFds).err_fdset = TableFds
    BY <2>1, PassingFrame
  <2>4. FrameOK(Passing({}, TableFds))
    BY <2>1, <2>2, <2>3 DEF FrameOK
  <2> QED
    BY <2>2, <2>3, <2>4, FramesTopStep
<1>9. FrameOK(NextSource) /\ FrameOK(SameSlot) /\ FrameOK(Reselect)
  BY <1>1, NextFrames DEF FrameOK
<1>10. ASSUME \/ frames' = SetTop(NextSource) \/ frames' = After(NextSource)
              \/ frames' = SetTop(SameSlot) \/ frames' = After(SameSlot)
              \/ frames' = SetTop(Reselect)
       PROVE  FramesOK'
  <2>1. /\ NextSource \in Frame /\ NextSource.pc = "pass"
        /\ SameSlot \in Frame /\ SameSlot.pc = "pass"
        /\ Reselect \in Frame /\ Reselect.pc = "loop"
    BY NextFrames
  <2>2. CASE frames' = SetTop(NextSource) \/ frames' = After(NextSource)
    BY <1>9, <2>1, <2>2, FramesTopStep
  <2>3. CASE frames' = SetTop(SameSlot) \/ frames' = After(SameSlot)
    BY <1>9, <2>1, <2>3, FramesTopStep
  <2>4. CASE frames' = SetTop(Reselect)
    BY <1>9, <2>1, <2>4, FramesTopStep
  <2> QED
    BY <1>10, <2>2, <2>3, <2>4
<1>11. ASSUME NEW s \in Sources, frames' = SetTop(Handling(s)),
              OwnerOf(s) \in {"wnd_manager", "long_press", "dialog", "adopted"}
       PROVE  FramesOK'
  <2>1. /\ Handling(s) \in Frame /\ Handling(s).pc = "handler" /\ Handling(s).cur = s
        /\ Handling(s).fdset = Top.fdset /\ Handling(s).err_fdset = Top.err_fdset
    BY HandlingFrame
  <2>2. FrameOK(Handling(s))
    BY <1>1, <1>11, <2>1 DEF FrameOK
  <2> QED
    BY <1>11, <2>1, <2>2, FramesTopStep
<1>12. ASSUME NEW s \in Sources, LoopVisit(s) PROVE FramesOK'
  <2>1. CASE DispatchHandler(s)
    BY <1>11, <2>1 DEF DispatchHandler, Handling
  <2>2. CASE ~DispatchHandler(s)
    BY <1>10, <1>12, <2>2 DEF LoopVisit, RemoveDisabled, RemoveBroken, Skip, DispatchWidgetTimer
  <2> QED
    BY <2>1, <2>2
<1>13. ASSUME PrimaryDispatch PROVE FramesOK'
  <2>1. CASE PrimaryOnEvent
    <3>1. Primary \in Sources /\ OwnerOf(Primary) = "wnd_manager"
      BY DEF Sources, OwnerOf
    <3> QED
      BY <1>11, <2>1, <3>1 DEF PrimaryOnEvent, Handling
  <2>2. CASE ~PrimaryOnEvent
    BY <1>10, <1>13, <2>2 DEF PrimaryDispatch, PrimaryNop, PrimaryAdd, PrimaryRemove
  <2> QED
    BY <2>1, <2>2
<1>14. ASSUME NEW ok \in BOOLEAN, HandlerReturn(ok) PROVE FramesOK'
  BY <1>10, <1>14 DEF HandlerReturn
<1>15. ASSUME NEW at \in {"exited", "deinit"}, Len(frames) = 1, frames' = SetTop(Ended(at))
       PROVE  FramesOK'
  <2>1. /\ Ended(at) \in Frame /\ Ended(at).pc = at
        /\ Ended(at).fdset = Top.fdset /\ Ended(at).err_fdset = Top.err_fdset
    BY EndedFrame DEF PCs
  <2>2. FrameOK(Ended(at))
    BY <1>1, <2>1 DEF FrameOK
  <2> QED
    BY <1>15, <2>1, <2>2, FramesTopStep
<1>16. ASSUME LoopExit PROVE FramesOK'
  <2> DEFINE n == Len(frames) - 1
  <2>1. CASE Len(frames) > 1
    <3>1. frames' = SubSeq(frames, 1, n) /\ n \in 1 .. Len(frames) /\ n \in Nat
      BY <1>1, <1>16, <2>1 DEF LoopExit
    <3>2. /\ Len(frames') = n /\ DOMAIN frames' = 1 .. n
          /\ \A k \in 1 .. n : frames'[k] = frames[k]
      BY <1>1, <3>1
    <3>3. \A k \in 1 .. n : FrameOK(frames[k]) /\ Suspended(frames[k])
      <4>1. \A k \in 1 .. n : k \in DOMAIN frames
        BY <1>1
      <4> QED
        BY <4>1 DEF FramesOK
    <3>4. n \in 1 .. n /\ \A k \in 1 .. (n - 1) : k \in 1 .. n
      BY <3>1
    <3>5. Top'.pc = "handler"
      BY <3>2, <3>3, <3>4 DEF Top, Suspended
    <3>6. n <= MaxDepth
      BY <1>1, BoundsAssumption DEF FramesOK
    <3> HIDE DEF n
    <3> QED
      BY <3>2, <3>3, <3>4, <3>5, <3>6 DEF FramesOK
  <2>2. CASE ~(Len(frames) > 1)
    <3>1. Len(frames) = 1
      <4>1. Len(frames) \in Nat \ {0}
        BY <1>1
      <4> QED
        BY <2>2, <4>1
    <3>2. frames' = SetTop(Ended("exited"))
      BY <1>16, <2>2 DEF LoopExit, Ended
    <3> QED
      BY <1>15, <3>1, <3>2
  <2> QED
    BY <2>1, <2>2
<1>17. ASSUME ManagerDestroy PROVE FramesOK'
  <2>1. Len(frames) = 1
    BY <1>17 DEF ManagerDestroy, InTeardown, FramesOK
  <2> QED
    BY <1>15, <1>17, <2>1 DEF ManagerDestroy, Ended
<1>18. ASSUME LoopStep PROVE FramesOK'
  BY <1>7, <1>8, <1>10, <1>12, <1>13, <1>14, <1>16, <1>17, <1>18
     DEF LoopStep, PassEnd, PassBreak
<1>19. ASSUME Application PROVE FramesOK'
  BY <1>3, <1>4, <1>5, <1>6, <1>19 DEF Application
<1>20. ASSUME Environment PROVE FramesOK'
  BY <1>2, <1>20 DEF Environment, Tick, UserInput
<1> QED
  BY <1>2, <1>18, <1>19, <1>20 DEF Next, Terminated, vars

-----------------------------------------------------------------------------
(* The table and the pipe.                                                 *)

\* What a removal does to the table: nothing to a source that is not there, and
\* the others stay, at most one slot nearer to the front.
LEMMA RemoveTable ==
    ASSUME TypeOK, NEW s \in Sources, ManagerRemove(s)
    PROVE  /\ need_refresh' = need_refresh + 1
           /\ ~InTable(s) => sources' = sources /\ alive' = alive
           /\ \A x \in Sources : x # s => (InTable(x)' <=> InTable(x)) /\ alive'[x] = alive[x]
           /\ \A x \in Sources : InTable(x)' => InTable(x)
           /\ \A k \in DOMAIN sources' :
                k \in Nat \ {0} /\ \E j \in DOMAIN sources : j >= k /\ sources'[k] = sources[j]
<1>1. sources \in Seq(Sources) /\ alive \in [Sources -> BOOLEAN] /\ Len(sources) \in Nat
      /\ DOMAIN sources = 1 .. Len(sources)
  BY DEF TypeOK
<1>2. need_refresh' = need_refresh + 1
  BY DEF ManagerRemove
<1>3. CASE ~InTable(s)
  <2>1. sources' = sources /\ alive' = alive
    BY <1>3 DEF ManagerRemove
  <2>2. \A k \in DOMAIN sources : k \in Nat \ {0} /\ k >= k
    BY <1>1
  <2>3. \A x : InTable(x)' <=> InTable(x)
    BY <2>1 DEF InTable
  <2> QED
    BY <1>2, <2>1, <2>2, <2>3
<1>4. CASE InTable(s)
  <2> DEFINE n == FirstSlot(sources, s)
             r == ShiftDown(sources, n)
  <2>1. n \in 1 .. Len(sources) /\ sources[n] = s
    BY <1>1, <1>4, FirstSlotFound DEF InTable
  <2>2. sources' = r
    BY <1>4 DEF ManagerRemove
  <2>3. r = [j \in 1 .. (Len(sources) - 1) |-> IF j < n THEN sources[j] ELSE sources[j + 1]]
    BY DEF ShiftDown
  <2>4. alive' = [alive EXCEPT ![s] = alive[s] /\ ref[s] # 1]
    BY <1>4 DEF ManagerRemove, Unref
  <2> HIDE DEF n
  <2>5. r \in Seq(Sources)
    BY <1>1, <2>1, OccShiftDown
  <2>6. \A x : Occ(r, x) = Occ(sources, x) - (IF s = x THEN 1 ELSE 0)
    BY <1>1, <2>1, OccShiftDown
  <2> HIDE DEF r
  <2>7. \A x : /\ Occ(sources, x) \in Nat /\ (InTable(x) <=> Occ(sources, x) # 0)
               /\ Occ(r, x) \in Nat /\ (InTable(x)' <=> Occ(r, x) # 0)
    BY <1>1, <2>2, <2>5, OccType DEF InTable
  <2>8. \A x \in Sources : x # s => (InTable(x)' <=> InTable(x))
    BY <2>6, <2>7
  <2>9. \A x \in Sources : InTable(x)' => InTable(x)
    BY <1>4, <2>8
  <2>10. \A x \in Sources : x # s => alive'[x] = alive[x]
    BY <1>1, <2>4
  <2>11. DOMAIN r = 1 .. (Len(sources) - 1)
    BY <2>3
  <2>12. ASSUME NEW k \in 1 .. (Len(sources) - 1)
         PROVE  k \in Nat \ {0} /\ \E j \in DOMAIN sources : j >= k /\ r[k] = sources[j]
    <3>1. k \in Nat \ {0} /\ k \in DOMAIN sources /\ k + 1 \in DOMAIN sources
          /\ k >= k /\ k + 1 >= k
      BY <1>1
    <3>2. r[k] = sources[k] \/ r[k] = sources[k + 1]
      BY <2>3
    <3> QED
      BY <3>1, <3>2
  <2> QED
    BY <1>2, <1>4, <2>2, <2>8, <2>9, <2>10, <2>11, <2>12
<1> QED
  BY <1>3, <1>4

\* What an addition does to the table.
LEMMA AppendTable ==
    ASSUME TypeOK, NEW s \in Sources, sources' = Append(sources, s)
    PROVE  /\ \A x \in Sources : InTable(x)' <=> InTable(x) \/ x = s
           /\ \A k \in DOMAIN sources' :
                \/ k \in DOMAIN sources /\ sources'[k] = sources[k]
                \/ k = Len(sources) + 1 /\ sources'[k] = s
<1>1. sources \in Seq(Sources) /\ Len(sources) \in Nat /\ DOMAIN sources = 1 .. Len(sources)
  BY DEF TypeOK
<1>2. \A k \in DOMAIN sources' : \/ k \in DOMAIN sources /\ sources'[k] = sources[k]
                                 \/ k = Len(sources) + 1 /\ sources'[k] = s
  BY <1>1, AppendSlots
<1>3. Len(sources) + 1 \in DOMAIN sources' /\ sources'[Len(sources) + 1] = s
  BY <1>1
<1>4. \A k \in DOMAIN sources : k \in DOMAIN sources' /\ sources'[k] = sources[k]
  BY <1>1
<1> QED
  BY <1>2, <1>3, <1>4 DEF InTable

\* The steps that take a source out of the table.
Removal(s) ==
    /\ ManagerRemove(s)
    /\ \/ RemoveDisabled(s) \/ RemoveBroken(s)
       \/ PrimaryRemove /\ s = Head(pipe).source
       \/ DispatchWidgetTimer(s, FALSE)
       \/ HandlerReturn(FALSE) /\ s = Top.cur

\* How a step changes the table: not at all, by an ADD that is read, by a
\* removal, or by the end.
LEMMA TableStep ==
    ASSUME TypeOK, [Next]_vars
    PROVE  \/ sources' = sources
           \/ /\ PrimaryDispatch /\ pipe # <<>> /\ Head(pipe).type = "ADD"
              /\ sources' = Append(sources, Head(pipe).source)
              /\ need_refresh' = need_refresh + 1
           \/ \E s \in Sources : Removal(s)
           \/ ManagerDestroy
<1> SUFFICES ASSUME sources' # sources, ~ManagerDestroy
    PROVE  \/ /\ PrimaryDispatch /\ pipe # <<>> /\ Head(pipe).type = "ADD"
              /\ sources' = Append(sources, Head(pipe).source)
              /\ need_refresh' = need_refresh + 1
           \/ \E s \in Sources : Removal(s)
  OBVIOUS
<1>1. LoopStep
  BY DEF Next, vars, Application, OwnerStep, CreateOwned, CreateAndAdd, StartWithReset,
         StartPlain, Stop, DestroyCaretOwner, DestroyWaitBox, DestroyWndManager,
         ReleaseHandedOver, Quit, DialogRun, Run, Environment, Tick, UserInput, Terminated
<1>2. \/ \E s \in Sources : LoopVisit(s)
      \/ PrimaryDispatch
      \/ \E ok \in BOOLEAN : HandlerReturn(ok)
  BY <1>1 DEF LoopStep, Select, SelectFail, PassEnd, PassBreak, LoopExit
<1>3. ASSUME NEW s \in Sources, LoopVisit(s)
      PROVE  ManagerRemove(s) /\ (RemoveDisabled(s) \/ RemoveBroken(s)
                                    \/ DispatchWidgetTimer(s, FALSE))
  <2>1. CASE RemoveDisabled(s) \/ RemoveBroken(s)
    BY <2>1 DEF RemoveDisabled, RemoveBroken
  <2>2. ASSUME NEW ok \in BOOLEAN, DispatchWidgetTimer(s, ok)
        PROVE  ManagerRemove(s) /\ DispatchWidgetTimer(s, FALSE)
    <3>1. ~ok /\ ManagerRemove(s)
      BY <2>2 DEF DispatchWidgetTimer
    <3>2. ok = FALSE
      BY <3>1
    <3> QED
      BY <2>2, <3>1, <3>2
  <2> QED
    BY <1>3, <2>1, <2>2 DEF LoopVisit, Skip, DispatchHandler
<1>4. CASE PrimaryDispatch
  <2>1. pipe # <<>> /\ Head(pipe).source \in Sources
    <3>1. pipe # <<>>
      BY <1>4 DEF PrimaryDispatch, PrimaryNop, PrimaryAdd, PrimaryRemove, PrimaryOnEvent
    <3>2. Head(pipe) \in Events
      BY <3>1 DEF TypeOK
    <3> QED
      BY <3>1, <3>2 DEF Events
  <2>2. PrimaryAdd \/ PrimaryRemove
    BY <1>4 DEF PrimaryDispatch, PrimaryNop, PrimaryOnEvent
  <2>3. CASE PrimaryAdd
    BY <1>4, <2>1, <2>3 DEF PrimaryAdd, ManagerAdd
  <2>4. CASE PrimaryRemove
    BY <2>1, <2>4 DEF PrimaryRemove, Removal
  <2> QED
    BY <2>2, <2>3, <2>4
<1>5. ASSUME NEW ok \in BOOLEAN, HandlerReturn(ok)
      PROVE  HandlerReturn(FALSE) /\ ManagerRemove(Top.cur) /\ Top.cur \in Sources
  <2>1. ~ok /\ ManagerRemove(Top.cur)
    BY <1>5 DEF HandlerReturn
  <2>2. ok = FALSE
    BY <2>1
  <2> QED
    BY <1>5, <2>1, <2>2, TopType
<1> QED
  BY <1>2, <1>3, <1>4, <1>5 DEF Removal

\* The events that handlers, the user and the widgets write.
LEMMA PipeStep ==
    ASSUME [Next]_vars
    PROVE  \/ pipe' = pipe
           \/ QueueEvent(NopEvt) \/ QueueEvent(UserEvt)
           \/ \E s \in Clients : QueueEvent(AddEvt(s)) \/ QueueEvent(RemoveEvt(s))
           \/ PrimaryDispatch /\ pipe # <<>> /\ pipe' = Tail(pipe)
<1>1. CASE Application
  <2>1. ASSUME NEW s \in Clients, OwnerStep(s)
        PROVE  pipe' = pipe \/ QueueEvent(AddEvt(s)) \/ QueueEvent(RemoveEvt(s))
    BY <2>1 DEF OwnerStep, CreateOwned, CreateAndAdd, StartWithReset,
         StartPlain, Stop, DestroyCaretOwner, DestroyWaitBox, DestroyWndManager,
         ReleaseHandedOver
  <2> QED
    BY <1>1, <2>1 DEF Application, Quit, DialogRun, Run
<1>2. CASE Environment
  BY <1>2 DEF Environment, Tick, UserInput
<1>3. CASE LoopStep
  BY <1>3 DEF LoopStep, Select, SelectFail, PassEnd, PassBreak, LoopVisit, RemoveDisabled,
         RemoveBroken, Skip, DispatchWidgetTimer, DispatchHandler, PrimaryDispatch,
         PrimaryNop, PrimaryAdd, PrimaryRemove, PrimaryOnEvent, HandlerReturn, LoopExit,
         ManagerDestroy
<1> QED
  BY <1>1, <1>2, <1>3 DEF Next, Terminated, vars

-----------------------------------------------------------------------------
(* The primary source.                                                     *)

PrimaryOK ==
    /\ disable[Primary] = 0
    /\ \A k \in DOMAIN pipe : pipe[k].type \in {"ADD", "REMOVE"} => pipe[k].source \in Clients
    /\ \A k \in DOMAIN sources : sources[k] = Primary => k = 1
    /\ ~FdErrors /\ Top.pc # "deinit" => InTable(Primary)

\* Only the widgets touch the disable counters and the wishes of the owners.
LEMMA DisableStep ==
    ASSUME [Next]_vars
    PROVE  \/ UNCHANGED <<disable, want>>
           \/ \E s \in Clients : OwnerStep(s) /\ UNCHANGED <<sources, need_refresh, frames>>
<1>1. CASE Application
  BY <1>1 DEF Application, Quit, DialogRun, Run, OwnerStep, CreateOwned, CreateAndAdd,
         StartWithReset, StartPlain, Stop, DestroyCaretOwner, DestroyWaitBox,
         DestroyWndManager, ReleaseHandedOver
<1>2. CASE Environment
  BY <1>2 DEF Environment, Tick, UserInput
<1>3. CASE LoopStep
  BY <1>3 DEF LoopStep, Select, SelectFail, PassEnd, PassBreak, LoopVisit, RemoveDisabled,
         RemoveBroken, Skip, DispatchWidgetTimer, DispatchHandler, PrimaryDispatch,
         PrimaryNop, PrimaryAdd, PrimaryRemove, PrimaryOnEvent, HandlerReturn, LoopExit,
         ManagerDestroy
<1> QED
  BY <1>1, <1>2, <1>3 DEF Next, Terminated, vars

\* Once the table is gone nothing happens.
LEMMA DeinitStays ==
    ASSUME TypeOK, [Next]_vars, Top.pc = "deinit"
    PROVE  UNCHANGED frames
<1>1. CASE Application
  BY <1>1 DEF Application, Quit, DialogRun, Run, OwnerStep, CreateOwned, CreateAndAdd,
         StartWithReset, StartPlain, Stop, DestroyCaretOwner, DestroyWaitBox,
         DestroyWndManager, ReleaseHandedOver
<1>2. CASE Environment
  BY <1>2 DEF Environment, Tick, UserInput
<1>3. CASE LoopStep
  BY <1>3 DEF LoopStep, Select, SelectFail, PassEnd, PassBreak, LoopVisit, RemoveDisabled,
         RemoveBroken, Skip, DispatchWidgetTimer, DispatchHandler, PrimaryDispatch,
         PrimaryNop, PrimaryAdd, PrimaryRemove, PrimaryOnEvent, HandlerReturn, LoopExit,
         ManagerDestroy, Dispatches, AtSource, InTeardown
<1> QED
  BY <1>1, <1>2, <1>3 DEF Next, Terminated, vars

\* The slots of the pipe after a write and after a read.
LEMMA PipeSlots ==
    ASSUME TypeOK
    PROVE  /\ \A e \in Events : QueueEvent(e) =>
                /\ DOMAIN pipe' = 1 .. (Len(pipe) + 1) /\ pipe'[Len(pipe) + 1] = e
                /\ \A k \in DOMAIN pipe : pipe'[k] = pipe[k]
           /\ pipe # <<>> /\ pipe' = Tail(pipe) =>
                /\ DOMAIN pipe' = 1 .. (Len(pipe) - 1) /\ Head(pipe) = pipe[1]
                /\ \A k \in DOMAIN pipe' : k + 1 \in DOMAIN pipe /\ pipe'[k] = pipe[k + 1]
           /\ Len(pipe) \in Nat /\ DOMAIN pipe = 1 .. Len(pipe)
           /\ \A k \in DOMAIN pipe : pipe[k] \in Events
<1>1. pipe \in Seq(Events) /\ Len(pipe) \in Nat /\ DOMAIN pipe = 1 .. Len(pipe)
  BY DEF TypeOK
<1>2. ASSUME NEW e \in Events, QueueEvent(e)
      PROVE  /\ DOMAIN pipe' = 1 .. (Len(pipe) + 1) /\ pipe'[Len(pipe) + 1] = e
             /\ \A k \in DOMAIN pipe : pipe'[k] = pipe[k]
  BY <1>1, <1>2 DEF QueueEvent
<1>3. ASSUME pipe # <<>>, pipe' = Tail(pipe)
      PROVE  /\ DOMAIN pipe' = 1 .. (Len(pipe) - 1) /\ Head(pipe) = pipe[1]
             /\ \A k \in DOMAIN pipe' : k + 1 \in DOMAIN pipe /\ pipe'[k] = pipe[k + 1]
  BY <1>1, <1>3
<1> QED
  BY <1>1, <1>2, <1>3

\* An event that the pipe holds after a step was there before, or is one that a
\* handler, the user or a widget has just written.
LEMMA PipeContents ==
    ASSUME TypeOK, [Next]_vars, NEW k \in DOMAIN pipe'
    PROVE  \/ \E j \in DOMAIN pipe : pipe'[k] = pipe[j]
           \/ pipe'[k] \in {NopEvt, UserEvt}
           \/ \E s \in Clients : pipe'[k] \in {AddEvt(s), RemoveEvt(s)}
<1>1. ASSUME NEW e \in Events, QueueEvent(e)
      PROVE  (\E j \in DOMAIN pipe : pipe'[k] = pipe[j]) \/ pipe'[k] = e
  <2>1. /\ DOMAIN pipe' = 1 .. (Len(pipe) + 1) /\ pipe'[Len(pipe) + 1] = e
        /\ \A j \in DOMAIN pipe : pipe'[j] = pipe[j]
        /\ Len(pipe) \in Nat /\ DOMAIN pipe = 1 .. Len(pipe)
    BY <1>1, PipeSlots
  <2>2. k \in DOMAIN pipe \/ k = Len(pipe) + 1
    BY <2>1
  <2> QED
    BY <2>1, <2>2
<1>2. NopEvt \in Events /\ UserEvt \in Events
      /\ \A s \in Clients : AddEvt(s) \in Events /\ RemoveEvt(s) \in Events
  BY EventType, ClientIsSource
<1>3. CASE pipe' = pipe
  BY <1>3
<1>4. CASE PrimaryDispatch /\ pipe # <<>> /\ pipe' = Tail(pipe)
  BY <1>4, PipeSlots
<1> QED
  BY <1>1, <1>2, <1>3, <1>4, PipeStep

\* The first event in the pipe.
LEMMA HeadType ==
    ASSUME TypeOK, pipe # <<>>
    PROVE  1 \in DOMAIN pipe /\ Head(pipe) = pipe[1] /\ Head(pipe) \in Events
           /\ Head(pipe).source \in Sources
<1>1. 1 \in DOMAIN pipe /\ Head(pipe) = pipe[1] /\ Head(pipe) \in Events
  BY DEF TypeOK
<1> QED
  BY <1>1 DEF Events

\* The primary source keeps its slot and stays enabled, whatever the widgets do.
LEMMA PrimaryStep ==
    ASSUME TypeOK, FramesOK, PrimaryOK, [Next]_vars
    PROVE  PrimaryOK'
<1>1. disable'[Primary] = 0
  <2>1. ASSUME NEW s \in Clients, OwnerStep(s) PROVE disable'[Primary] = disable[Primary]
    <3>1. s # Primary /\ disable \in [Sources -> Nat] /\ Primary \in Sources
      BY ClientIsSource DEF TypeOK, Sources
    <3> QED
      BY <2>1, <3>1 DEF OwnerStep, CreateOwned, CreateAndAdd, Create, StartWithReset,
           StartPlain, Stop, DestroyCaretOwner, DestroyWaitBox, DestroyWndManager,
           ReleaseHandedOver
  <2> QED
    BY <2>1, DisableStep DEF PrimaryOK
<1>2. ASSUME NEW k \in DOMAIN pipe', pipe'[k].type \in {"ADD", "REMOVE"}
      PROVE  pipe'[k].source \in Clients
  BY <1>2, PipeContents DEF PrimaryOK, NopEvt, UserEvt, AddEvt, RemoveEvt
<1>3. ASSUME NEW k \in DOMAIN sources', sources'[k] = Primary
      PROVE  k = 1
  <2>0. \A j \in DOMAIN sources : sources[j] = Primary => j = 1
    BY DEF PrimaryOK
  <2>1. CASE sources' = sources
    BY <1>3, <2>0, <2>1
  <2>2. CASE /\ PrimaryDispatch /\ pipe # <<>> /\ Head(pipe).type = "ADD"
             /\ sources' = Append(sources, Head(pipe).source)
    <3>1. Head(pipe) = pipe[1] /\ 1 \in DOMAIN pipe
      BY <2>2 DEF TypeOK
    <3>2. Head(pipe).source \in Clients
      BY <2>2, <3>1 DEF PrimaryOK
    <3>3. Head(pipe).source \in Sources /\ Head(pipe).source # Primary
      BY <3>2, ClientIsSource
    <3>4. k \in DOMAIN sources /\ sources'[k] = sources[k]
      BY <1>3, <2>2, <3>3, AppendTable
    <3> QED
      BY <1>3, <2>0, <3>4
  <2>3. ASSUME NEW s \in Sources, ManagerRemove(s) PROVE k = 1
    <3>1. PICK j \in DOMAIN sources : j >= k /\ sources'[k] = sources[j]
      BY <2>3, RemoveTable
    <3>2. k \in Nat \ {0}
      BY <2>3, RemoveTable
    <3>3. j = 1
      BY <1>3, <2>0, <3>1
    <3> QED
      BY <3>1, <3>2, <3>3
  <2>4. CASE ManagerDestroy
    BY <2>4 DEF ManagerDestroy
  <2> QED
    BY <2>1, <2>2, <2>3, <2>4, TableStep DEF Removal
<1>4. ASSUME ~FdErrors, Top'.pc # "deinit" PROVE InTable(Primary)'
  <2>0. Top.pc # "deinit"
    BY <1>4, DeinitStays DEF Top
  <2>1. InTable(Primary) /\ Primary \in Sources
    BY <1>4, <2>0 DEF PrimaryOK, Sources
  <2>2. CASE sources' = sources
    BY <2>1, <2>2 DEF InTable
  <2>3. CASE /\ PrimaryDispatch /\ pipe # <<>> /\ Head(pipe).type = "ADD"
             /\ sources' = Append(sources, Head(pipe).source)
    <3>1. Head(pipe).source \in Sources
      BY <2>3, HeadType
    <3> QED
      BY <2>1, <2>3, <3>1, AppendTable
  <2>4. ASSUME NEW s \in Sources, Removal(s) PROVE s # Primary
    <3>1. ~RemoveDisabled(Primary)
      BY DEF RemoveDisabled, PrimaryOK
    <3>2. ~RemoveBroken(Primary)
      <4>1. Top.err_fdset = {}
        BY <1>4, TopFrameOK DEF FrameOK
      <4> QED
        BY <4>1 DEF RemoveBroken
    <3>3. PrimaryRemove => Head(pipe).source \in Clients
      <4>1. PrimaryRemove => 1 \in DOMAIN pipe /\ Head(pipe) = pipe[1]
                             /\ Head(pipe).type = "REMOVE"
        BY DEF PrimaryRemove, TypeOK
      <4> QED
        BY <4>1 DEF PrimaryOK
    <3>4. ~DispatchWidgetTimer(Primary, FALSE)
      BY DEF DispatchWidgetTimer, OwnerOf
    <3>5. HandlerReturn(FALSE) => Top.cur # Primary
      BY DEF HandlerReturn
    <3> QED
      BY <2>4, <3>1, <3>2, <3>3, <3>4, <3>5, PrimaryAssumption DEF Removal
  <2>5. ASSUME NEW s \in Sources, ManagerRemove(s), s # Primary PROVE InTable(Primary)'
    BY <2>1, <2>5, RemoveTable
  <2>6. ~ManagerDestroy
    <3>1. ASSUME ManagerDestroy PROVE FALSE
      <4>1. Ended("deinit") \in Frame /\ frames' = SetTop(Ended("deinit"))
            /\ Ended("deinit").pc = "deinit"
        BY <3>1, EndedFrame DEF ManagerDestroy, Ended, PCs
      <4>2. Top'.pc = "deinit"
        BY <4>1, TopStep DEF Alike
      <4> QED
        BY <1>4, <4>2
    <3> QED
      BY <3>1
  <2> QED
    BY <2>2, <2>3, <2>4, <2>5, <2>6, TableStep DEF Removal
<1> QED
  BY <1>1, <1>2, <1>3, <1>4 DEF PrimaryOK

-----------------------------------------------------------------------------
(* Handlers, and the long press timer.                                     *)

HandlerOK ==
    Top.pc = "handler" =>
        /\ MaxDepth = 1 => InTable(Top.cur)
        /\ OwnerOf(Top.cur) \in {"dialog", "adopted"} => InTable(Top.cur)
        /\ OwnerOf(Top.cur) = "dialog" => ~own[Top.cur]

\* Until the loop is left the window manager keeps its timer, and so it does while
\* the timer's action runs.
LongPressOK ==
    /\ \A s \in Clients :
         Owner[s] = "long_press" /\ alive[s] /\ Top.pc \notin {"exited", "deinit"} => own[s]
    /\ \A k \in DOMAIN frames :
         frames[k].pc = "handler" /\ OwnerOf(frames[k].cur) = "long_press" => own[frames[k].cur]

\* After the loop only ftk_sources_manager_destroy changes the stack.
LEMMA OverStays ==
    ASSUME TypeOK, [Next]_vars, Top.pc \in {"exited", "deinit"}
    PROVE  Top'.pc \in {"exited", "deinit"}
<1>1. CASE ManagerDestroy
  <2>1. Ended("deinit") \in Frame /\ frames' = SetTop(Ended("deinit"))
        /\ Ended("deinit").pc = "deinit"
    BY <1>1, EndedFrame DEF ManagerDestroy, Ended, PCs
  <2> QED
    BY <2>1, TopStep DEF Alike
<1>2. ASSUME ~ManagerDestroy PROVE UNCHANGED frames
  <2>1. CASE Application
    BY <2>1 DEF Application, Quit, DialogRun, Run, OwnerStep, CreateOwned, CreateAndAdd,
           StartWithReset, StartPlain, Stop, DestroyCaretOwner, DestroyWaitBox,
           DestroyWndManager, ReleaseHandedOver
  <2>2. CASE Environment
    BY <2>2 DEF Environment, Tick, UserInput
  <2>3. CASE LoopStep
    BY <1>2, <2>3 DEF LoopStep, Select, SelectFail, PassEnd, PassBreak, LoopVisit,
           RemoveDisabled, RemoveBroken, Skip, DispatchWidgetTimer, DispatchHandler,
           PrimaryDispatch, PrimaryNop, PrimaryAdd, PrimaryRemove, PrimaryOnEvent,
           HandlerReturn, LoopExit, Dispatches, AtSource
  <2> QED
    BY <2>1, <2>2, <2>3 DEF Next, Terminated, vars
<1> QED
  BY <1>1, <1>2 DEF Top

\* How a step leaves a handler on top: the handler went on, the loop has just
\* called it, or the dialog that it ran is over.
LEMMA HandlerStep ==
    ASSUME TypeOK, FramesOK, [Next]_vars, Top'.pc = "handler"
    PROVE  \/ /\ Top.pc = "handler" /\ Top'.cur = Top.cur /\ Top'.i = Top.i
              /\ Top'.fdset = Top.fdset /\ Top'.stale = Top.stale
              /\ Len(frames') = Len(frames)
              /\ UNCHANGED <<sources, need_refresh>>
              /\ own' = own \/ \E s \in Clients : OwnerStep(s)
           \/ /\ PrimaryOnEvent /\ frames' = SetTop(Handling(Primary))
              /\ Top' = Handling(Primary)
           \/ \E s \in Sources : /\ DispatchHandler(s) /\ frames' = SetTop(Handling(s))
                                 /\ Top' = Handling(s)
           \/ /\ LoopExit /\ Len(frames) > 1 /\ frames' = SubSeq(frames, 1, Len(frames) - 1)
              /\ Top' = frames[Len(frames) - 1] /\ Suspended(Top')
<1> DEFINE Goes == /\ Top.pc = "handler" /\ Top'.cur = Top.cur /\ Top'.i = Top.i
                   /\ Top'.fdset = Top.fdset /\ Top'.stale = Top.stale
                   /\ Len(frames') = Len(frames)
                   /\ UNCHANGED <<sources, need_refresh>>
                   /\ own' = own \/ \E s \in Clients : OwnerStep(s)
           Called(s) == frames' = SetTop(Handling(s)) /\ Top' = Handling(s)
           Back == /\ LoopExit /\ Len(frames) > 1
                   /\ frames' = SubSeq(frames, 1, Len(frames) - 1)
                   /\ Top' = frames[Len(frames) - 1] /\ Suspended(Top')
<1>0. /\ Len(frames) \in Nat \ {0} /\ Top \in Frame /\ Top.cur \in Sources
      /\ frames \in Seq(Frame) /\ DOMAIN frames = 1 .. Len(frames)
  BY TopType DEF TypeOK
<1>1. ASSUME UNCHANGED <<frames, sources, need_refresh>>,
             own' = own \/ \E s \in Clients : OwnerStep(s)
      PROVE  Goes
  BY <1>1 DEF Top
<1>2. ASSUME NEW s \in Clients, OwnerStep(s) PROVE Goes
  <2>1. UNCHANGED <<frames, sources, need_refresh>>
    BY <1>2 DEF OwnerStep, CreateOwned, CreateAndAdd, StartWithReset, StartPlain, Stop,
         DestroyCaretOwner, DestroyWaitBox, DestroyWndManager, ReleaseHandedOver
  <2> QED
    BY <1>1, <1>2, <2>1
<1>3. ASSUME NEW k \in DOMAIN frames, Quit(k) PROVE Goes
  <2>1. frames' = [frames EXCEPT ![k] = [frames[k] EXCEPT !.running = FALSE]]
        /\ UNCHANGED <<sources, need_refresh, own>> /\ Top.pc = "handler"
    BY <1>3 DEF Quit
  <2>2. frames[k] \in Frame
    BY <1>0
  <2> DEFINE f == [frames[k] EXCEPT !.running = FALSE]
  <2>3. /\ f.pc = frames[k].pc /\ f.cur = frames[k].cur /\ f.i = frames[k].i
        /\ f.fdset = frames[k].fdset /\ f.stale = frames[k].stale
    BY <2>2 DEF Frame
  <2>4. Len(frames') = Len(frames) /\ Len(frames) \in DOMAIN frames
    BY <1>0, <2>1
  <2>5. Top' = IF k = Len(frames) THEN f ELSE Top
    BY <2>1, <2>4 DEF Top
  <2>6. k = Len(frames) => Top = frames[k]
    BY DEF Top
  <2> HIDE DEF f
  <2> QED
    BY <2>1, <2>3, <2>4, <2>5, <2>6
<1>4. ASSUME NEW f \in Frame, f.pc # "handler", frames' = SetTop(f) \/ frames' = After(f)
      PROVE  FALSE
  BY <1>4, TopStep DEF Alike
<1>5. ~DialogRun
  <2>1. ASSUME DialogRun PROVE FALSE
    <3>1. frames' = Append(frames, NewFrame("loop")) /\ NewFrame("loop") \in Frame
          /\ NewFrame("loop").pc = "loop"
      BY <2>1, NewFrameType DEF DialogRun, PCs, NewFrame
    <3>2. Top' = NewFrame("loop")
      BY <1>0, <3>1 DEF Top
    <3> QED
      BY <3>1, <3>2
  <2> QED
    BY <2>1
<1>6. ~Run
  <2>1. NewFrame("loop") \in Frame /\ NewFrame("loop").pc = "loop"
    BY NewFrameType DEF PCs, NewFrame
  <2> QED
    BY <1>4, <2>1 DEF Run
<1>7. CASE Application
  BY <1>2, <1>3, <1>5, <1>6, <1>7 DEF Application
<1>8. CASE Environment
  BY <1>1, <1>8 DEF Environment, Tick, UserInput
<1>9. ASSUME NEW A \in SUBSET Sources, NEW B \in SUBSET Sources,
             frames' = SetTop(Passing(A, B))
      PROVE  FALSE
  BY <1>4, <1>9, PassingFrame
<1>10. /\ frames' # SetTop(NextSource) /\ frames' # After(NextSource)
       /\ frames' # SetTop(SameSlot) /\ frames' # After(SameSlot)
       /\ frames' # SetTop(Reselect)
  BY <1>4, NextFrames
<1>11. ASSUME NEW s \in Sources, frames' = SetTop(Handling(s)) PROVE Called(s)
  BY <1>11, HandlingFrame, TopStep
<1>12. ASSUME NEW err \in SUBSET (IF FdErrors THEN TableFds \ {Primary} ELSE {}), Select(err)
       PROVE  FALSE
  <2>1. {s \in TableFds : Readable(s)} \in SUBSET Sources /\ err \in SUBSET Sources
    BY TableSetType
  <2> QED
    BY <1>9, <1>12, <2>1 DEF Select, Passing
<1>13. ~SelectFail
  BY <1>9, TableSetType DEF SelectFail, Passing
<1>14. ASSUME NEW s \in Sources, LoopVisit(s)
       PROVE  DispatchHandler(s) /\ Called(s)
  <2>1. DispatchHandler(s)
    BY <1>10, <1>14 DEF LoopVisit, RemoveDisabled, RemoveBroken, Skip, DispatchWidgetTimer
  <2> QED
    BY <1>11, <2>1 DEF DispatchHandler, Handling
<1>15. ASSUME PrimaryDispatch PROVE PrimaryOnEvent /\ Called(Primary)
  <2>1. PrimaryOnEvent
    BY <1>10, <1>15 DEF PrimaryDispatch, PrimaryNop, PrimaryAdd, PrimaryRemove
  <2> QED
    BY <1>11, <2>1 DEF PrimaryOnEvent, Handling, Sources
<1>16. ASSUME NEW ok \in BOOLEAN, HandlerReturn(ok) PROVE FALSE
  BY <1>10, <1>16 DEF HandlerReturn
<1>17. ASSUME LoopExit PROVE Back
  <2> DEFINE n == Len(frames) - 1
  <2>1. CASE Len(frames) > 1
    <3>1. frames' = SubSeq(frames, 1, n) /\ n \in 1 .. Len(frames) /\ n \in Nat \ {0}
      BY <1>0, <1>17, <2>1 DEF LoopExit
    <3>2. Len(frames') = n /\ frames'[n] = frames[n]
      BY <1>0, <3>1
    <3>3. Suspended(frames[n])
      BY <3>1 DEF FramesOK
    <3>4. Top' = frames[n]
      BY <3>2 DEF Top
    <3> HIDE DEF n
    <3>5. Suspended(Top')
      BY <3>3, <3>4
    <3> QED
      BY <1>17, <2>1, <3>1, <3>4, <3>5 DEF n
  <2>2. CASE ~(Len(frames) > 1)
    BY <1>4, <1>17, <2>2, EndedFrame DEF LoopExit, Ended, PCs
  <2> QED
    BY <2>1, <2>2
<1>18. ~ManagerDestroy
  BY <1>4, EndedFrame DEF ManagerDestroy, Ended, PCs
<1>19. ~PassEnd /\ ~PassBreak
  BY <1>10 DEF PassEnd, PassBreak
<1>20. CASE LoopStep
  BY <1>12, <1>13, <1>14, <1>15, <1>16, <1>17, <1>18, <1>19, <1>20 DEF LoopStep
<1>21. CASE UNCHANGED vars
  BY <1>1, <1>21 DEF vars
<1> QED
  BY <1>7, <1>8, <1>20, <1>21 DEF Next, Terminated

\* The source that a pass comes to is in the table.
LEMMA AtSourceFound ==
    ASSUME TypeOK, NEW s, AtSource(s)
    PROVE  InTable(s)
<1>1. sources \in Seq(Sources) /\ Top.i \in Nat \ {0} /\ Top.i <= Len(sources) /\ s = sources[Top.i]
  BY TopType DEF AtSource, TypeOK
<1>2. Top.i \in DOMAIN sources
  BY <1>1
<1> QED
  BY <1>1, <1>2 DEF InTable

\* A source in the table is allocated, and so is one that is about to get there.
LEMMA InTableAlive ==
    ASSUME CountInv, NEW s \in Sources
    PROVE  /\ InTable(s) => alive[s]
           /\ \A k \in DOMAIN pipe : pipe[k] = AddEvt(s) => alive[s]
           /\ own[s] /\ KeepsReference(s) => alive[s]
<1>1. InTable(s) => alive[s]
  BY CountTypes, DeadIsFree DEF CountInv
<1>2. ASSUME NEW k \in DOMAIN pipe, pipe[k] = AddEvt(s) PROVE alive[s]
  <2>1. Occ(pipe, AddEvt(s)) # 0
    BY <1>2, OccType DEF CountInv, TypeOK
  <2> QED
    BY <2>1, DeadIsFree
<1>3. own[s] /\ KeepsReference(s) => Held(s) = 1
  BY DEF Held
<1> QED
  BY <1>1, <1>2, <1>3, DeadIsFree

\* A widget's call changes only what is said of its own source, and a source
\* that is created was not allocated.
LEMMA OwnerOwn ==
    ASSUME TypeOK, NEW s \in Clients, OwnerStep(s)
    PROVE  /\ UNCHANGED <<sources, need_refresh, frames>>
           /\ \A t \in Sources : t # s => /\ own'[t] = own[t] /\ alive'[t] = alive[t]
                                          /\ disable'[t] = disable[t] /\ want'[t] = want[t]
                                          /\ refused'[t] = refused[t] /\ due'[t] = due[t]
           /\ (alive'[s] /\ ~alive[s]) \/ (own'[s] /\ ~own[s]) => Create(s)
           /\ Create(s) => CreateOwned(s) \/ CreateAndAdd(s)
<1>1. s \in Sources
  BY ClientIsSource
<1>2. /\ own \in [Sources -> BOOLEAN] /\ alive \in [Sources -> BOOLEAN]
      /\ disable \in [Sources -> Nat] /\ want \in [Sources -> BOOLEAN]
      /\ refused \in [Sources -> Nat] /\ due \in [Sources -> BOOLEAN]
      /\ ref \in [Sources -> Int]
  BY DEF TypeOK
<1>3. CASE CreateOwned(s) \/ CreateAndAdd(s)
  BY <1>1, <1>2, <1>3 DEF CreateOwned, CreateAndAdd, Create
<1>4. CASE StartWithReset(s) \/ StartPlain(s) \/ Stop(s)
  <2>1. alive' = alive /\ own' = own /\ refused' = refused
    BY <1>4 DEF StartWithReset, StartPlain, Stop
  <2>2. ~Create(s)
    BY <1>1, <1>2, <2>1 DEF Create
  <2> QED
    BY <1>1, <1>2, <1>4, <2>1, <2>2 DEF StartWithReset, StartPlain, Stop
<1>5. CASE DestroyCaretOwner(s) \/ DestroyWaitBox(s) \/ DestroyWndManager(s)
  <2>1. /\ own' = [own EXCEPT ![s] = FALSE]
        /\ alive' = [alive EXCEPT ![s] = alive[s] /\ ref[s] # 1]
    BY <1>5 DEF DestroyCaretOwner, DestroyWaitBox, DestroyWndManager, Unref
  <2>2. ~Create(s)
    BY <1>1, <1>2, <2>1 DEF Create
  <2> QED
    BY <1>1, <1>2, <1>5, <2>1, <2>2 DEF DestroyCaretOwner, DestroyWaitBox, DestroyWndManager
<1>6. CASE ReleaseHandedOver(s)
  <2>1. alive' = alive /\ own' = [own EXCEPT ![s] = FALSE]
    BY <1>6 DEF ReleaseHandedOver
  <2>2. ~Create(s)
    BY <1>1, <1>2, <2>1 DEF Create
  <2> QED
    BY <1>1, <1>2, <1>6, <2>1, <2>2 DEF ReleaseHandedOver
<1> QED
  BY <1>3, <1>4, <1>5, <1>6 DEF OwnerStep

\* The source whose handler runs stays in the table until the handler returns.
LEMMA HandlerOKStep ==
    ASSUME CountInv, FramesOK, HandlerOK, [Next]_vars
    PROVE  HandlerOK'
<1> SUFFICES ASSUME Top'.pc = "handler"
    PROVE  /\ MaxDepth = 1 => InTable(Top.cur)'
           /\ OwnerOf(Top'.cur) \in {"dialog", "adopted"} => InTable(Top.cur)'
           /\ OwnerOf(Top'.cur) = "dialog" => ~own'[Top'.cur]
  BY DEF HandlerOK
<1>0. /\ TypeOK /\ TypeOK' /\ Top.cur \in Sources
  BY TypeStep, TopType DEF CountInv
<1>1. CASE /\ Top.pc = "handler" /\ Top'.cur = Top.cur /\ UNCHANGED <<sources, need_refresh>>
           /\ own' = own \/ \E s \in Clients : OwnerStep(s)
  <2> DEFINE c == Top.cur
  <2>1. /\ MaxDepth = 1 => InTable(c)
        /\ OwnerOf(c) \in {"dialog", "adopted"} => InTable(c)
        /\ OwnerOf(c) = "dialog" => ~own[c]
    BY <1>1 DEF HandlerOK
  <2>2. InTable(Top.cur)' <=> InTable(c)
    BY <1>1 DEF InTable
  <2>3. c \in Sources /\ Top'.cur = c /\ (InTable(c) => alive[c])
    BY <1>0, <1>1, InTableAlive
  <2>4. (own' = own \/ \E s \in Clients : OwnerStep(s))
    BY <1>1
  <2> HIDE DEF c
  <2>5. ASSUME OwnerOf(c) = "dialog", own' # own PROVE ~own'[c]
    <3>1. PICK s \in Clients : OwnerStep(s)
      BY <2>4, <2>5
    <3>2. CASE s # c
      BY <1>0, <2>1, <2>3, <2>5, <3>1, <3>2, OwnerOwn
    <3>3. CASE s = c
      <4>1. alive[c] /\ ~own[c]
        BY <2>1, <2>3, <2>5
      <4>2. ~Create(c)
        BY <4>1 DEF Create
      <4>3. own'[c] /\ ~own[c] => Create(c)
        BY <1>0, <3>1, <3>3, OwnerOwn
      <4> QED
        BY <4>1, <4>2, <4>3
    <3> QED
      BY <3>2, <3>3
  <2> QED
    BY <2>1, <2>2, <2>3, <2>5
<1>2. CASE PrimaryOnEvent /\ Top' = Handling(Primary)
  <2>1. AtSource(Primary) /\ sources' = sources
    BY <1>2 DEF PrimaryOnEvent, Dispatches
  <2>2. InTable(Primary)
    BY <1>0, <2>1, AtSourceFound
  <2>3. Top'.cur = Primary /\ OwnerOf(Primary) = "wnd_manager"
    BY <1>0, <1>2, HandlingFrame DEF OwnerOf, Sources
  <2> QED
    BY <2>1, <2>2, <2>3 DEF InTable
<1>3. ASSUME NEW s \in Sources, DispatchHandler(s), Top' = Handling(s)
      PROVE  /\ InTable(Top.cur)' /\ (OwnerOf(Top'.cur) = "dialog" => ~own'[Top'.cur])
  <2>1. AtSource(s) /\ sources' = sources
    BY <1>3 DEF DispatchHandler, Dispatches
  <2>2. InTable(s)
    BY <1>0, <2>1, AtSourceFound
  <2>3. Top'.cur = s
    BY <1>0, <1>3, HandlingFrame
  <2>4. OwnerOf(s) = "dialog" => ~own'[s]
    BY <1>0, <1>3 DEF DispatchHandler, TypeOK
  <2> QED
    BY <2>1, <2>2, <2>3, <2>4 DEF InTable
<1>4. CASE LoopExit /\ Len(frames) > 1 /\ Suspended(Top')
  <2>1. MaxDepth # 1
    BY <1>0, <1>4, TopType, BoundsAssumption DEF FramesOK
  <2> QED
    BY <1>4, <2>1 DEF Suspended
<1> QED
  BY <1>0, <1>1, <1>2, <1>3, <1>4, HandlerStep

\* What a step outside the widgets does to the pointers of the owners and to the
\* memory of the sources.
LEMMA OwnStep ==
    ASSUME TypeOK, [Next]_vars
    PROVE  \/ \E s \in Clients : OwnerStep(s)
           \/ /\ \A t \in Sources : alive'[t] => alive[t]
              /\ \/ own' = own
                 \/ \E s \in Sources : /\ DispatchHandler(s)
                                       /\ \A t \in Sources :
                                            own'[t] # own[t] => OwnerOf(t) = "dialog" /\ ~own'[t]
              /\ UNCHANGED <<disable, want>>
<1>1. CASE Application
  BY <1>1 DEF Application, Quit, DialogRun, Run
<1>2. CASE Environment
  BY <1>2 DEF Environment, Tick, UserInput
<1>3. ASSUME NEW s \in Sources, ManagerRemove(s)
      PROVE  \A t \in Sources : alive'[t] => alive[t]
  <2>1. alive \in [Sources -> BOOLEAN]
    BY DEF TypeOK
  <2> QED
    BY <1>3, <2>1 DEF ManagerRemove, Unref
<1>4. CASE ManagerDestroy
  BY <1>4 DEF ManagerDestroy
<1>5. ASSUME NEW s \in Sources, LoopVisit(s), ~DispatchHandler(s)
      PROVE  /\ UNCHANGED <<own, disable, want>>
             /\ alive' = alive \/ ManagerRemove(s)
  BY <1>5 DEF LoopVisit, RemoveDisabled, RemoveBroken, Skip, DispatchWidgetTimer
<1>6. ASSUME NEW s \in Sources, DispatchHandler(s)
      PROVE  /\ UNCHANGED <<alive, disable, want>>
             /\ \A t \in Sources : own'[t] # own[t] => OwnerOf(t) = "dialog" /\ ~own'[t]
  <2>1. own \in [Sources -> BOOLEAN]
    BY DEF TypeOK
  <2> QED
    BY <1>6, <2>1 DEF DispatchHandler
<1>7. ASSUME PrimaryDispatch
      PROVE  /\ UNCHANGED <<own, disable, want>>
             /\ alive' = alive \/ \E s \in Sources : ManagerRemove(s)
  <2>1. PrimaryRemove => Head(pipe).source \in Sources
    BY HeadType DEF PrimaryRemove
  <2> QED
    BY <1>7, <2>1 DEF PrimaryDispatch, PrimaryNop, PrimaryAdd, PrimaryRemove, PrimaryOnEvent
<1>8. ASSUME NEW ok \in BOOLEAN, HandlerReturn(ok)
      PROVE  /\ UNCHANGED <<own, disable, want>>
             /\ alive' = alive \/ ManagerRemove(Top.cur)
  BY <1>8 DEF HandlerReturn
<1>9. Top.cur \in Sources
  BY TopType
<1>10. CASE LoopStep
  <2>1. ASSUME NEW s \in Sources, LoopVisit(s)
        PROVE  /\ \A t \in Sources : alive'[t] => alive[t]
               /\ \/ own' = own
                  \/ DispatchHandler(s) /\ \A t \in Sources :
                       own'[t] # own[t] => OwnerOf(t) = "dialog" /\ ~own'[t]
               /\ UNCHANGED <<disable, want>>
    BY <1>3, <1>5, <1>6, <2>1
  <2>2. CASE PrimaryDispatch
    BY <1>3, <1>7, <2>2
  <2>3. ASSUME NEW ok \in BOOLEAN, HandlerReturn(ok)
        PROVE  /\ \A t \in Sources : alive'[t] => alive[t]
               /\ own' = own /\ UNCHANGED <<disable, want>>
    BY <1>3, <1>8, <1>9, <2>3
  <2>4. CASE \/ \E err \in SUBSET (IF FdErrors THEN TableFds \ {Primary} ELSE {}) : Select(err)
             \/ SelectFail \/ PassEnd \/ PassBreak \/ LoopExit
    BY <2>4 DEF Select, SelectFail, PassEnd, PassBreak, LoopExit
  <2>5. ManagerDestroy => own' = own /\ UNCHANGED <<disable, want>>
    BY DEF ManagerDestroy
  <2> QED
    BY <1>4, <1>10, <2>1, <2>2, <2>3, <2>4, <2>5 DEF LoopStep
<1> QED
  BY <1>1, <1>2, <1>10 DEF Next, Terminated, vars

\* The loops below the innermost one stay as they are.
LEMMA LowerFrames ==
    ASSUME TypeOK, FramesOK, [Next]_vars
    PROVE  \A k \in 1 .. (Len(frames') - 1) : k \in DOMAIN frames /\ Alike(frames'[k], frames[k])
<1> DEFINE Lower == \A k \in 1 .. (Len(frames') - 1) :
                      k \in DOMAIN frames /\ Alike(frames'[k], frames[k])
<1>0. /\ Len(frames) \in Nat \ {0} /\ frames \in Seq(Frame) /\ DOMAIN frames = 1 .. Len(frames)
  BY TopType DEF TypeOK
<1>1. ASSUME UNCHANGED frames PROVE Lower
  BY <1>0, <1>1 DEF Alike
<1>2. ASSUME NEW f \in Frame, frames' = SetTop(f) \/ frames' = After(f) PROVE Lower
  BY <1>0, <1>2, TopStep
<1>3. ASSUME NEW k \in DOMAIN frames, Quit(k) PROVE Lower
  <2>1. frames' = [frames EXCEPT ![k] = [frames[k] EXCEPT !.running = FALSE]]
    BY <1>3 DEF Quit
  <2>2. frames[k] \in Frame
    BY <1>0
  <2>3. Alike([frames[k] EXCEPT !.running = FALSE], frames[k])
    BY <2>2 DEF Alike, Frame
  <2>4. Len(frames') = Len(frames)
    BY <1>0, <2>1
  <2>5. \A j \in DOMAIN frames : Alike(frames'[j], frames[j])
    BY <2>1, <2>3 DEF Alike
  <2> QED
    BY <1>0, <2>4, <2>5
<1>4. ASSUME DialogRun PROVE Lower
  <2>1. frames' = Append(frames, NewFrame("loop")) /\ NewFrame("loop") \in Frame
    BY <1>4, NewFrameType DEF DialogRun, PCs
  <2>2. Len(frames') = Len(frames) + 1 /\ \A k \in 1 .. Len(frames) : frames'[k] = frames[k]
    BY <1>0, <2>1
  <2> QED
    BY <1>0, <2>2 DEF Alike
<1>5. ASSUME Run PROVE Lower
  BY <1>2, <1>5, NewFrameType DEF Run, PCs
<1>6. CASE Application
  <2>1. ASSUME NEW s \in Clients, OwnerStep(s) PROVE UNCHANGED frames
    BY <2>1, OwnerOwn
  <2> QED
    BY <1>1, <1>3, <1>4, <1>5, <1>6, <2>1 DEF Application
<1>7. CASE Environment
  BY <1>1, <1>7 DEF Environment, Tick, UserInput
<1>8. ASSUME NEW err \in SUBSET (IF FdErrors THEN TableFds \ {Primary} ELSE {}), Select(err)
      PROVE  Lower
  <2>1. {s \in TableFds : Readable(s)} \in SUBSET Sources /\ err \in SUBSET Sources
    BY TableSetType
  <2> QED
    BY <1>2, <1>8, <2>1, PassingFrame DEF Select, Passing
<1>9. ASSUME SelectFail PROVE Lower
  BY <1>2, <1>9, TableSetType, PassingFrame DEF SelectFail, Passing
<1>10. ASSUME \/ frames' = SetTop(NextSource) \/ frames' = After(NextSource)
              \/ frames' = SetTop(SameSlot) \/ frames' = After(SameSlot)
              \/ frames' = SetTop(Reselect)
       PROVE  Lower
  BY <1>2, <1>10, NextFrames
<1>11. ASSUME NEW s \in Sources, frames' = SetTop(Handling(s)) PROVE Lower
  BY <1>2, <1>11, HandlingFrame
<1>12. ASSUME NEW s \in Sources, LoopVisit(s) PROVE Lower
  <2>1. CASE DispatchHandler(s)
    BY <1>11, <2>1 DEF DispatchHandler, Handling
  <2>2. CASE ~DispatchHandler(s)
    BY <1>10, <1>12, <2>2 DEF LoopVisit, RemoveDisabled, RemoveBroken, Skip, DispatchWidgetTimer
  <2> QED
    BY <2>1, <2>2
<1>13. ASSUME PrimaryDispatch PROVE Lower
  <2>1. CASE PrimaryOnEvent
    BY <1>11, <2>1 DEF PrimaryOnEvent, Handling, Sources
  <2>2. CASE ~PrimaryOnEvent
    BY <1>10, <1>13, <2>2 DEF PrimaryDispatch, PrimaryNop, PrimaryAdd, PrimaryRemove
  <2> QED
    BY <2>1, <2>2
<1>14. ASSUME NEW ok \in BOOLEAN, HandlerReturn(ok) PROVE Lower
  BY <1>10, <1>14 DEF HandlerReturn
<1>15. ASSUME LoopExit PROVE Lower
  <2> DEFINE n == Len(frames) - 1
  <2>1. CASE Len(frames) > 1
    <3>1. frames' = SubSeq(frames, 1, n) /\ n \in 1 .. Len(frames) /\ n \in Nat
      BY <1>0, <1>15, <2>1 DEF LoopExit
    <3>2. Len(frames') = n /\ \A k \in 1 .. n : frames'[k] = frames[k]
      BY <1>0, <3>1
    <3> QED
      BY <1>0, <3>1, <3>2 DEF Alike
  <2>2. CASE ~(Len(frames) > 1)
    BY <1>2, <1>15, <2>2, EndedFrame DEF LoopExit, Ended, PCs
  <2> QED
    BY <2>1, <2>2
<1>16. ASSUME ManagerDestroy PROVE Lower
  BY <1>2, <1>16, EndedFrame DEF ManagerDestroy, Ended, PCs
<1>17. CASE LoopStep
  BY <1>8, <1>9, <1>10, <1>12, <1>13, <1>14, <1>15, <1>16, <1>17 DEF LoopStep, PassEnd, PassBreak
<1>18. CASE UNCHANGED vars
  BY <1>1, <1>18 DEF vars
<1> QED
  BY <1>6, <1>7, <1>17, <1>18 DEF Next, Terminated

\* The handlers that run after a step ran before it, but for the one just called.
LEMMA Handlers ==
    ASSUME TypeOK, FramesOK, [Next]_vars, NEW k \in DOMAIN frames', frames'[k].pc = "handler",
           TypeOK'
    PROVE  \/ /\ k \in DOMAIN frames /\ frames[k].pc = "handler"
              /\ frames'[k].cur = frames[k].cur /\ frames'[k].i = frames[k].i
           \/ PrimaryOnEvent /\ frames'[k].cur = Primary
           \/ \E s \in Sources : /\ DispatchHandler(s) /\ frames'[k].cur = s
                                 /\ frames'[k].i = Top.i
<1>0. /\ Len(frames) \in Nat \ {0} /\ DOMAIN frames = 1 .. Len(frames)
      /\ Top = frames[Len(frames)]
      /\ Len(frames') \in Nat \ {0} /\ DOMAIN frames' = 1 .. Len(frames')
      /\ Top' = frames'[Len(frames')]
  BY TopType DEF TypeOK, Top
<1>1. CASE k \in 1 .. (Len(frames') - 1)
  BY <1>1, LowerFrames DEF Alike
<1>2. CASE k = Len(frames')
  <2>0. Top' = frames'[k]
    BY <1>0, <1>2
  <2>1. CASE /\ Top.pc = "handler" /\ Top'.cur = Top.cur /\ Top'.i = Top.i
             /\ Len(frames') = Len(frames)
    BY <1>0, <1>2, <2>0, <2>1
  <2>2. CASE PrimaryOnEvent /\ Top' = Handling(Primary)
    <3>1. Handling(Primary).cur = Primary
      BY HandlingFrame DEF Sources
    <3> QED
      BY <2>0, <2>2, <3>1
  <2>3. ASSUME NEW s \in Sources, DispatchHandler(s), Top' = Handling(s)
        PROVE  frames'[k].cur = s /\ frames'[k].i = Top.i
    BY <2>0, <2>3, HandlingFrame
  <2>4. CASE /\ Len(frames) > 1 /\ frames' = SubSeq(frames, 1, Len(frames) - 1)
             /\ Top' = frames[Len(frames) - 1]
    <3>1. Len(frames') = Len(frames) - 1 /\ Len(frames) - 1 \in DOMAIN frames
      BY <1>0, <2>4
    <3> QED
      BY <1>2, <2>0, <2>4, <3>1
  <2> QED
    BY <2>0, <2>1, <2>2, <2>3, <2>4, HandlerStep
<1>3. k \in 1 .. (Len(frames') - 1) \/ k = Len(frames')
  BY <1>0
<1> QED
  BY <1>1, <1>2, <1>3

\* The window manager's timer outlives every handler.
LEMMA LongPressStep ==
    ASSUME CountInv, FramesOK, LongPressOK, [Next]_vars
    PROVE  LongPressOK'
<1>0. TypeOK /\ TypeOK' /\ FramesOK'
  BY TypeStep, FramesStep DEF CountInv
<1>1. ASSUME NEW s \in Clients, Owner[s] = "long_press", Top'.pc \notin {"exited", "deinit"}
      PROVE  (alive'[s] => own'[s]) /\ (own[s] => own'[s])
  <2>1. Top.pc \notin {"exited", "deinit"}
    BY <1>0, <1>1, OverStays
  <2>2. s \in Sources /\ OwnerOf(s) = "long_press"
    BY <1>1, ClientIsSource DEF OwnerOf
  <2>3. alive[s] => own[s]
    BY <1>1, <2>1 DEF LongPressOK
  <2>4. ASSUME NEW t \in Clients, OwnerStep(t)
        PROVE  (alive'[s] => own'[s]) /\ (own[s] => own'[s])
    <3>1. CASE t # s
      BY <1>0, <2>2, <2>3, <2>4, <3>1, OwnerOwn
    <3>2. CASE t = s /\ Create(s)
      <4>1. CreateOwned(s)
        BY <1>0, <1>1, <2>4, <3>2, OwnerOwn DEF CreateAndAdd
      <4> QED
        BY <1>0, <2>2, <4>1 DEF CreateOwned, TypeOK
    <3>3. CASE t = s /\ ~Create(s)
      <4>1. alive'[s] => own[s]
        BY <1>0, <2>2, <2>3, <2>4, <3>3, OwnerOwn
      <4>2. StartWithReset(s) \/ Stop(s)
        BY <1>1, <2>1, <2>4, <3>3 DEF OwnerStep, CreateOwned, CreateAndAdd, StartPlain,
             DestroyCaretOwner, DestroyWaitBox, DestroyWndManager, ReleaseHandedOver, InTeardown
      <4> QED
        BY <4>1, <4>2 DEF StartWithReset, Stop
    <3> QED
      BY <3>1, <3>2, <3>3
  <2>5. CASE ~\E t \in Clients : OwnerStep(t)
    <3>1. own'[s] = own[s]
      BY <1>0, <2>2, <2>5, OwnStep
    <3>2. alive'[s] => alive[s]
      BY <1>0, <2>2, <2>5, OwnStep
    <3> QED
      BY <2>3, <3>1, <3>2
  <2> QED
    BY <2>4, <2>5
<1>2. ASSUME NEW k \in DOMAIN frames', frames'[k].pc = "handler",
             OwnerOf(frames'[k].cur) = "long_press"
      PROVE  own'[frames'[k].cur]
  <2> DEFINE c == frames'[k].cur
  <2>1. c \in Sources /\ OwnerOf(c) = "long_press"
    <3>1. frames'[k] \in Frame
      BY <1>0, <1>2 DEF TypeOK
    <3> QED
      BY <1>2, <3>1 DEF Frame
  <2>2. c \in Clients /\ Owner[c] = "long_press"
    BY <2>1 DEF Sources, OwnerOf
  <2>3. Top'.pc \notin {"exited", "deinit"}
    <3>1. ASSUME Top'.pc \in {"exited", "deinit"} PROVE FALSE
      <4>1. Len(frames') = 1
        BY <1>0, <3>1 DEF FramesOK
      <4>2. DOMAIN frames' = {1}
        BY <1>0, <4>1 DEF TypeOK
      <4>3. Top' = frames'[k]
        BY <1>2, <4>1, <4>2 DEF Top
      <4> QED
        BY <1>2, <3>1, <4>3
    <3> QED
      BY <3>1
  <2>5. own[c]
    <3>1. CASE k \in DOMAIN frames /\ frames[k].pc = "handler" /\ c = frames[k].cur
      BY <2>1, <3>1 DEF LongPressOK
    <3>2. c # Primary
      BY <2>1 DEF OwnerOf
    <3>3. ASSUME NEW s \in Sources, DispatchHandler(s), c = s PROVE own[c]
      <4>1. alive[c]
        BY <1>0, <2>1, <3>3, AtSourceFound, InTableAlive DEF DispatchHandler, Dispatches
      <4>2. Top.pc = "pass"
        BY <3>3 DEF DispatchHandler, Dispatches, AtSource
      <4> QED
        BY <2>2, <4>1, <4>2 DEF LongPressOK
    <3> QED
      BY <1>0, <1>2, <3>1, <3>2, <3>3, Handlers
  <2> HIDE DEF c
  <2>6. own'[c]
    BY <1>1, <2>2, <2>3, <2>5
  <2> QED
    BY <2>6 DEF c
<1> QED
  BY <1>1, <1>2 DEF LongPressOK

-----------------------------------------------------------------------------
(* Sources handed over to the loop.                                        *)

HandedOver(s) == Owner[s] \in {"dialog", "marquee"}

\* While the owner has its pointer the source is alive and enabled, and the REMOVE
\* events that a former source at this address left behind are read before its ADD.
HandedOK ==
    \A s \in Clients : HandedOver(s) /\ own[s] =>
        /\ alive[s] /\ disable[s] = 0
        /\ \A j \in DOMAIN pipe : pipe[j] = RemoveEvt(s) =>
             /\ ~InTable(s)
             /\ \A k \in DOMAIN pipe : pipe[k] = AddEvt(s) => j < k

\* Memory is given back by an owner, by a removal, or at the end.
LEMMA AliveStep ==
    ASSUME TypeOK, [Next]_vars
    PROVE  \/ \E s \in Clients : OwnerStep(s)
           \/ alive' = alive
           \/ \E s \in Sources : Removal(s)
           \/ ManagerDestroy
<1>1. CASE Application
  BY <1>1 DEF Application, Quit, DialogRun, Run
<1>2. CASE Environment
  BY <1>2 DEF Environment, Tick, UserInput
<1>3. ASSUME NEW s \in Sources, LoopVisit(s), alive' # alive PROVE Removal(s)
  <2>1. CASE RemoveDisabled(s) \/ RemoveBroken(s)
    BY <2>1 DEF RemoveDisabled, RemoveBroken, Removal
  <2>2. ASSUME NEW ok \in BOOLEAN, DispatchWidgetTimer(s, ok) PROVE Removal(s)
    <3>1. ~ok /\ ManagerRemove(s)
      BY <1>3, <2>2 DEF DispatchWidgetTimer
    <3>2. ok = FALSE
      BY <3>1
    <3> QED
      BY <2>2, <3>1, <3>2 DEF Removal
  <2> QED
    BY <1>3, <2>1, <2>2 DEF LoopVisit, Skip, DispatchHandler
<1>4. ASSUME PrimaryDispatch, alive' # alive PROVE \E s \in Sources : Removal(s)
  <2>1. PrimaryRemove
    BY <1>4 DEF PrimaryDispatch, PrimaryNop, PrimaryAdd, PrimaryOnEvent
  <2>2. Head(pipe).source \in Sources /\ ManagerRemove(Head(pipe).source)
    BY <2>1, HeadType DEF PrimaryRemove
  <2> QED
    BY <2>1, <2>2 DEF Removal
<1>5. ASSUME NEW ok \in BOOLEAN, HandlerReturn(ok), alive' # alive PROVE Removal(Top.cur)
  <2>1. ~ok /\ ManagerRemove(Top.cur)
    BY <1>5 DEF HandlerReturn
  <2>2. ok = FALSE
    BY <2>1
  <2> QED
    BY <1>5, <2>1, <2>2 DEF Removal
<1>6. Top.cur \in Sources
  BY TopType
<1>7. CASE \/ \E err \in SUBSET (IF FdErrors THEN TableFds \ {Primary} ELSE {}) : Select(err)
           \/ SelectFail \/ PassEnd \/ PassBreak \/ LoopExit
  BY <1>7 DEF Select, SelectFail, PassEnd, PassBreak, LoopExit
<1>8. CASE LoopStep
  BY <1>3, <1>4, <1>5, <1>6, <1>7, <1>8 DEF LoopStep
<1> QED
  BY <1>1, <1>2, <1>8 DEF Next, Terminated, vars

\* Nothing but a REMOVE event, or its own action, takes an enabled timer of a text
\* view, of a dialog or of a marquee out of the table.
LEMMA TimerRemoval ==
    ASSUME TypeOK, FramesOK, NEW s \in Clients,
           Owner[s] \in {"text_view", "dialog", "marquee"}, disable[s] = 0, Removal(s)
    PROVE  \/ PrimaryRemove /\ Head(pipe) = RemoveEvt(s)
           \/ Top.pc = "handler" /\ s = Top.cur /\ Owner[s] = "dialog"
<1>1. s \in Sources /\ OwnerOf(s) = Owner[s] /\ KindOf(s) = "timer"
  BY ClientIsSource, WidgetTimers DEF OwnerOf, KindOf
<1>2. ~RemoveDisabled(s)
  BY DEF RemoveDisabled
<1>3. ~RemoveBroken(s)
  <2>1. s \notin Top.err_fdset
    BY <1>1, TopFrameOK DEF FrameOK, IsFd
  <2> QED
    BY <2>1 DEF RemoveBroken
<1>4. ~DispatchWidgetTimer(s, FALSE)
  BY <1>1 DEF DispatchWidgetTimer
<1>5. ASSUME HandlerReturn(FALSE), s = Top.cur PROVE Top.pc = "handler" /\ Owner[s] = "dialog"
  <2>1. Top.pc = "handler"
    BY <1>5 DEF HandlerReturn
  <2> QED
    BY <1>1, <1>5, <2>1, TopFrameOK DEF FrameOK
<1>6. ASSUME PrimaryRemove, s = Head(pipe).source PROVE Head(pipe) = RemoveEvt(s)
  <2>1. pipe # <<>> /\ Head(pipe).type = "REMOVE"
    BY <1>6 DEF PrimaryRemove
  <2> QED
    BY <1>6, <2>1, HeadType DEF Events, RemoveEvt
<1> QED
  BY <1>2, <1>3, <1>4, <1>5, <1>6 DEF Removal

\* A source gets into the table by its ADD event alone.
LEMMA TableGains ==
    ASSUME TypeOK, [Next]_vars, NEW s \in Sources, InTable(s)'
    PROVE  \/ InTable(s)
           \/ PrimaryDispatch /\ pipe # <<>> /\ Head(pipe) = AddEvt(s) /\ pipe' = Tail(pipe)
<1>1. CASE sources' = sources
  BY <1>1 DEF InTable
<1>2. CASE /\ PrimaryDispatch /\ pipe # <<>> /\ Head(pipe).type = "ADD"
           /\ sources' = Append(sources, Head(pipe).source)
  <2>1. Head(pipe).source \in Sources /\ Head(pipe) \in Events
    BY <1>2, HeadType
  <2>2. InTable(s) \/ s = Head(pipe).source
    BY <1>2, <2>1, AppendTable
  <2>3. s = Head(pipe).source => Head(pipe) = AddEvt(s)
    BY <1>2, <2>1 DEF Events, AddEvt
  <2>4. pipe' = Tail(pipe)
    BY <1>2 DEF PrimaryDispatch, PrimaryNop, PrimaryAdd, PrimaryRemove, PrimaryOnEvent
  <2> QED
    BY <1>2, <2>2, <2>3, <2>4
<1>3. ASSUME NEW t \in Sources, Removal(t) PROVE InTable(s)
  BY <1>3, RemoveTable DEF Removal
<1>4. ~ManagerDestroy
  BY DEF ManagerDestroy, InTable
<1> QED
  BY <1>1, <1>2, <1>3, <1>4, TableStep

\* The events about s that are in the pipe after a step.
LEMMA PipeOf ==
    ASSUME TypeOK, [Next]_vars, NEW s \in Clients
    PROVE  \/ /\ \E e \in Events : QueueEvent(e) /\ (e.type \in {"NOP", "USER"} \/ e.source # s)
           \/ pipe' = pipe
           \/ OwnerStep(s) /\ (QueueEvent(AddEvt(s)) \/ QueueEvent(RemoveEvt(s)))
           \/ PrimaryDispatch /\ pipe # <<>> /\ pipe' = Tail(pipe)
<1>1. /\ NopEvt \in Events /\ NopEvt.type = "NOP"
      /\ UserEvt \in Events /\ UserEvt.type = "USER"
  BY EventType DEF NopEvt, UserEvt
<1>2. \A t \in Clients : /\ AddEvt(t) \in Events /\ AddEvt(t).source = t
                         /\ RemoveEvt(t) \in Events /\ RemoveEvt(t).source = t
  BY EventType, ClientIsSource DEF AddEvt, RemoveEvt
<1>3. CASE Application
  <2>1. ASSUME NEW t \in Clients, OwnerStep(t)
        PROVE  pipe' = pipe \/ QueueEvent(AddEvt(t)) \/ QueueEvent(RemoveEvt(t))
    BY <2>1 DEF OwnerStep, CreateOwned, CreateAndAdd, StartWithReset,
         StartPlain, Stop, DestroyCaretOwner, DestroyWaitBox, DestroyWndManager,
         ReleaseHandedOver
  <2>2. CASE \E t \in Clients : OwnerStep(t)
    BY <1>2, <2>1, <2>2
  <2>3. CASE ~\E t \in Clients : OwnerStep(t)
    BY <1>1, <1>3, <2>3 DEF Application, Quit, DialogRun, Run
  <2> QED
    BY <2>2, <2>3
<1>4. CASE Environment
  BY <1>1, <1>4 DEF Environment, Tick, UserInput
<1>5. CASE LoopStep
  BY <1>5 DEF LoopStep, Select, SelectFail, PassEnd, PassBreak, LoopVisit, RemoveDisabled,
         RemoveBroken, Skip, DispatchWidgetTimer, DispatchHandler, PrimaryDispatch,
         PrimaryNop, PrimaryAdd, PrimaryRemove, PrimaryOnEvent, HandlerReturn, LoopExit,
         ManagerDestroy
<1> QED
  BY <1>3, <1>4, <1>5 DEF Next, Terminated, vars

\* What the pipe says about a handed over source after a step of the loop, of the
\* user, or of another widget: nothing that it did not say before.
LEMMA HandedPipe ==
    ASSUME TypeOK, [Next]_vars, NEW s \in Clients, ~OwnerStep(s),
           \A j \in DOMAIN pipe : pipe[j] = RemoveEvt(s) =>
             /\ ~InTable(s)
             /\ \A k \in DOMAIN pipe : pipe[k] = AddEvt(s) => j < k
    PROVE  \A j \in DOMAIN pipe' : pipe'[j] = RemoveEvt(s) =>
             /\ ~InTable(s)'
             /\ \A k \in DOMAIN pipe' : pipe'[k] = AddEvt(s) => j < k
<1> SUFFICES ASSUME NEW j \in DOMAIN pipe', pipe'[j] = RemoveEvt(s)
             PROVE  /\ ~InTable(s)'
                    /\ \A k \in DOMAIN pipe' : pipe'[k] = AddEvt(s) => j < k
  OBVIOUS
<1>0. /\ RemoveEvt(s).type = "REMOVE" /\ AddEvt(s).type = "ADD"
      /\ RemoveEvt(s).source = s /\ AddEvt(s).source = s
      /\ s \in Sources
  BY ClientIsSource DEF RemoveEvt, AddEvt
<1>1. CASE \/ pipe' = pipe
           \/ \E e \in Events : QueueEvent(e) /\ (e.type \in {"NOP", "USER"} \/ e.source # s)
  <2>1. \A k \in DOMAIN pipe' : pipe'[k] \in {RemoveEvt(s), AddEvt(s)} =>
                                  k \in DOMAIN pipe /\ pipe'[k] = pipe[k]
    <3>1. CASE pipe' = pipe
      BY <3>1
    <3>2. ASSUME NEW e \in Events, QueueEvent(e), e.type \in {"NOP", "USER"} \/ e.source # s,
                 NEW k \in DOMAIN pipe', pipe'[k] \in {RemoveEvt(s), AddEvt(s)}
          PROVE  k \in DOMAIN pipe /\ pipe'[k] = pipe[k]
      <4>1. e # RemoveEvt(s) /\ e # AddEvt(s)
        BY <1>0, <3>2
      <4>2. /\ DOMAIN pipe' = 1 .. (Len(pipe) + 1) /\ pipe'[Len(pipe) + 1] = e
            /\ \A i \in DOMAIN pipe : pipe'[i] = pipe[i]
            /\ Len(pipe) \in Nat /\ DOMAIN pipe = 1 .. Len(pipe)
        BY <3>2, PipeSlots
      <4>3. k \in DOMAIN pipe \/ k = Len(pipe) + 1
        BY <4>2
      <4> QED
        BY <3>2, <4>1, <4>2, <4>3
    <3> QED
      BY <1>1, <3>1, <3>2
  <2>2. ~InTable(s) /\ j \in DOMAIN pipe /\ pipe[j] = RemoveEvt(s)
    BY <2>1
  <2>3. \A k \in DOMAIN pipe' : pipe'[k] = AddEvt(s) => j < k
    BY <2>1, <2>2
  <2>4. ~InTable(s)'
    <3>1. ASSUME InTable(s)' PROVE FALSE
      <4>1. 1 \in DOMAIN pipe /\ pipe[1] = AddEvt(s)
        BY <1>0, <2>2, <3>1, TableGains, HeadType
      <4>2. j < 1 /\ j \in 1 .. Len(pipe)
        BY <2>2, <4>1, PipeSlots
      <4> QED
        BY <4>2, PipeSlots
    <3> QED
      BY <3>1
  <2> QED
    BY <2>3, <2>4
<1>2. CASE PrimaryDispatch /\ pipe # <<>> /\ pipe' = Tail(pipe)
  <2>1. /\ DOMAIN pipe' = 1 .. (Len(pipe) - 1) /\ Head(pipe) = pipe[1]
        /\ \A k \in DOMAIN pipe' : k + 1 \in DOMAIN pipe /\ pipe'[k] = pipe[k + 1]
        /\ Len(pipe) \in Nat /\ DOMAIN pipe = 1 .. Len(pipe)
    BY <1>2, PipeSlots
  <2>2. j + 1 \in DOMAIN pipe /\ pipe[j + 1] = RemoveEvt(s) /\ ~InTable(s)
    BY <2>1
  <2>3. \A k \in DOMAIN pipe' : pipe'[k] = AddEvt(s) => j < k
    <3>1. ASSUME NEW k \in DOMAIN pipe', pipe'[k] = AddEvt(s) PROVE j < k
      <4>1. k + 1 \in DOMAIN pipe /\ pipe[k + 1] = AddEvt(s)
        BY <2>1, <3>1
      <4>2. j + 1 < k + 1
        BY <2>2, <4>1
      <4>3. j \in Int /\ k \in Int
        BY <2>1
      <4> QED
        BY <4>2, <4>3
    <3> QED
      BY <3>1
  <2>4. ~InTable(s)'
    <3>1. ASSUME InTable(s)' PROVE FALSE
      <4>1. 1 \in DOMAIN pipe /\ pipe[1] = AddEvt(s)
        BY <1>0, <2>2, <3>1, TableGains, HeadType
      <4>2. j + 1 < 1 /\ j \in Nat
        BY <2>1, <2>2, <4>1
      <4> QED
        BY <4>2
    <3> QED
      BY <3>1
  <2> QED
    BY <2>3, <2>4
<1> QED
  BY <1>1, <1>2, PipeOf

\* No step takes a handed over source away from an owner that still points to it.
LEMMA HandedStep ==
    ASSUME CountInv, FramesOK, HandlerOK, HandedOK, [Next]_vars
    PROVE  HandedOK'
<1> DEFINE InOrder(s) == \A j \in DOMAIN pipe : pipe[j] = RemoveEvt(s) =>
                           /\ ~InTable(s)
                           /\ \A k \in DOMAIN pipe : pipe[k] = AddEvt(s) => j < k
<1> SUFFICES ASSUME NEW s \in Clients, HandedOver(s), own'[s]
             PROVE  alive'[s] /\ disable'[s] = 0 /\ InOrder(s)'
  BY DEF HandedOK, HandedOver
<1>0. /\ TypeOK /\ s \in Sources /\ OwnerOf(s) = Owner[s] /\ Owner[s] \in {"dialog", "marquee"}
  BY ClientIsSource DEF CountInv, OwnerOf, HandedOver
<1>1. own[s] => alive[s] /\ disable[s] = 0 /\ InOrder(s)
  BY DEF HandedOK
<1>2. CASE OwnerStep(s)
  <2>1. CreateAndAdd(s)
    BY <1>0, <1>2 DEF OwnerStep, CreateOwned, StartWithReset, StartPlain, Stop,
         DestroyCaretOwner, DestroyWaitBox, DestroyWndManager, ReleaseHandedOver, TypeOK
  <2>2. alive'[s] /\ disable'[s] = 0 /\ ~alive[s] /\ QueueEvent(AddEvt(s)) /\ sources' = sources
    BY <1>0, <2>1 DEF CreateAndAdd, Create, TypeOK
  <2>3. ~InTable(s) /\ \A k \in DOMAIN pipe : pipe[k] # AddEvt(s)
    BY <1>0, <2>2, InTableAlive
  <2>4. /\ DOMAIN pipe' = 1 .. (Len(pipe) + 1) /\ pipe'[Len(pipe) + 1] = AddEvt(s)
        /\ \A k \in DOMAIN pipe : pipe'[k] = pipe[k]
        /\ Len(pipe) \in Nat /\ DOMAIN pipe = 1 .. Len(pipe)
    BY <1>0, <2>2, PipeSlots, EventType
  <2>5. AddEvt(s) # RemoveEvt(s)
    BY DEF AddEvt, RemoveEvt
  <2>6. ~InTable(s)'
    BY <2>2, <2>3 DEF InTable
  <2>7. ASSUME NEW j \in DOMAIN pipe', pipe'[j] = RemoveEvt(s),
               NEW k \in DOMAIN pipe', pipe'[k] = AddEvt(s)
        PROVE  j < k
    <3>1. j # Len(pipe) + 1 /\ k \notin DOMAIN pipe
      BY <2>3, <2>4, <2>5, <2>7
    <3> QED
      BY <2>4, <3>1
  <2> QED
    BY <2>2, <2>6, <2>7
<1>3. CASE ~OwnerStep(s)
  <2>1. own[s] /\ (UNCHANGED disable \/ \E t \in Clients : t # s /\ OwnerStep(t))
    <3>1. CASE \E t \in Clients : OwnerStep(t)
      BY <1>0, <1>3, <3>1, OwnerOwn
    <3>2. CASE ~\E t \in Clients : OwnerStep(t)
      <4>1. own'[s] = own[s] \/ ~own'[s]
        BY <1>0, <3>2, OwnStep
      <4>2. UNCHANGED disable
        BY <1>0, <3>2, OwnStep
      <4>3. own[s]
        BY <4>1
      <4> QED
        BY <4>2, <4>3
    <3> QED
      BY <3>1, <3>2
  <2>2. own[s] /\ alive[s] /\ disable[s] = 0 /\ InOrder(s)
    BY <1>1, <2>1
  <2>3. disable'[s] = 0
    BY <1>0, <2>1, <2>2, OwnerOwn
  <2>4. InOrder(s)'
    BY <1>0, <1>3, <2>2, HandedPipe
  <2>5. ASSUME NEW t \in Sources, Removal(t) PROVE alive'[s] = alive[s]
    <3>1. CASE t # s
      BY <1>0, <2>5, <3>1, RemoveTable DEF Removal
    <3>2. CASE t = s
      <4>1. CASE PrimaryRemove /\ Head(pipe) = RemoveEvt(s)
        <5>1. 1 \in DOMAIN pipe /\ pipe[1] = RemoveEvt(s)
          BY <1>0, <4>1, HeadType DEF PrimaryRemove
        <5>2. ~InTable(s)
          BY <2>2, <5>1
        <5> QED
          BY <1>0, <2>5, <3>2, <5>2, RemoveTable DEF Removal
      <4>2. ~(Top.pc = "handler" /\ s = Top.cur /\ Owner[s] = "dialog")
        BY <1>0, <2>2 DEF HandlerOK
      <4> QED
        BY <1>0, <2>2, <2>5, <3>2, <4>1, <4>2, TimerRemoval
    <3> QED
      BY <3>1, <3>2
  <2>6. ~ManagerDestroy
    BY <2>2 DEF ManagerDestroy
  <2>7. ASSUME NEW t \in Clients, OwnerStep(t) PROVE alive'[s] = alive[s]
    BY <1>0, <1>3, <2>7, OwnerOwn
  <2>8. alive'[s] = alive[s]
    BY <1>0, <2>5, <2>6, <2>7, AliveStep
  <2> QED
    BY <2>2, <2>3, <2>4, <2>8
<1> QED
  BY <1>2, <1>3

\* The pointers: the five parts together with the counts.
PointersInv ==
    CountInv /\ FramesOK /\ PrimaryOK /\ HandlerOK /\ LongPressOK /\ HandedOK
        /\ \A s \in Clients : own[s] => Owner[s] # "adopted"

\* A source that was created and forgotten is nobody's.
LEMMA AdoptedStep ==
    ASSUME TypeOK, \A s \in Clients : own[s] => Owner[s] # "adopted", [Next]_vars
    PROVE  \A s \in Clients : own'[s] => Owner[s] # "adopted"
<1> SUFFICES ASSUME NEW s \in Clients, own'[s], ~own[s] PROVE Owner[s] # "adopted"
  OBVIOUS
<1>1. s \in Sources
  BY ClientIsSource
<1>2. ASSUME NEW t \in Clients, OwnerStep(t) PROVE Owner[s] # "adopted"
  <2>1. t = s /\ (CreateOwned(s) \/ CreateAndAdd(s))
    BY <1>1, <1>2, OwnerOwn
  <2> QED
    BY <1>1, <2>1 DEF CreateOwned, CreateAndAdd, TypeOK
<1> QED
  BY <1>1, <1>2, OwnStep

\* The invariant of the pointers holds at first.
LEMMA PointersInit == Init => PointersInv
<1> SUFFICES ASSUME Init PROVE PointersInv
  OBVIOUS
<1>1. CountInv
  BY CountInit
<1>2. /\ frames = <<NewFrame("setup")>> /\ Len(frames) = 1 /\ DOMAIN frames = {1}
      /\ Top = NewFrame("setup") /\ Top.pc = "setup" /\ frames[1] = NewFrame("setup")
      /\ Top.fdset = {} /\ Top.err_fdset = {}
  BY DEF Init, Top, NewFrame
<1>3. FramesOK
  <2>1. FrameOK(NewFrame("setup"))
    BY DEF FrameOK, NewFrame
  <2> QED
    BY <1>2, <2>1, BoundsAssumption DEF FramesOK
<1>4. PrimaryOK
  BY DEF Init, PrimaryOK, Sources, InTable
<1>5. HandlerOK
  BY <1>2 DEF HandlerOK
<1>6. LongPressOK /\ HandedOK /\ \A s \in Clients : own[s] => Owner[s] # "adopted"
  BY <1>2, ClientIsSource DEF Init, LongPressOK, HandedOK, NewFrame
<1> QED
  BY <1>1, <1>3, <1>4, <1>5, <1>6 DEF PointersInv

\* Every step keeps it.
LEMMA PointersStep == PointersInv /\ [Next]_vars => PointersInv'
<1> SUFFICES ASSUME PointersInv, [Next]_vars PROVE PointersInv'
  OBVIOUS
<1>1. TypeOK /\ CountInv /\ FramesOK /\ PrimaryOK /\ HandlerOK /\ LongPressOK /\ HandedOK
  BY DEF PointersInv, CountInv
<1>2. CountInv' /\ FramesOK' /\ PrimaryOK'
  BY <1>1, CountStep, FramesStep, PrimaryStep
<1>3. HandlerOK' /\ LongPressOK' /\ HandedOK'
  BY <1>1, HandlerOKStep, LongPressStep, HandedStep
<1>4. \A s \in Clients : own'[s] => Owner[s] # "adopted"
  BY <1>1, AdoptedStep DEF PointersInv
<1> QED
  BY <1>2, <1>3, <1>4 DEF PointersInv

\* No owner and no loop keeps a pointer to a freed source, on any number of loops
\* while select() does not fail, and on one loop whatever it reports.
THEOREM HeldSourcesAlive ==
    ASSUME ~FdErrors \/ MaxDepth = 1
    PROVE  Spec => []HeldIsAlive
<1>1. ASSUME PointersInv PROVE HeldIsAlive
  <2>0. /\ CountInv /\ TypeOK /\ FramesOK /\ PrimaryOK /\ HandlerOK /\ LongPressOK /\ HandedOK
    BY <1>1 DEF PointersInv, CountInv
  <2>1. ASSUME NEW s \in Clients, own[s] PROVE alive[s]
    <3>1. s \in Sources /\ OwnerOf(s) = Owner[s] /\ Owner[s] \in Owners /\ Owner[s] # "adopted"
      BY <1>1, <2>1, ClientIsSource, OwnerAssumption DEF OwnerOf, PointersInv
    <3>2. CASE HandedOver(s)
      BY <2>0, <2>1, <3>2 DEF HandedOK
    <3>3. CASE ~HandedOver(s)
      BY <2>0, <2>1, <3>1, <3>3, InTableAlive DEF HandedOver, KeepsReference, Owners
    <3> QED
      BY <3>2, <3>3
  <2>2. ASSUME NEW k \in DOMAIN frames, frames[k].pc = "handler" PROVE alive[frames[k].cur]
    <3> DEFINE c == frames[k].cur
    <3>1. /\ frames \in Seq(Frame) /\ Len(frames) \in Nat \ {0}
          /\ DOMAIN frames = 1 .. Len(frames) /\ Len(frames) <= MaxDepth
      BY <2>0, TopType DEF TypeOK, FramesOK
    <3>2. c \in Sources
      <4>1. frames[k] \in Frame
        BY <3>1
      <4> QED
        BY <4>1 DEF Frame
    <3>3. k = Len(frames) => Top = frames[k]
      BY DEF Top
    <3>4. k # Len(frames) => k \in 1 .. (Len(frames) - 1)
      BY <3>1
    <3>5. OwnerOf(c) \in {"wnd_manager", "long_press", "dialog", "adopted"}
      BY <2>0, <2>2 DEF FramesOK, FrameOK
    <3>6. Top.pc # "deinit" /\ Top.pc \notin {"exited", "deinit"}
      <4>1. Len(frames) = 1 => Top = frames[k]
        BY <3>1, <3>3
      <4> QED
        BY <2>0, <2>2, <4>1 DEF FramesOK
    <3>7. CASE OwnerOf(c) = "long_press"
      <4>1. c \in Clients /\ Owner[c] = "long_press"
        BY <3>2, <3>7 DEF Sources, OwnerOf
      <4>2. own[c]
        BY <2>0, <2>2, <3>7 DEF LongPressOK
      <4> QED
        BY <2>0, <3>2, <3>7, <4>2, InTableAlive DEF KeepsReference
    <3>8. CASE OwnerOf(c) = "wnd_manager"
      <4>1. c = Primary
        BY <3>2, <3>8, OwnerAssumption DEF Sources, OwnerOf, Owners
      <4>2. CASE ~FdErrors
        BY <2>0, <3>2, <3>6, <4>1, <4>2, InTableAlive DEF PrimaryOK
      <4>3. CASE MaxDepth = 1
        <5>1. k = Len(frames)
          BY <3>1, <4>3
        <5>2. InTable(c)
          BY <2>0, <2>2, <3>3, <4>3, <5>1 DEF HandlerOK
        <5> QED
          BY <2>0, <3>2, <5>2, InTableAlive
      <4> QED
        BY <4>2, <4>3
    <3>9. CASE OwnerOf(c) \in {"dialog", "adopted"}
      <4>1. k = Len(frames)
        BY <2>0, <3>4, <3>9 DEF FramesOK, Suspended
      <4>2. InTable(c)
        BY <2>0, <2>2, <3>3, <3>9, <4>1 DEF HandlerOK
      <4> QED
        BY <2>0, <3>2, <4>2, InTableAlive
    <3> QED
      BY <3>5, <3>7, <3>8, <3>9
  <2> QED
    BY <2>1, <2>2 DEF HeldIsAlive
<1> QED
  BY <1>1, PointersInit, PointersStep, PTL DEF Spec

-----------------------------------------------------------------------------
(* What a pass believes.                                                   *)

\* How a step leaves a pass on top: nobody but the environment moved, a pass has
\* begun, it goes to the next slot, or the slot it is at has been closed up.
LEMMA PassStep ==
    ASSUME TypeOK, FramesOK, [Next]_vars, Top'.pc = "pass"
    PROVE  \/ Top.pc = "pass" /\ UNCHANGED frames /\ (Environment \/ UNCHANGED vars)
           \/ \E err \in SUBSET (IF FdErrors THEN TableFds \ {Primary} ELSE {}) :
                /\ Select(err) /\ Top'.i = 1 /\ ~Top'.stale
                /\ Top'.fdset = {s \in TableFds : Readable(s)}
           \/ SelectFail /\ Top'.i = 1 /\ ~Top'.stale /\ Top'.fdset = {}
           \/ /\ Top'.i = Top.i + 1 /\ Top'.fdset = Top.fdset
              /\ sources' = sources => Top'.stale = Top.stale
              /\ \/ HandlerReturn(TRUE)
                 \/ /\ Top.pc = "pass"
                    /\ \/ PrimaryDispatch
                       \/ \E s \in Sources : Skip(s) \/ DispatchWidgetTimer(s, TRUE)
           \/ /\ Top'.i = Top.i /\ Top'.fdset = Top.fdset /\ \E s \in Sources : Removal(s)
              /\ \/ Top.pc = "pass"
                 \/ Top.pc = "handler" /\ Top.cur # Primary
<1> DEFINE Quiet == Top.pc = "pass" /\ UNCHANGED frames /\ (Environment \/ UNCHANGED vars)
           Begun == \/ \E err \in SUBSET (IF FdErrors THEN TableFds \ {Primary} ELSE {}) :
                         /\ Select(err) /\ Top'.i = 1 /\ ~Top'.stale
                         /\ Top'.fdset = {s \in TableFds : Readable(s)}
                    \/ SelectFail /\ Top'.i = 1 /\ ~Top'.stale /\ Top'.fdset = {}
           On == /\ Top'.i = Top.i + 1 /\ Top'.fdset = Top.fdset
                 /\ sources' = sources => Top'.stale = Top.stale
           Stays == Top'.i = Top.i /\ Top'.fdset = Top.fdset
<1>0. /\ Len(frames) \in Nat \ {0} /\ Top \in Frame /\ Top.cur \in Sources
      /\ frames \in Seq(Frame) /\ DOMAIN frames = 1 .. Len(frames)
  BY TopType DEF TypeOK
<1>1. ASSUME NEW f \in Frame, f.pc # "pass", frames' = SetTop(f) \/ frames' = After(f)
      PROVE  FALSE
  BY <1>1, TopStep DEF Alike
<1>2. ASSUME frames' = SetTop(NextSource) \/ frames' = After(NextSource) PROVE On
  <2>1. NextSource \in Frame /\ NextSource.i = Top.i + 1 /\ NextSource.fdset = Top.fdset
        /\ NextSource.stale = Top.stale
    BY NextFrames
  <2>2. Alike(Top', NextSource) /\ (sources' = sources => Top' = NextSource)
    BY <1>2, <2>1, TopStep
  <2> QED
    BY <2>1, <2>2 DEF Alike
<1>3. ASSUME frames' = SetTop(SameSlot) \/ frames' = After(SameSlot) PROVE Stays
  <2>1. SameSlot \in Frame /\ SameSlot.i = Top.i /\ SameSlot.fdset = Top.fdset
    BY NextFrames
  <2>2. Alike(Top', SameSlot)
    BY <1>3, <2>1, TopStep
  <2> QED
    BY <2>1, <2>2 DEF Alike
<1>4. ASSUME NEW s \in Sources, frames' = SetTop(Handling(s)) PROVE FALSE
  BY <1>1, <1>4, HandlingFrame
<1>5. CASE UNCHANGED vars
  BY <1>5 DEF vars, Top
<1>6. CASE Environment
  <2>1. UNCHANGED frames
    BY <1>6 DEF Environment, Tick, UserInput
  <2> QED
    BY <1>6, <2>1 DEF Top
<1>7. ~Application
  <2>1. ASSUME NEW s \in Clients, OwnerStep(s) PROVE FALSE
    <3>1. UNCHANGED frames /\ (InUserCode \/ InTeardown)
      BY <2>1 DEF OwnerStep, CreateOwned, CreateAndAdd, StartWithReset, StartPlain, Stop,
           DestroyCaretOwner, DestroyWaitBox, DestroyWndManager, ReleaseHandedOver
    <3> QED
      BY <3>1 DEF Top, InUserCode, InTeardown
  <2>2. ASSUME NEW k \in DOMAIN frames, Quit(k) PROVE FALSE
    <3>1. frames' = [frames EXCEPT ![k] = [frames[k] EXCEPT !.running = FALSE]]
          /\ Top.pc = "handler"
      BY <2>2 DEF Quit
    <3>2. frames[k] \in Frame
      BY <1>0
    <3> DEFINE f == [frames[k] EXCEPT !.running = FALSE]
    <3>3. f.pc = frames[k].pc
      BY <3>2 DEF Frame
    <3>4. Len(frames') = Len(frames) /\ Len(frames) \in DOMAIN frames
      BY <1>0, <3>1
    <3>5. Top' = IF k = Len(frames) THEN f ELSE Top
      BY <3>1, <3>4 DEF Top
    <3>6. k = Len(frames) => Top = frames[k]
      BY DEF Top
    <3> HIDE DEF f
    <3> QED
      BY <3>1, <3>3, <3>5, <3>6
  <2>3. NewFrame("loop") \in Frame /\ NewFrame("loop").pc = "loop"
    BY NewFrameType DEF PCs, NewFrame
  <2>4. ASSUME DialogRun PROVE FALSE
    <3>1. frames' = Append(frames, NewFrame("loop"))
      BY <2>4 DEF DialogRun
    <3>2. Top' = NewFrame("loop")
      BY <1>0, <2>3, <3>1 DEF Top
    <3> QED
      BY <2>3, <3>2
  <2>5. ~Run
    BY <1>1, <2>3 DEF Run
  <2> QED
    BY <2>1, <2>2, <2>4, <2>5 DEF Application
<1>8. ASSUME NEW err \in SUBSET (IF FdErrors THEN TableFds \ {Primary} ELSE {}), Select(err)
      PROVE  Begun
  <2> DEFINE readable == {s \in TableFds : Readable(s)}
  <2>1. readable \in SUBSET Sources /\ err \in SUBSET Sources
    BY TableSetType
  <2>2. frames' = SetTop(Passing(readable, err)) /\ sources' = sources
    BY <1>8 DEF Select, Passing
  <2> HIDE DEF readable
  <2>3. Top' = Passing(readable, err)
    BY <2>1, <2>2, PassingFrame, TopStep
  <2>4. Top'.i = 1 /\ ~Top'.stale /\ Top'.fdset = readable
    BY <2>1, <2>3, PassingFrame
  <2> QED
    BY <1>8, <2>4 DEF readable
<1>9. ASSUME SelectFail PROVE Begun
  <2>1. {} \in SUBSET Sources /\ TableFds \in SUBSET Sources
    BY TableSetType
  <2>2. frames' = SetTop(Passing({}, TableFds))
    BY <1>9 DEF SelectFail, Passing
  <2>3. Top' = Passing({}, TableFds)
    BY <2>1, <2>2, PassingFrame, TopStep
  <2> QED
    BY <1>9, <2>1, <2>3, PassingFrame
<1>10. ~PassEnd /\ ~PassBreak
  BY <1>1, NextFrames DEF PassEnd, PassBreak
<1>11. ASSUME NEW s \in Sources, LoopVisit(s)
       PROVE  /\ Top.pc = "pass"
              /\ \/ On /\ (Skip(s) \/ DispatchWidgetTimer(s, TRUE))
                 \/ Stays /\ Removal(s)
  <2>1. Top.pc = "pass"
    BY <1>11 DEF LoopVisit, RemoveDisabled, RemoveBroken, Skip, DispatchWidgetTimer,
         DispatchHandler, Dispatches, AtSource
  <2>2. CASE RemoveDisabled(s) \/ RemoveBroken(s)
    BY <1>3, <2>1, <2>2 DEF RemoveDisabled, RemoveBroken, Removal
  <2>3. CASE Skip(s)
    BY <1>2, <2>1, <2>3 DEF Skip
  <2>4. CASE DispatchWidgetTimer(s, TRUE)
    BY <1>2, <2>1, <2>4 DEF DispatchWidgetTimer
  <2>5. CASE DispatchWidgetTimer(s, FALSE)
    BY <1>3, <2>1, <2>5 DEF DispatchWidgetTimer, Removal
  <2>6. ~DispatchHandler(s)
    BY <1>4 DEF DispatchHandler, Handling
  <2>7. \A ok \in BOOLEAN : ok = TRUE \/ ok = FALSE
    OBVIOUS
  <2> QED
    BY <1>11, <2>2, <2>3, <2>4, <2>5, <2>6, <2>7 DEF LoopVisit
<1>12. ASSUME PrimaryDispatch PROVE Top.pc = "pass" /\ On
  <2>1. Top.pc = "pass"
    BY <1>12 DEF PrimaryDispatch, PrimaryNop, PrimaryAdd, PrimaryRemove, PrimaryOnEvent,
         Dispatches, AtSource
  <2>2. ~PrimaryOnEvent
    BY <1>4 DEF PrimaryOnEvent, Handling, Sources
  <2> QED
    BY <1>2, <1>12, <2>1, <2>2 DEF PrimaryDispatch, PrimaryNop, PrimaryAdd, PrimaryRemove
<1>13. ASSUME NEW ok \in BOOLEAN, HandlerReturn(ok)
       PROVE  \/ On /\ HandlerReturn(TRUE)
              \/ Stays /\ Removal(Top.cur) /\ Top.pc = "handler" /\ Top.cur # Primary
  <2>1. CASE ok = TRUE
    BY <1>2, <1>13, <2>1 DEF HandlerReturn
  <2>2. CASE ok = FALSE
    BY <1>3, <1>13, <2>2 DEF HandlerReturn, Removal
  <2> QED
    BY <2>1, <2>2
<1>14. ~LoopExit
  <2>1. ASSUME LoopExit, Len(frames) > 1 PROVE FALSE
    <3> DEFINE n == Len(frames) - 1
    <3>1. frames' = SubSeq(frames, 1, n) /\ n \in 1 .. Len(frames) /\ n \in Nat \ {0}
      BY <1>0, <2>1 DEF LoopExit
    <3>2. Len(frames') = n /\ frames'[n] = frames[n]
      BY <1>0, <3>1
    <3>3. Suspended(frames[n])
      BY <3>1 DEF FramesOK
    <3>4. Top' = frames[n]
      BY <3>2 DEF Top
    <3> HIDE DEF n
    <3> QED
      BY <3>3, <3>4 DEF Suspended
  <2>2. ASSUME LoopExit, ~(Len(frames) > 1) PROVE FALSE
    BY <1>1, <2>2, EndedFrame DEF LoopExit, Ended, PCs
  <2> QED
    BY <2>1, <2>2
<1>15. ~ManagerDestroy
  BY <1>1, EndedFrame DEF ManagerDestroy, Ended, PCs
<1>16. CASE LoopStep
  <2>1. CASE \/ \E err \in SUBSET (IF FdErrors THEN TableFds \ {Primary} ELSE {}) : Select(err)
             \/ SelectFail
    BY <1>8, <1>9, <2>1
  <2>2. CASE \E s \in Sources : LoopVisit(s)
    BY <1>11, <2>2
  <2>3. CASE PrimaryDispatch
    BY <1>12, <2>3
  <2>4. CASE \E ok \in BOOLEAN : HandlerReturn(ok)
    BY <1>0, <1>13, <2>4
  <2> QED
    BY <1>10, <1>14, <1>15, <1>16, <2>1, <2>2, <2>3, <2>4 DEF LoopStep
<1> QED
  BY <1>5, <1>6, <1>7, <1>16 DEF Next, Terminated

\* The first slot is the primary source's: when a pass is there and found the pipe
\* readable, there is something in it, since only this loop reads it. A nested
\* loop might, but the loop below it is at a later slot.
PipeOK ==
    /\ Top.pc = "pass" /\ Top.i = 1 /\ Primary \in Top.fdset => pipe # <<>> \/ ~InTable(Primary)
    /\ \A k \in DOMAIN frames :
         frames[k].pc = "handler" /\ frames[k].i = 1 /\ frames[k].cur # Primary
            => ~InTable(Primary)

\* The primary source is never added again.
LEMMA PrimaryGone ==
    ASSUME TypeOK, PrimaryOK, [Next]_vars, ~InTable(Primary)
    PROVE  ~InTable(Primary)'
<1> SUFFICES ASSUME InTable(Primary)' PROVE FALSE
  OBVIOUS
<1>1. pipe # <<>> /\ Head(pipe) = AddEvt(Primary)
  BY TableGains DEF Sources
<1>2. 1 \in DOMAIN pipe /\ pipe[1] = AddEvt(Primary)
  BY <1>1, HeadType
<1>3. AddEvt(Primary).type = "ADD" /\ AddEvt(Primary).source = Primary
  BY DEF AddEvt
<1> QED
  BY <1>2, <1>3, PrimaryAssumption DEF PrimaryOK

\* Every step keeps the pipe's answer to the pass at the first slot.
LEMMA PipeOKStep ==
    ASSUME TypeOK, FramesOK, PrimaryOK, PipeOK, [Next]_vars
    PROVE  PipeOK'
<1>0. TypeOK'
  BY TypeStep
<1>1. ASSUME NEW k \in DOMAIN frames', frames'[k].pc = "handler", frames'[k].i = 1,
             frames'[k].cur # Primary
      PROVE  ~InTable(Primary)'
  <2>1. CASE /\ k \in DOMAIN frames /\ frames[k].pc = "handler"
             /\ frames'[k].cur = frames[k].cur /\ frames'[k].i = frames[k].i
    BY <1>1, <2>1, PrimaryGone DEF PipeOK
  <2>2. ASSUME NEW s \in Sources, DispatchHandler(s), frames'[k].cur = s, frames'[k].i = Top.i
        PROVE  ~InTable(Primary)'
    <3>1. s # Primary /\ s = sources[1]
      BY <1>1, <2>2 DEF DispatchHandler, Dispatches, AtSource
    <3>2. ~InTable(Primary)
      BY <3>1 DEF InTable, PrimaryOK
    <3> QED
      BY <3>2, PrimaryGone
  <2> QED
    BY <1>0, <1>1, <2>1, <2>2, Handlers
<1>2. ASSUME Top'.pc = "pass", Top'.i = 1, Primary \in Top'.fdset
      PROVE  pipe' # <<>> \/ ~InTable(Primary)'
  <2>1. CASE Top.pc = "pass" /\ UNCHANGED frames /\ (Environment \/ UNCHANGED vars)
    <3>1. pipe # <<>> \/ ~InTable(Primary)
      BY <1>2, <2>1 DEF PipeOK, Top
    <3>2. pipe # <<>> => pipe' # <<>>
      <4>1. CASE UNCHANGED pipe
        BY <4>1
      <4>2. CASE UserInput
        <5>1. DOMAIN pipe' = 1 .. (Len(pipe) + 1) /\ Len(pipe) \in Nat
          BY <4>2, EventType, PipeSlots DEF UserInput
        <5>2. 1 \in DOMAIN pipe'
          BY <5>1
        <5> QED
          BY <5>2
      <4> QED
        BY <2>1, <4>1, <4>2 DEF Environment, Tick, vars
    <3> QED
      BY <3>1, <3>2, PrimaryGone
  <2>2. ASSUME NEW err, Select(err), Top'.fdset = {s \in TableFds : Readable(s)}
        PROVE  pipe' # <<>>
    <3>1. Readable(Primary) /\ pipe' = pipe
      BY <1>2, <2>2 DEF Select
    <3> QED
      BY <3>1 DEF Readable
  <2>3. Top'.fdset # {}
    BY <1>2
  <2>4. Top'.i # Top.i + 1
    BY <1>2, TopType
  <2>5. CASE /\ Top'.i = Top.i /\ Top'.fdset = Top.fdset /\ \E s \in Sources : Removal(s)
             /\ \/ Top.pc = "pass"
                \/ Top.pc = "handler" /\ Top.cur # Primary
    <3>1. CASE Top.pc = "pass"
      <4>1. pipe # <<>> \/ ~InTable(Primary)
        BY <1>2, <2>5, <3>1 DEF PipeOK
      <4>2. UNCHANGED pipe \/ PrimaryRemove
        <5>1. PICK s \in Sources : Removal(s)
          BY <2>5
        <5>2. CASE RemoveDisabled(s) \/ RemoveBroken(s)
          BY <5>2 DEF RemoveDisabled, RemoveBroken
        <5>3. CASE DispatchWidgetTimer(s, FALSE) \/ HandlerReturn(FALSE)
          BY <5>3 DEF DispatchWidgetTimer, HandlerReturn
        <5> QED
          BY <5>1, <5>2, <5>3 DEF Removal
      <4>3. ~PrimaryRemove
        <5>1. ASSUME PrimaryRemove PROVE FALSE
          <6>1. frames' = After(NextSource)
            BY <5>1 DEF PrimaryRemove
          <6>2. Top'.i = Top.i + 1
            BY <6>1, NextFrames, TopStep DEF Alike
          <6> QED
            BY <2>4, <6>2
        <5> QED
          BY <5>1
      <4> QED
        BY <4>1, <4>2, <4>3, PrimaryGone
    <3>2. CASE Top.pc = "handler" /\ Top.cur # Primary
      <4>1. ~InTable(Primary)
        BY <1>2, <2>5, <3>2, TopType DEF PipeOK, Top
      <4> QED
        BY <4>1, PrimaryGone
    <3> QED
      BY <2>5, <3>1, <3>2
  <2> QED
    BY <1>2, <2>1, <2>2, <2>3, <2>4, <2>5, PassStep
<1> QED
  BY <1>1, <1>2 DEF PipeOK

\* The loop never waits in a read of the pipe that it alone fills, however many
\* dialogs are open and whatever select() reports.
THEOREM OwnPipeAnswers == Spec => []OwnPipeNeverBlocks
<1> DEFINE Inv == TypeOK /\ FramesOK /\ PrimaryOK /\ PipeOK
<1>1. Init => Inv
  <2> SUFFICES ASSUME Init PROVE Inv
    OBVIOUS
  <2>1. TypeOK /\ FramesOK /\ PrimaryOK
    BY TypeInit, PointersInit DEF PointersInv
  <2>2. frames = <<NewFrame("setup")>> /\ NewFrame("setup").pc = "setup"
    BY DEF Init, NewFrame
  <2>3. PipeOK
    BY <2>2 DEF PipeOK, Top
  <2> QED
    BY <2>1, <2>3
<1>2. Inv /\ [Next]_vars => Inv'
  BY TypeStep, FramesStep, PrimaryStep, PipeOKStep
<1>3. ASSUME Inv, Dispatches(Primary) PROVE pipe # <<>>
  <2>1. /\ TypeOK /\ Top.pc = "pass" /\ Primary = sources[Top.i]
        /\ Primary \in Top.fdset \/ CheckIsZero(Primary)
    BY <1>3 DEF Dispatches, AtSource
  <2>2. Primary \in Top.fdset
    BY <2>1 DEF CheckIsZero, KindOf
  <2>3. InTable(Primary) /\ Top.i \in DOMAIN sources
    <3>1. Top.i \in Nat \ {0}
      BY <2>1, TopType
    <3>2. Top.i <= Len(sources) /\ AtSource(Primary)
      BY <1>3 DEF Dispatches, AtSource
    <3>3. DOMAIN sources = 1 .. Len(sources)
      BY <2>1 DEF TypeOK
    <3> QED
      BY <2>1, <3>1, <3>2, <3>3, AtSourceFound
  <2>4. Top.i = 1
    BY <1>3, <2>1, <2>3 DEF PrimaryOK
  <2> QED
    BY <1>3, <2>1, <2>2, <2>3, <2>4 DEF PipeOK
<1>4. Inv => OwnPipeNeverBlocks
  BY <1>3 DEF OwnPipeNeverBlocks
<1> QED
  BY <1>1, <1>2, <1>4, PTL DEF Spec

\* Below, what the fd sets say of the other sources. A source that nobody keeps
\* has one reference, so that it is in one slot at most.
AdoptedOnce == \A s \in Clients : Owner[s] = "adopted" => ref[s] <= 1

\* No step gives such a source a second reference.
LEMMA AdoptedOnceStep ==
    ASSUME CountInv, AdoptedOnce, [Next]_vars
    PROVE  AdoptedOnce'
<1> SUFFICES ASSUME NEW s \in Clients, Owner[s] = "adopted" PROVE ref'[s] <= 1
  BY DEF AdoptedOnce
<1>0. /\ TypeOK /\ s \in Sources /\ ref[s] \in Int /\ ref[s] <= 1
      /\ ref \in [Sources -> Int]
  BY ClientIsSource DEF CountInv, TypeOK, AdoptedOnce
<1>1. ASSUME NEW t \in Sources, ManagerRemove(t) PROVE ref'[s] <= 1
  <2>1. ref' = ref \/ ref' = [ref EXCEPT ![t] = ref[t] - 1]
    BY <1>1 DEF ManagerRemove, Unref
  <2> QED
    BY <1>0, <2>1
<1>2. ASSUME NEW t \in Clients, OwnerStep(t) PROVE ref'[s] <= 1
  <2>1. t \in Sources
    BY ClientIsSource
  <2>2. \/ ref' = ref \/ ref' = [ref EXCEPT ![t] = 1]
        \/ ref' = [ref EXCEPT ![t] = ref[t] - 1]
        \/ ref' = [ref EXCEPT ![t] = ref[t] + 1] /\ Owner[t] # "adopted"
    BY <1>2 DEF OwnerStep, CreateOwned, CreateAndAdd, Create, StartWithReset, StartPlain, Stop,
         DestroyCaretOwner, DestroyWaitBox, DestroyWndManager, ReleaseHandedOver, Unref
  <2> QED
    BY <1>0, <2>1, <2>2
<1>3. CASE ManagerDestroy
  <2>1. ref'[s] = ref[s] - Occ(sources, s)
    BY <1>0, <1>3 DEF ManagerDestroy
  <2> QED
    BY <1>0, <2>1, CountTypes
<1>4. CASE Application
  BY <1>0, <1>2, <1>4 DEF Application, Quit, DialogRun, Run
<1>5. CASE Environment
  BY <1>0, <1>5 DEF Environment, Tick, UserInput
<1>6. ASSUME NEW t \in Sources, LoopVisit(t) PROVE ref' = ref \/ ManagerRemove(t)
  BY <1>6 DEF LoopVisit, RemoveDisabled, RemoveBroken, Skip, DispatchWidgetTimer, DispatchHandler
<1>7. ASSUME PrimaryDispatch PROVE ref' = ref \/ \E t \in Sources : ManagerRemove(t)
  <2>1. PrimaryRemove => Head(pipe).source \in Sources
    BY <1>0, HeadType DEF PrimaryRemove
  <2> QED
    BY <1>7, <2>1 DEF PrimaryDispatch, PrimaryNop, PrimaryAdd, PrimaryRemove, PrimaryOnEvent
<1>8. ASSUME NEW ok \in BOOLEAN, HandlerReturn(ok) PROVE ref' = ref \/ ManagerRemove(Top.cur)
  BY <1>8 DEF HandlerReturn
<1>9. Top.cur \in Sources
  BY <1>0, TopType
<1>10. CASE \/ \E err \in SUBSET (IF FdErrors THEN TableFds \ {Primary} ELSE {}) : Select(err)
            \/ SelectFail \/ PassEnd \/ PassBreak \/ LoopExit
  BY <1>0, <1>10 DEF Select, SelectFail, PassEnd, PassBreak, LoopExit
<1>11. CASE LoopStep
  BY <1>0, <1>1, <1>3, <1>6, <1>7, <1>8, <1>9, <1>10, <1>11 DEF LoopStep
<1> QED
  BY <1>0, <1>4, <1>5, <1>11 DEF Next, Terminated, vars

\* A value that occurs at most once is in one slot at most.
LEMMA OccOnce ==
    ASSUME NEW S, NEW q \in Seq(S), NEW x, Occ(q, x) <= 1,
           NEW j \in DOMAIN q, NEW k \in DOMAIN q, q[j] = x, q[k] = x
    PROVE  j = k
<1>1. IsFiniteSet(SlotsOf(q, x)) /\ Occ(q, x) = Cardinality(SlotsOf(q, x))
  BY OccType
<1>2. j \in SlotsOf(q, x) /\ k \in SlotsOf(q, x)
  BY DEF SlotsOf
<1>3. ASSUME j # k PROVE FALSE
  <2>1. {j, k} \subseteq SlotsOf(q, x)
    BY <1>2
  <2>2. IsFiniteSet({j}) /\ Cardinality({j}) = 1
    BY FS_Singleton
  <2>3. {j, k} = {j} \cup {k} /\ k \notin {j}
    BY <1>3
  <2>4. IsFiniteSet({j, k}) /\ Cardinality({j, k}) = 2
    <3>1. IsFiniteSet({j} \cup {k}) /\ Cardinality({j} \cup {k}) = Cardinality({j}) + 1
      BY <2>2, <2>3, FS_AddElement
    <3> QED
      BY <2>2, <2>3, <3>1
  <2>5. Cardinality({j, k}) <= Cardinality(SlotsOf(q, x))
    BY <1>1, <2>1, FS_Subset
  <2>6. Cardinality(SlotsOf(q, x)) \in Nat
    BY <1>1, FS_CardinalityType
  <2> QED
    BY <1>1, <2>4, <2>5, <2>6
<1> QED
  BY <1>3

\* An fd source is in one slot at most.
LEMMA FdOnce ==
    ASSUME CountInv, AdoptedOnce, NEW s \in Clients, Kind[s] = "fd",
           NEW j \in DOMAIN sources, NEW k \in DOMAIN sources, sources[j] = s, sources[k] = s
    PROVE  j = k
<1>1. s \in Sources /\ TypeOK /\ Owner[s] = "adopted"
  BY ClientIsSource, WidgetTimers DEF CountInv
<1>2. ref[s] <= 1 /\ ref[s] \in Int
  BY <1>1 DEF AdoptedOnce, TypeOK
<1>3. /\ ref[s] = Held(s) + Occ(sources, s) + Occ(pipe, AddEvt(s)) + refused[s]
      /\ Held(s) \in {0, 1} /\ Occ(sources, s) \in Nat /\ Occ(pipe, AddEvt(s)) \in Nat
      /\ refused[s] \in Nat
  BY <1>1, DeadIsFree, CountTypes
<1>4. Occ(sources, s) <= 1
  BY <1>2, <1>3
<1> QED
  BY <1>1, <1>4, OccOnce DEF TypeOK

\* What a step forgets of a source's readiness: a timer's, a new source's, or
\* that of the fd source whose handler it calls.
LEMMA DueStep ==
    ASSUME TypeOK, [Next]_vars, NEW s \in Clients, Kind[s] = "fd", due[s]
    PROVE  \/ due'[s]
           \/ OwnerStep(s) /\ Create(s)
           \/ DispatchHandler(s)
<1>1. s \in Sources /\ KindOf(s) = "fd" /\ Owner[s] = "adopted" /\ OwnerOf(s) = "adopted"
  BY ClientIsSource, WidgetTimers DEF KindOf, OwnerOf
<1>2. due \in [Sources -> BOOLEAN]
  BY DEF TypeOK
<1>3. ASSUME NEW t \in Clients, OwnerStep(t) PROVE due'[s] \/ (OwnerStep(s) /\ Create(s))
  <2>1. CASE t # s
    BY <1>1, <1>3, <2>1, OwnerOwn
  <2>2. CASE t = s
    BY <1>1, <1>3, <2>2 DEF OwnerStep, CreateOwned, CreateAndAdd, StartWithReset, StartPlain,
         Stop, DestroyCaretOwner, DestroyWaitBox, DestroyWndManager, ReleaseHandedOver
  <2> QED
    BY <2>1, <2>2
<1>4. CASE Application
  BY <1>3, <1>4 DEF Application, Quit, DialogRun, Run
<1>5. ASSUME NEW t \in Clients, Tick(t) PROVE due'[s]
  BY <1>1, <1>2, <1>5, ClientIsSource DEF Tick
<1>6. CASE Environment
  BY <1>5, <1>6 DEF Environment, UserInput
<1>7. ASSUME NEW t \in Sources, LoopVisit(t) PROVE due'[s] \/ DispatchHandler(s)
  <2>1. CASE DispatchHandler(t)
    BY <1>1, <1>2, <2>1 DEF DispatchHandler
  <2>2. CASE ~DispatchHandler(t)
    BY <1>1, <1>2, <1>7, <2>2 DEF LoopVisit, RemoveDisabled, RemoveBroken, Skip,
         DispatchWidgetTimer
  <2> QED
    BY <2>1, <2>2
<1>8. ASSUME NEW ok \in BOOLEAN, HandlerReturn(ok) PROVE due'[s]
  <2>1. due' = [due EXCEPT ![Top.cur] = IF KindOf(Top.cur) = "timer" THEN FALSE ELSE @]
    BY <1>8 DEF HandlerReturn
  <2> QED
    BY <1>1, <1>2, <2>1
<1>9. CASE LoopStep
  BY <1>7, <1>8, <1>9 DEF LoopStep, Select, SelectFail, PassEnd, PassBreak, PrimaryDispatch,
       PrimaryNop, PrimaryAdd, PrimaryRemove, PrimaryOnEvent, LoopExit, ManagerDestroy
<1> QED
  BY <1>4, <1>6, <1>9 DEF Next, Terminated, vars

\* On one loop: a pass whose table has changed will be broken off; and while no
\* break is asked for, the slots still to be visited are what the scan saw, so
\* that the fd sets speak of them.
PassOK ==
    Top.pc \in {"pass", "handler"} =>
        /\ Top.stale => need_refresh > 0
        /\ need_refresh = 0 =>
             \A k \in DOMAIN sources :
                /\ IF Top.pc = "pass" THEN k >= Top.i ELSE k > Top.i
                /\ sources[k] # Primary
                /\ sources[k] \in Top.fdset
                => due[sources[k]]

\* The pending requests only grow, but for the break of a pass.
LEMMA RefreshStep ==
    ASSUME TypeOK, [Next]_vars, ~PassBreak
    PROVE  /\ need_refresh' \in {need_refresh, need_refresh + 1}
           /\ need_refresh' = need_refresh /\ ~ManagerDestroy => sources' = sources
<1>0. need_refresh \in Nat
  BY DEF TypeOK
<1>1. ASSUME NEW t \in Sources, ManagerRemove(t) PROVE need_refresh' = need_refresh + 1
  BY <1>1 DEF ManagerRemove
<1>2. need_refresh' \in {need_refresh, need_refresh + 1}
  <2>1. CASE Application \/ Environment
    <3>1. ASSUME NEW s \in Clients, OwnerStep(s) PROVE UNCHANGED need_refresh
      BY <3>1, OwnerOwn
    <3> QED
      BY <2>1, <3>1 DEF Application, Quit, DialogRun, Run, Environment, Tick, UserInput
  <2>2. ASSUME NEW t \in Sources, LoopVisit(t)
        PROVE  need_refresh' = need_refresh \/ ManagerRemove(t)
    BY <2>2 DEF LoopVisit, RemoveDisabled, RemoveBroken, Skip, DispatchWidgetTimer, DispatchHandler
  <2>3. ASSUME PrimaryDispatch PROVE need_refresh' \in {need_refresh, need_refresh + 1}
    BY <2>3 DEF PrimaryDispatch, PrimaryNop, PrimaryAdd, PrimaryRemove, PrimaryOnEvent,
         ManagerAdd, ManagerRemove
  <2>4. ASSUME NEW ok \in BOOLEAN, HandlerReturn(ok)
        PROVE  need_refresh' = need_refresh \/ ManagerRemove(Top.cur)
    BY <2>4 DEF HandlerReturn
  <2>5. Top.cur \in Sources
    BY TopType
  <2>6. CASE \/ \E err \in SUBSET (IF FdErrors THEN TableFds \ {Primary} ELSE {}) : Select(err)
             \/ SelectFail \/ PassEnd \/ LoopExit \/ ManagerDestroy
    BY <2>6 DEF Select, SelectFail, PassEnd, LoopExit, ManagerDestroy
  <2>7. CASE LoopStep
    BY <1>1, <2>2, <2>3, <2>4, <2>5, <2>6, <2>7 DEF LoopStep
  <2> QED
    BY <2>1, <2>7 DEF Next, Terminated, vars
<1>3. ASSUME need_refresh' = need_refresh, ~ManagerDestroy PROVE sources' = sources
  <2>1. need_refresh' # need_refresh + 1
    BY <1>0, <1>3
  <2> QED
    BY <1>1, <1>3, <2>1, TableStep DEF Removal
<1> QED
  BY <1>2, <1>3

\* In a slot that the pass has yet to come to, what is due stays due.
LEMMA StillDue ==
    ASSUME CountInv, AdoptedOnce, [Next]_vars, sources' = sources,
           NEW k \in DOMAIN sources, sources[k] \in Clients, Kind[sources[k]] = "fd",
           due[sources[k]],
           DispatchHandler(sources[k]) => k # Top.i
    PROVE  due'[sources[k]]
<1> DEFINE s == sources[k]
<1>0. TypeOK /\ s \in Sources /\ InTable(s)
  BY ClientIsSource DEF CountInv, InTable
<1>1. ~Create(s)
  BY <1>0, InTableAlive DEF Create
<1>2. ~DispatchHandler(s)
  <2>1. ASSUME DispatchHandler(s) PROVE FALSE
    <3>1. s = sources[Top.i] /\ Top.i \in DOMAIN sources
      <4>1. Top.i <= Len(sources) /\ s = sources[Top.i]
        BY <2>1 DEF DispatchHandler, Dispatches, AtSource
      <4>2. Top.i \in Nat \ {0} /\ DOMAIN sources = 1 .. Len(sources)
        BY <1>0, TopType DEF TypeOK
      <4> QED
        BY <4>1, <4>2
    <3>2. k = Top.i
      BY <3>1, FdOnce
    <3> QED
      BY <2>1, <3>2
  <2> QED
    BY <2>1
<1>3. s \in Clients /\ Kind[s] = "fd" /\ due[s]
  OBVIOUS
<1> HIDE DEF s
<1>4. due'[s]
  BY <1>0, <1>1, <1>2, <1>3, DueStep
<1> QED
  BY <1>4 DEF s

\* On one loop every step keeps what the pass believes.
LEMMA PassOKStep ==
    ASSUME CountInv, FramesOK, AdoptedOnce, PassOK, [Next]_vars, MaxDepth = 1
    PROVE  PassOK'
<1> SUFFICES ASSUME Top'.pc \in {"pass", "handler"}
    PROVE  /\ Top'.stale => need_refresh' > 0
           /\ need_refresh' = 0 =>
                \A k \in DOMAIN sources' :
                   /\ IF Top'.pc = "pass" THEN k >= Top'.i ELSE k > Top'.i
                   /\ sources'[k] # Primary
                   /\ sources'[k] \in Top'.fdset
                   => due'[sources'[k]]
  BY DEF PassOK
<1>0. /\ TypeOK /\ TypeOK' /\ need_refresh \in Nat /\ need_refresh' \in Nat
      /\ sources \in Seq(Sources) /\ DOMAIN sources = 1 .. Len(sources)
      /\ Top.i \in Nat \ {0} /\ Top'.i \in Nat \ {0} /\ Top.stale \in BOOLEAN
      /\ Top.cur \in Sources
  <2>1. TypeOK /\ TypeOK'
    BY TypeStep DEF CountInv
  <2>2. Top \in Frame
    BY <2>1, TopType
  <2>3. Top'.i \in Nat \ {0}
    <3>1. frames' \in Seq(Frame) /\ frames' # <<>>
      BY <2>1 DEF TypeOK
    <3>2. Len(frames') \in DOMAIN frames'
      BY <3>1
    <3>3. Top' \in Frame
      BY <3>1, <3>2 DEF Top
    <3> QED
      BY <3>3 DEF Frame
  <2>4. /\ need_refresh \in Nat /\ need_refresh' \in Nat
        /\ sources \in Seq(Sources) /\ DOMAIN sources = 1 .. Len(sources)
    BY <2>1 DEF TypeOK
  <2>5. Top.i \in Nat \ {0} /\ Top.stale \in BOOLEAN /\ Top.cur \in Sources
    BY <2>2 DEF Frame
  <2> QED
    BY <2>1, <2>3, <2>4, <2>5
<1>1. ~PassBreak
  <2>1. ASSUME PassBreak PROVE FALSE
    <3>1. frames' = SetTop(Reselect)
      BY <2>1 DEF PassBreak
    <3>2. Top'.pc = "loop"
      BY <1>0, <3>1, NextFrames, TopStep DEF Alike
    <3> QED
      BY <3>2
  <2> QED
    BY <2>1
<1>2. ~ManagerDestroy
  <2>1. ASSUME ManagerDestroy PROVE FALSE
    <3>1. Top'.pc = "deinit"
      BY <1>0, <2>1, EndedFrame, TopStep DEF ManagerDestroy, Ended, PCs, Alike
    <3> QED
      BY <3>1
  <2> QED
    BY <2>1
<1>3. /\ need_refresh' \in {need_refresh, need_refresh + 1}
      /\ need_refresh' = need_refresh => sources' = sources
  BY <1>0, <1>1, <1>2, RefreshStep
<1>4. need_refresh' = 0 => need_refresh = 0 /\ sources' = sources
  BY <1>0, <1>3
<1>5. need_refresh > 0 => need_refresh' > 0
  BY <1>0, <1>3
<1>6. sources' # sources => need_refresh' > 0
  BY <1>0, <1>3
<1>7. ~(Len(frames) > 1)
  BY DEF FramesOK
<1>8. \A s \in Top.fdset : s # Primary => s \in Clients /\ Kind[s] = "fd"
  <2>1. \A s \in Top.fdset : IsFd(s) /\ s \in Sources
    <3>1. Top.fdset \subseteq Sources
      BY <1>0, TopType DEF Frame
    <3> QED
      BY <1>0, <3>1, TopFrameOK DEF FrameOK
  <2> QED
    BY <2>1 DEF IsFd, KindOf, Sources
\* The top was in a pass or a handler, and the step did not take the due flag of
\* a slot that is still to be visited.
<1>9. ASSUME Top.pc \in {"pass", "handler"}, Top'.fdset = Top.fdset,
             sources' = sources => Top'.stale = Top.stale,
             \A k \in DOMAIN sources :
                (IF Top'.pc = "pass" THEN k >= Top'.i ELSE k > Top'.i) =>
                   /\ (IF Top.pc = "pass" THEN k >= Top.i ELSE k > Top.i)
                   /\ DispatchHandler(sources[k]) => k # Top.i
      PROVE  /\ Top'.stale => need_refresh' > 0
             /\ need_refresh' = 0 =>
                  \A k \in DOMAIN sources' :
                     /\ IF Top'.pc = "pass" THEN k >= Top'.i ELSE k > Top'.i
                     /\ sources'[k] # Primary
                     /\ sources'[k] \in Top'.fdset
                     => due'[sources'[k]]
  <2>1. Top'.stale => need_refresh' > 0
    <3>1. CASE sources' = sources
      BY <1>5, <1>9, <3>1 DEF PassOK
    <3> QED
      BY <1>6, <3>1
  <2>2. ASSUME need_refresh' = 0, NEW k \in DOMAIN sources',
               IF Top'.pc = "pass" THEN k >= Top'.i ELSE k > Top'.i,
               sources'[k] # Primary, sources'[k] \in Top'.fdset
        PROVE  due'[sources'[k]]
    <3>1. need_refresh = 0 /\ sources' = sources /\ k \in DOMAIN sources
      BY <1>4, <2>2
    <3>2. /\ (IF Top.pc = "pass" THEN k >= Top.i ELSE k > Top.i)
          /\ DispatchHandler(sources[k]) => k # Top.i
      BY <1>9, <2>2, <3>1
    <3>3. sources[k] \in Clients /\ Kind[sources[k]] = "fd"
      BY <1>8, <1>9, <2>2, <3>1
    <3>4. due[sources[k]]
      BY <1>9, <2>2, <3>1, <3>2 DEF PassOK
    <3>5. due'[sources[k]]
      BY <3>1, <3>2, <3>3, <3>4, StillDue
    <3> QED
      BY <3>1, <3>5
  <2> QED
    BY <2>1, <2>2
<1>10. CASE Top'.pc = "handler"
  <2>1. CASE /\ Top.pc = "handler" /\ Top'.i = Top.i
             /\ Top'.fdset = Top.fdset /\ Top'.stale = Top.stale
    <3>1. \A s : ~DispatchHandler(s)
      BY <2>1 DEF DispatchHandler, Dispatches, AtSource
    <3> QED
      BY <1>9, <1>10, <2>1, <3>1
  <2>2. CASE PrimaryOnEvent /\ Top' = Handling(Primary)
    <3>1. /\ Top.pc = "pass" /\ Top'.i = Top.i /\ Top'.fdset = Top.fdset
          /\ Top'.stale = Top.stale
      BY <1>0, <2>2, HandlingFrame DEF PrimaryOnEvent, Dispatches, AtSource, Sources
    <3>2. \A k \in DOMAIN sources : k > Top.i => k >= Top.i /\ k # Top.i
      BY <1>0
    <3> QED
      BY <1>9, <1>10, <3>1, <3>2
  <2>3. ASSUME NEW s \in Sources, DispatchHandler(s), Top' = Handling(s)
        PROVE  /\ Top.pc = "pass" /\ Top'.i = Top.i /\ Top'.fdset = Top.fdset
               /\ Top'.stale = Top.stale
    BY <1>0, <2>3, HandlingFrame DEF DispatchHandler, Dispatches, AtSource
  <2>4. CASE /\ Top.pc = "pass" /\ Top'.i = Top.i /\ Top'.fdset = Top.fdset
             /\ Top'.stale = Top.stale
    <3>1. \A k \in DOMAIN sources : k > Top.i => k >= Top.i /\ k # Top.i
      BY <1>0
    <3> QED
      BY <1>9, <1>10, <2>4, <3>1
  <2> QED
    BY <1>0, <1>7, <1>10, <2>1, <2>2, <2>3, <2>4, HandlerStep
<1>11. CASE Top'.pc = "pass"
  <2>1. CASE Top.pc = "pass" /\ UNCHANGED frames /\ (Environment \/ UNCHANGED vars)
    <3>1. Top' = Top
      BY <2>1 DEF Top
    <3>2. CASE \A s : ~DispatchHandler(s)
      BY <1>9, <1>11, <2>1, <3>1, <3>2
    <3>3. \A s : ~DispatchHandler(s)
      <4>1. ASSUME NEW s, DispatchHandler(s) PROVE FALSE
        <5>1. frames' = SetTop([Top EXCEPT !.pc = "handler", !.cur = s]) /\ s = sources[Top.i]
              /\ Top.i <= Len(sources)
          BY <4>1 DEF DispatchHandler, Dispatches, AtSource
        <5>2. s \in Sources
          BY <1>0, <5>1
        <5>3. Top'.pc = "handler"
          BY <1>0, <5>1, <5>2, HandlingFrame, TopStep DEF Handling, Alike
        <5> QED
          BY <1>11, <5>3
      <4> QED
        BY <4>1
    <3> QED
      BY <3>2, <3>3
  <2>2. ASSUME NEW err, Select(err), ~Top'.stale,
               Top'.fdset = {s \in TableFds : Readable(s)},
               NEW k \in DOMAIN sources', sources'[k] # Primary, sources'[k] \in Top'.fdset
        PROVE  due'[sources'[k]]
    BY <2>2 DEF Select, Readable
  <2>3. CASE SelectFail /\ ~Top'.stale /\ Top'.fdset = {}
    BY <2>3
  <2>4. CASE /\ Top'.i = Top.i + 1 /\ Top'.fdset = Top.fdset
             /\ sources' = sources => Top'.stale = Top.stale
             /\ \/ HandlerReturn(TRUE)
                \/ /\ Top.pc = "pass"
                   /\ \/ PrimaryDispatch
                      \/ \E s \in Sources : Skip(s) \/ DispatchWidgetTimer(s, TRUE)
    <3>1. Top.pc \in {"pass", "handler"}
      BY <2>4 DEF HandlerReturn
    <3>2. \A k \in DOMAIN sources : k >= Top.i + 1 => k >= Top.i /\ k > Top.i /\ k # Top.i
      BY <1>0
    <3> QED
      BY <1>9, <1>11, <2>4, <3>1, <3>2
  <2>5. ASSUME NEW s \in Sources, Removal(s) PROVE need_refresh' > 0
    BY <1>0, <2>5 DEF Removal, ManagerRemove
  <2>6. CASE need_refresh' > 0
    BY <1>0, <2>6
  <2> QED
    BY <1>0, <1>11, <2>1, <2>2, <2>3, <2>4, <2>5, <2>6, PassStep
<1> QED
  BY <1>10, <1>11

\* No pass has begun at first.
LEMMA PassInit == Init => AdoptedOnce /\ PassOK
<1> SUFFICES ASSUME Init PROVE AdoptedOnce /\ PassOK
  OBVIOUS
<1>1. AdoptedOnce
  BY ClientIsSource DEF Init, AdoptedOnce
<1>2. frames = <<NewFrame("setup")>> /\ NewFrame("setup").pc = "setup"
  BY DEF Init, NewFrame
<1>3. PassOK
  BY <1>2 DEF PassOK, Top
<1> QED
  BY <1>1, <1>3

PassInv == CountInv /\ FramesOK /\ AdoptedOnce /\ PassOK

\* On one loop the pass believes the truth for ever.
LEMMA PassInvariant ==
    ASSUME MaxDepth = 1
    PROVE  Spec => []PassInv
<1>1. Init => PassInv
  BY PassInit, PointersInit DEF PassInv, PointersInv
<1>2. PassInv /\ [Next]_vars => PassInv'
  BY CountStep, FramesStep, AdoptedOnceStep, PassOKStep DEF PassInv, CountInv
<1> QED
  BY <1>1, <1>2, PTL DEF Spec

\* Where no dialog nests a loop, a pass never goes on over a table that has
\* changed since its scan.
THEOREM ChangedTableReselects ==
    ASSUME MaxDepth = 1
    PROVE  Spec => []ReselectAfterChange
<1>1. PassInv => ReselectAfterChange
  BY DEF PassInv, PassOK, ReselectAfterChange
<1> QED
  BY <1>1, PassInvariant, PTL

\* Where no dialog nests a loop, no handler of an fd source is called, and waits
\* in its read, with nothing to read.
THEOREM PeersAnswer ==
    ASSUME MaxDepth = 1
    PROVE  Spec => []PeerNeverBlocks
<1>1. ASSUME PassInv, NEW s \in Clients, Dispatches(s), Kind[s] = "fd" PROVE due[s]
  <2>1. TypeOK /\ s \in Sources /\ s # Primary /\ KindOf(s) = "fd"
    BY <1>1, ClientIsSource DEF PassInv, CountInv, KindOf
  <2>2. /\ Top.pc = "pass" /\ Top.i <= Len(sources) /\ need_refresh = 0 /\ s = sources[Top.i]
        /\ s \in Top.fdset
    BY <1>1, <2>1 DEF Dispatches, AtSource, CheckIsZero
  <2>3. Top.i \in DOMAIN sources /\ Top.i >= Top.i
    <3>1. Top.i \in Nat \ {0} /\ DOMAIN sources = 1 .. Len(sources) /\ Len(sources) \in Nat
      BY <2>1, TopType DEF TypeOK
    <3> QED
      BY <2>2, <3>1
  <2> QED
    BY <1>1, <2>1, <2>2, <2>3 DEF PassInv, PassOK
<1>2. PassInv => PeerNeverBlocks
  BY <1>1 DEF PeerNeverBlocks
<1> QED
  BY <1>2, PassInvariant, PTL

-----------------------------------------------------------------------------
(* A started source is not lost.                                           *)

\* The owners that start a timer and never let it fail.
Persistent(s) == Owner[s] \in {"text_view", "marquee"}

\* A timer that is wanted is enabled; a text view stops it once at most.
StartOK ==
    \A s \in Clients : Persistent(s) =>
        /\ want[s] => own[s] /\ disable[s] = 0
        /\ Owner[s] = "text_view" /\ own[s] => disable[s] <= 1

\* Starts and stops alternate, so that the counter comes back to 0.
LEMMA StartOKStep ==
    ASSUME TypeOK, StartOK, [Next]_vars
    PROVE  StartOK'
<1> SUFFICES ASSUME NEW s \in Clients, Persistent(s)
    PROVE  /\ want'[s] => own'[s] /\ disable'[s] = 0
           /\ Owner[s] = "text_view" /\ own'[s] => disable'[s] <= 1
  BY DEF StartOK, Persistent
<1>0. /\ s \in Sources /\ OwnerOf(s) = Owner[s] /\ Owner[s] \in {"text_view", "marquee"}
      /\ disable[s] \in Nat /\ own[s] \in BOOLEAN /\ want[s] \in BOOLEAN
      /\ own \in [Sources -> BOOLEAN] /\ want \in [Sources -> BOOLEAN]
      /\ disable \in [Sources -> Nat]
  BY ClientIsSource DEF TypeOK, OwnerOf, Persistent
<1>1. /\ want[s] => own[s] /\ disable[s] = 0
      /\ Owner[s] = "text_view" /\ own[s] => disable[s] <= 1
  BY DEF StartOK
<1>2. ASSUME want'[s] = want[s], own'[s] = own[s], disable'[s] = disable[s]
      PROVE  /\ want'[s] => own'[s] /\ disable'[s] = 0
             /\ Owner[s] = "text_view" /\ own'[s] => disable'[s] <= 1
  BY <1>1, <1>2
<1>3. CASE OwnerStep(s)
  <2>1. CASE CreateOwned(s) \/ CreateAndAdd(s)
    <3>1. disable'[s] = 0 /\ own'[s] = (Owner[s] # "adopted" \/ CreateOwned(s))
      BY <1>0, <2>1 DEF CreateOwned, CreateAndAdd, Create
    <3>2. disable'[s] <= 1
      BY <3>1
    <3> QED
      BY <1>0, <3>1, <3>2
  <2>2. CASE StartPlain(s)
    <3>1. /\ Owner[s] = "text_view" /\ own[s] /\ own' = own
          /\ disable'[s] = Enabled(disable[s])
      BY <1>0, <2>2 DEF StartPlain
    <3>2. disable[s] <= 1
      BY <1>1, <3>1
    <3>3. disable'[s] = 0
      BY <1>0, <3>1, <3>2 DEF Enabled
    <3> QED
      BY <3>1, <3>3
  <2>3. CASE Stop(s)
    <3>1. want[s] /\ ~want'[s] /\ disable'[s] = disable[s] + 1
      BY <1>0, <2>3 DEF Stop
    <3>2. disable'[s] <= 1
      BY <1>1, <3>1
    <3> QED
      BY <3>1, <3>2
  <2>4. CASE DestroyCaretOwner(s) \/ ReleaseHandedOver(s)
    <3>1. ~want'[s] /\ ~own'[s]
      BY <1>0, <2>4 DEF DestroyCaretOwner, ReleaseHandedOver
    <3> QED
      BY <3>1
  <2> QED
    BY <1>0, <1>3, <2>1, <2>2, <2>3, <2>4
       DEF OwnerStep, StartWithReset, DestroyWaitBox, DestroyWndManager
<1>4. ASSUME NEW t \in Clients, OwnerStep(t), t # s
      PROVE  want'[s] = want[s] /\ own'[s] = own[s] /\ disable'[s] = disable[s]
  BY <1>0, <1>4, OwnerOwn
<1>5. CASE ~\E t \in Clients : OwnerStep(t)
  <2>1. UNCHANGED <<disable, want>>
    BY <1>5, OwnStep
  <2>2. own'[s] = own[s]
    BY <1>0, <1>5, OwnStep
  <2> QED
    BY <1>2, <2>1, <2>2
<1> QED
  BY <1>2, <1>3, <1>4, <1>5

\* A reference that an ADD has lost is not found again while the source lives.
LEMMA RefusedStep ==
    ASSUME TypeOK, [Next]_vars, NEW s \in Clients, ~OwnerStep(s), refused'[s] = 0
    PROVE  /\ refused[s] = 0
           /\ PrimaryDispatch /\ pipe # <<>> /\ Head(pipe) = AddEvt(s) => InTable(s)'
<1>0. s \in Sources /\ refused[s] \in Nat /\ refused \in [Sources -> Nat]
  BY ClientIsSource DEF TypeOK
<1>1. CASE PrimaryAdd
  <2> DEFINE t == Head(pipe).source
  <2>1. ManagerAdd(t) /\ t \in Sources
    BY <1>1, HeadType DEF PrimaryAdd
  <2> HIDE DEF t
  <2>2. CASE Len(sources) < MaxSources
    <3>1. sources' = Append(sources, t) /\ refused' = refused
      BY <2>1, <2>2 DEF ManagerAdd
    <3>2. t = s => InTable(s)'
      BY <1>0, <2>1, <3>1, AppendTable
    <3>3. Head(pipe) = AddEvt(s) => t = s
      BY DEF AddEvt, t
    <3> QED
      BY <3>1, <3>2, <3>3
  <2>3. CASE ~(Len(sources) < MaxSources)
    <3>1. refused' = [refused EXCEPT ![t] = refused[t] + 1]
      BY <2>1, <2>3 DEF ManagerAdd
    <3>2. t # s
      BY <1>0, <3>1
    <3>3. Head(pipe) = AddEvt(s) => t = s
      BY DEF AddEvt, t
    <3> QED
      BY <1>0, <3>1, <3>2, <3>3
  <2> QED
    BY <2>2, <2>3
<1>2. CASE ~PrimaryAdd
  <2>1. PrimaryDispatch /\ pipe # <<>> => Head(pipe) # AddEvt(s)
    BY <1>2 DEF PrimaryDispatch, PrimaryNop, PrimaryRemove, PrimaryOnEvent, AddEvt
  <2>2. ASSUME NEW t \in Clients, OwnerStep(t) PROVE refused'[s] = refused[s]
    BY <1>0, <2>2, OwnerOwn
  <2>3. ASSUME Application PROVE refused'[s] = refused[s]
    BY <2>2, <2>3 DEF Application, Quit, DialogRun, Run
  <2>4. ASSUME Environment PROVE refused'[s] = refused[s]
    BY <2>4 DEF Environment, Tick, UserInput
  <2>5. ASSUME LoopStep PROVE refused'[s] = refused[s]
    BY <1>2, <2>5 DEF LoopStep, Select, SelectFail, PassEnd, PassBreak, LoopVisit,
         RemoveDisabled, RemoveBroken, Skip, DispatchWidgetTimer, DispatchHandler,
         PrimaryDispatch, PrimaryNop, PrimaryRemove, PrimaryOnEvent, HandlerReturn, LoopExit,
         ManagerDestroy
  <2>6. refused'[s] = refused[s]
    BY <2>3, <2>4, <2>5 DEF Next, Terminated, vars
  <2> QED
    BY <2>1, <2>6
<1> QED
  BY <1>1, <1>2

\* What the last event about s in the pipe says, or else the table.
Settled(s) ==
    IF PendingAbout(s) = {}
    THEN InTable(s)
    ELSE \E k \in PendingAbout(s) : /\ pipe[k].type = "ADD"
                                    /\ \A j \in PendingAbout(s) : j <= k

\* A step of anybody but its owner keeps a started timer on its way or in place.
LEMMA SettledStep ==
    ASSUME TypeOK, FramesOK, [Next]_vars, NEW s \in Clients, Persistent(s), ~OwnerStep(s),
           disable[s] = 0, refused'[s] = 0, Top'.pc # "deinit", Settled(s)
    PROVE  Settled(s)'
<1> DEFINE P == PendingAbout(s)
           Q == PendingAbout(s)'
<1>0. /\ s \in Sources /\ Len(pipe) \in Nat /\ DOMAIN pipe = 1 .. Len(pipe)
      /\ \A k \in DOMAIN pipe : pipe[k] \in Events
      /\ Q = {k \in DOMAIN pipe' : pipe'[k].source = s /\ pipe'[k].type \in {"ADD", "REMOVE"}}
      /\ P = {k \in DOMAIN pipe : pipe[k].source = s /\ pipe[k].type \in {"ADD", "REMOVE"}}
  BY ClientIsSource, PipeSlots DEF PendingAbout
<1>1. ASSUME InTable(s), ~InTable(s)'
      PROVE  pipe # <<>> /\ pipe' = Tail(pipe) /\ Head(pipe) = RemoveEvt(s)
  <2>1. ~ManagerDestroy
    <3>1. ASSUME ManagerDestroy PROVE FALSE
      <4>1. Top'.pc = "deinit"
        BY <3>1, EndedFrame, TopStep DEF ManagerDestroy, Ended, PCs, Alike
      <4> QED
        BY <4>1
    <3> QED
      BY <3>1
  <2>2. sources' # sources
    BY <1>1 DEF InTable
  <2>3. ASSUME NEW t \in Sources, Removal(t)
        PROVE  pipe # <<>> /\ pipe' = Tail(pipe) /\ Head(pipe) = RemoveEvt(s)
    <3>1. t = s
      BY <1>0, <1>1, <2>3, RemoveTable DEF Removal
    <3>2. PrimaryRemove /\ Head(pipe) = RemoveEvt(s)
      BY <2>3, <3>1, TimerRemoval DEF Persistent
    <3> QED
      BY <3>2 DEF PrimaryRemove
  <2>4. CASE PrimaryDispatch /\ sources' = Append(sources, Head(pipe).source) /\ pipe # <<>>
    <3>1. InTable(s)'
      BY <1>0, <1>1, <2>4, HeadType, AppendTable
    <3> QED
      BY <1>1, <3>1
  <2> QED
    BY <2>1, <2>2, <2>3, <2>4, TableStep
<1>2. CASE \/ pipe' = pipe
           \/ \E e \in Events : QueueEvent(e) /\ (e.type \in {"NOP", "USER"} \/ e.source # s)
  <2>1. Q = P /\ \A k \in P : pipe'[k] = pipe[k]
    <3>1. CASE pipe' = pipe
      BY <1>0, <3>1
    <3>2. ASSUME NEW e \in Events, QueueEvent(e), e.type \in {"NOP", "USER"} \/ e.source # s
          PROVE  Q = P /\ \A k \in P : pipe'[k] = pipe[k]
      <4>1. /\ DOMAIN pipe' = 1 .. (Len(pipe) + 1) /\ pipe'[Len(pipe) + 1] = e
            /\ \A k \in DOMAIN pipe : pipe'[k] = pipe[k]
        BY <3>2, PipeSlots
      <4>2. Len(pipe) + 1 \notin Q
        BY <1>0, <3>2, <4>1
      <4>3. \A k \in DOMAIN pipe' : k \in DOMAIN pipe \/ k = Len(pipe) + 1
        BY <1>0, <4>1
      <4>4. \A k \in DOMAIN pipe : k \in DOMAIN pipe'
        BY <1>0, <4>1
      <4>5. Q \subseteq P
        BY <1>0, <4>1, <4>2, <4>3
      <4>6. P \subseteq Q
        BY <1>0, <4>1, <4>4
      <4> QED
        BY <1>0, <4>1, <4>5, <4>6
    <3> QED
      BY <1>2, <3>1, <3>2
  <2>2. P = {} => InTable(s)'
    <3>1. ASSUME P = {} PROVE InTable(s)'
      <4>1. InTable(s)
        BY <3>1 DEF Settled
      <4>2. pipe # <<>> => Head(pipe) # RemoveEvt(s)
        <5>1. RemoveEvt(s).source = s /\ RemoveEvt(s).type = "REMOVE"
          BY DEF RemoveEvt
        <5> QED
          BY <1>0, <3>1, <5>1, HeadType
      <4> QED
        BY <1>1, <4>1, <4>2
    <3> QED
      BY <3>1
  <2>3. ASSUME P # {} PROVE \E k \in Q : pipe'[k].type = "ADD" /\ \A j \in Q : j <= k
    BY <2>1, <2>3 DEF Settled
  <2> QED
    BY <2>1, <2>2, <2>3 DEF Settled
<1>3. CASE PrimaryDispatch /\ pipe # <<>> /\ pipe' = Tail(pipe)
  <2>1. /\ DOMAIN pipe' = 1 .. (Len(pipe) - 1) /\ Head(pipe) = pipe[1] /\ 1 \in DOMAIN pipe
        /\ \A k \in DOMAIN pipe' : k + 1 \in DOMAIN pipe /\ pipe'[k] = pipe[k + 1]
        /\ Head(pipe) \in Events
    BY <1>3, PipeSlots, HeadType
  <2>2. \A k \in Q : k + 1 \in P /\ pipe'[k] = pipe[k + 1] /\ k \in Int
    BY <1>0, <2>1
  <2>3. \A k \in P : k \in Int /\ (k # 1 => k - 1 \in Q /\ pipe'[k - 1] = pipe[k])
    <3>1. ASSUME NEW k \in P, k # 1 PROVE k - 1 \in Q /\ pipe'[k - 1] = pipe[k]
      <4>1. k - 1 \in DOMAIN pipe' /\ (k - 1) + 1 = k
        BY <1>0, <2>1, <3>1
      <4>2. pipe'[k - 1] = pipe[k]
        BY <2>1, <4>1
      <4> QED
        BY <1>0, <3>1, <4>1, <4>2
    <3> QED
      BY <1>0, <3>1
  <2>4. CASE P = {}
    <3>1. Q = {}
      BY <2>2, <2>4
    <3>2. InTable(s)
      BY <2>4 DEF Settled
    <3>3. Head(pipe) # RemoveEvt(s)
      <4>1. RemoveEvt(s).source = s /\ RemoveEvt(s).type = "REMOVE"
        BY DEF RemoveEvt
      <4> QED
        BY <1>0, <2>1, <2>4, <4>1
    <3>4. InTable(s)'
      BY <1>1, <3>2, <3>3
    <3> QED
      BY <3>1, <3>4 DEF Settled
  <2>5. ASSUME NEW k \in P, pipe[k].type = "ADD", \A j \in P : j <= k
        PROVE  Settled(s)'
    <3>1. CASE k # 1
      <4>1. k - 1 \in Q /\ pipe'[k - 1].type = "ADD"
        BY <2>3, <2>5, <3>1
      <4>2. \A j \in Q : j <= k - 1
        BY <2>2, <2>3, <2>5
      <4> QED
        BY <4>1, <4>2 DEF Settled
    <3>2. CASE k = 1
      <4>1. Q = {}
        <5>1. ASSUME NEW j \in Q PROVE FALSE
          <6>1. j + 1 \in P /\ j \in DOMAIN pipe' /\ j \in Nat \ {0}
            BY <1>0, <2>1, <2>2, <5>1
          <6>2. j + 1 <= 1
            BY <2>5, <3>2, <6>1
          <6> QED
            BY <6>1, <6>2
        <5> QED
          BY <5>1
      <4>2. Head(pipe) = AddEvt(s)
        BY <1>0, <2>1, <2>5, <3>2 DEF Events, AddEvt
      <4>3. InTable(s)'
        BY <1>3, <4>2, RefusedStep
      <4> QED
        BY <4>1, <4>3 DEF Settled
    <3> QED
      BY <3>1, <3>2
  <2> QED
    BY <2>4, <2>5 DEF Settled
<1> QED
  BY <1>2, <1>3, PipeOf

\* A timer that a text view or a list has started is not lost, in whatever order
\* the starts and the stops of its former lives are read from the pipe.
THEOREM StartedSourcesManaged == Spec => []StartedIsManaged
<1> DEFINE Inv == TypeOK /\ FramesOK /\ StartOK /\ StartedIsManaged
<1>1. Init => Inv
  <2> SUFFICES ASSUME Init PROVE Inv
    OBVIOUS
  <2>1. TypeOK /\ FramesOK
    BY TypeInit, PointersInit DEF PointersInv
  <2>2. \A s \in Clients : ~want[s] /\ disable[s] = 0
    BY ClientIsSource DEF Init
  <2>3. StartOK /\ StartedIsManaged
    BY <2>2 DEF StartOK, StartedIsManaged
  <2> QED
    BY <2>1, <2>3
<1>2. ASSUME Inv, [Next]_vars PROVE Inv'
  <2>1. TypeOK' /\ FramesOK' /\ StartOK'
    BY <1>2, TypeStep, FramesStep, StartOKStep
  <2>2. ASSUME NEW s \in Clients, want'[s], Persistent(s), refused'[s] = 0, Top'.pc # "deinit"
        PROVE  Settled(s)'
    <3>0. s \in Sources
      BY ClientIsSource
    <3>1. CASE OwnerStep(s)
      <4>1. StartPlain(s) \/ CreateAndAdd(s)
        BY <1>2, <2>2, <3>0, <3>1 DEF OwnerStep, CreateOwned, StartWithReset, Stop,
             DestroyCaretOwner, DestroyWaitBox, DestroyWndManager, ReleaseHandedOver,
             Persistent, TypeOK
      <4>2. QueueEvent(AddEvt(s)) /\ AddEvt(s) \in Events
        BY <3>0, <4>1, EventType DEF StartPlain, CreateAndAdd
      <4>3. /\ DOMAIN pipe' = 1 .. (Len(pipe) + 1) /\ pipe'[Len(pipe) + 1] = AddEvt(s)
            /\ Len(pipe) \in Nat
        BY <1>2, <4>2, PipeSlots
      <4>4. /\ Len(pipe) + 1 \in PendingAbout(s)'
            /\ pipe'[Len(pipe) + 1].type = "ADD"
        BY <4>3 DEF PendingAbout, AddEvt
      <4>5. \A j \in PendingAbout(s)' : j <= Len(pipe) + 1
        BY <4>3 DEF PendingAbout
      <4> QED
        BY <4>4, <4>5 DEF Settled
    <3>2. CASE ~OwnerStep(s)
      <4>1. want[s] = want'[s]
        <5>1. CASE UNCHANGED <<disable, want>>
          BY <5>1
        <5>2. CASE \E t \in Clients : OwnerStep(t)
          BY <1>2, <3>0, <3>2, <5>2, OwnerOwn
        <5> QED
          BY <1>2, <5>1, <5>2, DisableStep
      <4>2. disable[s] = 0
        BY <1>2, <2>2, <4>1 DEF StartOK
      <4>3. refused[s] = 0
        BY <1>2, <2>2, <3>2, RefusedStep
      <4>4. Top.pc # "deinit"
        BY <1>2, <2>2, DeinitStays DEF Top
      <4>5. Settled(s)
        BY <1>2, <2>2, <4>1, <4>3, <4>4 DEF StartedIsManaged, Settled, Persistent
      <4> QED
        BY <1>2, <2>2, <3>2, <4>2, <4>5, SettledStep
    <3> QED
      BY <3>1, <3>2
  <2>3. StartedIsManaged'
    BY <2>2 DEF StartedIsManaged, Settled, Persistent
  <2> QED
    BY <2>1, <2>3
<1>3. Inv /\ [Next]_vars => Inv'
  BY <1>2
<1> QED
  BY <1>1, <1>3, PTL DEF Spec

(***************************************************************************)
(* A source as its widget sees it: the loop implements SourceLife.         *)
(***************************************************************************)

\* The refinement mapping.
Owned == [s \in Sources |-> own[s] /\ KeepsReference(s)]
Wanted == [s \in Sources |-> s = Primary \/ want[s]]
Asked == [s \in Sources |-> Occ(pipe, AddEvt(s))]
Slots == [s \in Sources |-> Occ(sources, s)]

\* What SourceLife says of who holds a source is what the counts say.
LEMMA HeldIsCounted ==
    ASSUME CountInv, NEW s \in Sources
    PROVE  /\ Owned[s] \in BOOLEAN /\ (Owned[s] <=> Held(s) = 1)
           /\ Asked[s] = Occ(pipe, AddEvt(s)) /\ Asked[s] \in Nat
           /\ Slots[s] = Occ(sources, s) /\ Slots[s] \in Nat
           /\ refused[s] \in Nat
           /\ alive[s] \in BOOLEAN
           /\ alive[s] <=> Owned[s] \/ Asked[s] > 0 \/ Slots[s] > 0 \/ refused[s] > 0
<1>1. /\ Occ(sources, s) \in Nat /\ Occ(pipe, AddEvt(s)) \in Nat
      /\ refused[s] \in Nat /\ Held(s) \in {0, 1} /\ ref[s] \in Int
      /\ alive[s] \in BOOLEAN /\ own[s] \in BOOLEAN
  BY CountTypes DEF CountInv
<1>2. ref[s] = Held(s) + Occ(sources, s) + Occ(pipe, AddEvt(s)) + refused[s]
  BY DeadIsFree
<1>3. alive[s] <=> ref[s] > 0
  BY DEF CountInv, LiveWhileReferenced
<1>4. Owned[s] \in BOOLEAN /\ (Owned[s] <=> Held(s) = 1)
  <2>1. Owned[s] = (own[s] /\ KeepsReference(s))
    BY DEF Owned
  <2>2. CASE own[s] /\ KeepsReference(s)
    BY <2>1, <2>2 DEF Held
  <2>3. CASE ~(own[s] /\ KeepsReference(s))
    <3>1. Owned[s] = FALSE
      BY <2>1, <2>3, Zenon
    <3>2. Held(s) # 1
      BY <2>3 DEF Held
    <3> QED
      BY <3>1, <3>2, Zenon
  <2> QED
    BY <2>2, <2>3
<1>5. Asked[s] = Occ(pipe, AddEvt(s)) /\ Slots[s] = Occ(sources, s)
  BY DEF Asked, Slots
<1>6. ref[s] > 0 <=> \/ Held(s) = 1 \/ Occ(pipe, AddEvt(s)) > 0
                     \/ Occ(sources, s) > 0 \/ refused[s] > 0
  BY <1>1, <1>2
<1>7. alive[s] <=> Owned[s] \/ Asked[s] > 0 \/ Slots[s] > 0 \/ refused[s] > 0
  BY <1>3, <1>4, <1>5, <1>6
<1> QED
  BY <1>1, <1>4, <1>5, <1>7

\* Memory is kept exactly for who is held.
LivesIfHeld ==
    \A s \in Sources :
        alive[s] <=> Owned[s] \/ Asked[s] > 0 \/ Slots[s] > 0 \/ refused[s] > 0

\* It is so in this state
LEMMA HeldInState == CountInv => LivesIfHeld
BY HeldIsCounted DEF LivesIfHeld

\* and in the next.
LEMMA HeldInNext == CountInv' => LivesIfHeld'
BY HeldInState, PTL

\* Memory is kept exactly for who is held, if no other source gains or loses any.
LEMMA Kept ==
    ASSUME CountInv, CountInv', NEW s \in Sources,
           \A t \in Sources \ {s} : alive'[t] = alive[t]
    PROVE  Life!KeptIfHeld(s)
<1>1. alive \in [Sources -> BOOLEAN] /\ alive' \in [Sources -> BOOLEAN]
  BY DEF CountInv, TypeOK
<1> DEFINE held == Owned'[s] \/ Asked'[s] > 0 \/ Slots'[s] > 0 \/ refused'[s] > 0
<1>2. alive'[s] <=> held
  BY HeldInNext DEF LivesIfHeld
<1>3. alive'[s] = held
  BY <1>1, <1>2
<1>4. alive' = [alive EXCEPT ![s] = held]
  <2> HIDE DEF held
  <2> QED
    BY <1>1, <1>3
<1> QED
  BY <1>4 DEF Life!KeptIfHeld, Life!Held, Owned, Asked, Slots

\* Requests to put a source in the table, and other events, in the pipe.
LEMMA AskedMore ==
    ASSUME TypeOK, NEW s \in Sources, QueueEvent(AddEvt(s))
    PROVE  Asked' = [Asked EXCEPT ![s] = @ + 1]
<1>1. \A t \in Sources : Occ(pipe', AddEvt(t)) = Occ(pipe, AddEvt(t)) + (IF s = t THEN 1 ELSE 0)
  BY EventType, AddEventOf, QueueCount
<1>2. \A t \in Sources : Occ(pipe, AddEvt(t)) \in Nat
  BY CountTypes
<1>3. \A t \in Sources : Occ(pipe', AddEvt(t)) =
          IF t = s THEN Occ(pipe, AddEvt(s)) + 1 ELSE Occ(pipe, AddEvt(t))
  BY <1>1, <1>2
<1> QED
  BY <1>3 DEF Asked

\* No other event is a request.
LEMMA AskedSame ==
    ASSUME TypeOK, NEW e \in Events, e.type # "ADD", pipe' = pipe \/ QueueEvent(e)
    PROVE  Asked' = Asked
<1>1. ASSUME NEW t \in Sources PROVE Occ(pipe', AddEvt(t)) = Occ(pipe, AddEvt(t))
  <2>1. e # AddEvt(t)
    BY DEF AddEvt
  <2>2. Occ(pipe, AddEvt(t)) \in Nat
    BY CountTypes
  <2> QED
    BY <2>1, <2>2, QueueCount
<1> QED
  BY <1>1 DEF Asked

\* A request is read from the pipe, or another event is.
LEMMA AskedRead ==
    ASSUME TypeOK, pipe # <<>>, pipe' = Tail(pipe)
    PROVE  /\ Head(pipe) \in Events /\ Head(pipe).source \in Sources
           /\ Head(pipe).type = "ADD" =>
                  /\ Asked' = [Asked EXCEPT ![Head(pipe).source] = @ - 1]
                  /\ Asked[Head(pipe).source] > 0
           /\ Head(pipe).type # "ADD" => Asked' = Asked
<1>1. Head(pipe) \in Events /\ pipe' \in Seq(Events)
  BY DEF TypeOK
<1>2. Head(pipe).source \in Sources
  BY <1>1 DEF Events
<1>3. \A t \in Sources : /\ Occ(pipe, AddEvt(t)) \in Nat /\ Occ(pipe', AddEvt(t)) \in Nat
                         /\ Occ(pipe', AddEvt(t)) = Occ(pipe, AddEvt(t))
                              - (IF Head(pipe).type = "ADD" /\ Head(pipe).source = t
                                 THEN 1 ELSE 0)
  BY <1>1, CountTypes, OccType, ReadCount
<1>4. ASSUME Head(pipe).type = "ADD"
      PROVE  /\ Asked' = [Asked EXCEPT ![Head(pipe).source] = @ - 1]
             /\ Asked[Head(pipe).source] > 0
  <2> DEFINE s == Head(pipe).source
  <2>1. \A t \in Sources : /\ Occ(pipe, AddEvt(t)) \in Nat /\ Occ(pipe', AddEvt(t)) \in Nat
                           /\ Occ(pipe', AddEvt(t)) = Occ(pipe, AddEvt(t))
                                - (IF s = t THEN 1 ELSE 0)
    BY <1>3, <1>4
  <2>2. s \in Sources
    BY <1>2
  <2> HIDE DEF s
  <2>3. \A t \in Sources : Occ(pipe', AddEvt(t)) =
            IF t = s THEN Occ(pipe, AddEvt(s)) - 1 ELSE Occ(pipe, AddEvt(t))
    BY <2>1
  <2>4. Asked' = [Asked EXCEPT ![s] = @ - 1]
    BY <2>2, <2>3 DEF Asked
  <2>5. Occ(pipe, AddEvt(s)) > 0
    BY <2>1, <2>2
  <2>6. Asked[s] > 0
    BY <2>2, <2>5 DEF Asked
  <2> QED
    BY <2>4, <2>6 DEF s
<1>5. ASSUME Head(pipe).type # "ADD" PROVE Asked' = Asked
  <2>1. \A t \in Sources : Occ(pipe', AddEvt(t)) = Occ(pipe, AddEvt(t))
    BY <1>3, <1>5
  <2> QED
    BY <2>1 DEF Asked
<1> QED
  BY <1>1, <1>2, <1>4, <1>5

\* Slots that a source gains or loses.
LEMMA SlotsAdd ==
    ASSUME TypeOK, NEW s \in Sources, ManagerAdd(s)
    PROVE  \/ Slots' = [Slots EXCEPT ![s] = @ + 1] /\ refused' = refused
           \/ refused' = [refused EXCEPT ![s] = @ + 1] /\ Slots' = Slots
<1>1. CASE Len(sources) < MaxSources
  <2>1. sources' = Append(sources, s) /\ refused' = refused /\ sources \in Seq(Sources)
    BY <1>1 DEF ManagerAdd, TypeOK
  <2>2. \A t \in Sources : Occ(sources', t) = Occ(sources, t) + (IF s = t THEN 1 ELSE 0)
    BY <2>1, OccAppend
  <2>3. \A t \in Sources : Occ(sources, t) \in Nat
    BY CountTypes
  <2>4. \A t \in Sources : Occ(sources', t) =
            IF t = s THEN Occ(sources, s) + 1 ELSE Occ(sources, t)
    BY <2>2, <2>3
  <2> QED
    BY <2>1, <2>4 DEF Slots
<1>2. CASE ~(Len(sources) < MaxSources)
  BY <1>2 DEF ManagerAdd, Slots
<1> QED
  BY <1>1, <1>2

\* A source that is in the table loses one slot, and no other source is freed.
LEMMA SlotsRemove ==
    ASSUME TypeOK, NEW s \in Sources, ManagerRemove(s)
    PROVE  /\ InTable(s) <=> Slots[s] > 0
           /\ InTable(s) => /\ Slots' = [Slots EXCEPT ![s] = @ - 1]
                            /\ \A t \in Sources \ {s} : alive'[t] = alive[t]
           /\ ~InTable(s) => Slots' = Slots /\ alive' = alive
<1>1. sources \in Seq(Sources) /\ alive \in [Sources -> BOOLEAN]
  BY DEF TypeOK
<1>2. \A t \in Sources : Occ(sources, t) \in Nat /\ (InTable(t) <=> Occ(sources, t) # 0)
  BY CountTypes
<1>3. InTable(s) <=> Slots[s] > 0
  BY <1>2 DEF Slots
<1>4. ASSUME InTable(s)
      PROVE  /\ Slots' = [Slots EXCEPT ![s] = @ - 1]
             /\ \A t \in Sources \ {s} : alive'[t] = alive[t]
  <2>1. FirstSlot(sources, s) \in 1 .. Len(sources) /\ sources[FirstSlot(sources, s)] = s
    BY <1>1, <1>4, FirstSlotFound DEF InTable
  <2>2. \A t \in Sources : Occ(sources', t) = Occ(sources, t) - (IF s = t THEN 1 ELSE 0)
    BY <1>1, <1>4, <2>1, OccShiftDown DEF ManagerRemove
  <2>3. \A t \in Sources : Occ(sources', t) =
            IF t = s THEN Occ(sources, s) - 1 ELSE Occ(sources, t)
    BY <1>2, <2>2
  <2>4. Slots' = [Slots EXCEPT ![s] = @ - 1]
    BY <2>3 DEF Slots
  <2>5. \A t \in Sources \ {s} : alive'[t] = alive[t]
    BY <1>1, <1>4 DEF ManagerRemove, Unref
  <2> QED
    BY <2>4, <2>5
<1>5. ASSUME ~InTable(s) PROVE Slots' = Slots /\ alive' = alive
  BY <1>5 DEF ManagerRemove, Slots
<1> QED
  BY <1>3, <1>4, <1>5

\* Append, element by element.
LEMMA AppendIs ==
    ASSUME NEW S, NEW q \in Seq(S), NEW x \in S, NEW n \in Nat, Len(q) = n
    PROVE  Append(q, x) = [k \in 1 .. (n + 1) |-> IF k = n + 1 THEN x ELSE q[k]]
<1> DEFINE r == [k \in 1 .. (n + 1) |-> IF k = n + 1 THEN x ELSE q[k]]
<1>1. \A k \in 1 .. (n + 1) : r[k] \in S
  <2>1. \A k \in 1 .. (n + 1) : k = n + 1 \/ k \in 1 .. Len(q)
    OBVIOUS
  <2> QED
    BY <2>1
<1>2. r \in [1 .. (n + 1) -> S]
  BY <1>1
<1>3. r \in Seq(S) /\ Len(r) = n + 1
  BY <1>2
<1>4. Append(q, x) \in Seq(S) /\ Len(Append(q, x)) = n + 1
  OBVIOUS
<1>5. \A k \in 1 .. (n + 1) : r[k] = Append(q, x)[k]
  <2>1. \A k \in 1 .. (n + 1) : k = n + 1 \/ k \in 1 .. n
    OBVIOUS
  <2> QED
    BY <2>1
<1> HIDE DEF r
<1>6. Append(q, x) = r
  BY <1>3, <1>4, <1>5, SeqEqual
<1> QED
  BY <1>6 DEF r

\* The actions that are running: one for each loop but, maybe, the innermost.
Depth == IF Top.pc = "handler" THEN Len(frames) ELSE Len(frames) - 1

\* Serving, as a sequence of sources.
LEMMA ServingIs ==
    ASSUME TypeOK
    PROVE  /\ Depth \in Nat /\ Depth \in {Len(frames), Len(frames) - 1}
           /\ Serving = [k \in 1 .. Depth |-> frames[k].cur]
           /\ Serving \in Seq(Sources) /\ Len(Serving) = Depth
           /\ \A k \in 1 .. Depth : Serving[k] = frames[k].cur
<1>1. Len(frames) \in Nat \ {0} /\ frames \in Seq(Frame)
  BY TopType DEF TypeOK
<1>2. Depth \in Nat /\ Depth \in {Len(frames), Len(frames) - 1}
  BY <1>1 DEF Depth
<1>3. Serving = [k \in 1 .. Depth |-> frames[k].cur]
  BY DEF Serving, Depth
<1>4. \A k \in 1 .. Depth : frames[k].cur \in Sources
  <2>1. \A k \in 1 .. Depth : k \in 1 .. Len(frames)
    BY <1>1, <1>2
  <2>2. \A k \in 1 .. Len(frames) : frames[k] \in Frame
    BY <1>1
  <2> QED
    BY <2>1, <2>2 DEF Frame
<1>5. Serving \in [1 .. Depth -> Sources]
  BY <1>3, <1>4
<1>6. Serving \in Seq(Sources) /\ Len(Serving) = Depth
  BY <1>2, <1>5
<1> QED
  BY <1>2, <1>3, <1>6

\* No action begins or ends.
LEMMA ServingSame ==
    ASSUME TypeOK, TypeOK', Depth' = Depth,
           \A k \in 1 .. Depth : frames'[k].cur = frames[k].cur
    PROVE  Serving' = Serving
<1>1. Serving = [k \in 1 .. Depth |-> frames[k].cur]
  BY DEF Serving, Depth
<1>2. Serving' = [k \in 1 .. Depth' |-> frames'[k].cur]
  BY DEF Serving, Depth
<1> QED
  BY <1>1, <1>2

\* The innermost loop goes on, outside of any action.
LEMMA ServingKept ==
    ASSUME TypeOK, TypeOK', NEW f \in Frame, frames' = SetTop(f) \/ frames' = After(f),
           Top.pc # "handler", f.pc # "handler"
    PROVE  Serving' = Serving
<1>1. /\ Len(frames') = Len(frames) /\ Len(frames) \in Nat \ {0}
      /\ Top'.pc = f.pc
      /\ \A k \in 1 .. (Len(frames) - 1) : frames'[k].cur = frames[k].cur
  BY TopStep DEF Alike
<1>2. Depth = Len(frames) - 1 /\ Depth' = Depth
  BY <1>1 DEF Depth
<1> QED
  BY <1>1, <1>2, ServingSame

\* It begins an action.
LEMMA ServingBegins ==
    ASSUME TypeOK, TypeOK', NEW s \in Sources, frames' = SetTop(Handling(s)),
           Top.pc # "handler"
    PROVE  Serving' = Append(Serving, s)
<1>1. Handling(s) \in Frame /\ Handling(s).pc = "handler" /\ Handling(s).cur = s
  BY HandlingFrame
<1>2. /\ Len(frames') = Len(frames) /\ Len(frames) \in Nat \ {0}
      /\ Top' = frames'[Len(frames)] /\ Top'.pc = "handler" /\ Top'.cur = s
      /\ \A k \in 1 .. (Len(frames) - 1) : frames'[k].cur = frames[k].cur
  BY <1>1, TopStep DEF Alike
<1> DEFINE n == Len(frames) - 1
<1>3. n \in Nat /\ Depth = n /\ Depth' = n + 1 /\ Len(frames) = n + 1
  BY <1>2 DEF Depth
<1>4. Serving' = [k \in 1 .. (n + 1) |-> frames'[k].cur]
  BY <1>3 DEF Serving, Depth
<1>5. Serving \in Seq(Sources) /\ Len(Serving) = n /\ \A k \in 1 .. n : Serving[k] = frames[k].cur
  BY <1>3, ServingIs
<1>6. Append(Serving, s) = [k \in 1 .. (n + 1) |-> IF k = n + 1 THEN s ELSE Serving[k]]
  <2> HIDE DEF n
  <2> QED
    BY <1>3, <1>5, AppendIs
<1>7. \A k \in 1 .. (n + 1) : frames'[k].cur = IF k = n + 1 THEN s ELSE Serving[k]
  <2>1. \A k \in 1 .. (n + 1) : k = n + 1 \/ k \in 1 .. n
    BY <1>3
  <2> QED
    BY <1>2, <1>3, <1>5, <2>1
<1> HIDE DEF n
<1> QED
  BY <1>4, <1>6, <1>7

\* Its action ends.
LEMMA ServingEnds ==
    ASSUME TypeOK, TypeOK', NEW f \in Frame, frames' = SetTop(f) \/ frames' = After(f),
           Top.pc = "handler", f.pc # "handler"
    PROVE  /\ Serving # <<>> /\ Serving[Len(Serving)] = Top.cur
           /\ Serving' = SubSeq(Serving, 1, Len(Serving) - 1)
<1>1. /\ Len(frames') = Len(frames) /\ Len(frames) \in Nat \ {0}
      /\ Top'.pc = f.pc
      /\ \A k \in 1 .. (Len(frames) - 1) : frames'[k].cur = frames[k].cur
  BY TopStep DEF Alike
<1> DEFINE n == Len(frames)
<1>2. n \in Nat \ {0} /\ Depth = n /\ Depth' = n - 1
  BY <1>1 DEF Depth
<1>3. Serving \in Seq(Sources) /\ Len(Serving) = n /\ \A k \in 1 .. n : Serving[k] = frames[k].cur
  BY <1>2, ServingIs
<1>4. Serving' = [k \in 1 .. (n - 1) |-> frames'[k].cur]
  BY <1>2 DEF Serving, Depth
<1>5. SubSeq(Serving, 1, n - 1) = [k \in 1 .. (n - 1) |-> Serving[k]]
  <2> HIDE DEF n
  <2> QED
    BY <1>2, <1>3
<1>6. \A k \in 1 .. (n - 1) : frames'[k].cur = Serving[k]
  <2>1. \A k \in 1 .. (n - 1) : k \in 1 .. n
    BY <1>2
  <2> QED
    BY <1>1, <1>3, <2>1
<1>7. Serving # <<>> /\ Serving[n] = Top.cur
  BY <1>2, <1>3 DEF Top
<1> HIDE DEF n
<1> QED
  BY <1>3, <1>4, <1>5, <1>6, <1>7

\* It runs a dialog, in a loop of its own.
LEMMA ServingNests ==
    ASSUME TypeOK, TypeOK', Top.pc = "handler", NEW f \in Frame, f.pc # "handler",
           frames' = Append(frames, f)
    PROVE  Serving' = Serving
<1>1. frames \in Seq(Frame) /\ Len(frames) \in Nat \ {0}
  BY TopType DEF TypeOK
<1>2. /\ Len(frames') = Len(frames) + 1 /\ frames'[Len(frames) + 1] = f
      /\ \A k \in 1 .. Len(frames) : frames'[k] = frames[k]
  BY <1>1
<1>3. Top' = f
  BY <1>2 DEF Top
<1>4. Depth = Len(frames) /\ Depth' = Len(frames)
  BY <1>1, <1>2, <1>3 DEF Depth
<1> QED
  BY <1>2, <1>4, ServingSame

\* A loop is over: the action that ran it goes on.
LEMMA ServingExit ==
    ASSUME TypeOK, TypeOK', FramesOK, LoopExit
    PROVE  Serving' = Serving
<1>1. frames \in Seq(Frame) /\ Len(frames) \in Nat \ {0} /\ Top.pc = "loop"
  BY TopType DEF TypeOK, LoopExit
<1>2. Depth = Len(frames) - 1
  BY <1>1 DEF Depth
<1>3. CASE Len(frames) > 1
  <2>1. frames' = SubSeq(frames, 1, Len(frames) - 1)
    BY <1>3 DEF LoopExit
  <2>2. Len(frames) - 1 \in 1 .. Len(frames) /\ Len(frames) - 1 \in 1 .. (Len(frames) - 1)
    BY <1>1, <1>3
  <2>3. /\ Len(frames') = Len(frames) - 1
        /\ \A k \in 1 .. (Len(frames) - 1) : frames'[k] = frames[k]
    BY <1>1, <2>1, <2>2
  <2>4. Top' = frames[Len(frames) - 1]
    BY <2>2, <2>3 DEF Top
  <2>5. Top'.pc = "handler"
    BY <2>2, <2>4 DEF FramesOK, Suspended
  <2>6. Depth' = Len(frames) - 1
    BY <2>3, <2>5 DEF Depth
  <2> QED
    BY <1>2, <2>3, <2>6, ServingSame
<1>4. CASE ~(Len(frames) > 1)
  <2>1. frames' = SetTop([Top EXCEPT !.pc = "exited"])
    BY <1>4 DEF LoopExit
  <2>2. [Top EXCEPT !.pc = "exited"] \in Frame /\ [Top EXCEPT !.pc = "exited"].pc = "exited"
    BY TopType DEF Frame
  <2> QED
    BY <1>1, <2>1, <2>2, ServingKept
<1> QED
  BY <1>3, <1>4

\* A loop is told to quit.
LEMMA ServingQuits ==
    ASSUME TypeOK, TypeOK', NEW k \in DOMAIN frames, Quit(k)
    PROVE  Serving' = Serving
<1>1. frames \in Seq(Frame) /\ frames' = [frames EXCEPT ![k].running = FALSE]
  BY DEF TypeOK, Quit
<1>2. \A j \in DOMAIN frames : frames[j] \in Frame
  BY <1>1
<1>3. /\ Len(frames') = Len(frames)
      /\ \A j \in DOMAIN frames : /\ frames'[j].cur = frames[j].cur
                                  /\ frames'[j].pc = frames[j].pc
  BY <1>1, <1>2 DEF Frame
<1>4. Len(frames) \in Nat \ {0} /\ Len(frames) \in DOMAIN frames /\ DOMAIN frames = 1 .. Len(frames)
  BY <1>1, TopType
<1>5. Top'.pc = Top.pc
  BY <1>3, <1>4 DEF Top
<1>6. Depth' = Depth
  BY <1>3, <1>5 DEF Depth
<1>7. \A j \in 1 .. Depth : j \in DOMAIN frames
  BY <1>4 DEF Depth
<1> QED
  BY <1>3, <1>6, <1>7, ServingSame

\* What an owner holds.
LEMMA OwnedSet ==
    ASSUME TypeOK, NEW s \in Sources, NEW v \in BOOLEAN, own' = [own EXCEPT ![s] = v]
    PROVE  /\ KeepsReference(s) => Owned' = [Owned EXCEPT ![s] = v]
           /\ ~KeepsReference(s) => Owned' = Owned /\ Owned' = [Owned EXCEPT ![s] = FALSE]
<1>1. own \in [Sources -> BOOLEAN]
  BY DEF TypeOK
<1>2. own'[s] = v /\ \A t \in Sources \ {s} : own'[t] = own[t]
  BY <1>1
<1>3. \A t \in Sources \ {s} : (own'[t] /\ KeepsReference(t)) = (own[t] /\ KeepsReference(t))
  BY <1>2
<1>4. ASSUME KeepsReference(s) PROVE Owned' = [Owned EXCEPT ![s] = v]
  <2>1. (own'[s] /\ KeepsReference(s)) = v
    BY <1>2, <1>4
  <2> QED
    BY <1>3, <2>1 DEF Owned
<1>5. ASSUME ~KeepsReference(s)
      PROVE  Owned' = Owned /\ Owned' = [Owned EXCEPT ![s] = FALSE]
  <2>1. /\ (own'[s] /\ KeepsReference(s)) = FALSE
        /\ (own[s] /\ KeepsReference(s)) = FALSE
    BY <1>5, Zenon
  <2> QED
    BY <1>3, <2>1 DEF Owned
<1> QED
  BY <1>4, <1>5

\* What it wants.
LEMMA WantedSet ==
    ASSUME TypeOK, NEW s \in Clients, NEW v \in BOOLEAN, want' = [want EXCEPT ![s] = v]
    PROVE  Wanted' = [Wanted EXCEPT ![s] = v]
<1>1. want \in [Sources -> BOOLEAN] /\ s \in Sources /\ s # Primary
  BY ClientIsSource, PrimaryAssumption DEF TypeOK
<1>2. want'[s] = v /\ \A t \in Sources \ {s} : want'[t] = want[t]
  BY <1>1
<1>3. \A t \in Sources \ {s} : (t = Primary \/ want'[t]) = (t = Primary \/ want[t])
  BY <1>2
<1>4. (s = Primary \/ want'[s]) = v
  BY <1>1, <1>2
<1> QED
  BY <1>1, <1>3, <1>4 DEF Wanted

\* An owner changes neither the table nor the actions that are running.
LEMMA OwnerKeeps ==
    ASSUME TypeOK, NEW s \in Clients, OwnerStep(s)
    PROVE  Slots' = Slots /\ Serving' = Serving
<1>1. UNCHANGED <<sources, frames>>
  BY OwnerOwn
<1> QED
  BY <1>1 DEF Slots, Serving, Top

\* A source is created.
LEMMA CreateLife ==
    ASSUME CountInv, CountInv', NEW s \in Clients, CreateOwned(s) \/ CreateAndAdd(s)
    PROVE  \E forOwner, forTable \in BOOLEAN : Life!Create(s, forOwner, forTable)
<1>1. /\ TypeOK /\ s \in Sources /\ OwnerOf(s) = Owner[s] /\ OwnerStep(s) /\ Create(s)
  BY ClientIsSource, PrimaryAssumption DEF CountInv, OwnerStep, OwnerOf, CreateOwned, CreateAndAdd
<1>2. Slots' = Slots /\ Serving' = Serving
  BY <1>1, OwnerKeeps
<1>3. Life!KeptIfHeld(s)
  BY <1>1, OwnerOwn, Kept
<1>4. ~alive[s] /\ Held(s) = 0 /\ Occ(pipe, AddEvt(s)) = 0 /\ refused[s] = 0
  BY <1>1, DeadIsFree DEF Create
<1>5. refused' = refused
  <2>1. refused \in [Sources -> Nat] /\ refused' = [refused EXCEPT ![s] = 0]
    BY <1>1 DEF Create, TypeOK
  <2> QED
    BY <1>1, <1>4, <2>1
<1>6. Asked[s] = 0
  BY <1>1, <1>4 DEF Asked
<1>7. CASE CreateOwned(s)
  <2>1. own' = [own EXCEPT ![s] = TRUE] /\ want' = [want EXCEPT ![s] = FALSE] /\ pipe' = pipe
        /\ KeepsReference(s)
    BY <1>1, <1>7 DEF CreateOwned, KeepsReference
  <2>2. Owned' = [Owned EXCEPT ![s] = TRUE] /\ Wanted' = [Wanted EXCEPT ![s] = FALSE]
    BY <1>1, <2>1, OwnedSet, WantedSet
  <2>3. Asked' = [Asked EXCEPT ![s] = IF FALSE THEN 1 ELSE 0]
    BY <1>6, <2>1 DEF Asked
  <2>4. Life!Create(s, TRUE, FALSE)
    BY <1>2, <1>3, <1>4, <1>5, <2>2, <2>3 DEF Life!Create, Owned, Wanted, Asked, Slots
  <2> QED
    BY <2>4
<1>8. CASE CreateAndAdd(s)
  <2>1. /\ QueueEvent(AddEvt(s)) /\ want' = [want EXCEPT ![s] = TRUE]
        /\ own' = [own EXCEPT ![s] = Owner[s] # "adopted"] /\ ~KeepsReference(s)
    BY <1>1, <1>8 DEF CreateAndAdd, KeepsReference
  <2>2. Owned' = [Owned EXCEPT ![s] = FALSE] /\ Wanted' = [Wanted EXCEPT ![s] = TRUE]
    <3>1. (Owner[s] # "adopted") \in BOOLEAN
      OBVIOUS
    <3> QED
      BY <1>1, <2>1, <3>1, OwnedSet, WantedSet
  <2>3. Asked' = [Asked EXCEPT ![s] = @ + 1]
    BY <1>1, <2>1, AskedMore
  <2>4. Asked' = [Asked EXCEPT ![s] = IF TRUE THEN 1 ELSE 0]
    BY <1>6, <2>3
  <2>5. Life!Create(s, FALSE, TRUE)
    BY <1>2, <1>3, <1>4, <1>5, <2>2, <2>4 DEF Life!Create, Owned, Wanted, Asked, Slots
  <2> QED
    BY <2>5
<1> QED
  BY <1>7, <1>8

\* It is started.
LEMMA StartLife ==
    ASSUME CountInv, NEW s \in Clients, StartWithReset(s) \/ StartPlain(s)
    PROVE  Life!Start(s)
<1>1. /\ TypeOK /\ s \in Sources /\ OwnerOf(s) = Owner[s] /\ OwnerStep(s)
  BY ClientIsSource, PrimaryAssumption DEF CountInv, OwnerStep, OwnerOf
<1>2. Slots' = Slots /\ Serving' = Serving
  BY <1>1, OwnerKeeps
<1>3. /\ own[s] /\ KeepsReference(s) /\ want' = [want EXCEPT ![s] = TRUE]
      /\ QueueEvent(AddEvt(s)) /\ UNCHANGED <<alive, own, refused>>
  BY <1>1 DEF StartWithReset, StartPlain, KeepsReference
<1>4. Owned[s] /\ Owned' = Owned
  BY <1>1, <1>3 DEF Owned
<1>5. Wanted' = [Wanted EXCEPT ![s] = TRUE] /\ Asked' = [Asked EXCEPT ![s] = @ + 1]
  BY <1>1, <1>3, WantedSet, AskedMore
<1> QED
  BY <1>2, <1>3, <1>4, <1>5 DEF Life!Start, Owned, Wanted, Asked, Slots

\* It is stopped, or taken back from the loop.
LEMMA StopLife ==
    ASSUME CountInv, NEW s \in Clients, Stop(s) \/ ReleaseHandedOver(s)
    PROVE  Life!Stop(s)
<1>1. /\ TypeOK /\ s \in Sources /\ OwnerOf(s) = Owner[s] /\ OwnerStep(s)
  BY ClientIsSource, PrimaryAssumption DEF CountInv, OwnerStep, OwnerOf
<1>2. Slots' = Slots /\ Serving' = Serving
  BY <1>1, OwnerKeeps
<1>3. /\ want' = [want EXCEPT ![s] = FALSE] /\ QueueEvent(RemoveEvt(s))
      /\ UNCHANGED <<alive, refused>>
  BY DEF Stop, ReleaseHandedOver
<1>4. Owned' = Owned
  <2>1. CASE Stop(s)
    BY <2>1 DEF Stop, Owned
  <2>2. CASE ReleaseHandedOver(s)
    <3>1. own' = [own EXCEPT ![s] = FALSE] /\ ~KeepsReference(s)
      BY <1>1, <2>2 DEF ReleaseHandedOver, KeepsReference
    <3> QED
      BY <1>1, <3>1, OwnedSet
  <2> QED
    BY <2>1, <2>2
<1>5. Wanted' = [Wanted EXCEPT ![s] = FALSE]
  BY <1>1, <1>3, WantedSet
<1>6. Asked' = Asked
  <2>1. RemoveEvt(s) \in Events /\ RemoveEvt(s).type # "ADD"
    BY <1>1 DEF RemoveEvt, Events
  <2> QED
    BY <1>1, <1>3, <2>1, AskedSame
<1> QED
  BY <1>2, <1>3, <1>4, <1>5, <1>6 DEF Life!Stop, Owned, Wanted, Asked, Slots

\* Its owner gives its reference up.
LEMMA LetGoLife ==
    ASSUME CountInv, CountInv', NEW s \in Clients,
           DestroyCaretOwner(s) \/ DestroyWaitBox(s) \/ DestroyWndManager(s)
    PROVE  Life!LetGo(s)
<1>1. /\ TypeOK /\ s \in Sources /\ OwnerOf(s) = Owner[s] /\ OwnerStep(s)
  BY ClientIsSource, PrimaryAssumption DEF CountInv, OwnerStep, OwnerOf
<1>2. Slots' = Slots /\ Serving' = Serving
  BY <1>1, OwnerKeeps
<1>3. /\ own[s] /\ KeepsReference(s) /\ own' = [own EXCEPT ![s] = FALSE]
      /\ want' = [want EXCEPT ![s] = FALSE] /\ refused' = refused
      /\ pipe' = pipe \/ QueueEvent(RemoveEvt(s))
  BY <1>1 DEF DestroyCaretOwner, DestroyWaitBox, DestroyWndManager, KeepsReference
<1>4. Owned[s]
  BY <1>1, <1>3 DEF Owned
<1>5. Owned' = [Owned EXCEPT ![s] = FALSE] /\ Wanted' = [Wanted EXCEPT ![s] = FALSE]
  BY <1>1, <1>3, OwnedSet, WantedSet
<1>6. Asked' = Asked
  <2>1. RemoveEvt(s) \in Events /\ RemoveEvt(s).type # "ADD"
    BY <1>1 DEF RemoveEvt, Events
  <2> QED
    BY <1>1, <1>3, <2>1, AskedSame
<1>7. \A t \in Sources \ {s} : alive'[t] = alive[t]
  BY <1>1, OwnerOwn
<1>8. Life!KeptIfHeld(s)
  BY <1>1, <1>7, Kept
<1> QED
  BY <1>2, <1>3, <1>4, <1>5, <1>6, <1>8 DEF Life!LetGo, Owned, Wanted, Asked, Slots

\* Every step of an owner is one of SourceLife.
LEMMA OwnerLife ==
    ASSUME CountInv, CountInv', NEW s \in Clients, OwnerStep(s)
    PROVE  Life!OwnerStep(s)
BY CreateLife, StartLife, StopLife, LetGoLife DEF OwnerStep, Life!OwnerStep

\* A step that moves no reference.
LEMMA LifeSame ==
    ASSUME UNCHANGED <<alive, own, want, refused, sources>>, Asked' = Asked,
           Serving' = Serving
    PROVE  UNCHANGED Life!vars
BY DEF Life!vars, Owned, Wanted, Asked, Slots

\* Without the pipe no request is made or met.
LEMMA AskedKept ==
    ASSUME UNCHANGED pipe
    PROVE  Asked' = Asked
BY DEF Asked

\* A source is taken out of the table, or was not in it.
LEMMA LeaveLife ==
    ASSUME CountInv, CountInv', NEW s \in Sources, ManagerRemove(s),
           UNCHANGED <<own, want, refused>>, Asked' = Asked
    PROVE  Life!Leave(s) \/ UNCHANGED <<alive, Owned, Wanted, Asked, Slots, refused>>
<1>1. TypeOK /\ Owned' = Owned /\ Wanted' = Wanted
  BY DEF CountInv, Owned, Wanted
<1>2. CASE InTable(s)
  <2>1. /\ Slots[s] > 0 /\ Slots' = [Slots EXCEPT ![s] = @ - 1]
        /\ \A t \in Sources \ {s} : alive'[t] = alive[t]
    BY <1>1, <1>2, SlotsRemove
  <2>2. Life!KeptIfHeld(s)
    BY <2>1, Kept
  <2> QED
    BY <1>1, <2>1, <2>2 DEF Life!Leave, Owned, Wanted, Asked, Slots
<1>3. CASE ~InTable(s)
  BY <1>1, <1>3, SlotsRemove
<1> QED
  BY <1>2, <1>3

\* The same, while no action begins or ends.
LEMMA LeaveQuietly ==
    ASSUME CountInv, CountInv', NEW s \in Sources, ManagerRemove(s),
           UNCHANGED <<own, want, refused>>, Asked' = Asked, Serving' = Serving
    PROVE  [Life!Next]_(Life!vars)
<1>1. CASE Life!Leave(s)
  <2>1. Life!TableStep(s)
    BY <1>1 DEF Life!TableStep
  <2> QED
    BY <2>1 DEF Life!Next
<1>2. CASE UNCHANGED <<alive, Owned, Wanted, Asked, Slots, refused>>
  BY <1>2 DEF Life!vars, Owned, Wanted, Asked, Slots
<1> QED
  BY <1>1, <1>2, LeaveLife

\* The action of s begins.
LEMMA ServeLife ==
    ASSUME TypeOK, TypeOK', NEW s \in Sources, Dispatches(s), Wanted[s],
           frames' = SetTop(Handling(s)),
           Owned' = Owned, Asked' = Asked, UNCHANGED <<alive, want, refused, sources>>
    PROVE  Life!Next
<1>1. InTable(s) /\ Top.pc # "handler"
  BY AtSourceFound DEF Dispatches, AtSource
<1>2. Slots[s] > 0
  <2>1. Occ(sources, s) \in Nat /\ Occ(sources, s) # 0
    BY <1>1, CountTypes
  <2> QED
    BY <2>1 DEF Slots
<1>3. Serving' = Append(Serving, s)
  BY <1>1, ServingBegins
<1>4. Wanted' = Wanted /\ Slots' = Slots
  BY DEF Wanted, Slots
<1>5. Life!Serve(s)
  BY <1>2, <1>3, <1>4 DEF Life!Serve, Owned, Wanted, Asked, Slots
<1>6. Life!TableStep(s)
  BY <1>5 DEF Life!TableStep
<1> QED
  BY <1>6 DEF Life!Next

\* What the loop does with the source it has come to.
LEMMA VisitLife ==
    ASSUME StopInv, CountInv', NEW s \in Sources, LoopVisit(s)
    PROVE  [Life!Next]_(Life!vars)
<1>1. CountInv /\ TypeOK /\ TypeOK' /\ StoppedNeverDispatched
  BY StopDispatch DEF StopInv, CountInv
<1>2. /\ NextSource \in Frame /\ NextSource.pc # "handler"
      /\ SameSlot \in Frame /\ SameSlot.pc # "handler"
  BY <1>1, NextFrameType
<1>3. Top.pc # "handler"
  BY DEF LoopVisit, RemoveDisabled, RemoveBroken, Skip, DispatchWidgetTimer,
         DispatchHandler, Dispatches, AtSource
<1>4. Asked' = Asked
  BY AskedKept DEF LoopVisit, RemoveDisabled, RemoveBroken, Skip, DispatchWidgetTimer,
                   DispatchHandler
<1>5. CASE RemoveDisabled(s) \/ RemoveBroken(s)
  <2>1. ManagerRemove(s) /\ frames' = After(SameSlot) /\ UNCHANGED <<own, want, refused>>
    BY <1>5 DEF RemoveDisabled, RemoveBroken
  <2>2. Serving' = Serving
    BY <1>1, <1>2, <1>3, <2>1, ServingKept
  <2> QED
    BY <1>1, <1>4, <2>1, <2>2, LeaveQuietly
<1>6. CASE Skip(s)
  <2>1. Serving' = Serving
    BY <1>1, <1>2, <1>3, <1>6, ServingKept DEF Skip
  <2> QED
    BY <1>4, <1>6, <2>1, LifeSame DEF Skip
<1>7. ASSUME NEW ok \in BOOLEAN, DispatchWidgetTimer(s, ok)
      PROVE  [Life!Next]_(Life!vars)
  <2>1. Serving' = Serving
    BY <1>1, <1>2, <1>3, <1>7, ServingKept DEF DispatchWidgetTimer
  <2>2. CASE ok
    BY <1>4, <1>7, <2>1, <2>2, LifeSame DEF DispatchWidgetTimer
  <2>3. CASE ~ok
    BY <1>1, <1>4, <1>7, <2>1, <2>3, LeaveQuietly DEF DispatchWidgetTimer
  <2> QED
    BY <2>2, <2>3
<1>8. CASE DispatchHandler(s)
  <2>1. /\ Dispatches(s) /\ OwnerOf(s) \in {"long_press", "dialog", "adopted"}
        /\ frames' = SetTop(Handling(s))
        /\ own' = [own EXCEPT ![s] = IF OwnerOf(s) = "dialog" THEN FALSE ELSE @]
        /\ UNCHANGED <<alive, want, refused, sources>>
    BY <1>8 DEF DispatchHandler, Handling
  <2>2. s \in Clients
    BY <2>1 DEF OwnerOf, Sources
  <2>3. Wanted[s]
    BY <1>1, <2>1, <2>2 DEF StoppedNeverDispatched, Wanted
  <2>4. Owned' = Owned
    <3>1. CASE OwnerOf(s) = "dialog"
      <4>1. own' = [own EXCEPT ![s] = FALSE] /\ ~KeepsReference(s)
        BY <2>1, <3>1 DEF KeepsReference
      <4> QED
        BY <1>1, <4>1, OwnedSet
    <3>2. CASE OwnerOf(s) # "dialog"
      <4>1. own' = own
        BY <1>1, <2>1, <3>2 DEF TypeOK
      <4> QED
        BY <4>1 DEF Owned
    <3> QED
      BY <3>1, <3>2
  <2> QED
    BY <1>1, <1>4, <2>1, <2>3, <2>4, ServeLife
<1> QED
  BY <1>5, <1>6, <1>7, <1>8 DEF LoopVisit

\* What it does with an event from the pipe.
LEMMA PrimaryLife ==
    ASSUME CountInv, CountInv', PrimaryDispatch
    PROVE  [Life!Next]_(Life!vars)
<1>1. TypeOK /\ TypeOK' /\ Primary \in Sources
  BY DEF CountInv, Sources
<1>2. NextSource \in Frame /\ NextSource.pc # "handler"
  BY <1>1, NextFrameType
<1>3. pipe # <<>> /\ pipe' = Tail(pipe) /\ Top.pc # "handler" /\ Dispatches(Primary)
  BY DEF PrimaryDispatch, PrimaryNop, PrimaryAdd, PrimaryRemove, PrimaryOnEvent,
         Dispatches, AtSource
<1> DEFINE s == Head(pipe).source
<1>4. /\ s \in Sources
      /\ Head(pipe).type = "ADD" => Asked' = [Asked EXCEPT ![s] = @ - 1] /\ Asked[s] > 0
      /\ Head(pipe).type # "ADD" => Asked' = Asked
  BY <1>1, <1>3, AskedRead
<1>5. CASE PrimaryNop
  <2>1. Serving' = Serving
    BY <1>1, <1>2, <1>3, <1>5, ServingKept DEF PrimaryNop
  <2>2. Asked' = Asked
    BY <1>4, <1>5 DEF PrimaryNop
  <2> QED
    BY <1>5, <2>1, <2>2, LifeSame DEF PrimaryNop
<1>6. CASE PrimaryAdd
  <2>1. /\ Head(pipe).type = "ADD" /\ ManagerAdd(s) /\ UNCHANGED <<alive, own, want>>
        /\ frames' = After(NextSource)
    BY <1>6 DEF PrimaryAdd
  <2>2. Serving' = Serving
    BY <1>1, <1>2, <1>3, <2>1, ServingKept
  <2>3. \/ Slots' = [Slots EXCEPT ![s] = @ + 1] /\ refused' = refused
        \/ refused' = [refused EXCEPT ![s] = @ + 1] /\ Slots' = Slots
    BY <1>1, <1>4, <2>1, SlotsAdd
  <2>4. Owned' = Owned /\ Wanted' = Wanted
    BY <2>1 DEF Owned, Wanted
  <2>5. Asked' = [Asked EXCEPT ![s] = @ - 1] /\ Asked[s] > 0
    BY <1>4, <2>1
  <2> HIDE DEF s
  <2>6. Life!Enter(s)
    BY <2>1, <2>2, <2>3, <2>4, <2>5 DEF Life!Enter, Owned, Wanted, Asked, Slots
  <2>7. Life!TableStep(s)
    BY <2>6 DEF Life!TableStep
  <2> QED
    BY <1>4, <2>7 DEF Life!Next
<1>7. CASE PrimaryRemove
  <2>1. /\ Head(pipe).type # "ADD" /\ ManagerRemove(s) /\ UNCHANGED <<own, want, refused>>
        /\ frames' = After(NextSource)
    BY <1>7 DEF PrimaryRemove
  <2>2. Serving' = Serving
    BY <1>1, <1>2, <1>3, <2>1, ServingKept
  <2> QED
    BY <1>4, <2>1, <2>2, LeaveQuietly
<1>8. CASE PrimaryOnEvent
  <2>1. /\ frames' = SetTop(Handling(Primary)) /\ Head(pipe).type # "ADD"
        /\ UNCHANGED <<alive, own, want, refused, sources>>
    BY <1>8 DEF PrimaryOnEvent, Handling
  <2>2. Wanted[Primary] /\ Owned' = Owned /\ Asked' = Asked
    BY <1>1, <1>4, <2>1 DEF Wanted, Owned
  <2> QED
    BY <1>1, <1>3, <2>1, <2>2, ServeLife
<1> QED
  BY <1>5, <1>6, <1>7, <1>8 DEF PrimaryDispatch

\* A handler returns.
LEMMA ReturnLife ==
    ASSUME CountInv, CountInv', NEW ok \in BOOLEAN, HandlerReturn(ok)
    PROVE  Life!Next
<1> DEFINE s == Top.cur
<1>1. TypeOK /\ TypeOK' /\ s \in Sources /\ Top.pc = "handler"
  BY TopType DEF CountInv, HandlerReturn
<1>2. /\ NextSource \in Frame /\ NextSource.pc # "handler"
      /\ SameSlot \in Frame /\ SameSlot.pc # "handler"
  BY <1>1, NextFrameType
<1>3. /\ UNCHANGED <<own, want, refused, pipe>>
      /\ ok => frames' = SetTop(NextSource) /\ UNCHANGED <<sources, alive>>
      /\ ~ok => ManagerRemove(s) /\ frames' = After(SameSlot)
  BY DEF HandlerReturn
<1>4. /\ Serving # <<>> /\ Serving[Len(Serving)] = s
      /\ Serving' = SubSeq(Serving, 1, Len(Serving) - 1)
  <2>1. CASE ok
    BY <1>1, <1>2, <1>3, <2>1, ServingEnds
  <2>2. CASE ~ok
    BY <1>1, <1>2, <1>3, <2>2, ServingEnds
  <2> QED
    BY <2>1, <2>2
<1>5. Asked' = Asked /\ Owned' = Owned /\ Wanted' = Wanted
  BY <1>3 DEF Asked, Owned, Wanted
<1> HIDE DEF s
<1>6. Life!Leave(s) \/ UNCHANGED <<alive, Owned, Wanted, Asked, Slots, refused>>
  <2>1. CASE ok
    BY <1>3, <1>5, <2>1 DEF Slots
  <2>2. CASE ~ok
    BY <1>1, <1>3, <1>5, <2>2, LeaveLife
  <2> QED
    BY <2>1, <2>2
<1>7. Life!Served
  <2>1. CASE Life!Leave(s)
    BY <1>1, <1>4, <2>1 DEF Life!Served
  <2>2. CASE UNCHANGED <<alive, Owned, Wanted, Asked, Slots, refused>>
    BY <1>4, <2>2 DEF Life!Served, Owned, Wanted, Asked, Slots
  <2> QED
    BY <1>6, <2>1, <2>2
<1> QED
  BY <1>7 DEF Life!Next

\* The loop selects, breaks and goes back to select; a run begins.
LEMMA SelectLife ==
    ASSUME TypeOK, TypeOK',
           \/ \E err \in SUBSET Sources : Select(err)
           \/ SelectFail \/ PassEnd \/ PassBreak \/ Run
    PROVE  UNCHANGED Life!vars
<1>1. UNCHANGED <<alive, own, want, refused, sources, pipe>>
  BY DEF Select, SelectFail, PassEnd, PassBreak, Run
<1>2. Top.pc # "handler"
  BY DEF Select, SelectFail, PassEnd, PassBreak, Run
<1>3. PICK f \in Frame : f.pc # "handler" /\ frames' = SetTop(f)
  <2>1. ASSUME NEW err \in SUBSET Sources, Select(err)
        PROVE  \E f \in Frame : f.pc # "handler" /\ frames' = SetTop(f)
    <3> DEFINE A == {s \in TableFds : Readable(s)}
    <3>1. A \in SUBSET Sources
      BY TableSetType
    <3>2. frames' = SetTop(Passing(A, err))
      BY <2>1 DEF Select, Passing
    <3> HIDE DEF A
    <3> QED
      BY <3>1, <3>2, PassingFrame
  <2>2. ASSUME SelectFail
        PROVE  \E f \in Frame : f.pc # "handler" /\ frames' = SetTop(f)
    <3>1. frames' = SetTop(Passing({}, TableFds))
      BY <2>2 DEF SelectFail, Passing
    <3> QED
      BY <3>1, TableSetType, PassingFrame
  <2>3. ASSUME PassEnd \/ PassBreak
        PROVE  \E f \in Frame : f.pc # "handler" /\ frames' = SetTop(f)
    BY <2>3, NextFrameType DEF PassEnd, PassBreak
  <2>4. ASSUME Run
        PROVE  \E f \in Frame : f.pc # "handler" /\ frames' = SetTop(f)
    <3>1. NewFrame("loop") \in Frame /\ NewFrame("loop").pc = "loop"
      BY NewFrameType DEF PCs, NewFrame
    <3> QED
      BY <2>4, <3>1 DEF Run
  <2> QED
    BY <2>1, <2>2, <2>3, <2>4
<1>4. Serving' = Serving
  BY <1>2, <1>3, ServingKept
<1> QED
  BY <1>1, <1>4, AskedKept, LifeSame

\* Dialogs, requests to quit, the environment.
LEMMA RunnersLife ==
    ASSUME TypeOK, TypeOK',
           \/ DialogRun \/ UserInput
           \/ \E k \in DOMAIN frames : Quit(k)
           \/ \E s \in Clients : Tick(s)
    PROVE  UNCHANGED Life!vars
<1>1. UNCHANGED <<alive, own, want, refused, sources>>
  BY DEF DialogRun, UserInput, Quit, Tick
<1>2. Asked' = Asked
  <2>1. NopEvt \in Events /\ NopEvt.type # "ADD" /\ UserEvt \in Events /\ UserEvt.type # "ADD"
    BY EventType DEF NopEvt, UserEvt
  <2>2. pipe' = pipe \/ QueueEvent(NopEvt) \/ QueueEvent(UserEvt)
    BY DEF DialogRun, UserInput, Quit, Tick
  <2> QED
    BY <2>1, <2>2, AskedSame
<1>3. Serving' = Serving
  <2>1. CASE DialogRun
    <3>1. NewFrame("loop") \in Frame /\ NewFrame("loop").pc = "loop"
      BY NewFrameType DEF PCs, NewFrame
    <3>2. Top.pc = "handler" /\ frames' = Append(frames, NewFrame("loop"))
      BY <2>1 DEF DialogRun
    <3> QED
      BY <3>1, <3>2, ServingNests
  <2>2. CASE \E k \in DOMAIN frames : Quit(k)
    BY <2>2, ServingQuits
  <2>3. CASE UserInput \/ \E s \in Clients : Tick(s)
    BY <2>3 DEF UserInput, Tick, Serving, Top
  <2> QED
    BY <2>1, <2>2, <2>3
<1> QED
  BY <1>1, <1>2, <1>3, LifeSame

\* The table is destroyed.
LEMMA CloseLife ==
    ASSUME CountInv, CountInv', ManagerDestroy
    PROVE  Life!Next
<1>1. /\ TypeOK /\ TypeOK' /\ Top.pc # "handler"
      /\ sources' = <<>> /\ UNCHANGED <<own, want, refused, pipe>>
      /\ frames' = SetTop(Ended("deinit"))
  BY DEF CountInv, ManagerDestroy, InTeardown, Ended
<1>2. Ended("deinit") \in Frame /\ Ended("deinit").pc = "deinit"
  BY <1>1, EndedFrame DEF PCs
<1>3. Serving' = Serving
  BY <1>1, <1>2, ServingKept
<1>4. Owned' = Owned /\ Wanted' = Wanted /\ Asked' = Asked
  BY <1>1 DEF Owned, Wanted, Asked
<1>5. Slots' = [s \in Sources |-> 0]
  BY <1>1, OccEmpty DEF Slots
<1>6. alive' \in [Sources -> BOOLEAN]
  BY <1>1 DEF TypeOK
<1>7. \A s \in Sources :
          alive'[s] = (Owned'[s] \/ Asked'[s] > 0 \/ Slots'[s] > 0 \/ refused'[s] > 0)
  BY <1>6, HeldInNext DEF LivesIfHeld
<1>8. alive' = [s \in Sources |->
                    Owned'[s] \/ Asked'[s] > 0 \/ Slots'[s] > 0 \/ refused'[s] > 0]
  BY <1>6, <1>7
<1>9. Life!CloseTable
  BY <1>1, <1>3, <1>4, <1>5, <1>8
     DEF Life!CloseTable, Life!Held, Owned, Wanted, Asked, Slots
<1> QED
  BY <1>9 DEF Life!Next

\* In the beginning only the primary source is there.
LEMMA LifeInit == Init => Life!Init
<1> SUFFICES ASSUME Init PROVE Life!Init
  OBVIOUS
<1>1. /\ alive = [s \in Sources |-> s = Primary] /\ refused = [s \in Sources |-> 0]
      /\ own = [s \in Sources |-> FALSE] /\ want = [s \in Sources |-> FALSE]
      /\ sources = <<Primary>> /\ pipe = <<>> /\ frames = <<NewFrame("setup")>>
  BY DEF Init
<1>2. \A s \in Sources : (s = Primary) = (s \in {Primary})
  OBVIOUS
<1>3. alive = [s \in Sources |-> s \in {Primary}]
  BY <1>1, <1>2
<1>4. \A s \in Sources : (own[s] /\ KeepsReference(s)) = FALSE
  BY <1>1, Zenon
<1>5. [s \in Sources |-> own[s] /\ KeepsReference(s)] = [s \in Sources |-> FALSE]
  BY <1>4, Zenon
<1>6. \A s \in Sources : (s = Primary \/ want[s]) = (s \in {Primary})
  BY <1>1
<1>7. [s \in Sources |-> s = Primary \/ want[s]] = [s \in Sources |-> s \in {Primary}]
  BY <1>6, Zenon
<1>8. [s \in Sources |-> Occ(pipe, AddEvt(s))] = [s \in Sources |-> 0]
  BY <1>1, OccEmpty
<1>9. [s \in Sources |-> Occ(sources, s)] = [s \in Sources |-> IF s \in {Primary} THEN 1 ELSE 0]
  BY <1>1, OccSingleton
<1>10. Serving = <<>>
  <2>1. Len(frames) = 1 /\ Top.pc = "setup"
    BY <1>1 DEF Top, NewFrame
  <2>2. Depth = 0
    BY <2>1 DEF Depth
  <2>3. Serving \in Seq(Sources) /\ Len(Serving) = 0
    BY <2>2, TypeInit, ServingIs
  <2> QED
    BY <2>3
<1> QED
  BY <1>1, <1>3, <1>5, <1>7, <1>8, <1>9, <1>10 DEF Life!Init

\* Every step of the program is a step of SourceLife, or leaves it unchanged.
LEMMA LifeStep ==
    StopInv /\ FramesOK /\ [Next]_vars => [Life!Next]_(Life!vars)
<1> SUFFICES ASSUME StopInv, FramesOK, [Next]_vars PROVE [Life!Next]_(Life!vars)
  OBVIOUS
<1>1. CountInv /\ CountInv' /\ TypeOK /\ TypeOK'
  BY CountStep DEF StopInv, CountInv
<1>2. CASE Application
  <2>1. ASSUME NEW s \in Clients, OwnerStep(s) PROVE Life!Next
    <3>1. Life!OwnerStep(s) /\ s \in Sources
      BY <1>1, <2>1, OwnerLife, ClientIsSource
    <3> QED
      BY <3>1 DEF Life!Next
  <2> QED
    BY <1>1, <1>2, <2>1, RunnersLife, SelectLife DEF Application
<1>3. CASE Environment
  BY <1>1, <1>3, RunnersLife DEF Environment
<1>4. CASE LoopStep
  <2>1. ASSUME NEW err \in SUBSET (IF FdErrors THEN TableFds \ {Primary} ELSE {}), Select(err)
        PROVE  UNCHANGED Life!vars
    <3>1. err \in SUBSET Sources
      BY <1>1, TableSetType
    <3> QED
      BY <1>1, <2>1, <3>1, SelectLife
  <2>2. CASE LoopExit
    <3>1. Serving' = Serving
      BY <1>1, <2>2, ServingExit
    <3> QED
      BY <2>2, <3>1, AskedKept, LifeSame DEF LoopExit
  <2> QED
    BY <1>1, <1>4, <2>1, <2>2, SelectLife, VisitLife, PrimaryLife, ReturnLife, CloseLife
       DEF LoopStep
<1>5. CASE UNCHANGED vars \/ Terminated
  BY <1>5, AskedKept, LifeSame DEF vars, Terminated, Serving, Top
<1> QED
  BY <1>2, <1>3, <1>4, <1>5 DEF Next

\* To its widget every source is what SourceLife says.
THEOREM LoopImplementsSourceLife == Spec => ImplementsSourceLife
<1>1. Init => FramesOK
  BY PointersInit DEF PointersInv
<1> QED
  BY <1>1, LifeInit, LifeStep, StopInit, StopStep, FramesStep, TypeCorrect, PTL
     DEF Spec, Life!Spec, ImplementsSourceLife

=============================================================================
