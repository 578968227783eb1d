------------------------ MODULE ServiceManager_proofs ------------------------
(***************************************************************************)
(* What ServiceManager promises of the processes of a service holds for    *)
(* any services and processes. A process counts against its service from   *)
(* the fork until it has been waited for and its REGISTER has been read:   *)
(* one that is dead still does, because a REGISTER that is read late makes *)
(* its service STARTED again.                                              *)
(***************************************************************************)
EXTENDS ServiceManager, TLAPS

(* Processes pr that count, when the REGISTERs of ak are unread. *)
Counts(pr, ak, p) == pr[p] \in {"starting", "registered", "zombie"} \/ p \in ak

Typed(st, pd, pr, ex, ak) ==
    /\ st \in [Services -> Statuses]
    /\ pd \in [Services -> Pids \cup {None}]
    /\ pr \in [Pids -> ProcStates]
    /\ ex \in [Pids -> Services \cup {None}]
    /\ ak \subseteq Pids

(* A process that was forked has a service. *)
HasService(pr, ex, ak) ==
    \A p \in Pids : pr[p] # "unused" \/ p \in ak =>
        pr[p] # "unused" /\ ex[p] \in Services

(* info->pid is a process whose REGISTER has been read. *)
PidHasRegistered(pd, pr, ex, ak) ==
    \A s \in Services : pd[s] # None =>
        pr[pd[s]] \notin {"unused", "starting"} /\ ex[pd[s]] = s /\ pd[s] \notin ak

OneCounts(pr, ex, ak) ==
    \A p, q \in Pids :
        Counts(pr, ak, p) /\ Counts(pr, ak, q) /\ ex[p] = ex[q] => p = q

NoneWhenStoped(st, pr, ex, ak) ==
    \A p \in Pids : Counts(pr, ak, p) => st[ex[p]] # "STOPED"

Consistent(st, pd, pr, ex, ak) ==
    /\ Typed(st, pd, pr, ex, ak)
    /\ HasService(pr, ex, ak)
    /\ PidHasRegistered(pd, pr, ex, ak)
    /\ OneCounts(pr, ex, ak)
    /\ NoneWhenStoped(st, pr, ex, ak)

IInv == Consistent(status, pid, proc, exec, asked)

-----------------------------------------------------------------------------
(* What a set of forks is. *)
LEMMA ForksFacts ==
    ASSUME NEW T, NEW pr \in [Pids -> ProcStates], NEW new \in Forks(T, pr)
    PROVE  /\ DOMAIN new \subseteq T
           /\ \A s \in DOMAIN new : new[s] \in Pids /\ pr[new[s]] = "unused"
           /\ \A s, t \in DOMAIN new : new[s] = new[t] => s = t
<1>1. PICK S \in SUBSET T :
        /\ new \in [S -> {p \in Pids : pr[p] = "unused"}]
        /\ \A s, t \in S : s # t => new[s] # new[t]
  BY DEF Forks
<1>2. DOMAIN new = S
  BY <1>1
<1> QED BY <1>1, <1>2

(* A process that was forked belongs to the service it was forked for. *)
ForkedAre(T, pr, ex, new) ==
    /\ WithProc(pr, new) \in [Pids -> ProcStates]
    /\ WithExec(ex, new) \in [Pids -> Services \cup {None}]
    /\ \A p \in Pids : Forked(new, p) =>
        /\ pr[p] = "unused"
        /\ WithProc(pr, new)[p] = "starting"
        /\ WithExec(ex, new)[p] \in T
        /\ new[WithExec(ex, new)[p]] = p
    /\ \A p \in Pids : ~Forked(new, p) =>
        /\ WithProc(pr, new)[p] = pr[p]
        /\ WithExec(ex, new)[p] = ex[p]

LEMMA ForkedFacts ==
    ASSUME NEW T, T \subseteq Services,
           NEW pr \in [Pids -> ProcStates], NEW ex \in [Pids -> Services \cup {None}],
           NEW new \in Forks(T, pr)
    PROVE  ForkedAre(T, pr, ex, new)
<1>1. /\ DOMAIN new \subseteq T
      /\ \A s \in DOMAIN new : new[s] \in Pids /\ pr[new[s]] = "unused"
      /\ \A s, t \in DOMAIN new : new[s] = new[t] => s = t
  BY ForksFacts
<1>2. \A p \in Pids : WithProc(pr, new)[p] = IF Forked(new, p) THEN "starting" ELSE pr[p]
  BY DEF WithProc
<1>3. \A p \in Pids : WithExec(ex, new)[p] =
        IF Forked(new, p) THEN CHOOSE s \in DOMAIN new : new[s] = p ELSE ex[p]
  BY DEF WithExec
<1>4. ASSUME NEW p \in Pids, Forked(new, p)
      PROVE  /\ pr[p] = "unused"
             /\ WithExec(ex, new)[p] \in T
             /\ new[WithExec(ex, new)[p]] = p
  <2>1. PICK s \in DOMAIN new : new[s] = p
    BY <1>4 DEF Forked
  <2>2. /\ (CHOOSE t \in DOMAIN new : new[t] = p) \in DOMAIN new
        /\ new[CHOOSE t \in DOMAIN new : new[t] = p] = p
    BY <2>1
  <2> QED BY <1>1, <1>3, <1>4, <2>1, <2>2
<1>5. WithProc(pr, new) \in [Pids -> ProcStates]
  BY DEF WithProc, ProcStates
<1>6. WithExec(ex, new) \in [Pids -> Services \cup {None}]
  <2>1. \A p \in Pids : WithExec(ex, new)[p] \in Services \cup {None}
    BY <1>3, <1>4
  <2> QED BY <2>1 DEF WithExec
<1> QED BY <1>2, <1>3, <1>4, <1>5, <1>6 DEF ForkedAre

(***************************************************************************)
(* Forking for services of which no process counts: they count as started. *)
(***************************************************************************)
LEMMA ForksKeepConsistent ==
    ASSUME NEW st, NEW pd, NEW pr, NEW ex, NEW ak,
           Consistent(st, pd, pr, ex, ak),
           NEW T, T \subseteq Services,
           \A s \in T : st[s] = "STOPED",
           NEW new \in Forks(T, pr)
    PROVE  Consistent([s \in Services |-> IF s \in T THEN "STARTING" ELSE st[s]], pd,
                      WithProc(pr, new), WithExec(ex, new), ak)
<1> DEFINE st2 == [s \in Services |-> IF s \in T THEN "STARTING" ELSE st[s]]
           pr2 == WithProc(pr, new)
           ex2 == WithExec(ex, new)
<1>1. /\ st \in [Services -> Statuses]
      /\ pd \in [Services -> Pids \cup {None}]
      /\ pr \in [Pids -> ProcStates]
      /\ ex \in [Pids -> Services \cup {None}]
      /\ ak \subseteq Pids
  BY DEF Consistent, Typed
<1>2. /\ pr2 \in [Pids -> ProcStates]
      /\ ex2 \in [Pids -> Services \cup {None}]
      /\ \A p \in Pids : Forked(new, p) =>
            pr[p] = "unused" /\ pr2[p] = "starting" /\ ex2[p] \in T /\ new[ex2[p]] = p
      /\ \A p \in Pids : ~Forked(new, p) => pr2[p] = pr[p] /\ ex2[p] = ex[p]
  <2>1. ForkedAre(T, pr, ex, new)
    BY <1>1, ForkedFacts
  <2> QED BY <2>1 DEF ForkedAre
<1>3. /\ HasService(pr, ex, ak)
      /\ PidHasRegistered(pd, pr, ex, ak)
      /\ OneCounts(pr, ex, ak)
      /\ NoneWhenStoped(st, pr, ex, ak)
  BY DEF Consistent
<1> HIDE DEF pr2, ex2
<1>4. Typed(st2, pd, pr2, ex2, ak)
  <2>1. st2 \in [Services -> Statuses]
    BY <1>1 DEF Statuses
  <2> QED BY <1>1, <1>2, <2>1 DEF Typed
<1>5. HasService(pr2, ex2, ak)
  BY <1>2, <1>3 DEF HasService
<1>6. PidHasRegistered(pd, pr2, ex2, ak)
  <2> SUFFICES ASSUME NEW s \in Services, pd[s] # None
               PROVE  pr2[pd[s]] \notin {"unused", "starting"} /\ ex2[pd[s]] = s /\ pd[s] \notin ak
    BY DEF PidHasRegistered
  <2>1. pd[s] \in Pids
    BY <1>1
  <2>2. pr[pd[s]] \notin {"unused", "starting"} /\ ex[pd[s]] = s /\ pd[s] \notin ak
    BY <1>3 DEF PidHasRegistered
  <2> QED BY <1>2, <2>1, <2>2
(* One that did not just start counted before, for a service outside T. *)
<1>7. \A p \in Pids : Counts(pr2, ak, p) /\ ~Forked(new, p) =>
        Counts(pr, ak, p) /\ ex2[p] = ex[p] /\ ex[p] \in Services \ T
  <2> SUFFICES ASSUME NEW p \in Pids, Counts(pr2, ak, p), ~Forked(new, p)
               PROVE  Counts(pr, ak, p) /\ ex2[p] = ex[p] /\ ex[p] \in Services \ T
    OBVIOUS
  <2>1. Counts(pr, ak, p) /\ ex2[p] = ex[p]
    BY <1>2 DEF Counts
  <2>2. ex[p] \in Services
    BY <1>3, <2>1 DEF HasService, Counts
  <2>3. st[ex[p]] # "STOPED"
    BY <1>3, <2>1 DEF NoneWhenStoped
  <2> QED BY <2>1, <2>2, <2>3
<1>8. OneCounts(pr2, ex2, ak)
  <2> SUFFICES ASSUME NEW p \in Pids, NEW q \in Pids,
                      Counts(pr2, ak, p), Counts(pr2, ak, q), ex2[p] = ex2[q]
               PROVE  p = q
    BY DEF OneCounts
  <2>1. CASE Forked(new, p) /\ Forked(new, q)
    BY <1>2, <2>1
  <2>2. CASE Forked(new, p) /\ ~Forked(new, q)
    BY <1>2, <1>7, <2>2
  <2>3. CASE ~Forked(new, p) /\ Forked(new, q)
    BY <1>2, <1>7, <2>3
  <2>4. CASE ~Forked(new, p) /\ ~Forked(new, q)
    BY <1>3, <1>7, <2>4 DEF OneCounts
  <2> QED BY <2>1, <2>2, <2>3, <2>4
<1>9. NoneWhenStoped(st2, pr2, ex2, ak)
  <2> SUFFICES ASSUME NEW p \in Pids, Counts(pr2, ak, p)
               PROVE  st2[ex2[p]] # "STOPED"
    BY DEF NoneWhenStoped
  <2>1. CASE Forked(new, p)
    BY <1>2, <2>1
  <2>2. CASE ~Forked(new, p)
    <3>1. Counts(pr, ak, p) /\ ex2[p] = ex[p] /\ ex[p] \in Services \ T
      BY <1>7, <2>2
    <3>2. st[ex[p]] # "STOPED"
      BY <1>3, <3>1 DEF NoneWhenStoped
    <3> QED BY <3>1, <3>2
  <2> QED BY <2>1, <2>2
<1> QED BY <1>4, <1>5, <1>6, <1>8, <1>9 DEF Consistent, pr2, ex2

(***************************************************************************)
(* Waiting for the zombies, which stops the services they registered for:  *)
(* a zombie that is info->pid was the only process that counted.           *)
(***************************************************************************)
Ended(pd, pr) == {s \in Services : pd[s] # None /\ pr[pd[s]] = "zombie"}

Reaped(pr) == [p \in Pids |-> IF pr[p] = "zombie" THEN "reaped" ELSE pr[p]]

Stoped(st, pd, pr) ==
    [s \in Services |-> IF s \in Ended(pd, pr) THEN "STOPED" ELSE st[s]]

LEMMA ReapKeepsConsistent ==
    ASSUME NEW st, NEW pd, NEW pr, NEW ex, NEW ak, Consistent(st, pd, pr, ex, ak)
    PROVE  Consistent(Stoped(st, pd, pr), pd, Reaped(pr), ex, ak)
<1> DEFINE st2 == Stoped(st, pd, pr)
           pr2 == Reaped(pr)
<1>1. /\ st \in [Services -> Statuses]
      /\ pd \in [Services -> Pids \cup {None}]
      /\ pr \in [Pids -> ProcStates]
      /\ ex \in [Pids -> Services \cup {None}]
      /\ ak \subseteq Pids
  BY DEF Consistent, Typed
<1>2. /\ HasService(pr, ex, ak)
      /\ PidHasRegistered(pd, pr, ex, ak)
      /\ OneCounts(pr, ex, ak)
      /\ NoneWhenStoped(st, pr, ex, ak)
  BY DEF Consistent
<1>3. /\ pr2 \in [Pids -> ProcStates]
      /\ \A p \in Pids : pr2[p] = IF pr[p] = "zombie" THEN "reaped" ELSE pr[p]
  BY <1>1 DEF Reaped, ProcStates
<1>4. /\ st2 \in [Services -> Statuses]
      /\ \A s \in Services : st2[s] = IF s \in Ended(pd, pr) THEN "STOPED" ELSE st[s]
  BY <1>1 DEF Stoped, Statuses
<1> HIDE DEF st2, pr2
<1>5. Typed(st2, pd, pr2, ex, ak)
  BY <1>1, <1>3, <1>4 DEF Typed
<1>6. HasService(pr2, ex, ak)
  BY <1>2, <1>3 DEF HasService
<1>7. PidHasRegistered(pd, pr2, ex, ak)
  <2> SUFFICES ASSUME NEW s \in Services, pd[s] # None
               PROVE  pr2[pd[s]] \notin {"unused", "starting"} /\ ex[pd[s]] = s /\ pd[s] \notin ak
    BY DEF PidHasRegistered
  <2>1. pd[s] \in Pids
    BY <1>1
  <2> QED BY <1>2, <1>3, <2>1 DEF PidHasRegistered
<1>8. \A p \in Pids : Counts(pr2, ak, p) => Counts(pr, ak, p)
  BY <1>3 DEF Counts
<1>9. OneCounts(pr2, ex, ak)
  BY <1>2, <1>8 DEF OneCounts
<1>10. NoneWhenStoped(st2, pr2, ex, ak)
  <2> SUFFICES ASSUME NEW p \in Pids, Counts(pr2, ak, p)
               PROVE  st2[ex[p]] # "STOPED"
    BY DEF NoneWhenStoped
  <2>1. Counts(pr, ak, p)
    BY <1>8
  <2>2. ex[p] \in Services
    BY <1>2, <2>1 DEF HasService, Counts
  <2>3. st[ex[p]] # "STOPED"
    BY <1>2, <2>1 DEF NoneWhenStoped
  <2>4. ASSUME ex[p] \in Ended(pd, pr)
        PROVE  FALSE
    <3> DEFINE z == pd[ex[p]]
    <3>1. z \in Pids /\ pr[z] = "zombie"
      BY <1>1, <2>2, <2>4 DEF Ended
    <3>2. ex[z] = ex[p] /\ z \notin ak
      BY <1>2, <2>2, <2>4 DEF Ended, PidHasRegistered
    <3>3. Counts(pr, ak, z)
      BY <3>1 DEF Counts
    <3>4. z = p
      BY <1>2, <2>1, <3>1, <3>2, <3>3 DEF OneCounts
    <3> QED BY <1>3, <3>1, <3>2, <3>4 DEF Counts
  <2> QED BY <1>4, <2>2, <2>3, <2>4
<1> QED BY <1>5, <1>6, <1>7, <1>9, <1>10 DEF Consistent, st2, pr2

(* check_children from any state in which the request has been handled. *)
LEMMA CheckKeepsConsistent ==
    ASSUME NEW st, NEW pd, NEW pr, NEW ex, Consistent(st, pd, pr, ex, asked'),
           CheckChildren(st, pd, pr, ex)
    PROVE  IInv'
<1> DEFINE again == Ended(pd, pr) \cap OnLoad
           st2 == Stoped(st, pd, pr)
<1>1. PICK new \in Forks(again, pr) :
        /\ status' = [s \in Services |->
                        IF s \in again THEN "STARTING"
                        ELSE IF s \in Ended(pd, pr) THEN "STOPED" ELSE st[s]]
        /\ pid' = pd
        /\ proc' = WithProc(Reaped(pr), new)
        /\ exec' = WithExec(ex, new)
  BY DEF CheckChildren, Ended, Reaped
<1>2. Consistent(st2, pd, Reaped(pr), ex, asked')
  BY ReapKeepsConsistent
<1>3. again \subseteq Services
  BY DEF Ended
<1>4. \A s \in again : st2[s] = "STOPED"
  BY <1>3 DEF Stoped
<1>5. new \in Forks(again, Reaped(pr))
  <2>1. {p \in Pids : pr[p] = "unused"} = {p \in Pids : Reaped(pr)[p] = "unused"}
    BY DEF Reaped
  <2> QED BY <1>1, <2>1 DEF Forks
<1>6. status' = [s \in Services |-> IF s \in again THEN "STARTING" ELSE st2[s]]
  BY <1>1 DEF Stoped
<1> HIDE DEF again, st2
<1>7. Consistent([s \in Services |-> IF s \in again THEN "STARTING" ELSE st2[s]], pd,
                 WithProc(Reaped(pr), new), WithExec(ex, new), asked')
  BY <1>2, <1>3, <1>4, <1>5, ForksKeepConsistent
<1>8. Consistent(status', pid', proc', exec', asked')
  BY <1>1, <1>6, <1>7
<1> QED BY <1>8 DEF IInv

-----------------------------------------------------------------------------
LEMMA InitConsistent == Init => IInv
<1> SUFFICES ASSUME Init PROVE IInv
  OBVIOUS
<1> DEFINE unused == [p \in Pids |-> "unused"]
           nobody == [p \in Pids |-> None]
           st == [s \in Services |-> "STOPED"]
<1>1. PICK new \in Forks(OnLoad, unused) :
        proc = WithProc(unused, new) /\ exec = WithExec(nobody, new)
  BY DEF Init
<1>2. Consistent(st, pid, unused, nobody, asked)
  <2>1. Typed(st, pid, unused, nobody, asked)
    BY DEF Init, Typed, Statuses, ProcStates
  <2>2. HasService(unused, nobody, asked)
    BY DEF Init, HasService
  <2>3. PidHasRegistered(pid, unused, nobody, asked)
    BY DEF Init, PidHasRegistered
  <2>4. \A p \in Pids : ~Counts(unused, asked, p)
    BY DEF Init, Counts
  <2> QED BY <2>1, <2>2, <2>3, <2>4 DEF Consistent, OneCounts, NoneWhenStoped
<1>3. OnLoad \subseteq Services
  BY ServicesAssumption
<1>4. status = [s \in Services |-> IF s \in OnLoad THEN "STARTING" ELSE st[s]]
  BY DEF Init
<1>5. \A s \in OnLoad : st[s] = "STOPED"
  BY <1>3
<1> HIDE DEF unused, nobody, st
<1>6. Consistent([s \in Services |-> IF s \in OnLoad THEN "STARTING" ELSE st[s]], pid,
                 WithProc(unused, new), WithExec(nobody, new), asked)
  BY <1>1, <1>2, <1>3, <1>5, ForksKeepConsistent
<1> QED BY <1>1, <1>4, <1>6 DEF IInv

LEMMA StartConsistent ==
    ASSUME IInv, NEW s \in Services, Start(s)
    PROVE  IInv'
<1>1. asked' = asked
  BY DEF Start
<1>2. CASE status[s] = "STOPED"
  <2>1. PICK new \in Forks({s}, proc) :
            CheckChildren([status EXCEPT ![s] = "STARTING"], pid,
                          WithProc(proc, new), WithExec(exec, new))
    BY <1>2 DEF Start
  <2>2. Consistent([t \in Services |-> IF t \in {s} THEN "STARTING" ELSE status[t]], pid,
                   WithProc(proc, new), WithExec(exec, new), asked)
    BY <1>2, <2>1, ForksKeepConsistent DEF IInv
  <2>3. [status EXCEPT ![s] = "STARTING"]
            = [t \in Services |-> IF t \in {s} THEN "STARTING" ELSE status[t]]
    BY DEF IInv, Consistent, Typed
  <2>4. Consistent([status EXCEPT ![s] = "STARTING"], pid,
                   WithProc(proc, new), WithExec(exec, new), asked')
    BY <1>1, <2>2, <2>3
  <2> QED BY <2>1, <2>4, CheckKeepsConsistent
<1>3. CASE status[s] # "STOPED"
  <2>1. CheckChildren(status, pid, proc, exec)
    BY <1>3 DEF Start
  <2> QED BY <1>1, <2>1, CheckKeepsConsistent DEF IInv
<1> QED BY <1>2, <1>3

LEMMA StopConsistent ==
    ASSUME IInv, NEW s \in Services, Stop(s)
    PROVE  IInv'
<1> DEFINE st == IF status[s] = "STARTED"
                 THEN [status EXCEPT ![s] = "STOPING"] ELSE status
<1>1. asked' = asked /\ CheckChildren(st, pid, proc, exec)
  BY DEF Stop
<1>2. st \in [Services -> Statuses]
  BY DEF IInv, Consistent, Typed, Statuses
<1>3. \A t \in Services : st[t] = "STOPED" => status[t] = "STOPED"
  BY DEF IInv, Consistent, Typed
<1> HIDE DEF st
<1>4. NoneWhenStoped(st, proc, exec, asked)
  <2> SUFFICES ASSUME NEW p \in Pids, Counts(proc, asked, p)
               PROVE  st[exec[p]] # "STOPED"
    BY DEF NoneWhenStoped
  <2>1. exec[p] \in Services
    BY DEF IInv, Consistent, HasService, Counts
  <2> QED BY <1>3, <2>1 DEF IInv, Consistent, NoneWhenStoped
<1>5. Consistent(st, pid, proc, exec, asked')
  BY <1>1, <1>2, <1>4 DEF IInv, Consistent, Typed
<1> QED BY <1>1, <1>5, CheckKeepsConsistent

LEMMA RegisterConsistent ==
    ASSUME IInv, NEW p \in Pids, Register(p)
    PROVE  IInv'
<1> DEFINE st == [status EXCEPT ![exec[p]] = "STARTED"]
           pd == [pid EXCEPT ![exec[p]] = p]
           pr == [proc EXCEPT ![p] = IF @ = "starting" THEN "registered" ELSE @]
           ak == asked \ {p}
<1>1. p \in asked /\ asked' = ak /\ CheckChildren(st, pd, pr, exec)
  BY DEF Register
<1>2. /\ status \in [Services -> Statuses]
      /\ pid \in [Services -> Pids \cup {None}]
      /\ proc \in [Pids -> ProcStates]
      /\ exec \in [Pids -> Services \cup {None}]
      /\ asked \subseteq Pids
  BY DEF IInv, Consistent, Typed
<1>3. /\ HasService(proc, exec, asked)
      /\ PidHasRegistered(pid, proc, exec, asked)
      /\ OneCounts(proc, exec, asked)
      /\ NoneWhenStoped(status, proc, exec, asked)
  BY DEF IInv, Consistent
<1>4. exec[p] \in Services /\ proc[p] # "unused"
  BY <1>1, <1>3 DEF HasService
<1>5. /\ st \in [Services -> Statuses]
      /\ \A s \in Services : st[s] = IF s = exec[p] THEN "STARTED" ELSE status[s]
  BY <1>2, <1>4 DEF Statuses
<1>6. /\ pd \in [Services -> Pids \cup {None}]
      /\ \A s \in Services : pd[s] = IF s = exec[p] THEN p ELSE pid[s]
  BY <1>2, <1>4
<1>7. /\ pr \in [Pids -> ProcStates]
      /\ \A q \in Pids : q # p => pr[q] = proc[q]
      /\ pr[p] \notin {"unused", "starting"}
      /\ pr[p] = "registered" => proc[p] \in {"starting", "registered"}
      /\ pr[p] # "registered" => pr[p] = proc[p]
  BY <1>2, <1>4 DEF ProcStates
<1>8. ak \subseteq asked /\ p \notin ak
  OBVIOUS
<1> HIDE DEF st, pd, pr, ak
<1>9. Typed(st, pd, pr, exec, ak)
  BY <1>2, <1>5, <1>6, <1>7, <1>8 DEF Typed
<1>10. HasService(pr, exec, ak)
  <2> SUFFICES ASSUME NEW q \in Pids, pr[q] # "unused" \/ q \in ak
               PROVE  pr[q] # "unused" /\ exec[q] \in Services
    BY DEF HasService
  <2>1. CASE q = p
    BY <1>4, <1>7, <2>1
  <2>2. CASE q # p
    BY <1>3, <1>7, <1>8, <2>2 DEF HasService
  <2> QED BY <2>1, <2>2
<1>11. PidHasRegistered(pd, pr, exec, ak)
  <2> SUFFICES ASSUME NEW s \in Services, pd[s] # None
               PROVE  pr[pd[s]] \notin {"unused", "starting"} /\ exec[pd[s]] = s /\ pd[s] \notin ak
    BY DEF PidHasRegistered
  <2>1. CASE s = exec[p]
    BY <1>6, <1>7, <1>8, <2>1
  <2>2. CASE s # exec[p]
    <3>1. pd[s] = pid[s] /\ pid[s] \in Pids
      BY <1>2, <1>6, <2>2
    <3>2. proc[pid[s]] \notin {"unused", "starting"} /\ exec[pid[s]] = s /\ pid[s] \notin asked
      BY <1>3, <3>1 DEF PidHasRegistered
    <3> QED BY <1>7, <1>8, <2>2, <3>1, <3>2
  <2> QED BY <2>1, <2>2
<1>12. \A q \in Pids : Counts(pr, ak, q) => Counts(proc, asked, q)
  BY <1>1, <1>7, <1>8 DEF Counts
<1>13. OneCounts(pr, exec, ak)
  BY <1>3, <1>12 DEF OneCounts
<1>14. NoneWhenStoped(st, pr, exec, ak)
  <2> SUFFICES ASSUME NEW q \in Pids, Counts(pr, ak, q)
               PROVE  st[exec[q]] # "STOPED"
    BY DEF NoneWhenStoped
  <2>1. Counts(proc, asked, q)
    BY <1>12
  <2>2. exec[q] \in Services
    BY <1>3, <2>1 DEF HasService, Counts
  <2> QED BY <1>3, <1>5, <2>1, <2>2 DEF NoneWhenStoped
<1>15. Consistent(st, pd, pr, exec, asked')
  BY <1>1, <1>9, <1>10, <1>11, <1>13, <1>14 DEF Consistent
<1> QED BY <1>1, <1>15, CheckKeepsConsistent

LEMMA AskConsistent ==
    ASSUME IInv, NEW p \in Pids, Ask(p)
    PROVE  IInv'
<1>1. /\ Typed(status, pid, proc, exec, asked)
      /\ HasService(proc, exec, asked)
      /\ PidHasRegistered(pid, proc, exec, asked)
      /\ OneCounts(proc, exec, asked)
      /\ NoneWhenStoped(status, proc, exec, asked)
  BY DEF IInv, Consistent
<1>2. /\ proc[p] = "starting" /\ asked' = asked \cup {p}
      /\ status' = status /\ pid' = pid /\ proc' = proc /\ exec' = exec
  BY DEF Ask
<1>3. Typed(status, pid, proc, exec, asked')
  BY <1>1, <1>2 DEF Typed
<1>4. HasService(proc, exec, asked')
  BY <1>1, <1>2 DEF HasService
<1>5. PidHasRegistered(pid, proc, exec, asked')
  BY <1>1, <1>2 DEF PidHasRegistered
<1>6. \A q \in Pids : Counts(proc, asked', q) => Counts(proc, asked, q)
  BY <1>2 DEF Counts
<1>7. OneCounts(proc, exec, asked') /\ NoneWhenStoped(status, proc, exec, asked')
  BY <1>1, <1>6 DEF OneCounts, NoneWhenStoped
<1>8. Consistent(status, pid, proc, exec, asked')
  BY <1>3, <1>4, <1>5, <1>7 DEF Consistent
<1> QED BY <1>2, <1>8 DEF IInv

LEMMA DieConsistent ==
    ASSUME IInv, NEW p \in Pids, Die(p)
    PROVE  IInv'
<1>1. /\ Typed(status, pid, proc, exec, asked)
      /\ HasService(proc, exec, asked)
      /\ PidHasRegistered(pid, proc, exec, asked)
      /\ OneCounts(proc, exec, asked)
      /\ NoneWhenStoped(status, proc, exec, asked)
  BY DEF IInv, Consistent
<1>2. /\ proc[p] \in {"starting", "registered"}
      /\ proc' = [proc EXCEPT ![p] = "zombie"]
      /\ status' = status /\ pid' = pid /\ exec' = exec /\ asked' = asked
  BY DEF Die, Alive
<1>3. /\ proc' \in [Pids -> ProcStates]
      /\ \A q \in Pids : proc'[q] = IF q = p THEN "zombie" ELSE proc[q]
  BY <1>1, <1>2 DEF Typed, ProcStates
<1>4. Typed(status, pid, proc', exec, asked)
  BY <1>1, <1>3 DEF Typed
<1>5. HasService(proc', exec, asked)
  BY <1>1, <1>2, <1>3 DEF HasService
<1>6. PidHasRegistered(pid, proc', exec, asked)
  <2> SUFFICES ASSUME NEW s \in Services, pid[s] # None
               PROVE  proc'[pid[s]] \notin {"unused", "starting"} /\ exec[pid[s]] = s /\ pid[s] \notin asked
    BY DEF PidHasRegistered
  <2>1. pid[s] \in Pids
    BY <1>1 DEF Typed
  <2> QED BY <1>1, <1>3, <2>1 DEF PidHasRegistered
<1>7. \A q \in Pids : Counts(proc', asked, q) => Counts(proc, asked, q)
  BY <1>2, <1>3 DEF Counts
<1>8. OneCounts(proc', exec, asked) /\ NoneWhenStoped(status, proc', exec, asked)
  BY <1>1, <1>7 DEF OneCounts, NoneWhenStoped
<1>9. Consistent(status, pid, proc', exec, asked)
  BY <1>4, <1>5, <1>6, <1>8 DEF Consistent
<1> QED BY <1>2, <1>9 DEF IInv

LEMMA NextConsistent == IInv /\ [Next]_vars => IInv'
<1> SUFFICES ASSUME IInv, [Next]_vars PROVE IInv'
  OBVIOUS
<1>1. CASE Check
  <2>1. asked' = asked /\ CheckChildren(status, pid, proc, exec)
    BY <1>1 DEF Check
  <2> QED BY <2>1, CheckKeepsConsistent DEF IInv
<1>2. ASSUME NEW s \in Services, Start(s) \/ Stop(s) PROVE IInv'
  BY <1>2, StartConsistent, StopConsistent
<1>3. ASSUME NEW p \in Pids, Register(p) \/ Ask(p) \/ Die(p) PROVE IInv'
  BY <1>3, RegisterConsistent, AskConsistent, DieConsistent
<1>4. CASE UNCHANGED vars
  BY <1>4 DEF vars, IInv
<1> QED BY <1>1, <1>2, <1>3, <1>4 DEF Next

LEMMA AlwaysConsistent == Spec => []IInv
<1> QED BY InitConsistent, NextConsistent, PTL DEF Spec

-----------------------------------------------------------------------------
(* The variables have the types that TypeOK gives them. *)
THEOREM ManagerTypes == Spec => []TypeOK
<1>1. IInv => TypeOK
  BY DEF IInv, Consistent, Typed, TypeOK
<1> QED BY <1>1, AlwaysConsistent, PTL

(***************************************************************************)
(* However many services and processes there are, and whatever the order   *)
(* of starts, stops, deaths and late REGISTERs: a service never has two    *)
(* processes.                                                              *)
(***************************************************************************)
THEOREM OneProcessEach == Spec => []SingleInstance
<1>1. IInv => SingleInstance
  BY DEF IInv, Consistent, OneCounts, Counts, Alive, SingleInstance
<1> QED BY <1>1, AlwaysConsistent, PTL

(* A service that counts as stopped has no process. *)
THEOREM StopedHasNone == Spec => []StopedIsGone
<1>1. IInv => StopedIsGone
  BY DEF IInv, Consistent, NoneWhenStoped, Counts, Alive, StopedIsGone
<1> QED BY <1>1, AlwaysConsistent, PTL

=============================================================================
