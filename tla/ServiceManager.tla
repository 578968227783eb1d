--------------------------- MODULE ServiceManager ---------------------------
(***************************************************************************)
(* The service manager of fbus: a daemon that knows the services by name,  *)
(* forks their processes, hears of them when they register, and reaps them *)
(* (fbus_service_manager_daemon.c, fbus_service_infos.c). Its requests     *)
(* come from the clients of services (fbus_proxy_create starts the service *)
(* that it wants) and from the services (fbus_service_register).           *)
(*                                                                         *)
(* The daemon is one thread: a request is served to its end, and each ends *)
(* with check_children, which a timer calls as well. The processes run     *)
(* beside it and may die in any state; the daemon learns of a death only   *)
(* from waitpid, and a request may be read after its sender has died.      *)
(*                                                                         *)
(* Every process of a service is one that the daemon forked, its exec does *)
(* not fail, and process ids are not used again. fork may fail: nobody     *)
(* looks at what process_start returns. A service that ends does not       *)
(* unregister: fbus_service_unregister compares a null pointer and dies    *)
(* there.                                                                  *)
(***************************************************************************)
EXTENDS Naturals

CONSTANTS
    Services,   \* the names in the .service files
    OnLoad,     \* those with start_type "on_load"
    Pids,       \* process ids; bound: how many processes there will be
    None        \* no process, no service

ASSUME ServicesAssumption ==
    OnLoad \subseteq Services /\ None \notin Pids /\ None \notin Services

VARIABLES
    status,     \* info->status of each service
    pid,        \* info->pid: the process that registered last
    proc,       \* the state of each process, see ProcStates
    exec,       \* the service that a process was forked for
    asked       \* the processes whose REGISTER the daemon has not read yet

vars == <<status, pid, proc, exec, asked>>

(* FBusServiceStatus, with the spelling of the code. *)
Statuses == {"STOPED", "STOPING", "STARTED", "STARTING"}

(* A zombie is dead and has not been waited for. *)
ProcStates == {"unused", "starting", "registered", "zombie", "reaped"}

Alive(p) == proc[p] \in {"starting", "registered"}

(***************************************************************************)
(* process_start for each service in T: a process of its own among those   *)
(* unused in pr, or none where fork fails.                                 *)
(***************************************************************************)
Forks(T, pr) ==
    UNION {{new \in [S -> {p \in Pids : pr[p] = "unused"}] :
                \A s, t \in S : s # t => new[s] # new[t]} : S \in SUBSET T}

Forked(new, p) == \E s \in DOMAIN new : new[s] = p

WithProc(pr, new) == [p \in Pids |-> IF Forked(new, p) THEN "starting" ELSE pr[p]]

WithExec(ex, new) ==
    [p \in Pids |-> IF Forked(new, p) THEN CHOOSE s \in DOMAIN new : new[s] = p
                    ELSE ex[p]]

-----------------------------------------------------------------------------
(***************************************************************************)
(* fbus_service_service_manager_create: the services that start on load    *)
(* are forked.                                                             *)
(***************************************************************************)
Init ==
    /\ status = [s \in Services |-> IF s \in OnLoad THEN "STARTING" ELSE "STOPED"]
    /\ pid = [s \in Services |-> None]
    /\ LET unused == [p \in Pids |-> "unused"]
       IN  \E new \in Forks(OnLoad, unused) :
            /\ proc = WithProc(unused, new)
            /\ exec = WithExec([p \in Pids |-> None], new)
    /\ asked = {}

\* Mutant: a process that has registered is not waited for.
CheckChildrenMisses(st, pd, pr, ex) ==
    /\ status' = st
    /\ pid' = pd
    /\ proc' = [p \in Pids |->
                    IF pr[p] = "zombie" /\ \A s \in Services : pd[s] # p
                    THEN "reaped" ELSE pr[p]]
    /\ exec' = ex

(***************************************************************************)
(* fbus_service_service_manager_check_children, from a state in which the  *)
(* request has been handled: every zombie is waited for. The service whose *)
(* info has its pid is stopped and, if it is one that starts on load       *)
(* (start_type is compared with FBUS_SERVICE_RUN_FOREVER, which is the     *)
(* number of FBUS_SERVICE_START_ON_LOAD), forked again. info->pid stays.   *)
(***************************************************************************)
CheckChildren(st, pd, pr, ex) ==
    LET ended == {s \in Services : pd[s] # None /\ pr[pd[s]] = "zombie"}
        again == ended \cap OnLoad
    IN  \E new \in Forks(again, pr) :
        /\ status' = [s \in Services |->
                        IF s \in again THEN "STARTING"
                        ELSE IF s \in ended THEN "STOPED" ELSE st[s]]
        /\ pid' = pd
        /\ proc' = WithProc([p \in Pids |->
                                IF pr[p] = "zombie" THEN "reaped" ELSE pr[p]], new)
        /\ exec' = WithExec(ex, new)

(* The timer, and the requests that only read: get, get_nr and query. *)
Check ==
    /\ CheckChildren(status, pid, proc, exec)
    /\ UNCHANGED asked

\* Mutant: a service that is being stopped is started.
StartWhileStoping(s) ==
    /\ IF status[s] \in {"STOPED", "STOPING"}
       THEN \E new \in Forks({s}, proc) :
                CheckChildren([status EXCEPT ![s] = "STARTING"], pid,
                              WithProc(proc, new), WithExec(exec, new))
       ELSE CheckChildren(status, pid, proc, exec)
    /\ UNCHANGED asked

(* A request to start: only a service that is stopped is forked. *)
Start(s) ==
    /\ IF status[s] = "STOPED"
       THEN \E new \in Forks({s}, proc) :
                CheckChildren([status EXCEPT ![s] = "STARTING"], pid,
                              WithProc(proc, new), WithExec(exec, new))
       ELSE CheckChildren(status, pid, proc, exec)
    /\ UNCHANGED asked

\* Mutant: a service that is stopped counts as stopped at once.
StopAtOnce(s) ==
    /\ CheckChildren(IF status[s] = "STARTED"
                     THEN [status EXCEPT ![s] = "STOPED"] ELSE status,
                     pid, proc, exec)
    /\ UNCHANGED asked

(* A request to stop: SIGTERM to a service that has registered; see Die. *)
Stop(s) ==
    /\ CheckChildren(IF status[s] = "STARTED"
                     THEN [status EXCEPT ![s] = "STOPING"] ELSE status,
                     pid, proc, exec)
    /\ UNCHANGED asked

(* The daemon reads the REGISTER of a process, which may be dead by now. *)
Register(p) ==
    /\ p \in asked
    /\ CheckChildren([status EXCEPT ![exec[p]] = "STARTED"],
                     [pid EXCEPT ![exec[p]] = p],
                     [proc EXCEPT ![p] = IF @ = "starting" THEN "registered" ELSE @],
                     exec)
    /\ asked' = asked \ {p}

(* fbus_service_register in the process: the request is sent. *)
Ask(p) ==
    /\ proc[p] = "starting"
    /\ p \notin asked
    /\ asked' = asked \cup {p}
    /\ UNCHANGED <<status, pid, proc, exec>>

(* A process dies, by itself or by the signal of Stop. *)
Die(p) ==
    /\ Alive(p)
    /\ proc' = [proc EXCEPT ![p] = "zombie"]
    /\ UNCHANGED <<status, pid, exec, asked>>

(* SIGTERM has been sent to the process. *)
Killed(p) == \E s \in Services : status[s] = "STOPING" /\ pid[s] = p

Next ==
    \/ Check
    \/ \E s \in Services : Start(s) \/ Stop(s)
    \/ \E p \in Pids : Register(p) \/ Ask(p) \/ Die(p)

Spec == Init /\ [][Next]_vars

(***************************************************************************)
(* The timer of the daemon goes on, and a process that was sent SIGTERM    *)
(* ends. Nothing is assumed of other processes.                            *)
(***************************************************************************)
Fairness ==
    /\ WF_vars(Check)
    /\ \A p \in Pids : WF_vars(Killed(p) /\ Die(p))

FairSpec == Spec /\ Fairness

-----------------------------------------------------------------------------
(* Types. *)
TypeOK ==
    /\ status \in [Services -> Statuses]
    /\ pid \in [Services -> Pids \cup {None}]
    /\ proc \in [Pids -> ProcStates]
    /\ exec \in [Pids -> Services \cup {None}]
    /\ asked \subseteq Pids

(***************************************************************************)
(* Never two processes of one service, which would share its port and,     *)
(* for fconf, its files: whatever is started, stopped and dies, and        *)
(* however late the daemon hears of it.                                    *)
(***************************************************************************)
SingleInstance ==
    \A p, q \in Pids : Alive(p) /\ Alive(q) /\ exec[p] = exec[q] => p = q

(* A service counts as stopped only when its process is gone. *)
StopedIsGone ==
    \A p \in Pids : Alive(p) => status[exec[p]] # "STOPED"

(***************************************************************************)
(* The end of a registered process is noticed: a service that is stopped,  *)
(* or whose process has died after it registered, comes to STOPED, or is   *)
(* being started again.                                                    *)
(***************************************************************************)
DeathIsNoticed ==
    \A s \in Services : \A p \in Pids :
        (/\ status[s] \in {"STARTED", "STOPING"}
         /\ pid[s] = p
         /\ proc[p] = "zombie" \/ (status[s] = "STOPING" /\ Alive(p)))
            ~> (status[s] \in {"STOPED", "STARTING"})

=============================================================================
