------------------------------- MODULE Config -------------------------------
(***************************************************************************)
(* What fconf promises its clients (services/fconf/fconf.h): one map from  *)
(* keys to values, shared by every client. A call takes effect once, at    *)
(* one point between the moment it is made and the moment it returns, and  *)
(* returns what the map then held. A call may fail only because the        *)
(* service refuses it, or because the service died; a service that dies    *)
(* takes the whole map with it.                                            *)
(*                                                                         *)
(* Nothing here knows of sockets, notifications, trees or files:           *)
(* FConfService implements this specification.                             *)
(***************************************************************************)
CONSTANTS
    Clients,    \* the processes that use the configuration
    Files,      \* first components of a path: the name of a .cnf file
    Names,      \* second components of a path
    Values,     \* what a key may be set to
    None,       \* no value
    NoCall      \* the client is not in a call

VARIABLES
    mem,        \* the value of each key
    call,       \* the call each client is in
    phase,      \* how far that call has come
    result,     \* what a call that has taken effect will return
    got         \* what a call that has just returned gave its caller

vars == <<mem, call, phase, result, got>>

Keys == Files \X Names

Calls ==
    [op : {"set"}, path : Keys, value : Values]
        \cup [op : {"get"}, path : Keys]
        \cup [op : {"remove"}, path : Keys \cup {<<f>> : f \in Files}]
        \cup [op : {"lock", "unlock"}]

Results == [ok : BOOLEAN, value : Values \cup {None}]

Ok == [ok |-> TRUE, value |-> None]
Refused == [ok |-> FALSE, value |-> None]

(* The keys that a path covers: itself, or every key of the file it names. *)
Covered(path) == {k \in Keys : k = path \/ <<k[1]>> = path}

Cleared(m, path) == [k \in Keys |-> IF k \in Covered(path) THEN None ELSE m[k]]

(***************************************************************************)
(* What a call may do to the map, and what it may return. A file that has  *)
(* lost all its keys may or may not still be there to be removed. Locks    *)
(* exclude nobody: lock is accepted and unlock is refused.                 *)
(***************************************************************************)
Effect(c, r) ==
    \/ /\ c.op = "set"
       /\ mem' = [mem EXCEPT ![c.path] = c.value]
       /\ r = Ok
    \/ /\ c.op = "get"
       /\ mem' = mem
       /\ r = IF mem[c.path] = None THEN Refused
              ELSE [ok |-> TRUE, value |-> mem[c.path]]
    \/ /\ c.op = "remove"
       /\ mem' = Cleared(mem, c.path)
       /\ r \in {Ok, Refused}
       /\ (\E k \in Covered(c.path) : mem[k] # None) => r = Ok
       /\ c.path \in Keys /\ mem[c.path] = None => r = Refused
    \/ /\ c.op = "lock"
       /\ mem' = mem
       /\ r = Ok
    \/ /\ c.op = "unlock"
       /\ mem' = mem
       /\ r = Refused

Init ==
    /\ mem = [k \in Keys |-> None]
    /\ call = [c \in Clients |-> NoCall]
    /\ phase = [c \in Clients |-> "none"]
    /\ result = [c \in Clients |-> Refused]
    /\ got = [c \in Clients |-> Refused]

Invoke(c, r) ==
    /\ phase[c] = "none"
    /\ call' = [call EXCEPT ![c] = r]
    /\ phase' = [phase EXCEPT ![c] = "called"]
    /\ got' = [got EXCEPT ![c] = Refused]
    /\ UNCHANGED <<mem, result>>

(* The call takes effect. *)
Commit(c) ==
    \E r \in Results :
        /\ phase[c] = "called"
        /\ Effect(call[c], r)
        /\ phase' = [phase EXCEPT ![c] = "done"]
        /\ result' = [result EXCEPT ![c] = r]
        /\ UNCHANGED <<call, got>>

Return(c) ==
    /\ phase[c] = "done"
    /\ call' = [call EXCEPT ![c] = NoCall]
    /\ phase' = [phase EXCEPT ![c] = "none"]
    /\ got' = [got EXCEPT ![c] = result[c]]
    /\ result' = [result EXCEPT ![c] = Refused]
    /\ UNCHANGED mem

(* The call fails because the service died before it answered. *)
Fail(c) ==
    /\ phase[c] = "lost"
    /\ call' = [call EXCEPT ![c] = NoCall]
    /\ phase' = [phase EXCEPT ![c] = "none"]
    /\ got' = [got EXCEPT ![c] = Refused]
    /\ UNCHANGED <<mem, result>>

(* The caller goes on, and forgets what its last call gave. *)
GoOn(c) ==
    /\ phase[c] = "none"
    /\ got' = [got EXCEPT ![c] = Refused]
    /\ UNCHANGED <<mem, call, phase, result>>

(***************************************************************************)
(* A client that is gone is not told what became of its call; the call     *)
(* itself may still take effect.                                           *)
(***************************************************************************)
Forget(c) ==
    /\ call' = [call EXCEPT ![c] = NoCall]
    /\ phase' = [phase EXCEPT ![c] = "none"]
    /\ result' = [result EXCEPT ![c] = Refused]
    /\ got' = [got EXCEPT ![c] = Refused]
    /\ UNCHANGED mem

CommitForgotten(c) ==
    /\ phase[c] = "called"
    /\ \E r \in Results : Effect(call[c], r)
    /\ call' = [call EXCEPT ![c] = NoCall]
    /\ phase' = [phase EXCEPT ![c] = "none"]
    /\ UNCHANGED <<result, got>>

(***************************************************************************)
(* The service dies. A call that had not taken effect is lost; of one that *)
(* had, the answer may be lost.                                            *)
(***************************************************************************)
Crash ==
    \E answered \in SUBSET {c \in Clients : phase[c] = "done"},
       orphans \in SUBSET Clients :
        /\ mem' = [k \in Keys |-> None]
        /\ call' = [c \in Clients |-> IF c \in orphans THEN NoCall ELSE call[c]]
        /\ phase' = [c \in Clients |->
                        IF c \in orphans \/ phase[c] = "none" THEN "none"
                        ELSE IF c \in answered THEN "done" ELSE "lost"]
        /\ result' = [c \in Clients |->
                        IF c \in answered \ orphans THEN result[c] ELSE Refused]
        /\ UNCHANGED got

(* A call made to a service that is dead fails without reaching anyone. *)
InvokeDead(c, r) ==
    /\ phase[c] = "none"
    /\ call' = [call EXCEPT ![c] = r]
    /\ phase' = [phase EXCEPT ![c] = "lost"]
    /\ got' = [got EXCEPT ![c] = Refused]
    /\ UNCHANGED <<mem, result>>

Next ==
    \/ \E c \in Clients :
        \/ \E r \in Calls : Invoke(c, r) \/ InvokeDead(c, r)
        \/ Commit(c)
        \/ CommitForgotten(c)
        \/ Return(c)
        \/ Fail(c)
        \/ GoOn(c)
        \/ Forget(c)
    \/ Crash

Spec == Init /\ [][Next]_vars

=============================================================================
