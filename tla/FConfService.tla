---------------------------- MODULE FConfService ----------------------------
(***************************************************************************)
(* The configuration service and its clients over fbus.                    *)
(*                                                                         *)
(* A client is a process with a main loop: a pass selects, runs handlers,  *)
(* and visits the source of the proxy. A handler makes a call by writing a *)
(* request and reading frames until the answer comes (fbus_proxy.c); a     *)
(* change that somebody makes meanwhile is read there, otherwise by the    *)
(* source of the proxy (fbus_source_proxy.c). The service is one thread:   *)
(* it accepts, reads a request, changes the tree, pushes the change to     *)
(* every client and answers (fbus_source_service.c, fbus_service.c,        *)
(* fconf_service.c), and a timer saves what was modified (fconf_xml.c).    *)
(* The service may die at any moment and be started again; a client may    *)
(* exit at any moment.                                                     *)
(*                                                                         *)
(* A frame is read and written as a whole: fbus_stream_read_n waits for    *)
(* the rest of it. size_t is taken to be as wide as int (ILP32), so that   *)
(* the size fbus_service_notify writes is the size the proxy reads.        *)
(***************************************************************************)
EXTENDS FConfXml, FiniteSets

CONSTANTS
    Clients,
    Listeners,  \* the clients that register an on_changed listener
    Exiting,    \* bound: the clients whose process may end
    Files,      \* names of roots: a root is saved to the file of its name
    Names,      \* names of the nodes below a root
    Values,
    Requests,   \* bound: the calls that the clients make
    NoCall,     \* a client that is not in a call
    MaxSlots,   \* FBUS_SERVICE_MAX_CLIENTS
    Capacity,   \* frames a socket buffer takes before a send blocks
    MaxCrashes  \* bound: how often the service may die

Keys == Files \X Names

(* fconf_set, fconf_get, fconf_remove, fconf_lock, fconf_unlock. *)
Calls ==
    [op : {"set"}, path : Keys, value : Values]
        \cup [op : {"get"}, path : Keys]
        \cup [op : {"remove"}, path : Keys \cup {<<f>> : f \in Files}]
        \cup [op : {"lock", "unlock"}]

ASSUME ClientsAssumption ==
    /\ Listeners \subseteq Clients
    /\ Exiting \subseteq Clients
    /\ Requests \subseteq Calls
    /\ NoCall \notin Calls
    /\ None \notin Values
    /\ MaxSlots \in Nat
    /\ Capacity \in Nat \ {0}
    /\ MaxCrashes \in Nat

(* The name of a root that was loaded is no name that an xpath can hold. *)
ASSUME DelimiterAssumption == \A f \in Files : FileNode(f) \notin Files

VARIABLES
    \* the service process
    running,    \* it is there, and listens
    tree,       \* priv->root of the FConf
    marked,     \* the roots with NODE_ATTR_MODIFIED
    modified,   \* priv->modified
    armed,      \* the save timer is in the main loop (its ref is 2)
    slots,      \* the clients in clients[] of the service
    \* the files
    disk,       \* what each .cnf file holds; EmptyTree: no file, or an empty one
    unopened,   \* the marked roots whose file the last save could not open
    crashes,
    \* each client
    conn,       \* its connection, see Connections
    at,         \* where its thread is, see Places
    ready,      \* the fd of the proxy was set by the select of this pass
    listener,   \* proxy->listener is set, and the source is in the loop
    call,       \* the call it is in
    sent,       \* the request is in the stream, unread by the service
    down,       \* the frames in the stream from the service
    ret,        \* what a call that has just returned gave to its handler
    seen        \* what the changes it was told of amount to

service == <<running, tree, marked, modified, armed, slots>>
files == <<disk, unopened>>
client == <<conn, at, ready, listener, call, sent, down, ret, seen>>
vars == <<service, files, crashes, client>>

-----------------------------------------------------------------------------
(* Frames.                                                                 *)

RET_OK == 0
RET_FAIL == 1

(* FCONF_REQ: the first word of a request. *)
Code(r) ==
    CASE r.op = "lock" -> 0
      [] r.op = "unlock" -> 1
      [] r.op = "remove" -> 2
      [] r.op = "set" -> 3
      [] r.op = "get" -> 4

Push(trigger, type, path, value) ==
    [kind |-> "push", trigger |-> trigger, type |-> type, path |-> path,
     value |-> value]

Normal(code, value) == [kind |-> "normal", ret |-> code, value |-> value]

Failed == Normal(RET_FAIL, None)

(* What a reader of the tree finds at each key. *)
Mem == [k \in Keys |-> IF Find(tree, k) THEN tree[k] ELSE None]

NoMap == [k \in Keys |-> None]

(* What the map m of an application becomes when on_changed is called. *)
Changed(m, push) ==
    [k \in Keys |->
        IF push.type = "remove" /\ IsBelow(k, push.path) THEN None
        ELSE IF push.type # "remove" /\ k = push.path THEN push.value
        ELSE m[k]]

Connections == {"none", "pending", "open", "half", "eof"}
Places == {"off", "handler", "call", "read"}

Init ==
    /\ running = TRUE
    /\ tree = EmptyTree
    /\ marked = {}
    /\ modified = FALSE
    /\ armed = FALSE
    /\ slots = {}
    /\ disk = [f \in Files |-> EmptyTree]
    /\ unopened = {}
    /\ crashes = 0
    /\ conn = [c \in Clients |-> "none"]
    /\ at = [c \in Clients |-> "off"]
    /\ ready = [c \in Clients |-> FALSE]
    /\ listener = [c \in Clients |-> FALSE]
    /\ call = [c \in Clients |-> NoCall]
    /\ sent = [c \in Clients |-> FALSE]
    /\ down = [c \in Clients |-> <<>>]
    /\ ret = [c \in Clients |-> Failed]
    /\ seen = [c \in Clients |-> NoMap]

-----------------------------------------------------------------------------
(* The client.                                                             *)

(***************************************************************************)
(* fconf_client_create, and fconf_reg_changed_notify for a client that     *)
(* listens: a process that starts, or one whose proxy has lost its source  *)
(* with the service. Without a service the connect fails and there is no   *)
(* proxy. A client that still has its source cannot free the proxy.        *)
(***************************************************************************)
Connect(c) ==
    /\ running
    /\ \/ at[c] = "off" /\ conn[c] = "none"
       \/ at[c] = "handler" /\ conn[c] = "eof" /\ ~listener[c]
    /\ at' = [at EXCEPT ![c] = "handler"]
    /\ conn' = [conn EXCEPT ![c] = "pending"]
    /\ listener' = [listener EXCEPT ![c] = c \in Listeners]
    /\ down' = [down EXCEPT ![c] = <<>>]
    /\ ret' = [ret EXCEPT ![c] = Failed]
    /\ UNCHANGED <<service, files, crashes, ready, call, sent, seen>>

\* Mutant: the fd of the proxy is not among those that select watches.
NextPassDeaf(c) ==
    /\ at[c] = "handler"
    /\ ret' = [ret EXCEPT ![c] = Failed]
    /\ UNCHANGED <<service, files, crashes, conn, at, ready, listener, call, sent, down, seen>>

(***************************************************************************)
(* The handlers of a pass have run and the loop comes to the source of the *)
(* proxy. It is dispatched if select had found its fd readable, though a   *)
(* call of a handler may have read everything since. Otherwise the next    *)
(* pass selects; other sources wake it as well.                            *)
(***************************************************************************)
NextPass(c) ==
    /\ at[c] = "handler"
    /\ IF ready[c] /\ listener[c]
       THEN at' = [at EXCEPT ![c] = "read"] /\ UNCHANGED ready
       ELSE /\ ready' = [ready EXCEPT ![c] =
                            listener[c] /\ (down[c] # <<>> \/ conn[c] = "eof")]
            /\ UNCHANGED at
    /\ ret' = [ret EXCEPT ![c] = Failed]
    /\ UNCHANGED <<service, files, crashes, conn, listener, call, sent, down, seen>>

(* fbus_proxy_send_request, from a handler or from the listener. *)
Call(c, r) ==
    /\ at[c] = "handler"
    /\ at' = [at EXCEPT ![c] = "call"]
    /\ call' = [call EXCEPT ![c] = r]
    /\ sent' = [sent EXCEPT ![c] = conn[c] # "eof"]
    /\ ret' = [ret EXCEPT ![c] = Failed]
    /\ UNCHANGED <<service, files, crashes, conn, ready, listener, down, seen>>

(***************************************************************************)
(* The listener of the application is called, or nobody is. seen follows   *)
(* the connection that the client is on.                                   *)
(***************************************************************************)
Notify(c, push) ==
    seen' = IF listener[c] /\ conn[c] = "open"
            THEN [seen EXCEPT ![c] = Changed(@, push)] ELSE seen

\* Mutant: the first frame is taken for the answer.
ReceiveOnce(c) ==
    /\ at[c] = "call"
    /\ down[c] # <<>>
    /\ down' = [down EXCEPT ![c] = Tail(@)]
    /\ at' = [at EXCEPT ![c] = "handler"]
    /\ call' = [call EXCEPT ![c] = NoCall]
    /\ UNCHANGED <<service, files, crashes, conn, ready, listener, sent, ret, seen>>

(* One round of fbus_proxy_recv_response. *)
Receive(c) ==
    /\ at[c] = "call"
    /\ down[c] # <<>>
    /\ down' = [down EXCEPT ![c] = Tail(@)]
    /\ \/ /\ Head(down[c]).kind = "push"
          /\ Notify(c, Head(down[c]))
          /\ UNCHANGED <<at, call, ret>>
       \/ /\ Head(down[c]).kind = "normal"
          /\ ret' = [ret EXCEPT ![c] = Head(down[c])]
          /\ at' = [at EXCEPT ![c] = "handler"]
          /\ call' = [call EXCEPT ![c] = NoCall]
          /\ UNCHANGED seen
    /\ UNCHANGED <<service, files, crashes, conn, ready, listener, sent>>

\* Mutant: the read that comes back short counts as an answer.
ReceiveEofOk(c) ==
    /\ at[c] = "call"
    /\ down[c] = <<>>
    /\ conn[c] = "eof"
    /\ ret' = [ret EXCEPT ![c] = Normal(RET_OK, None)]
    /\ at' = [at EXCEPT ![c] = "handler"]
    /\ call' = [call EXCEPT ![c] = NoCall]
    /\ UNCHANGED <<service, files, crashes, conn, ready, listener, sent, down, seen>>

(* The read comes back short: the service is gone. *)
ReceiveEof(c) ==
    /\ at[c] = "call"
    /\ down[c] = <<>>
    /\ conn[c] = "eof"
    /\ at' = [at EXCEPT ![c] = "handler"]
    /\ call' = [call EXCEPT ![c] = NoCall]
    /\ UNCHANGED <<service, files, crashes, conn, ready, listener, sent, down, ret, seen>>

(***************************************************************************)
(* fbus_source_proxy_dispatch. When the listener returns, and with it the  *)
(* dispatch, the pass goes on. A frame that is not a push makes it return  *)
(* RET_FAIL: the loop removes the source, and its destroy function clears  *)
(* the listener of the proxy.                                              *)
(***************************************************************************)
Read(c) ==
    /\ at[c] = "read"
    /\ down[c] # <<>>
    /\ down' = [down EXCEPT ![c] = Tail(@)]
    /\ at' = [at EXCEPT ![c] = "handler"]
    /\ ready' = [ready EXCEPT ![c] = FALSE]
    /\ \/ /\ Head(down[c]).kind = "push"
          /\ Notify(c, Head(down[c]))
          /\ UNCHANGED listener
       \/ /\ Head(down[c]).kind = "normal"
          /\ listener' = [listener EXCEPT ![c] = FALSE]
          /\ UNCHANGED seen
    /\ UNCHANGED <<service, files, crashes, conn, call, sent, ret>>

(* The dispatch reads the end of the stream: as above, RET_FAIL. *)
ReadEof(c) ==
    /\ at[c] = "read"
    /\ down[c] = <<>>
    /\ conn[c] = "eof"
    /\ listener' = [listener EXCEPT ![c] = FALSE]
    /\ at' = [at EXCEPT ![c] = "handler"]
    /\ ready' = [ready EXCEPT ![c] = FALSE]
    /\ UNCHANGED <<service, files, crashes, conn, call, sent, down, ret, seen>>

(***************************************************************************)
(* The client process ends, or a SIGPIPE of a send to a dead service ends  *)
(* it. A request that is in the stream will still be read by the service.  *)
(***************************************************************************)
Exit(c) ==
    /\ c \in Exiting
    /\ at[c] # "off"
    /\ at' = [at EXCEPT ![c] = "off"]
    /\ conn' = [conn EXCEPT ![c] =
                    IF @ \in {"pending", "open"} THEN "half" ELSE "none"]
    /\ ready' = [ready EXCEPT ![c] = FALSE]
    /\ listener' = [listener EXCEPT ![c] = FALSE]
    /\ call' = [call EXCEPT ![c] = IF sent[c] THEN @ ELSE NoCall]
    /\ down' = [down EXCEPT ![c] = <<>>]
    /\ ret' = [ret EXCEPT ![c] = Failed]
    /\ seen' = [seen EXCEPT ![c] = NoMap]
    /\ UNCHANGED <<service, files, crashes, sent>>

-----------------------------------------------------------------------------
(* The service.                                                            *)

(***************************************************************************)
(* fbus_source_listen_dispatch, fbus_source_service_create and             *)
(* fbus_service_on_client_connect: the client gets a slot while there is   *)
(* one. Without a slot it is served all the same, and never notified.      *)
(***************************************************************************)
Accept(c) ==
    /\ running
    /\ conn[c] = "pending"
    /\ conn' = [conn EXCEPT ![c] = "open"]
    /\ slots' = IF Cardinality(slots) < MaxSlots THEN slots \cup {c} ELSE slots
    /\ seen' = IF listener[c] THEN [seen EXCEPT ![c] = Mem] ELSE seen
    /\ UNCHANGED <<running, tree, marked, modified, armed, files, crashes, at, ready,
                   listener, call, sent, down, ret>>

\* Mutant: the answer is written before the listeners are told.
FramesAnswerFirst(c, d, pushes, answer) ==
    IF conn[d] # "open" THEN <<>>
    ELSE (IF d = c THEN <<answer>> ELSE <<>>)
            \o (IF d \in slots THEN pushes[d] ELSE <<>>)

\* Mutant: the answer goes to the clients in the table alone.
FramesToSlots(c, d, pushes, answer) ==
    IF conn[d] # "open" \/ d \notin slots THEN <<>>
    ELSE pushes[d] \o (IF d = c THEN <<answer>> ELSE <<>>)

(***************************************************************************)
(* The frames that serving a request writes: fbus_service_notify to every  *)
(* slot, then the answer of fbus_source_service_dispatch. What is written  *)
(* to a client that has exited is lost. The service waits while a socket   *)
(* that it has to write to is full.                                        *)
(***************************************************************************)
Frames(c, d, pushes, answer) ==
    IF conn[d] # "open" THEN <<>>
    ELSE (IF d \in slots THEN pushes[d] ELSE <<>>)
            \o (IF d = c THEN <<answer>> ELSE <<>>)

Write(c, pushes, answer) ==
    /\ \A d \in Clients :
        Frames(c, d, pushes, answer) # <<>> => Len(down[d]) < Capacity
    /\ down' = [d \in Clients |-> down[d] \o Frames(c, d, pushes, answer)]

\* Mutant: the client that made the change is not told of it.
PushesToOthers(c, type, path, value) ==
    [d \in Clients |-> IF d = c THEN <<>> ELSE <<Push("other", type, path, value)>>]

(* on_changed of the service: priv->client_id is the client being served. *)
Pushes(c, type, path, value) ==
    [d \in Clients |-> <<Push(IF d = c THEN "self" ELSE "other", type, path, value)>>]

NoPushes == [d \in Clients |-> <<>>]

(* fconf_xml_set, fconf_xml_on_changed and the answer RET_OK. *)
Set(c, path, value) ==
    /\ tree' = Add(tree, path, value)
    /\ marked' = marked \cup {path[1]}
    /\ modified' = TRUE
    /\ Write(c, Pushes(c, IF Find(tree, path) THEN "set" ELSE "add", path, value),
             Normal(RET_OK, None))
    /\ UNCHANGED unopened

(***************************************************************************)
(* fconf_xml_remove. fconf_xml_on_changed marks the root of the path; when *)
(* the root itself was removed there is none to mark, and its file stays.  *)
(***************************************************************************)
Remove(c, path) ==
    /\ Find(tree, path)
    /\ tree' = Destroy(tree, path)
    /\ marked' = IF Len(path) = 1 THEN marked \ {path[1]} ELSE marked \cup {path[1]}
    /\ unopened' = unopened \cap marked'
    /\ modified' = TRUE
    /\ Write(c, Pushes(c, "remove", path, None), Normal(RET_OK, None))

(* fconf_xml_get: a node without a value is refused as one that is not there. *)
Get(c, path) ==
    /\ Mem[path] # None
    /\ Write(c, NoPushes, Normal(RET_OK, tree[path]))
    /\ UNCHANGED <<tree, marked, modified, unopened>>

(***************************************************************************)
(* What is refused (a path that is not there, and every lock and unlock)   *)
(* leaves the parcel as it was: the request is sent back as the answer,    *)
(* and its request code is what the client takes for the return value.     *)
(***************************************************************************)
Refuse(c) ==
    /\ Write(c, NoPushes, Normal(Code(call[c]), None))
    /\ UNCHANGED <<tree, marked, modified, unopened>>

(***************************************************************************)
(* One request: fbus_source_service_dispatch with                          *)
(* fconf_service_handle_request. The save timer is put into the loop if    *)
(* the tree was modified and the timer is not there already.               *)
(***************************************************************************)
Serve(c) ==
    /\ running
    /\ conn[c] \in {"open", "half"}
    /\ sent[c]
    /\ LET r == call[c] IN
        \/ r.op = "set" /\ Set(c, r.path, r.value)
        \/ r.op = "remove" /\ Remove(c, r.path)
        \/ r.op = "get" /\ Get(c, r.path)
        \/ /\ \/ r.op = "remove" /\ ~Find(tree, r.path)
              \/ r.op = "get" /\ Mem[r.path] = None
              \/ r.op \in {"lock", "unlock"}
           /\ Refuse(c)
    /\ armed' = (armed \/ modified')
    /\ sent' = [sent EXCEPT ![c] = FALSE]
    /\ call' = IF conn[c] = "half" THEN [call EXCEPT ![c] = NoCall] ELSE call
    /\ UNCHANGED <<running, slots, disk, crashes, conn, at, ready, listener, ret, seen>>

(***************************************************************************)
(* The stream of a client that has exited ends: the source of the service  *)
(* returns RET_REMOVE and its destroy function frees the slot.             *)
(***************************************************************************)
Disconnect(c) ==
    /\ running
    /\ conn[c] = "half"
    /\ ~sent[c]
    /\ conn' = [conn EXCEPT ![c] = "none"]
    /\ slots' = slots \ {c}
    /\ UNCHANGED <<running, tree, marked, modified, armed, files, crashes, at, ready,
                   listener, call, sent, down, ret, seen>>

(* The files once those in opened have been written. *)
Saved(opened) == [f \in Files |-> IF f \in opened THEN Image(tree, f) ELSE disk[f]]

\* Mutant: a mark is cleared though the file could not be opened.
SaveClearsMarks ==
    /\ running
    /\ armed
    /\ armed' = FALSE
    /\ \/ /\ tree = EmptyTree
          /\ UNCHANGED <<marked, modified, files>>
       \/ /\ tree # EmptyTree
          /\ \E opened \in SUBSET marked : disk' = Saved(opened)
          /\ marked' = {}
          /\ unopened' = {}
          /\ modified' = FALSE
    /\ UNCHANGED <<running, tree, slots, crashes, client>>

(***************************************************************************)
(* timer_save_func: fconf_xml_save, and RET_REMOVE. A file that cannot be  *)
(* opened keeps its root marked, but modified is cleared all the same; on  *)
(* an empty tree nothing happens at all.                                   *)
(***************************************************************************)
Save ==
    /\ running
    /\ armed
    /\ armed' = FALSE
    /\ \/ /\ tree = EmptyTree
          /\ UNCHANGED <<marked, modified, files>>
       \/ /\ tree # EmptyTree
          /\ \E opened \in SUBSET marked :
                /\ disk' = Saved(opened)
                /\ marked' = marked \ opened
                /\ unopened' = marked'
          /\ modified' = FALSE
    /\ UNCHANGED <<running, tree, slots, crashes, client>>

(***************************************************************************)
(* The service process dies: by a signal, or by the SIGPIPE of a send to a *)
(* client that is gone. Its memory is lost, every connection ends, and of  *)
(* what it had written the end may be lost as well.                        *)
(***************************************************************************)
Die ==
    /\ running
    /\ crashes < MaxCrashes
    /\ crashes' = crashes + 1
    /\ running' = FALSE
    /\ tree' = EmptyTree
    /\ marked' = {}
    /\ modified' = FALSE
    /\ armed' = FALSE
    /\ slots' = {}
    /\ unopened' = {}
    /\ conn' = [c \in Clients |->
                    CASE conn[c] \in {"pending", "open"} -> "eof"
                      [] conn[c] = "half" -> "none"
                      [] OTHER -> conn[c]]
    /\ call' = [c \in Clients |-> IF conn[c] = "half" THEN NoCall ELSE call[c]]
    /\ sent' = [c \in Clients |-> FALSE]
    /\ seen' = [c \in Clients |-> NoMap]
    /\ \E arrived \in [Clients -> 0..(Capacity + 1)] :
        /\ \A c \in Clients : arrived[c] <= Len(down[c])
        /\ down' = [c \in Clients |-> SubSeq(down[c], 1, arrived[c])]
    /\ UNCHANGED <<at, ready, listener, ret>>

Crash == Die /\ UNCHANGED disk

(***************************************************************************)
(* It dies while the timer saves: some files are written, and one that was *)
(* open has been cut to nothing (mode "w+") and is written in part.        *)
(***************************************************************************)
CrashInSave ==
    /\ armed
    /\ tree # EmptyTree
    /\ \E opened \in SUBSET marked : \E f \in marked \ opened :
        \E part \in Torn(Image(tree, f)) :
            disk' = [Saved(opened) EXCEPT ![f] = part]
    /\ Die

(* The service manager, or somebody, starts it again. *)
Start ==
    /\ ~running
    /\ running' = TRUE
    /\ tree' = Load(disk)
    /\ UNCHANGED <<marked, modified, armed, slots, files, crashes, client>>

-----------------------------------------------------------------------------
Next ==
    \/ \E c \in Clients :
        \/ Connect(c)
        \/ NextPass(c)
        \/ \E r \in Requests : Call(c, r)
        \/ Receive(c)
        \/ ReceiveEof(c)
        \/ Read(c)
        \/ ReadEof(c)
        \/ Exit(c)
        \/ Accept(c)
        \/ Serve(c)
        \/ Disconnect(c)
    \/ Save
    \/ Crash
    \/ CrashInSave
    \/ Start

Spec == Init /\ [][Next]_vars

(***************************************************************************)
(* The loops of the clients and of the service go on. A pass of the        *)
(* service dispatches every source that is readable and waits there until  *)
(* it can write, so a request is served if it can be served again and      *)
(* again.                                                                  *)
(***************************************************************************)
Fairness ==
    \A c \in Clients :
        /\ WF_vars(NextPass(c)) /\ WF_vars(Read(c)) /\ WF_vars(ReadEof(c))
        /\ WF_vars(Receive(c)) /\ WF_vars(ReceiveEof(c))
        /\ WF_vars(Accept(c)) /\ SF_vars(Serve(c))

FairSpec == Spec /\ Fairness

-----------------------------------------------------------------------------
(* What fconf.h promises.                                                  *)

IsAnswer(frame) == frame.kind = "normal"

Answered(c) == \E i \in DOMAIN down[c] : IsAnswer(down[c][i])

(* A call has been made, has taken effect, or is lost with the service. *)
Phase(c) ==
    IF call[c] = NoCall THEN "none"
    ELSE IF sent[c] THEN "called"
    ELSE IF Answered(c) THEN "done" ELSE "lost"

Outcome(frame) == [ok |-> frame.ret = RET_OK, value |-> frame.value]

Promised(c) ==
    Outcome(IF Answered(c)
            THEN down[c][CHOOSE i \in DOMAIN down[c] : IsAnswer(down[c][i])]
            ELSE Failed)

C == INSTANCE Config WITH
        mem <- Mem,
        phase <- [c \in Clients |-> Phase(c)],
        result <- [c \in Clients |-> Promised(c)],
        got <- [c \in Clients |-> Outcome(ret[c])]

(***************************************************************************)
(* The calls of all the clients are atomic: each takes effect on one map,  *)
(* at one moment before it returns, and returns what the map then held,    *)
(* whatever pushes come in between and whichever process dies              *)
(* (fbus_proxy_recv_response, fbus_source_service_dispatch, fconf_xml.c).  *)
(***************************************************************************)
ImplementsConfig == C!Spec

-----------------------------------------------------------------------------
(* Properties.                                                             *)

(* Types: streams hold frames, and the service knows roots by file name. *)
Frame ==
    [kind : {"push"}, trigger : {"self", "other"}, type : {"set", "add", "remove"},
     path : Keys \cup {<<f>> : f \in Files}, value : Values \cup {None}]
        \cup [kind : {"normal"}, ret : 0..4, value : Values \cup {None}]

TypeOK ==
    /\ running \in BOOLEAN /\ modified \in BOOLEAN /\ armed \in BOOLEAN
    /\ marked \subseteq Files /\ unopened \subseteq Files
    /\ slots \subseteq Clients
    /\ crashes \in 0..MaxCrashes
    /\ conn \in [Clients -> Connections]
    /\ at \in [Clients -> Places]
    /\ ready \in [Clients -> BOOLEAN]
    /\ listener \in [Clients -> BOOLEAN]
    /\ call \in [Clients -> Calls \cup {NoCall}]
    /\ sent \in [Clients -> BOOLEAN]
    /\ down \in [Clients -> Seq(Frame)]

(***************************************************************************)
(* The answer belongs to the call. There is one answer in a stream at      *)
(* most, pushes before and behind it, and its client is in the call that   *)
(* it answers: the source of the proxy never meets an answer, on which     *)
(* fbus_source_proxy_dispatch would give the listener up.                  *)
(***************************************************************************)
AnswerIsAwaited ==
    \A c \in Clients : \A i \in DOMAIN down[c] :
        IsAnswer(down[c][i]) =>
            /\ at[c] = "call"
            /\ ~sent[c]
            /\ \A j \in DOMAIN down[c] : IsAnswer(down[c][j]) => i = j

(***************************************************************************)
(* changed_by_self (fconf_client_on_server_push): a client is told of a    *)
(* change of its own only inside the call that makes it, before the call   *)
(* returns.                                                                *)
(***************************************************************************)
OwnChangeInCall ==
    \A c \in Clients : \A i \in DOMAIN down[c] :
        (~IsAnswer(down[c][i]) /\ down[c][i].trigger = "self") =>
            /\ at[c] = "call"
            /\ call[c].op \in {"set", "remove"} /\ call[c].path = down[c][i].path
            /\ conn[c] = "open" => \E j \in DOMAIN down[c] : j > i /\ IsAnswer(down[c][j])

(* The map m after the changes in the frames. *)
After(m, frames) ==
    LET upto[n \in 0..Len(frames)] ==
            IF n = 0 THEN m
            ELSE IF IsAnswer(frames[n]) THEN upto[n - 1]
            ELSE Changed(upto[n - 1], frames[n])
    IN  upto[Len(frames)]

(***************************************************************************)
(* A client that listens and has a slot can keep a copy of the settings    *)
(* from on_changed alone: with the changes that are still on their way to  *)
(* it, read by a call or by the source, the copy is what the service has.  *)
(***************************************************************************)
CacheCatchesUp ==
    \A c \in slots :
        (conn[c] = "open" /\ listener[c]) => After(seen[c], down[c]) = Mem

(***************************************************************************)
(* Nobody waits in a circle. A call that has nothing to read has its       *)
(* request before a living service, or the end of the stream before it;    *)
(* and what is in the socket of a client that listens, on which the        *)
(* service may wait (fbus_stream_write_n), is read by the call of that     *)
(* client or by the source of its proxy.                                   *)
(***************************************************************************)
NoCircularWait ==
    \A c \in Clients :
        /\ (at[c] = "call" /\ down[c] = <<>>) =>
                \/ conn[c] = "eof"
                \/ running /\ sent[c] /\ conn[c] \in {"pending", "open"}
        /\ (c \in Listeners /\ conn[c] = "open" /\ down[c] # <<>>) =>
                at[c] = "call" \/ listener[c]

(***************************************************************************)
(* A root whose file does not hold what the tree has is marked, and the    *)
(* save timer is running, unless the last save could not open that file    *)
(* (fconf_service_handle_request, fconf_xml_save, fconf_xml_on_changed).   *)
(***************************************************************************)
UnsavedIsScheduled ==
    \A f \in Files :
        (Find(tree, <<f>>) /\ disk[f] # Image(tree, f)) =>
            f \in marked /\ (armed \/ f \in unopened)

(***************************************************************************)
(* A source of a proxy goes only with the service or with the client: no   *)
(* order of calls, pushes and passes makes the dispatch fail.              *)
(***************************************************************************)
ListenerSurvives ==
    [][\A c \in Clients :
        (listener[c] /\ ~listener'[c]) => conn[c] = "eof" \/ at'[c] = "off"]_vars

(***************************************************************************)
(* Every call returns, with an answer or with the end of the stream: the   *)
(* service does not wait for ever on the socket of a client that waits for *)
(* the service, if every client has a source that reads the pushes.        *)
(***************************************************************************)
CallReturns == \A c \in Clients : at[c] = "call" ~> at[c] # "call"

(***************************************************************************)
(* The file that was saved is read again: "The value of xpath              *)
(* /globals/service_manager/port are 1978" (services/fconf/fconf.h).       *)
(***************************************************************************)
SavedIsReloaded ==
    [][Start => \A k \in Keys :
        k \in DOMAIN disk[k[1]] => Mem'[k] = disk[k[1]][k]]_vars

=============================================================================
