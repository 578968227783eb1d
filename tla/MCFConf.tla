------------------------------ MODULE MCFConf -------------------------------
(* Instances of FConfService for TLC. *)
EXTENDS FConfService

CONSTANTS f, k, v1, v2, a, b

SetV1 == [op |-> "set", path |-> <<f, k>>, value |-> v1]
SetV2 == [op |-> "set", path |-> <<f, k>>, value |-> v2]
GetKey == [op |-> "get", path |-> <<f, k>>]
RemoveKey == [op |-> "remove", path |-> <<f, k>>]
RemoveRoot == [op |-> "remove", path |-> <<f>>]
Lock == [op |-> "lock"]

(* The requests of each run. *)
CallRequests == {SetV1, SetV2, GetKey, RemoveRoot, Lock}
FaultRequests == {SetV1, RemoveKey, RemoveRoot}
ReloadRequests == {SetV1, RemoveKey}

=============================================================================
