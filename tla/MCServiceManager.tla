-------------------------- MODULE MCServiceManager --------------------------
(* An instance of ServiceManager for TLC: one service of each start type.  *)
EXTENDS ServiceManager

CONSTANTS fconf, other, p1, p2, p3, p4

=============================================================================
