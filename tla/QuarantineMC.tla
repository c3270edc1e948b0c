---------------------------- MODULE QuarantineMC ----------------------------
(***************************************************************************)
(* Two agents on one host for TLC, one per interface, and two sources, one *)
(* of them on the whitelist of both agents.                                *)
(***************************************************************************)
EXTENDS Quarantine

CONSTANTS host, exempt

OneHost == [a \in Agents |-> host]
Whitelists == [a \in Agents |-> {exempt}]
=============================================================================
