----------------------------- MODULE MCSumpServer -----------------------------
(***************************************************************************)
(* The relay's plugin, another one with a task and one that is disabled;   *)
(* three records in the polled sump, pages of one, a window of one instant  *)
(* that moves once, so that a cursor can be lost and a record come late.   *)
(***************************************************************************)
EXTENDS SumpServer

CONSTANTS logstream, other, disabled, poller

MCPlugins  == {logstream, other, disabled}
MCDisabled == {disabled}
MCTasksOf  == [p \in MCPlugins |-> IF p = logstream THEN {Relay} ELSE {poller}]
MCIdRank   == [i \in Positions |-> 3 - i]
=============================================================================
