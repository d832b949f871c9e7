---------------------------- MODULE MCErrorMonitor ----------------------------
(***************************************************************************)
(* A small instance of ErrorMonitor: a board whose configuration names the *)
(* directory of socket 0 and leaves the other one to the default.          *)
(***************************************************************************)
EXTENDS ErrorMonitor

ConfiguredRoot == [s \in Sockets |-> IF s = 0 THEN "slashed" ELSE "bare"]

\* One file of each kind, in the order a poll reads them.
SomeFiles == {"error_mem_ue", "error_smpro", "event_dimm_hot"}

UE == [socket |-> 0, label |-> "error_mem_ue", kind |-> "plain"]
Overflow == [socket |-> 0, label |-> "error_mem_ue", kind |-> "overflow"]
ShortLine == [socket |-> 0, label |-> "error_smpro", kind |-> "malformed"]
LongLine == [socket |-> 0, label |-> "error_mem_ue", kind |-> "malformed"]
SomeErrors == {UE, Overflow, LongLine, ShortLine}

\* Channel 0 of both DIMMs gets hot, and cools down.
SomeAlerts == {<<2, 0>>, <<2, 8>>}
SomeChanges == {SomeAlerts}
===============================================================================
