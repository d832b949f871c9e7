------------------------------- MODULE BertPass -------------------------------
(***************************************************************************)
(* What bertHandler (crash-capture-manager/bert_handler.cpp) promises its  *)
(* callers: a call runs, delivers records of the host (a copy in the fault *)
(* log directory, a log entry), takes away the pending mark of a record    *)
(* only when it was delivered or was missed, and returns.  A record is     *)
(* missed when the host leaves it while the pass goes by an older table,   *)
(* or when a read cut short or a sink that failed went unseen.  A call may *)
(* also break the table of the marks, and then they are all gone.          *)
(*                                                                         *)
(* BertHandler implements this specification; CrashCapture calls it.       *)
(***************************************************************************)
CONSTANT Record

VARIABLES
  running,    \* a call is in progress
  mode,       \* its argument, bert_host_state
  pending,    \* records marked for the controller in the flash
  delivered,  \* records copied and logged
  missed,     \* records that went astray, and no caller is told
  broken      \* the table of the marks lost its content once

passVars == <<running, mode, pending, delivered, missed, broken>>

Modes == {"HOST_ON", "HOST_OFF"}

Init ==
  /\ running = FALSE
  /\ mode = "HOST_OFF"
  /\ pending = {}
  /\ delivered = {} /\ missed = {}
  /\ broken = FALSE

Call(s) ==
  /\ ~running
  /\ running' = TRUE
  /\ mode' = s
  /\ UNCHANGED <<pending, delivered, missed, broken>>

Deliver ==
  /\ running
  /\ \E R \in SUBSET Record : delivered' = delivered \cup R
  /\ UNCHANGED <<running, mode, pending, missed, broken>>

Miss ==
  /\ running
  /\ \E R \in SUBSET Record : missed' = missed \cup R
  /\ UNCHANGED <<running, mode, pending, delivered, broken>>

\* At most once per record, and never before it was delivered or missed.
Acknowledge ==
  /\ running
  /\ \E R \in SUBSET (pending \cap (delivered \cup missed)) : pending' = pending \ R
  /\ UNCHANGED <<running, mode, delivered, missed, broken>>

BreakTable ==
  /\ running
  /\ pending' = {}
  /\ broken' = TRUE
  /\ UNCHANGED <<running, mode, delivered, missed>>

Return ==
  /\ running
  /\ running' = FALSE
  /\ UNCHANGED <<mode, pending, delivered, missed, broken>>

\* The daemon dies, at worst while it writes the table.
Crash ==
  /\ running
  /\ running' = FALSE
  /\ \/ UNCHANGED <<pending, broken>>
     \/ pending' = {} /\ broken' = TRUE
  /\ UNCHANGED <<mode, delivered, missed>>

\* The host leaves a record, over an older one or not; a call in progress
\* may not know of it.
HostWrites ==
  /\ \E r \in Record, old \in SUBSET pending :
       /\ pending' = (pending \ old) \cup {r}
       /\ missed' \in {missed, IF running THEN missed \cup {r} ELSE missed}
  /\ UNCHANGED <<running, mode, delivered, broken>>

Work == Deliver \/ Miss \/ Acknowledge \/ BreakTable

Next ==
  \/ \E s \in Modes : Call(s)
  \/ Work \/ Return \/ Crash
  \/ HostWrites

SafeSpec == Init /\ [][Next]_passVars

\* A call returns.
Spec == SafeSpec /\ WF_passVars(Return)
===============================================================================
