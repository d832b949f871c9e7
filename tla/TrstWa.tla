--------------------------------- MODULE TrstWa ---------------------------------
(***************************************************************************)
(* ampere-trst-wa.c, started with the host: when the power of a socket has *)
(* become good, its JTAG port must be reset, by a pulse of TRST, of which  *)
(* the tool drives one line for both sockets.  It waits for a rising edge  *)
(* of socket 0's power-good line, pulses, and then does the same for       *)
(* socket 1 if it is there.  The power of either socket comes up, and      *)
(* goes, at any time; stopping the host kills the tool.                    *)
(***************************************************************************)
EXTENDS Integers

CONSTANTS
  MaxWait,    \* mon_time, in ticks
  MaxRises,   \* bound: times a socket is powered
  MaxFaults   \* bound: failing calls and kills

ASSUME TrstWaAssumption == MaxWait \in Nat \ {0} /\ MaxRises \in Nat /\ MaxFaults \in Nat

Sockets == {0, 1}

VARIABLES
  fitted,    \* the sockets of the board: S1_PRESENCE
  good,      \* the sockets whose power-good line is high
  rises,
  trst,      \* the level of TRST
  pc,        \* the next call; "idle" when the tool does not run
  socket,    \* the one it waits for
  present,   \* slave_present
  edge,      \* an edge is queued on the line it waits for
  left,      \* ticks until the wait times out
  ret,
  unreset,   \* history: sockets powered since the last whole pulse
  late,      \* history: those of them powered when their wait was over
  faults, hurt   \* failures, and whether any was in this run

tool  == <<pc, socket, present, edge, left, ret>>
board == <<fitted, good, rises>>
vars  == <<board, trst, tool, unreset, late, faults, hurt>>

Init ==
  /\ fitted \in {{0}, {0, 1}} /\ good = {} /\ rises = [s \in Sockets |-> 0]
  /\ trst = "high" /\ pc = "idle" /\ socket = 0 /\ present = FALSE
  /\ edge = FALSE /\ left = 0 /\ ret = 0
  /\ unreset = {} /\ late = {} /\ faults = 0 /\ hurt = FALSE

Fine  == UNCHANGED <<faults, hurt>>
Fault == faults < MaxFaults /\ faults' = faults + 1 /\ hurt' = TRUE

-------------------------------------------------------------------------------
Exit(r) == pc' = "idle" /\ ret' = r /\ UNCHANGED <<socket, edge, left>>

\* The tool goes on to wait for s.
GoOnTo(s) == pc' = "listen" /\ socket' = s /\ UNCHANGED <<edge, left, ret>>

\* main up to the first wait.  A presence line that cannot be read is taken for
\* an absent socket.
Start ==
  /\ pc = "idle"
  /\ \/ present' = (1 \in fitted) /\ hurt' = FALSE /\ UNCHANGED faults
     \/ present' = FALSE /\ Fault
  /\ GoOnTo(0) /\ late' = {}
  /\ UNCHANGED <<board, trst, unreset>>

StartFails ==
  /\ pc = "idle"
  /\ Fault
  /\ present' \in BOOLEAN /\ Exit(-1)
  /\ UNCHANGED <<board, trst, unreset, late>>

\* startMonitorGpio asks for the edges from now on.
Listen ==
  /\ pc = "listen" /\ Fine
  /\ pc' = "wait" /\ edge' = FALSE /\ left' = MaxWait
  /\ UNCHANGED <<board, trst, socket, present, ret, unreset, late>>

\* Mutant: a timeout is an error, as the message of main has it.
WaitEndsByEdge ==
  /\ pc = "wait" /\ (edge \/ left = 0) /\ Fine
  /\ IF edge THEN pc' = "low" /\ UNCHANGED <<socket, edge, left, ret>> ELSE Exit(1)
  /\ UNCHANGED <<board, trst, present, unreset, late>>

\* The callback stops the monitor at an edge and, as it looks at nothing it is
\* given, at a timeout too: both are a success.
WaitEnds ==
  /\ pc = "wait" /\ (edge \/ left = 0) /\ Fine
  /\ pc' = "low"
  /\ UNCHANGED <<socket, edge, left, ret, board, trst, present, unreset, late>>

WaitFails ==
  /\ pc \in {"listen", "wait"} /\ Fault
  /\ Exit(1)
  /\ UNCHANGED <<board, trst, present, unreset, late>>

\* jtag_set_trst; its failure is printed, and not returned.
PulseLow ==
  /\ pc = "low"
  /\ \/ Fine /\ trst' = "low"
     \/ Fault /\ UNCHANGED trst
  /\ pc' = "high"
  /\ UNCHANGED <<board, socket, present, edge, left, ret, unreset, late>>

PulseHigh ==
  /\ pc = "high"
  /\ \/ Fine /\ trst' = "high"
     \/ Fault /\ UNCHANGED trst
  /\ IF trst = "low" /\ trst' = "high"
     THEN unreset' = {} /\ late' = {}
     ELSE UNCHANGED <<unreset, late>>
  /\ IF socket = 0 /\ present THEN GoOnTo(1) ELSE Exit(0)
  /\ UNCHANGED <<board, present>>

\* The unit conflicts with the one that stops the host.
Kill ==
  /\ pc # "idle" /\ Fault
  /\ pc' = "idle" /\ ret' = 1
  /\ UNCHANGED <<socket, present, edge, left, board, trst, unreset, late>>

-------------------------------------------------------------------------------
Tick ==
  /\ pc = "wait" /\ left > 0
  /\ left' = left - 1
  /\ UNCHANGED <<pc, socket, present, edge, ret, board, trst, unreset, late, faults, hurt>>

\* The tool waits for s, or will.
Awaits(s) ==
  \/ pc \in {"listen", "wait"} /\ socket <= s
  \/ pc \in {"low", "high"} /\ socket < s

PowerRises ==
  \E s \in fitted \ good :
    /\ rises[s] < MaxRises
    /\ rises' = [rises EXCEPT ![s] = @ + 1] /\ good' = good \cup {s}
    /\ edge' = (edge \/ (pc = "wait" /\ socket = s))
    /\ unreset' = unreset \cup {s}
    /\ late' = IF Awaits(s) THEN late ELSE late \cup {s}
    /\ UNCHANGED <<fitted, trst, pc, socket, present, left, ret, faults, hurt>>

PowerFalls ==
  /\ \E s \in good : good' = good \ {s}
  /\ UNCHANGED <<fitted, rises, trst, tool, unreset, late, faults, hurt>>

Next ==
  \/ Start \/ StartFails \/ Listen \/ WaitEnds \/ WaitFails \/ PulseLow \/ PulseHigh \/ Kill
  \/ Tick \/ PowerRises \/ PowerFalls

Spec == Init /\ [][Next]_vars

-------------------------------------------------------------------------------
\* Every variable keeps its type; only a socket that is fitted has power.
TypeOK ==
  /\ fitted \in {{0}, {0, 1}} /\ good \subseteq fitted
  /\ rises \in [Sockets -> 0..MaxRises]
  /\ trst \in {"high", "low"}
  /\ pc \in {"idle", "listen", "wait", "low", "high"} /\ socket \in Sockets
  /\ present \in BOOLEAN /\ edge \in BOOLEAN /\ left \in 0..MaxWait
  /\ ret \in {-1, 0, 1}
  /\ unreset \subseteq fitted /\ late \subseteq fitted
  /\ faults \in 0..MaxFaults /\ hurt \in BOOLEAN

\* An invocation in which no call fails leaves TRST high, whatever the ones
\* before left, and has reset every socket powered before it or while it ran,
\* those too whose edge came when nobody listened to its line, unless the power
\* came after the wait for it was over.  That a wait which times out counts as
\* one that saw the edge is what makes up for the edges that were missed (main,
\* event_callback).
PowerGoodIsReset == pc = "idle" /\ ~hurt => trst = "high" /\ unreset \subseteq late
===============================================================================
