----------------------------- MODULE ErrorMonitor -----------------------------
(***************************************************************************)
(* The host error monitor (altra-host-error-monitor.cpp).  While the host  *)
(* runs, a timer polls the files of the SMpro driver in the order of two   *)
(* tables: the error files, whose lines are logged (and light the LED when *)
(* the error is uncorrectable), then the event files, whose bits are       *)
(* compared with a mask and logged when they change.                       *)
(*                                                                         *)
(* One thread.  A poll reads file after file, sleeping between the record  *)
(* of the system event log and the entry of the journal that each line or  *)
(* bit is given, while the hardware and the host go on; signals of the     *)
(* host's state wait in the connection until the handler that polls has    *)
(* returned.                                                               *)
(***************************************************************************)
EXTENDS Integers, Sequences, FiniteSets

CONSTANTS
  Root,         \* hwmonRootDir: "absent", "slashed" or "bare" (no / at its end)
  Driver,       \* names of the files the driver of a socket offers
  Errors,       \* lines the error files may show: [socket, label, kind]
  Alerts,       \* bits the event files may show: <<index, bit>>
  Changes,      \* bound: sets of those bits that change at once
  MaxRaised,    \* bound: lines that the driver ever shows
  MaxSignals,   \* bound: host states that wait to be handled
  MaxCrashes,   \* bound: times the daemon is killed
  MaxMisreads   \* bound: event files that cannot be read

Sockets == 0..1
Kinds == {"plain", "overflow", "malformed"}

-------------------------------------------------------------------------------
(* The two tables, in the order of a poll.                                  *)

UEFiles == <<"error_core_ue", "error_mem_ue", "error_pcie_ue", "error_other_ue">>
CEFiles == <<"error_core_ce", "error_mem_ce", "error_pcie_ce", "error_other_ce">>
ProErrorFiles == <<"error_smpro", "error_pmpro">>
ProWarnFiles  == <<"warn_smpro", "warn_pmpro">>

OfSocket(s, labels) ==
  [i \in 1..Len(labels) |-> [socket |-> s, label |-> labels[i]]]
BothSockets(labels) == OfSocket(0, labels) \o OfSocket(1, labels)

errorTypeTable ==
  BothSockets(UEFiles) \o BothSockets(CEFiles)
    \o BothSockets(ProErrorFiles) \o BothSockets(ProWarnFiles)

eventTypeTable ==
  <<[socket |-> 0, label |-> "event_vrd_warn_fault"],
    [socket |-> 0, label |-> "event_vrd_hot"],
    [socket |-> 0, label |-> "event_dimm_hot"],
    [socket |-> 1, label |-> "event_vrd_warn_fault"],
    [socket |-> 1, label |-> "event_vrd_hot"],
    [socket |-> 1, label |-> "event_dimm_hot"],
    [socket |-> 0, label |-> "event_dimm_2x_refresh"],
    [socket |-> 1, label |-> "event_dimm_2x_refresh"]>>

NumErrors == 24
NumEvents == 8
Table == errorTypeTable \o eventTypeTable
EventIdx == 0..NumEvents - 1

IsUE(label) == label \in {UEFiles[i] : i \in 1..4}
IsInternal(label) == label \in {"error_smpro", "error_pmpro", "warn_smpro", "warn_pmpro"}

\* What a bit of an event file is about: the words of its log entry.
WarnFaultPlace(b) ==
  IF b = 0 THEN <<"SoC_VRD", 0>>
  ELSE IF b <= 3 THEN <<"CORE_VRD", b>> ELSE <<"DIMM_VRD", b - 3>>
VrdHotPlace(b) ==
  IF b = 0 THEN <<"SoC_VRD", 0>>
  ELSE IF b <= 6 THEN <<"CORE_VRD", b - 3>> ELSE <<"DIMM_VRD", b - 7>>
DimmHotPlace(b) == <<b \div 8, b % 8>>
RefreshPlace(b) == <<"channel", b>>

\* The bits of its file an event handler looks at.
Watched(label) ==
  CASE label = "event_vrd_warn_fault"  -> 0..7
    [] label = "event_vrd_hot"         -> {0} \cup 4..6 \cup 8..11
    [] label = "event_dimm_hot"        -> 0..15
    [] label = "event_dimm_2x_refresh" -> 0..7

\* Mutant: the channel alone, whichever DIMM it is.
PlaceChannelOnly(label, b) ==
  CASE label = "event_vrd_warn_fault"  -> WarnFaultPlace(b)
    [] label = "event_vrd_hot"         -> VrdHotPlace(b)
    [] label = "event_dimm_hot"        -> <<b % 8>>
    [] label = "event_dimm_2x_refresh" -> RefreshPlace(b)

Place(label, b) ==
  CASE label = "event_vrd_warn_fault"  -> WarnFaultPlace(b)
    [] label = "event_vrd_hot"         -> VrdHotPlace(b)
    [] label = "event_dimm_hot"        -> DimmHotPlace(b)
    [] label = "event_dimm_2x_refresh" -> RefreshPlace(b)

EventRow(idx) == eventTypeTable[idx + 1]
Message(idx, b) ==
  [label  |-> EventRow(idx).label,
   socket |-> EventRow(idx).socket,
   place  |-> Place(EventRow(idx).label, b)]

Line == [socket : Sockets, label : {Table[i].label : i \in 1..NumErrors}, kind : Kinds]
Bit  == {a \in EventIdx \X (0..15) : a[2] \in Watched(EventRow(a[1]).label)}

ASSUME MonitorAssumption ==
  /\ Root \in [Sockets -> {"absent", "slashed", "bare"}]
  /\ \E s \in Sockets : Root[s] # "absent"
  /\ Driver \subseteq {Table[i].label : i \in DOMAIN Table}
  /\ Errors \subseteq Line
  /\ Alerts \subseteq Bit /\ Changes \subseteq SUBSET Alerts
  /\ MaxRaised \in Nat /\ MaxSignals \in Nat \ {0}
  /\ MaxCrashes \in Nat /\ MaxMisreads \in Nat

-------------------------------------------------------------------------------
VARIABLES
  up,           \* the daemon runs
  host,         \* CurrentHostState
  signals,      \* its changes that wait in the connection
  rasTimer,     \* the periodic timer is enabled
  at,           \* the row of the tables a poll is at, or 0
  then,         \* what the handler that polls does afterwards
  lines,        \* lines of the error file in hand that were not looked at
  recording,    \* the line whose record was made, its journal entry not yet
  bits,         \* bits of the event file in hand that changed, not looked at
  turning,      \* the bit whose record was made, its journal entry not yet
  curEventMask, \* event index -> bits that were set when last read
  alerts,       \* bits the hardware sets now
  waiting,      \* lines the error files show now
  led,          \* Asserted of the LED group ras_ue_fault
  \* What became of it, for the properties.
  raised,       \* lines ever shown
  logged,       \* lines that are in the journal
  shown,        \* event messages whose last entry says Asserted
  heard,        \* this life of the daemon has handled a host state
  ueSince,      \* a UE was recorded since the host was last heard to be off
  ledLost,      \* a call that sets the LED failed or, after a record, was not made
  forgot,       \* the daemon died while the journal said Asserted of a place
  died,
  crashes, misreads

inHand     == <<lines, recording, bits, turning>>
daemonVars == <<signals, rasTimer, at, then, inHand, curEventMask, heard>>
boardVars  == <<host, alerts, waiting, raised>>
ledVars    == <<led, ueSince, ledLost>>
deathVars  == <<up, forgot, died, crashes>>
vars == <<daemonVars, boardVars, ledVars, deathVars, logged, shown, misreads>>

NoMask == [i \in EventIdx |-> {}]

Init ==
  /\ up = FALSE /\ host \in {"Off", "Running"}
  /\ signals = <<>> /\ rasTimer = FALSE /\ at = 0 /\ then = "nothing"
  /\ lines = {} /\ recording = {} /\ bits = {} /\ turning = {}
  /\ curEventMask = NoMask
  /\ alerts = {} /\ waiting = {} /\ led = FALSE
  /\ raised = {} /\ logged = {} /\ shown = {}
  /\ heard = FALSE /\ ueSince = FALSE /\ ledLost = FALSE
  /\ forgot = FALSE /\ died = FALSE
  /\ crashes = 0 /\ misreads = 0

Idle == up /\ at = 0

-------------------------------------------------------------------------------
(* Which files a poll finds: getAbsolutePath appends the name to the root   *)
(* directory without a separator.                                           *)

Readable ==
  {i \in 1..(NumErrors + NumEvents) :
     Table[i].label \in Driver /\ Root[Table[i].socket] = "slashed"}

NextRow(i) ==
  LET rest == {j \in Readable : j > i}
  IN  IF rest = {} THEN 0 ELSE CHOOSE j \in rest : \A k \in rest : j <= k

\* getErrorsAndEvents goes on to its next file or returns to its caller.
NextFile ==
  /\ at' = NextRow(at)
  /\ IF at' = 0 /\ then = "start"
       THEN rasTimer' = TRUE /\ then' = "nothing"
       ELSE UNCHANGED <<rasTimer, then>>

-------------------------------------------------------------------------------
(* The life of the daemon.                                                  *)

Start ==
  /\ ~up
  /\ up' = TRUE
  /\ UNCHANGED <<daemonVars, boardVars, ledVars, forgot, died, crashes,
                 logged, shown, misreads>>

\* An uncorrectable error that is not an overflow: it is to light the LED.
IsPlainUE(e) == IsUE(e.label) /\ e.kind = "plain"

\* Everything of the process is gone, its match on the host's state too.
Die ==
  /\ up' = FALSE /\ died' = TRUE
  /\ forgot' = (forgot \/ shown # {})
  /\ ledLost' = (ledLost \/ \E e \in recording : IsPlainUE(e))
  /\ curEventMask' = NoMask
  /\ lines' = {} /\ recording' = {} /\ bits' = {} /\ turning' = {}
  /\ signals' = <<>> /\ rasTimer' = FALSE /\ at' = 0 /\ then' = "nothing"
  /\ heard' = FALSE

Crash ==
  /\ up /\ crashes < MaxCrashes
  /\ crashes' = crashes + 1
  /\ Die
  /\ UNCHANGED <<boardVars, led, ueSince, logged, shown, misreads>>

-------------------------------------------------------------------------------
(* updateRASUELed: the call may fail, and only a debug message says so.     *)

SetLed(b) ==
  \/ led' = b /\ UNCHANGED ledLost
  \/ led' = led /\ ledLost' = TRUE

\* The callback of hostStateMatch.
HandleRunning ==
  /\ Idle /\ signals # <<>> /\ Head(signals) = "Running"
  /\ signals' = Tail(signals)
  /\ heard' = TRUE
  /\ at' = NextRow(0)
  /\ IF at' = 0
       THEN rasTimer' = TRUE /\ UNCHANGED then
       ELSE then' = "start" /\ UNCHANGED rasTimer
  /\ UNCHANGED <<inHand, curEventMask, boardVars, ledVars, deathVars, logged, shown,
                 misreads>>

\* Mutant: the timer is left running.
HandleOffTimerLeft ==
  /\ Idle /\ signals # <<>> /\ Head(signals) # "Running"
  /\ signals' = Tail(signals)
  /\ heard' = TRUE
  /\ SetLed(FALSE) /\ ueSince' = FALSE
  /\ UNCHANGED <<rasTimer, at, then, inHand, curEventMask, boardVars, deathVars, logged,
                 shown, misreads>>

HandleOff ==
  /\ Idle /\ signals # <<>> /\ Head(signals) # "Running"
  /\ signals' = Tail(signals)
  /\ heard' = TRUE
  /\ rasTimer' = FALSE
  /\ SetLed(FALSE) /\ ueSince' = FALSE
  /\ UNCHANGED <<at, then, inHand, curEventMask, boardVars, deathVars, logged, shown,
                 misreads>>

\* Mutant: the timer is not periodic.
TimerFiresOnce ==
  /\ Idle /\ rasTimer
  /\ Readable # {}
  /\ at' = NextRow(0)
  /\ rasTimer' = FALSE
  /\ UNCHANGED <<signals, then, inHand, curEventMask, heard, boardVars, ledVars,
                 deathVars, logged, shown, misreads>>

TimerFires ==
  /\ Idle /\ rasTimer
  /\ Readable # {}
  /\ at' = NextRow(0)
  /\ UNCHANGED <<signals, rasTimer, then, inHand, curEventMask, heard, boardVars,
                 ledVars, deathVars, logged, shown, misreads>>

-------------------------------------------------------------------------------
(* logErrors: the lines of the file in hand, one after the other.           *)

LinesAt(i) ==
  {e \in waiting : e.socket = Table[i].socket /\ e.label = Table[i].label}
Malformed(es) == {e \in es : e.kind = "malformed"}

AtErrors == up /\ at \in 1..NumErrors
LineDone == IF lines' = {} THEN NextFile ELSE UNCHANGED <<rasTimer, at, then>>

\* What the driver has shown once, it does not show again.
ReadErrors ==
  /\ AtErrors /\ lines = {} /\ recording = {}
  /\ lines' = LinesAt(at)
  /\ waiting' = waiting \ LinesAt(at)
  /\ LineDone
  /\ UNCHANGED <<signals, recording, bits, turning, curEventMask, heard, host, alerts,
                 raised, ledVars, deathVars, logged, shown, misreads>>

\* Mutant: an overflow is taken for a line of the wrong size.
ParsesPlainOnly(e) == e.kind = "plain"

\* The line has the size its parser wants.
Parses(e) == e.kind # "malformed"

\* The record of the system event log.  The daemon sleeps afterwards.
RecordError ==
  /\ AtErrors /\ recording = {}
  /\ \E e \in lines :
       /\ Parses(e)
       /\ lines' = lines \ {e} /\ recording' = {e}
       /\ ueSince' = (ueSince \/ IsPlainUE(e))
  /\ UNCHANGED <<signals, rasTimer, at, then, bits, turning, curEventMask, heard,
                 boardVars, led, ledLost, deathVars, logged, shown, misreads>>

\* Mutant: only the errors of the cores light the LED.
LightsLedCoreOnly(e) == e.label = "error_core_ue" /\ e.kind = "plain"

\* logErrorToRedfish returns early on an overflow.
LightsLed(e) == IsUE(e.label) /\ e.kind = "plain"

\* The entry of the journal, after the sleep.
JournalError ==
  /\ AtErrors
  /\ \E e \in recording :
       /\ logged' = logged \cup {e}
       /\ IF LightsLed(e) THEN SetLed(TRUE) ELSE UNCHANGED <<led, ledLost>>
  /\ recording' = {} /\ UNCHANGED lines
  /\ LineDone
  /\ UNCHANGED <<signals, bits, turning, curEventMask, heard, boardVars, ueSince,
                 deathVars, shown, misreads>>

\* A line of the wrong size is passed over.
DropLine ==
  /\ AtErrors /\ recording = {}
  /\ ~IsInternal(Table[at].label)
  /\ \E e \in lines : ~Parses(e) /\ lines' = lines \ {e}
  /\ LineDone
  /\ UNCHANGED <<signals, recording, bits, turning, curEventMask, heard, boardVars,
                 ledVars, deathVars, logged, shown, misreads>>

\* In a line of an internal error that is too short, substr throws.
ParseThrows ==
  /\ AtErrors /\ recording = {}
  /\ IsInternal(Table[at].label)
  /\ \E e \in lines : ~Parses(e)
  /\ Die
  /\ UNCHANGED <<boardVars, led, ueSince, crashes, logged, shown, misreads>>

-------------------------------------------------------------------------------
(* logEvents: a bit that was not in the mask is logged as asserted and put  *)
(* there, one that no longer is set is logged as deasserted and taken out.  *)

AtEvents == up /\ at > NumErrors
Idx == at - NumErrors - 1
BitsAt(i) == {b \in Watched(EventRow(i).label) : <<i, b>> \in alerts}
BitDone == IF bits' = {} THEN NextFile ELSE UNCHANGED <<rasTimer, at, then>>

\* The bits of the file that are not as the mask has them.
ReadEvents ==
  /\ AtEvents /\ bits = {} /\ turning = {}
  /\ bits' = (BitsAt(Idx) \ curEventMask[Idx]) \cup (curEventMask[Idx] \ BitsAt(Idx))
  /\ BitDone
  /\ UNCHANGED <<signals, lines, recording, turning, curEventMask, heard, boardVars,
                 ledVars, deathVars, logged, shown, misreads>>

\* The mask is changed before the record is made and the daemon sleeps.
TurnBit ==
  /\ AtEvents /\ turning = {}
  /\ \E b \in bits :
       /\ \A c \in bits : b <= c
       /\ curEventMask' = [curEventMask EXCEPT
                             ![Idx] = IF b \in @ THEN @ \ {b} ELSE @ \cup {b}]
       /\ bits' = bits \ {b} /\ turning' = {b}
  /\ UNCHANGED <<signals, rasTimer, at, then, lines, recording, heard, boardVars, ledVars,
                 deathVars, logged, shown, misreads>>

\* Mutant: one of the copies says Asserted in both directions.
JournalEventOneWord ==
  /\ AtEvents
  /\ \E b \in turning : shown' = shown \cup {Message(Idx, b)}
  /\ turning' = {} /\ UNCHANGED bits
  /\ BitDone
  /\ UNCHANGED <<signals, lines, recording, curEventMask, heard, boardVars, ledVars,
                 deathVars, logged, misreads>>

\* The entry of the journal, after the sleep.
JournalEvent ==
  /\ AtEvents
  /\ \E b \in turning :
       shown' = IF b \in curEventMask[Idx] THEN shown \cup {Message(Idx, b)}
                                           ELSE shown \ {Message(Idx, b)}
  /\ turning' = {} /\ UNCHANGED bits
  /\ BitDone
  /\ UNCHANGED <<signals, lines, recording, curEventMask, heard, boardVars, ledVars,
                 deathVars, logged, misreads>>

\* The file cannot be read, or its line does not have four characters.
SkipEvents ==
  /\ AtEvents /\ bits = {} /\ turning = {}
  /\ misreads < MaxMisreads
  /\ misreads' = misreads + 1
  /\ NextFile
  /\ UNCHANGED <<signals, inHand, curEventMask, heard, boardVars, ledVars, deathVars,
                 logged, shown>>

-------------------------------------------------------------------------------
(* The host and the hardware.                                               *)

HostSwitches ==
  /\ Len(signals) < MaxSignals
  /\ host' = IF host = "Running" THEN "Off" ELSE "Running"
  /\ signals' = IF up THEN Append(signals, host') ELSE signals
  /\ UNCHANGED <<rasTimer, at, then, inHand, curEventMask, heard, alerts, waiting,
                 raised, ledVars, deathVars, logged, shown, misreads>>

ErrorRaised ==
  /\ Cardinality(raised) < MaxRaised
  /\ \E e \in Errors \ raised :
       waiting' = waiting \cup {e} /\ raised' = raised \cup {e}
  /\ UNCHANGED <<daemonVars, host, alerts, ledVars, deathVars, logged, shown, misreads>>

AlertChanges ==
  /\ \E changed \in Changes : alerts' = (alerts \ changed) \cup (changed \ alerts)
  /\ UNCHANGED <<daemonVars, host, waiting, raised, ledVars, deathVars, logged, shown,
                 misreads>>

-------------------------------------------------------------------------------
HandleSignal == HandleRunning \/ HandleOff
ReadFile ==
  \/ ReadErrors \/ RecordError \/ JournalError \/ DropLine \/ ParseThrows
  \/ ReadEvents \/ TurnBit \/ JournalEvent \/ SkipEvents

Next ==
  \/ Start \/ Crash
  \/ HandleRunning \/ HandleOff \/ TimerFires
  \/ ReadErrors \/ RecordError \/ JournalError \/ DropLine \/ ParseThrows
  \/ ReadEvents \/ TurnBit \/ JournalEvent \/ SkipEvents
  \/ HostSwitches \/ ErrorRaised \/ AlertChanges

Spec == Init /\ [][Next]_vars

\* systemd restarts the daemon (Restart=always); a poll goes on; the event
\* loop serves its sources in turn, so that neither the timer nor a waiting
\* signal starves.
FairSpec ==
  /\ Spec
  /\ WF_vars(Start)
  /\ WF_vars(ReadFile)
  /\ SF_vars(HandleSignal)
  /\ SF_vars(TimerFires)

-------------------------------------------------------------------------------
TypeOK ==
  /\ up \in BOOLEAN
  /\ host \in {"Off", "Running"}
  /\ signals \in Seq({"Off", "Running"}) /\ Len(signals) <= MaxSignals
  /\ rasTimer \in BOOLEAN
  /\ at \in Readable \cup {0}
  /\ then \in {"nothing", "start"}
  /\ lines \subseteq raised /\ recording \subseteq raised
  /\ bits \subseteq 0..15 /\ turning \subseteq 0..15
  /\ curEventMask \in [EventIdx -> SUBSET (0..15)]
  /\ \A i \in EventIdx : \A b \in curEventMask[i] : <<i, b>> \in Alerts
  /\ alerts \subseteq Alerts
  /\ waiting \subseteq raised /\ raised \subseteq Errors /\ logged \subseteq raised
  /\ shown \subseteq {Message(a[1], a[2]) : a \in Alerts}
  /\ led \in BOOLEAN /\ ueSince \in BOOLEAN /\ ledLost \in BOOLEAN
  /\ heard \in BOOLEAN /\ forgot \in BOOLEAN /\ died \in BOOLEAN
  /\ crashes \in 0..MaxCrashes /\ misreads \in 0..MaxMisreads

\* The daemon that has handled all it heard of the host, in whatever order
\* polls, signals and switches came, polls while the host runs and only
\* then.  One that was started again polls only after the next switch.
Settled == up /\ heard /\ signals = <<>> /\ at = 0
PollingFollowsHost ==
  /\ Settled => (rasTimer <=> host = "Running")
  /\ up /\ ~heard => ~rasTimer

\* The journal says of each place what the mask says of its bit, and of the one
\* whose entry is due the opposite.  Only a daemon that died while the journal
\* said Asserted of a place leaves an entry behind that nothing will take back.
InMask == {Message(a[1], a[2]) : a \in {aa \in Alerts : aa[2] \in curEventMask[aa[1]]}}
Due == {Message(Idx, b) : b \in turning}
Told == (InMask \ Due) \cup (Due \ InMask)
LogTellsState ==
  /\ Told \subseteq shown
  /\ ~forgot => shown = Told

\* No line gets lost between a poll, the hardware and the host's switches: it
\* waits, is in hand or in the journal, unless it is malformed or the daemon
\* died.
NothingLost ==
  ~died =>
    raised \ (waiting \cup lines \cup recording \cup logged) \subseteq Malformed(raised)

\* As long as no call of the LED manager failed or was cut off by a death, the
\* LED is lit by a UE, from its journal entry until the host is heard to be off,
\* and dark once that is handled.
LedShowsUE ==
  ~ledLost =>
    /\ ueSince => led \/ \E e \in recording : IsPlainUE(e)
    /\ Settled /\ host = "Off" => ~led

\* While the host stays on and the daemon polls it, what a poll can read of
\* the hardware for good ends up in the event log.
Polled == up /\ heard /\ host = "Running"
ShownCatchesUp ==
  \A a \in Alerts :
    /\ <>[](Polled /\ a \in alerts) => <>[](Message(a[1], a[2]) \in shown)
    /\ <>[](Polled /\ a \notin alerts /\ ~forgot) => <>[](Message(a[1], a[2]) \notin shown)

\* A line that waits while the host stays on and the daemon polls it is read.
WaitingIsTaken ==
  \A e \in Errors : <>[]Polled => []<>(e \notin waiting)
===============================================================================
