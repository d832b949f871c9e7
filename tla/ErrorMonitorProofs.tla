-------------------------- MODULE ErrorMonitorProofs --------------------------
(***************************************************************************)
(* The host error monitor polls exactly while the host runs, its event log *)
(* says what its masks say, its LED shows uncorrectable errors and no line *)
(* gets lost: for all boards, files, errors and alerts.  Of every line its *)
(* two log entries tell the error.                                         *)
(***************************************************************************)
EXTENDS ErrorMonitor, RasLine, WellFoundedInduction, TLAPS

-------------------------------------------------------------------------------
(* The rows of a poll.                                                      *)

\* A set of naturals that is not empty has a least element.
LEMMA LeastNatural ==
  ASSUME NEW T \in SUBSET Nat, T # {}
  PROVE  \E x \in T : \A y \in T : x <= y
<1> DEFINE R == {ss \in Nat \X Nat : ss[1] < ss[2]}
<1>1. OpToRel(<, Nat) = R
  BY DEF OpToRel
<1>2. IsWellFoundedOn(R, Nat)
  BY <1>1, NatLessThanWellFounded
<1>3. PICK x \in T : \A y \in T : ~ (<<y, x>> \in R)
  BY <1>2, WFMin
<1>4. \A y \in T : ~ (y < x) /\ y \in Nat /\ x \in Nat
  BY <1>3
<1> QED BY <1>4

LEMMA ReadableRows == Readable \subseteq 1..32
BY DEF Readable, NumErrors, NumEvents

\* getErrorsAndEvents goes on to a row it can read, or ends.
LEMMA NextRowType ==
  ASSUME NEW i \in Nat
  PROVE  NextRow(i) \in Readable \cup {0}
<1> DEFINE rest == {j \in Readable : j > i}
<1>1. CASE rest = {}
  BY <1>1 DEF NextRow
<1>2. CASE rest # {}
  <2>1. rest \subseteq Nat
    <3>1. \A j \in Readable : j \in 1..32
      BY ReadableRows
    <3> QED BY <3>1
  <2>2. \E j \in rest : \A k \in rest : j <= k
    BY <1>2, <2>1, LeastNatural
  <2> QED BY <1>2, <2>2 DEF NextRow
<1> QED BY <1>1, <1>2

\* The eight event files.
LEMMA EventRows ==
  ASSUME NEW i \in EventIdx, NEW j \in EventIdx
  PROVE  /\ EventRow(i).label \in {"event_vrd_warn_fault", "event_vrd_hot",
                                   "event_dimm_hot", "event_dimm_2x_refresh"}
         /\ EventRow(i) = EventRow(j) => i = j
         /\ EventRow(i) = [socket |-> EventRow(i).socket, label |-> EventRow(i).label]
BY SMTT(60) DEF EventRow, EventIdx, NumEvents, eventTypeTable

\* The entries of one file name its bits apart.
LEMMA PlacesDiffer ==
  ASSUME NEW label \in {"event_vrd_warn_fault", "event_vrd_hot",
                        "event_dimm_hot", "event_dimm_2x_refresh"},
         NEW b \in Watched(label), NEW c \in Watched(label),
         Place(label, b) = Place(label, c)
  PROVE  b = c
<1>1. CASE label = "event_vrd_warn_fault"
  BY <1>1 DEF Place, Watched, WarnFaultPlace
<1>2. CASE label = "event_vrd_hot"
  BY <1>2 DEF Place, Watched, VrdHotPlace
<1>3. CASE label = "event_dimm_hot"
  <2>1. b \in 0..15 /\ c \in 0..15
    BY <1>3 DEF Watched
  <2>2. b \div 8 = c \div 8 /\ b % 8 = c % 8
    BY <1>3 DEF Place, DimmHotPlace
  <2> QED BY <2>1, <2>2
<1>4. CASE label = "event_dimm_2x_refresh"
  BY <1>4 DEF Place, Watched, RefreshPlace
<1> QED BY <1>1, <1>2, <1>3, <1>4

\* No two bits share a message.
LEMMA MessagesDiffer ==
  ASSUME NEW i \in EventIdx, NEW j \in EventIdx,
         NEW b \in Watched(EventRow(i).label), NEW c \in Watched(EventRow(j).label),
         Message(i, b) = Message(j, c)
  PROVE  i = j /\ b = c
<1>1. EventRow(i).label = EventRow(j).label /\ EventRow(i).socket = EventRow(j).socket
        /\ Place(EventRow(i).label, b) = Place(EventRow(j).label, c)
  BY DEF Message
<1>2. i = j
  BY <1>1, EventRows
<1> QED BY <1>1, <1>2, EventRows, PlacesDiffer

-------------------------------------------------------------------------------
(* The inductive invariant: what the daemon has heard of the host and what  *)
(* it does about it.                                                        *)

DownIsReset ==
  ~up => /\ signals = <<>> /\ ~rasTimer /\ at = 0 /\ then = "nothing" /\ ~heard
         /\ curEventMask = NoMask

\* A poll belongs to a timer or to the handler that starts one; the last
\* state that waits is the host's; with none waiting, the last one handled is.
PollInv ==
  /\ signals # <<>> => signals[Len(signals)] = host
  /\ at # 0 => rasTimer \/ then = "start"
  /\ then = "start" => at # 0
  /\ ~heard => ~rasTimer /\ then = "nothing"
  /\ up /\ heard /\ signals = <<>> => (host = "Running" <=> rasTimer \/ then = "start")

LedInv ==
  ~ledLost => /\ ueSince => led \/ \E e \in recording : IsPlainUE(e)
              /\ up /\ heard /\ signals = <<>> /\ host = "Off" => ~led

\* What a poll has in hand belongs to the row it is at; one line or bit at a
\* time is between its record and its entry.
HandInv ==
  /\ (lines # {} \/ recording # {}) => up /\ at \in 1..NumErrors
  /\ (bits # {} \/ turning # {}) => up /\ at > NumErrors
  /\ \A x, y \in recording : x = y
  /\ \A x, y \in turning : x = y
  /\ \A b \in bits \cup turning : <<Idx, b>> \in Alerts

IInv == TypeOK /\ DownIsReset /\ PollInv /\ HandInv

LEMMA NoMaskType == NoMask \in [EventIdx -> SUBSET (0..15)] /\ \A i \in EventIdx : NoMask[i] = {}
BY DEF NoMask

LEMMA InitInv == Init => IInv
<1> SUFFICES ASSUME Init PROVE IInv
  OBVIOUS
<1>1. signals \in Seq({"Off", "Running"}) /\ Len(signals) <= MaxSignals
  BY MonitorAssumption DEF Init
<1>2. TypeOK
  <2>1. \A i \in EventIdx : curEventMask[i] = {}
    BY NoMaskType DEF Init
  <2>2. curEventMask \in [EventIdx -> SUBSET (0..15)]
    BY NoMaskType DEF Init
  <2>3. shown \subseteq {Message(a[1], a[2]) : a \in Alerts}
    BY DEF Init
  <2>4. crashes \in 0..MaxCrashes /\ misreads \in 0..MaxMisreads
    BY MonitorAssumption DEF Init
  <2> QED BY <1>1, <2>1, <2>2, <2>3, <2>4 DEF Init, TypeOK
<1> QED BY <1>2 DEF Init, IInv, DownIsReset, PollInv, HandInv

\* Going on to the next file, or staying at this one.
LEMMA GoOnTypes ==
  ASSUME IInv, NextFile \/ UNCHANGED <<rasTimer, at, then>>
  PROVE  /\ at' \in Readable \cup {0} /\ rasTimer' \in BOOLEAN
         /\ then' \in {"nothing", "start"}
         /\ at' # 0 => UNCHANGED <<rasTimer, then>>
         /\ at # 0 => (rasTimer' \/ then' = "start")
         /\ then' = "start" => at' # 0
         /\ (rasTimer' \/ then' = "start") <=> (rasTimer \/ then = "start")
<1>1. at \in Nat
  <2>1. \A j \in Readable : j \in 1..32
    BY ReadableRows
  <2>2. at \in Readable \cup {0}
    BY DEF IInv, TypeOK
  <2> QED BY <2>1, <2>2
<1>2. at' \in Readable \cup {0}
  BY <1>1, NextRowType DEF NextFile, IInv, TypeOK
<1>3. CASE NextFile
  <2>1. rasTimer \in BOOLEAN /\ then \in {"nothing", "start"}
    BY DEF IInv, TypeOK
  <2>2. at # 0 => rasTimer \/ then = "start"
    BY DEF IInv, PollInv
  <2>3. CASE at' = 0 /\ then = "start"
    <3>1. rasTimer' = TRUE /\ then' = "nothing"
      BY <1>3, <2>3 DEF NextFile
    <3> QED BY <1>2, <2>3, <3>1
  <2>4. CASE ~(at' = 0 /\ then = "start")
    <3>1. rasTimer' = rasTimer /\ then' = then
      BY <1>3, <2>4 DEF NextFile
    <3> QED BY <1>2, <2>1, <2>2, <2>4, <3>1
  <2> QED BY <2>3, <2>4
<1>4. CASE UNCHANGED <<rasTimer, at, then>>
  BY <1>2, <1>4 DEF IInv, TypeOK, PollInv
<1> QED BY <1>3, <1>4

\* A step of a poll.
LEMMA PollStep ==
  ASSUME IInv, up, at # 0, NextFile \/ UNCHANGED <<rasTimer, at, then>>,
         UNCHANGED <<up, signals, host, heard>>
  PROVE  DownIsReset' /\ PollInv'
BY GoOnTypes DEF IInv, DownIsReset, PollInv

\* The row of a poll.
LEMMA RowTypes ==
  ASSUME TypeOK
  PROVE  /\ at \in 0..32
         /\ AtErrors => at \in 1..NumErrors /\ at # 0 /\ up /\ ~(at > NumErrors)
         /\ AtEvents => at # 0 /\ up /\ at \notin 1..NumErrors /\ Idx \in EventIdx
<1>1. at \in 0..32
  <2>1. \A j \in Readable : j \in 1..32
    BY ReadableRows
  <2>2. at \in Readable \cup {0}
    BY DEF TypeOK
  <2> QED BY <2>1, <2>2
<1> QED BY <1>1 DEF AtErrors, AtEvents, NumErrors, NumEvents, EventIdx, Idx

\* What dying leaves of the types and of the rest.
LEMMA DieInv ==
  ASSUME IInv, Die, host' = host
  PROVE  /\ DownIsReset' /\ PollInv' /\ HandInv'
         /\ lines' \subseteq raised' /\ recording' \subseteq raised'
         /\ bits' \subseteq 0..15 /\ turning' \subseteq 0..15
         /\ ledLost' \in BOOLEAN
         /\ up' \in BOOLEAN /\ signals' \in Seq({"Off", "Running"}) /\ Len(signals') <= MaxSignals
         /\ rasTimer' \in BOOLEAN /\ at' \in Readable \cup {0} /\ then' \in {"nothing", "start"}
         /\ curEventMask' \in [EventIdx -> SUBSET (0..15)]
         /\ \A i \in EventIdx : curEventMask'[i] = {}
         /\ heard' \in BOOLEAN /\ forgot' \in BOOLEAN /\ died' \in BOOLEAN
<1>1. /\ DownIsReset' /\ PollInv' /\ HandInv'
  BY DEF Die, DownIsReset, PollInv, HandInv, NoMask
<1>2. signals' \in Seq({"Off", "Running"}) /\ Len(signals') <= MaxSignals
  BY MonitorAssumption DEF Die
<1>3. forgot' \in BOOLEAN /\ ledLost' \in BOOLEAN
  BY DEF Die, IInv, TypeOK
<1> QED BY <1>1, <1>2, <1>3, NoMaskType DEF Die

\* While nothing is in hand, the invariant of what is in hand asks for nothing.
LEMMA EmptyHand ==
  ASSUME IInv, up => at = 0
  PROVE  /\ lines = {} /\ recording = {} /\ bits = {} /\ turning = {}
         /\ UNCHANGED inHand => HandInv'
BY DEF IInv, HandInv, inHand, NumErrors

LEMMA StepInv == IInv /\ [Next]_vars => IInv'
<1> SUFFICES ASSUME IInv, [Next]_vars PROVE IInv'
  OBVIOUS
<1> USE DEF daemonVars, boardVars, ledVars, deathVars
<1>t. TypeOK /\ DownIsReset /\ PollInv /\ HandInv
  BY DEF IInv
<1>1. CASE Start
  <2>1. TypeOK'
    BY <1>t, <1>1 DEF Start, TypeOK, inHand
  <2>2. HandInv'
    BY <1>1, EmptyHand DEF Start
  <2> QED BY <1>t, <1>1, <2>1, <2>2 DEF Start, IInv, DownIsReset, PollInv
<1>2. CASE Crash
  <2>1. UNCHANGED <<host, alerts, waiting, raised, led, ueSince, logged, shown, misreads>>
          /\ Die /\ crashes' \in 0..MaxCrashes
    BY <1>t, <1>2, MonitorAssumption DEF Crash, TypeOK
  <2>2. TypeOK'
    BY <1>t, <2>1, DieInv DEF TypeOK
  <2> QED BY <2>1, <2>2, DieInv DEF IInv
<1>3. CASE HandleRunning
  <2>1. /\ signals' \in Seq({"Off", "Running"}) /\ Len(signals') <= MaxSignals
        /\ signals' # <<>> => signals'[Len(signals')] = host
        /\ signals' = <<>> => host = "Running"
    <3>1. signals \in Seq({"Off", "Running"}) /\ Len(signals) \in Nat /\ Len(signals) <= MaxSignals
            /\ MaxSignals \in Nat
      BY <1>t, MonitorAssumption DEF TypeOK
    <3>2. signals # <<>> /\ Head(signals) = "Running" /\ signals' = Tail(signals)
            /\ signals[Len(signals)] = host
      BY <1>t, <1>3 DEF HandleRunning, PollInv
    <3>3. signals' = <<>> => Len(signals) = 1 /\ signals[1] = "Running"
      <4>1. Len(Tail(signals)) = Len(signals) - 1 /\ Head(signals) = signals[1]
        BY <3>1, <3>2
      <4>2. signals' = <<>> => Len(signals') = 0
        OBVIOUS
      <4> QED BY <3>1, <3>2, <4>1, <4>2
    <3> QED BY <3>1, <3>2, <3>3
  <2>2. at' \in Readable \cup {0}
    BY <1>3, NextRowType DEF HandleRunning
  <2>3. /\ rasTimer' \in BOOLEAN /\ then' \in {"nothing", "start"} /\ heard' \in BOOLEAN
        /\ heard' /\ up'
        /\ (rasTimer' \/ then' = "start")
        /\ then' = "start" => at' # 0
    BY <1>t, <1>3 DEF HandleRunning, Idle, TypeOK, PollInv
  <2>4. TypeOK'
    BY <1>t, <1>3, <2>1, <2>2, <2>3 DEF HandleRunning, TypeOK, inHand
  <2>5. HandInv'
    BY <1>3, EmptyHand DEF HandleRunning, Idle
  <2> QED BY <1>t, <1>3, <2>1, <2>3, <2>4, <2>5 DEF HandleRunning, IInv, DownIsReset, PollInv
<1>4. CASE HandleOff
  <2>1. /\ signals' \in Seq({"Off", "Running"}) /\ Len(signals') <= MaxSignals
        /\ signals' # <<>> => signals'[Len(signals')] = host
        /\ signals' = <<>> => host # "Running"
    <3>1. signals \in Seq({"Off", "Running"}) /\ Len(signals) \in Nat /\ Len(signals) <= MaxSignals
            /\ MaxSignals \in Nat
      BY <1>t, MonitorAssumption DEF TypeOK
    <3>2. signals # <<>> /\ Head(signals) # "Running" /\ signals' = Tail(signals)
            /\ signals[Len(signals)] = host
      BY <1>t, <1>4 DEF HandleOff, PollInv
    <3>3. signals' = <<>> => Len(signals) = 1 /\ signals[1] # "Running"
      <4>1. Len(Tail(signals)) = Len(signals) - 1 /\ Head(signals) = signals[1]
        BY <3>1, <3>2
      <4>2. signals' = <<>> => Len(signals') = 0
        OBVIOUS
      <4> QED BY <3>1, <3>2, <4>1, <4>2
    <3> QED BY <3>1, <3>2, <3>3
  <2>2. at = 0 /\ up /\ then = "nothing" /\ then' = "nothing" /\ at' = 0 /\ up' /\ heard' /\ ~rasTimer'
    BY <1>t, <1>4 DEF HandleOff, Idle, TypeOK, PollInv
  <2>3. led' \in BOOLEAN /\ ledLost' \in BOOLEAN /\ ueSince' \in BOOLEAN
          /\ rasTimer' \in BOOLEAN /\ heard' \in BOOLEAN
    BY <1>t, <1>4 DEF HandleOff, SetLed, TypeOK
  <2>4. TypeOK'
    BY <1>t, <1>4, <2>1, <2>2, <2>3 DEF HandleOff, TypeOK, inHand
  <2>5. HandInv'
    BY <1>4, <2>2, EmptyHand DEF HandleOff
  <2> QED BY <1>t, <1>4, <2>1, <2>2, <2>4, <2>5 DEF HandleOff, IInv, DownIsReset, PollInv
<1>5. CASE TimerFires
  <2>1. at' \in Readable \cup {0}
    BY <1>5, NextRowType DEF TimerFires
  <2>2. TypeOK'
    BY <1>t, <1>5, <2>1 DEF TimerFires, TypeOK, inHand
  <2>3. HandInv'
    BY <1>5, EmptyHand DEF TimerFires, Idle
  <2> QED BY <1>t, <1>5, <2>2, <2>3 DEF TimerFires, Idle, IInv, DownIsReset, PollInv
<1>6. CASE ReadErrors
  <2>1. AtErrors /\ lines = {} /\ recording = {} /\ bits = {} /\ turning = {} /\ LineDone
    BY <1>t, <1>6, RowTypes DEF ReadErrors, HandInv
  <2>2. /\ UNCHANGED <<signals, recording, bits, turning, curEventMask, heard, host, alerts, raised,
                       led, ueSince, ledLost, up, forgot, died, crashes, logged, shown, misreads>>
        /\ lines' \subseteq raised /\ waiting' \subseteq raised
    BY <1>t, <1>6 DEF ReadErrors, LinesAt, TypeOK
  <2>3. NextFile \/ UNCHANGED <<rasTimer, at, then>>
    BY <2>1 DEF LineDone
  <2>4. TypeOK'
    BY <1>t, <2>2, <2>3, GoOnTypes DEF TypeOK
  <2>5. HandInv'
    BY <1>t, <2>1, <2>2, RowTypes DEF HandInv, LineDone
  <2> QED BY <1>t, <2>1, <2>2, <2>3, <2>4, <2>5, PollStep, RowTypes DEF IInv
<1>7. CASE RecordError
  <2>1. AtErrors /\ recording = {} /\ bits = {} /\ turning = {}
    BY <1>t, <1>7, RowTypes DEF RecordError, HandInv
  <2>2. PICK e \in lines : lines' = lines \ {e} /\ recording' = {e}
                            /\ ueSince' = (ueSince \/ IsPlainUE(e))
    BY <1>7 DEF RecordError
  <2>3. UNCHANGED <<signals, rasTimer, at, then, bits, turning, curEventMask, heard, host, alerts,
                    waiting, raised, led, ledLost, up, forgot, died, crashes, logged, shown, misreads>>
    BY <1>7 DEF RecordError
  <2>4. ueSince' \in BOOLEAN
    BY <1>t, <2>2 DEF TypeOK
  <2>5. TypeOK'
    BY <1>t, <2>2, <2>3, <2>4 DEF TypeOK
  <2>6. HandInv'
    BY <1>t, <2>1, <2>2, <2>3, RowTypes DEF HandInv
  <2> QED BY <1>t, <2>1, <2>3, <2>5, <2>6, PollStep, RowTypes DEF IInv
<1>8. CASE JournalError
  <2>1. AtErrors /\ bits = {} /\ turning = {} /\ LineDone /\ recording' = {} /\ lines' = lines
    BY <1>t, <1>8, RowTypes DEF JournalError, HandInv
  <2>2. /\ UNCHANGED <<signals, bits, turning, curEventMask, heard, host, alerts, waiting, raised,
                       ueSince, up, forgot, died, crashes, shown, misreads>>
        /\ logged' \subseteq raised
    BY <1>t, <1>8 DEF JournalError, TypeOK
  <2>3. led' \in BOOLEAN /\ ledLost' \in BOOLEAN
    BY <1>t, <1>8 DEF JournalError, SetLed, TypeOK
  <2>4. NextFile \/ UNCHANGED <<rasTimer, at, then>>
    BY <2>1 DEF LineDone
  <2>5. TypeOK'
    BY <1>t, <2>1, <2>2, <2>3, <2>4, GoOnTypes DEF TypeOK
  <2>6. HandInv'
    BY <1>t, <2>1, <2>2, RowTypes DEF HandInv, LineDone
  <2> QED BY <1>t, <2>1, <2>2, <2>4, <2>5, <2>6, PollStep, RowTypes DEF IInv
<1>9. CASE DropLine
  <2>1. AtErrors /\ recording = {} /\ bits = {} /\ turning = {} /\ LineDone
    BY <1>t, <1>9, RowTypes DEF DropLine, HandInv
  <2>2. /\ UNCHANGED <<signals, recording, bits, turning, curEventMask, heard, host, alerts, waiting,
                       raised, led, ueSince, ledLost, up, forgot, died, crashes, logged, shown, misreads>>
        /\ lines' \subseteq raised
    BY <1>t, <1>9 DEF DropLine, TypeOK
  <2>3. NextFile \/ UNCHANGED <<rasTimer, at, then>>
    BY <2>1 DEF LineDone
  <2>4. TypeOK'
    BY <1>t, <2>2, <2>3, GoOnTypes DEF TypeOK
  <2>5. HandInv'
    BY <1>t, <2>1, <2>2, RowTypes DEF HandInv, LineDone
  <2> QED BY <1>t, <2>1, <2>2, <2>3, <2>4, <2>5, PollStep, RowTypes DEF IInv
<1>10. CASE ParseThrows
  <2>1. UNCHANGED <<host, alerts, waiting, raised, led, ueSince, crashes, logged, shown, misreads>> /\ Die
    BY <1>10 DEF ParseThrows
  <2>2. TypeOK'
    BY <1>t, <2>1, DieInv DEF TypeOK
  <2> QED BY <2>1, <2>2, DieInv DEF IInv
<1>11. CASE ReadEvents
  <2>1. AtEvents /\ lines = {} /\ recording = {} /\ bits = {} /\ turning = {} /\ BitDone
    BY <1>t, <1>11, RowTypes DEF ReadEvents, HandInv
  <2>2. UNCHANGED <<signals, lines, recording, turning, curEventMask, heard, host, alerts, waiting,
                    raised, led, ueSince, ledLost, up, forgot, died, crashes, logged, shown, misreads>>
    BY <1>11 DEF ReadEvents
  <2>3. \A b \in bits' : b \in 0..15 /\ <<Idx, b>> \in Alerts
    <3>1. \A b \in BitsAt(Idx) : b \in 0..15 /\ <<Idx, b>> \in Alerts
      BY <1>t, MonitorAssumption DEF BitsAt, TypeOK, Bit
    <3>2. \A b \in curEventMask[Idx] : b \in 0..15 /\ <<Idx, b>> \in Alerts
      BY <1>t, <2>1, RowTypes DEF TypeOK
    <3> QED BY <1>11, <3>1, <3>2 DEF ReadEvents
  <2>4. NextFile \/ UNCHANGED <<rasTimer, at, then>>
    BY <2>1 DEF BitDone
  <2>5. TypeOK'
    BY <1>t, <2>1, <2>2, <2>3, <2>4, GoOnTypes DEF TypeOK
  <2>6. HandInv'
    <3>1. bits' # {} => at' = at
      BY <2>1 DEF BitDone
    <3> QED BY <2>1, <2>2, <2>3, <3>1 DEF HandInv, Idx, AtEvents
  <2> QED BY <1>t, <2>1, <2>2, <2>4, <2>5, <2>6, PollStep, RowTypes DEF IInv
<1>12. CASE TurnBit
  <2>1. AtEvents /\ lines = {} /\ recording = {} /\ turning = {} /\ Idx \in EventIdx
    BY <1>t, <1>12, RowTypes DEF TurnBit, HandInv
  <2>2. PICK b \in bits : /\ curEventMask' = [curEventMask EXCEPT
                                 ![Idx] = IF b \in @ THEN @ \ {b} ELSE @ \cup {b}]
                           /\ bits' = bits \ {b} /\ turning' = {b}
    BY <1>12 DEF TurnBit
  <2>3. UNCHANGED <<signals, rasTimer, at, then, lines, recording, heard, host, alerts, waiting, raised,
                    led, ueSince, ledLost, up, forgot, died, crashes, logged, shown, misreads>>
    BY <1>12 DEF TurnBit
  <2>4. b \in 0..15 /\ <<Idx, b>> \in Alerts
    BY <1>t DEF TypeOK, HandInv
  <2>5. /\ curEventMask' \in [EventIdx -> SUBSET (0..15)]
        /\ \A j \in EventIdx : \A c \in curEventMask'[j] : <<j, c>> \in Alerts
    <3> DEFINE i == Idx
    <3>1. /\ curEventMask \in [EventIdx -> SUBSET (0..15)]
          /\ \A j \in EventIdx : \A c \in curEventMask[j] : <<j, c>> \in Alerts
      BY <1>t DEF TypeOK
    <3>2. i \in EventIdx /\ <<i, b>> \in Alerts
            /\ curEventMask' = [curEventMask EXCEPT ![i] = IF b \in @ THEN @ \ {b} ELSE @ \cup {b}]
      BY <2>1, <2>2, <2>4
    <3> HIDE DEF i
    <3> QED BY <2>4, <3>1, <3>2
  <2>6. TypeOK'
    BY <1>t, <2>2, <2>3, <2>4, <2>5 DEF TypeOK
  <2>7. HandInv'
    BY <1>t, <2>1, <2>2, <2>3, <2>4 DEF HandInv, AtEvents, Idx
  <2> QED BY <1>t, <2>1, <2>3, <2>6, <2>7, PollStep, RowTypes DEF IInv
<1>13. CASE JournalEvent
  <2>1. AtEvents /\ lines = {} /\ recording = {} /\ BitDone /\ turning' = {} /\ bits' = bits
          /\ Idx \in EventIdx
    BY <1>t, <1>13, RowTypes DEF JournalEvent, HandInv
  <2>2. UNCHANGED <<signals, lines, recording, curEventMask, heard, host, alerts, waiting, raised,
                    led, ueSince, ledLost, up, forgot, died, crashes, logged, misreads>>
    BY <1>13 DEF JournalEvent
  <2>3. shown' \subseteq {Message(a[1], a[2]) : a \in Alerts}
    <3>1. PICK b \in turning : shown' \subseteq shown \cup {Message(Idx, b)}
      BY <1>13 DEF JournalEvent
    <3>2. <<Idx, b>> \in Alerts
      BY <1>t DEF HandInv
    <3>3. Message(Idx, b) \in {Message(a[1], a[2]) : a \in Alerts}
      BY <3>2
    <3> QED BY <1>t, <3>1, <3>3 DEF TypeOK
  <2>4. NextFile \/ UNCHANGED <<rasTimer, at, then>>
    BY <2>1 DEF BitDone
  <2>5. TypeOK'
    BY <1>t, <2>1, <2>2, <2>3, <2>4, GoOnTypes DEF TypeOK
  <2>6. HandInv'
    <3>1. bits' # {} => at' = at
      BY <2>1 DEF BitDone
    <3> QED BY <1>t, <2>1, <2>2, <3>1 DEF HandInv, Idx, AtEvents
  <2> QED BY <1>t, <2>1, <2>2, <2>4, <2>5, <2>6, PollStep, RowTypes DEF IInv
<1>14. CASE SkipEvents
  <2>1. AtEvents /\ lines = {} /\ recording = {} /\ bits = {} /\ turning = {} /\ NextFile
    BY <1>t, <1>14, RowTypes DEF SkipEvents, HandInv
  <2>2. UNCHANGED <<signals, lines, recording, bits, turning, curEventMask, heard, host, alerts, waiting,
                    raised, led, ueSince, ledLost, up, forgot, died, crashes, logged, shown>>
          /\ misreads' \in 0..MaxMisreads
    BY <1>t, <1>14, MonitorAssumption DEF SkipEvents, inHand, TypeOK
  <2>3. TypeOK'
    BY <1>t, <2>1, <2>2, GoOnTypes DEF TypeOK
  <2>4. HandInv'
    BY <2>1, <2>2 DEF HandInv
  <2> QED BY <1>t, <2>1, <2>2, <2>3, <2>4, PollStep, RowTypes DEF IInv
<1>15. CASE HostSwitches
  <2>1. host' \in {"Off", "Running"}
    BY <1>15 DEF HostSwitches
  <2>2. CASE up
    <3>1. signals \in Seq({"Off", "Running"}) /\ Len(signals) \in Nat /\ Len(signals) < MaxSignals
            /\ MaxSignals \in Nat /\ signals' = Append(signals, host')
      BY <1>t, <1>15, <2>2, MonitorAssumption DEF TypeOK, HostSwitches
    <3>2. /\ signals' \in Seq({"Off", "Running"}) /\ Len(signals') <= MaxSignals
          /\ signals' # <<>> /\ signals'[Len(signals')] = host'
      BY <2>1, <3>1
    <3>3. TypeOK'
      BY <1>t, <1>15, <2>1, <3>2 DEF HostSwitches, TypeOK, inHand
    <3> QED BY <1>t, <1>15, <2>2, <3>2, <3>3 DEF HostSwitches, IInv, DownIsReset, PollInv, HandInv, inHand, Idx
  <2>3. CASE ~up
    <3>1. signals' = signals /\ signals = <<>>
      BY <1>t, <1>15, <2>3 DEF HostSwitches, DownIsReset
    <3>2. TypeOK'
      BY <1>t, <1>15, <2>1, <3>1 DEF HostSwitches, TypeOK, inHand
    <3> QED BY <1>t, <1>15, <2>3, <3>1, <3>2 DEF HostSwitches, IInv, DownIsReset, PollInv, HandInv, inHand, Idx
  <2> QED BY <2>2, <2>3
<1>16. CASE ErrorRaised
  <2>1. waiting' \subseteq raised' /\ raised' \subseteq Errors /\ logged' \subseteq raised'
    BY <1>t, <1>16 DEF ErrorRaised, TypeOK, inHand
  <2>2. TypeOK'
    BY <1>t, <1>16, <2>1 DEF ErrorRaised, TypeOK, inHand
  <2> QED BY <1>t, <1>16, <2>2 DEF ErrorRaised, IInv, DownIsReset, PollInv, HandInv, inHand, Idx
<1>17. CASE AlertChanges
  <2>1. alerts' \subseteq Alerts
    BY <1>t, <1>17, MonitorAssumption DEF AlertChanges, TypeOK
  <2>2. TypeOK'
    BY <1>t, <1>17, <2>1 DEF AlertChanges, TypeOK, inHand
  <2> QED BY <1>t, <1>17, <2>2 DEF AlertChanges, IInv, DownIsReset, PollInv, HandInv, inHand, Idx
<1>18. CASE UNCHANGED vars
  <2>1. TypeOK'
    BY <1>t, <1>18 DEF vars, TypeOK, inHand
  <2> QED BY <1>t, <1>18, <2>1 DEF vars, IInv, DownIsReset, PollInv, HandInv, inHand, Idx
<1> QED
  BY <1>1, <1>2, <1>3, <1>4, <1>5, <1>6, <1>7, <1>8, <1>9, <1>10, <1>11, <1>12, <1>13, <1>14,
     <1>15, <1>16, <1>17, <1>18 DEF Next

LEMMA SpecInv == Spec => []IInv
<1>1. Init => IInv
  BY InitInv
<1>2. IInv /\ [Next]_vars => IInv'
  BY StepInv
<1> QED BY <1>1, <1>2, PTL DEF Spec

\* The types of the daemon, the hardware and the host hold for every board.
THEOREM MonitorTypes == Spec => []TypeOK
<1>1. IInv => TypeOK
  BY DEF IInv
<1> QED BY <1>1, SpecInv, PTL

\* In whatever order polls, signals and the host's switches come, a daemon
\* that has handled what it heard polls exactly while the host runs.
THEOREM PollsWhileHostRuns == Spec => []PollingFollowsHost
<1>1. IInv => PollingFollowsHost
  BY DEF IInv, PollInv, PollingFollowsHost, Settled
<1> QED BY <1>1, SpecInv, PTL

-------------------------------------------------------------------------------
(* The journal and the masks.                                               *)

\* What the journal is to say of a bit: what its mask says, and the opposite
\* while its entry is due.
Says(a) == a[2] \in curEventMask[a[1]] <=> ~(a[1] = Idx /\ a[2] \in turning)
SaidIsShown == \A a \in Alerts : Says(a) => Message(a[1], a[2]) \in shown
ShownIsSaid ==
  ~forgot => \A x \in shown : \E a \in Alerts : Says(a) /\ x = Message(a[1], a[2])
LogInv == SaidIsShown /\ ShownIsSaid

\* No two alerts share a message.
LEMMA AlertsDiffer ==
  ASSUME NEW a \in Alerts, NEW c \in Alerts, Message(a[1], a[2]) = Message(c[1], c[2])
  PROVE  a = c
<1>1. a \in Bit /\ c \in Bit
  BY MonitorAssumption
<1>2. /\ a[1] \in EventIdx /\ a[2] \in Watched(EventRow(a[1]).label) /\ a = <<a[1], a[2]>>
      /\ c[1] \in EventIdx /\ c[2] \in Watched(EventRow(c[1]).label) /\ c = <<c[1], c[2]>>
  BY <1>1 DEF Bit
<1>3. a[1] = c[1] /\ a[2] = c[2]
  BY <1>2, MessagesDiffer
<1> QED BY <1>2, <1>3

\* The messages of the bits in the masks, and of those whose entry is due.
LEMMA ToldIsSaid ==
  ASSUME TypeOK, HandInv, NEW x
  PROVE  x \in Told <=> \E a \in Alerts : Says(a) /\ x = Message(a[1], a[2])
<1>1. ASSUME NEW a \in Alerts PROVE Message(a[1], a[2]) \in InMask <=> a[2] \in curEventMask[a[1]]
  BY AlertsDiffer DEF InMask
<1>2. ASSUME NEW a \in Alerts
      PROVE  Message(a[1], a[2]) \in Due <=> a[1] = Idx /\ a[2] \in turning
  <2>1. ASSUME Message(a[1], a[2]) \in Due PROVE a[1] = Idx /\ a[2] \in turning
    <3>1. PICK b \in turning : Message(a[1], a[2]) = Message(Idx, b)
      BY <2>1 DEF Due
    <3>2. <<Idx, b>> \in Alerts /\ <<Idx, b>>[1] = Idx /\ <<Idx, b>>[2] = b
      BY DEF HandInv
    <3>3. a = <<Idx, b>>
      BY <3>1, <3>2, AlertsDiffer
    <3> QED BY <3>2, <3>3
  <2> QED BY <2>1 DEF Due
<1>3. ASSUME x \in InMask \cup Due PROVE \E a \in Alerts : x = Message(a[1], a[2])
  <2>1. CASE x \in InMask
    BY <2>1 DEF InMask
  <2>2. CASE x \in Due
    <3>1. PICK b \in turning : x = Message(Idx, b)
      BY <2>2 DEF Due
    <3>2. <<Idx, b>> \in Alerts /\ <<Idx, b>>[1] = Idx /\ <<Idx, b>>[2] = b
      BY DEF HandInv
    <3> QED BY <3>1, <3>2
  <2> QED BY <1>3, <2>1, <2>2
<1>4. ASSUME NEW a \in Alerts PROVE Message(a[1], a[2]) \in Told <=> Says(a)
  BY <1>1, <1>2 DEF Told, Says
<1> QED BY <1>3, <1>4 DEF Told

LEMMA LogInvMeans ==
  ASSUME TypeOK, HandInv, LogInv
  PROVE  LogTellsState
<1>1. Told \subseteq shown
  BY ToldIsSaid DEF LogInv, SaidIsShown
<1>2. ~forgot => shown \subseteq Told
  BY ToldIsSaid DEF LogInv, ShownIsSaid
<1> QED BY <1>1, <1>2 DEF LogTellsState

LEMMA DieLog ==
  ASSUME TypeOK, LogInv, Die, shown' = shown
  PROVE  LogInv'
<1>1. ASSUME NEW a \in Alerts PROVE ~Says(a)'
  <2>1. a[1] \in EventIdx
    BY MonitorAssumption DEF Bit
  <2> QED BY <2>1, NoMaskType DEF Die, Says
<1>2. ~forgot' => shown = {}
  BY DEF Die, TypeOK
<1> QED BY <1>1, <1>2 DEF LogInv, SaidIsShown, ShownIsSaid

\* What is said changes neither with the mask, while the entry is due, nor with
\* the row, while none is.
LEMMA SaidStays ==
  ASSUME LogInv, UNCHANGED <<shown, forgot>>, \A a \in Alerts : Says(a)' <=> Says(a)
  PROVE  LogInv'
BY DEF LogInv, SaidIsShown, ShownIsSaid

LEMMA TurnBitLog ==
  ASSUME IInv, LogInv, TurnBit
  PROVE  LogInv'
<1> DEFINE i == Idx
<1>1. PICK b \in bits : /\ curEventMask' = [curEventMask EXCEPT
                               ![i] = IF b \in @ THEN @ \ {b} ELSE @ \cup {b}]
                        /\ turning' = {b}
  BY DEF TurnBit
<1>2. turning = {} /\ i \in EventIdx /\ UNCHANGED <<shown, forgot>> /\ Idx' = i
  BY RowTypes DEF TurnBit, IInv, deathVars, Idx
<1>3. curEventMask \in [EventIdx -> SUBSET (0..15)]
  BY DEF IInv, TypeOK
<1>4. ASSUME NEW a \in Alerts PROVE Says(a)' <=> Says(a)
  <2>1. a[1] \in EventIdx
    BY MonitorAssumption DEF Bit
  <2>2. Says(a) <=> a[2] \in curEventMask[a[1]]
    BY <1>2 DEF Says
  <2>3. Says(a)' <=> (a[2] \in curEventMask'[a[1]] <=> ~(a[1] = i /\ a[2] = b))
    BY <1>1, <1>2 DEF Says
  <2> HIDE DEF i
  <2>4. CASE a[1] = i
    <3>1. curEventMask'[i] = IF b \in curEventMask[i] THEN curEventMask[i] \ {b}
                             ELSE curEventMask[i] \cup {b}
      BY <1>1, <1>2, <1>3
    <3> QED BY <2>2, <2>3, <2>4, <3>1
  <2>5. CASE a[1] # i
    <3>1. curEventMask'[a[1]] = curEventMask[a[1]]
      BY <1>1, <1>3, <2>1, <2>5
    <3> QED BY <2>2, <2>3, <2>5, <3>1
  <2> QED BY <2>4, <2>5
<1> QED BY <1>2, <1>4, SaidStays

LEMMA JournalEventLog ==
  ASSUME IInv, LogInv, JournalEvent
  PROVE  LogInv'
<1> DEFINE i == Idx
<1>1. PICK b \in turning :
        shown' = IF b \in curEventMask[i] THEN shown \cup {Message(i, b)}
                                          ELSE shown \ {Message(i, b)}
  BY DEF JournalEvent
<1>2. /\ turning' = {} /\ UNCHANGED <<curEventMask, forgot>>
      /\ turning = {b} /\ <<i, b>> \in Alerts
  BY DEF JournalEvent, deathVars, IInv, HandInv
<1>3. ASSUME NEW a \in Alerts
      PROVE  /\ Says(a)' <=> a[2] \in curEventMask[a[1]]
             /\ a # <<i, b>> => (Says(a)' <=> Says(a))
  <2>1. a = <<a[1], a[2]>>
    BY MonitorAssumption DEF Bit
  <2>2. Says(a)' <=> a[2] \in curEventMask[a[1]]
    BY <1>2 DEF Says
  <2>3. Says(a) <=> (a[2] \in curEventMask[a[1]] <=> ~(a[1] = i /\ a[2] = b))
    BY <1>2 DEF Says
  <2> QED BY <2>1, <2>2, <2>3
<1> HIDE DEF i
<1>4. <<i, b>>[1] = i /\ <<i, b>>[2] = b
  OBVIOUS
<1>5. SaidIsShown'
  <2> SUFFICES ASSUME NEW a \in Alerts, Says(a)'
               PROVE  Message(a[1], a[2]) \in shown'
    BY DEF SaidIsShown
  <2>1. CASE a = <<i, b>>
    BY <1>1, <1>3, <1>4, <2>1
  <2>2. CASE a # <<i, b>>
    <3>1. Message(a[1], a[2]) \in shown
      BY <1>3, <2>2 DEF LogInv, SaidIsShown
    <3>2. Message(a[1], a[2]) # Message(i, b)
      BY <1>2, <1>4, <2>2, AlertsDiffer
    <3> QED BY <1>1, <3>1, <3>2
  <2> QED BY <2>1, <2>2
<1>6. ShownIsSaid'
  <2> SUFFICES ASSUME ~forgot, NEW x \in shown'
               PROVE  \E a \in Alerts : Says(a)' /\ x = Message(a[1], a[2])
    BY <1>2 DEF ShownIsSaid
  <2>1. CASE b \in curEventMask[i] /\ x = Message(i, b)
    BY <1>2, <1>3, <1>4, <2>1
  <2>2. CASE x \in shown /\ x # Message(i, b)
    <3>1. PICK a \in Alerts : Says(a) /\ x = Message(a[1], a[2])
      BY <2>2 DEF LogInv, ShownIsSaid
    <3>2. a # <<i, b>>
      BY <1>4, <2>2, <3>1
    <3> QED BY <1>3, <3>1, <3>2
  <2> QED BY <1>1, <2>1, <2>2
<1> QED BY <1>5, <1>6 DEF LogInv

LEMMA StepLog == IInv /\ LogInv /\ [Next]_vars => LogInv'
<1> SUFFICES ASSUME IInv, LogInv, [Next]_vars PROVE LogInv'
  OBVIOUS
<1>t. TypeOK
  BY DEF IInv
<1>1. CASE Crash
  BY <1>t, <1>1, DieLog DEF Crash
<1>2. CASE ParseThrows
  BY <1>t, <1>2, DieLog DEF ParseThrows
<1>3. CASE TurnBit
  BY <1>3, TurnBitLog
<1>4. CASE JournalEvent
  BY <1>4, JournalEventLog
<1>5. ASSUME UNCHANGED <<curEventMask, turning, shown, forgot>>, turning = {} \/ at' = at
      PROVE  LogInv'
  <2>1. ASSUME NEW a \in Alerts PROVE Says(a)' <=> Says(a)
    BY <1>5 DEF Says, Idx
  <2> QED BY <1>5, <2>1, SaidStays
<1>6. \/ Start \/ HandleRunning \/ HandleOff \/ TimerFires \/ ReadErrors \/ RecordError \/ JournalError
      \/ DropLine \/ ReadEvents \/ SkipEvents \/ HostSwitches \/ ErrorRaised \/ AlertChanges
      \/ UNCHANGED vars
      => UNCHANGED <<curEventMask, turning, shown, forgot>>
  BY DEF Start, HandleRunning, HandleOff, TimerFires, ReadErrors, RecordError, JournalError, DropLine,
         ReadEvents, SkipEvents, HostSwitches, ErrorRaised, AlertChanges, vars, daemonVars, deathVars,
         inHand
<1>7. \/ HandleRunning \/ HandleOff \/ TimerFires
      => turning = {}
  BY EmptyHand DEF HandleRunning, HandleOff, TimerFires, Idle
<1>8. ReadErrors \/ JournalError \/ DropLine \/ ReadEvents \/ SkipEvents => turning = {}
  BY <1>t, RowTypes DEF ReadErrors, JournalError, DropLine, ReadEvents, SkipEvents, IInv, HandInv
<1>9. Start \/ RecordError \/ HostSwitches \/ ErrorRaised \/ AlertChanges \/ UNCHANGED vars => at' = at
  BY DEF Start, RecordError, HostSwitches, ErrorRaised, AlertChanges, vars, daemonVars
<1> QED BY <1>1, <1>2, <1>3, <1>4, <1>5, <1>6, <1>7, <1>8, <1>9 DEF Next

\* For every set of files and alerts: the journal says of each place what the
\* mask says of its bit, and of the one whose entry is due the opposite, unless
\* the daemon died while it said Asserted of a place.
THEOREM LogIsFaithful == Spec => []LogTellsState
<1>1. Init => LogInv
  <2> SUFFICES ASSUME Init PROVE LogInv
    OBVIOUS
  <2>1. ASSUME NEW a \in Alerts PROVE ~Says(a)
    <3>1. a[1] \in EventIdx
      BY MonitorAssumption DEF Bit
    <3> QED BY <3>1, NoMaskType DEF Init, Says
  <2> QED BY <2>1 DEF Init, LogInv, SaidIsShown, ShownIsSaid
<1>2. IInv /\ LogInv /\ [Next]_vars => LogInv'
  BY StepLog
<1>3. IInv /\ LogInv => LogTellsState
  BY LogInvMeans DEF IInv
<1> QED BY <1>1, <1>2, <1>3, SpecInv, PTL DEF Spec

-------------------------------------------------------------------------------
(* The LED and the lines of the error files.                                *)

LEMMA StepLed == IInv /\ IInv' /\ LedInv /\ [Next]_vars => LedInv'
<1> SUFFICES ASSUME IInv, IInv', LedInv, [Next]_vars PROVE LedInv'
  OBVIOUS
<1> USE DEF ledVars, deathVars, boardVars, daemonVars, inHand
<1>t. TypeOK /\ DownIsReset /\ PollInv /\ HandInv /\ TypeOK' /\ PollInv'
  BY DEF IInv
<1>1. CASE Start
  BY <1>t, <1>1 DEF Start, DownIsReset, LedInv
<1>2. CASE Crash \/ ParseThrows
  <2>1. up' = FALSE /\ UNCHANGED <<led, ueSince>>
          /\ ledLost' = (ledLost \/ \E e \in recording : IsPlainUE(e))
    BY <1>2 DEF Crash, ParseThrows, Die
  <2> QED BY <1>t, <2>1 DEF LedInv, TypeOK
<1>3. CASE HandleRunning
  <2>1. rasTimer' \/ then' = "start"
    BY <1>3 DEF HandleRunning
  <2>2. heard' /\ signals' = <<>> /\ up' => host' = "Running"
    BY <1>t, <2>1 DEF PollInv
  <2>3. UNCHANGED <<led, ueSince, ledLost, recording>>
    BY <1>3 DEF HandleRunning
  <2> QED BY <2>2, <2>3 DEF LedInv
<1>4. CASE HandleOff
  BY <1>4 DEF HandleOff, SetLed, LedInv
<1>5. CASE TimerFires
  BY <1>5 DEF TimerFires, LedInv
<1>6. CASE ReadErrors \/ DropLine \/ ReadEvents \/ TurnBit \/ JournalEvent \/ SkipEvents
  <2>1. UNCHANGED <<led, ueSince, ledLost, recording, up, heard, signals, host>>
    BY <1>6 DEF ReadErrors, DropLine, ReadEvents, TurnBit, JournalEvent, SkipEvents
  <2> QED BY <2>1 DEF LedInv
<1>7. CASE RecordError
  <2>1. PICK e \in lines : recording' = {e} /\ ueSince' = (ueSince \/ IsPlainUE(e))
    BY <1>7 DEF RecordError
  <2>2. recording = {} /\ UNCHANGED <<led, ledLost, up, heard, signals, host>>
    BY <1>7 DEF RecordError
  <2> QED BY <1>t, <2>1, <2>2 DEF LedInv, TypeOK
<1>8. CASE JournalError
  <2>1. PICK e \in recording : IF LightsLed(e) THEN SetLed(TRUE) ELSE UNCHANGED <<led, ledLost>>
    BY <1>8 DEF JournalError
  <2>2. recording = {e} /\ UNCHANGED <<ueSince, up, heard, signals, host>>
    BY <1>t, <1>8 DEF JournalError, HandInv
  <2>3. signals = <<>> => host = "Running"
    <3>1. up /\ at # 0
      BY <1>8 DEF JournalError, AtErrors, NumErrors
    <3> QED BY <1>t, <3>1 DEF PollInv
  <2>4. CASE LightsLed(e)
    BY <1>t, <2>1, <2>2, <2>3, <2>4 DEF LedInv, SetLed, TypeOK
  <2>5. CASE ~LightsLed(e)
    <3>1. ~IsPlainUE(e)
      BY <2>5 DEF LightsLed, IsPlainUE
    <3> QED BY <2>1, <2>2, <2>5, <3>1 DEF LedInv
  <2> QED BY <2>4, <2>5
<1>9. CASE HostSwitches
  <2>1. up => signals' # <<>>
    <3>1. up => signals' = Append(signals, host') /\ signals \in Seq({"Off", "Running"})
      BY <1>t, <1>9 DEF HostSwitches, TypeOK
    <3> QED BY <3>1
  <2> QED BY <1>9, <2>1 DEF HostSwitches, LedInv
<1>10. CASE ErrorRaised \/ AlertChanges \/ UNCHANGED vars
  <2>1. UNCHANGED <<led, ueSince, ledLost, recording, up, heard, signals, host>>
    BY <1>10 DEF ErrorRaised, AlertChanges, vars
  <2> QED BY <2>1 DEF LedInv
<1> QED BY <1>1, <1>2, <1>3, <1>4, <1>5, <1>6, <1>7, <1>8, <1>9, <1>10 DEF Next

\* For every board: while the LED manager answers and no death comes between,
\* the LED is lit by a logged UE and goes dark when the host is heard to be off.
THEOREM LedIsTruthful == Spec => []LedShowsUE
<1>1. Init => LedInv
  BY DEF Init, LedInv
<1>2. IInv /\ IInv' /\ LedInv /\ [Next]_vars => LedInv'
  BY StepLed
<1>3. LedInv => LedShowsUE
  BY DEF LedInv, LedShowsUE, Settled
<1> QED BY <1>1, <1>2, <1>3, SpecInv, PTL DEF Spec

LEMMA StepLost == IInv /\ NothingLost /\ [Next]_vars => NothingLost'
<1> SUFFICES ASSUME IInv, NothingLost, [Next]_vars PROVE NothingLost'
  OBVIOUS
<1>t. TypeOK /\ HandInv
  BY DEF IInv
<1>1. CASE Crash \/ ParseThrows
  BY <1>1 DEF Crash, ParseThrows, Die, NothingLost
<1>2. CASE ReadErrors
  <2>1. /\ waiting' = waiting \ LinesAt(at) /\ lines' = LinesAt(at) /\ lines = {}
        /\ UNCHANGED <<recording, raised, logged, died>>
    BY <1>2 DEF ReadErrors, deathVars
  <2> QED BY <2>1 DEF NothingLost, Malformed
<1>3. CASE RecordError
  <2>1. /\ \E e \in lines : lines' = lines \ {e} /\ recording' = {e}
        /\ recording = {} /\ UNCHANGED <<waiting, raised, logged, died>>
    BY <1>3 DEF RecordError, boardVars, deathVars
  <2> QED BY <2>1 DEF NothingLost, Malformed
<1>4. CASE JournalError
  <2>1. PICK e \in recording : logged' = logged \cup {e}
    BY <1>4 DEF JournalError
  <2>2. recording = {e} /\ UNCHANGED <<waiting, lines, raised, died>>
    BY <1>t, <1>4 DEF JournalError, HandInv, boardVars, deathVars
  <2> QED BY <2>1, <2>2 DEF NothingLost, Malformed
<1>5. CASE DropLine
  <2>1. PICK e \in lines : ~Parses(e) /\ lines' = lines \ {e}
    BY <1>5 DEF DropLine
  <2>2. e \in Malformed(raised)
    BY <1>t, <2>1 DEF Malformed, Parses, TypeOK
  <2>3. UNCHANGED <<waiting, recording, raised, logged, died>>
    BY <1>5 DEF DropLine, boardVars, deathVars
  <2> QED BY <2>1, <2>2, <2>3 DEF NothingLost
<1>6. CASE ErrorRaised
  <2>1. PICK e \in Errors : waiting' = waiting \cup {e} /\ raised' = raised \cup {e}
    BY <1>6 DEF ErrorRaised
  <2>2. UNCHANGED <<lines, recording, logged, died>>
    BY <1>6 DEF ErrorRaised, deathVars, daemonVars, inHand
  <2> QED BY <2>1, <2>2 DEF NothingLost, Malformed
<1>7. ASSUME UNCHANGED <<raised, waiting, lines, recording, logged, died>> PROVE NothingLost'
  BY <1>7 DEF NothingLost, Malformed
<1>8. \/ Start \/ HandleRunning \/ HandleOff \/ TimerFires \/ ReadEvents \/ TurnBit \/ JournalEvent
      \/ SkipEvents \/ HostSwitches \/ AlertChanges \/ UNCHANGED vars
      => UNCHANGED <<raised, waiting, lines, recording, logged, died>>
  BY DEF Start, HandleRunning, HandleOff, TimerFires, ReadEvents, TurnBit, JournalEvent, SkipEvents,
         HostSwitches, AlertChanges, vars, boardVars, deathVars, daemonVars, inHand
<1> QED BY <1>1, <1>2, <1>3, <1>4, <1>5, <1>6, <1>7, <1>8 DEF Next

\* For every board: a line that is not malformed waits, is in hand, or is in the
\* journal, or the daemon died.
THEOREM NoLineLost == Spec => []NothingLost
<1>1. Init => NothingLost
  BY DEF Init, NothingLost, Malformed
<1>2. IInv /\ NothingLost /\ [Next]_vars => NothingLost'
  BY StepLost
<1> QED BY <1>1, <1>2, SpecInv, PTL DEF Spec

-------------------------------------------------------------------------------
(* Digits.                                                                  *)

LEMMA DigitsAre ==
  ASSUME NEW n \in Nat, NEW s \in Digits(n)
  PROVE  s \in Seq(0..15) /\ Len(s) = n /\ \A i \in 1..n : s[i] \in 0..15
BY DEF Digits

LEMMA AreDigits ==
  ASSUME NEW s \in Seq(0..15)
  PROVE  s \in Digits(Len(s))
<1>1. s = [i \in 1..Len(s) |-> s[i]] /\ \A i \in 1..Len(s) : s[i] \in 0..15
  OBVIOUS
<1> QED BY <1>1 DEF Digits

LEMMA SameDigits ==
  ASSUME NEW n \in Nat, NEW s \in Digits(n), NEW t \in Digits(n), \A i \in 1..n : s[i] = t[i]
  PROVE  s = t
BY DEF Digits

LEMMA ZerosAre ==
  ASSUME NEW n \in Nat
  PROVE  Zeros(n) \in Digits(n) /\ \A i \in 1..n : Zeros(n)[i] = 0
BY DEF Zeros, Digits

LEMMA JoinedDigits ==
  ASSUME NEW m \in Nat, NEW n \in Nat, NEW s \in Digits(m), NEW t \in Digits(n)
  PROVE  /\ s \o t \in Digits(m + n)
         /\ \A i \in 1..m : (s \o t)[i] = s[i]
         /\ \A i \in 1..n : (s \o t)[m + i] = t[i]
<1>1. /\ s \in Seq(0..15) /\ Len(s) = m /\ t \in Seq(0..15) /\ Len(t) = n
  BY DigitsAre
<1>2. s \o t \in Seq(0..15) /\ Len(s \o t) = m + n
  BY <1>1
<1>3. s \o t \in Digits(m + n)
  BY <1>2, AreDigits
<1>4. \A i \in 1..m : (s \o t)[i] = s[i]
  BY <1>1
<1>5. \A i \in 1..n : (s \o t)[m + i] = t[i]
  BY <1>1
<1> QED BY <1>3, <1>4, <1>5

LEMMA PartOfDigits ==
  ASSUME NEW n \in Nat, NEW s \in Digits(n), NEW from \in 1..n, NEW k \in Nat, from + k <= n + 1
  PROVE  /\ SubSeq(s, from, from + k - 1) \in Digits(k)
         /\ \A i \in 1..k : SubSeq(s, from, from + k - 1)[i] = s[from + i - 1]
<1>1. SubSeq(s, from, from + k - 1) = [i \in 1..k |-> s[from + i - 1]]
  <2>1. s \in Seq(0..15) /\ Len(s) = n
    BY DigitsAre
  <2> QED BY <2>1
<1>2. \A i \in 1..k : s[from + i - 1] \in 0..15
  BY DEF Digits
<1> QED BY <1>1, <1>2 DEF Digits

\* The number up to seven digits stand for.
LEMMA ValueOf ==
  ASSUME NEW n \in 2..7, NEW s \in Digits(n)
  PROVE  /\ n = 2 => Value(s) = 16 * s[1] + s[2]
         /\ n = 4 => Value(s) = 4096 * s[1] + 256 * s[2] + 16 * s[3] + s[4]
         /\ Value(s) \in Nat
<1> DEFINE v1 == s[1]
           v2 == 16 * v1 + s[2]
           v3 == 16 * v2 + s[3]
           v4 == 16 * v3 + s[4]
           v5 == 16 * v4 + s[5]
           v6 == 16 * v5 + s[6]
           v7 == 16 * v6 + s[7]
           g == [k \in 0..n |-> CASE k = 0 -> 0 [] k = 1 -> v1 [] k = 2 -> v2 [] k = 3 -> v3
                                  [] k = 4 -> v4 [] k = 5 -> v5 [] k = 6 -> v6 [] OTHER -> v7]
           upTo == CHOOSE upTo : upTo = [k \in 0..n |-> IF k = 0 THEN 0
                                                          ELSE 16 * upTo[k - 1] + s[k]]
<1>1. Len(s) = n /\ \A i \in 1..n : s[i] \in Nat
  BY DigitsAre
<1>2. g = [k \in 0..n |-> IF k = 0 THEN 0 ELSE 16 * g[k - 1] + s[k]]
  <2>1. ASSUME NEW k \in 1..n PROVE g[k] = 16 * g[k - 1] + s[k]
    <3>1. k \in {1, 2, 3, 4, 5, 6, 7}
      OBVIOUS
    <3>2. /\ g[k - 1] = CASE k = 1 -> 0 [] k = 2 -> v1 [] k = 3 -> v2 [] k = 4 -> v3
                         [] k = 5 -> v4 [] k = 6 -> v5 [] OTHER -> v6
          /\ g[k] = CASE k = 1 -> v1 [] k = 2 -> v2 [] k = 3 -> v3 [] k = 4 -> v4
                         [] k = 5 -> v5 [] k = 6 -> v6 [] OTHER -> v7
      BY <3>1
    <3>3. v1 = 16 * 0 + s[1]
      BY <1>1
    <3> HIDE DEF v1, v2, v3, v4, v5, v6, v7, g
    <3>4. /\ v2 = 16 * v1 + s[2]
          /\ 2 <= n
      BY DEF v2
    <3>5. v3 = 16 * v2 + s[3] /\ v4 = 16 * v3 + s[4] /\ v5 = 16 * v4 + s[5]
          /\ v6 = 16 * v5 + s[6] /\ v7 = 16 * v6 + s[7]
      BY DEF v3, v4, v5, v6, v7
    <3> QED BY <3>1, <3>2, <3>3, <3>4, <3>5
  <2>2. g[0] = 0
    OBVIOUS
  <2>3. g = [k \in 0..n |-> g[k]]
    OBVIOUS
  <2> HIDE DEF g
  <2>4. \A k \in 0..n : g[k] = IF k = 0 THEN 0 ELSE 16 * g[k - 1] + s[k]
    BY <2>1, <2>2
  <2>5. [k \in 0..n |-> g[k]] = [k \in 0..n |-> IF k = 0 THEN 0 ELSE 16 * g[k - 1] + s[k]]
    BY <2>4
  <2> QED BY <2>3, <2>5
<1> HIDE DEF g
<1>3. upTo = [k \in 0..n |-> IF k = 0 THEN 0 ELSE 16 * upTo[k - 1] + s[k]]
  BY <1>2
<1>4. Value(s) = upTo[n]
  BY <1>1 DEF Value
<1> HIDE DEF upTo
<1>5. upTo[0] = 0 /\ \A k \in 1..n : upTo[k] = 16 * upTo[k - 1] + s[k]
  BY <1>3
<1>6. ASSUME NEW k \in 1..n, upTo[k - 1] \in Nat
      PROVE  upTo[k] = 16 * upTo[k - 1] + s[k] /\ upTo[k] \in Nat
  <2>1. s[k] \in Nat /\ upTo[k] = 16 * upTo[k - 1] + s[k]
    BY <1>1, <1>5
  <2> QED BY <1>6, <2>1
<1>7. upTo[1] = s[1] /\ upTo[2] = 16 * s[1] + s[2] /\ upTo[2] \in Nat
  <2>1. /\ 1 \in 1..n /\ 2 \in 1..n /\ 1 - 1 = 0 /\ 2 - 1 = 1
        /\ s[1] \in Nat /\ s[2] \in Nat
    BY <1>1
  <2>2. upTo[1] = 16 * upTo[0] + s[1] /\ upTo[2] = 16 * upTo[1] + s[2]
    BY <1>5, <2>1
  <2> QED BY <1>5, <2>1, <2>2
<1>8. n >= 3 => upTo[3] = 16 * upTo[2] + s[3] /\ upTo[3] \in Nat
  <2>1. n >= 3 => 3 \in 1..n /\ 3 - 1 = 2
    OBVIOUS
  <2> QED BY <1>6, <1>7, <2>1
<1>9. n >= 4 => upTo[4] = 16 * upTo[3] + s[4] /\ upTo[4] \in Nat
  <2>1. n >= 4 => 4 \in 1..n /\ 4 - 1 = 3 /\ n >= 3
    OBVIOUS
  <2> QED BY <1>6, <1>8, <2>1
<1>10. n >= 5 => upTo[5] \in Nat
  <2>1. n >= 5 => 5 \in 1..n /\ 5 - 1 = 4 /\ n >= 4
    OBVIOUS
  <2> QED BY <1>6, <1>9, <2>1
<1>11. (n >= 6 => upTo[6] \in Nat) /\ (n >= 7 => upTo[7] \in Nat)
  <2>1. n >= 6 => 6 \in 1..n /\ 6 - 1 = 5 /\ n >= 5
    OBVIOUS
  <2>2. n >= 7 => 7 \in 1..n /\ 7 - 1 = 6 /\ n >= 6
    OBVIOUS
  <2> QED BY <1>6, <1>10, <2>1, <2>2
<1>12. upTo[n] \in Nat
  <2>1. n \in {2, 3, 4, 5, 6, 7}
    OBVIOUS
  <2> QED BY <2>1, <1>7, <1>8, <1>9, <1>10, <1>11
<1>13. n = 4 => upTo[4] = 4096 * s[1] + 256 * s[2] + 16 * s[3] + s[4]
  <2>1. n = 4 => s[1] \in Nat /\ s[2] \in Nat /\ s[3] \in Nat /\ s[4] \in Nat
    BY <1>1
  <2> QED BY <2>1, <1>7, <1>8, <1>9
<1> QED BY <1>4, <1>7, <1>12, <1>13

-------------------------------------------------------------------------------
(* What the driver writes, and what is read back.                           *)

LEMMA GroupDigits ==
  ASSUME NEW w \in Digits(4)
  PROVE  /\ Group(w) \in Digits(8)
         /\ Group(w)[1] = w[3] /\ Group(w)[2] = w[4] /\ Group(w)[3] = w[1] /\ Group(w)[4] = w[2]
         /\ \A i \in 5..8 : Group(w)[i] = 0
<1>1. Len(w) = 4 /\ \A i \in 1..4 : w[i] \in 0..15
  BY DigitsAre
<1>2. Bytes(w) = [i \in 1..4 |-> w[IF i % 2 = 1 THEN 4 - i ELSE 4 - i + 2]]
  BY <1>1 DEF Bytes
<1>3. 1 % 2 = 1 /\ 2 % 2 = 0 /\ 3 % 2 = 1 /\ 4 % 2 = 0
  OBVIOUS
<1>4. Bytes(w)[1] = w[3] /\ Bytes(w)[2] = w[4] /\ Bytes(w)[3] = w[1] /\ Bytes(w)[4] = w[2]
  BY <1>2, <1>3
<1>5. Bytes(w) \in Digits(4)
  <2>1. ASSUME NEW i \in 1..4 PROVE Bytes(w)[i] \in 0..15
    BY <1>1, <1>4
  <2> QED BY <1>2, <2>1 DEF Digits
<1>6. Group(w) = Bytes(w) \o Zeros(4)
  BY <1>1 DEF Group
<1>7. /\ Group(w) \in Digits(8)
      /\ \A i \in 1..4 : Group(w)[i] = Bytes(w)[i]
      /\ \A i \in 1..4 : Group(w)[4 + i] = 0
  <2>1. Zeros(4) \in Digits(4) /\ \A i \in 1..4 : Zeros(4)[i] = 0
    BY ZerosAre
  <2>2. /\ Bytes(w) \o Zeros(4) \in Digits(4 + 4)
        /\ \A i \in 1..4 : (Bytes(w) \o Zeros(4))[i] = Bytes(w)[i]
        /\ \A i \in 1..4 : (Bytes(w) \o Zeros(4))[4 + i] = Zeros(4)[i]
    <3>1. 4 \in Nat
      OBVIOUS
    <3> QED BY <1>5, <2>1, <3>1, JoinedDigits
  <2>3. 4 + 4 = 8
    OBVIOUS
  <2> QED BY <1>6, <2>1, <2>2, <2>3
<1>8. ASSUME NEW i \in 5..8 PROVE Group(w)[i] = 0
  <2>1. i - 4 \in 1..4 /\ 4 + (i - 4) = i
    OBVIOUS
  <2> QED BY <1>7, <2>1
<1> QED BY <1>4, <1>7, <1>8

\* Reading a number back from the lowest byte to the highest.
LEMMA ReversedDigits ==
  ASSUME NEW n \in Nat, n % 2 = 0, NEW s \in Digits(n)
  PROVE  /\ reverseStr(s) \in Digits(n)
         /\ \A i \in 1..n : reverseStr(s)[i] = s[IF i % 2 = 1 THEN n - i ELSE n - i + 2]
<1>1. Len(s) = n /\ \A i \in 1..n : s[i] \in 0..15
  BY DigitsAre
<1>2. swap2Byte(s) = [i \in 1..n |-> s[IF i % 2 = 1 THEN i + 1 ELSE i - 1]]
  BY <1>1 DEF swap2Byte
<1>3. ASSUME NEW i \in 1..n
      PROVE  (IF i % 2 = 1 THEN i + 1 ELSE i - 1) \in 1..n
  OBVIOUS
<1>4. swap2Byte(s) \in Digits(n)
  BY <1>1, <1>2, <1>3 DEF Digits
<1>5. reverseStr(s) = [i \in 1..n |-> swap2Byte(s)[(n - i) + 1]]
  BY <1>4, DigitsAre DEF reverseStr, Reverse
<1>6. ASSUME NEW i \in 1..n
      PROVE  /\ reverseStr(s)[i] = s[IF i % 2 = 1 THEN n - i ELSE n - i + 2]
             /\ reverseStr(s)[i] \in 0..15
  <2>1. (n - i) + 1 \in 1..n /\ (i % 2 = 1 <=> ((n - i) + 1) % 2 = 0)
        /\ ((n - i) + 1) % 2 \in {0, 1}
    OBVIOUS
  <2>2. reverseStr(s)[i] = s[IF ((n - i) + 1) % 2 = 1 THEN ((n - i) + 1) + 1 ELSE ((n - i) + 1) - 1]
    BY <1>2, <1>5, <2>1
  <2>3. reverseStr(s)[i] \in 0..15
    BY <1>4, <1>5, <2>1 DEF Digits
  <2> QED BY <2>1, <2>2, <2>3
<1> QED BY <1>5, <1>6 DEF Digits

\* A number is what is left of its bytes once they are read back.
LEMMA BytesBack ==
  ASSUME NEW n \in Nat, n % 2 = 0, NEW w \in Digits(n)
  PROVE  Bytes(w) \in Digits(n) /\ reverseStr(Bytes(w)) = w
<1>1. Len(w) = n /\ \A i \in 1..n : w[i] \in 0..15
  BY DigitsAre
<1>2. Bytes(w) = [i \in 1..n |-> w[IF i % 2 = 1 THEN n - i ELSE n - i + 2]]
  BY <1>1 DEF Bytes
<1>3. ASSUME NEW i \in 1..n
      PROVE  (IF i % 2 = 1 THEN n - i ELSE n - i + 2) \in 1..n
  OBVIOUS
<1>4. Bytes(w) \in Digits(n)
  BY <1>1, <1>2, <1>3 DEF Digits
<1>5. ASSUME NEW i \in 1..n PROVE reverseStr(Bytes(w))[i] = w[i]
  <2> DEFINE j == IF i % 2 = 1 THEN n - i ELSE n - i + 2
  <2>1. j \in 1..n /\ (j % 2 = 1 <=> i % 2 = 1)
    OBVIOUS
  <2>2. reverseStr(Bytes(w))[i] = Bytes(w)[j]
    BY <1>4, ReversedDigits
  <2>3. Bytes(w)[j] = w[IF j % 2 = 1 THEN n - j ELSE n - j + 2]
    BY <1>2, <2>1
  <2>4. (IF j % 2 = 1 THEN n - j ELSE n - j + 2) = i
    BY <2>1
  <2> QED BY <2>2, <2>3, <2>4
<1> QED BY <1>4, <1>5, ReversedDigits, SameDigits

LEMMA GroupBack ==
  ASSUME NEW w \in Digits(4)
  PROVE  /\ reverseStr(Group(w)) \in Digits(8)
         /\ \A i \in 1..4 : /\ reverseStr(Group(w))[i] = 0
                            /\ reverseStr(Group(w))[4 + i] = w[i]
<1>1. 8 % 2 = 0 /\ Group(w) \in Digits(8)
  BY GroupDigits
<1>2. /\ reverseStr(Group(w)) \in Digits(8)
      /\ \A i \in 1..8 : reverseStr(Group(w))[i]
                           = Group(w)[IF i % 2 = 1 THEN 8 - i ELSE 8 - i + 2]
  BY <1>1, ReversedDigits
<1>3. ASSUME NEW i \in 1..4 PROVE reverseStr(Group(w))[i] = 0
  <2>1. (IF i % 2 = 1 THEN 8 - i ELSE 8 - i + 2) \in 5..8
    OBVIOUS
  <2> QED BY <1>2, <2>1, GroupDigits
<1>4. ASSUME NEW i \in 1..4 PROVE reverseStr(Group(w))[4 + i] = w[i]
  <2>1. reverseStr(Group(w))[4 + i]
          = Group(w)[IF (4 + i) % 2 = 1 THEN 8 - (4 + i) ELSE 8 - (4 + i) + 2]
    BY <1>2
  <2>2. i = 1 \/ i = 2 \/ i = 3 \/ i = 4
    OBVIOUS
  <2>3. 5 % 2 = 1 /\ 6 % 2 = 0 /\ 7 % 2 = 1 /\ 8 % 2 = 0
    OBVIOUS
  <2> QED BY <2>1, <2>2, <2>3, GroupDigits
<1> QED BY <1>2, <1>3, <1>4

\* The last n of more digits.
LEMMA LastDigits ==
  ASSUME NEW m \in Nat, NEW n \in Nat, n <= m, NEW s \in Digits(m)
  PROVE  /\ parseHexStr(s, n) \in Digits(n)
         /\ \A i \in 1..n : parseHexStr(s, n)[i] = s[i + m - n]
<1>1. Len(s) = m /\ \A i \in 1..m : s[i] \in 0..15
  BY DigitsAre
<1>2. \A i \in 1..n : i + m - n \in 1..m /\ (m = n => i + m > n) /\ (i + m > n)
  OBVIOUS
<1>3. parseHexStr(s, n) = [i \in 1..n |-> s[i + m - n]]
  BY <1>1, <1>2 DEF parseHexStr
<1> QED BY <1>1, <1>2, <1>3 DEF Digits

\* Without its leading zeros a number has the same digits, and at least one.
LEMMA StrippedDigits ==
  ASSUME NEW n \in Nat \ {0}, NEW s \in Digits(n)
  PROVE  \E k \in 1..n : /\ StripZeros(s) \in Digits(k)
                         /\ \A i \in 1..k : StripZeros(s)[i] = s[n - k + i]
                         /\ \A i \in 1..(n - k) : s[i] = 0
                         /\ k = 1 \/ s[n - k + 1] # 0
<1> DEFINE I == {i \in 1..Len(s) : s[i] # 0}
           p == SelectInSeq(s, LAMBDA d : d # 0)
           q == IF p = 0 THEN n ELSE p
<1>1. Len(s) = n /\ \A i \in 1..n : s[i] \in 0..15
  BY DigitsAre
<1>2. p = IF I # {} THEN Min(I) ELSE 0
  BY DEF SelectInSeq
<1>3. StripZeros(s) = SubSeq(s, q, n)
  BY <1>1 DEF StripZeros
<1>4. /\ q \in 1..n /\ \A i \in 1..(q - 1) : s[i] = 0
      /\ q = n \/ s[q] # 0
  <2>1. CASE I = {}
    BY <1>1, <1>2, <2>1
  <2>2. CASE I # {}
    <3>1. I \subseteq Nat
      BY <1>1
    <3>2. \E x \in I : \A y \in I : x <= y
      BY <2>2, <3>1, LeastNatural
    <3>3. Min(I) \in I /\ \A y \in I : Min(I) <= y
      BY <3>2 DEF Min
    <3>4. p = Min(I) /\ p \in 1..n /\ s[p] # 0
      BY <1>1, <1>2, <2>2, <3>3
    <3>5. ASSUME NEW i \in 1..(p - 1) PROVE s[i] = 0
      <4>1. i \in 1..Len(s) /\ ~(Min(I) <= i)
        BY <1>1, <3>4
      <4>2. i \notin I
        BY <3>3, <4>1
      <4> QED BY <4>1, <4>2
    <3> QED BY <3>4, <3>5
  <2> QED BY <2>1, <2>2
<1> HIDE DEF p, q
<1> DEFINE k == n - q + 1
<1>5. k \in 1..n /\ q + k = n + 1 /\ q + k - 1 = n
  BY <1>4
<1>6. /\ SubSeq(s, q, n) \in Digits(k)
      /\ \A i \in 1..k : SubSeq(s, q, n)[i] = s[q + i - 1]
  <2>1. /\ SubSeq(s, q, q + k - 1) \in Digits(k)
        /\ \A i \in 1..k : SubSeq(s, q, q + k - 1)[i] = s[q + i - 1]
    BY <1>4, <1>5, PartOfDigits
  <2> QED BY <1>5, <2>1
<1>7. \A i \in 1..k : n - k + i = q + i - 1
  BY <1>4
<1>8. n - k = q - 1 /\ n - k + 1 = q /\ (q = n => k = 1)
  BY <1>4
<1> HIDE DEF k
<1> QED BY <1>3, <1>4, <1>5, <1>6, <1>7, <1>8

\* The two halves of the data, each without its leading zeros, are the data
\* again unless the high one has to be moved.
LEMMA HalvesJoined ==
  ASSUME NEW high \in Digits(8), NEW low \in Digits(8),
         \A i \in 1..4 : high[i] = 0 /\ low[i] = 0,
         low[5] # 0 \/ \A i \in 1..4 : high[4 + i] = 0
  PROVE  LET s == StripZeros(high) \o StripZeros(low)
         IN /\ parseHexStr(s, 8) \in Digits(8)
            /\ \A i \in 1..4 : /\ parseHexStr(s, 8)[i] = high[4 + i]
                               /\ parseHexStr(s, 8)[4 + i] = low[4 + i]
<1> DEFINE s == StripZeros(high) \o StripZeros(low)
           r == parseHexStr(s, 8)
<1>1. 8 \in Nat \ {0}
  OBVIOUS
<1>2. PICK a \in 1..8 : /\ StripZeros(high) \in Digits(a)
                        /\ \A i \in 1..a : StripZeros(high)[i] = high[8 - a + i]
                        /\ \A i \in 1..(8 - a) : high[i] = 0
                        /\ a = 1 \/ high[8 - a + 1] # 0
  BY <1>1, StrippedDigits
<1>3. PICK b \in 1..8 : /\ StripZeros(low) \in Digits(b)
                        /\ \A i \in 1..b : StripZeros(low)[i] = low[8 - b + i]
                        /\ \A i \in 1..(8 - b) : low[i] = 0
                        /\ b = 1 \/ low[8 - b + 1] # 0
  BY <1>1, StrippedDigits
<1>4. a <= 4 /\ b <= 4
  <2>1. ASSUME a > 4 PROVE FALSE
    <3>1. 8 - a + 1 \in 1..4 /\ a # 1
      BY <2>1
    <3> QED BY <1>2, <3>1
  <2>2. ASSUME b > 4 PROVE FALSE
    <3>1. 8 - b + 1 \in 1..4 /\ b # 1
      BY <2>2
    <3> QED BY <1>3, <3>1
  <2> QED BY <2>1, <2>2
<1>5. /\ s \in Digits(a + b)
      /\ \A i \in 1..a : s[i] = high[8 - a + i]
      /\ \A i \in 1..b : s[a + i] = low[8 - b + i]
  <2>1. a \in Nat /\ b \in Nat
    OBVIOUS
  <2>2. /\ StripZeros(high) \in Digits(a) /\ StripZeros(low) \in Digits(b)
        /\ \A i \in 1..a : StripZeros(high)[i] = high[8 - a + i]
        /\ \A i \in 1..b : StripZeros(low)[i] = low[8 - b + i]
    BY <1>2, <1>3
  <2>3. /\ s \in Digits(a + b)
        /\ \A i \in 1..a : s[i] = StripZeros(high)[i]
        /\ \A i \in 1..b : s[a + i] = StripZeros(low)[i]
    <3> HIDE DEF s
    <3> QED BY <2>1, <2>2, JoinedDigits DEF s
  <2> HIDE DEF s
  <2> QED BY <2>2, <2>3
<1>6. Len(s) = a + b /\ \A i \in 1..(a + b) : s[i] \in 0..15
  <2>1. a + b \in Nat
    OBVIOUS
  <2> QED BY <1>5, <2>1, DigitsAre
<1> HIDE DEF s
<1>7. r = [i \in 1..8 |-> IF i + (a + b) > 8 THEN s[i + (a + b) - 8] ELSE 0]
  BY <1>6 DEF parseHexStr
<1>8. r \in Digits(8)
  <2>1. ASSUME NEW i \in 1..8 PROVE (IF i + (a + b) > 8 THEN s[i + (a + b) - 8] ELSE 0) \in 0..15
    <3>1. i + (a + b) > 8 => i + (a + b) - 8 \in 1..(a + b)
      BY <1>4
    <3> QED BY <1>6, <3>1
  <2> QED BY <1>7, <2>1 DEF Digits
<1>9. \A i \in 1..8 : r[i] = IF i + (a + b) > 8 THEN s[i + (a + b) - 8] ELSE 0
  BY <1>7
<1> HIDE DEF r
<1>10. CASE low[5] # 0
  <2>1. b = 4
    <3>1. b < 4 => 5 \in 1..(8 - b)
      OBVIOUS
    <3> QED BY <1>3, <1>4, <1>10, <3>1
  <2>2. ASSUME NEW i \in 1..4 PROVE r[i] = high[4 + i]
    <3>1. CASE i > 4 - a
      <4>1. i - (4 - a) \in 1..a /\ i + (a + b) > 8 /\ i + (a + b) - 8 = i - (4 - a)
        BY <1>4, <2>1, <3>1
      <4>2. r[i] = s[i - (4 - a)]
        BY <1>9, <4>1
      <4>3. 8 - a + (i - (4 - a)) = 4 + i
        OBVIOUS
      <4> QED BY <1>5, <4>1, <4>2, <4>3
    <3>2. CASE i <= 4 - a
      <4>1. 4 + i \in 1..(8 - a) /\ ~(i + (a + b) > 8)
        BY <1>4, <2>1, <3>2
      <4> QED BY <1>2, <1>9, <4>1
    <3> QED BY <3>1, <3>2
  <2>3. ASSUME NEW i \in 1..4 PROVE r[4 + i] = low[4 + i]
    <3>1. /\ 4 + i \in 1..8 /\ (4 + i) + (a + b) > 8 /\ (4 + i) + (a + b) - 8 = a + i
          /\ i \in 1..b /\ 8 - b + i = 4 + i
      BY <1>4, <2>1
    <3> QED BY <1>5, <1>9, <3>1
  <2> QED BY <1>8, <2>2, <2>3 DEF r, s
<1>11. CASE \A i \in 1..4 : high[4 + i] = 0
  <2>1. a = 1
    <3>1. a \in 1..4 => 8 - a + 1 = 4 + (5 - a) /\ 5 - a \in 1..4
      OBVIOUS
    <3> QED BY <1>2, <1>4, <1>11, <3>1
  <2>2. s[1] = 0
    <3>1. s[1] = high[4 + 4]
      BY <1>5, <2>1
    <3> QED BY <1>11, <3>1
  <2>3. ASSUME NEW i \in 1..4 PROVE r[i] = 0
    <3>1. CASE i + (a + b) > 8
      <4>1. i + (a + b) - 8 = 1
        BY <1>4, <2>1, <3>1
      <4> QED BY <1>9, <2>2, <3>1, <4>1
    <3>2. CASE ~(i + (a + b) > 8)
      BY <1>9, <3>2
    <3> QED BY <3>1, <3>2
  <2>4. ASSUME NEW i \in 1..4 PROVE r[4 + i] = low[4 + i]
    <3>1. CASE i > 4 - b
      <4>1. /\ 4 + i \in 1..8 /\ (4 + i) + (a + b) > 8
            /\ (4 + i) + (a + b) - 8 = a + (i - (4 - b)) /\ i - (4 - b) \in 1..b
            /\ 8 - b + (i - (4 - b)) = 4 + i
        BY <1>4, <2>1, <3>1
      <4> QED BY <1>5, <1>9, <4>1
    <3>2. CASE i <= 4 - b
      <4>1. 4 + i \in 1..8 /\ 4 + i \in 1..(8 - b)
        BY <1>4, <3>2
      <4>2. low[4 + i] = 0
        BY <1>3, <4>1
      <4>3. CASE i = 4 - b
        <5>1. (4 + i) + (a + b) > 8 /\ (4 + i) + (a + b) - 8 = 1
          BY <1>4, <2>1, <4>3
        <5> QED BY <1>9, <2>2, <4>1, <4>2, <5>1
      <4>4. CASE i < 4 - b
        <5>1. ~((4 + i) + (a + b) > 8)
          BY <1>4, <2>1, <4>4
        <5> QED BY <1>9, <4>1, <4>2, <5>1
      <4> QED BY <3>2, <4>3, <4>4
    <3> QED BY <3>1, <3>2
  <2> QED BY <1>8, <1>11, <2>3, <2>4 DEF r, s
<1> QED BY <1>10, <1>11

\* The halves of the data in the order in which both entries have them.
LEMMA DataHalves ==
  ASSUME NEW e \in InternalError
  PROVE  LET d == Joined(e) IN
         /\ FirstHalf(e) \in Digits(4) /\ SecondHalf(e) \in Digits(4)
         /\ d \in Digits(8)
         /\ \A i \in 1..4 : SecondHalf(e)[i] = d[i] /\ FirstHalf(e)[i] = d[4 + i]
         /\ SubSeq(d, 5, 8) = FirstHalf(e)
         /\ e.data = Zeros(8) <=> d = Zeros(8)
         /\ e.order = "low first" => d = e.data
<1> DEFINE d == Joined(e)
           w == e.data
           high == HighHalf(e)
           low == LowHalf(e)
           first == FirstHalf(e)
           second == SecondHalf(e)
<1>1. w \in Digits(8) /\ e.order \in {"low first", "high first"}
  BY DEF InternalError
<1>2. w \in Seq(0..15) /\ Len(w) = 8 /\ \A i \in 1..8 : w[i] \in 0..15
  BY <1>1, DigitsAre, 8 \in Nat
<1>3. high = [i \in 1..4 |-> w[i]] /\ low = [i \in 1..4 |-> w[4 + i]]
  BY <1>2 DEF HighHalf, LowHalf
<1>4. /\ high \in Digits(4) /\ low \in Digits(4)
      /\ \A i \in 1..4 : high[i] = w[i] /\ low[i] = w[4 + i]
  <2> HIDE DEF high, low, w
  <2> QED BY <1>2, <1>3 DEF Digits
<1>5. \/ e.order = "low first" /\ first = low /\ second = high
      \/ e.order = "high first" /\ first = high /\ second = low
  BY <1>1 DEF FirstHalf, SecondHalf
<1>6. d = second \o first
  BY DEF Joined
<1> HIDE DEF d, w, high, low, first, second
<1>7. first \in Digits(4) /\ second \in Digits(4)
  BY <1>4, <1>5
<1>8. /\ d \in Digits(8)
      /\ \A i \in 1..4 : second[i] = d[i] /\ first[i] = d[4 + i]
  <2>1. /\ second \o first \in Digits(4 + 4)
        /\ \A i \in 1..4 : (second \o first)[i] = second[i]
        /\ \A i \in 1..4 : (second \o first)[4 + i] = first[i]
    BY <1>7, JoinedDigits, 4 \in Nat
  <2> QED BY <1>6, <2>1, 4 + 4 = 8
<1>9. SubSeq(d, 5, 8) = first
  <2>1. d \in Seq(0..15) /\ Len(d) = 8
    BY <1>8, DigitsAre, 8 \in Nat
  <2>2. SubSeq(d, 5, 8) = [i \in 1..4 |-> d[4 + i]]
    BY <2>1
  <2>3. first = [i \in 1..4 |-> first[i]]
    BY <1>7 DEF Digits
  <2> QED BY <1>8, <2>2, <2>3
<1>10. w = Zeros(8) <=> \A i \in 1..4 : high[i] = 0 /\ low[i] = 0
  <2>1. ASSUME w = Zeros(8), NEW i \in 1..4 PROVE high[i] = 0 /\ low[i] = 0
    <3>1. i \in 1..8 /\ 4 + i \in 1..8
      OBVIOUS
    <3> QED BY <1>4, <2>1, <3>1 DEF Zeros
  <2>2. ASSUME \A i \in 1..4 : high[i] = 0 /\ low[i] = 0 PROVE w = Zeros(8)
    <3>1. ASSUME NEW i \in 1..8 PROVE w[i] = 0
      <4>1. CASE i \in 1..4
        BY <1>4, <2>2, <4>1
      <4>2. CASE i \notin 1..4
        <5>1. i - 4 \in 1..4 /\ 4 + (i - 4) = i
          BY <4>2
        <5> QED BY <1>4, <2>2, <5>1
      <4> QED BY <4>1, <4>2
    <3>2. w = [i \in 1..8 |-> w[i]]
      BY <1>1 DEF Digits
    <3> QED BY <3>1, <3>2 DEF Zeros
  <2> QED BY <2>1, <2>2
<1>11. d = Zeros(8) <=> \A i \in 1..4 : second[i] = 0 /\ first[i] = 0
  <2>1. ASSUME d = Zeros(8), NEW i \in 1..4 PROVE second[i] = 0 /\ first[i] = 0
    <3>1. i \in 1..8 /\ 4 + i \in 1..8
      OBVIOUS
    <3> QED BY <1>8, <2>1, <3>1 DEF Zeros
  <2>2. ASSUME \A i \in 1..4 : second[i] = 0 /\ first[i] = 0 PROVE d = Zeros(8)
    <3>1. ASSUME NEW i \in 1..8 PROVE d[i] = 0
      <4>1. CASE i \in 1..4
        BY <1>8, <2>2, <4>1
      <4>2. CASE i \notin 1..4
        <5>1. i - 4 \in 1..4 /\ 4 + (i - 4) = i
          BY <4>2
        <5> QED BY <1>8, <2>2, <5>1
      <4> QED BY <4>1, <4>2
    <3>2. d = [i \in 1..8 |-> d[i]]
      BY <1>8 DEF Digits
    <3> QED BY <3>1, <3>2 DEF Zeros
  <2> QED BY <2>1, <2>2
<1>12. w = Zeros(8) <=> d = Zeros(8)
  BY <1>5, <1>10, <1>11
<1>13. ASSUME e.order = "low first" PROVE d = w
  <2>1. second = high /\ first = low
    BY <1>5, <1>13
  <2>2. ASSUME NEW i \in 1..8 PROVE d[i] = w[i]
    <3>1. CASE i \in 1..4
      BY <1>4, <1>8, <2>1, <3>1
    <3>2. CASE i \notin 1..4
      <4>1. i - 4 \in 1..4 /\ 4 + (i - 4) = i
        BY <3>2
      <4>2. d[4 + (i - 4)] = w[4 + (i - 4)]
        BY <1>4, <1>8, <2>1, <4>1
      <4> QED BY <4>1, <4>2
    <3> QED BY <3>1, <3>2
  <2> QED BY <1>1, <1>8, <2>2, SameDigits, 8 \in Nat
<1> QED BY <1>7, <1>8, <1>9, <1>12, <1>13 DEF d, w, first, second

\* The line of an internal error: where its parts are.
LEMMA InternalText ==
  ASSUME NEW e \in InternalError
  PROVE  LET text == TextOf(e) IN
         /\ Len(text) = IF IsWarning(e) THEN 16 ELSE 32
         /\ text[3] = e.image /\ text[4] = e.flags
         /\ SubSeq(text, 1, 2) = e.location
         /\ SubSeq(text, 9, 16) = Group(e.code)
         /\ ~IsWarning(e) => /\ text \in Digits(32)
                             /\ SubSeq(text, 17, 24) = Group(FirstHalf(e))
                             /\ SubSeq(text, 25, 32) = Group(SecondHalf(e))
<1> DEFINE head == e.location \o <<e.image, e.flags>>
           front == head \o Zeros(4)
           most == front \o Group(e.code)
           high == Group(SecondHalf(e))
           low == Group(FirstHalf(e))
           text == TextOf(e)
<1>1. /\ e.file \in InternalFiles /\ e.location \in Digits(2) /\ e.image \in 0..15
      /\ e.flags \in 0..15 /\ e.code \in Digits(4) /\ e.data \in Digits(8)
  BY DEF InternalError
<1>2. text = most \o IF IsWarning(e) THEN <<>> ELSE low \o high
  BY <1>1 DEF TextOf
<1>3. 2 \in Nat /\ 4 \in Nat /\ 8 \in Nat /\ 16 \in Nat /\ 0 \in Nat
  OBVIOUS
<1>4. /\ <<e.image, e.flags>> \in Digits(2)
      /\ <<e.image, e.flags>>[1] = e.image /\ <<e.image, e.flags>>[2] = e.flags
  BY <1>1 DEF Digits
<1>5. /\ head \in Digits(4)
      /\ \A i \in 1..2 : head[i] = e.location[i]
      /\ head[3] = e.image /\ head[4] = e.flags
  <2>1. /\ head \in Digits(2 + 2)
        /\ \A i \in 1..2 : head[i] = e.location[i]
        /\ \A i \in 1..2 : head[2 + i] = <<e.image, e.flags>>[i]
    BY <1>1, <1>3, <1>4, JoinedDigits
  <2>2. head[2 + 1] = <<e.image, e.flags>>[1] /\ head[2 + 2] = <<e.image, e.flags>>[2]
    <3> HIDE DEF head
    <3> QED BY <2>1, 1 \in 1..2, 2 \in 1..2
  <2>3. 2 + 1 = 3 /\ 2 + 2 = 4
    OBVIOUS
  <2> HIDE DEF head
  <2> QED BY <1>4, <2>1, <2>2, <2>3
<1> HIDE DEF head
<1>6. front \in Digits(8) /\ \A i \in 1..4 : front[i] = head[i]
  <2>1. /\ front \in Digits(4 + 4)
        /\ \A i \in 1..4 : front[i] = head[i]
    <3>1. Zeros(4) \in Digits(4)
      BY <1>3, ZerosAre
    <3> QED BY <1>3, <1>5, <3>1, JoinedDigits
  <2>2. 4 + 4 = 8
    OBVIOUS
  <2> HIDE DEF front
  <2> QED BY <2>1, <2>2
<1> HIDE DEF front
<1>7. /\ most \in Digits(16)
      /\ \A i \in 1..8 : most[i] = front[i] /\ most[8 + i] = Group(e.code)[i]
  <2>1. /\ most \in Digits(8 + 8)
        /\ \A i \in 1..8 : most[i] = front[i]
        /\ \A i \in 1..8 : most[8 + i] = Group(e.code)[i]
    BY <1>1, <1>3, <1>6, GroupDigits, JoinedDigits
  <2>2. 8 + 8 = 16
    OBVIOUS
  <2> HIDE DEF most
  <2> QED BY <2>1, <2>2
<1> HIDE DEF most
<1>8. SecondHalf(e) \in Digits(4) /\ FirstHalf(e) \in Digits(4)
  BY DataHalves
<1>9. low \in Digits(8) /\ high \in Digits(8)
  BY <1>8, GroupDigits
<1> HIDE DEF low, high
<1>10. \E n \in {16, 32} :
         /\ text \in Digits(n) /\ (n = 16 <=> IsWarning(e))
         /\ \A i \in 1..16 : text[i] = most[i]
         /\ n = 32 => \A i \in 1..8 : text[16 + i] = low[i] /\ text[24 + i] = high[i]
  <2>1. CASE IsWarning(e)
    <3>1. text = most
      <4>1. most \in Seq(0..15)
        BY <1>3, <1>7, DigitsAre
      <4>2. text = most \o <<>>
        BY <1>2, <2>1
      <4> HIDE DEF text
      <4> QED BY <4>1, <4>2
    <3> HIDE DEF text
    <3> QED BY <1>7, <2>1, <3>1
  <2>2. CASE ~IsWarning(e)
    <3> DEFINE rest == low \o high
    <3>1. /\ rest \in Digits(16)
          /\ \A i \in 1..8 : rest[i] = low[i] /\ rest[8 + i] = high[i]
      <4>1. /\ rest \in Digits(8 + 8)
            /\ \A i \in 1..8 : rest[i] = low[i]
            /\ \A i \in 1..8 : rest[8 + i] = high[i]
        BY <1>3, <1>9, JoinedDigits
      <4>2. 8 + 8 = 16
        OBVIOUS
      <4> HIDE DEF rest
      <4> QED BY <4>1, <4>2
    <3>2. text = most \o rest
      BY <1>2, <2>2
    <3> HIDE DEF rest, text
    <3>3. /\ text \in Digits(16 + 16)
          /\ \A i \in 1..16 : text[i] = most[i]
          /\ \A i \in 1..16 : text[16 + i] = rest[i]
      BY <1>3, <1>7, <3>1, <3>2, JoinedDigits
    <3>4. ASSUME NEW i \in 1..8 PROVE text[16 + i] = low[i] /\ text[24 + i] = high[i]
      <4>1. i \in 1..16 /\ 8 + i \in 1..16 /\ 16 + (8 + i) = 24 + i
        OBVIOUS
      <4>2. text[16 + i] = rest[i] /\ text[16 + (8 + i)] = rest[8 + i]
        BY <3>3, <4>1
      <4> QED BY <3>1, <4>1, <4>2
    <3>5. 16 + 16 = 32
      OBVIOUS
    <3> QED BY <2>2, <3>3, <3>4, <3>5
  <2> QED BY <2>1, <2>2
<1> HIDE DEF text
<1>11. PICK n \in {16, 32} :
         /\ text \in Digits(n) /\ (n = 16 <=> IsWarning(e))
         /\ \A i \in 1..16 : text[i] = most[i]
         /\ n = 32 => \A i \in 1..8 : text[16 + i] = low[i] /\ text[24 + i] = high[i]
  BY <1>10
<1>12. Len(text) = n /\ text \in Seq(0..15)
  BY <1>11, DigitsAre, n \in Nat
<1>13. text[3] = e.image /\ text[4] = e.flags
  BY <1>5, <1>6, <1>7, <1>11
<1>14. SubSeq(text, 1, 2) = e.location
  <2>1. SubSeq(text, 1, 2) = [i \in 1..2 |-> text[i]]
    BY <1>12
  <2>2. e.location = [i \in 1..2 |-> e.location[i]]
    BY <1>1 DEF Digits
  <2>3. \A i \in 1..2 : text[i] = e.location[i]
    BY <1>5, <1>6, <1>7, <1>11
  <2> QED BY <2>1, <2>2, <2>3
<1>15. SubSeq(text, 9, 16) = Group(e.code)
  <2>1. SubSeq(text, 9, 16) = [i \in 1..8 |-> text[8 + i]]
    BY <1>12
  <2>2. Group(e.code) = [i \in 1..8 |-> Group(e.code)[i]]
    BY <1>1, GroupDigits DEF Digits
  <2>3. \A i \in 1..8 : text[8 + i] = Group(e.code)[i]
    BY <1>7, <1>11
  <2> QED BY <2>1, <2>2, <2>3
<1>16. ASSUME n = 32
       PROVE  SubSeq(text, 17, 24) = low /\ SubSeq(text, 25, 32) = high
  <2>1. /\ SubSeq(text, 17, 24) = [i \in 1..8 |-> text[16 + i]]
        /\ SubSeq(text, 25, 32) = [i \in 1..8 |-> text[24 + i]]
    BY <1>12, <1>16
  <2>2. low = [i \in 1..8 |-> low[i]] /\ high = [i \in 1..8 |-> high[i]]
    BY <1>9 DEF Digits
  <2> QED BY <1>11, <1>16, <2>1, <2>2
<1> QED BY <1>11, <1>12, <1>13, <1>14, <1>15, <1>16 DEF text, low, high

\* The line of another error.
LEMMA ErrorText ==
  ASSUME NEW e \in Error
  PROVE  LET text == TextOf(e) IN
         /\ SubSeq(text, 1, 4) = TypeOf(e)
         /\ SubSeq(text, 5, 8) = Bytes(e.instance)
         /\ SubSeq(text, 17, 32) = Bytes(e.address)
         /\ SubSeq(text, 33, 48) = Bytes(e.misc0)
<1> DEFINE head == TypeOf(e)
           a == head \o Bytes(e.instance)
           b == a \o Bytes(e.status)
           c == b \o Bytes(e.address)
           d == c \o Bytes(e.misc0)
           text == TextOf(e)
<1>1. /\ e.file \in ErrorFiles /\ e.type \in Digits(2) /\ e.subType \in Digits(2)
      /\ e.instance \in Digits(4) /\ e.status \in Digits(8) /\ e.address \in Digits(16)
      /\ e.misc0 \in Digits(16)
  BY DEF Error
<1>2. text = d \o Zeros(48)
  BY <1>1 DEF TextOf, InternalFiles, ErrorFiles
<1>3. 2 \in Nat /\ 4 \in Nat /\ 8 \in Nat /\ 16 \in Nat /\ 32 \in Nat /\ 48 \in Nat
  OBVIOUS
<1>4. /\ Bytes(e.instance) \in Digits(4) /\ Bytes(e.status) \in Digits(8)
      /\ Bytes(e.address) \in Digits(16) /\ Bytes(e.misc0) \in Digits(16)
  BY <1>1, <1>3, BytesBack, 4 % 2 = 0, 8 % 2 = 0, 16 % 2 = 0
<1>5. head \in Digits(4)
  <2>1. head \in Digits(2 + 2)
    BY <1>1, <1>3, JoinedDigits DEF TypeOf
  <2> HIDE DEF head
  <2> QED BY <2>1, 2 + 2 = 4
<1> HIDE DEF head
<1>6. /\ a \in Digits(8)
      /\ \A i \in 1..4 : a[i] = head[i] /\ a[4 + i] = Bytes(e.instance)[i]
  <2>1. /\ a \in Digits(4 + 4)
        /\ \A i \in 1..4 : a[i] = head[i]
        /\ \A i \in 1..4 : a[4 + i] = Bytes(e.instance)[i]
    BY <1>3, <1>4, <1>5, JoinedDigits
  <2> HIDE DEF a
  <2> QED BY <2>1, 4 + 4 = 8
<1> HIDE DEF a
<1>7. b \in Digits(16) /\ \A i \in 1..8 : b[i] = a[i]
  <2>1. b \in Digits(8 + 8) /\ \A i \in 1..8 : b[i] = a[i]
    BY <1>3, <1>4, <1>6, JoinedDigits
  <2> HIDE DEF b
  <2> QED BY <2>1, 8 + 8 = 16
<1> HIDE DEF b
<1>8. /\ c \in Digits(32)
      /\ \A i \in 1..16 : c[i] = b[i] /\ c[16 + i] = Bytes(e.address)[i]
  <2>1. /\ c \in Digits(16 + 16)
        /\ \A i \in 1..16 : c[i] = b[i]
        /\ \A i \in 1..16 : c[16 + i] = Bytes(e.address)[i]
    BY <1>3, <1>4, <1>7, JoinedDigits
  <2> HIDE DEF c
  <2> QED BY <2>1, 16 + 16 = 32
<1> HIDE DEF c
<1>9. /\ d \in Digits(48)
      /\ \A i \in 1..32 : d[i] = c[i]
      /\ \A i \in 1..16 : d[32 + i] = Bytes(e.misc0)[i]
  <2>1. /\ d \in Digits(32 + 16)
        /\ \A i \in 1..32 : d[i] = c[i]
        /\ \A i \in 1..16 : d[32 + i] = Bytes(e.misc0)[i]
    BY <1>3, <1>4, <1>8, JoinedDigits
  <2> HIDE DEF d
  <2> QED BY <2>1, 32 + 16 = 48
<1> HIDE DEF d
<1>10. text \in Digits(96) /\ \A i \in 1..48 : text[i] = d[i]
  <2>1. Zeros(48) \in Digits(48)
    BY <1>3, ZerosAre
  <2> HIDE DEF text
  <2>2. text \in Digits(48 + 48) /\ \A i \in 1..48 : text[i] = d[i]
    BY <1>2, <1>3, <1>9, <2>1, JoinedDigits
  <2> QED BY <2>2, 48 + 48 = 96
<1> HIDE DEF text
<1>11. text \in Seq(0..15) /\ Len(text) = 96
  BY <1>10, DigitsAre, 96 \in Nat
<1>12. /\ \A i \in 1..4 : text[i] = head[i] /\ text[4 + i] = Bytes(e.instance)[i]
       /\ \A i \in 1..16 : text[16 + i] = Bytes(e.address)[i]
       /\ \A i \in 1..16 : text[32 + i] = Bytes(e.misc0)[i]
  <2>1. ASSUME NEW i \in 1..4 PROVE text[i] = head[i] /\ text[4 + i] = Bytes(e.instance)[i]
    <3>1. i \in 1..8 /\ 4 + i \in 1..8
      OBVIOUS
    <3>2. \A j \in 1..8 : text[j] = a[j]
      BY <1>7, <1>8, <1>9, <1>10
    <3> QED BY <1>6, <3>1, <3>2
  <2>2. ASSUME NEW i \in 1..16
        PROVE  text[16 + i] = Bytes(e.address)[i] /\ text[32 + i] = Bytes(e.misc0)[i]
    <3>1. 16 + i \in 1..32 /\ 16 + i \in 1..48 /\ 32 + i \in 1..48
      OBVIOUS
    <3>2. text[16 + i] = c[16 + i] /\ text[32 + i] = d[32 + i]
      BY <1>9, <1>10, <3>1
    <3> QED BY <1>8, <1>9, <3>2
  <2> QED BY <2>1, <2>2
<1>13. /\ head = [i \in 1..4 |-> head[i]]
       /\ Bytes(e.instance) = [i \in 1..4 |-> Bytes(e.instance)[i]]
       /\ Bytes(e.address) = [i \in 1..16 |-> Bytes(e.address)[i]]
       /\ Bytes(e.misc0) = [i \in 1..16 |-> Bytes(e.misc0)[i]]
  BY <1>4, <1>5 DEF Digits
<1>14. SubSeq(text, 1, 4) = head
  <2>1. SubSeq(text, 1, 4) = [i \in 1..4 |-> text[i]]
    BY <1>11
  <2> QED BY <1>12, <1>13, <2>1
<1>15. SubSeq(text, 5, 8) = Bytes(e.instance)
  <2>1. SubSeq(text, 5, 8) = [i \in 1..4 |-> text[4 + i]]
    BY <1>11
  <2> QED BY <1>12, <1>13, <2>1
<1>16. SubSeq(text, 17, 32) = Bytes(e.address)
  <2>1. SubSeq(text, 17, 32) = [i \in 1..16 |-> text[16 + i]]
    BY <1>11
  <2> QED BY <1>12, <1>13, <2>1
<1>17. SubSeq(text, 33, 48) = Bytes(e.misc0)
  <2>1. SubSeq(text, 33, 48) = [i \in 1..16 |-> text[32 + i]]
    BY <1>11
  <2> QED BY <1>12, <1>13, <2>1
<1> QED BY <1>14, <1>15, <1>16, <1>17 DEF text, head

\* What the daemon cuts out of the line of an internal error.
LEMMA InternalFieldsAre ==
  ASSUME NEW e \in InternalError
  PROVE  LET f == InternalFields(TextOf(e)) IN
         /\ f.subType = IF IsWarning(e) THEN Warning
                        ELSE IF e.data = Zeros(8) THEN ErrorOnly ELSE WithData
         /\ f.imageCode = e.image /\ f.dir = e.flags \div 8
         /\ f.location = Value(e.location) /\ f.errCode = Value(e.code)
         /\ f.subType # WithData => f.data = Zeros(8)
         /\ f.subType = WithData /\ ~Misjoined(e) => f.data = Joined(e)
<1> DEFINE text == TextOf(e)
           f == InternalFields(text)
           high == SecondHalf(e)
           low == FirstHalf(e)
           d == Joined(e)
<1>1. e.code \in Digits(4) /\ d \in Digits(8) /\ e.location \in Digits(2)
  BY DataHalves DEF InternalError
<1>2. /\ Len(text) = IF IsWarning(e) THEN 16 ELSE 32
      /\ text[3] = e.image /\ text[4] = e.flags
      /\ SubSeq(text, 1, 2) = e.location
      /\ SubSeq(text, 9, 16) = Group(e.code)
      /\ ~IsWarning(e) => /\ text \in Digits(32)
                          /\ SubSeq(text, 17, 24) = Group(low)
                          /\ SubSeq(text, 25, 32) = Group(high)
  BY InternalText
<1> HIDE DEF text
<1>3. /\ high \in Digits(4) /\ low \in Digits(4)
      /\ \A i \in 1..4 : high[i] = d[i] /\ low[i] = d[4 + i]
  BY DataHalves
<1> HIDE DEF high, low, d
<1>4. ASSUME ~IsWarning(e)
      PROVE  SubSeq(text, 17, 32) = Zeros(16) <=> d = Zeros(8)
  <2>1. /\ text \in Seq(0..15) /\ Len(text) = 32
    BY <1>2, <1>4, DigitsAre, 32 \in Nat
  <2>2. SubSeq(text, 17, 32) = [i \in 1..16 |-> text[16 + i]]
    BY <2>1
  <2>3. /\ Group(low) = [i \in 1..8 |-> text[16 + i]]
        /\ Group(high) = [i \in 1..8 |-> text[24 + i]]
    <3>1. /\ SubSeq(text, 17, 24) = [i \in 1..8 |-> text[16 + i]]
          /\ SubSeq(text, 25, 32) = [i \in 1..8 |-> text[24 + i]]
      BY <2>1
    <3> QED BY <1>2, <1>4, <3>1
  <2>4. /\ text[17] = low[3] /\ text[18] = low[4] /\ text[19] = low[1] /\ text[20] = low[2]
        /\ text[25] = high[3] /\ text[26] = high[4] /\ text[27] = high[1] /\ text[28] = high[2]
        /\ \A i \in 21..24 : text[i] = 0
        /\ \A i \in 29..32 : text[i] = 0
    <3>1. \A i \in 1..8 : Group(low)[i] = text[16 + i] /\ Group(high)[i] = text[24 + i]
      BY <2>3
    <3>2. /\ \A i \in 21..24 : i - 16 \in 5..8 /\ i - 16 \in 1..8 /\ 16 + (i - 16) = i
          /\ \A i \in 29..32 : i - 24 \in 5..8 /\ i - 24 \in 1..8 /\ 24 + (i - 24) = i
      OBVIOUS
    <3>3. \A i \in 5..8 : Group(low)[i] = 0 /\ Group(high)[i] = 0
      BY <1>3, GroupDigits
    <3>4. /\ \A i \in 21..24 : text[i] = 0
          /\ \A i \in 29..32 : text[i] = 0
      BY <3>1, <3>2, <3>3
    <3>5. /\ Group(low)[1] = low[3] /\ Group(low)[2] = low[4]
          /\ Group(low)[3] = low[1] /\ Group(low)[4] = low[2]
          /\ Group(high)[1] = high[3] /\ Group(high)[2] = high[4]
          /\ Group(high)[3] = high[1] /\ Group(high)[4] = high[2]
      BY <1>3, GroupDigits
    <3>6. /\ Group(low)[1] = text[16 + 1] /\ Group(low)[2] = text[16 + 2]
          /\ Group(low)[3] = text[16 + 3] /\ Group(low)[4] = text[16 + 4]
          /\ Group(high)[1] = text[24 + 1] /\ Group(high)[2] = text[24 + 2]
          /\ Group(high)[3] = text[24 + 3] /\ Group(high)[4] = text[24 + 4]
      BY <3>1, 1 \in 1..8, 2 \in 1..8, 3 \in 1..8, 4 \in 1..8
    <3> QED BY <3>4, <3>5, <3>6
  <2>5. SubSeq(text, 17, 32) = Zeros(16) <=> \A i \in 1..16 : text[16 + i] = 0
    BY <2>2 DEF Zeros
  <2>6. d = Zeros(8) <=> \A i \in 1..8 : d[i] = 0
    <3>1. d = [i \in 1..8 |-> d[i]]
      BY <1>1 DEF Digits
    <3> QED BY <3>1 DEF Zeros
  <2>7. (\A i \in 1..8 : d[i] = 0) <=> \A i \in 1..4 : high[i] = 0 /\ low[i] = 0
    <3>1. ASSUME \A i \in 1..4 : high[i] = 0 /\ low[i] = 0, NEW i \in 1..8
          PROVE  d[i] = 0
      <4>1. CASE i \in 1..4
        BY <1>3, <3>1, <4>1
      <4>2. CASE i \notin 1..4
        <5>1. i - 4 \in 1..4 /\ 4 + (i - 4) = i
          BY <4>2
        <5> QED BY <1>3, <3>1, <5>1
      <4> QED BY <4>1, <4>2
    <3>2. ASSUME \A i \in 1..8 : d[i] = 0, NEW i \in 1..4
          PROVE  high[i] = 0 /\ low[i] = 0
      <4>1. i \in 1..8 /\ 4 + i \in 1..8
        OBVIOUS
      <4> QED BY <1>3, <3>2, <4>1
    <3> QED BY <3>1, <3>2
  <2>8. (\A i \in 1..4 : high[i] = 0 /\ low[i] = 0) <=> \A i \in 1..16 : text[16 + i] = 0
    <3>1. ASSUME \A i \in 1..4 : high[i] = 0 /\ low[i] = 0, NEW i \in 1..16
          PROVE  text[16 + i] = 0
      <4>1. /\ low[1] = 0 /\ low[2] = 0 /\ low[3] = 0 /\ low[4] = 0
            /\ high[1] = 0 /\ high[2] = 0 /\ high[3] = 0 /\ high[4] = 0
        BY <3>1, 1 \in 1..4, 2 \in 1..4, 3 \in 1..4, 4 \in 1..4
      <4>2. 16 + i \in {17, 18, 19, 20, 25, 26, 27, 28} \/ 16 + i \in 21..24 \/ 16 + i \in 29..32
        OBVIOUS
      <4> QED BY <2>4, <4>1, <4>2
    <3>2. ASSUME \A i \in 1..16 : text[16 + i] = 0, NEW i \in 1..4
          PROVE  high[i] = 0 /\ low[i] = 0
      <4>1. /\ text[16 + 1] = 0 /\ text[16 + 2] = 0 /\ text[16 + 3] = 0 /\ text[16 + 4] = 0
            /\ text[16 + 9] = 0 /\ text[16 + 10] = 0 /\ text[16 + 11] = 0 /\ text[16 + 12] = 0
        BY <3>2, 1 \in 1..16, 2 \in 1..16, 3 \in 1..16, 4 \in 1..16, 9 \in 1..16,
           10 \in 1..16, 11 \in 1..16, 12 \in 1..16
      <4>2. i = 1 \/ i = 2 \/ i = 3 \/ i = 4
        OBVIOUS
      <4> QED BY <2>4, <4>1, <4>2
    <3> QED BY <3>1, <3>2
  <2> QED BY <2>5, <2>6, <2>7, <2>8
<1>9. e.data = Zeros(8) <=> d = Zeros(8)
  BY DataHalves DEF d
<1>5. SubTypeOf(text) = IF IsWarning(e) THEN Warning
                        ELSE IF e.data = Zeros(8) THEN ErrorOnly ELSE WithData
  <2>1. 16 \div 8 = 2 /\ 32 \div 8 = 4
    OBVIOUS
  <2>2. CASE IsWarning(e)
    <3>1. Len(text) \div 8 = 2
      BY <1>2, <2>1, <2>2
    <3> QED BY <2>2, <3>1 DEF SubTypeOf
  <2>3. CASE ~IsWarning(e)
    <3>1. Len(text) \div 8 # 2
      BY <1>2, <2>1, <2>3
    <3>2. CASE e.data = Zeros(8)
      BY <1>4, <1>9, <2>3, <3>1, <3>2 DEF SubTypeOf
    <3>3. CASE e.data # Zeros(8)
      BY <1>4, <1>9, <2>3, <3>1, <3>3 DEF SubTypeOf
    <3> QED BY <2>3, <3>2, <3>3
  <2> QED BY <2>2, <2>3
<1>6. parseHexStr(reverseStr(Group(e.code)), 4) = e.code
  <2>1. /\ reverseStr(Group(e.code)) \in Digits(8)
        /\ \A i \in 1..4 : reverseStr(Group(e.code))[4 + i] = e.code[i]
    BY <1>1, GroupBack
  <2>2. /\ parseHexStr(reverseStr(Group(e.code)), 4) \in Digits(4)
        /\ \A i \in 1..4 : parseHexStr(reverseStr(Group(e.code)), 4)[i]
                             = reverseStr(Group(e.code))[i + 8 - 4]
    BY <2>1, LastDigits, 8 \in Nat, 4 \in Nat, 4 <= 8
  <2>3. \A i \in 1..4 : i + 8 - 4 = 4 + i
    OBVIOUS
  <2> QED BY <1>1, <2>1, <2>2, <2>3, SameDigits, 4 \in Nat
<1>7. ASSUME SubTypeOf(text) = WithData, ~Misjoined(e)
      PROVE  parseHexStr(DataOf(text), 8) = d
  <2>1. ~IsWarning(e)
    BY <1>5, <1>7 DEF WithData, Warning
  <2> DEFINE h == reverseStr(Group(high))
             l == reverseStr(Group(low))
  <2>2. DataOf(text) = StripZeros(h) \o StripZeros(l)
    BY <1>2, <2>1 DEF DataOf
  <2>3. /\ h \in Digits(8) /\ l \in Digits(8)
        /\ \A i \in 1..4 : h[i] = 0 /\ l[i] = 0
        /\ \A i \in 1..4 : h[4 + i] = high[i] /\ l[4 + i] = low[i]
    BY <1>3, GroupBack
  <2> HIDE DEF h, l
  <2>4. l[5] # 0 \/ \A i \in 1..4 : h[4 + i] = 0
    <3>1. low[1] # 0 \/ high = Zeros(4)
      BY <1>3, <1>7 DEF Misjoined, high, low
    <3>2. l[4 + 1] = low[1]
      BY <1>3, <2>3, 1 \in 1..4
    <3>3. high = Zeros(4) => \A i \in 1..4 : high[i] = 0
      BY DEF Zeros
    <3> QED BY <2>3, <3>1, <3>2, <3>3
  <2> DEFINE r == parseHexStr(DataOf(text), 8)
  <2>5. /\ r \in Digits(8)
        /\ \A i \in 1..4 : r[i] = h[4 + i] /\ r[4 + i] = l[4 + i]
    BY <2>2, <2>3, <2>4, HalvesJoined
  <2> HIDE DEF r
  <2>6. ASSUME NEW i \in 1..8 PROVE r[i] = d[i]
    <3>1. CASE i \in 1..4
      BY <1>3, <2>3, <2>5, <3>1
    <3>2. CASE i \notin 1..4
      <4>1. i - 4 \in 1..4 /\ 4 + (i - 4) = i
        BY <3>2
      <4>2. r[4 + (i - 4)] = d[4 + (i - 4)]
        BY <1>3, <2>3, <2>5, <4>1
      <4> QED BY <4>1, <4>2
    <3> QED BY <3>1, <3>2
  <2>7. r = d
    BY <1>1, <2>5, <2>6, SameDigits, 8 \in Nat
  <2> QED BY <2>7 DEF r
<1>8. /\ f.subType = SubTypeOf(text)
      /\ f.imageCode = text[3] /\ f.dir = text[4] \div 8
      /\ f.location = Value(SubSeq(text, 1, 2))
      /\ f.errCode = Value(parseHexStr(reverseStr(SubSeq(text, 9, 16)), 4))
      /\ f.data = IF SubTypeOf(text) = WithData THEN parseHexStr(DataOf(text), 8) ELSE Zeros(8)
  BY DEF InternalFields
<1> HIDE DEF f
<1> QED BY <1>2, <1>5, <1>6, <1>7, <1>8 DEF f, text, d

LEMMA ValueOfTwo ==
  ASSUME NEW s \in Digits(2)
  PROVE  Value(s) = 16 * s[1] + s[2]
BY ValueOf, 2 \in 2..7

LEMMA ValueOfFour ==
  ASSUME NEW s \in Digits(4)
  PROVE  Value(s) = 4096 * s[1] + 256 * s[2] + 16 * s[3] + s[4]
BY ValueOf, 4 \in 2..7

\* The arithmetic of the record's bytes.
LEMMA InternalBytes ==
  ASSUME NEW flags \in 0..15, NEW socket \in 0..1, NEW sub \in {1, 2, 4}, NEW image \in 0..15,
         NEW code \in Nat
  PROVE  /\ 128 * (flags \div 8) + 113 >= 128 <=> flags >= 8
         /\ (128 * socket + 16 * sub + image) \div 128 = socket
         /\ (128 * socket + 16 * sub + image) % 16 = image
         /\ (code % 256) + 256 * (code \div 256) = code
<1>1. 128 * (flags \div 8) + 113 >= 128 <=> flags >= 8
  OBVIOUS
<1>2. (128 * socket + 16 * sub + image) \div 128 = socket
  OBVIOUS
<1>3. (128 * socket + 16 * sub + image) % 16 = image
  OBVIOUS
<1>4. (code % 256) + 256 * (code \div 256) = code
  OBVIOUS
<1> QED BY <1>1, <1>2, <1>3, <1>4

LEMMA ChannelAndDimm ==
  ASSUME NEW v \in Nat
  PROVE  ((v % 16384) % 2048) + 2048 * (((v \div 256) \div 8) % 8) = v % 16384
<1> DEFINE k == v \div 2048
<1>1. (v \div 256) \div 8 = k /\ k \in Nat
  OBVIOUS
<1>2. v % 2048 \in Nat /\ v % 2048 < 2048 /\ v = 2048 * k + (v % 2048)
  OBVIOUS
<1>3. k % 8 \in 0..7 /\ k = 8 * (k \div 8) + (k % 8) /\ k \div 8 \in Nat
  BY <1>1
<1>4. v % 16384 = 2048 * (k % 8) + (v % 2048)
  OBVIOUS
<1>5. (v % 16384) % 2048 = v % 2048
  OBVIOUS
<1> HIDE DEF k
<1> QED BY <1>1, <1>2, <1>3, <1>4, <1>5

LEMMA InstanceBytes ==
  ASSUME NEW w \in Digits(4)
  PROVE  /\ Value(w) \in Nat
         /\ (Value(w) \div 256) \div 64 = w[1] \div 4
         /\ Value(w) \div 16384 = w[1] \div 4
         /\ 256 * (Value(w) \div 256) + (Value(w) % 256) = Value(w)
         /\ ((Value(w) % 16384) % 2048) + 2048 * (((Value(w) \div 256) \div 8) % 8)
              = Value(w) % 16384
<1> DEFINE v == Value(w)
           a == w[1]
           r == 256 * w[2] + 16 * w[3] + w[4]
<1>1. /\ a \in Nat /\ a < 16 /\ w[2] \in Nat /\ w[2] < 16
      /\ w[3] \in Nat /\ w[3] < 16 /\ w[4] \in Nat /\ w[4] < 16
  BY DEF Digits
<1>2. r \in Nat /\ r < 4096
  BY <1>1
<1>3. v = 4096 * a + r
  <2>1. v = 4096 * w[1] + 256 * w[2] + 16 * w[3] + w[4]
    BY ValueOfFour
  <2> HIDE DEF v
  <2> QED BY <1>1, <2>1
<1> HIDE DEF v, a, r
<1>4. v \in Nat /\ (v \div 256) \div 64 = a \div 4
  BY <1>1, <1>2, <1>3
<1>5. v \div 16384 = a \div 4
  BY <1>1, <1>2, <1>3
<1>6. 256 * (v \div 256) + (v % 256) = v
  BY <1>4
<1>7. ((v % 16384) % 2048) + 2048 * (((v \div 256) \div 8) % 8) = v % 16384
  BY <1>4, ChannelAndDimm
<1> QED BY <1>4, <1>5, <1>6, <1>7 DEF v, a

\* A number of two bytes.
LEMMA TwoBytes ==
  ASSUME NEW s \in Digits(8)
  PROVE  /\ Value(SubSeq(s, 7, 8)) + 256 * Value(SubSeq(s, 5, 6)) = Value(SubSeq(s, 5, 8))
         /\ s = Zeros(8) => Value(SubSeq(s, 5, 8)) = 0
<1>1. s \in Seq(0..15) /\ Len(s) = 8 /\ \A i \in 1..8 : s[i] \in 0..15
  BY DigitsAre, 8 \in Nat
<1>2. /\ SubSeq(s, 7, 8) = [i \in 1..2 |-> s[6 + i]]
      /\ SubSeq(s, 5, 6) = [i \in 1..2 |-> s[4 + i]]
      /\ SubSeq(s, 5, 8) = [i \in 1..4 |-> s[4 + i]]
  BY <1>1
<1>3. /\ SubSeq(s, 7, 8) \in Digits(2) /\ SubSeq(s, 5, 6) \in Digits(2)
      /\ SubSeq(s, 5, 8) \in Digits(4)
  <2>1. /\ \A i \in 1..2 : s[6 + i] \in 0..15 /\ s[4 + i] \in 0..15
        /\ \A i \in 1..4 : s[4 + i] \in 0..15
    BY <1>1
  <2> QED BY <1>2, <2>1 DEF Digits
<1>4. /\ SubSeq(s, 7, 8)[1] = s[7] /\ SubSeq(s, 7, 8)[2] = s[8]
      /\ SubSeq(s, 5, 6)[1] = s[5] /\ SubSeq(s, 5, 6)[2] = s[6]
      /\ SubSeq(s, 5, 8)[1] = s[5] /\ SubSeq(s, 5, 8)[2] = s[6]
      /\ SubSeq(s, 5, 8)[3] = s[7] /\ SubSeq(s, 5, 8)[4] = s[8]
  BY <1>2
<1> DEFINE p == SubSeq(s, 7, 8)
           q == SubSeq(s, 5, 6)
           r == SubSeq(s, 5, 8)
<1> HIDE DEF p, q, r
<1>5. /\ Value(p) = 16 * s[7] + s[8]
      /\ Value(q) = 16 * s[5] + s[6]
      /\ Value(r) = 4096 * s[5] + 256 * s[6] + 16 * s[7] + s[8]
  <2>1. p \in Digits(2) /\ q \in Digits(2) /\ r \in Digits(4)
    BY <1>3 DEF p, q, r
  <2>2. /\ p[1] = s[7] /\ p[2] = s[8] /\ q[1] = s[5] /\ q[2] = s[6]
        /\ r[1] = s[5] /\ r[2] = s[6] /\ r[3] = s[7] /\ r[4] = s[8]
    BY <1>4 DEF p, q, r
  <2>3. Value(p) = 16 * p[1] + p[2] /\ Value(q) = 16 * q[1] + q[2]
    BY <2>1, ValueOfTwo
  <2>4. Value(r) = 4096 * r[1] + 256 * r[2] + 16 * r[3] + r[4]
    BY <2>1, ValueOfFour
  <2> QED BY <2>2, <2>3, <2>4
<1>6. /\ s[5] \in Nat /\ s[6] \in Nat /\ s[7] \in Nat /\ s[8] \in Nat
      /\ s = Zeros(8) => s[5] = 0 /\ s[6] = 0 /\ s[7] = 0 /\ s[8] = 0
  BY <1>1 DEF Zeros
<1>7. Value(p) + 256 * Value(q) = Value(r) /\ (s = Zeros(8) => Value(r) = 0)
  BY <1>5, <1>6
<1> QED BY <1>7 DEF p, q, r

LEMMA InternalLogged ==
  ASSUME NEW e \in InternalErrors, LogInternalError(e)
  PROVE  EntriesTellTheError'
<1> DEFINE f == InternalFields(TextOf(e))
<1>1. e \in InternalError
  BY RasLineAssumption
<1>2. /\ e.file \in InternalFiles /\ e.socket \in 0..1 /\ e.location \in Digits(2)
      /\ e.image \in 0..15 /\ e.flags \in 0..15 /\ e.code \in Digits(4) /\ e.data \in Digits(8)
  BY <1>1 DEF InternalError
<1>3. error' = e /\ sel' = InternalSel(e, f) /\ journal' = InternalJournal(e, f)
  BY DEF LogInternalError
<1>4. /\ f.subType = IF IsWarning(e) THEN Warning
                     ELSE IF e.data = Zeros(8) THEN ErrorOnly ELSE WithData
      /\ f.imageCode = e.image /\ f.dir = e.flags \div 8
      /\ f.location = Value(e.location) /\ f.errCode = Value(e.code)
      /\ f.subType # WithData => f.data = Zeros(8)
      /\ f.subType = WithData /\ ~Misjoined(e) => f.data = Joined(e)
  BY <1>1, InternalFieldsAre
<1> HIDE DEF f
<1>5. f.subType \in {1, 2, 4}
  BY <1>4 DEF Warning, ErrorOnly, WithData
<1>6. Value(e.code) \in Nat
  BY <1>2, ValueOf, 4 \in 2..7
<1>7. /\ sel'[1] = 128 * f.dir + 113
      /\ sel'[2] = 128 * e.socket + 16 * f.subType + f.imageCode
      /\ sel'[3] = f.location
      /\ sel'[4] = f.errCode % 256 /\ sel'[5] = f.errCode \div 256
      /\ sel'[6] = Value(SubSeq(f.data, 7, 8)) /\ sel'[7] = Value(SubSeq(f.data, 5, 6))
  BY <1>3 DEF InternalSel
<1>8. /\ sel'[1] >= 128 <=> e.flags >= 8
      /\ sel'[2] \div 128 = e.socket /\ sel'[2] % 16 = e.image
      /\ sel'[4] + 256 * sel'[5] = Value(e.code)
  BY <1>2, <1>4, <1>5, <1>6, <1>7, InternalBytes
<1>9. /\ journal'.image \in {<<e.image>>, <<>>}
      /\ journal'.location \in {<<sel'[3]>>, <<>>}
      /\ journal'.error \in {<<Value(e.code)>>, <<>>}
  BY <1>3, <1>4, <1>7 DEF InternalJournal, WordFor
<1>10. journal'.severity = "Warning" <=> IsWarning(e)
  BY <1>3, <1>4 DEF InternalJournal, Warning, ErrorOnly, WithData
<1>11. ASSUME IsWarning(e) \/ e.data = Zeros(8)
       PROVE  journal'.data = <<>> /\ sel'[6] + 256 * sel'[7] = 0
  <2>1. f.subType \in {Warning, ErrorOnly} /\ f.data = Zeros(8)
    BY <1>4, <1>11 DEF Warning, ErrorOnly, WithData
  <2>2. Zeros(8) \in Digits(8)
    BY ZerosAre, 8 \in Nat
  <2> QED BY <1>3, <1>7, <2>1, <2>2, TwoBytes DEF InternalJournal
<1>12. ASSUME ~(IsWarning(e) \/ e.data = Zeros(8) \/ Misjoined(e))
       PROVE  /\ journal'.data = Joined(e)
              /\ sel'[6] + 256 * sel'[7] = Value(FirstHalf(e))
              /\ e.order = "low first" => journal'.data = e.data
              /\ e.order = "high first" => journal'.data = Swapped(e)
  <2>1. f.subType \notin {Warning, ErrorOnly} /\ f.data = Joined(e)
    BY <1>4, <1>12 DEF Warning, ErrorOnly, WithData
  <2>2. /\ Joined(e) \in Digits(8) /\ SubSeq(Joined(e), 5, 8) = FirstHalf(e)
        /\ e.order = "low first" => Joined(e) = e.data
    BY <1>1, DataHalves
  <2>3. journal'.data = Joined(e)
    BY <1>3, <2>1 DEF InternalJournal
  <2> DEFINE d == Joined(e)
  <2>4. sel'[6] + 256 * sel'[7] = Value(FirstHalf(e))
    <3>1. d \in Digits(8) /\ SubSeq(d, 5, 8) = FirstHalf(e) /\ f.data = d
      BY <2>1, <2>2
    <3>2. sel'[6] = Value(SubSeq(d, 7, 8)) /\ sel'[7] = Value(SubSeq(d, 5, 6))
      BY <1>7, <3>1
    <3> HIDE DEF d
    <3>3. Value(SubSeq(d, 7, 8)) + 256 * Value(SubSeq(d, 5, 6)) = Value(SubSeq(d, 5, 8))
      BY <3>1, TwoBytes
    <3> QED BY <3>1, <3>2, <3>3
  <2>5. e.order = "high first" => Joined(e) = Swapped(e)
    BY DEF Joined, FirstHalf, SecondHalf, Swapped
  <2> QED BY <2>2, <2>3, <2>4, <2>5
<1>13. e.file \notin ErrorFiles
  BY <1>2 DEF InternalFiles, ErrorFiles
<1>14. InternalErrorsAreTold'
  BY <1>3, <1>4, <1>7, <1>8, <1>9, <1>10, <1>11 DEF InternalErrorsAreTold
<1>16. DataIsTold'
  BY <1>3, <1>12 DEF DataIsTold
<1>15. ErrorsArePlaced'
  BY <1>3, <1>13 DEF ErrorsArePlaced
<1> QED BY <1>14, <1>15, <1>16 DEF EntriesTellTheError

\* What the daemon cuts out of another line.
LEMMA ErrorFieldsAre ==
  ASSUME NEW e \in Error
  PROVE  LET f == ErrorFields(e, TextOf(e)) IN
         /\ f.type = TypeOf(e)
         /\ f.address = e.address /\ f.misc0 = e.misc0
         /\ f.instance = IF f.type = OverflowType THEN 16384 * e.socket
                         ELSE Value(e.instance)
         /\ Value(SubSeq(f.type, 1, 2)) = Value(e.type)
         /\ Value(SubSeq(f.type, 3, 4)) = Value(e.subType)
<1> DEFINE text == TextOf(e)
           f == ErrorFields(e, text)
<1>1. /\ e.type \in Digits(2) /\ e.subType \in Digits(2)
      /\ e.instance \in Digits(4) /\ e.address \in Digits(16) /\ e.misc0 \in Digits(16)
  BY DEF Error
<1>2. /\ SubSeq(text, 1, 4) = TypeOf(e)
      /\ SubSeq(text, 5, 8) = Bytes(e.instance)
      /\ SubSeq(text, 17, 32) = Bytes(e.address)
      /\ SubSeq(text, 33, 48) = Bytes(e.misc0)
  BY ErrorText
<1> HIDE DEF text
<1>3. /\ Number(text, 5, 4) = e.instance /\ Number(text, 17, 16) = e.address
      /\ Number(text, 33, 16) = e.misc0
  <2>1. 5 + 4 - 1 = 8 /\ 17 + 16 - 1 = 32 /\ 33 + 16 - 1 = 48
    OBVIOUS
  <2>2. /\ reverseStr(Bytes(e.instance)) = e.instance
        /\ reverseStr(Bytes(e.address)) = e.address
        /\ reverseStr(Bytes(e.misc0)) = e.misc0
    BY <1>1, BytesBack, 4 \in Nat, 16 \in Nat, 4 % 2 = 0, 16 % 2 = 0
  <2> QED BY <1>2, <2>1, <2>2 DEF Number
<1>4. /\ f.type = SubSeq(text, 1, 4)
      /\ f.address = Number(text, 17, 16) /\ f.misc0 = Number(text, 33, 16)
  BY DEF ErrorFields
<1>5. f.instance = IF f.type = OverflowType THEN 16384 * e.socket
                   ELSE Value(Number(text, 5, 4))
  BY DEF ErrorFields
<1> HIDE DEF f
<1>6. /\ SubSeq(TypeOf(e), 1, 2) = e.type
      /\ SubSeq(TypeOf(e), 3, 4) = e.subType
  <2> DEFINE both == e.type \o e.subType
  <2>1. /\ both \in Digits(2 + 2)
        /\ \A i \in 1..2 : both[i] = e.type[i]
        /\ \A i \in 1..2 : both[2 + i] = e.subType[i]
    BY <1>1, JoinedDigits, 2 \in Nat
  <2> HIDE DEF both
  <2>2. both \in Seq(0..15) /\ Len(both) = 4
    BY <2>1, DigitsAre, 2 + 2 = 4, 4 \in Nat
  <2>3. e.type = [i \in 1..2 |-> e.type[i]] /\ e.subType = [i \in 1..2 |-> e.subType[i]]
    BY <1>1 DEF Digits
  <2>4. /\ SubSeq(both, 1, 2) = [i \in 1..2 |-> both[i]]
        /\ SubSeq(both, 3, 4) = [i \in 1..2 |-> both[2 + i]]
    BY <2>2
  <2>5. SubSeq(both, 1, 2) = e.type /\ SubSeq(both, 3, 4) = e.subType
    BY <2>1, <2>3, <2>4
  <2> QED BY <2>5 DEF both, TypeOf
<1>7. f.type = TypeOf(e) /\ f.address = e.address /\ f.misc0 = e.misc0
  BY <1>2, <1>3, <1>4, Zenon
<1>8. /\ Value(SubSeq(f.type, 1, 2)) = Value(e.type)
      /\ Value(SubSeq(f.type, 3, 4)) = Value(e.subType)
  BY <1>6, <1>7, Zenon
<1>9. f.instance = IF f.type = OverflowType THEN 16384 * e.socket ELSE Value(e.instance)
  BY <1>3, <1>5
<1> QED BY <1>7, <1>8, <1>9 DEF f, text

LEMMA ErrorLogged ==
  ASSUME NEW e \in OtherErrors, LogError(e)
  PROVE  EntriesTellTheError'
<1> DEFINE f == ErrorFields(e, TextOf(e))
           overflow == TypeOf(e) = OverflowType
           memory == e.file \in {"error_mem_ue", "error_mem_ce"} /\ ~overflow
           socket == IF overflow THEN e.socket ELSE e.instance[1] \div 4
           low == Value(SubSeq(e.misc0, 10, 16))
           v == Value(e.instance)
<1>1. e \in Error
  BY RasLineAssumption
<1>2. /\ e.file \in ErrorFiles /\ e.socket \in 0..1 /\ e.type \in Digits(2)
      /\ e.subType \in Digits(2) /\ e.instance \in Digits(4) /\ e.misc0 \in Digits(16)
  BY <1>1 DEF Error
<1>3. error' = e /\ sel' = ErrorSel(f) /\ journal' = ErrorJournal(e, f)
  BY DEF LogError
<1>4. /\ f.type = TypeOf(e) /\ f.address = e.address /\ f.misc0 = e.misc0
      /\ Value(SubSeq(f.type, 1, 2)) = Value(e.type)
      /\ Value(SubSeq(f.type, 3, 4)) = Value(e.subType)
  BY <1>1, ErrorFieldsAre
<1>5. f.instance = IF f.type = OverflowType THEN 16384 * e.socket ELSE v
  BY <1>1, ErrorFieldsAre
<1> HIDE DEF f
<1>6. /\ overflow <=> f.type = OverflowType
      /\ f.instance = IF overflow THEN 16384 * e.socket ELSE v
      /\ memory <=> e.file \in {"error_mem_ue", "error_mem_ce"} /\ ~overflow
      /\ socket = IF overflow THEN e.socket ELSE e.instance[1] \div 4
  BY <1>4, <1>5
<1>7. /\ sel'[1] = Value(e.type) /\ sel'[2] = Value(e.subType)
      /\ sel'[3] = f.instance \div 256 /\ sel'[4] = f.instance % 256
  BY <1>3, <1>4 DEF ErrorSel
<1>8. /\ v \in Nat
      /\ (v \div 256) \div 64 = e.instance[1] \div 4
      /\ v \div 16384 = e.instance[1] \div 4
      /\ 256 * (v \div 256) + (v % 256) = v
      /\ ((v % 16384) % 2048) + 2048 * (((v \div 256) \div 8) % 8) = v % 16384
  BY <1>2, InstanceBytes
<1>9. e.socket = 0 \/ e.socket = 1
  BY <1>2
<1> HIDE DEF v, overflow, memory, socket
<1>10. (f.instance \div 256) \div 64 = socket /\ f.instance \div 16384 = socket
  <2>1. CASE overflow
    <3>1. f.instance = 16384 * e.socket /\ socket = e.socket
      BY <1>6, <2>1
    <3>2. CASE e.socket = 0
      BY <3>1, <3>2
    <3>3. CASE e.socket = 1
      BY <3>1, <3>3
    <3> QED BY <1>9, <3>2, <3>3
  <2>2. CASE ~overflow
    <3>1. f.instance = v /\ socket = e.instance[1] \div 4
      BY <1>6, <2>2
    <3> QED BY <1>8, <3>1
  <2> QED BY <2>1, <2>2
<1>11. ~overflow => f.instance = v
  BY <1>6
<1>12. journal'.socket = <<socket>> \/ (~memory /\ TypeOf(e) \notin Occurrences)
  <2>1. CASE memory
    <3>1. journal' = MemoryPlace(f)
      BY <1>3, <1>6, <2>1 DEF ErrorJournal
    <3>2. journal'.socket = <<f.instance \div 16384>>
      BY <3>1 DEF MemoryPlace
    <3> QED BY <1>10, <3>2
  <2>2. CASE ~memory
    <3>1. \/ journal' = PlaceOf(f)
          \/ journal'.socket = <<f.instance \div 16384>>
      BY <1>3, <1>6, <2>2 DEF ErrorJournal
    <3>2. f.type \in Occurrences => PlaceOf(f).socket = <<f.instance \div 16384>>
      BY DEF PlaceOf
    <3>3. CASE f.type \in Occurrences
      <4>1. journal'.socket = <<f.instance \div 16384>>
        BY <3>1, <3>2, <3>3
      <4> QED BY <1>10, <4>1
    <3>4. CASE f.type \notin Occurrences
      BY <1>4, <2>2, <3>4
    <3> QED BY <3>3, <3>4
  <2> QED BY <2>1, <2>2
<1>13. ASSUME memory
       PROVE  /\ journal'.channel + 2048 * ((sel'[3] \div 8) % 8) = v % 16384
              /\ journal'.rank \in {<<e.address[11]>>, <<>>}
              /\ journal'.cell.bank = e.misc0[8]
              /\ low < 256 * 1024 => journal'.cell.row = low \div 1024
              /\ low % 1024 < 32 => journal'.cell.col = 8 * (low % 1024)
  <2>1. journal' = MemoryPlace(f) /\ ~overflow
    BY <1>3, <1>13, <1>6 DEF ErrorJournal
  <2>2. journal'.channel = (f.instance % 16384) % 2048 /\ journal'.cell = CellOf(f)
    BY <2>1 DEF MemoryPlace
  <2>3. journal'.channel + 2048 * ((sel'[3] \div 8) % 8) = v % 16384
    <3>1. f.instance = v
      BY <1>11, <2>1
    <3> QED BY <1>7, <1>8, <2>2, <3>1
  <2>4. journal'.rank \in {<<e.address[11]>>, <<>>}
    BY <1>4, <2>1 DEF MemoryPlace
  <2>5. /\ journal'.cell.bank = e.misc0[8]
        /\ journal'.cell.row = (low \div 1024) % 256
        /\ journal'.cell.col = ((low % 1024) * 8) % 256
    BY <1>4, <2>2 DEF CellOf
  <2>6. low \in Nat
    <3>1. /\ SubSeq(e.misc0, 10, 10 + 7 - 1) \in Digits(7)
      BY <1>2, PartOfDigits, 16 \in Nat, 7 \in Nat, 10 \in 1..16, 10 + 7 <= 16 + 1
    <3> QED BY <3>1, ValueOf, 10 + 7 - 1 = 16, 7 \in 2..7
  <2> HIDE DEF low
  <2>7. low < 256 * 1024 => (low \div 1024) % 256 = low \div 1024
    BY <2>6
  <2>8. low % 1024 < 32 => ((low % 1024) * 8) % 256 = 8 * (low % 1024)
    BY <2>6
  <2> QED BY <2>3, <2>4, <2>5, <2>7, <2>8
<1>14. e.file \notin InternalFiles
  BY <1>2 DEF InternalFiles, ErrorFiles
<1>15. InternalErrorsAreTold' /\ DataIsTold'
  BY <1>3, <1>14 DEF InternalErrorsAreTold, DataIsTold
<1>16. /\ sel'[1] = Value(e.type) /\ sel'[2] = Value(e.subType)
       /\ sel'[3] \div 64 = socket
       /\ ~overflow => 256 * sel'[3] + sel'[4] = v
       /\ journal'.socket = <<socket>> \/ (~memory /\ TypeOf(e) \notin Occurrences)
       /\ memory => /\ journal'.channel + 2048 * ((sel'[3] \div 8) % 8) = v % 16384
                    /\ journal'.rank \in {<<e.address[11]>>, <<>>}
                    /\ journal'.cell.bank = e.misc0[8]
                    /\ low < 256 * 1024 => journal'.cell.row = low \div 1024
                    /\ low % 1024 < 32 => journal'.cell.col = 8 * (low % 1024)
  <2>1. sel'[3] \div 64 = socket
    BY <1>7, <1>10
  <2>2. ~overflow => 256 * sel'[3] + sel'[4] = v
    BY <1>7, <1>8, <1>11
  <2> HIDE DEF low
  <2> QED BY <1>7, <1>12, <1>13, <2>1, <2>2
<1>17. ErrorsArePlaced'
  BY <1>3, <1>16 DEF ErrorsArePlaced, v, overflow, memory, socket
<1> QED BY <1>15, <1>17 DEF EntriesTellTheError

\* For all lines and tables of words, the two entries of a line tell the error
\* that the hardware put into it, up to the losses that the parts of the
\* property name, and whichever half of the data the driver writes first
\* (parseAndLogInternalErrors, parseAndLogErrors and what they call).
THEOREM LinesAreTold == LinesSpec => []EntriesTellTheError
<1>1. LinesInit => EntriesTellTheError
  BY DEF LinesInit, None, EntriesTellTheError, InternalErrorsAreTold, DataIsTold,
         ErrorsArePlaced, InternalFiles, ErrorFiles
<1>2. EntriesTellTheError /\ [LinesNext]_lineVars => EntriesTellTheError'
  <2> SUFFICES ASSUME EntriesTellTheError, [LinesNext]_lineVars PROVE EntriesTellTheError'
    OBVIOUS
  <2>1. CASE NextLine
    <3>1. error'.file = "none"
      BY <2>1 DEF NextLine, None
    <3>2. error'.file \notin InternalFiles /\ error'.file \notin ErrorFiles
      BY <3>1 DEF InternalFiles, ErrorFiles
    <3>3. InternalErrorsAreTold'
      BY <3>2 DEF InternalErrorsAreTold
    <3>4. ErrorsArePlaced'
      BY <3>2 DEF ErrorsArePlaced
    <3>5. DataIsTold'
      BY <3>2 DEF DataIsTold
    <3> QED BY <3>3, <3>4, <3>5 DEF EntriesTellTheError
  <2>2. CASE \E e \in InternalErrors : LogInternalError(e)
    BY <2>2, InternalLogged
  <2>3. CASE \E e \in OtherErrors : LogError(e)
    BY <2>3, ErrorLogged
  <2>4. CASE UNCHANGED lineVars
    <3>1. error' = error /\ sel' = sel /\ journal' = journal
      BY <2>4 DEF lineVars
    <3>2. InternalErrorsAreTold'
      BY <3>1 DEF EntriesTellTheError, InternalErrorsAreTold
    <3>4. DataIsTold'
      BY <3>1 DEF EntriesTellTheError, DataIsTold
    <3>3. ErrorsArePlaced'
      BY <3>1 DEF EntriesTellTheError, ErrorsArePlaced
    <3> QED BY <3>2, <3>3, <3>4 DEF EntriesTellTheError
  <2> QED BY <2>1, <2>2, <2>3, <2>4 DEF LinesNext
<1> QED BY <1>1, <1>2, PTL DEF LinesSpec

===============================================================================
