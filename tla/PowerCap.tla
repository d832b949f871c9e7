------------------------------- MODULE PowerCap -------------------------------
(***************************************************************************)
(* The power manager (power-manager/src/power_cap_interface.cpp): a D-Bus  *)
(* object with five writable properties, a sampling timer that reads the   *)
(* total power, a one-shot correction timer that runs the exception action *)
(* and a file that carries the properties across restarts.                 *)
(*                                                                         *)
(* The daemon has one thread and one event loop, so a handler is one       *)
(* action; handlers, timers, the sensor, and a crash at any point          *)
(* (including between the truncation and the write of the file)            *)
(* interleave.  Time is counted in ticks of the minimum sampling period.   *)
(* A due timer may fire late: Tick is never blocked by it.                 *)
(***************************************************************************)
EXTENDS Integers

CONSTANTS
  Powers,        \* total power readings (double cast to uint32_t)
  Caps,          \* values of the PowerCap property
  CorrTimes,     \* values of CorrectionTime, in ticks
  Periods,       \* values of SamplingPeriod, in ticks
  MinPeriod,     \* minSamplPeriod, in ticks
  DefaultCfg,    \* what a fresh D-Bus object holds
  MaxAge,        \* bound of the history counter hist.age
  DiskMayFail    \* whether opening or writing the file may fail

Actions == {"NoAction", "HardPowerOff", "LogEventOnly", "Oem"}

\* paramsCfg.  A struct read from a torn file may hold a number that is no
\* enumerator: "Invalid".
Config == [enableFlag   : BOOLEAN,
           exceptAct    : Actions \cup {"Invalid"},
           powerCap     : Caps,
           correctTime  : CorrTimes,
           samplePeriod : Periods]

ASSUME DomainAssumption ==
  /\ Powers \subseteq Nat
  /\ Caps \subseteq Nat
  /\ CorrTimes \subseteq Nat
  /\ Periods \subseteq Nat
  /\ MinPeriod \in Periods /\ MinPeriod > 0
  /\ DiskMayFail \in BOOLEAN

ASSUME DefaultAssumption ==
  /\ DefaultCfg \in Config
  /\ ~DefaultCfg.enableFlag

ASSUME BoundAssumption ==
  MaxAge \in Nat /\ \A t \in CorrTimes : t <= MaxAge

VARIABLES
  up,            \* the daemon runs
  prop,          \* the D-Bus properties (CapItf)
  currentCfg,    \* the in-memory copy written to the file
  file,          \* powerCap.cfg: absent, torn, or a configuration
  correctTimer,
  samplingTimer,
  power,         \* what the total power sensor shows
  readable,      \* the sensor is configured and its service answers
  out,           \* the external calls made by the last step
  hist,          \* history of the current excursion (properties only)
  saved          \* the last write of the file was carried out (properties only)

vars == <<up, prop, currentCfg, file, correctTimer, samplingTimer, power,
          readable, out, hist, saved>>

-------------------------------------------------------------------------------
(* sdeventplus::utility::Timer: a null interval is 0 (no code sets one of 0 *)
(* ticks).                                                                  *)

Timer == [enabled : BOOLEAN, expired : BOOLEAN, interval : Nat, left : Nat]

TimerOff == [enabled |-> FALSE, expired |-> FALSE, interval |-> 0, left |-> 0]

\* Mutant: the periodic timer forgets its interval.
RestartForgetting(d) == [enabled |-> TRUE, expired |-> FALSE, interval |-> 0, left |-> d]

Restart(d)     == [enabled |-> TRUE, expired |-> FALSE, interval |-> d, left |-> d]
RestartOnce(d) == [enabled |-> TRUE, expired |-> FALSE, interval |-> 0, left |-> d]

SetInterval(t, d) == [t EXCEPT !.interval = d]

Due(t) == up /\ t.enabled /\ t.left = 0

\* What the library does before it runs the callback.
Fired(t) == [t EXCEPT !.expired = TRUE,
                      !.enabled = t.interval > 0,
                      !.left    = t.interval]

Elapse(t) == [t EXCEPT !.left = IF @ > 0 THEN @ - 1 ELSE 0]

-------------------------------------------------------------------------------
(* The configuration file.                                                  *)

NoFile == [state |-> "absent"]
Torn   == [state |-> "torn"]
Intact(c) == [state |-> "intact", cfg |-> c]

Files == {NoFile, Torn} \cup {Intact(c) : c \in Config}

\* The constructor does not check what read() returned: a torn file leaves
\* the struct with whatever the memory held.
ReadCfg(f) == IF f.state = "torn" THEN Config ELSE {f.cfg}

\* The configuration the next start will come up with.
Restored == IF file.state = "absent" THEN DefaultCfg ELSE file.cfg

\* Mutant: the bound is applied from the wrong side.
ClampAbove(p) == IF p > MinPeriod THEN MinPeriod ELSE p

Clamp(p) == IF p < MinPeriod THEN MinPeriod ELSE p

WithClampedPeriod(c) == [c EXCEPT !.samplePeriod = Clamp(@)]

\* writeCurrentCfg: neither an open that fails nor, the file truncated by
\* then, a write that fails is noticed.
WriteCurrentCfg ==
  \/ file' = Intact(currentCfg') /\ saved' = TRUE
  \/ DiskMayFail /\ file' \in {file, Torn} /\ saved' = FALSE

-------------------------------------------------------------------------------
(* History.  verdict: the last comparison of a sample with the cap since    *)
(* limiting was switched on; age: ticks since the first sample of the       *)
(* current excursion; grace: CorrectionTime at that sample; event: what the *)
(* correction callback did in this excursion; by: the action it ran.        *)

NoExcursion == [verdict |-> "none", age |-> 0, grace |-> 0, event |-> "idle",
                by |-> "none"]

PowerSeenBelow == [NoExcursion EXCEPT !.verdict = "below"]

ExcursionSeen == [verdict |-> "over", age |-> 0, grace |-> prop.correctTime,
                  event |-> "idle", by |-> "none"]

History == [verdict : {"none", "over", "below"}, age : 0..MaxAge,
            grace : CorrTimes \cup {0},
            event : {"idle", "unlogged", "asserted", "refused"},
            by : Actions \cup {"Invalid", "none"}]

Outputs == {"PowerOff", "LogAssert", "LogDeassert", "Oem",
            "NotifyExceed", "NotifyDrop"}

-------------------------------------------------------------------------------
Init ==
  /\ up = FALSE
  /\ prop = DefaultCfg
  /\ currentCfg = DefaultCfg
  /\ file = NoFile
  /\ correctTimer = TimerOff
  /\ samplingTimer = TimerOff
  /\ power \in Powers
  /\ readable \in BOOLEAN
  /\ out = {}
  /\ hist = NoExcursion
  /\ saved = TRUE

\* The constructor.  Each setter it calls rewrites the file; the last one,
\* samplingPeriod, clamps.  The sampling timer is started by the first one,
\* when the SamplingPeriod property still has its default.
Start ==
  /\ ~up
  /\ up' = TRUE
  /\ \/ /\ file = NoFile
        /\ currentCfg' = DefaultCfg
        /\ prop' = DefaultCfg
        /\ UNCHANGED <<file, samplingTimer>>
        /\ saved' = TRUE
     \/ /\ file # NoFile
        /\ \E c \in ReadCfg(file) :
             /\ currentCfg' = WithClampedPeriod(c)
             /\ prop' = WithClampedPeriod(c)
             /\ samplingTimer' =
                  SetInterval(IF c.enableFlag
                                THEN Restart(Clamp(DefaultCfg.samplePeriod))
                                ELSE TimerOff,
                              Clamp(c.samplePeriod))
             /\ \/ /\ file' = Intact(WithClampedPeriod(c))
                   /\ saved' = TRUE
                \/ /\ DiskMayFail
                   /\ file' \in {file, Torn, Intact(c)}
                   /\ saved' = FALSE
  /\ out' = {}
  /\ UNCHANGED <<correctTimer, power, readable, hist>>

\* The process or the controller dies: between handlers, or inside
\* writeCurrentCfg after the file was opened with truncation.
Crash ==
  /\ up
  /\ up' = FALSE
  /\ file' \in {file, Torn}
  /\ prop' = DefaultCfg
  /\ currentCfg' = DefaultCfg
  /\ correctTimer' = TimerOff
  /\ samplingTimer' = TimerOff
  /\ out' = {}
  /\ hist' = NoExcursion
  /\ saved' = FALSE
  /\ UNCHANGED <<power, readable>>

\* The same inside the constructor: what it read may already be in the file.
CrashInStart ==
  /\ ~up
  /\ file # NoFile
  /\ \E c \in ReadCfg(file) : file' \in {Torn, Intact(c)}
  /\ out' = {}
  /\ saved' = FALSE
  /\ UNCHANGED <<up, prop, currentCfg, correctTimer, samplingTimer, power,
                 readable, hist>>

-------------------------------------------------------------------------------
(* D-Bus property setters: memory copy, file, then the property itself.     *)

\* Mutant: switching off stops the sampling timer only.
SetPowerCapEnableLeavingCorrection(value) ==
  /\ up
  /\ samplingTimer' = CASE value /\ ~prop.enableFlag -> Restart(Clamp(prop.samplePeriod))
                        [] ~value -> TimerOff
                        [] OTHER  -> samplingTimer
  /\ hist' = IF ~value /\ prop.enableFlag THEN NoExcursion ELSE hist
  /\ currentCfg' = [currentCfg EXCEPT !.enableFlag = value]
  /\ WriteCurrentCfg
  /\ prop' = [prop EXCEPT !.enableFlag = value]
  /\ out' = {}
  /\ UNCHANGED <<up, correctTimer, power, readable>>

SetPowerCapEnable(value) ==
  /\ up
  /\ CASE value /\ ~prop.enableFlag ->
            /\ samplingTimer' = Restart(Clamp(prop.samplePeriod))
            /\ UNCHANGED <<correctTimer, hist>>
       [] ~value /\ prop.enableFlag ->
            /\ samplingTimer' = TimerOff
            /\ correctTimer' = TimerOff
            /\ hist' = NoExcursion
       [] OTHER ->
            /\ UNCHANGED <<samplingTimer, correctTimer, hist>>
  /\ currentCfg' = [currentCfg EXCEPT !.enableFlag = value]
  /\ WriteCurrentCfg
  /\ prop' = [prop EXCEPT !.enableFlag = value]
  /\ out' = {}
  /\ UNCHANGED <<up, power, readable>>

SetPowerCap(value) ==
  /\ up
  /\ currentCfg' = [currentCfg EXCEPT !.powerCap = value]
  /\ WriteCurrentCfg
  /\ prop' = [prop EXCEPT !.powerCap = value]
  /\ out' = {}
  /\ UNCHANGED <<up, correctTimer, samplingTimer, power, readable, hist>>

SetExceptionAction(value) ==
  /\ up
  /\ currentCfg' = [currentCfg EXCEPT !.exceptAct = value]
  /\ WriteCurrentCfg
  /\ prop' = [prop EXCEPT !.exceptAct = value]
  /\ out' = {}
  /\ UNCHANGED <<up, correctTimer, samplingTimer, power, readable, hist>>

\* Mutant: the file is written before the copy is updated.
SetCorrectionTimeStaleFile(value) ==
  /\ up
  /\ currentCfg' = [currentCfg EXCEPT !.correctTime = value]
  /\ file' = Intact(currentCfg) /\ saved' = TRUE
  /\ prop' = [prop EXCEPT !.correctTime = value]
  /\ out' = {}
  /\ UNCHANGED <<up, correctTimer, samplingTimer, power, readable, hist>>

SetCorrectionTime(value) ==
  /\ up
  /\ currentCfg' = [currentCfg EXCEPT !.correctTime = value]
  /\ WriteCurrentCfg
  /\ prop' = [prop EXCEPT !.correctTime = value]
  /\ out' = {}
  /\ UNCHANGED <<up, correctTimer, samplingTimer, power, readable, hist>>

SetSamplingPeriod(value) ==
  /\ up
  /\ samplingTimer' = SetInterval(samplingTimer, Clamp(value))
  /\ currentCfg' = [currentCfg EXCEPT !.samplePeriod = Clamp(value)]
  /\ WriteCurrentCfg
  /\ prop' = [prop EXCEPT !.samplePeriod = Clamp(value)]
  /\ out' = {}
  /\ UNCHANGED <<up, correctTimer, power, readable, hist>>

-------------------------------------------------------------------------------
(* The correction callback.  A failing power-off request throws out of the  *)
(* callback: the event is not logged and the excess not notified.  The      *)
(* other calls are made inside try.                                         *)

ExceptionOutputs(act) ==
  CASE act = "HardPowerOff" -> {"PowerOff", "LogAssert"}
    [] act = "LogEventOnly" -> {"LogAssert"}
    [] act = "Oem"          -> {"Oem"}
    [] OTHER                -> {}

CorrectTimerFires ==
  /\ Due(correctTimer)
  /\ correctTimer' = Fired(correctTimer)
  /\ \/ /\ out' = ExceptionOutputs(prop.exceptAct) \cup {"NotifyExceed"}
        /\ hist' = [hist EXCEPT !.event = IF "LogAssert" \in out' THEN "asserted"
                                                               ELSE "unlogged",
                                !.by = prop.exceptAct]
     \/ /\ prop.exceptAct = "HardPowerOff"
        /\ out' = {}
        /\ hist' = [hist EXCEPT !.event = "refused", !.by = prop.exceptAct]
  /\ UNCHANGED <<up, prop, currentCfg, file, samplingTimer, power, readable, saved>>

(* The sampling callback: one disjunct per outcome of the D-Bus read and    *)
(* comparison.                                                              *)

SamplingTimerExpires ==
  /\ Due(samplingTimer)
  /\ samplingTimer' = Fired(samplingTimer)
  /\ UNCHANGED <<up, prop, currentCfg, file, power, readable, saved>>

\* Sensor not configured, or the D-Bus call failed: nothing is decided.
SampleUnavailable ==
  /\ SamplingTimerExpires
  /\ ~readable
  /\ out' = {}
  /\ UNCHANGED <<correctTimer, hist>>

\* Mutant: hasExpired() is not asked before arming.
SampleExceedsRearming ==
  /\ SamplingTimerExpires
  /\ readable
  /\ power >= prop.powerCap
  /\ correctTimer' = IF correctTimer.enabled THEN correctTimer
                                             ELSE RestartOnce(prop.correctTime)
  /\ hist' = IF hist.verdict = "over" THEN hist ELSE ExcursionSeen
  /\ out' = {}

SampleExceeds ==
  /\ SamplingTimerExpires
  /\ readable
  /\ power >= prop.powerCap
  /\ correctTimer' = IF ~correctTimer.enabled /\ ~correctTimer.expired
                       THEN RestartOnce(prop.correctTime)
                       ELSE correctTimer
  /\ hist' = IF hist.verdict = "over" THEN hist ELSE ExcursionSeen
  /\ out' = {}

\* Mutant: a log-only excursion is closed without an event.
DeassertedPowerOffOnly == {"HardPowerOff"}

DeassertedActions == {"HardPowerOff", "LogEventOnly"}

\* Mutant: the correction timer is stopped only after it fired.
SampleBelowLeavingTimer ==
  /\ SamplingTimerExpires
  /\ readable
  /\ power < prop.powerCap
  /\ correctTimer' = IF correctTimer.expired THEN TimerOff ELSE correctTimer
  /\ out' = IF correctTimer.expired THEN {"NotifyDrop", "LogDeassert"} ELSE {}
  /\ hist' = PowerSeenBelow

\* Mutant: the latch of a correction that ran is not taken back.
SampleBelowLatched ==
  /\ SamplingTimerExpires
  /\ readable
  /\ power < prop.powerCap
  /\ correctTimer' = IF correctTimer.enabled THEN TimerOff ELSE correctTimer
  /\ out' = IF correctTimer.expired THEN {"NotifyDrop", "LogDeassert"} ELSE {}
  /\ hist' = PowerSeenBelow

\* Mutant: the drop is announced whether or not a correction ran.
SampleBelowAlwaysNotify ==
  /\ SamplingTimerExpires
  /\ readable
  /\ power < prop.powerCap
  /\ correctTimer' = TimerOff
  /\ out' = {"NotifyDrop"}
  /\ hist' = PowerSeenBelow

SampleBelow ==
  /\ SamplingTimerExpires
  /\ readable
  /\ power < prop.powerCap
  /\ correctTimer' = TimerOff
  /\ out' = IF correctTimer.expired
              THEN {"NotifyDrop"} \cup
                   (IF prop.exceptAct \in DeassertedActions THEN {"LogDeassert"} ELSE {})
              ELSE {}
  /\ hist' = PowerSeenBelow

SamplingTimerFires == SampleUnavailable \/ SampleExceeds \/ SampleBelow

-------------------------------------------------------------------------------
(* Time, and the sensor.                                                    *)

Tick ==
  /\ up
  /\ correctTimer' = Elapse(correctTimer)
  /\ samplingTimer' = Elapse(samplingTimer)
  /\ hist' = [hist EXCEPT !.age = IF hist.verdict = "over" /\ @ < MaxAge
                                    THEN @ + 1 ELSE @]
  /\ out' = {}
  /\ UNCHANGED <<up, prop, currentCfg, file, power, readable, saved>>

\* The load, and the service that reports it, change at will.  A reading
\* whose cast to uint32_t is undefined (negative, NaN) counts as any value.
SensorChanges ==
  /\ power' \in Powers
  /\ readable' \in BOOLEAN
  /\ out' = {}
  /\ UNCHANGED <<up, prop, currentCfg, file, correctTimer, samplingTimer, hist, saved>>

-------------------------------------------------------------------------------
SetProperty ==
  \/ \E v \in BOOLEAN   : SetPowerCapEnable(v)
  \/ \E v \in Caps      : SetPowerCap(v)
  \/ \E v \in Actions   : SetExceptionAction(v)
  \/ \E v \in CorrTimes : SetCorrectionTime(v)
  \/ \E v \in Periods   : SetSamplingPeriod(v)

Next ==
  \/ Start \/ Crash \/ CrashInStart
  \/ SetProperty
  \/ CorrectTimerFires
  \/ SamplingTimerFires
  \/ Tick
  \/ SensorChanges

Spec == Init /\ [][Next]_vars

\* The event loop runs a due callback, and time passes.  Nothing is assumed
\* of the users, the sensor, the disk, or a restart (no unit restarts it).
Fairness ==
  /\ WF_vars(CorrectTimerFires)
  /\ WF_vars(SamplingTimerFires)
  /\ WF_vars(Tick)

FairSpec == Spec /\ Fairness

-------------------------------------------------------------------------------
(* Properties.                                                              *)

\* Every variable has its type.
TypeOK ==
  /\ up \in BOOLEAN
  /\ prop \in Config
  /\ currentCfg \in Config
  /\ file \in Files
  /\ correctTimer \in Timer
  /\ samplingTimer \in Timer
  /\ power \in Powers
  /\ readable \in BOOLEAN
  /\ out \subseteq Outputs
  /\ hist \in History
  /\ saved \in BOOLEAN

\* The timers follow the PowerCapEnable property through every order of
\* setters, restarts from a file and callbacks: sampling runs exactly while
\* limiting is on, never faster than minSamplPeriod, and no correction is
\* pending, or latched as done, while it is off.
TimersFollowEnable ==
  /\ samplingTimer.enabled <=> up /\ prop.enableFlag
  /\ samplingTimer.enabled => samplingTimer.interval >= MinPeriod
  /\ correctTimer.enabled \/ correctTimer.expired => up /\ prop.enableFlag

\* The correction timer is armed or latched exactly when the last comparison
\* of a sample with the cap came out "over", and an armed timer cannot run
\* out before CorrectionTime, as it was when the excursion was first seen,
\* has passed since then; later changes of cap or time do not touch it.
\* It is one-shot, and latched exactly when its callback ran.
TimerTracksExcursion ==
  /\ correctTimer.enabled \/ correctTimer.expired <=> hist.verdict = "over"
  /\ ~(correctTimer.enabled /\ correctTimer.expired)
  /\ correctTimer.interval = 0
  /\ correctTimer.enabled => hist.age + correctTimer.left >= hist.grace
  /\ correctTimer.expired <=> hist.event # "idle"

\* A step runs the exception action or announces the excess.
Acts == {"PowerOff", "LogAssert", "Oem", "NotifyExceed"} \cap out' # {}

\* The exception action is taken only while limiting is on, when the last
\* sample was over the cap it was compared with and every sample since the
\* first one of the excursion, at least CorrectionTime ago, was too.
ActionJustified ==
  [][Acts => /\ prop.enableFlag
             /\ hist.verdict = "over"
             /\ hist.age >= hist.grace]_vars

\* One excursion, one action: it is not taken again before a sample below
\* the cap, a switch-off or a restart, whatever is changed meanwhile.
OncePerExcursion == [][Acts => hist.event = "idle"]_vars

\* "Limit Exceeded" and "Limit No Exceeded" come in pairs, and a drop is
\* announced only after an excess: whatever was set in between, as long as
\* the action read when the power drops is the one that ran and the power-off
\* request was not refused.
EventsPaired ==
  [][/\ "LogDeassert" \in out' =>
          hist.event \in {"asserted", "refused"} \/ prop.exceptAct # hist.by
     /\ "NotifyDrop" \in out' => hist.event # "idle"
     /\ "NotifyDrop" \in out' /\ hist.event = "asserted" =>
          "LogDeassert" \in out' \/ prop.exceptAct # hist.by]_vars

\* Whenever the last write went through, the properties shown on D-Bus are
\* the ones a restart would come up with.
CfgDurable ==
  up => /\ prop = currentCfg
        /\ saved => file.state # "torn" /\ Restored = prop

\* A cap exceeded for good is acted on, in the excursion that lasts: what an
\* earlier one was answered with does not count, and neither does a power-off
\* request that was refused, which is not tried again.
LimitEnforced ==
  <>[](/\ up /\ prop.enableFlag /\ readable /\ power >= prop.powerCap
       /\ hist.event # "refused")
     => <>[](hist.event \in {"unlogged", "asserted"})

\* Power below the cap for good withdraws a pending or latched correction.
LimitReleased ==
  <>[](up /\ prop.enableFlag /\ readable /\ power < prop.powerCap)
     => <>[](~correctTimer.enabled /\ ~correctTimer.expired)

\* The daemon implements the promise of PowerLimit.
Phase ==
  CASE ~(up /\ prop.enableFlag) -> "Off"
    [] up /\ prop.enableFlag /\ correctTimer.enabled -> "Grace"
    [] up /\ prop.enableFlag /\ correctTimer.expired /\ ~correctTimer.enabled -> "Limited"
    [] OTHER -> "Watching"

Notice ==
  CASE "NotifyExceed" \in out -> "exceed"
    [] "NotifyDrop" \in out -> "drop"
    [] OTHER -> "none"

Limit == INSTANCE PowerLimit WITH phase <- Phase, notice <- Notice

LimitSpec == Limit!Spec
===============================================================================
