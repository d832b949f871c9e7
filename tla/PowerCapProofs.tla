---------------------------- MODULE PowerCapProofs ----------------------------
(***************************************************************************)
(* Proofs about PowerCap, for all sets of powers, caps, times and periods. *)
(* The inductive invariant is the conjunction of the type invariant, the   *)
(* link between the timers and the PowerCapEnable property, and the link   *)
(* between the correction timer and the excursion.                         *)
(***************************************************************************)
EXTENDS PowerCap, TLAPS

IInv == TypeOK /\ TimersFollowEnable /\ TimerTracksExcursion

-------------------------------------------------------------------------------
(* Operators.                                                               *)

\* The clamp of samplingPeriod yields a period, and never one below the
\* minimum.
LEMMA ClampBound ==
  ASSUME NEW p \in Periods
  PROVE  Clamp(p) \in Periods /\ Clamp(p) \in Nat /\ Clamp(p) >= MinPeriod /\ Clamp(p) > 0
BY DomainAssumption DEF Clamp

\* Every timer operation yields a timer.
LEMMA TimerOps ==
  ASSUME NEW t \in Timer, NEW d \in Nat
  PROVE  /\ TimerOff \in Timer
         /\ Restart(d) \in Timer
         /\ RestartOnce(d) \in Timer
         /\ SetInterval(t, d) \in Timer
         /\ Fired(t) \in Timer
         /\ Elapse(t) \in Timer
<1>1. TimerOff \in Timer /\ Restart(d) \in Timer /\ RestartOnce(d) \in Timer
  BY DEF TimerOff, Restart, RestartOnce, Timer
<1>2. SetInterval(t, d) \in Timer
  BY DEF SetInterval, Timer
<1>3. Fired(t) \in Timer
  <2> DEFINE armed == t.interval > 0
  <2>1. armed \in BOOLEAN /\ t.interval \in Nat
    BY DEF Timer
  <2>2. Fired(t) = [t EXCEPT !.expired = TRUE, !.enabled = armed, !.left = t.interval]
    BY DEF Fired
  <2> HIDE DEF armed
  <2> QED
    BY <2>1, <2>2 DEF Timer
<1>4. Elapse(t) \in Timer
  BY DEF Elapse, Timer
<1> QED
  BY <1>1, <1>2, <1>3, <1>4

\* A configuration stays one when its period is clamped.
LEMMA ClampedConfig ==
  ASSUME NEW c \in Config
  PROVE  WithClampedPeriod(c) \in Config
<1>1. Clamp(c.samplePeriod) \in Periods
  BY ClampBound DEF Config
<1> QED
  BY <1>1 DEF WithClampedPeriod, Config

\* What the constructor reads from an existing file is a configuration.
LEMMA ReadIsConfig ==
  ASSUME NEW f \in Files, f # NoFile, NEW c \in ReadCfg(f)
  PROVE  c \in Config
BY DEF Files, NoFile, Torn, Intact, ReadCfg

\* A write leaves a well-formed file.
LEMMA WriteType ==
  ASSUME TypeOK, currentCfg' \in Config, WriteCurrentCfg
  PROVE  file' \in Files /\ saved' \in BOOLEAN
BY DEF TypeOK, WriteCurrentCfg, Files

-------------------------------------------------------------------------------
(* Types.                                                                   *)

LEMMA TypeInit == Init => TypeOK
<1> SUFFICES ASSUME Init PROVE TypeOK
  OBVIOUS
<1>1. TimerOff \in Timer
  BY DEF TimerOff, Timer
<1>2. NoExcursion \in History
  BY BoundAssumption DEF NoExcursion, History
<1> QED
  BY <1>1, <1>2, DefaultAssumption DEF Init, TypeOK, Files

LEMMA TypeStep == TypeOK /\ [Next]_vars => TypeOK'
<1> SUFFICES ASSUME TypeOK, [Next]_vars PROVE TypeOK'
  OBVIOUS
<1> USE DEF TypeOK
<1>n. NoExcursion \in History /\ TimerOff \in Timer /\ {} \subseteq Outputs
  BY BoundAssumption DEF NoExcursion, History, TimerOff, Timer
<1>c. prop.samplePeriod \in Periods /\ prop.correctTime \in CorrTimes /\ prop.correctTime \in Nat
  BY DomainAssumption DEF Config
<1>1. CASE Start
  <2>1. CASE file = NoFile
    BY <1>1, <2>1, <1>n, DefaultAssumption, ReadIsConfig DEF Start
  <2>2. CASE file # NoFile
    <3>1. PICK c \in ReadCfg(file) :
             /\ currentCfg' = WithClampedPeriod(c)
             /\ prop' = WithClampedPeriod(c)
             /\ samplingTimer' =
                  SetInterval(IF c.enableFlag
                                THEN Restart(Clamp(DefaultCfg.samplePeriod))
                                ELSE TimerOff,
                              Clamp(c.samplePeriod))
             /\ \/ file' = Intact(WithClampedPeriod(c)) /\ saved' = TRUE
                \/ file' \in {file, Torn, Intact(c)} /\ saved' = FALSE
      BY <1>1, <2>2 DEF Start
    <3>2. c \in Config /\ WithClampedPeriod(c) \in Config
      BY <2>2, ReadIsConfig, ClampedConfig
    <3>3. Clamp(c.samplePeriod) \in Nat /\ Clamp(DefaultCfg.samplePeriod) \in Nat
      BY <3>2, ClampBound, DefaultAssumption DEF Config
    <3>4. samplingTimer' \in Timer
      BY <3>1, <3>3, TimerOps, <1>n
    <3>5. file' \in Files /\ saved' \in BOOLEAN
      BY <3>1, <3>2 DEF Files
    <3> QED
      BY <1>1, <3>1, <3>2, <3>4, <3>5, <1>n DEF Start
  <2> QED
    BY <2>1, <2>2
<1>2. CASE Crash
  BY <1>2, <1>n, DefaultAssumption DEF Crash, Files
<1>3. CASE CrashInStart
  <2>1. file' \in Files
    BY <1>3, ReadIsConfig DEF CrashInStart, Files
  <2> QED
    BY <1>3, <2>1, <1>n DEF CrashInStart
<1>4. CASE SetProperty
  <2>1. ASSUME NEW v \in BOOLEAN, SetPowerCapEnable(v)
        PROVE  TypeOK'
    <3>1. currentCfg' \in Config /\ prop' \in Config
      BY <2>1 DEF SetPowerCapEnable, Config
    <3>2. Clamp(prop.samplePeriod) \in Nat
      BY <1>c, ClampBound
    <3>3. samplingTimer' \in Timer /\ correctTimer' \in Timer /\ hist' \in History
      BY <2>1, <3>2, TimerOps, <1>n DEF SetPowerCapEnable
    <3> QED
      BY <2>1, <3>1, <3>3, WriteType, <1>n DEF SetPowerCapEnable
  <2>2. ASSUME NEW v \in Caps, SetPowerCap(v)
        PROVE  TypeOK'
    <3>1. currentCfg' \in Config /\ prop' \in Config
      BY <2>2 DEF SetPowerCap, Config
    <3> QED
      BY <2>2, <3>1, WriteType, <1>n DEF SetPowerCap
  <2>3. ASSUME NEW v \in Actions, SetExceptionAction(v)
        PROVE  TypeOK'
    <3>1. currentCfg' \in Config /\ prop' \in Config
      BY <2>3 DEF SetExceptionAction, Config
    <3> QED
      BY <2>3, <3>1, WriteType, <1>n DEF SetExceptionAction
  <2>4. ASSUME NEW v \in CorrTimes, SetCorrectionTime(v)
        PROVE  TypeOK'
    <3>1. currentCfg' \in Config /\ prop' \in Config
      BY <2>4 DEF SetCorrectionTime, Config
    <3> QED
      BY <2>4, <3>1, WriteType, <1>n DEF SetCorrectionTime
  <2>5. ASSUME NEW v \in Periods, SetSamplingPeriod(v)
        PROVE  TypeOK'
    <3>1. currentCfg' \in Config /\ prop' \in Config
      BY <2>5, ClampBound DEF SetSamplingPeriod, Config
    <3>2. samplingTimer' \in Timer
      BY <2>5, ClampBound, TimerOps DEF SetSamplingPeriod
    <3> QED
      BY <2>5, <3>1, <3>2, WriteType, <1>n DEF SetSamplingPeriod
  <2> QED
    BY <1>4, <2>1, <2>2, <2>3, <2>4, <2>5 DEF SetProperty
<1>5. CASE CorrectTimerFires
  <2>1. correctTimer' \in Timer
    BY <1>5, TimerOps DEF CorrectTimerFires
  <2>2. out' \subseteq Outputs
    BY <1>5 DEF CorrectTimerFires, ExceptionOutputs, Outputs
  <2>3. hist' \in History
    <3>1. prop.exceptAct \in Actions \cup {"Invalid"}
      BY DEF Config
    <3>2. hist' = [hist EXCEPT !.event = "refused", !.by = prop.exceptAct] =>
            hist' \in History
      BY <3>1 DEF History
    <3>3. \A e \in {"asserted", "unlogged"} :
            hist' = [hist EXCEPT !.event = e, !.by = prop.exceptAct] => hist' \in History
      BY <3>1 DEF History
    <3> QED
      BY <1>5, <3>2, <3>3 DEF CorrectTimerFires
  <2> QED
    BY <1>5, <2>1, <2>2, <2>3 DEF CorrectTimerFires
<1>6. CASE SamplingTimerFires
  <2>1. samplingTimer' \in Timer
    BY <1>6, TimerOps DEF SamplingTimerFires, SampleUnavailable, SampleExceeds,
       SampleBelow, SamplingTimerExpires
  <2>2. correctTimer' \in Timer
    BY <1>6, <1>c, <1>n, TimerOps DEF SamplingTimerFires, SampleUnavailable,
       SampleExceeds, SampleBelow
  <2>3. out' \subseteq Outputs
    BY <1>6 DEF SamplingTimerFires, SampleUnavailable, SampleExceeds,
       SampleBelow, Outputs
  <2>4. hist' \in History
    <3>1. CASE SampleUnavailable
      BY <3>1 DEF SampleUnavailable
    <3>2. CASE SampleExceeds
      <4>1. ExcursionSeen \in History
        BY <1>c, BoundAssumption DEF ExcursionSeen, History
      <4> QED
        BY <3>2, <4>1 DEF SampleExceeds
    <3>3. CASE SampleBelow
      BY <3>3, <1>n DEF SampleBelow, PowerSeenBelow, History
    <3> QED
      BY <1>6, <3>1, <3>2, <3>3 DEF SamplingTimerFires
  <2> QED
    BY <1>6, <2>1, <2>2, <2>3, <2>4 DEF SamplingTimerFires, SampleUnavailable,
       SampleExceeds, SampleBelow, SamplingTimerExpires
<1>7. CASE Tick
  <2>1. hist' \in History
    BY <1>7, BoundAssumption DEF Tick, History
  <2> QED
    BY <1>7, <2>1, <1>n, TimerOps DEF Tick
<1>8. CASE SensorChanges
  BY <1>8, <1>n DEF SensorChanges
<1>9. CASE UNCHANGED vars
  BY <1>9 DEF vars
<1> QED
  BY <1>1, <1>2, <1>3, <1>4, <1>5, <1>6, <1>7, <1>8, <1>9 DEF Next

\* Every reachable state of the daemon is well typed.
THEOREM TypeCorrect == Spec => []TypeOK
<1> QED
  BY TypeInit, TypeStep, PTL DEF Spec

-------------------------------------------------------------------------------
(* The safety invariants.                                                   *)

LEMMA IInvInit == Init => IInv
<1> SUFFICES ASSUME Init PROVE IInv
  OBVIOUS
<1>1. TimersFollowEnable
  BY DefaultAssumption DEF Init, TimersFollowEnable, TimerOff
<1>2. TimerTracksExcursion
  BY DEF Init, TimerTracksExcursion, TimerOff, NoExcursion
<1> QED
  BY <1>1, <1>2, TypeInit DEF IInv

\* The timers follow the PowerCapEnable property through every step.
LEMMA TimersStep == IInv /\ [Next]_vars => TimersFollowEnable'
<1> SUFFICES ASSUME IInv, [Next]_vars PROVE TimersFollowEnable'
  OBVIOUS
<1> USE DEF IInv, TimersFollowEnable
<1>0. TypeOK
  OBVIOUS
<1>c. prop.samplePeriod \in Periods
  BY <1>0 DEF TypeOK, Config
<1>1. CASE Start
  <2>1. CASE file = NoFile
    BY <1>1, <2>1, DefaultAssumption DEF Start
  <2>2. CASE file # NoFile
    <3>1. PICK c \in ReadCfg(file) :
             /\ prop' = WithClampedPeriod(c)
             /\ samplingTimer' =
                  SetInterval(IF c.enableFlag
                                THEN Restart(Clamp(DefaultCfg.samplePeriod))
                                ELSE TimerOff,
                              Clamp(c.samplePeriod))
      BY <1>1, <2>2 DEF Start
    <3>2. c \in Config
      BY <1>0, <2>2, ReadIsConfig DEF TypeOK
    <3>3. prop'.enableFlag = c.enableFlag
      BY <3>1, <3>2 DEF WithClampedPeriod, Config
    <3>4. Clamp(c.samplePeriod) >= MinPeriod
      BY <3>2, ClampBound DEF Config
    <3>5. /\ samplingTimer'.enabled = c.enableFlag
          /\ samplingTimer'.interval = Clamp(c.samplePeriod)
      BY <3>1, <3>2 DEF SetInterval, Restart, TimerOff, Config
    <3> QED
      BY <1>1, <3>3, <3>4, <3>5 DEF Start
  <2> QED
    BY <2>1, <2>2
<1>2. CASE Crash
  BY <1>2 DEF Crash, TimerOff
<1>3. CASE CrashInStart
  BY <1>3 DEF CrashInStart
<1>4. CASE SetProperty
  <2>1. ASSUME NEW v \in BOOLEAN, SetPowerCapEnable(v)
        PROVE  TimersFollowEnable'
    <3>1. prop'.enableFlag = v
      BY <2>1, <1>0 DEF SetPowerCapEnable, TypeOK, Config
    <3>2. CASE v /\ ~prop.enableFlag
      <4>1. samplingTimer'.enabled /\ samplingTimer'.interval >= MinPeriod
        BY <2>1, <3>2, <1>c, ClampBound DEF SetPowerCapEnable, Restart
      <4> QED
        BY <2>1, <3>1, <3>2, <4>1 DEF SetPowerCapEnable
    <3>3. CASE ~v /\ prop.enableFlag
      BY <2>1, <3>1, <3>3 DEF SetPowerCapEnable, TimerOff
    <3>4. CASE ~(v /\ ~prop.enableFlag) /\ ~(~v /\ prop.enableFlag)
      <4>1. prop.enableFlag = v
        BY <3>4, <1>0 DEF TypeOK, Config
      <4> QED
        BY <2>1, <3>1, <3>4, <4>1 DEF SetPowerCapEnable
    <3> QED
      BY <3>2, <3>3, <3>4
  <2>2. ASSUME NEW v \in Caps, SetPowerCap(v)
        PROVE  TimersFollowEnable'
    BY <2>2, <1>0 DEF SetPowerCap, TypeOK, Config
  <2>3. ASSUME NEW v \in Actions, SetExceptionAction(v)
        PROVE  TimersFollowEnable'
    BY <2>3, <1>0 DEF SetExceptionAction, TypeOK, Config
  <2>4. ASSUME NEW v \in CorrTimes, SetCorrectionTime(v)
        PROVE  TimersFollowEnable'
    BY <2>4, <1>0 DEF SetCorrectionTime, TypeOK, Config
  <2>5. ASSUME NEW v \in Periods, SetSamplingPeriod(v)
        PROVE  TimersFollowEnable'
    <3>1. /\ samplingTimer'.enabled = samplingTimer.enabled
          /\ samplingTimer'.interval = Clamp(v)
      BY <2>5, <1>0 DEF SetSamplingPeriod, SetInterval, TypeOK, Timer
    <3>2. prop'.enableFlag = prop.enableFlag
      BY <2>5, <1>0 DEF SetSamplingPeriod, TypeOK, Config
    <3> QED
      BY <2>5, <3>1, <3>2, ClampBound DEF SetSamplingPeriod
  <2> QED
    BY <1>4, <2>1, <2>2, <2>3, <2>4, <2>5 DEF SetProperty
<1>5. CASE CorrectTimerFires
  <2>1. up /\ prop.enableFlag
    BY <1>5 DEF CorrectTimerFires, Due
  <2> QED
    BY <1>5, <2>1 DEF CorrectTimerFires
<1>6. CASE SamplingTimerFires
  <2>1. /\ samplingTimer.enabled /\ up /\ prop.enableFlag
        /\ samplingTimer' = Fired(samplingTimer)
        /\ UNCHANGED <<up, prop>>
    BY <1>6 DEF SamplingTimerFires, SampleUnavailable, SampleExceeds,
       SampleBelow, SamplingTimerExpires, Due
  <2>2. samplingTimer.interval > 0
    BY <2>1, <1>0, DomainAssumption DEF TypeOK, Timer
  <2>3. samplingTimer'.interval = samplingTimer.interval /\ samplingTimer'.enabled
    BY <2>1, <2>2, <1>0 DEF Fired, TypeOK, Timer
  <2> QED
    BY <2>1, <2>3
<1>7. CASE Tick
  <2>1. /\ samplingTimer'.enabled = samplingTimer.enabled
        /\ samplingTimer'.interval = samplingTimer.interval
        /\ correctTimer'.enabled = correctTimer.enabled
        /\ correctTimer'.expired = correctTimer.expired
    BY <1>7, <1>0 DEF Tick, Elapse, TypeOK, Timer
  <2> QED
    BY <1>7, <2>1 DEF Tick
<1>8. CASE SensorChanges
  BY <1>8 DEF SensorChanges
<1>9. CASE UNCHANGED vars
  BY <1>9 DEF vars
<1> QED
  BY <1>1, <1>2, <1>3, <1>4, <1>5, <1>6, <1>7, <1>8, <1>9 DEF Next

\* The correction timer tracks the excursion through every step.
LEMMA ExcursionStep == IInv /\ [Next]_vars => TimerTracksExcursion'
<1> SUFFICES ASSUME IInv, [Next]_vars PROVE TimerTracksExcursion'
  OBVIOUS
<1> USE DEF IInv, TimerTracksExcursion
<1>0. TypeOK
  OBVIOUS
<1>c. prop.correctTime \in Nat
  BY <1>0, DomainAssumption DEF TypeOK, Config
<1>n. /\ ~TimerOff.enabled /\ ~TimerOff.expired /\ TimerOff.interval = 0
      /\ NoExcursion.verdict # "over" /\ NoExcursion.event = "idle"
      /\ PowerSeenBelow.verdict # "over" /\ PowerSeenBelow.event = "idle"
  BY DEF TimerOff, NoExcursion, PowerSeenBelow
<1>1. CASE Start
  BY <1>1 DEF Start
<1>2. CASE Crash
  BY <1>2, <1>n DEF Crash
<1>3. CASE CrashInStart
  BY <1>3 DEF CrashInStart
<1>4. CASE SetProperty
  <2>1. ASSUME NEW v \in BOOLEAN, SetPowerCapEnable(v)
        PROVE  TimerTracksExcursion'
    BY <2>1, <1>n DEF SetPowerCapEnable
  <2>2. ASSUME NEW v \in Caps, SetPowerCap(v)
        PROVE  TimerTracksExcursion'
    BY <2>2 DEF SetPowerCap
  <2>3. ASSUME NEW v \in Actions, SetExceptionAction(v)
        PROVE  TimerTracksExcursion'
    BY <2>3 DEF SetExceptionAction
  <2>4. ASSUME NEW v \in CorrTimes, SetCorrectionTime(v)
        PROVE  TimerTracksExcursion'
    BY <2>4 DEF SetCorrectionTime
  <2>5. ASSUME NEW v \in Periods, SetSamplingPeriod(v)
        PROVE  TimerTracksExcursion'
    BY <2>5 DEF SetSamplingPeriod
  <2> QED
    BY <1>4, <2>1, <2>2, <2>3, <2>4, <2>5 DEF SetProperty
<1>5. CASE CorrectTimerFires
  <2>1. correctTimer.enabled /\ hist.verdict = "over"
    BY <1>5 DEF CorrectTimerFires, Due
  <2>2. /\ ~correctTimer'.enabled /\ correctTimer'.expired
        /\ correctTimer'.interval = 0
    BY <1>5, <1>0 DEF CorrectTimerFires, Fired, TypeOK, Timer
  <2>3. hist'.verdict = hist.verdict /\ hist'.event # "idle"
    BY <1>5, <1>0 DEF CorrectTimerFires, TypeOK, History
  <2> QED
    BY <2>1, <2>2, <2>3
<1>6. CASE SamplingTimerFires
  <2>1. CASE SampleUnavailable
    BY <2>1 DEF SampleUnavailable
  <2>2. CASE SampleExceeds
    <3>1. CASE hist.verdict = "over"
      BY <2>2, <3>1 DEF SampleExceeds
    <3>2. CASE hist.verdict # "over"
      BY <2>2, <3>2, <1>c DEF SampleExceeds, RestartOnce, ExcursionSeen
    <3> QED
      BY <3>1, <3>2
  <2>3. CASE SampleBelow
    BY <2>3, <1>n DEF SampleBelow
  <2> QED
    BY <1>6, <2>1, <2>2, <2>3 DEF SamplingTimerFires
<1>7. CASE Tick
  <2>1. /\ correctTimer'.enabled = correctTimer.enabled
        /\ correctTimer'.expired = correctTimer.expired
        /\ correctTimer'.interval = correctTimer.interval
        /\ correctTimer'.left = IF correctTimer.left > 0 THEN correctTimer.left - 1 ELSE 0
    BY <1>7, <1>0 DEF Tick, Elapse, TypeOK, Timer
  <2>2. /\ hist'.verdict = hist.verdict /\ hist'.event = hist.event
        /\ hist'.grace = hist.grace
        /\ hist'.age = IF hist.verdict = "over" /\ hist.age < MaxAge
                         THEN hist.age + 1 ELSE hist.age
    BY <1>7, <1>0 DEF Tick, TypeOK, History
  <2>3. /\ hist.age \in 0..MaxAge /\ hist.grace \in 0..MaxAge
        /\ correctTimer.left \in Nat
    <3>1. hist.age \in 0..MaxAge /\ hist.grace \in CorrTimes \cup {0}
      BY <1>0 DEF TypeOK, History
    <3>2. \A t \in CorrTimes : t \in 0..MaxAge
      BY BoundAssumption, DomainAssumption
    <3>3. 0 \in 0..MaxAge
      BY BoundAssumption
    <3>4. correctTimer.left \in Nat
      BY <1>0 DEF TypeOK, Timer
    <3> QED
      BY <3>1, <3>2, <3>3, <3>4
  <2>4. ASSUME correctTimer.enabled
        PROVE  hist'.age + correctTimer'.left >= hist.grace
    BY <2>1, <2>2, <2>3, <2>4, BoundAssumption
  <2> QED
    BY <2>1, <2>2, <2>4
<1>8. CASE SensorChanges
  BY <1>8 DEF SensorChanges
<1>9. CASE UNCHANGED vars
  BY <1>9 DEF vars
<1> QED
  BY <1>1, <1>2, <1>3, <1>4, <1>5, <1>6, <1>7, <1>8, <1>9 DEF Next

LEMMA IInvStep == IInv /\ [Next]_vars => IInv'
BY TypeStep, TimersStep, ExcursionStep DEF IInv

LEMMA Inductive == Spec => []IInv
BY IInvInit, IInvStep, PTL DEF Spec

\* Sampling and correction follow the PowerCapEnable property.
THEOREM TimersCorrect == Spec => []TimersFollowEnable
<1>1. IInv => TimersFollowEnable
  BY DEF IInv
<1> QED
  BY <1>1, Inductive, PTL

\* The correction timer is armed or latched exactly during an excursion.
THEOREM ExcursionTracked == Spec => []TimerTracksExcursion
<1>1. IInv => TimerTracksExcursion
  BY DEF IInv
<1> QED
  BY <1>1, Inductive, PTL

-------------------------------------------------------------------------------
(* The action properties: only CorrectTimerFires acts, and when it runs the *)
(* invariant says what it may.                                              *)

LEMMA OnlyCorrectionActs ==
  ASSUME Next, Acts
  PROVE  CorrectTimerFires
<1> USE DEF Acts
<1>1. CASE Start
  BY <1>1 DEF Start
<1>2. CASE Crash
  BY <1>2 DEF Crash
<1>3. CASE CrashInStart
  BY <1>3 DEF CrashInStart
<1>4. CASE SetProperty
  BY <1>4 DEF SetProperty, SetPowerCapEnable, SetPowerCap, SetExceptionAction,
     SetCorrectionTime, SetSamplingPeriod
<1>5. CASE SamplingTimerFires
  BY <1>5 DEF SamplingTimerFires, SampleUnavailable, SampleExceeds, SampleBelow
<1>6. CASE Tick
  BY <1>6 DEF Tick
<1>7. CASE SensorChanges
  BY <1>7 DEF SensorChanges
<1> QED
  BY <1>1, <1>2, <1>3, <1>4, <1>5, <1>6, <1>7 DEF Next

LEMMA CorrectionIsJustified ==
  ASSUME IInv, CorrectTimerFires
  PROVE  /\ prop.enableFlag /\ hist.verdict = "over"
         /\ hist.age >= hist.grace /\ hist.event = "idle"
<1>1. correctTimer.enabled /\ correctTimer.left = 0
  BY DEF CorrectTimerFires, Due
<1>2. prop.enableFlag /\ hist.verdict = "over" /\ hist.event = "idle"
  BY <1>1 DEF IInv, TimersFollowEnable, TimerTracksExcursion
<1>3. hist.age \in Nat /\ hist.age + 0 >= hist.grace
  BY <1>1, BoundAssumption DEF IInv, TypeOK, History, TimerTracksExcursion
<1> QED
  BY <1>2, <1>3

\* The exception action is taken only in an excursion that outlived the
\* correction time set when it began, and while limiting is on.
THEOREM ActionIsJustified == Spec => ActionJustified
<1>1. IInv /\ [Next]_vars => [Acts => /\ prop.enableFlag
                                     /\ hist.verdict = "over"
                                     /\ hist.age >= hist.grace]_vars
  BY OnlyCorrectionActs, CorrectionIsJustified
<1> QED
  BY <1>1, Inductive, PTL DEF Spec, ActionJustified

\* The exception action is taken at most once per excursion.
THEOREM ActionOncePerExcursion == Spec => OncePerExcursion
<1>1. IInv /\ [Next]_vars => [Acts => hist.event = "idle"]_vars
  BY OnlyCorrectionActs, CorrectionIsJustified
<1> QED
  BY <1>1, Inductive, PTL DEF Spec, OncePerExcursion

\* An event was logged exactly by the actions that log one; a refused
\* request is a power-off.
EventMatchesAction ==
  /\ hist.event = "asserted" => hist.by \in DeassertedActions
  /\ hist.event = "unlogged" => hist.by \notin DeassertedActions

LEMMA EventInit == Init => EventMatchesAction
BY DEF Init, NoExcursion, EventMatchesAction

LEMMA EventStep == IInv /\ EventMatchesAction /\ [Next]_vars => EventMatchesAction'
<1> SUFFICES ASSUME IInv, EventMatchesAction, [Next]_vars PROVE EventMatchesAction'
  OBVIOUS
<1> USE DEF EventMatchesAction
<1>0. TypeOK
  BY DEF IInv
<1>n. NoExcursion.event = "idle" /\ PowerSeenBelow.event = "idle"
  BY DEF NoExcursion, PowerSeenBelow
<1>1. CASE Start
  BY <1>1 DEF Start
<1>2. CASE Crash
  BY <1>2, <1>n DEF Crash
<1>3. CASE CrashInStart
  BY <1>3 DEF CrashInStart
<1>4. CASE SetProperty
  <2>1. hist' = hist \/ hist' = NoExcursion
    BY <1>4 DEF SetProperty, SetPowerCapEnable, SetPowerCap, SetExceptionAction,
       SetCorrectionTime, SetSamplingPeriod
  <2> QED
    BY <2>1, <1>n
<1>5. CASE CorrectTimerFires
  <2>1. CASE hist' = [hist EXCEPT !.event = "refused", !.by = prop.exceptAct]
    BY <1>0, <2>1 DEF TypeOK, History
  <2>2. CASE /\ out' = ExceptionOutputs(prop.exceptAct) \cup {"NotifyExceed"}
             /\ hist' = [hist EXCEPT !.event = IF "LogAssert" \in out' THEN "asserted"
                                                                    ELSE "unlogged",
                                     !.by = prop.exceptAct]
    <3>1. "LogAssert" \in out' <=> prop.exceptAct \in DeassertedActions
      BY <2>2 DEF ExceptionOutputs, DeassertedActions
    <3>2. /\ hist'.event = IF "LogAssert" \in out' THEN "asserted" ELSE "unlogged"
          /\ hist'.by = prop.exceptAct
      BY <1>0, <2>2 DEF TypeOK, History
    <3> QED
      BY <3>1, <3>2
  <2> QED
    BY <1>5, <2>1, <2>2 DEF CorrectTimerFires
<1>6. CASE SamplingTimerFires
  <2>1. hist' = hist \/ hist'.event = "idle"
    BY <1>6, <1>n DEF SamplingTimerFires, SampleUnavailable, SampleExceeds,
       SampleBelow, ExcursionSeen
  <2> QED
    BY <2>1
<1>7. CASE Tick
  BY <1>7, <1>0 DEF Tick, TypeOK, History
<1>8. CASE SensorChanges
  BY <1>8 DEF SensorChanges
<1>9. CASE UNCHANGED vars
  BY <1>9 DEF vars
<1> QED
  BY <1>1, <1>2, <1>3, <1>4, <1>5, <1>6, <1>7, <1>8, <1>9 DEF Next

\* Only a sample below the cap takes an alarm back.
LEMMA OnlySampleBelowClears ==
  ASSUME Next, "NotifyDrop" \in out' \/ "LogDeassert" \in out'
  PROVE  SampleBelow
<1>1. ~Start /\ ~Crash /\ ~CrashInStart /\ ~Tick /\ ~SensorChanges
  BY DEF Start, Crash, CrashInStart, Tick, SensorChanges
<1>2. ~SetProperty
  BY DEF SetProperty, SetPowerCapEnable, SetPowerCap, SetExceptionAction,
     SetCorrectionTime, SetSamplingPeriod
<1>3. ~CorrectTimerFires
  BY DEF CorrectTimerFires, ExceptionOutputs
<1>4. ~SampleUnavailable /\ ~SampleExceeds
  BY DEF SampleUnavailable, SampleExceeds
<1> QED
  BY <1>1, <1>2, <1>3, <1>4 DEF Next, SamplingTimerFires

\* Assertions and deassertions of the limit event are paired, and a drop is
\* announced only after the action ran, whatever was set meanwhile.
THEOREM EventsArePaired == Spec => EventsPaired
<1> DEFINE Paired ==
      /\ "LogDeassert" \in out' =>
           hist.event \in {"asserted", "refused"} \/ prop.exceptAct # hist.by
      /\ "NotifyDrop" \in out' => hist.event # "idle"
      /\ "NotifyDrop" \in out' /\ hist.event = "asserted" =>
           "LogDeassert" \in out' \/ prop.exceptAct # hist.by
<1>1. IInv /\ EventMatchesAction /\ Next => Paired
  <2> SUFFICES ASSUME IInv, EventMatchesAction, SampleBelow PROVE Paired
    BY OnlySampleBelowClears
  <2>1. correctTimer.expired <=> hist.event # "idle"
    BY DEF IInv, TimerTracksExcursion
  <2>2. hist.event \in {"idle", "unlogged", "asserted", "refused"}
    BY DEF IInv, TypeOK, History
  <2>3. CASE correctTimer.expired
    BY <2>1, <2>2, <2>3 DEF SampleBelow, EventMatchesAction
  <2>4. CASE ~correctTimer.expired
    BY <2>4 DEF SampleBelow
  <2> QED
    BY <2>3, <2>4
<1>2. IInv /\ EventMatchesAction /\ [Next]_vars => [Paired]_vars
  BY <1>1
<1>3. Spec => []EventMatchesAction
  BY Inductive, EventInit, EventStep, PTL DEF Spec
<1> HIDE DEF Paired
<1>4. EventsPaired <=> [][Paired]_vars
  BY DEF EventsPaired, Paired
<1> QED
  BY <1>2, <1>3, <1>4, Inductive, PTL DEF Spec

-------------------------------------------------------------------------------
(* The file.                                                                *)

\* A write that went through leaves a file a restart reads back as it was
\* written; one that did not says so.
LEMMA WrittenIsRestored ==
  ASSUME WriteCurrentCfg
  PROVE  saved' => file'.state # "torn" /\ Restored' = currentCfg'
BY DEF WriteCurrentCfg, Restored, Intact

LEMMA DurableInit == Init => CfgDurable
BY DEF Init, CfgDurable

LEMMA DurableStep == CfgDurable /\ [Next]_vars => CfgDurable'
<1> SUFFICES ASSUME CfgDurable, [Next]_vars PROVE CfgDurable'
  OBVIOUS
<1> USE DEF CfgDurable
<1>1. CASE Start
  <2>1. CASE file = NoFile
    BY <1>1, <2>1 DEF Start, NoFile, Restored
  <2>2. CASE file # NoFile
    <3>1. PICK c \in ReadCfg(file) :
             /\ currentCfg' = WithClampedPeriod(c)
             /\ prop' = WithClampedPeriod(c)
             /\ \/ file' = Intact(WithClampedPeriod(c)) /\ saved' = TRUE
                \/ file' \in {file, Torn, Intact(c)} /\ saved' = FALSE
      BY <1>1, <2>2 DEF Start
    <3>2. saved' => file'.state # "torn" /\ Restored' = currentCfg'
      BY <3>1 DEF Restored, Intact
    <3> QED
      BY <3>1, <3>2
  <2> QED
    BY <2>1, <2>2
<1>2. CASE Crash
  BY <1>2 DEF Crash
<1>3. CASE CrashInStart
  BY <1>3 DEF CrashInStart
<1>4. CASE SetProperty
  <2>1. up /\ prop = currentCfg
    BY <1>4 DEF SetProperty, SetPowerCapEnable, SetPowerCap, SetExceptionAction,
       SetCorrectionTime, SetSamplingPeriod
  <2>2. WriteCurrentCfg
    BY <1>4 DEF SetProperty, SetPowerCapEnable, SetPowerCap, SetExceptionAction,
       SetCorrectionTime, SetSamplingPeriod
  <2>3. prop' = currentCfg'
    <3>1. ASSUME NEW v \in BOOLEAN, SetPowerCapEnable(v) PROVE prop' = currentCfg'
      BY <2>1, <3>1 DEF SetPowerCapEnable
    <3>2. ASSUME NEW v \in Caps, SetPowerCap(v) PROVE prop' = currentCfg'
      BY <2>1, <3>2 DEF SetPowerCap
    <3>3. ASSUME NEW v \in Actions, SetExceptionAction(v) PROVE prop' = currentCfg'
      BY <2>1, <3>3 DEF SetExceptionAction
    <3>4. ASSUME NEW v \in CorrTimes, SetCorrectionTime(v) PROVE prop' = currentCfg'
      BY <2>1, <3>4 DEF SetCorrectionTime
    <3>5. ASSUME NEW v \in Periods, SetSamplingPeriod(v) PROVE prop' = currentCfg'
      BY <2>1, <3>5 DEF SetSamplingPeriod
    <3> QED
      BY <1>4, <3>1, <3>2, <3>3, <3>4, <3>5 DEF SetProperty
  <2> QED
    BY <2>2, <2>3, WrittenIsRestored
<1>5. CASE CorrectTimerFires
  BY <1>5 DEF CorrectTimerFires, Restored
<1>6. CASE SamplingTimerFires
  BY <1>6 DEF SamplingTimerFires, SampleUnavailable, SampleExceeds,
     SampleBelow, SamplingTimerExpires, Restored
<1>7. CASE Tick
  BY <1>7 DEF Tick, Restored
<1>8. CASE SensorChanges
  BY <1>8 DEF SensorChanges, Restored
<1>9. CASE UNCHANGED vars
  BY <1>9 DEF vars, Restored
<1> QED
  BY <1>1, <1>2, <1>3, <1>4, <1>5, <1>6, <1>7, <1>8, <1>9 DEF Next

\* The properties on D-Bus are the ones a restart comes up with, unless the
\* last write was lost.
THEOREM ConfigurationDurable == Spec => []CfgDurable
BY DurableInit, DurableStep, PTL DEF Spec

-------------------------------------------------------------------------------
(* Refinement of PowerLimit.                                                *)

LEMMA LimitInit == Init => Limit!Init
BY DefaultAssumption DEF Init, Limit!Init, Phase, Notice

LEMMA PhaseOf ==
  ASSUME IInv
  PROVE  /\ Phase = "Off" <=> ~(up /\ prop.enableFlag)
         /\ Phase = "Grace" <=> correctTimer.enabled
         /\ Phase = "Limited" <=> correctTimer.expired
         /\ Phase \in {"Off", "Watching", "Grace", "Limited"}
BY DEF IInv, TimersFollowEnable, TimerTracksExcursion, Phase

LEMMA LimitStep == IInv /\ IInv' /\ [Next]_vars => [Limit!Next]_(Limit!vars)
<1> SUFFICES ASSUME IInv, IInv', [Next]_vars
             PROVE  Limit!Next \/ UNCHANGED <<Phase, Notice>>
  BY DEF Limit!vars
<1> USE DEF Limit!Next
<1>p. /\ Phase = "Off" <=> ~(up /\ prop.enableFlag)
      /\ Phase = "Grace" <=> correctTimer.enabled
      /\ Phase = "Limited" <=> correctTimer.expired
      /\ Phase \in {"Off", "Watching", "Grace", "Limited"}
  BY PhaseOf
<1>q. /\ Phase' = "Off" <=> ~(up' /\ prop'.enableFlag)
      /\ Phase' = "Grace" <=> correctTimer'.enabled
      /\ Phase' = "Limited" <=> correctTimer'.expired
      /\ Phase' \in {"Off", "Watching", "Grace", "Limited"}
  BY DEF IInv, TimersFollowEnable, TimerTracksExcursion, Phase
<1>0. TypeOK
  BY DEF IInv
<1>z. out' = {} => Notice' = "none"
  BY DEF Notice
<1>k. ASSUME Phase' = Phase, Notice' = "none" PROVE Limit!Next
  BY <1>k DEF Limit!Quiet
<1>s. ASSUME Phase' = "Off", Notice' = "none" PROVE Limit!Next
  <2>1. CASE Phase = "Off"
    BY <2>1, <1>s, <1>k
  <2>2. CASE Phase # "Off"
    BY <2>2, <1>s DEF Limit!SwitchOff
  <2> QED
    BY <2>1, <2>2
<1>1. CASE Start
  <2>1. Phase = "Off" /\ Notice' = "none" /\ correctTimer' = correctTimer
    BY <1>1, <1>p, <1>z DEF Start
  <2>2. ~correctTimer.enabled /\ ~correctTimer.expired
    BY <2>1, <1>p
  <2>3. Phase' = "Off" \/ Phase' = "Watching"
    BY <2>1, <2>2, <1>q
  <2> QED
    BY <2>1, <2>3, <1>s DEF Limit!SwitchOn, Limit!Move
<1>2. CASE Crash
  BY <1>2, <1>q, <1>z, <1>s DEF Crash
<1>3. CASE CrashInStart
  BY <1>3, <1>q, <1>z, <1>s DEF CrashInStart
<1>4. CASE SetProperty
  <2>1. ASSUME NEW v \in BOOLEAN, SetPowerCapEnable(v)
        PROVE  Limit!Next
    <3>1. prop'.enableFlag = v /\ Notice' = "none" /\ up /\ up'
      BY <2>1, <1>0, <1>z DEF SetPowerCapEnable, TypeOK, Config
    <3>2. CASE ~v
      BY <3>1, <3>2, <1>q, <1>s
    <3>3. CASE v /\ ~prop.enableFlag
      <4>1. Phase = "Off" /\ ~correctTimer'.enabled /\ ~correctTimer'.expired
        BY <2>1, <3>3, <1>p DEF SetPowerCapEnable
      <4> QED
        BY <3>1, <3>3, <4>1, <1>q DEF Limit!SwitchOn, Limit!Move
    <3>4. CASE v /\ prop.enableFlag
      <4>1. correctTimer' = correctTimer
        BY <2>1, <3>4 DEF SetPowerCapEnable
      <4>2. Phase' = Phase
        BY <3>1, <3>4, <4>1, <1>p, <1>q
      <4> QED
        BY <3>1, <4>2, <1>k
    <3> QED
      BY <3>2, <3>3, <3>4
  <2>2. ASSUME /\ prop'.enableFlag = prop.enableFlag
               /\ up' = up /\ correctTimer' = correctTimer /\ out' = {}
        PROVE  Limit!Next
    <3>1. Phase' = Phase
      BY <2>2, <1>p, <1>q
    <3> QED
      BY <2>2, <3>1, <1>z, <1>k
  <2>3. ASSUME NEW v \in Caps, SetPowerCap(v)
        PROVE  Limit!Next
    BY <2>2, <2>3, <1>0 DEF SetPowerCap, TypeOK, Config
  <2>4. ASSUME NEW v \in Actions, SetExceptionAction(v)
        PROVE  Limit!Next
    BY <2>2, <2>4, <1>0 DEF SetExceptionAction, TypeOK, Config
  <2>5. ASSUME NEW v \in CorrTimes, SetCorrectionTime(v)
        PROVE  Limit!Next
    BY <2>2, <2>5, <1>0 DEF SetCorrectionTime, TypeOK, Config
  <2>6. ASSUME NEW v \in Periods, SetSamplingPeriod(v)
        PROVE  Limit!Next
    BY <2>2, <2>6, <1>0 DEF SetSamplingPeriod, TypeOK, Config
  <2> QED
    BY <1>4, <2>1, <2>3, <2>4, <2>5, <2>6 DEF SetProperty
<1>5. CASE CorrectTimerFires
  <2>1. Phase = "Grace"
    BY <1>5, <1>p DEF CorrectTimerFires, Due
  <2>2. Phase' = "Limited"
    BY <1>5, <1>0, <1>q DEF CorrectTimerFires, Fired, TypeOK, Timer
  <2>3. Notice' \in {"exceed", "none"}
    BY <1>5 DEF CorrectTimerFires, ExceptionOutputs, Notice
  <2> QED
    BY <2>1, <2>2, <2>3 DEF Limit!Act, Limit!Move
<1>6. CASE SamplingTimerFires
  <2>1. /\ up /\ up' /\ prop' = prop /\ prop.enableFlag
    BY <1>6 DEF SamplingTimerFires, SampleUnavailable, SampleExceeds, SampleBelow,
       SamplingTimerExpires, Due, IInv, TimersFollowEnable
  <2>2. CASE SampleUnavailable
    <3>1. Phase' = Phase /\ Notice' = "none"
      BY <2>1, <2>2, <1>p, <1>q, <1>z DEF SampleUnavailable
    <3> QED
      BY <3>1, <1>k
  <2>3. CASE SampleExceeds
    <3>1. CASE correctTimer.enabled \/ correctTimer.expired
      <4>1. Phase' = Phase /\ Notice' = "none"
        BY <2>1, <2>3, <3>1, <1>p, <1>q, <1>z DEF SampleExceeds
      <4> QED
        BY <4>1, <1>k
    <3>2. CASE ~correctTimer.enabled /\ ~correctTimer.expired
      <4>1. Phase = "Watching" /\ Phase' = "Grace" /\ Notice' = "none"
        BY <2>1, <2>3, <3>2, <1>p, <1>q, <1>z DEF SampleExceeds, RestartOnce
      <4> QED
        BY <4>1 DEF Limit!Exceeds, Limit!Move
    <3> QED
      BY <3>1, <3>2
  <2>4. CASE SampleBelow
    <3>1. Phase' = "Watching"
      BY <2>1, <2>4, <1>q DEF SampleBelow, TimerOff
    <3>2. CASE correctTimer.expired
      <4>1. Notice' = "drop"
        BY <2>4, <3>2 DEF SampleBelow, Notice
      <4> QED
        BY <3>1, <3>2, <4>1, <1>p DEF Limit!Clears, Limit!Move
    <3>3. CASE ~correctTimer.expired
      <4>1. Notice' = "none" /\ Phase \in {"Watching", "Grace"}
        BY <2>1, <2>4, <3>3, <1>p, <1>z DEF SampleBelow
      <4> QED
        BY <3>1, <4>1, <1>k DEF Limit!Recovers, Limit!Move
    <3> QED
      BY <3>2, <3>3
  <2> QED
    BY <1>6, <2>2, <2>3, <2>4 DEF SamplingTimerFires
<1>7. CASE Tick
  <2>1. /\ correctTimer'.enabled = correctTimer.enabled
        /\ correctTimer'.expired = correctTimer.expired
    BY <1>7, <1>0 DEF Tick, Elapse, TypeOK, Timer
  <2>2. Phase' = Phase /\ Notice' = "none"
    BY <1>7, <2>1, <1>p, <1>q, <1>z DEF Tick
  <2> QED
    BY <2>2, <1>k
<1>8. CASE SensorChanges
  <2>1. Phase' = Phase /\ Notice' = "none"
    BY <1>8, <1>p, <1>q, <1>z DEF SensorChanges
  <2> QED
    BY <2>1, <1>k
<1>9. CASE UNCHANGED vars
  BY <1>9 DEF vars, Phase, Notice
<1> QED
  BY <1>1, <1>2, <1>3, <1>4, <1>5, <1>6, <1>7, <1>8, <1>9 DEF Next

\* The daemon, timers and file and crashes included, implements the four
\* phases of PowerLimit (its fairness is left to the model checker).
THEOREM ImplementsLimit == Spec => Limit!SafeSpec
BY LimitInit, LimitStep, Inductive, PTL DEF Spec, Limit!SafeSpec
===============================================================================
