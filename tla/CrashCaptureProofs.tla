-------------------------- MODULE CrashCaptureProofs --------------------------
(***************************************************************************)
(* The crash capture manager reads the records of a running host at most   *)
(* once, never holds the power controls without the timer that frees them, *)
(* and strands them only when the script fails or the daemon dies: for all *)
(* delays, requests and records.  The names it gives fault log entries are *)
(* unique as long as the clock is not set back and the daemon not          *)
(* restarted, and never repeat the previous one.                           *)
(***************************************************************************)
EXTENDS CrashCapture, EntryId, TLAPS

IInv == TypeOK /\ ReadPending /\ LockHasTimer /\ NoStrandedLock

\* A timer that does not run is a timer.
LEMMA StoppedIsTicks ==
  \A n : Stopped \in Ticks(n)
BY DEF Ticks

\* What a call of the pass can do to the type of its variables.
LEMMA PassTypes ==
  ASSUME TypeOK, NEW s \in Bert!Modes
  PROVE  /\ Bert!Call(s) \/ Bert!Work \/ Bert!Return \/ Bert!Crash \/ Bert!HostWrites
            \/ UNCHANGED bertVars
            => (/\ running \in BOOLEAN /\ mode \in Bert!Modes
                /\ pending \subseteq Record /\ delivered \subseteq Record
                /\ missed \subseteq Record /\ broken \in BOOLEAN)'
BY DEF TypeOK, bertVars, Bert!Call, Bert!Work, Bert!Deliver, Bert!Miss, Bert!Acknowledge,
       Bert!BreakTable, Bert!Return, Bert!Crash, Bert!HostWrites

\* Locking and unlocking keep the types; unlocking either frees both
\* controls or records that the script failed.
LEMMA UnmaskEffect ==
  ASSUME TypeOK, NoStrandedLock, Unmask
  PROVE  /\ isMasked' = FALSE
         /\ locked' \subseteq Controls
         /\ lapses' \subseteq {"script", "crash"}
         /\ locked' # {} => lapses' # {}
<1>1. CASE isMasked
  BY <1>1 DEF Unmask, TypeOK
<1>2. CASE ~isMasked
  BY <1>2 DEF Unmask, TypeOK, NoStrandedLock, powerVars
<1> QED BY <1>1, <1>2

LEMMA MaskEffect ==
  ASSUME TypeOK, Mask
  PROVE  /\ isMasked' = TRUE
         /\ locked' \subseteq Controls
         /\ lapses' \subseteq {"script", "crash"}
BY DEF Mask, TypeOK, powerVars

-------------------------------------------------------------------------------

LEMMA InitInv == Init => IInv
<1> SUFFICES ASSUME Init PROVE IInv
  OBVIOUS
<1>1. onTimer \in Ticks(OnDelay) /\ failTimer \in Ticks(FailDelay)
        /\ lockTimer \in Ticks(LockDelay)
  BY StoppedIsTicks DEF Init
<1>2. TypeOK
  <2>1. running \in BOOLEAN /\ mode \in Bert!Modes /\ pending \subseteq Record
          /\ delivered \subseteq Record /\ missed \subseteq Record /\ broken \in BOOLEAN
    BY DEF Init, Bert!Init, Bert!Modes
  <2>2. onReads \in 0..1
    BY CaptureAssumption DEF Init
  <2> QED BY <1>1, <2>1, <2>2 DEF Init, TypeOK, TriggerAction
<1>3. ReadPending
  BY DEF Init, ReadPending, Bert!Init, Stopped
<1> QED BY <1>2, <1>3 DEF Init, IInv, LockHasTimer, NoStrandedLock

LEMMA StepInv == IInv /\ [Next]_vars => IInv'
<1> SUFFICES ASSUME IInv, [Next]_vars PROVE IInv'
  OBVIOUS
<1> USE CaptureAssumption DEF IInv
<1>a. "HOST_ON" \in Bert!Modes /\ "HOST_OFF" \in Bert!Modes
  BY DEF Bert!Modes
<1>1. CASE \E host \in {"Off", "Running", "Other"} : Start(host)
  <2> PICK host : Start(host)
    BY <1>1
  <2>1. CASE host = "Off" /\ RunBert("HOST_OFF", "nothing") /\ UNCHANGED <<bootVars, timerVars>>
    <3>1. TypeOK'
      BY <1>a, <2>1, PassTypes
         DEF Start, RunBert, TypeOK, bootVars, timerVars, powerVars
    <3> QED
      BY <2>1, <3>1
         DEF Start, RunBert, TypeOK, ReadPending, LockHasTimer, NoStrandedLock,
             bootVars, timerVars, powerVars, Bert!Call
  <2>2. CASE HandleBertHostOnEvent /\ NoBert /\ UNCHANGED lockTimer
    <3>1. TypeOK'
      BY <2>2
         DEF Start, HandleBertHostOnEvent, NoBert, TypeOK, bertVars, powerVars,
             Ticks, Stopped
    <3> QED
      BY <2>2, <3>1
         DEF Start, HandleBertHostOnEvent, NoBert, TypeOK, ReadPending, LockHasTimer,
             NoStrandedLock, bertVars, powerVars, Stopped
  <2>3. CASE NoBert /\ UNCHANGED <<bootVars, timerVars>>
    BY <2>3
       DEF Start, NoBert, TypeOK, ReadPending, LockHasTimer, NoStrandedLock,
           bertVars, bootVars, timerVars, powerVars
  <2> QED BY <2>1, <2>2, <2>3 DEF Start
<1>2. CASE Crash
  <2>1. (running \in BOOLEAN /\ mode \in Bert!Modes
          /\ pending \subseteq Record /\ delivered \subseteq Record
          /\ missed \subseteq Record /\ broken \in BOOLEAN)'
        /\ ~running'
    BY <1>2, <1>a, PassTypes DEF Crash, TypeOK, bertVars, Bert!Crash
  <2>2. /\ onTimer' \in Ticks(OnDelay) /\ failTimer' \in Ticks(FailDelay)
        /\ lockTimer' \in Ticks(LockDelay)
        /\ onReads' \in 0..1
    BY <1>2, StoppedIsTicks DEF Crash
  <2>3. lapses' \subseteq {"script", "crash"}
    BY <1>2 DEF Crash, TypeOK
  <2>4. TypeOK'
    BY <1>2, <2>1, <2>2, <2>3 DEF Crash, TypeOK, TriggerAction
  <2> QED
    BY <1>2, <2>1, <2>4
       DEF Crash, TypeOK, ReadPending, LockHasTimer, NoStrandedLock, Stopped
<1>3. CASE \E value \in Requests : TriggerActions(value)
  <2> PICK value \in Requests : TriggerActions(value)
    BY <1>3
  <2>1. CASE value = "Bert"
    <3>1. isMasked' /\ locked' \subseteq Controls /\ lapses' \subseteq {"script", "crash"}
      BY <2>1, MaskEffect DEF TriggerActions
    <3>2. lockTimer' \in Ticks(LockDelay) /\ lockTimer' # Stopped
      BY <2>1 DEF TriggerActions, Ticks, Stopped
    <3>3. action' \in TriggerAction
      BY <2>1 DEF TriggerActions, TypeOK
    <3>4. TypeOK'
      BY <2>1, <3>1, <3>2, <3>3 DEF TriggerActions, TypeOK, NoBert, bertVars, bootVars
    <3> QED
      BY <2>1, <3>1, <3>2, <3>4
         DEF TriggerActions, ReadPending, LockHasTimer, NoStrandedLock, NoBert,
             Listening, bertVars, bootVars
  <2>2. CASE value # "Bert"
    BY <2>2
       DEF TriggerActions, TypeOK, ReadPending, LockHasTimer, NoStrandedLock, NoBert,
           Listening, bertVars, bootVars, powerVars
  <2> QED BY <2>1, <2>2
<1>4. CASE TriggerProcess
  <2>1. TypeOK'
    BY <1>4, <1>a, PassTypes
       DEF TriggerProcess, RunBert, TypeOK, bootVars, timerVars, powerVars
  <2> QED
    BY <1>4, <2>1
       DEF TriggerProcess, RunBert, TypeOK, ReadPending, LockHasTimer, NoStrandedLock,
           Listening, bootVars, timerVars, powerVars, Bert!Call
<1>5. CASE ProcessDone
  <2>1. TypeOK' /\ ~isMasked' /\ (locked' # {} => lapses' # {})
    BY <1>5, UnmaskEffect
       DEF ProcessDone, TypeOK, bertVars, bootVars, Ticks, TriggerAction
  <2> QED
    BY <1>5, <2>1
       DEF ProcessDone, TypeOK, ReadPending, LockHasTimer, NoStrandedLock, bertVars,
           bootVars
<1>6. CASE \E event \in Progress : HandleBertHostBootEvent(event)
  <2> PICK event \in Progress : HandleBertHostBootEvent(event)
    BY <1>6
  <2>0. hostStatus' \in {"HOST_BOOTING", "HOST_FAILURE"}
    BY DEF HandleBertHostBootEvent, StatusAfter
  <2>1. CASE event = "complete" /\ checkBertFlag
    <3>1. TypeOK'
      BY <1>a, <2>0, <2>1, PassTypes
         DEF HandleBertHostBootEvent, RunBert, TypeOK, ReadPending, Listening,
             timerVars, powerVars
    <3> QED
      BY <2>0, <2>1, <3>1
         DEF HandleBertHostBootEvent, RunBert, TypeOK, ReadPending, LockHasTimer,
             NoStrandedLock, Listening, timerVars, powerVars, Bert!Call
  <2>2. CASE ~(event = "complete" /\ checkBertFlag)
    BY <2>0, <2>2
       DEF HandleBertHostBootEvent, NoBert, TypeOK, ReadPending, LockHasTimer,
           NoStrandedLock, Listening, timerVars, powerVars, bertVars
  <2> QED BY <2>1, <2>2
<1>7. CASE BootEventDone
  BY <1>7
     DEF BootEventDone, TypeOK, ReadPending, LockHasTimer, NoStrandedLock, bertVars,
         powerVars, Ticks, Stopped
<1>8. CASE BertHostOnTimeOut
  <2>1. CASE hostStatus = "HOST_COMPLETE"
    <3>1. onReads' = 1
      BY <1>8, <2>1 DEF BertHostOnTimeOut, RunBert, ReadPending, Listening, Stopped
    <3>2. onTimer' = Stopped /\ failTimer' = Stopped /\ checkBertFlag' = FALSE
      BY <1>8, <2>1 DEF BertHostOnTimeOut
    <3>3. onTimer' \in Ticks(OnDelay) /\ failTimer' \in Ticks(FailDelay)
      BY <3>2, StoppedIsTicks
    <3>7. onReads' \in 0..1
      BY <3>1
    <3>8. checkBertFlag' \in BOOLEAN
      BY <3>2
    <3>4. RunBert("HOST_ON", "nothing")
      BY <1>8, <2>1 DEF BertHostOnTimeOut
    <3>5. /\ running' \in BOOLEAN /\ mode' \in Bert!Modes
          /\ pending' \subseteq Record /\ delivered' \subseteq Record
          /\ missed' \subseteq Record /\ broken' \in BOOLEAN
      BY <1>a, <3>4, PassTypes DEF RunBert
    <3>6. UNCHANGED <<up, hostStatus, lockTimer, isMasked, locked, lapses,
                      action>> /\ then' = "nothing"
      BY <1>8, <3>4 DEF BertHostOnTimeOut, RunBert, powerVars
    <3>9. TypeOK'
      BY <3>3, <3>5, <3>6, <3>7, <3>8 DEF TypeOK
    <3> QED
      BY <1>8, <2>1, <3>1, <3>9
         DEF BertHostOnTimeOut, RunBert, TypeOK, ReadPending, LockHasTimer,
             NoStrandedLock, Listening, powerVars, Bert!Call
  <2>2. CASE hostStatus # "HOST_COMPLETE"
    BY <1>8, <2>2
       DEF BertHostOnTimeOut, NoBert, TypeOK, ReadPending, LockHasTimer,
           NoStrandedLock, Listening, powerVars, bertVars, Ticks
  <2> QED BY <2>1, <2>2
<1>9. CASE BertHostFailTimeOut
  <2>1. onTimer = Stopped /\ checkBertFlag /\ onReads = 0
    BY <1>9 DEF BertHostFailTimeOut, ReadPending, TypeOK, Listening, Ticks, Stopped
  <2>2. failTimer' \in Ticks(FailDelay) /\ onReads' \in 0..1
    BY <1>9, <2>1, StoppedIsTicks DEF BertHostFailTimeOut, RunBert
  <2>3. TypeOK'
    BY <1>9, <1>a, <2>1, <2>2, PassTypes
       DEF BertHostFailTimeOut, RunBert, TypeOK, powerVars
  <2> QED
    BY <1>9, <2>1, <2>3
       DEF BertHostFailTimeOut, RunBert, TypeOK, ReadPending, LockHasTimer,
           NoStrandedLock, Listening, powerVars, Bert!Call
<1>10. CASE BertPowerLockTimeOut
  <2>0. isMasked' = FALSE /\ locked' \subseteq Controls /\ lapses' \subseteq {"script", "crash"}
          /\ (locked' # {} => lapses' # {})
    BY <1>10, UnmaskEffect DEF BertPowerLockTimeOut
  <2>2. lockTimer' \in Ticks(LockDelay)
    BY <1>10, StoppedIsTicks DEF BertPowerLockTimeOut
  <2>1. TypeOK'
    <3>1. UNCHANGED <<running, mode, pending, delivered, missed, broken, up, hostStatus,
                      checkBertFlag, onTimer, failTimer, action, then, onReads>>
      BY <1>10 DEF BertPowerLockTimeOut, NoBert, bertVars, bootVars
    <3>2. isMasked' \in BOOLEAN
      BY <2>0
    <3> QED BY <2>0, <2>2, <3>1, <3>2 DEF TypeOK
  <2> QED
    BY <1>10, <2>0, <2>1
       DEF BertPowerLockTimeOut, TypeOK, ReadPending, LockHasTimer, NoStrandedLock,
           NoBert, Listening, bertVars, bootVars
<1>11. CASE Tick
  <2>1. \A n \in Nat : \A t \in Ticks(n) :
          /\ Elapse(t) \in Ticks(n)
          /\ Elapse(t) = Stopped <=> t = Stopped
    BY DEF Elapse, Ticks, Stopped
  <2>2. TypeOK'
    BY <1>11, <2>1 DEF Tick, TypeOK, bertVars, bootVars, powerVars
  <2>3. \A t \in {onTimer, failTimer, lockTimer} : Elapse(t) = Stopped <=> t = Stopped
    BY <2>1 DEF TypeOK
  <2>4. onTimer # Stopped /\ failTimer # Stopped /\ onTimer <= failTimer
          => Elapse(onTimer) <= Elapse(failTimer)
    BY DEF TypeOK, Ticks, Elapse, Stopped
  <2> QED
    BY <1>11, <2>2, <2>3, <2>4
       DEF Tick, TypeOK, ReadPending, LockHasTimer, NoStrandedLock, bertVars, bootVars,
           powerVars
<1>12. CASE BertWorks \/ HostWrites
  <2>1. TypeOK'
    BY <1>12, <1>a, PassTypes
       DEF BertWorks, HostWrites, TypeOK, bootVars, timerVars, powerVars
  <2>2. UNCHANGED running
    BY <1>12
       DEF BertWorks, HostWrites, Bert!Work, Bert!Deliver, Bert!Miss,
           Bert!Acknowledge, Bert!BreakTable, Bert!HostWrites
  <2> QED
    BY <1>12, <2>1, <2>2
       DEF BertWorks, HostWrites, ReadPending, LockHasTimer, NoStrandedLock, bootVars,
           timerVars, powerVars
<1>13. CASE BertReturns
  <2>1. TypeOK'
    BY <1>13, <1>a, PassTypes DEF BertReturns, TypeOK, bootVars, timerVars, powerVars
  <2> QED
    BY <1>13, <2>1
       DEF BertReturns, Bert!Return, ReadPending, LockHasTimer, NoStrandedLock,
           bootVars, timerVars, powerVars
<1>14. CASE UNCHANGED vars
  BY <1>14
     DEF vars, TypeOK, ReadPending, LockHasTimer, NoStrandedLock, bertVars, bootVars,
         timerVars, powerVars
<1> QED
  BY <1>1, <1>2, <1>3, <1>4, <1>5, <1>6, <1>7, <1>8, <1>9, <1>10, <1>11, <1>12, <1>13,
     <1>14
     DEF Next

LEMMA Invariance == Spec => []IInv
BY InitInv, StepInv, PTL DEF Spec

\* Every variable keeps its type.
THEOREM CaptureTypes == Spec => []TypeOK
<1>1. IInv => TypeOK
  BY DEF IInv
<1> QED BY Invariance, <1>1, PTL

\* The flag, the two boot timers and the reads done stay in step.
THEOREM CaptureReadPending == Spec => []ReadPending
<1>1. IInv => ReadPending
  BY DEF IInv
<1> QED BY Invariance, <1>1, PTL

\* The records of a running host are read at most once per life of the
\* daemon, whichever of the boot event and the two timers comes first.
THEOREM CaptureReadsOnce == Spec => []ReadOnce
<1>1. IInv => ReadOnce
  BY DEF IInv, TypeOK, ReadPending, ReadOnce, Listening
<1> QED BY Invariance, <1>1, PTL

\* The power controls are held exactly while the timer that frees them runs.
THEOREM CaptureLockHasTimer == Spec => []LockHasTimer
<1>1. IInv => LockHasTimer
  BY DEF IInv
<1> QED BY Invariance, <1>1, PTL

\* The power controls stay locked behind the daemon's back only after a
\* failure of the script or a death of the daemon.
THEOREM CaptureNoStrandedLock == Spec => []NoStrandedLock
<1>1. IInv => NoStrandedLock
  BY DEF IInv
<1> QED BY Invariance, <1>1, PTL

-------------------------------------------------------------------------------
(* The names of the fault log entries the same daemon makes (EntryId).       *)

\* EntryIdInv and the uniqueness it implies form one inductive invariant.
NamesInv == EntryIdInv /\ UniqueWhileUndisturbed

LEMMA InitNames == NamesInit => NamesInv
<1> SUFFICES ASSUME NamesInit PROVE NamesInv
  OBVIOUS
<1>1. NamesTypeOK
  BY EntryIdAssumption, 0 \in 0..MaxIndex, 0 \in 0..MaxTime DEF NamesInit, NamesTypeOK, Times
<1>2. PreviousIsLatest
  BY DEF NamesInit, PreviousIsLatest, NoId
<1>3. UniqueWhileUndisturbed
  BY DEF NamesInit, UniqueWhileUndisturbed
<1> QED BY <1>1, <1>2, <1>3 DEF NamesInv, EntryIdInv

\* A name built in an undisturbed life has not been given out before: no old
\* name shows the present second, or all that do have a smaller index.
LEMMA FreshName ==
  ASSUME NamesInv, GetUniqueEntryID, ~disturbed
  PROVE  last' \notin issued
<1>1. SUFFICES ASSUME last' \in issued PROVE FALSE
  OBVIOUS
<1>2. last'.label = Label[now] /\ last'.index = NextIndex
  BY DEF GetUniqueEntryID, EntryIdOf
<1>3. prevTs = now /\ last'.index <= indexId
  BY <1>1, <1>2 DEF NamesInv, EntryIdInv, PreviousIsLatest
<1>4. last'.index = indexId + 1
  BY <1>2, <1>3 DEF NextIndex
<1>5. indexId \in Int
  BY EntryIdAssumption DEF NamesInv, EntryIdInv, NamesTypeOK
<1> QED BY <1>3, <1>4, <1>5

LEMMA StepNames == NamesInv /\ [NamesNext]_nameVars => NamesInv'
<1> SUFFICES ASSUME NamesInv, [NamesNext]_nameVars PROVE NamesInv'
  OBVIOUS
<1> USE EntryIdAssumption
<1>1. CASE GetUniqueEntryID
  <2>1. NextIndex \in 0..MaxIndex /\ indexId \in Int
    BY <1>1 DEF GetUniqueEntryID, NextIndex, NamesInv, EntryIdInv, NamesTypeOK
  <2>2. NamesTypeOK'
    <3>1. last' \in EntryIds
      BY <1>1, <2>1 DEF GetUniqueEntryID, EntryIds, NamesInv, EntryIdInv, NamesTypeOK
    <3> QED
      BY <1>1, <2>1, <3>1 DEF GetUniqueEntryID, NamesInv, EntryIdInv, NamesTypeOK, Times
  <2>3. last' = EntryIdOf(now, indexId') /\ indexId' = NextIndex /\ prevTs' = now
        /\ issued' = issued \cup {last'} /\ UNCHANGED <<now, shown, disturbed>>
    BY <1>1 DEF GetUniqueEntryID
  <2>4. last'.label = Label[now] /\ last'.index = indexId'
    BY <2>3 DEF EntryIdOf
  <2>5. ASSUME ~disturbed, NEW e \in issued'
        PROVE  e.label \in shown /\ (e.label = Label[now] => e.index <= indexId')
    <3>1. CASE e = last'
      BY <2>1, <2>3, <2>4, <3>1 DEF NamesInv, EntryIdInv, PreviousIsLatest
    <3>2. CASE e \in issued
      <4>1. e.label \in shown /\ (e.label = Label[now] => prevTs = now /\ e.index <= indexId)
        BY <2>5, <3>2 DEF NamesInv, EntryIdInv, PreviousIsLatest
      <4>2. prevTs = now => indexId' = indexId + 1
        BY <2>3 DEF NextIndex
      <4>3. e.index \in Int
        BY <3>2 DEF NamesInv, EntryIdInv, NamesTypeOK, EntryIds, EntryIdOf
      <4> QED BY <2>1, <4>1, <4>2, <4>3
    <3> QED BY <2>3, <3>1, <3>2
  <2>6. PreviousIsLatest'
    BY <2>3, <2>5 DEF NamesInv, EntryIdInv, PreviousIsLatest
  <2>7. UniqueWhileUndisturbed'
    BY <1>1, FreshName DEF GetUniqueEntryID, NamesInv, UniqueWhileUndisturbed
  <2> QED BY <2>2, <2>6, <2>7 DEF NamesInv, EntryIdInv
<1>2. CASE ClockTicks
  <2>1. NamesTypeOK'
    BY <1>2 DEF ClockTicks, NamesInv, EntryIdInv, NamesTypeOK, Times
  <2>2. PreviousIsLatest'
    <3>1. UNCHANGED <<last, prevTs, indexId, issued>>
          /\ shown' = shown \cup {Label[now']}
          /\ disturbed' = (disturbed \/ Label[now'] \in shown)
      BY <1>2 DEF ClockTicks
    <3> QED BY <3>1 DEF NamesInv, EntryIdInv, PreviousIsLatest, EntryIdOf
  <2> QED
    BY <1>2, <2>1, <2>2 DEF ClockTicks, NamesInv, EntryIdInv, UniqueWhileUndisturbed
<1>3. CASE \E t \in Times \ {0} : SetBack(t)
  <2>1. NamesTypeOK'
    BY <1>3 DEF SetBack, NamesInv, EntryIdInv, NamesTypeOK, Times
  <2> QED
    BY <1>3, <2>1 DEF SetBack, NamesInv, EntryIdInv, PreviousIsLatest, EntryIdOf,
                      UniqueWhileUndisturbed
<1>4. CASE RestartDaemon
  BY <1>4 DEF RestartDaemon, NamesInv, EntryIdInv, NamesTypeOK, PreviousIsLatest,
              UniqueWhileUndisturbed, Times, NoId, EntryIdOf
<1>5. CASE UNCHANGED nameVars
  BY <1>5 DEF nameVars, NamesInv, EntryIdInv, NamesTypeOK, PreviousIsLatest,
              UniqueWhileUndisturbed, EntryIdOf
<1> QED BY <1>1, <1>2, <1>3, <1>4, <1>5 DEF NamesNext

\* No fault log entry takes the name of another one as long as the clock is
\* not set back, its local time does not repeat and the daemon is not
\* restarted.
THEOREM NamesUnique == NamesSpec => []UniqueWhileUndisturbed
<1>1. NamesInv => UniqueWhileUndisturbed
  BY DEF NamesInv
<1> QED BY InitNames, StepNames, <1>1, PTL DEF NamesSpec

\* Two calls in a row in one life of the daemon give different names,
\* whatever happens to the clock between them, unless its local time shows
\* the same second again.
THEOREM NamesAlternate == NamesSpec => ConsecutiveDiffer
<1>1. ASSUME NamesInv, [NamesNext]_nameVars
      PROVE  [GetUniqueEntryID =>
                last' # last \/ (now # prevTs /\ Label[now] = Label[prevTs])]_nameVars
  <2> SUFFICES ASSUME GetUniqueEntryID, last' = last
               PROVE  now # prevTs /\ Label[now] = Label[prevTs]
    OBVIOUS
  <2>1. EntryIdOf(now, NextIndex) = EntryIdOf(prevTs, indexId)
    BY <1>1 DEF GetUniqueEntryID, NamesInv, EntryIdInv, PreviousIsLatest
  <2>2. Label[now] = Label[prevTs] /\ NextIndex = indexId
    BY <2>1 DEF EntryIdOf
  <2>3. indexId \in Int
    BY <1>1, EntryIdAssumption DEF NamesInv, EntryIdInv, NamesTypeOK
  <2> QED BY <2>2, <2>3 DEF NextIndex
<1> QED BY InitNames, StepNames, <1>1, PTL DEF NamesSpec, ConsecutiveDiffer
===============================================================================
