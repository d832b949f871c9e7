----------------------------- MODULE CrashCapture -----------------------------
(***************************************************************************)
(* The crash capture manager (crash-capture-manager/                       *)
(* crash_capture_interface.cpp): it decides when bertHandler runs.  On     *)
(* start with the host off, at once; with the host on, once the host says  *)
(* its boot is complete, or 10 s later if it was complete before the       *)
(* daemon came, or when the boot takes so long that it must have failed.   *)
(* Another daemon drives it while the host is down through TriggerActions  *)
(* (lock the power controls) and TriggerProcess (read, then unlock).       *)
(*                                                                         *)
(* One thread: a handler that calls bertHandler keeps the event loop       *)
(* waiting until the pass is over; then names what the handler does after  *)
(* it.  The pass itself is what BertPass promises and BertHandler does.    *)
(***************************************************************************)
EXTENDS Integers

CONSTANTS
  Record,        \* crash records of the host
  OnDelay,       \* BERT_HOSTON_TIMEOUT, in ticks
  FailDelay,     \* BERT_HOSTFAIL_TIMEOUT
  LockDelay,     \* BERT_POWER_LOCK_TIMEOUT
  Requests       \* values of TriggerActions that are set

TriggerAction == {"None", "Bert", "Diagnostic", "Done"}

ASSUME CaptureAssumption ==
  /\ OnDelay \in Nat \ {0} /\ FailDelay \in Nat /\ LockDelay \in Nat
  /\ OnDelay < FailDelay      \* meson.options: at most 20 s, at least 60 s
  /\ Requests \subseteq TriggerAction

VARIABLES
  running, mode, pending, delivered, missed, broken,  \* the pass: see BertPass
  up,             \* the daemon runs
  hostStatus,
  checkBertFlag,
  onTimer,        \* bertHostOnTimer: ticks left, or Stopped
  failTimer,      \* bertHostFailTimer
  lockTimer,      \* bertPowerLockTimer
  isMasked,
  locked,         \* the power actions the script has locked
  action,         \* the TriggerActions property
  then,           \* what the running handler does when bertHandler returns
  onReads,        \* HOST_ON passes in this life (history)
  lapses          \* what left the power locked since it was last freed (history)

Bert == INSTANCE BertPass

bertVars == <<running, mode, pending, delivered, missed, broken>>
timerVars == <<onTimer, failTimer, lockTimer>>
bootVars  == <<hostStatus, checkBertFlag>>
powerVars == <<isMasked, locked, lapses>>
vars == <<bertVars, up, bootVars, timerVars, powerVars, action, then,
          onReads>>

Stopped == -1

Init ==
  /\ Bert!Init
  /\ up = FALSE
  /\ hostStatus = "HOST_UA" /\ checkBertFlag = FALSE
  /\ onTimer = Stopped /\ failTimer = Stopped /\ lockTimer = Stopped
  /\ isMasked = FALSE
  /\ action = "None"
  /\ then = "nothing"
  /\ onReads = 0
  /\ locked = {}
  /\ lapses = {}

\* The event loop dispatches: the daemon runs and no handler does.
Listening == up /\ ~running /\ then = "nothing"

RunBert(s, after) ==
  /\ Bert!Call(s)
  /\ then' = after
  /\ onReads' = IF s = "HOST_ON" THEN onReads + 1 ELSE onReads

NoBert == UNCHANGED <<bertVars, then, onReads>>

-------------------------------------------------------------------------------
(* maskPowerControl: the flag flips whether or not the script, called for   *)
(* reboot and for off, works.                                               *)

Controls == {"reboot", "off"}

\* Mutant: the flag is left alone when unlocking.
UnmaskKeepingFlag ==
  /\ \E ok \in SUBSET Controls :
       /\ locked' = locked \ ok
       /\ lapses' = IF ok = Controls THEN {} ELSE lapses \cup {"script"}
  /\ UNCHANGED isMasked

\* Mutant: the call of the script for off is missing.
UnmaskRebootOnly ==
  IF isMasked
    THEN /\ isMasked' = FALSE
         /\ locked' = locked \ {"reboot"}
         /\ lapses' = {}
    ELSE UNCHANGED powerVars

Unmask ==
  IF isMasked
    THEN /\ isMasked' = FALSE
         /\ \E ok \in SUBSET Controls :
              /\ locked' = locked \ ok
              /\ lapses' = IF ok = Controls THEN {} ELSE lapses \cup {"script"}
    ELSE UNCHANGED powerVars

Mask ==
  IF isMasked
    THEN UNCHANGED powerVars
    ELSE /\ isMasked' = TRUE
         /\ \E ok \in SUBSET Controls : locked' = locked \cup ok
         /\ UNCHANGED lapses

-------------------------------------------------------------------------------
(* Start: the constructor and handleBmcUnavailable.                         *)

HandleBertHostOnEvent ==
  /\ onTimer' = OnDelay
  /\ failTimer' = FailDelay
  /\ checkBertFlag' = TRUE
  /\ hostStatus' = "HOST_COMPLETE"

\* host: CurrentHostState (xyz.openbmc_project.State.Host), which is read this
\* once; it may also be unreadable, which is only logged.
Start(host) ==
  /\ ~up
  /\ up' = TRUE
  /\ \/ /\ host = "Off"
        /\ RunBert("HOST_OFF", "nothing")
        /\ UNCHANGED <<bootVars, timerVars>>
     \/ /\ host = "Running"
        /\ HandleBertHostOnEvent
        /\ NoBert
        /\ UNCHANGED lockTimer
     \/ /\ host = "Other"
        /\ NoBert
        /\ UNCHANGED <<bootVars, timerVars>>
  /\ UNCHANGED <<powerVars, action>>

\* The daemon dies; the script's effects on the power controls stay.
Crash ==
  /\ up
  /\ up' = FALSE
  /\ IF running THEN Bert!Crash ELSE UNCHANGED bertVars
  /\ hostStatus' = "HOST_UA" /\ checkBertFlag' = FALSE
  /\ onTimer' = Stopped /\ failTimer' = Stopped /\ lockTimer' = Stopped
  /\ isMasked' = FALSE
  /\ action' = "None"
  /\ then' = "nothing"
  /\ onReads' = 0
  /\ lapses' = IF isMasked THEN lapses \cup {"crash"} ELSE lapses
  /\ UNCHANGED locked

-------------------------------------------------------------------------------
(* D-Bus: the TriggerActions and TriggerProcess properties.                 *)

\* executeTransition: only Bert has an effect; each request starts the timer
\* anew.
TriggerActions(value) ==
  /\ Listening
  /\ action' = value
  /\ IF value = "Bert"
       THEN /\ Mask
            /\ lockTimer' = LockDelay
       ELSE UNCHANGED <<powerVars, lockTimer>>
  /\ NoBert
  /\ UNCHANGED <<up, bootVars, onTimer, failTimer>>

TriggerProcess ==
  /\ Listening
  /\ RunBert("HOST_OFF", "unlock")
  /\ UNCHANGED <<up, bootVars, timerVars, powerVars, action>>

\* Mutant: the power lock timer is not stopped.
ProcessDoneTimerLeft ==
  /\ up /\ ~running /\ then = "unlock"
  /\ then' = "nothing"
  /\ Unmask
  /\ action' = "Done"
  /\ UNCHANGED <<bertVars, up, bootVars, timerVars, onReads>>

ProcessDone ==
  /\ up /\ ~running /\ then = "unlock"
  /\ then' = "nothing"
  /\ Unmask
  /\ lockTimer' = Stopped
  /\ action' = "Done"
  /\ UNCHANGED <<bertVars, up, bootVars, onTimer, failTimer, onReads>>

-------------------------------------------------------------------------------
(* The PLDM sensor event of the host's boot progress.                       *)

Progress == {"progress", "failure", "complete"}

StatusAfter(event) == IF event = "failure" THEN "HOST_FAILURE" ELSE "HOST_BOOTING"

HandleBertHostBootEvent(event) ==
  /\ Listening
  /\ hostStatus' = StatusAfter(event)
  /\ IF event = "complete" /\ checkBertFlag
       THEN RunBert("HOST_ON", "settle")
       ELSE NoBert
  /\ UNCHANGED <<up, checkBertFlag, timerVars, powerVars, action>>

\* After the pass: the flag and the timer.
BootEventDone ==
  /\ up /\ ~running /\ then = "settle"
  /\ then' = "nothing"
  /\ checkBertFlag' = FALSE
  /\ failTimer' = Stopped
  /\ UNCHANGED <<bertVars, up, hostStatus, onTimer, lockTimer, powerVars,
                 action, onReads>>

-------------------------------------------------------------------------------
(* Timers.  sd-event dispatches the earlier deadline first.                 *)

\* Mutant: the fail timer goes on.
BertHostOnTimeOutFailTimerLeft ==
  /\ Listening /\ onTimer = 0
  /\ onTimer' = Stopped
  /\ IF hostStatus = "HOST_COMPLETE"
       THEN /\ checkBertFlag' = FALSE
            /\ RunBert("HOST_ON", "nothing")
       ELSE NoBert /\ UNCHANGED checkBertFlag
  /\ UNCHANGED <<up, hostStatus, failTimer, lockTimer, powerVars, action>>

\* Mutant: the handler is left before it reads.
BertHostOnTimeOutNotReading ==
  /\ Listening /\ onTimer = 0
  /\ onTimer' = Stopped
  /\ IF hostStatus = "HOST_COMPLETE"
       THEN failTimer' = Stopped /\ checkBertFlag' = FALSE
       ELSE UNCHANGED <<failTimer, checkBertFlag>>
  /\ NoBert
  /\ UNCHANGED <<up, hostStatus, lockTimer, powerVars, action>>

BertHostOnTimeOut ==
  /\ Listening /\ onTimer = 0
  /\ onTimer' = Stopped
  /\ IF hostStatus = "HOST_COMPLETE"
       THEN /\ failTimer' = Stopped
            /\ checkBertFlag' = FALSE
            /\ RunBert("HOST_ON", "nothing")
       ELSE /\ NoBert
            /\ UNCHANGED <<failTimer, checkBertFlag>>
  /\ UNCHANGED <<up, hostStatus, lockTimer, powerVars, action>>

BertHostFailTimeOut ==
  /\ Listening /\ failTimer = 0 /\ onTimer # 0
  /\ failTimer' = Stopped
  /\ checkBertFlag' = FALSE
  /\ RunBert("HOST_ON", "nothing")
  /\ UNCHANGED <<up, hostStatus, onTimer, lockTimer, powerVars, action>>

BertPowerLockTimeOut ==
  /\ Listening /\ lockTimer = 0
  /\ lockTimer' = Stopped
  /\ Unmask
  /\ NoBert
  /\ UNCHANGED <<up, bootVars, onTimer, failTimer, action>>

Elapse(t) == IF t > 0 THEN t - 1 ELSE t

Tick ==
  /\ up
  /\ \E t \in {onTimer, failTimer, lockTimer} : t > 0
  /\ onTimer' = Elapse(onTimer)
  /\ failTimer' = Elapse(failTimer)
  /\ lockTimer' = Elapse(lockTimer)
  /\ UNCHANGED <<bertVars, up, bootVars, powerVars, action, then, onReads>>

-------------------------------------------------------------------------------
(* A step of the pass, and the host's records.                              *)

BertWorks ==
  /\ Bert!Work
  /\ UNCHANGED <<up, bootVars, timerVars, powerVars, action, then, onReads>>

BertReturns ==
  /\ Bert!Return
  /\ UNCHANGED <<up, bootVars, timerVars, powerVars, action, then, onReads>>

HostWrites ==
  /\ Bert!HostWrites
  /\ UNCHANGED <<up, bootVars, timerVars, powerVars, action, then, onReads>>

Next ==
  \/ \E host \in {"Off", "Running", "Other"} : Start(host)
  \/ Crash
  \/ \E value \in Requests : TriggerActions(value)
  \/ TriggerProcess \/ ProcessDone
  \/ \E event \in Progress : HandleBertHostBootEvent(event)
  \/ BootEventDone
  \/ BertHostOnTimeOut \/ BertHostFailTimeOut \/ BertPowerLockTimeOut
  \/ Tick
  \/ BertWorks \/ BertReturns \/ HostWrites

Spec == Init /\ [][Next]_vars

\* Time passes, a pass ends (BertHandler: PassAdvances), what a handler does
\* after it is done, and the loop comes round to a timer that stays due.
\* Nothing forces a start, a request or a boot event.
FairSpec ==
  /\ Spec
  /\ WF_vars(Tick)
  /\ WF_vars(BertReturns)
  /\ WF_vars(ProcessDone)
  /\ WF_vars(BootEventDone)
  /\ SF_vars(BertHostOnTimeOut)
  /\ SF_vars(BertHostFailTimeOut)
  /\ SF_vars(BertPowerLockTimeOut)

-------------------------------------------------------------------------------
(* Properties.                                                              *)

Ticks(n) == 0..n \cup {Stopped}

\* Every variable keeps its type.
TypeOK ==
  /\ running \in BOOLEAN /\ mode \in Bert!Modes
  /\ pending \subseteq Record /\ delivered \subseteq Record
  /\ missed \subseteq Record /\ broken \in BOOLEAN
  /\ up \in BOOLEAN
  /\ hostStatus \in {"HOST_UA", "HOST_COMPLETE", "HOST_BOOTING", "HOST_FAILURE"}
  /\ checkBertFlag \in BOOLEAN
  /\ onTimer \in Ticks(OnDelay) /\ failTimer \in Ticks(FailDelay)
  /\ lockTimer \in Ticks(LockDelay)
  /\ isMasked \in BOOLEAN
  /\ locked \subseteq Controls
  /\ action \in TriggerAction
  /\ then \in {"nothing", "unlock", "settle"}
  /\ onReads \in 0..1
  /\ lapses \subseteq {"script", "crash"}

\* With the host on, the records are read at most once per life of the
\* daemon, whichever of the boot event and the two timers comes first, and
\* nothing is left armed once they are being read.
ReadOnce ==
  /\ onReads <= 1
  /\ onReads = 1 /\ Listening => ~checkBertFlag /\ failTimer = Stopped
  /\ checkBertFlag /\ Listening => failTimer # Stopped

\* Why the three ways to a read exclude each other.  The flag stands for the
\* fail timer; while the first timer runs and no boot event has come, the
\* read is still to do; the fail timer never overtakes the first one; a
\* daemon that is down holds nothing.
ReadPending ==
  /\ checkBertFlag <=> failTimer # Stopped
  /\ then = "settle" => checkBertFlag /\ onReads = 1 /\ hostStatus # "HOST_COMPLETE"
  /\ checkBertFlag /\ then # "settle" => onReads = 0
  /\ onTimer # Stopped /\ hostStatus = "HOST_COMPLETE" => checkBertFlag
  /\ onTimer # Stopped /\ failTimer # Stopped => onTimer <= failTimer
  /\ ~up => /\ ~running /\ ~checkBertFlag /\ ~isMasked
            /\ onTimer = Stopped /\ lockTimer = Stopped
            /\ then = "nothing" /\ onReads = 0

\* While the power controls are held, the timer that frees them is armed,
\* and it is not armed otherwise: a lock cannot outlive its timer, and the
\* timer cannot free a lock it was not started for.
LockHasTimer == up => (isMasked <=> lockTimer # Stopped)

\* Power controls stay locked behind the daemon's back only if the script
\* failed to unlock them or the daemon died holding them, and only until the
\* next unlocking that works.
NoStrandedLock == locked # {} /\ ~isMasked => lapses # {}

\* Once the daemon waits for the host, it reads the records, unless it dies:
\* no order of boot events and timers makes it forget them.
EventuallyRead == checkBertFlag ~> onReads = 1 \/ ~up

\* A lock is released in the end, whether or not TriggerProcess ever comes,
\* if no further request prolongs it: the timer is started anew by each.
EventuallyUnmasked ==
  <>[][~TriggerActions("Bert")]_vars => (isMasked ~> ~isMasked)
===============================================================================
