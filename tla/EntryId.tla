-------------------------------- MODULE EntryId --------------------------------
(***************************************************************************)
(* getUniqueEntryID (crash-capture-manager/utils.cpp): the name of a fault *)
(* log entry is the wall clock to the second, and an index that tells      *)
(* apart the entries of one second.  prevTs and indexId live in memory, so *)
(* a restart forgets them; the wall clock of a controller may be set back. *)
(*                                                                         *)
(* The dump is copied under this name with overwrite_existing: a name used *)
(* twice destroys a record.  It is a part of the daemon CrashCapture       *)
(* models, with no state in common with it: its names are its own, so that *)
(* one module can reason about both.                                       *)
(***************************************************************************)
EXTENDS Integers

CONSTANTS
  MaxTime,      \* bound: the clock runs from 1 to MaxTime
  MaxIndex,     \* bound of indexId
  Label,        \* strftime of the local time: the text of a second.  It may
                \* repeat: an hour comes twice when daylight saving ends
  MaySetBack,   \* the wall clock may be set back
  MayRestart    \* the daemon may be restarted

Times == 0..MaxTime

ASSUME EntryIdAssumption ==
  /\ MaxTime \in Nat \ {0} /\ MaxIndex \in Nat
  /\ {MaySetBack, MayRestart} \subseteq BOOLEAN

VARIABLES
  now,       \* time(0)
  prevTs,
  indexId,
  issued,    \* the entry names given out so far, in this and earlier lives
  last,      \* the latest of them in this life of the daemon
  clash,     \* a name was given out twice (history)
  shown,     \* the labels the clock has shown (history)
  disturbed  \* the clock was set back, its label came a second time, or the
             \* daemon restarted (history)

nameVars == <<now, prevTs, indexId, issued, last, clash, shown, disturbed>>

EntryIdOf(t, k) == [label |-> Label[t], index |-> k]

EntryIds == {EntryIdOf(t, k) : t \in Times, k \in 0..MaxIndex}

\* No entry yet: the clock is past the epoch.
NoId == EntryIdOf(0, 0)

NamesInit ==
  /\ now \in Times \ {0}
  /\ prevTs = 0
  /\ indexId = 0
  /\ issued = {}
  /\ last = NoId
  /\ clash = FALSE
  /\ shown = {Label[now]}
  /\ disturbed = FALSE

\* Mutant: the index is never increased.
NextIndexConstant == 0

\* If the timestamp is that of the previous entry, increment the index;
\* otherwise reset it.
NextIndex == IF now = prevTs THEN indexId + 1 ELSE 0

GetUniqueEntryID ==
  /\ NextIndex <= MaxIndex
  /\ indexId' = NextIndex
  /\ prevTs' = now
  /\ last' = EntryIdOf(now, indexId')
  /\ clash' = (clash \/ last' \in issued)
  /\ issued' = issued \cup {last'}
  /\ UNCHANGED <<now, shown, disturbed>>

ClockTicks ==
  /\ now < MaxTime
  /\ now' = now + 1
  /\ shown' = shown \cup {Label[now']}
  /\ disturbed' = (disturbed \/ Label[now'] \in shown)
  /\ UNCHANGED <<prevTs, indexId, issued, last, clash>>

\* External: the clock is synchronised or set by hand.
SetBack(t) ==
  /\ MaySetBack
  /\ t < now
  /\ now' = t
  /\ shown' = shown \cup {Label[t]}
  /\ disturbed' = TRUE
  /\ UNCHANGED <<prevTs, indexId, issued, last, clash>>

\* prevTs and indexId start from 0 again.
RestartDaemon ==
  /\ MayRestart
  /\ prevTs' = 0
  /\ indexId' = 0
  /\ last' = NoId
  /\ disturbed' = TRUE
  /\ UNCHANGED <<now, issued, clash, shown>>

NamesNext ==
  \/ GetUniqueEntryID
  \/ ClockTicks
  \/ \E t \in Times \ {0} : SetBack(t)
  \/ RestartDaemon

NamesSpec == NamesInit /\ [][NamesNext]_nameVars

-------------------------------------------------------------------------------
(* Properties.                                                              *)

\* Every variable keeps its type.
NamesTypeOK ==
  /\ now \in Times \ {0}
  /\ prevTs \in Times
  /\ indexId \in 0..MaxIndex
  /\ issued \subseteq EntryIds
  /\ last = NoId \/ last \in issued
  /\ shown \subseteq {Label[t] : t \in Times}
  /\ clash \in BOOLEAN /\ disturbed \in BOOLEAN

\* What NextIndex relies on: the saved timestamp and index are those of the
\* latest name, and until the clock or the daemon is disturbed every name
\* that shows the present second is that one or an earlier one of the second.
PreviousIsLatest ==
  /\ last = EntryIdOf(prevTs, indexId)
  /\ Label[now] \in shown
  /\ ~disturbed => \A e \in issued :
       /\ e.label \in shown
       /\ e.label = Label[now] => prevTs = now /\ e.index <= indexId

EntryIdInv == NamesTypeOK /\ PreviousIsLatest

\* A name is given out twice only if the clock was set back, the local time
\* repeated itself, or the daemon restarted: however the calls fall on the
\* seconds, the index keeps the entries of one second apart and its reset
\* never meets an old name.
UniqueWhileUndisturbed == clash => disturbed

\* Two calls in a row in one life of the daemon give different names, even
\* across a clock that was set back between them, unless they fall on two
\* seconds of the same label.
ConsecutiveDiffer ==
  [][GetUniqueEntryID =>
       last' # last \/ (now # prevTs /\ Label[now] = Label[prevTs])]_nameVars
===============================================================================
