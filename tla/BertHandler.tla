------------------------------ MODULE BertHandler ------------------------------
(***************************************************************************)
(* bertHandler() of the crash capture manager: one pass over the crash     *)
(* (BERT) records the host left in its SPI flash.  It takes the flash from *)
(* the host through a script (lock, bind, handshake), reads the table      *)
(* latest.ras, copies every record still pending for the controller to the *)
(* fault log directory, logs it, and writes the table back with the        *)
(* pending flags cleared.                                                  *)
(*                                                                         *)
(* The pass is synchronous, so the steps below interleave only with the    *)
(* host and a crash.  Host on: the flash is claimed anew for every access  *)
(* (a "window", HOST_ON).  Host off: once for the whole pass.              *)
(***************************************************************************)
EXTENDS Integers, FiniteSets

CONSTANTS
  NumFiles,      \* BERT_MAX_NUM_FILE: record files in the partition
  Blocks,        \* BLOCK_SIZE pieces of a record file
  NumRetry,      \* NUM_RETRY: attempts to open the flash
  MaxRec,        \* bound: records the host writes
  HostMayWrite,  \* the host may write a record between two windows
  UnseenMayFail, \* a log call, a write of a dump, or an access to the flash
                 \* that is cut short, may fail unnoticed
  MayCrash       \* the daemon may die in the middle of a pass

ASSUME BertAssumption ==
  /\ NumFiles \in Nat \ {0} /\ Blocks \in Nat \ {0} /\ NumRetry \in Nat \ {0}
  /\ MaxRec \in Nat
  /\ {HostMayWrite, UnseenMayFail, MayCrash} \subseteq BOOLEAN

Files   == 1..NumFiles
Records == 1..MaxRec
None    == 0

States == {"HOST_ON", "HOST_OFF"}

\* The steps that touch the flash.
AccessSteps == {"Mount", "InfoAccess", "FileAccess", "WriteAccess"}

Steps == {"Idle", "Enable", "Claim", "Retry", "ReadInfo", "Scan", "ReadFile",
          "Save", "Log", "WriteInfo", "Exit", "Disable"} \cup AccessSteps

\* The steps in which the pass goes by the table it has read.
TableHeld == {"Scan", "ReadFile", "Save", "Log", "WriteInfo"}

\* A row of latest.ras: the valid and pendingBMC flags.
Row == [valid : BOOLEAN, pendingBMC : BOOLEAN]

\* "table": latest.ras was read short, or not written back whole; "cut": an
\* exception or the death of the daemon cut a pass short.
Failures == {"script", "io", "table", "cut"}

VARIABLES
  pc,        \* the next step of the pass
  state,     \* bert_host_state, the argument
  lock,      \* the SPI resource is locked for the controller (script)
  hs,        \* the host is asked to keep off the flash (script)
  claim,     \* bertClaimSPITimer runs
  retries,   \* attempts left to open the flash; 0 once it is open
  fd,        \* devFd: never opened, open, or closed but not forgotten
  mounted,   \* the partition is mounted in libspinorfs
  table,     \* latest.ras in flash, a row per record file
  torn,      \* latest.ras lost its content in a broken write (table is NoRows)
  content,   \* the record in each file of the flash
  written,   \* records the host has written
  info,      \* bertInfo, the table as read
  misread,   \* what info holds is not what the host left in latest.ras
  i,         \* the file being processed
  blk,       \* blocks of it read so far
  buf,       \* the records those blocks came from (crashBuf)
  found,     \* isValidBert
  saved,     \* records with a whole copy under CRASHDUMP_LOG_PATH
  logged,    \* records with a SEL entry and a Redfish fault log
  missed,    \* records lost and nobody told: left while the pass went by an
             \* older table, read short, or not taken by a sink (history)
  fails      \* kinds of failure met so far (history)

flashVars == <<table, torn, content, written>>
fileVars  == <<info, misread, i, blk, buf, found>>
sinkVars  == <<saved, logged, missed>>
hostVars  == <<lock, hs, claim>>
vars == <<pc, state, lock, hs, claim, retries, fd, mounted, table, torn,
          content, written, info, misread, i, blk, buf, found, saved, logged,
          missed, fails>>

NoRows == [f \in Files |-> [valid |-> FALSE, pendingBMC |-> FALSE]]

Init ==
  /\ pc = "Idle"
  /\ state = "HOST_OFF"
  /\ lock = FALSE /\ hs = FALSE /\ claim = FALSE
  /\ retries = 0
  /\ fd = "none" /\ mounted = FALSE
  /\ table = NoRows
  /\ torn = FALSE
  /\ content = [f \in Files |-> None] /\ written = 0
  /\ info = NoRows /\ misread = FALSE
  /\ i = 1 /\ blk = 0 /\ buf = {} /\ found = FALSE
  /\ saved = {} /\ logged = {} /\ missed = {}
  /\ fails = {}

-------------------------------------------------------------------------------
(* The script: every call of it may fail and then changes nothing.          *)

Fail(kind) == fails' = fails \cup {kind}

\* What enableAccessHostSpiNor can leave behind: it stops at the first
\* command that fails, and keeps what the earlier ones took.
EnableOutcomes(l, h) ==
  { [ok |-> TRUE,  lock |-> TRUE, hs |-> h \/ state = "HOST_OFF"],
    [ok |-> FALSE, lock |-> l,    hs |-> h],
    [ok |-> FALSE, lock |-> TRUE, hs |-> h] }

\* Mutant: host off, the handshake is not stopped.
DisableOutcomesUnlockOnly(l, h) ==
  { [ok |-> TRUE,  lock |-> FALSE, hs |-> h],
    [ok |-> FALSE, lock |-> l,     hs |-> h] }

\* disableAccessHostSpiNor: unlock, then (host off) stop the handshake.
DisableOutcomes(l, h) ==
  { [ok |-> TRUE,  lock |-> FALSE, hs |-> h /\ state = "HOST_ON"],
    [ok |-> FALSE, lock |-> l,     hs |-> h] }
  \cup IF state = "HOST_OFF" THEN {[ok |-> FALSE, lock |-> FALSE, hs |-> h]} ELSE {}

\* handshakeSPI(START_HS): the window opens and the claim timer starts.
StartHs == hs' = TRUE /\ claim' = TRUE /\ UNCHANGED fails

\* handshakeSPI(STOP_HS): the timer stops first; the script may fail, and
\* nobody looks.
StopHs(kinds) ==
  /\ claim' = FALSE
  /\ \/ hs' = FALSE /\ fails' = fails \cup kinds
     \/ hs' = hs /\ fails' = fails \cup kinds \cup {"script"}

\* Mutant: the window is left open.
CloseWindowForgotten(kinds) == fails' = fails \cup kinds /\ UNCHANGED <<hs, claim>>

\* The end of an access: the window closes (host on).
CloseWindow(kinds) ==
  IF state = "HOST_ON" THEN StopHs(kinds)
                       ELSE fails' = fails \cup kinds /\ UNCHANGED <<hs, claim>>

\* Records that are lost now and nobody sees it.
Miss(R) == missed' = missed \cup (R \ {None})

\* Mutant: a window that cannot be opened is used all the same.
OpenWindowUnchecked(from, access, refused, kinds) ==
  /\ pc = from
  /\ pc' = access
  /\ \/ state = "HOST_OFF" /\ UNCHANGED <<hs, claim, fails>>
     \/ state = "HOST_ON" /\ StartHs
     \/ state = "HOST_ON" /\ Fail("script") /\ UNCHANGED <<hs, claim>>

\* The beginning of an access.  A window that cannot be opened, host on,
\* sends the pass to the step refused.
OpenWindow(from, access, refused, kinds) ==
  /\ pc = from
  /\ \/ /\ state = "HOST_OFF"
        /\ pc' = access
        /\ UNCHANGED <<hs, claim, fails>>
     \/ /\ state = "HOST_ON"
        /\ pc' = access
        /\ StartHs
     \/ /\ state = "HOST_ON"
        /\ pc' = refused
        /\ fails' = fails \cup kinds \cup {"script"}
        /\ UNCHANGED <<hs, claim>>

-------------------------------------------------------------------------------
(* bertHandler: entry, and the ways out of it.                              *)

\* bertHandler returns: the locals of the pass are gone.
Return ==
  /\ pc' = "Idle"
  /\ retries' = 0
  /\ info' = NoRows /\ misread' = FALSE
  /\ i' = 1 /\ blk' = 0 /\ buf' = {} /\ found' = FALSE

Call(s) ==
  /\ pc = "Idle"
  /\ pc' = "Enable"
  /\ state' = s
  /\ fd' = "none"
  /\ retries' = NumRetry
  /\ UNCHANGED <<hostVars, mounted, flashVars, fileVars, sinkVars, fails>>

\* A directory cannot be created: nothing has been taken yet.
DirectoriesFail ==
  /\ pc = "Enable"
  /\ Return
  /\ Fail("io")
  /\ UNCHANGED <<state, hostVars, fd, mounted, flashVars, sinkVars>>

EnableAccess ==
  /\ pc = "Enable"
  /\ \E r \in EnableOutcomes(lock, hs) :
       /\ lock' = r.lock
       /\ hs' = r.hs
       /\ IF r.ok THEN pc' = "Claim" /\ UNCHANGED <<retries, fileVars, fails>>
                  ELSE Return /\ Fail("script")
  /\ UNCHANGED <<state, claim, fd, mounted, flashVars, sinkVars>>

\* initSPIDevice: claim the flash (host on), open the device, read the GPT,
\* mount the partition.  The error path closes the descriptor but keeps its
\* number, unless it was open() that failed.
ClaimFlash ==
  /\ pc = "Claim"
  /\ \/ pc' = "Mount" /\ state = "HOST_OFF" /\ UNCHANGED <<hs, claim, fails>>
     \/ pc' = "Mount" /\ state = "HOST_ON" /\ StartHs
     \/ pc' = "Retry" /\ state = "HOST_ON" /\ StopHs({"script"})
  /\ UNCHANGED <<state, lock, retries, fd, mounted, flashVars, fileVars, sinkVars>>

MountFlash ==
  /\ pc = "Mount"
  /\ pc' = "ReadInfo"
  /\ retries' = 0
  /\ fd' = "open"
  /\ mounted' = TRUE
  /\ CloseWindow({})
  /\ UNCHANGED <<state, lock, flashVars, fileVars, sinkVars>>

MountFails ==
  /\ pc = "Mount"
  /\ pc' = "Retry"
  /\ fd' \in {fd, "none", "closed"}
  /\ CloseWindow({"io"})
  /\ UNCHANGED <<state, lock, retries, mounted, flashVars, fileVars, sinkVars>>

\* Give the flash back and take it again.
Reclaim ==
  /\ \E d \in DisableOutcomes(lock, hs) : \E e \in EnableOutcomes(d.lock, d.hs) :
       /\ lock' = e.lock
       /\ hs' = e.hs
       /\ fails' = IF d.ok /\ e.ok THEN fails ELSE fails \cup {"script"}
  /\ UNCHANGED <<state, claim, fd, mounted, flashVars, fileVars, sinkVars>>

\* Mutant: the attempts are not counted.
RetryInitForever ==
  /\ pc = "Retry"
  /\ pc' = IF retries > 0 THEN "Claim" ELSE "Disable"
  /\ UNCHANGED retries
  /\ Reclaim

\* initSPIDeviceRetry: neither result is looked at, so the next attempt may
\* run without lock or handshake.  After the last attempt bertHandler gives
\* up.
RetryInit ==
  /\ pc = "Retry"
  /\ retries' = retries - 1
  /\ pc' = IF retries > 1 THEN "Claim" ELSE "Disable"
  /\ Reclaim

-------------------------------------------------------------------------------
(* handshakeReadSPI / handshakeWriteSPI.  An access that fails stops the    *)
(* handshake in either host state: host off, the rest of the pass then goes *)
(* on without one.                                                          *)

OpenInfo ==
  /\ OpenWindow("ReadInfo", "InfoAccess", "Exit", {})
  /\ UNCHANGED <<state, lock, retries, fd, mounted, flashVars, fileVars, sinkVars>>

\* Only a negative result counts as a failure: after a short read the rest
\* of the rows is what the stack held, and a torn table reads as anything.
\* All that matters of such rows is which of them the pass takes to be due.
ReadInfo ==
  /\ pc = "InfoAccess"
  /\ pc' = "Scan"
  /\ \/ ~torn /\ info' = table /\ misread' = FALSE /\ CloseWindow({})
     \/ /\ torn \/ UnseenMayFail
        /\ \E due \in SUBSET Files :
             info' = [f \in Files |-> [valid |-> f \in due, pendingBMC |-> f \in due]]
        /\ misread' = TRUE
        /\ CloseWindow({"table"})
  /\ i' = 1
  /\ found' = FALSE
  /\ UNCHANGED <<state, lock, retries, fd, mounted, flashVars, blk, buf, sinkVars>>

\* The next row that is valid and pending for the controller, or the end.
NextFile ==
  /\ pc = "Scan"
  /\ LET due == {f \in Files : f >= i /\ info[f].valid /\ info[f].pendingBMC}
     IN  IF due # {}
           THEN /\ i' = CHOOSE f \in due : \A g \in due : f <= g
                /\ pc' = "ReadFile"
           ELSE /\ pc' = IF found THEN "WriteInfo" ELSE "Exit"
                /\ UNCHANGED i
  /\ blk' = 0
  /\ buf' = {}
  /\ UNCHANGED <<state, hostVars, retries, fd, mounted, flashVars, info, misread,
                 found, sinkVars, fails>>

\* The loop goes on with the next file; crashBuf is gone.
SkipFile == pc' = "Scan" /\ i' = i + 1 /\ blk' = 0 /\ buf' = {}

OpenFile ==
  /\ OpenWindow("ReadFile", "FileAccess", "Scan", {})
  /\ IF pc' = "Scan" THEN SkipFile ELSE UNCHANGED <<i, blk, buf>>
  /\ UNCHANGED <<state, lock, retries, fd, mounted, flashVars, info, misread,
                 found, sinkVars>>

\* Host off, all blocks are read at once.  A short read leaves zeros.
ReadFile ==
  /\ pc = "FileAccess"
  /\ \/ buf' = buf \cup {content[i]} /\ UNCHANGED missed
     \/ UnseenMayFail /\ buf' = buf \cup {content[i], None} /\ Miss({content[i]})
  /\ blk' = IF state = "HOST_ON" THEN blk + 1 ELSE Blocks
  /\ pc' = IF blk' = Blocks THEN "Save" ELSE "ReadFile"
  /\ CloseWindow({})
  /\ UNCHANGED <<state, lock, retries, fd, mounted, flashVars, info, misread, i,
                 found, saved, logged>>

ReadFails ==
  /\ \/ pc = "InfoAccess" /\ pc' = "Exit" /\ UNCHANGED <<i, blk, buf>>
     \/ pc = "FileAccess" /\ SkipFile
  /\ StopHs({"io"})
  /\ UNCHANGED <<state, lock, retries, fd, mounted, flashVars, info, misread,
                 found, sinkVars>>

\* The dump is written (its write is not checked), the row's flag cleared
\* in memory, and the dump copied to the fault log directory.
Whole(b) == {r \in b : b = {r}}

\* Mutant: the pending flag is not cleared.
SaveDumpStillPending ==
  /\ pc = "Save"
  /\ pc' = "Log"
  /\ saved' = saved \cup Whole(buf)
  /\ UNCHANGED <<state, hostVars, retries, fd, mounted, flashVars, fileVars,
                 logged, missed, fails>>

SaveDump ==
  /\ pc = "Save"
  /\ pc' = "Log"
  /\ info' = [info EXCEPT ![i].pendingBMC = FALSE]
  /\ \/ saved' = saved \cup Whole(buf) /\ UNCHANGED missed
     \/ UnseenMayFail /\ UNCHANGED saved /\ Miss(buf)
  /\ UNCHANGED <<state, hostVars, retries, fd, mounted, flashVars, misread, i, blk,
                 buf, found, logged, fails>>

\* Mutant: the flag is cleared before the dump file is opened.
SaveFailsCleared ==
  /\ pc = "Save"
  /\ SkipFile
  /\ Fail("io")
  /\ info' = [info EXCEPT ![i].pendingBMC = FALSE]
  /\ UNCHANGED <<state, hostVars, retries, fd, mounted, flashVars, misread,
                 found, sinkVars>>

\* The dump file cannot be opened.
SaveFails ==
  /\ pc = "Save"
  /\ SkipFile
  /\ Fail("io")
  /\ UNCHANGED <<state, hostVars, retries, fd, mounted, flashVars, info, misread,
                 found, sinkVars>>

\* std::filesystem::copy throws, or the allocation of crashBuf does for a
\* size out of a table misread; bertHandler catches and returns at once.
Throws ==
  /\ pc = "Save" \/ (pc = "ReadFile" /\ blk = 0 /\ misread)
  /\ Return
  /\ Fail("cut")
  /\ UNCHANGED <<state, hostVars, fd, mounted, flashVars, sinkVars>>

\* addBertSELLog, addFaultLogToRedfish: a call that fails is only printed.
LogRecord ==
  /\ pc = "Log"
  /\ SkipFile
  /\ \/ logged' = logged \cup (buf \ {None}) /\ UNCHANGED missed
     \/ UnseenMayFail /\ UNCHANGED logged /\ Miss(buf)
  /\ found' = TRUE
  /\ UNCHANGED <<state, hostVars, retries, fd, mounted, flashVars, info, misread,
                 saved, fails>>

OpenTable ==
  /\ OpenWindow("WriteInfo", "WriteAccess", "Exit", {"table"})
  /\ UNCHANGED <<state, lock, retries, fd, mounted, flashVars, fileVars, sinkVars>>

\* latest.ras holds rows, unless it is torn.
Becomes(rows, isTorn) == torn' = isTorn /\ table' = IF isTorn THEN NoRows ELSE rows

\* A short write leaves the file, which the open truncated, torn.
WriteInfo ==
  /\ pc = "WriteAccess"
  /\ pc' = "Exit"
  /\ \/ Becomes(info, torn \/ misread) /\ CloseWindow({})
     \/ UnseenMayFail /\ Becomes(info, TRUE) /\ CloseWindow({"table"})
  /\ UNCHANGED <<state, lock, retries, fd, mounted, content, written, fileVars,
                 sinkVars>>

\* The open fails, or the write does after the open truncated the file.
WriteFails ==
  /\ pc = "WriteAccess"
  /\ pc' = "Exit"
  /\ \E t \in {torn, TRUE} : Becomes(table, t)
  /\ StopHs({"io", "table"})
  /\ UNCHANGED <<state, lock, retries, fd, mounted, content, written, fileVars,
                 sinkVars>>

CloseFlash ==
  /\ pc = "Exit"
  /\ pc' = "Disable"
  /\ fd' = "closed"
  /\ mounted' = FALSE
  /\ UNCHANGED <<state, hostVars, retries, flashVars, fileVars, sinkVars, fails>>

DisableAccess ==
  /\ pc = "Disable"
  /\ Return
  /\ \E d \in DisableOutcomes(lock, hs) :
       /\ lock' = d.lock
       /\ hs' = d.hs
       /\ IF d.ok THEN UNCHANGED fails ELSE Fail("script")
  /\ UNCHANGED <<state, claim, fd, mounted, flashVars, sinkVars>>

-------------------------------------------------------------------------------
(* Around the pass: a crash, the host.                                      *)

\* What the daemon held in memory is gone; the script's lock and handshake
\* are not, and a write of the table may be left half done.
Crash ==
  /\ MayCrash
  /\ Return
  /\ \E t \in {torn, torn \/ pc = "WriteAccess"} : Becomes(table, t)
  /\ claim' = FALSE
  /\ fd' = "none" /\ mounted' = FALSE
  /\ Fail("cut")
  /\ UNCHANGED <<state, lock, hs, content, written, sinkVars>>

\* External: the host firmware leaves a new record in file f and marks it
\* pending, while the controller does not claim the flash.
HostWrites(f) ==
  /\ ~hs
  /\ pc = "Idle" \/ (HostMayWrite /\ state = "HOST_ON" /\ pc \notin AccessSteps)
  /\ written < MaxRec
  /\ written' = written + 1
  /\ content' = [content EXCEPT ![f] = written + 1]
  /\ Becomes([table EXCEPT ![f] = [valid |-> TRUE, pendingBMC |-> TRUE]], torn)
  /\ Miss(IF pc \in TableHeld THEN {written + 1} ELSE {})
  /\ UNCHANGED <<pc, state, hostVars, retries, fd, mounted, fileVars,
                 saved, logged, fails>>

\* bertClaimSPITimeOutHdl is run by the event loop, which a pass keeps
\* waiting: the timer is stopped before the loop runs again, and the handler
\* is no action here.

Step ==
  \/ DirectoriesFail \/ EnableAccess \/ ClaimFlash \/ MountFlash \/ MountFails \/ RetryInit
  \/ OpenInfo \/ ReadInfo \/ NextFile \/ OpenFile \/ ReadFile \/ ReadFails
  \/ SaveDump \/ SaveFails \/ Throws \/ LogRecord
  \/ OpenTable \/ WriteInfo \/ WriteFails \/ CloseFlash \/ DisableAccess

Next ==
  \/ \E s \in States : Call(s)
  \/ Step
  \/ Crash
  \/ \E f \in Files : HostWrites(f)

Spec == Init /\ [][Next]_vars

-------------------------------------------------------------------------------
(* Properties.                                                              *)

\* Every variable keeps its type; the retry counter, the row index and the
\* block counter stay within their tables.
TypeOK ==
  /\ pc \in Steps
  /\ state \in States
  /\ {lock, hs, claim, mounted, torn, misread, found} \subseteq BOOLEAN
  /\ retries \in 0..NumRetry
  /\ fd \in {"none", "open", "closed"}
  /\ table \in [Files -> Row]
  /\ info \in [Files -> Row]
  /\ content \in [Files -> Records \cup {None}]
  /\ written \in 0..MaxRec
  /\ i \in 1..(NumFiles + 1)
  /\ blk \in 0..Blocks
  /\ buf \subseteq Records \cup {None}
  /\ saved \subseteq Records \cup {None}
  /\ logged \subseteq Records /\ missed \subseteq Records
  /\ fails \subseteq Failures

\* Host on, the flash is touched only while the host was asked to keep off
\* it, through every retry and error path.  Host off, an earlier failure may
\* have taken the handshake away for the rest of the pass.
AccessInWindow ==
  pc \in AccessSteps => hs \/ (state = "HOST_OFF" /\ fails \ {"table"} # {})

\* Host on, between two accesses the flash is the host's again, unless a
\* call of the script failed or an aborted pass left the claim behind.
WindowsClose ==
  pc \notin AccessSteps /\ state = "HOST_ON" /\ hs
     => fails \cap {"script", "cut"} # {}

\* Every way out of a pass gives back what it took: the descriptor and the
\* mount unless an exception cut it short, the lock and the handshake unless
\* a call of the script failed, an exception was thrown or the daemon died.
ResourcesReturned ==
  pc = "Idle" =>
    /\ fd = "open" \/ mounted => "cut" \in fails
    /\ lock \/ hs => fails \cap {"script", "cut"} # {}

\* A record whose pending flag is gone from the flash has been copied to the
\* fault log directory and logged, whatever failed or crashed in between
\* (unless the table itself was torn): "Set BMC flag to 0 to indicated
\* processed by BMC".
FlagMeansProcessed ==
  \A f \in Files :
    ~torn /\ table[f].valid /\ ~table[f].pendingBMC
      => content[f] \in saved /\ content[f] \in logged

\* What of that promise the code keeps in every case: such a record was copied
\* and logged, or is one of those the code loses and tells nobody.
ClearedAccounted ==
  \A f \in Files :
    ~torn /\ table[f].valid /\ ~table[f].pendingBMC
      => content[f] \in (saved \cap logged) \cup missed

\* A record is logged a second time only after the table was misread or not
\* written back: whatever else fails (the script, the mount, the read of a
\* record, the dump), and whatever the host writes meanwhile, no pass finds
\* again what an earlier one logged.
LoggedOnce ==
  pc = "Log" /\ buf \cap logged # {} => fails \cap {"table", "cut"} # {}

\* What the callers of bertHandler are promised.
Pass == INSTANCE BertPass
  WITH Record    <- Records,
       running   <- pc # "Idle",
       mode      <- state,
       pending   <- IF torn THEN {}
                    ELSE {content[f] : f \in {g \in Files : table[g].valid
                                                        /\ table[g].pendingBMC}},
       delivered <- saved \cap logged,
       missed    <- missed,
       broken    <- torn

\* Every step of a pass is a step of that promise: nothing but a record that
\* was copied and logged, or missed, loses its pending mark, and only in a
\* pass.
PassPromise == Pass!SafeSpec

\* The steps a pass still has in front of it, at most: a file takes PerFile, an
\* attempt to open the flash three.
PerFile == 2 * Blocks + 3
Rows == NumFiles + 1 - i
AfterInfo == 5 + PerFile * NumFiles
Left ==
  CASE pc = "Idle"        -> 0
    [] pc = "Disable"     -> 1
    [] pc = "Exit"        -> 2
    [] pc = "WriteAccess" -> 3
    [] pc = "WriteInfo"   -> 4
    [] pc = "Scan"        -> 5 + PerFile * Rows
    [] pc = "Log"         -> 6 + PerFile * (Rows - 1)
    [] pc = "Save"        -> 7 + PerFile * (Rows - 1)
    [] pc = "FileAccess"  -> 6 + PerFile * (Rows - 1) + 2 * (Blocks - blk)
    [] pc = "ReadFile"    -> 7 + PerFile * (Rows - 1) + 2 * (Blocks - blk)
    [] pc = "InfoAccess"  -> AfterInfo + 1
    [] pc = "ReadInfo"    -> AfterInfo + 2
    [] pc = "Retry"       -> AfterInfo + 2 + 3 * retries
    [] pc = "Mount"       -> AfterInfo + 3 + 3 * retries
    [] pc = "Claim"       -> AfterInfo + 4 + 3 * retries
    [] pc = "Enable"      -> AfterInfo + 5 + 3 * retries

\* A pass comes nearer to its end with each of its steps, through every retry
\* and error path, whatever the script, the flash and the disk do.  The claim
\* timer cannot fire meanwhile: this is all that bounds the claim.
PassAdvances == [][pc # "Idle" => Left' < Left \/ UNCHANGED <<pc, retries, i, blk>>]_vars
===============================================================================
