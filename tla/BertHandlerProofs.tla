--------------------------- MODULE BertHandlerProofs ---------------------------
(***************************************************************************)
(* The pass over the crash records, for every number of files, blocks,     *)
(* attempts and records: types, the windows and what is given back, the    *)
(* records and the promise of BertPass, and that a pass comes to its end.  *)
(***************************************************************************)
EXTENDS BertHandler, TLAPS, WellFoundedInduction

-------------------------------------------------------------------------------
\* A set of natural numbers has a least one.
LEMMA SmallestNat ==
  ASSUME NEW S \in SUBSET Nat, NEW n \in S
  PROVE  \E f \in S : \A g \in S : f <= g
<1>1. PICK f \in S : \A g \in S : <<g, f>> \notin OpToRel(<, Nat)
  BY NatLessThanWellFounded, WFMin
<1>2. \A g \in S : ~(g < f)
  BY <1>1 DEF OpToRel
<1> QED BY <1>2

-------------------------------------------------------------------------------
(* Types, and how far the counters have come.                               *)

Progress ==
  /\ pc \in {"Enable", "Claim", "Mount", "Retry"} => retries >= 1
  /\ pc \in {"ReadFile", "FileAccess"} => i <= NumFiles /\ blk < Blocks
  /\ pc \in {"Save", "Log"} => i <= NumFiles

Types == TypeOK /\ Progress

LEMMA NoRowsType == NoRows \in [Files -> Row]
BY DEF NoRows, Row

LEMMA EnableType ==
  ASSUME NEW l \in BOOLEAN, NEW h \in BOOLEAN, NEW r \in EnableOutcomes(l, h)
  PROVE  /\ r.lock \in BOOLEAN /\ r.hs \in BOOLEAN /\ r.ok \in BOOLEAN
         /\ r.ok => r.lock /\ (r.hs <=> h \/ state = "HOST_OFF")
         /\ ~r.ok => (r.hs <=> h)
<1>1. CASE r = [ok |-> TRUE, lock |-> TRUE, hs |-> h \/ state = "HOST_OFF"]
  BY <1>1
<1>2. CASE r = [ok |-> FALSE, lock |-> l, hs |-> h]
  BY <1>2
<1>3. CASE r = [ok |-> FALSE, lock |-> TRUE, hs |-> h]
  BY <1>3
<1> QED BY <1>1, <1>2, <1>3 DEF EnableOutcomes

LEMMA DisableType ==
  ASSUME NEW l \in BOOLEAN, NEW h \in BOOLEAN, NEW r \in DisableOutcomes(l, h)
  PROVE  /\ r.lock \in BOOLEAN /\ r.hs \in BOOLEAN /\ r.ok \in BOOLEAN
         /\ r.ok => ~r.lock /\ (r.hs <=> h /\ state = "HOST_ON")
         /\ ~r.ok => (r.hs <=> h)
<1>1. CASE r = [ok |-> TRUE, lock |-> FALSE, hs |-> h /\ state = "HOST_ON"]
  BY <1>1
<1>2. CASE r = [ok |-> FALSE, lock |-> l, hs |-> h]
  BY <1>2
<1>3. CASE r = [ok |-> FALSE, lock |-> FALSE, hs |-> h]
  BY <1>3
<1> QED BY <1>1, <1>2, <1>3 DEF DisableOutcomes

LEMMA StopHsType ==
  ASSUME Types, NEW kinds \in SUBSET Failures, StopHs(kinds)
  PROVE  /\ hs' \in BOOLEAN /\ claim' = FALSE /\ fails' \in SUBSET Failures
         /\ fails \cup kinds \subseteq fails'
         /\ hs' => hs /\ "script" \in fails'
<1>1. fails \subseteq Failures /\ hs \in BOOLEAN /\ "script" \in Failures
  BY DEF Types, TypeOK, Failures
<1>2. claim' = FALSE
  BY DEF StopHs
<1>3. CASE hs' = FALSE /\ fails' = fails \cup kinds
  BY <1>1, <1>2, <1>3
<1>4. CASE hs' = hs /\ fails' = fails \cup kinds \cup {"script"}
  BY <1>1, <1>2, <1>4
<1> QED BY <1>3, <1>4 DEF StopHs

LEMMA CloseWindowType ==
  ASSUME Types, NEW kinds \in SUBSET Failures, CloseWindow(kinds)
  PROVE  /\ hs' \in BOOLEAN /\ claim' \in BOOLEAN /\ fails' \in SUBSET Failures
         /\ fails \cup kinds \subseteq fails'
         /\ state # "HOST_ON" => UNCHANGED hs
         /\ state = "HOST_ON" /\ hs' => hs /\ "script" \in fails'
<1>1. CASE state = "HOST_ON"
  <2>1. StopHs(kinds)
    BY <1>1 DEF CloseWindow
  <2> QED BY <1>1, <2>1, StopHsType
<1>2. CASE state # "HOST_ON"
  BY <1>2 DEF CloseWindow, Types, TypeOK
<1> QED BY <1>1, <1>2

LEMMA OpenWindowType ==
  ASSUME Types, NEW from, NEW access, NEW refused, NEW kinds \in SUBSET Failures,
         OpenWindow(from, access, refused, kinds)
  PROVE  /\ pc = from /\ pc' \in {access, refused}
         /\ hs' \in BOOLEAN /\ claim' \in BOOLEAN /\ fails' \in SUBSET Failures
         /\ fails \subseteq fails'
         /\ state = "HOST_ON" => (pc' = access /\ hs' /\ fails' = fails)
                                 \/ (pc' = refused /\ hs' = hs
                                       /\ kinds \cup {"script"} \subseteq fails')
         /\ state # "HOST_ON" => pc' = access /\ UNCHANGED <<hs, fails>>
BY DEF OpenWindow, StartHs, Fail, Types, TypeOK, States, Failures

LEMMA FailType ==
  ASSUME Types, NEW kind \in Failures, Fail(kind)
  PROVE  fails' \in SUBSET Failures /\ fails \subseteq fails' /\ kind \in fails'
BY DEF Types, TypeOK, Fail

LEMMA InitTypes == Init => Types
<1> SUFFICES ASSUME Init PROVE Types
  OBVIOUS
<1>1. 0 \in 0..NumRetry /\ 0 \in 0..MaxRec /\ 1 \in 1..(NumFiles + 1) /\ 0 \in 0..Blocks
  BY BertAssumption
<1>2. content \in [Files -> Records \cup {None}]
  BY DEF Init
<1>3. {lock, hs, claim, mounted, torn, misread, found} \subseteq BOOLEAN
  BY DEF Init
<1>4. Progress
  BY DEF Init, Progress
<1> QED BY <1>1, <1>2, <1>3, <1>4, NoRowsType DEF Init, Types, TypeOK, Steps, States

\* What bertHandler leaves of its locals.
LEMMA ReturnType ==
  ASSUME Return
  PROVE  /\ pc' = "Idle" /\ retries' = 0 /\ info' = NoRows /\ info' \in [Files -> Row]
         /\ misread' = FALSE
         /\ i' = 1 /\ blk' = 0 /\ buf' = {} /\ found' = FALSE
         /\ retries' \in 0..NumRetry /\ i' \in 1..(NumFiles + 1) /\ blk' \in 0..Blocks
BY BertAssumption, NoRowsType DEF Return

LEMMA CallTypes == ASSUME Types, NEW s \in States, Call(s) PROVE Types'
BY BertAssumption DEF Types, TypeOK, Progress, Steps, Call, hostVars, flashVars, fileVars, sinkVars

LEMMA LeaveTypes ==
  ASSUME Types, DirectoriesFail \/ Throws
  PROVE  Types'
<1>1. "io" \in Failures /\ "cut" \in Failures
  BY DEF Failures
<1>2. /\ Return /\ fails' \in SUBSET Failures
      /\ UNCHANGED <<state, hostVars, fd, mounted, flashVars, sinkVars>>
  BY <1>1, FailType DEF DirectoriesFail, Throws
<1> QED BY <1>2, ReturnType DEF Types, TypeOK, Progress, Steps, hostVars, flashVars, sinkVars

LEMMA EnableTypes == ASSUME Types, EnableAccess PROVE Types'
<1>1. "script" \in Failures /\ lock \in BOOLEAN /\ hs \in BOOLEAN
  BY DEF Failures, Types, TypeOK
<1>2. PICK r \in EnableOutcomes(lock, hs) :
        /\ lock' = r.lock /\ hs' = r.hs
        /\ IF r.ok THEN pc' = "Claim" /\ UNCHANGED <<retries, fileVars, fails>>
                   ELSE Return /\ Fail("script")
  BY DEF EnableAccess
<1>3. lock' \in BOOLEAN /\ hs' \in BOOLEAN
  BY <1>1, <1>2, EnableType
<1>4. pc = "Enable" /\ UNCHANGED <<state, claim, fd, mounted, flashVars, sinkVars>>
  BY DEF EnableAccess
<1>5. CASE r.ok
  BY <1>2, <1>3, <1>4, <1>5 DEF Types, TypeOK, Progress, Steps, flashVars, fileVars, sinkVars
<1>6. CASE ~r.ok
  <2>1. Return /\ fails' \in SUBSET Failures
    BY <1>1, <1>2, <1>6, FailType
  <2> QED BY <1>3, <1>4, <2>1, ReturnType DEF Types, TypeOK, Progress, Steps, flashVars, sinkVars
<1> QED BY <1>5, <1>6

LEMMA KindTypes ==
  /\ {"script", "io", "table", "cut"} \subseteq Failures
  /\ {{}, {"script"}, {"io"}, {"table"}, {"io", "table"}} \subseteq SUBSET Failures
BY DEF Failures

LEMMA ClaimTypes == ASSUME Types, ClaimFlash PROVE Types'
<1>1. hs' \in BOOLEAN /\ claim' \in BOOLEAN /\ fails' \in SUBSET Failures
  BY KindTypes, StopHsType DEF ClaimFlash, StartHs, Types, TypeOK
<1>2. pc = "Claim" /\ pc' \in {"Mount", "Retry"}
      /\ UNCHANGED <<state, lock, retries, fd, mounted, flashVars, fileVars, sinkVars>>
  BY DEF ClaimFlash
<1> QED BY <1>1, <1>2 DEF Types, TypeOK, Progress, Steps, AccessSteps, flashVars, fileVars, hostVars, sinkVars

LEMMA MountTypes == ASSUME Types, MountFlash \/ MountFails PROVE Types'
<1>1. hs' \in BOOLEAN /\ claim' \in BOOLEAN /\ fails' \in SUBSET Failures
  BY KindTypes, CloseWindowType DEF MountFlash, MountFails
<1>2. /\ pc = "Mount" /\ pc' \in {"ReadInfo", "Retry"}
      /\ fd' \in {"none", "open", "closed"} /\ mounted' \in BOOLEAN
      /\ retries' \in {0, retries} /\ (pc' = "Retry" => retries' = retries)
      /\ UNCHANGED <<state, lock, flashVars, fileVars, sinkVars>>
  BY DEF MountFlash, MountFails, Types, TypeOK
<1>3. retries' \in 0..NumRetry
  BY <1>2, BertAssumption DEF Types, TypeOK
<1> QED BY <1>1, <1>2, <1>3 DEF Types, TypeOK, Progress, Steps, AccessSteps, flashVars, fileVars, hostVars, sinkVars

LEMMA ReclaimType ==
  ASSUME Types, Reclaim
  PROVE  /\ lock' \in BOOLEAN /\ hs' \in BOOLEAN /\ fails' \in SUBSET Failures /\ fails \subseteq fails'
         /\ hs' \/ state = "HOST_ON" \/ "script" \in fails'
         /\ state = "HOST_ON" => hs' = hs
<1>1. PICK d \in DisableOutcomes(lock, hs) : \E e \in EnableOutcomes(d.lock, d.hs) :
        /\ lock' = e.lock /\ hs' = e.hs
        /\ fails' = IF d.ok /\ e.ok THEN fails ELSE fails \cup {"script"}
  BY DEF Reclaim
<1>2. PICK e \in EnableOutcomes(d.lock, d.hs) :
        /\ lock' = e.lock /\ hs' = e.hs
        /\ fails' = IF d.ok /\ e.ok THEN fails ELSE fails \cup {"script"}
  BY <1>1
<1>3. lock \in BOOLEAN /\ hs \in BOOLEAN /\ state \in States /\ fails \in SUBSET Failures
  BY DEF Types, TypeOK
<1>4. d.lock \in BOOLEAN /\ d.hs \in BOOLEAN /\ (state = "HOST_ON" => (d.hs <=> hs))
  BY <1>3, DisableType
<1>5. e.lock \in BOOLEAN /\ e.hs \in BOOLEAN /\ (e.ok => (e.hs <=> d.hs \/ state = "HOST_OFF"))
      /\ (~e.ok => (e.hs <=> d.hs))
  BY <1>4, EnableType
<1> QED BY <1>2, <1>3, <1>4, <1>5, KindTypes DEF States

LEMMA RetryTypes == ASSUME Types, RetryInit PROVE Types'
<1>1. lock' \in BOOLEAN /\ hs' \in BOOLEAN /\ fails' \in SUBSET Failures
  BY ReclaimType DEF RetryInit
<1>2. /\ pc = "Retry" /\ retries' = retries - 1
      /\ pc' = (IF retries > 1 THEN "Claim" ELSE "Disable")
      /\ UNCHANGED <<state, claim, fd, mounted, flashVars, fileVars, sinkVars>>
  BY DEF RetryInit, Reclaim
<1>3. retries' \in 0..NumRetry /\ (pc' = "Claim" => retries' >= 1)
  BY <1>2, BertAssumption DEF Types, TypeOK, Progress
<1> QED BY <1>1, <1>2, <1>3 DEF Types, TypeOK, Progress, Steps, AccessSteps, flashVars, fileVars, hostVars, sinkVars

LEMMA OpenTypes == ASSUME Types, OpenInfo \/ OpenTable PROVE Types'
<1>1. hs' \in BOOLEAN /\ claim' \in BOOLEAN /\ fails' \in SUBSET Failures
      /\ pc' \in {"InfoAccess", "WriteAccess", "Exit"}
  BY KindTypes, OpenWindowType DEF OpenInfo, OpenTable
<1>2. UNCHANGED <<state, lock, retries, fd, mounted, flashVars, fileVars, sinkVars>>
  BY DEF OpenInfo, OpenTable
<1> QED BY <1>1, <1>2 DEF Types, TypeOK, Progress, Steps, AccessSteps, flashVars, fileVars, hostVars, sinkVars

LEMMA ReadInfoTypes == ASSUME Types, ReadInfo PROVE Types'
<1>1. hs' \in BOOLEAN /\ claim' \in BOOLEAN /\ fails' \in SUBSET Failures
  BY KindTypes, CloseWindowType DEF ReadInfo
<1>2. /\ pc' = "Scan" /\ misread' \in BOOLEAN
      /\ i' = 1 /\ found' = FALSE
      /\ UNCHANGED <<state, lock, retries, fd, mounted, flashVars, blk, buf, sinkVars>>
  BY DEF ReadInfo
<1>4. info' \in [Files -> Row]
  <2>1. CASE info' = table
    BY <2>1 DEF Types, TypeOK
  <2>2. CASE \E due \in SUBSET Files :
               info' = [f \in Files |-> [valid |-> f \in due, pendingBMC |-> f \in due]]
    BY <2>2 DEF Row
  <2> QED BY <2>1, <2>2 DEF ReadInfo
<1>3. i' \in 1..(NumFiles + 1)
  BY <1>2, BertAssumption
<1> QED BY <1>1, <1>2, <1>3, <1>4 DEF Types, TypeOK, Progress, Steps, AccessSteps, flashVars, fileVars, hostVars, sinkVars

\* The row that is next.
LEMMA NextFileIs ==
  ASSUME Types, NextFile
  PROVE  /\ pc = "Scan" /\ blk' = 0 /\ buf' = {}
         /\ \/ /\ pc' = "ReadFile" /\ i' \in Files /\ i <= i'
               /\ info[i'].valid /\ info[i'].pendingBMC
            \/ /\ pc' \in {"WriteInfo", "Exit"} /\ i' = i
               /\ pc' = "Exit" => ~found
<1> DEFINE due == {f \in Files : f >= i /\ info[f].valid /\ info[f].pendingBMC}
           first(f) == \A g \in due : f <= g
<1>1. pc = "Scan" /\ blk' = 0 /\ buf' = {}
  BY DEF NextFile
<1>2. CASE due = {}
  BY <1>1, <1>2 DEF NextFile, Types, TypeOK
<1>3. CASE due # {}
  <2>1. \E f \in due : first(f)
    <3>1. due \in SUBSET Nat
      BY DEF Files
    <3>2. PICK n \in due : TRUE
      BY <1>3
    <3> HIDE DEF due
    <3>3. \E f \in due : \A g \in due : f <= g
      BY <3>1, <3>2, SmallestNat
    <3> QED BY <3>3
  <2>2. pc' = "ReadFile" /\ i' = CHOOSE f \in due : first(f)
    BY <1>3 DEF NextFile
  <2>3. i' \in due
    BY <2>1, <2>2
  <2> QED BY <1>1, <2>2, <2>3 DEF Types, TypeOK
<1> QED BY <1>2, <1>3

LEMMA NextFileTypes == ASSUME Types, NextFile PROVE Types'
<1>1. UNCHANGED <<state, hostVars, retries, fd, mounted, flashVars, info, misread,
                  found, sinkVars, fails>>
  BY DEF NextFile
<1>2. i' \in 1..(NumFiles + 1) /\ (pc' = "ReadFile" => i' <= NumFiles) /\ 0 \in 0..Blocks /\ 0 < Blocks
  BY NextFileIs, BertAssumption DEF Types, TypeOK, Files
<1> QED BY <1>1, <1>2, NextFileIs DEF Types, TypeOK, Progress, Steps, AccessSteps, flashVars, fileVars, hostVars, sinkVars

LEMMA OpenFileTypes == ASSUME Types, OpenFile PROVE Types'
<1>1. hs' \in BOOLEAN /\ claim' \in BOOLEAN /\ fails' \in SUBSET Failures
      /\ pc = "ReadFile" /\ pc' \in {"FileAccess", "Scan"}
  BY KindTypes, OpenWindowType DEF OpenFile
<1>2. /\ \/ pc' = "Scan" /\ i' = i + 1 /\ blk' = 0 /\ buf' = {}
         \/ pc' # "Scan" /\ UNCHANGED <<i, blk, buf>>
      /\ UNCHANGED <<state, lock, retries, fd, mounted, flashVars, info, misread,
                     found, sinkVars>>
  BY DEF OpenFile, SkipFile
<1>3. i' \in 1..(NumFiles + 1) /\ blk' \in 0..Blocks
  BY <1>1, <1>2, BertAssumption DEF Types, TypeOK, Progress
<1> QED BY <1>1, <1>2, <1>3 DEF Types, TypeOK, Progress, Steps, AccessSteps, flashVars, fileVars, hostVars, sinkVars

LEMMA ReadFileTypes == ASSUME Types, ReadFile PROVE Types'
<1>1. hs' \in BOOLEAN /\ claim' \in BOOLEAN /\ fails' \in SUBSET Failures
  BY KindTypes, CloseWindowType DEF ReadFile
<1>2. /\ pc = "FileAccess" /\ buf' \subseteq buf \cup {content[i], None}
      /\ missed' \subseteq missed \cup ({content[i]} \ {None})
      /\ blk' = (IF state = "HOST_ON" THEN blk + 1 ELSE Blocks)
      /\ pc' = (IF blk' = Blocks THEN "Save" ELSE "ReadFile")
      /\ UNCHANGED <<state, lock, retries, fd, mounted, flashVars, info, misread, i, found,
                     saved, logged>>
  BY DEF ReadFile, Miss
<1>3. i \in Files /\ content[i] \in Records \cup {None}
  BY <1>2, BertAssumption DEF Types, TypeOK, Progress, Files
<1>4. blk' \in 0..Blocks /\ (pc' = "ReadFile" => blk' < Blocks)
  BY <1>2, BertAssumption DEF Types, TypeOK, Progress
<1> QED BY <1>1, <1>2, <1>3, <1>4 DEF Types, TypeOK, Progress, Steps, AccessSteps, flashVars, fileVars, hostVars, sinkVars

LEMMA ReadFailsTypes == ASSUME Types, ReadFails PROVE Types'
<1>1. hs' \in BOOLEAN /\ claim' \in BOOLEAN /\ fails' \in SUBSET Failures
  BY KindTypes, StopHsType DEF ReadFails
<1>2. /\ pc \in {"InfoAccess", "FileAccess"} /\ pc' \in {"Exit", "Scan"}
      /\ \/ UNCHANGED <<i, blk, buf>>
         \/ pc = "FileAccess" /\ i' = i + 1 /\ blk' = 0 /\ buf' = {}
      /\ UNCHANGED <<state, lock, retries, fd, mounted, flashVars, info, misread,
                     found, sinkVars>>
  BY DEF ReadFails, SkipFile
<1>3. i' \in 1..(NumFiles + 1) /\ blk' \in 0..Blocks
  BY <1>2, BertAssumption DEF Types, TypeOK, Progress
<1> QED BY <1>1, <1>2, <1>3 DEF Types, TypeOK, Progress, Steps, AccessSteps, flashVars, fileVars, hostVars, sinkVars

LEMMA SaveTypes == ASSUME Types, SaveDump \/ SaveFails \/ LogRecord PROVE Types'
<1>1. fails' \in SUBSET Failures
  BY KindTypes, FailType DEF SaveDump, SaveFails, LogRecord, Types, TypeOK
<1>2. /\ pc \in {"Save", "Log"}
      /\ \/ pc' = "Log" /\ UNCHANGED <<i, blk, buf>>
         \/ pc' = "Scan" /\ i' = i + 1 /\ blk' = 0 /\ buf' = {}
      /\ info' = info \/ info' = [info EXCEPT ![i].pendingBMC = FALSE]
      /\ saved' \subseteq saved \cup buf /\ logged' \subseteq logged \cup (buf \ {None})
      /\ missed' \subseteq missed \cup (buf \ {None})
      /\ found' \in BOOLEAN
      /\ UNCHANGED <<state, hostVars, retries, fd, mounted, flashVars, misread>>
  BY DEF SaveDump, SaveFails, LogRecord, SkipFile, Whole, Miss, sinkVars, Types, TypeOK
<1>3. i' \in 1..(NumFiles + 1) /\ i \in Files /\ blk' \in 0..Blocks
  BY <1>2, BertAssumption DEF Types, TypeOK, Progress, Files
<1>4. info' \in [Files -> Row]
  <2>1. info \in [Files -> Row]
    BY DEF Types, TypeOK
  <2>2. CASE info' = [info EXCEPT ![i].pendingBMC = FALSE]
    BY <1>3, <2>1, <2>2 DEF Row
  <2> QED BY <1>2, <2>1, <2>2
<1>5. saved' \subseteq Records \cup {None} /\ logged' \subseteq Records /\ missed' \subseteq Records
  BY <1>2 DEF Types, TypeOK
<1> QED BY <1>1, <1>2, <1>3, <1>4, <1>5 DEF Types, TypeOK, Progress, Steps, AccessSteps, flashVars, fileVars, hostVars, sinkVars

LEMMA WriteTypes == ASSUME Types, WriteInfo \/ WriteFails PROVE Types'
<1>1. hs' \in BOOLEAN /\ claim' \in BOOLEAN /\ fails' \in SUBSET Failures
  BY KindTypes, StopHsType, CloseWindowType DEF WriteInfo, WriteFails
<1>2. /\ pc' = "Exit" /\ table' \in [Files -> Row] /\ torn' \in BOOLEAN
      /\ UNCHANGED <<state, lock, retries, fd, mounted, content, written, fileVars, sinkVars>>
  BY NoRowsType DEF WriteInfo, WriteFails, Becomes, Types, TypeOK
<1> QED BY <1>1, <1>2 DEF Types, TypeOK, Progress, Steps, AccessSteps, flashVars, fileVars, hostVars, sinkVars

LEMMA CloseFlashTypes == ASSUME Types, CloseFlash PROVE Types'
BY DEF Types, TypeOK, Progress, Steps, AccessSteps, flashVars, fileVars, hostVars, sinkVars,
       CloseFlash

LEMMA DisableTypes ==
  ASSUME Types, DisableAccess
  PROVE  /\ Types' /\ fails \subseteq fails'
         /\ "script" \in fails' \/ (~lock' /\ (hs' => hs /\ state = "HOST_ON"))
<1>1. lock \in BOOLEAN /\ hs \in BOOLEAN
  BY DEF Types, TypeOK
<1>2. PICK d \in DisableOutcomes(lock, hs) :
        lock' = d.lock /\ hs' = d.hs /\ IF d.ok THEN UNCHANGED fails ELSE Fail("script")
  BY DEF DisableAccess
<1>3. /\ lock' \in BOOLEAN /\ hs' \in BOOLEAN
      /\ d.ok => ~lock' /\ (hs' <=> hs /\ state = "HOST_ON")
  BY <1>1, <1>2, DisableType
<1>4. fails' \in SUBSET Failures /\ fails \subseteq fails' /\ (~d.ok => "script" \in fails')
  BY <1>2, KindTypes, FailType DEF Types, TypeOK
<1>5. Return /\ UNCHANGED <<state, claim, fd, mounted, flashVars, sinkVars>>
  BY DEF DisableAccess
<1>6. Types'
  BY <1>3, <1>4, <1>5, ReturnType DEF Types, TypeOK, Progress, Steps, AccessSteps, flashVars, fileVars, hostVars, sinkVars
<1> QED BY <1>3, <1>4, <1>6

LEMMA CrashTypes == ASSUME Types, Crash PROVE Types'
<1>1. fails' \in SUBSET Failures
  BY KindTypes, FailType DEF Crash
<1>2. /\ Return /\ torn' \in BOOLEAN /\ claim' = FALSE /\ fd' = "none" /\ mounted' = FALSE
      /\ table' \in [Files -> Row]
      /\ UNCHANGED <<state, lock, hs, content, written, sinkVars>>
  BY NoRowsType DEF Crash, Becomes, Types, TypeOK
<1> QED BY <1>1, <1>2, ReturnType DEF Types, TypeOK, Progress, Steps, AccessSteps, flashVars, fileVars, hostVars, sinkVars

LEMMA HostTypes == ASSUME Types, NEW f \in Files, HostWrites(f) PROVE Types'
<1>1. written' = written + 1 /\ written < MaxRec
      /\ content' = [content EXCEPT ![f] = written + 1]
      /\ table' \in {[table EXCEPT ![f] = [valid |-> TRUE, pendingBMC |-> TRUE]], NoRows}
      /\ missed' \in {missed, missed \cup {written + 1}} /\ torn' = torn
  BY DEF HostWrites, Becomes, Miss, None
<1>2. written' \in 0..MaxRec /\ written + 1 \in Records
  BY <1>1, BertAssumption DEF Types, TypeOK, Records
<1>3. content' \in [Files -> Records \cup {None}] /\ missed' \subseteq Records
  BY <1>1, <1>2 DEF Types, TypeOK
<1>5. table' \in [Files -> Row]
  <2>1. table \in [Files -> Row]
    BY DEF Types, TypeOK
  <2>2. CASE table' = [table EXCEPT ![f] = [valid |-> TRUE, pendingBMC |-> TRUE]]
    BY <2>1, <2>2 DEF Row
  <2> QED BY <1>1, <2>2, NoRowsType
<1>4. UNCHANGED <<pc, state, hostVars, retries, fd, mounted, fileVars, saved, logged, fails>>
  BY DEF HostWrites
<1> QED BY <1>1, <1>2, <1>3, <1>4, <1>5 DEF Types, TypeOK, Progress, Steps, AccessSteps, flashVars,
        fileVars, hostVars, sinkVars

LEMMA StepTypes == ASSUME Types, [Next]_vars PROVE Types'
<1>1. CASE UNCHANGED vars
  BY <1>1 DEF Types, TypeOK, Progress, vars
<1>2. CASE Step
  BY <1>2, LeaveTypes, EnableTypes, ClaimTypes, MountTypes, RetryTypes, OpenTypes, ReadInfoTypes,
     NextFileTypes, OpenFileTypes, ReadFileTypes, ReadFailsTypes, SaveTypes, WriteTypes,
     CloseFlashTypes, DisableTypes DEF Step
<1> QED BY <1>1, <1>2, CallTypes, CrashTypes, HostTypes DEF Next

LEMMA AlwaysTypes == Spec => []Types
BY InitTypes, StepTypes, PTL DEF Spec

\* Every variable of the pass and of its environment keeps its type, and the
\* retries, the row and the block stay in their tables (bertHandler).
THEOREM PassTypes == Spec => []TypeOK
BY AlwaysTypes, PTL DEF Types

-------------------------------------------------------------------------------
(* Windows, and what a pass gives back.                                     *)

Aborted == fails \cap {"script", "cut"} # {}

Given == pc \in {"Idle", "Enable", "Claim", "Mount", "Retry", "Disable"}

\* WindowsClose needs to know how a pass began, and that knows how the one
\* before ended: the parts are inductive together only.
Windows ==
  /\ state = "HOST_OFF" /\ pc \notin {"Idle", "Enable"} => hs \/ fails \ {"table"} # {}
  /\ state = "HOST_ON" /\ pc \in AccessSteps => hs
  /\ state = "HOST_ON" /\ pc \notin AccessSteps /\ hs => Aborted
  /\ Given /\ (fd = "open" \/ mounted) => "cut" \in fails
  /\ pc \in {"Idle", "Enable"} /\ (lock \/ hs) => Aborted

\* A failure once met stays met.
LEMMA AbortedStays == ASSUME fails \subseteq fails' PROVE Aborted => Aborted'
BY DEF Aborted

LEMMA AbortedBy ==
  /\ "script" \in fails' => Aborted'
  /\ "cut" \in fails' => Aborted'
BY DEF Aborted

LEMMA InitWindows == Init => Windows
BY DEF Init, Windows, Given, AccessSteps

LEMMA CallWindows == ASSUME Types, Windows, NEW s \in States, Call(s) PROVE Windows'
<1>1. /\ pc = "Idle" /\ pc' = "Enable" /\ fd' = "none"
      /\ UNCHANGED <<lock, hs, mounted, fails>>
  BY DEF Call, hostVars
<1>2. Aborted => Aborted'
  BY <1>1, AbortedStays
<1> QED BY <1>1, <1>2 DEF Windows, Given, AccessSteps

LEMMA LeaveWindows ==
  ASSUME Types, Windows, DirectoriesFail \/ Throws
  PROVE  Windows'
<1>1. /\ pc' = "Idle" /\ fails \subseteq fails'
      /\ UNCHANGED <<state, lock, hs, fd, mounted>>
      /\ pc = "Enable" \/ "cut" \in fails'
  BY KindTypes, FailType DEF DirectoriesFail, Throws, Return, hostVars
<1>2. Aborted => Aborted'
  BY <1>1, AbortedStays
<1> QED BY <1>1, <1>2, AbortedBy DEF Windows, Given, AccessSteps

LEMMA EnableWindows == ASSUME Types, Windows, EnableAccess PROVE Windows'
<1>1. lock \in BOOLEAN /\ hs \in BOOLEAN /\ state \in States
  BY DEF Types, TypeOK
<1>2. PICK r \in EnableOutcomes(lock, hs) :
        /\ lock' = r.lock /\ hs' = r.hs
        /\ IF r.ok THEN pc' = "Claim" /\ UNCHANGED <<retries, fileVars, fails>>
                   ELSE Return /\ Fail("script")
  BY DEF EnableAccess
<1>3. pc = "Enable" /\ UNCHANGED <<state, fd, mounted>>
  BY DEF EnableAccess
<1>4. CASE r.ok
  <2>1. hs' <=> hs \/ state = "HOST_OFF"
    BY <1>1, <1>2, <1>4, EnableType
  <2>2. Aborted => Aborted'
    BY <1>2, <1>4, AbortedStays
  <2> QED BY <1>1, <1>2, <1>3, <1>4, <2>1, <2>2 DEF Windows, Given, AccessSteps, States
<1>5. CASE ~r.ok
  <2>1. pc' = "Idle" /\ "script" \in fails' /\ fails \subseteq fails'
    BY <1>2, <1>5, KindTypes, FailType DEF Return
  <2> QED BY <1>3, <2>1, AbortedBy DEF Windows, Given, AccessSteps
<1> QED BY <1>4, <1>5

LEMMA ClaimWindows == ASSUME Types, Windows, ClaimFlash PROVE Windows'
<1>1. pc = "Claim" /\ UNCHANGED <<state, lock, fd, mounted>>
  BY DEF ClaimFlash
<1>2. CASE pc' = "Mount" /\ UNCHANGED <<hs, fails>> /\ state = "HOST_OFF"
  BY <1>1, <1>2 DEF Windows, Given, AccessSteps
<1>3. CASE pc' = "Mount" /\ hs' = TRUE /\ fails' = fails /\ state = "HOST_ON"
  BY <1>1, <1>3 DEF Windows, Given, AccessSteps
<1>4. CASE pc' = "Retry" /\ state = "HOST_ON" /\ StopHs({"script"})
  <2>1. "script" \in fails' /\ fails \subseteq fails'
    BY <1>4, KindTypes, StopHsType
  <2> QED BY <1>1, <1>4, <2>1, AbortedBy DEF Windows, Given, AccessSteps
<1> QED BY <1>2, <1>3, <1>4 DEF ClaimFlash, StartHs

\* The end of an access: the pass goes on to a step that touches nothing.
LEMMA CloseWindows ==
  ASSUME Types, Windows, pc \in AccessSteps, pc' \notin AccessSteps,
         pc' \notin {"Idle", "Enable"}, UNCHANGED state,
         NEW kinds \in SUBSET Failures,
         CloseWindow(kinds) \/ (StopHs(kinds) /\ "io" \in kinds),
         Given' => "cut" \in fails' \/ ~(fd' = "open" \/ mounted')
  PROVE  Windows'
<1>1. state \in States /\ pc \notin {"Idle", "Enable"}
  BY DEF Types, TypeOK, AccessSteps
<1>2. CASE CloseWindow(kinds)
  <2>1. /\ fails \subseteq fails'
        /\ state # "HOST_ON" => UNCHANGED hs
        /\ state = "HOST_ON" /\ hs' => "script" \in fails'
    BY <1>2, CloseWindowType
  <2> QED BY <1>1, <2>1, AbortedBy DEF Windows, States
<1>3. CASE StopHs(kinds) /\ "io" \in kinds
  <2>1. "io" \in fails' /\ (hs' => "script" \in fails')
    BY <1>3, KindTypes, StopHsType
  <2> QED BY <1>1, <2>1, AbortedBy DEF Windows, States
<1> QED BY <1>2, <1>3

LEMMA MountWindows == ASSUME Types, Windows, MountFlash \/ MountFails PROVE Windows'
<1>1. CASE MountFlash
  <2>1. pc = "Mount" /\ pc' = "ReadInfo" /\ UNCHANGED state /\ CloseWindow({})
    BY <1>1 DEF MountFlash
  <2> QED BY <2>1, KindTypes, CloseWindows DEF AccessSteps, Given
<1>2. CASE MountFails
  <2>1. /\ pc = "Mount" /\ pc' = "Retry" /\ UNCHANGED <<state, mounted>>
        /\ fd' \in {fd, "none", "closed"}
        /\ CloseWindow({"io"})
    BY <1>2 DEF MountFails
  <2>2. fails \subseteq fails'
    BY <2>1, KindTypes, CloseWindowType
  <2>3. fd' = "open" \/ mounted' => "cut" \in fails'
    BY <2>1, <2>2 DEF Windows, Given
  <2> QED BY <2>1, <2>3, KindTypes, CloseWindows DEF AccessSteps
<1> QED BY <1>1, <1>2

LEMMA RetryWindows == ASSUME Types, Windows, RetryInit PROVE Windows'
<1>1. /\ pc = "Retry" /\ pc' \in {"Claim", "Disable"} /\ Reclaim
      /\ UNCHANGED <<state, fd, mounted>>
  BY DEF RetryInit, Reclaim
<1>2. /\ fails \subseteq fails'
      /\ hs' \/ state = "HOST_ON" \/ "script" \in fails'
      /\ state = "HOST_ON" => hs' = hs
  BY <1>1, ReclaimType
<1>3. Aborted => Aborted'
  BY <1>2, AbortedStays
<1> QED BY <1>1, <1>2, <1>3 DEF Windows, Given, AccessSteps

LEMMA OpenWindows ==
  ASSUME Types, Windows, NEW from \in {"ReadInfo", "ReadFile", "WriteInfo"},
         NEW access \in AccessSteps \ {"Mount"}, NEW refused \in {"Exit", "Scan"},
         NEW kinds \in SUBSET Failures,
         OpenWindow(from, access, refused, kinds), UNCHANGED <<state, lock, fd, mounted>>
  PROVE  Windows'
<1>1. /\ pc = from /\ fails \subseteq fails'
      /\ state = "HOST_ON" => (pc' = access /\ hs' /\ fails' = fails)
                              \/ (pc' = refused /\ hs' = hs /\ "script" \in fails')
      /\ state # "HOST_ON" => pc' = access /\ UNCHANGED <<hs, fails>>
      /\ pc' \in {access, refused} /\ state \in States
  BY OpenWindowType DEF Types, TypeOK
<1>2. pc' \notin {"Idle", "Enable"} /\ ~Given'
  BY <1>1 DEF AccessSteps, Given
<1>3. /\ pc \notin AccessSteps /\ pc \notin {"Idle", "Enable"}
      /\ pc' \in AccessSteps <=> pc' = access
  BY <1>1 DEF AccessSteps
<1>4. Aborted => Aborted'
  BY <1>1, AbortedStays
<1>5. CASE state # "HOST_ON"
  <2>1. state = "HOST_OFF" /\ UNCHANGED <<state, hs, fails>>
    BY <1>1, <1>5 DEF States
  <2> QED BY <1>2, <1>3, <2>1 DEF Windows
<1>6. CASE state = "HOST_ON" /\ pc' = access /\ hs'
  BY <1>2, <1>3, <1>6 DEF Windows
<1>7. CASE state = "HOST_ON" /\ pc' = refused /\ hs' = hs /\ "script" \in fails'
  <2>1. pc' \notin AccessSteps
    BY <1>7 DEF AccessSteps
  <2> QED BY <1>2, <1>7, <2>1, AbortedBy DEF Windows
<1> QED BY <1>1, <1>5, <1>6, <1>7

\* Steps between two accesses that take and give nothing.
LEMMA InsideWindows ==
  ASSUME Types, Windows,
         pc \notin AccessSteps \cup {"Idle", "Enable"}, pc' \notin AccessSteps \cup {"Idle", "Enable"},
         UNCHANGED <<state, lock, hs>>, fails \subseteq fails',
         Given' => ~(fd' = "open" \/ mounted')
  PROVE  Windows'
<1>1. Aborted => Aborted'
  BY AbortedStays
<1> QED BY <1>1 DEF Windows

LEMMA ScanWindows == ASSUME Types, Windows, NextFile PROVE Windows'
<1>1. /\ pc = "Scan" /\ pc' \in {"ReadFile", "WriteInfo", "Exit"}
      /\ UNCHANGED <<state, lock, hs, fails>>
  BY NextFileIs DEF NextFile, hostVars
<1> QED BY <1>1, InsideWindows DEF AccessSteps, Given

LEMMA SaveWindows == ASSUME Types, Windows, SaveDump \/ SaveFails \/ LogRecord PROVE Windows'
<1>1. /\ pc \in {"Save", "Log"} /\ pc' \in {"Log", "Scan"}
      /\ UNCHANGED <<state, lock, hs>> /\ fails \subseteq fails'
  BY KindTypes, FailType DEF SaveDump, SaveFails, LogRecord, SkipFile, hostVars
<1> QED BY <1>1, InsideWindows DEF AccessSteps, Given

LEMMA CloseFlashWindows == ASSUME Types, Windows, CloseFlash PROVE Windows'
<1>1. /\ pc = "Exit" /\ pc' = "Disable" /\ fd' = "closed" /\ mounted' = FALSE
      /\ UNCHANGED <<state, lock, hs, fails>>
  BY DEF CloseFlash, hostVars
<1> QED BY <1>1, InsideWindows DEF AccessSteps

LEMMA AccessWindows ==
  ASSUME Types, Windows, ReadInfo \/ ReadFile \/ ReadFails \/ WriteInfo \/ WriteFails
  PROVE  Windows'
<1>1. /\ pc \in AccessSteps /\ pc' \in {"Scan", "Save", "ReadFile", "Exit"}
      /\ UNCHANGED state
      /\ \E kinds \in SUBSET Failures :
           CloseWindow(kinds) \/ (StopHs(kinds) /\ "io" \in kinds)
  BY KindTypes DEF ReadInfo, ReadFile, ReadFails, SkipFile, WriteInfo, WriteFails, AccessSteps
<1>2. pc' \notin AccessSteps /\ pc' \notin {"Idle", "Enable"} /\ ~Given'
  BY <1>1 DEF AccessSteps, Given
<1> QED BY <1>1, <1>2, CloseWindows

LEMMA OpeningWindows == ASSUME Types, Windows, OpenInfo \/ OpenFile \/ OpenTable PROVE Windows'
<1>1. CASE OpenInfo
  BY <1>1, KindTypes, OpenWindows DEF OpenInfo, AccessSteps
<1>2. CASE OpenFile
  BY <1>2, KindTypes, OpenWindows DEF OpenFile, AccessSteps
<1>3. CASE OpenTable
  BY <1>3, KindTypes, OpenWindows DEF OpenTable, AccessSteps
<1> QED BY <1>1, <1>2, <1>3

LEMMA DisableWindows == ASSUME Types, Windows, DisableAccess PROVE Windows'
<1>1. /\ pc = "Disable" /\ pc' = "Idle" /\ UNCHANGED <<state, fd, mounted>>
  BY DEF DisableAccess, Return
<1>2. /\ fails \subseteq fails'
      /\ "script" \in fails' \/ (~lock' /\ (hs' => hs /\ state = "HOST_ON"))
  BY DisableTypes
<1>3. Aborted => Aborted'
  BY <1>2, AbortedStays
<1> QED BY <1>1, <1>2, <1>3, AbortedBy DEF Windows, Given, AccessSteps

LEMMA CrashWindows == ASSUME Types, Windows, Crash PROVE Windows'
<1>1. /\ pc' = "Idle" /\ fd' = "none" /\ mounted' = FALSE /\ "cut" \in fails'
  BY KindTypes, FailType DEF Crash, Return
<1> QED BY <1>1, AbortedBy DEF Windows, AccessSteps

LEMMA StepWindows == ASSUME Types, Windows, [Next]_vars PROVE Windows'
<1>1. CASE UNCHANGED <<pc, state, lock, hs, fd, mounted, fails>>
  BY <1>1 DEF Windows, Given, Aborted
<1>2. CASE Step
  BY <1>2, LeaveWindows, EnableWindows, ClaimWindows, MountWindows, RetryWindows, OpeningWindows,
     AccessWindows, ScanWindows, SaveWindows, CloseFlashWindows, DisableWindows DEF Step
<1>3. (UNCHANGED vars \/ \E f \in Files : HostWrites(f)) =>
        UNCHANGED <<pc, state, lock, hs, fd, mounted, fails>>
  BY DEF vars, HostWrites, hostVars
<1> QED BY <1>1, <1>2, <1>3, CallWindows, CrashWindows DEF Next

LEMMA AlwaysWindows == Spec => []Windows
BY AlwaysTypes, InitWindows, StepWindows, PTL DEF Spec

\* Through every retry and error path the flash is touched only while the host
\* keeps off it, unless a failure, host off, took the handshake away
\* (handshakeSPI and its callers).
THEOREM AccessOnlyInWindow == Spec => []AccessInWindow
<1>1. Types /\ Windows => AccessInWindow
  BY DEF Types, TypeOK, States, Windows, AccessInWindow, AccessSteps
<1> QED BY <1>1, AlwaysTypes, AlwaysWindows, PTL

\* Host on, the flash is the host's again after every access, unless the script
\* failed or a pass was aborted (handshakeSPI and its callers).
THEOREM WindowsAreClosed == Spec => []WindowsClose
<1>1. Windows => WindowsClose
  BY DEF Windows, WindowsClose, Aborted
<1> QED BY <1>1, AlwaysWindows, PTL

\* Every way out of a pass gives back the descriptor, the mount, the lock and
\* the handshake, unless it was aborted or the script failed (bertHandler).
THEOREM PassReturnsResources == Spec => []ResourcesReturned
<1>1. Windows => ResourcesReturned
  BY DEF Windows, ResourcesReturned, Aborted, Given
<1> QED BY <1>1, AlwaysWindows, PTL

-------------------------------------------------------------------------------
(* The records.                                                             *)

ScanSteps == {"Scan", "ReadFile", "FileAccess", "Save", "Log", "WriteInfo", "WriteAccess"}
FileSteps == {"ReadFile", "FileAccess", "Save", "Log"}

\* The row of f as the pass holds it: a mark goes for a record that was missed,
\* or that was saved and is, or is just being, logged.
Copied(f) ==
  /\ info[f].valid => table[f].valid
  /\ info[f].pendingBMC => table[f].pendingBMC
  /\ \/ info[f] = table[f]
     \/ content[f] \in missed
     \/ content[f] \in saved /\ (content[f] \in logged \/ (pc = "Log" /\ f = i))

Fetched ==
  /\ ~torn => \A f \in Files : table[f].valid => content[f] \in Records
  /\ pc \in FileSteps => content[i] \in missed \/ buf \subseteq {content[i]}
  /\ pc \in {"Save", "Log"} => content[i] \in missed \/ buf = {content[i]}
  /\ pc \in FileSteps /\ ~torn /\ ~misread => table[i].valid
  /\ pc \in ScanSteps /\ ~torn /\ ~misread => \A f \in Files : Copied(f)

\* No record that was logged is marked in these rows.
Settled(rows) ==
  \A f \in Files : content[f] \in logged /\ rows[f].valid => ~rows[f].pendingBMC

\* Every latest.ras was read and written back whole.
Clean == fails \cap {"table", "cut"} = {}

\* Nothing of the file in hand was logged, and none of it is in another file.
InHand ==
  /\ content[i] \notin logged
  /\ buf \cap logged = {}
  /\ buf \subseteq 0..written
  /\ \A g \in Files : content[g] \in buf \ {None} => g = i

\* As long as no table is lost a logged record is unmarked in memory while a
\* pass scans, and in the flash from the end of that pass on.
Once ==
  Clean =>
    /\ ~torn
    /\ \A f \in Files : content[f] <= written
    /\ \A f, g \in Files : content[f] = content[g] /\ content[f] # None => f = g
    /\ logged \subseteq 0..written
    /\ pc \in ScanSteps => ~misread /\ Settled(info)
    /\ pc \in FileSteps => InHand
    /\ pc = "Log" => ~info[i].pendingBMC
    /\ pc \notin ScanSteps \/ ~found => Settled(table)

Kept == Types /\ Fetched /\ Once

InDisk == <<table, torn, content, written, saved, logged>>

LEMMA StepSets ==
  /\ FileSteps \subseteq ScanSteps /\ {"Save", "Log"} \subseteq FileSteps
  /\ ScanSteps \ AccessSteps \subseteq TableHeld /\ "Idle" \notin TableHeld
  /\ \A p : p \in {"Idle", "Enable", "Claim", "Mount", "Retry", "ReadInfo", "InfoAccess", "Exit",
                   "Disable"} => p \notin ScanSteps
BY DEF FileSteps, ScanSteps, AccessSteps, TableHeld

LEMMA CleanBefore == ASSUME fails \subseteq fails' PROVE Clean' => Clean
BY DEF Clean

LEMMA NotClean ==
  /\ "table" \in fails' => ~Clean'
  /\ "cut" \in fails' => ~Clean'
BY DEF Clean

LEMMA InitKept == Init => Kept
<1> SUFFICES ASSUME Init PROVE Fetched /\ Once
  BY InitTypes DEF Kept
<1>1. /\ pc = "Idle" /\ pc \notin ScanSteps /\ pc \notin FileSteps /\ pc \notin {"Save", "Log"}
      /\ ~torn /\ logged = {} /\ written = 0
  BY StepSets DEF Init
<1>2. \A f \in Files : content[f] = None /\ ~table[f].valid
  BY DEF Init, NoRows
<1> QED BY <1>1, <1>2 DEF Fetched, Once, Settled, None

\* A step outside the scan, or out of it once the table is written.
LEMMA OutsideKept ==
  ASSUME Kept, Types', UNCHANGED InDisk, missed' = missed, fails \subseteq fails',
         pc' \notin ScanSteps,
         Clean' => pc \notin ScanSteps \/ ~found
  PROVE  Kept'
<1>1. pc' \notin FileSteps /\ pc' \notin {"Save", "Log"}
  BY StepSets
<1>2. Fetched'
  BY <1>1 DEF Kept, Fetched, InDisk
<1>3. Once'
  <2> SUFFICES ASSUME Clean' PROVE Once'
    BY DEF Once
  <2>1. Clean /\ (pc \notin ScanSteps \/ ~found)
    BY CleanBefore
  <2> QED BY <1>1, <2>1 DEF Kept, Once, InDisk, Settled
<1> QED BY <1>2, <1>3 DEF Kept

\* A step of the scan that has no file in hand.
LEMMA ScanKept ==
  ASSUME Kept, Types', UNCHANGED InDisk, UNCHANGED <<missed, info, misread, found>>,
         fails \subseteq fails',
         pc \in ScanSteps \ {"Log"}, pc' \in ScanSteps \ FileSteps
  PROVE  Kept'
<1>1. pc' \notin {"Save", "Log"}
  BY StepSets
<1>2. pc # "Log" /\ \A f \in Files : Copied(f) => Copied(f)'
  BY DEF Copied, InDisk
<1>3. Fetched'
  BY <1>1, <1>2 DEF Kept, Fetched, InDisk
<1>4. Once'
  <2> SUFFICES ASSUME Clean' PROVE Once'
    BY DEF Once
  <2> QED BY <1>1, CleanBefore DEF Kept, Once, InDisk, Settled
<1> QED BY <1>3, <1>4 DEF Kept

\* A step with a file in hand.
LEMMA FileKept ==
  ASSUME Kept, Types', UNCHANGED InDisk, missed \subseteq missed',
         UNCHANGED <<info, misread, found>>, fails \subseteq fails',
         pc \in ScanSteps \ {"Log"}, pc' \in {"ReadFile", "FileAccess", "Save"},
         content[i'] \in missed' \/ buf' \subseteq {content[i']},
         pc' = "Save" => content[i'] \in missed' \/ buf' = {content[i']},
         ~torn /\ ~misread => table[i'].valid,
         Clean' => InHand'
  PROVE  Kept'
<1>1. pc # "Log" /\ pc' # "Log" /\ pc' \in ScanSteps
  BY DEF ScanSteps
<1>2. \A f \in Files : Copied(f) => Copied(f)'
  BY <1>1 DEF Copied, InDisk
<1>3. Fetched'
  BY <1>1, <1>2 DEF Kept, Fetched, InDisk
<1>4. Once'
  <2> SUFFICES ASSUME Clean' PROVE Once'
    BY DEF Once
  <2>1. Clean /\ InHand'
    BY CleanBefore
  <2> QED BY <1>1, <2>1 DEF Kept, Once, InDisk, Settled
<1> QED BY <1>3, <1>4 DEF Kept

LEMMA BeforeKept ==
  ASSUME Kept, Types',
         \/ DirectoriesFail \/ EnableAccess \/ ClaimFlash \/ MountFlash \/ MountFails \/ RetryInit
         \/ OpenInfo \/ CloseFlash \/ DisableAccess \/ Throws
         \/ \E s \in States : Call(s)
  PROVE  Kept'
<1>1. UNCHANGED InDisk /\ missed' = missed
  BY DEF InDisk, flashVars, sinkVars, DirectoriesFail, EnableAccess, ClaimFlash, MountFlash,
         MountFails, RetryInit, Reclaim, OpenInfo, CloseFlash, DisableAccess, Throws, Call
<1>2. /\ pc' \notin ScanSteps
      /\ pc \notin ScanSteps \/ "cut" \in fails'
  BY KindTypes, FailType, OpenWindowType, StepSets
  DEF DirectoriesFail, EnableAccess, ClaimFlash, MountFlash, MountFails, RetryInit, OpenInfo,
      CloseFlash, DisableAccess, Throws, Call, Return, Kept
<1>3. fails \subseteq fails'
  <2>1. CASE EnableAccess \/ DirectoriesFail \/ Throws \/ CloseFlash \/ \E s \in States : Call(s)
    BY <2>1, KindTypes, FailType
    DEF EnableAccess, DirectoriesFail, Throws, CloseFlash, Call, Kept
  <2>2. CASE ClaimFlash \/ OpenInfo
    BY <2>2, KindTypes, StopHsType, OpenWindowType DEF ClaimFlash, StartHs, OpenInfo, Kept
  <2>3. CASE MountFlash \/ MountFails
    BY <2>3, KindTypes, CloseWindowType DEF MountFlash, MountFails, Kept
  <2>4. CASE RetryInit \/ DisableAccess
    BY <2>4, ReclaimType, DisableTypes DEF RetryInit, Kept
  <2> QED BY <2>1, <2>2, <2>3, <2>4
<1> QED BY <1>1, <1>2, <1>3, OutsideKept, NotClean

LEMMA ReadInfoKept == ASSUME Kept, Types', ReadInfo PROVE Kept'
<1>1. /\ pc = "InfoAccess" /\ pc' = "Scan" /\ found' = FALSE
      /\ UNCHANGED InDisk
      /\ \/ info' = table /\ misread' = FALSE /\ CloseWindow({})
         \/ misread' = TRUE /\ CloseWindow({"table"})
  BY DEF ReadInfo, InDisk, flashVars, sinkVars
<1>2. fails \subseteq fails' /\ (misread' => "table" \in fails')
  BY <1>1, KindTypes, CloseWindowType DEF Kept
<1>3. /\ pc \notin ScanSteps /\ pc' \notin FileSteps /\ pc' \notin {"Save", "Log"}
  BY <1>1 DEF ScanSteps, FileSteps
<1>4. ~misread' => \A f \in Files : Copied(f)'
  BY <1>1 DEF Copied, InDisk
<1>5. Fetched'
  BY <1>1, <1>3, <1>4 DEF Kept, Fetched, InDisk
<1>6. Once'
  <2> SUFFICES ASSUME Clean' PROVE Once'
    BY DEF Once
  <2>1. Clean /\ ~misread' /\ info' = table
    BY <1>1, <1>2, CleanBefore, NotClean
  <2> QED BY <1>1, <1>3, <2>1 DEF Kept, Once, InDisk, Settled
<1> QED BY <1>5, <1>6 DEF Kept

LEMMA NextFileKept == ASSUME Kept, Types', NextFile PROVE Kept'
<1>1. UNCHANGED InDisk /\ UNCHANGED <<missed, info, misread, found, fails>>
  BY DEF NextFile, InDisk, flashVars, sinkVars
<1>2. pc = "Scan" /\ buf' = {}
  BY NextFileIs DEF Kept
<1>3. CASE pc' = "ReadFile"
  <2>1. i' \in Files /\ info[i'].valid /\ info[i'].pendingBMC
    BY <1>3, NextFileIs DEF Kept
  <2>2. ~torn /\ ~misread => table[i'].valid
    BY <1>2, <2>1 DEF Kept, Fetched, Copied, ScanSteps
  <2>3. Clean' => InHand'
    <3> SUFFICES ASSUME Clean PROVE InHand'
      BY <1>1 DEF Clean
    <3>1. Settled(info)
      BY <1>2 DEF Kept, Once, ScanSteps
    <3>2. content[i'] \notin logged
      BY <2>1, <3>1 DEF Settled
    <3> QED BY <1>1, <1>2, <3>2 DEF InHand, InDisk
  <2> QED BY <1>1, <1>2, <1>3, <2>2, <2>3, FileKept DEF ScanSteps
<1>4. CASE pc' = "WriteInfo"
  BY <1>1, <1>2, <1>4, ScanKept DEF ScanSteps, FileSteps
<1>5. CASE pc' = "Exit"
  BY <1>1, <1>5, NextFileIs, OutsideKept, StepSets DEF Kept
<1> QED BY <1>3, <1>4, <1>5, NextFileIs DEF Kept

LEMMA OpenFileKept == ASSUME Kept, Types', OpenFile PROVE Kept'
<1>1. /\ UNCHANGED InDisk /\ UNCHANGED <<missed, info, misread, found>>
      /\ pc' = "Scan" \/ (UNCHANGED <<i, buf>>)
  BY DEF OpenFile, InDisk, flashVars, sinkVars
<1>2. pc = "ReadFile" /\ pc' \in {"FileAccess", "Scan"} /\ fails \subseteq fails'
  BY KindTypes, OpenWindowType DEF OpenFile, Kept
<1>3. CASE pc' = "Scan"
  BY <1>1, <1>2, <1>3, ScanKept DEF ScanSteps, FileSteps
<1>4. CASE pc' = "FileAccess"
  <2>1. i' = i /\ buf' = buf
    BY <1>1, <1>4
  <2>2. Clean' => InHand'
    BY <1>1, <1>2, <2>1, CleanBefore DEF Kept, Once, InHand, InDisk, FileSteps
  <2>3. /\ content[i] \in missed \/ buf \subseteq {content[i]}
        /\ ~torn /\ ~misread => table[i].valid
    BY <1>2 DEF Kept, Fetched, FileSteps
  <2> QED BY <1>1, <1>2, <1>4, <2>1, <2>2, <2>3, FileKept DEF ScanSteps
<1> QED BY <1>2, <1>3, <1>4

LEMMA ReadFileKept == ASSUME Kept, Types', ReadFile PROVE Kept'
<1>1. /\ UNCHANGED InDisk /\ UNCHANGED <<info, misread, found, i>>
      /\ pc = "FileAccess" /\ pc' \in {"ReadFile", "Save"}
      /\ \/ buf' = buf \cup {content[i]} /\ missed' = missed
         \/ buf' = buf \cup {content[i], None} /\ missed' = missed \cup ({content[i]} \ {None})
      /\ CloseWindow({})
  BY DEF ReadFile, Miss, InDisk, flashVars
<1>2. fails \subseteq fails'
  BY <1>1, KindTypes, CloseWindowType DEF Kept
<1>3. /\ content[i] \in missed \/ buf \subseteq {content[i]}
      /\ ~torn /\ ~misread => table[i].valid
      /\ i \in Files /\ content[i] \in Records \cup {None}
  BY <1>1, BertAssumption DEF Kept, Fetched, FileSteps, Types, TypeOK, Progress, Files
<1>4. content[i] \in missed' \/ buf' = {content[i]}
  BY <1>1, <1>3
<1>5. Clean' => InHand'
  <2> SUFFICES ASSUME Clean' PROVE InHand'
    OBVIOUS
  <2>1. /\ InHand /\ content[i] <= written /\ logged \subseteq Records
        /\ \A g \in Files : content[i] = content[g] /\ content[i] # None => g = i
    BY <1>1, <1>2, <1>3, CleanBefore DEF Kept, Once, FileSteps, Types, TypeOK
  <2>2. content[i] \in 0..written /\ None \in 0..written /\ None \notin logged
    BY <1>3, <2>1, BertAssumption DEF Kept, Types, TypeOK, Records, None
  <2> QED BY <1>1, <1>3, <2>1, <2>2 DEF InHand, InDisk
<1>6. pc \in ScanSteps \ {"Log"} /\ pc' \in {"ReadFile", "FileAccess", "Save"}
      /\ missed \subseteq missed' /\ i' = i
  BY <1>1 DEF ScanSteps
<1> QED BY <1>1, <1>2, <1>3, <1>4, <1>5, <1>6, FileKept

\* A file is given up.
LEMMA SkipKept == ASSUME Kept, Types', ReadFails \/ SaveFails PROVE Kept'
<1>1. /\ UNCHANGED InDisk /\ UNCHANGED <<missed, info, misread, found>>
      /\ \/ pc = "InfoAccess" /\ pc' = "Exit"
         \/ pc \in {"FileAccess", "Save"} /\ pc' = "Scan"
      /\ StopHs({"io"}) \/ Fail("io")
  BY DEF ReadFails, SaveFails, SkipFile, InDisk, flashVars, sinkVars
<1>2. fails \subseteq fails'
  BY <1>1, KindTypes, StopHsType, FailType DEF Kept
<1>3. CASE pc' = "Exit"
  BY <1>1, <1>2, <1>3, OutsideKept, StepSets
<1>4. CASE pc' = "Scan"
  BY <1>1, <1>2, <1>4, ScanKept DEF ScanSteps, FileSteps
<1> QED BY <1>1, <1>3, <1>4

LEMMA SaveKept == ASSUME Kept, Types', SaveDump PROVE Kept'
<1>1. /\ pc = "Save" /\ pc' = "Log"
      /\ info' = [info EXCEPT ![i].pendingBMC = FALSE]
      /\ saved \subseteq saved' /\ missed \subseteq missed'
      /\ Whole(buf) \subseteq saved' \/ buf \ {None} \subseteq missed'
      /\ UNCHANGED <<table, torn, content, written, misread, i, buf, found, logged, fails>>
  BY DEF SaveDump, flashVars, Miss
<1>2. pc \in ScanSteps /\ pc' \in ScanSteps /\ pc \in FileSteps /\ pc' \in FileSteps
  BY <1>1 DEF ScanSteps, FileSteps
<1>3. i \in Files
  BY <1>1, BertAssumption DEF Kept, Types, TypeOK, Progress, Files
<1>4. content[i] \in missed \/ buf = {content[i]}
  BY <1>1 DEF Kept, Fetched
<1>5. ~torn /\ ~misread => content[i] \in missed' \/ content[i] \in saved'
  <2> SUFFICES ASSUME ~torn, ~misread, buf = {content[i]}
               PROVE  content[i] \in missed' \/ content[i] \in saved'
    BY <1>1, <1>4
  <2>1. content[i] \in Records
    BY <1>2, <1>3 DEF Kept, Fetched
  <2>2. content[i] # None
    BY <2>1, BertAssumption DEF Records, None
  <2>3. content[i] \in Whole(buf)
    BY DEF Whole
  <2> QED BY <1>1, <2>2, <2>3
<1>6. \A f \in Files : /\ info'[f].valid = info[f].valid
                       /\ info'[f].pendingBMC => info[f].pendingBMC
                       /\ f # i => info'[f] = info[f]
                       /\ f = i => ~info'[f].pendingBMC
  BY <1>1, <1>3 DEF Kept, Types, TypeOK, Row
<1>7. ASSUME NEW f \in Files, ~torn, ~misread, Copied(f) PROVE Copied(f)'
  <2>1. CASE f = i
    BY <1>1, <1>5, <1>6, <1>7, <2>1 DEF Copied
  <2>2. CASE f # i
    BY <1>1, <1>6, <1>7, <2>2 DEF Copied
  <2> QED BY <2>1, <2>2
<1>8. Fetched'
  BY <1>1, <1>2, <1>4, <1>7 DEF Kept, Fetched
<1>9. Settled(info) => Settled(info)'
  BY <1>1, <1>6 DEF Settled
<1>10. Once'
  BY <1>1, <1>2, <1>3, <1>6, <1>9 DEF Kept, Once, Settled, InHand, Clean
<1> QED BY <1>8, <1>10 DEF Kept

LEMMA LogKept == ASSUME Kept, Types', LogRecord PROVE Kept'
<1>1. /\ pc = "Log" /\ pc' = "Scan" /\ found' = TRUE
      /\ \/ logged' = logged \cup (buf \ {None}) /\ missed' = missed
         \/ logged' = logged /\ missed' = missed \cup (buf \ {None})
      /\ UNCHANGED <<table, torn, content, written, info, misread, saved, fails>>
  BY DEF LogRecord, SkipFile, Miss, flashVars
<1>2. /\ pc \in ScanSteps /\ pc' \in ScanSteps /\ pc \in FileSteps /\ pc' \notin FileSteps
      /\ pc' \notin {"Save", "Log"}
  BY <1>1 DEF ScanSteps, FileSteps
<1>3. i \in Files /\ (content[i] \in missed \/ buf = {content[i]})
  BY <1>1, BertAssumption DEF Kept, Fetched, Types, TypeOK, Progress, Files
<1>4. ASSUME ~torn, ~misread PROVE content[i] \in missed' \/ content[i] \in logged'
  <2>1. content[i] \in Records
    BY <1>2, <1>3, <1>4 DEF Kept, Fetched
  <2>2. content[i] # None
    BY <2>1, BertAssumption DEF Records, None
  <2> QED BY <1>1, <1>3, <2>2
<1>5. ASSUME NEW f \in Files, ~torn, ~misread, Copied(f) PROVE Copied(f)'
  <2>1. missed \subseteq missed' /\ logged \subseteq logged'
    BY <1>1
  <2> QED BY <1>1, <1>4, <1>5, <2>1 DEF Copied
<1>6. Fetched'
  BY <1>1, <1>2, <1>5 DEF Kept, Fetched
<1>7. Once'
  <2> SUFFICES ASSUME Clean PROVE Once'
    BY <1>1 DEF Once, Clean
  <2>1. InHand /\ Settled(info) /\ ~info[i].pendingBMC /\ ~misread
    BY <1>1, <1>2 DEF Kept, Once
  <2>2. logged' \subseteq logged \cup (buf \ {None})
    BY <1>1
  <2>3. logged' \subseteq 0..written
    BY <2>1, <2>2 DEF Kept, Once, InHand
  <2>4. Settled(info)'
    BY <1>1, <2>1, <2>2 DEF Settled, InHand
  <2> QED BY <1>1, <1>2, <2>1, <2>3, <2>4 DEF Kept, Once
<1> QED BY <1>6, <1>7 DEF Kept

LEMMA OpenTableKept == ASSUME Kept, Types', OpenTable PROVE Kept'
<1>1. UNCHANGED InDisk /\ UNCHANGED <<missed, info, misread, found>>
  BY DEF OpenTable, InDisk, flashVars, fileVars, sinkVars
<1>2. /\ pc = "WriteInfo" /\ fails \subseteq fails'
      /\ pc' = "WriteAccess" \/ (pc' = "Exit" /\ "table" \in fails')
  BY KindTypes, OpenWindowType DEF OpenTable, Kept, OpenWindow, Types, TypeOK, States
<1>3. CASE pc' = "WriteAccess"
  BY <1>1, <1>2, <1>3, ScanKept DEF ScanSteps, FileSteps
<1>4. CASE pc' = "Exit" /\ "table" \in fails'
  BY <1>1, <1>2, <1>4, OutsideKept, StepSets, NotClean
<1> QED BY <1>2, <1>3, <1>4

LEMMA WriteKept == ASSUME Kept, Types', WriteInfo \/ WriteFails \/ Crash PROVE Kept'
<1>1. /\ pc' \notin ScanSteps /\ pc' \notin FileSteps /\ pc' \notin {"Save", "Log"}
      /\ UNCHANGED <<content, written, saved, logged, missed>>
  <2>1. pc' \in {"Exit", "Idle"}
    BY DEF WriteInfo, WriteFails, Crash, Return
  <2> QED BY <2>1, StepSets DEF WriteInfo, WriteFails, Crash, sinkVars
<1>2. CASE WriteInfo /\ Becomes(info, torn \/ misread) /\ CloseWindow({})
  <2>1. pc \in ScanSteps /\ fails \subseteq fails'
    BY <1>2, KindTypes, CloseWindowType DEF WriteInfo, ScanSteps, Kept
  <2>2. ~torn' => ~torn /\ ~misread /\ table' = info
    BY <1>2 DEF Becomes
  <2>3. Fetched'
    BY <1>1, <2>1, <2>2 DEF Kept, Fetched, Copied
  <2>4. Once'
    <3> SUFFICES ASSUME Clean' PROVE Once'
      BY DEF Once
    <3>1. Clean /\ ~torn /\ ~misread
      BY <2>1, CleanBefore DEF Kept, Once
    <3>2. ~torn' /\ table' = info
      BY <1>2, <3>1 DEF Becomes
    <3> QED BY <1>1, <2>1, <3>1, <3>2 DEF Kept, Once, Settled
  <2> QED BY <2>3, <2>4 DEF Kept
<1>3. CASE /\ \E t \in BOOLEAN : Becomes(table, t) /\ (torn => t)
           /\ WriteFails \/ Crash
  <2>1. ~torn' => ~torn /\ table' = table
    BY <1>3 DEF Becomes
  <2>2. ~Clean'
    BY <1>3, KindTypes, StopHsType, FailType, NotClean DEF WriteFails, Crash, Kept
  <2>3. Fetched'
    BY <1>1, <2>1 DEF Kept, Fetched
  <2> QED BY <2>2, <2>3 DEF Kept, Once
<1>4. CASE WriteInfo /\ Becomes(info, TRUE) /\ CloseWindow({"table"})
  <2>1. torn'
    BY <1>4 DEF Becomes
  <2>2. ~Clean'
    BY <1>4, KindTypes, CloseWindowType, NotClean DEF Kept
  <2>3. Fetched'
    BY <1>1, <2>1 DEF Fetched
  <2> QED BY <2>2, <2>3 DEF Kept, Once
<1>5. WriteFails \/ Crash => \E t \in BOOLEAN : Becomes(table, t) /\ (torn => t)
  <2>1. torn \in BOOLEAN
    BY DEF Kept, Types, TypeOK
  <2> QED BY <2>1 DEF WriteFails, Crash
<1> QED BY <1>2, <1>3, <1>4, <1>5 DEF WriteInfo

\* What the host leaves while a pass goes by the table it has read is missed.
LEMMA HostDoes ==
  ASSUME Types, NEW f \in Files, HostWrites(f)
  PROVE  /\ content'[f] = written + 1 /\ written' = written + 1
         /\ written \in Nat /\ written + 1 \in Records /\ written + 1 \notin 0..written
         /\ \A g \in Files : g # f => content'[g] = content[g]
         /\ torn' = torn
         /\ ~torn => /\ table'[f].valid /\ table'[f].pendingBMC
                     /\ \A g \in Files : g # f => table'[g] = table[g]
         /\ missed \subseteq missed'
         /\ missed' # missed => pc # "Idle" /\ missed' = missed \cup {written + 1}
         /\ pc \in ScanSteps => written + 1 \in missed'
<1>1. /\ pc = "Idle" \/ pc \notin AccessSteps
      /\ written < MaxRec /\ written' = written + 1
      /\ content' = [content EXCEPT ![f] = written + 1]
      /\ Becomes([table EXCEPT ![f] = [valid |-> TRUE, pendingBMC |-> TRUE]], torn)
      /\ Miss(IF pc \in TableHeld THEN {written + 1} ELSE {})
  BY DEF HostWrites
<1>2. written \in Nat /\ written + 1 \in Records /\ written + 1 \notin 0..written
      /\ written + 1 # None
  BY <1>1, BertAssumption DEF Types, TypeOK, Records, None
<1>3. content'[f] = written + 1 /\ \A g \in Files : g # f => content'[g] = content[g]
  BY <1>1 DEF Types, TypeOK
<1>4. /\ torn' = torn
      /\ ~torn => /\ table'[f].valid /\ table'[f].pendingBMC
                  /\ \A g \in Files : g # f => table'[g] = table[g]
  BY <1>1 DEF Becomes, Types, TypeOK
<1>5. missed' = missed \cup (IF pc \in TableHeld THEN {written + 1} ELSE {})
  BY <1>1, <1>2 DEF Miss
<1>6. pc \in ScanSteps => pc \in TableHeld
  BY <1>1, StepSets
<1>7. pc \in TableHeld => pc # "Idle"
  BY StepSets
<1> QED BY <1>1, <1>2, <1>3, <1>4, <1>5, <1>6, <1>7

LEMMA HostKept ==
  ASSUME Kept, Types', NEW f \in Files, HostWrites(f)
  PROVE  Kept'
<1>1. UNCHANGED <<pc, info, misread, i, buf, found, saved, logged, fails>>
  BY DEF HostWrites, fileVars
<1>2. Types /\ (pc \in FileSteps => i \in Files /\ pc \in ScanSteps)
  BY StepSets, BertAssumption DEF Kept, Types, TypeOK, Progress, FileSteps, Files
<1>3. ASSUME NEW g \in Files, pc \in ScanSteps, ~torn, Copied(g) PROVE Copied(g)'
  <2>1. CASE g = f
    BY <1>1, <1>2, <1>3, <2>1, HostDoes DEF Copied
  <2>2. CASE g # f
    <3>1. content'[g] = content[g] /\ table'[g] = table[g] /\ missed \subseteq missed'
      BY <1>2, <1>3, <2>2, HostDoes
    <3> QED BY <1>1, <1>3, <3>1 DEF Copied
  <2> QED BY <2>1, <2>2
<1>4. ~torn' => \A g \in Files : table'[g].valid => content'[g] \in Records
  BY <1>2, HostDoes DEF Kept, Fetched
<1>5. ASSUME pc \in FileSteps
      PROVE  /\ content'[i] \in missed' \/ (content'[i] = content[i] /\ missed \subseteq missed')
             /\ ~torn /\ table[i].valid => table'[i].valid
  BY <1>2, <1>5, HostDoes
<1>6. Fetched'
  <2>1. pc \in FileSteps => content'[i] \in missed' \/ buf \subseteq {content'[i]}
    BY <1>5 DEF Kept, Fetched
  <2>2. pc \in {"Save", "Log"} => content'[i] \in missed' \/ buf = {content'[i]}
    BY <1>5, StepSets DEF Kept, Fetched
  <2>3. pc \in FileSteps /\ ~torn /\ ~misread => table'[i].valid
    BY <1>5 DEF Kept, Fetched
  <2>4. pc \in ScanSteps /\ ~torn /\ ~misread => \A g \in Files : Copied(g)'
    BY <1>3 DEF Kept, Fetched
  <2>5. torn' = torn
    BY <1>2, HostDoes
  <2> QED BY <1>1, <1>4, <2>1, <2>2, <2>3, <2>4, <2>5 DEF Fetched
<1>7. ASSUME Clean PROVE Once'
  <2>1. /\ \A g \in Files : content[g] <= written /\ content[g] \in Nat
        /\ \A g, h \in Files : content[g] = content[h] /\ content[g] # None => g = h
        /\ logged \subseteq 0..written /\ ~torn
    BY <1>7 DEF Kept, Once, Types, TypeOK, Records, None
  <2>2. \A g \in Files : g # f => content'[g] = content[g] /\ content'[g] # written + 1
    BY <1>2, <2>1, HostDoes
  <2>3. /\ \A g \in Files : content'[g] <= written'
        /\ \A g, h \in Files : content'[g] = content'[h] /\ content'[g] # None => g = h
        /\ logged' \subseteq 0..written'
    BY <1>1, <1>2, <2>1, <2>2, HostDoes
  <2>4. content'[f] \notin logged
    BY <1>2, <2>1, HostDoes
  <2>5. Settled(info) => Settled(info)'
    BY <1>1, <2>2, <2>4 DEF Settled
  <2>6. Settled(table) => Settled(table)'
    BY <1>1, <1>2, <2>1, <2>2, <2>4, HostDoes DEF Settled
  <2>7. pc \in FileSteps => InHand'
    <3> SUFFICES ASSUME pc \in FileSteps PROVE InHand'
      OBVIOUS
    <3>1. InHand
      BY <1>7 DEF Kept, Once
    <3>2. content'[f] \notin buf /\ buf \subseteq 0..written'
      BY <1>2, <3>1, HostDoes DEF InHand
    <3>3. content'[i] \notin logged
      BY <1>2, <2>2, <2>4, <3>1 DEF InHand
    <3> QED BY <1>1, <2>2, <3>1, <3>2, <3>3 DEF InHand
  <2> QED BY <1>1, <1>2, <1>7, <2>3, <2>5, <2>6, <2>7, HostDoes DEF Kept, Once
<1>8. Once'
  BY <1>1, <1>7 DEF Once, Clean
<1> QED BY <1>6, <1>8 DEF Kept

LEMMA StepKept == ASSUME Kept, [Next]_vars PROVE Kept'
<1>1. Types'
  BY StepTypes DEF Kept
<1>2. CASE UNCHANGED vars
  BY <1>1, <1>2 DEF vars, Kept, Fetched, Copied, Once, Settled, InHand, Clean
<1>3. CASE Step
  BY <1>1, <1>3, BeforeKept, ReadInfoKept, NextFileKept, OpenFileKept, ReadFileKept, SkipKept,
     SaveKept, LogKept, OpenTableKept, WriteKept DEF Step
<1> QED BY <1>1, <1>2, <1>3, BeforeKept, WriteKept, HostKept DEF Next

\* As long as latest.ras is read and written back whole, no record is logged
\* again that an earlier pass logged, whatever else fails, host on or off, and
\* whatever the host writes meanwhile (bertHandler, addBertSELLog).
THEOREM NoRecordTwice == Spec => []LoggedOnce
<1>1. Kept => LoggedOnce
  BY StepSets DEF Kept, Once, LoggedOnce, InHand, Clean
<1>2. Kept /\ [Next]_vars => Kept'
  BY StepKept
<1> QED BY <1>1, <1>2, InitKept, PTL DEF Spec

-------------------------------------------------------------------------------
\* A step that neither writes the table nor leaves a record takes nothing away
\* from what the marks stand for.
LEMMA FlagStays ==
  ASSUME ClearedAccounted, ~torn' => ~torn /\ table' = table, UNCHANGED content,
         saved \subseteq saved', logged \subseteq logged', missed \subseteq missed'
  PROVE  ClearedAccounted'
BY DEF ClearedAccounted

LEMMA WriteFlag ==
  ASSUME Kept, ClearedAccounted, WriteInfo
  PROVE  ClearedAccounted'
<1>1. /\ pc = "WriteAccess" /\ UNCHANGED <<content, saved, logged, missed>>
      /\ ~torn' => ~torn /\ ~misread /\ table' = info
  BY DEF WriteInfo, Becomes, sinkVars
<1>2. ~torn /\ ~misread => \A f \in Files : Copied(f)
  BY <1>1 DEF Kept, Fetched, ScanSteps
<1>3. ASSUME NEW f \in Files, ~torn, ~misread, info[f].valid, ~info[f].pendingBMC
      PROVE  content[f] \in (saved \cap logged) \cup missed
  <2>1. Copied(f)
    BY <1>2, <1>3
  <2> QED BY <1>1, <1>3, <2>1 DEF Copied, ClearedAccounted
<1> QED BY <1>1, <1>3 DEF ClearedAccounted

LEMMA HostFlag ==
  ASSUME Kept, ClearedAccounted, NEW f \in Files, HostWrites(f)
  PROVE  ClearedAccounted'
<1>1. UNCHANGED <<saved, logged>>
  BY DEF HostWrites
<1>2. Types
  BY DEF Kept
<1>3. ASSUME NEW g \in Files, ~torn', table'[g].valid, ~table'[g].pendingBMC
      PROVE  content'[g] \in (saved \cap logged) \cup missed'
  <2>1. ~torn /\ g # f /\ table'[g] = table[g] /\ content'[g] = content[g]
        /\ missed \subseteq missed'
    BY <1>2, <1>3, HostDoes
  <2> QED BY <1>3, <2>1 DEF ClearedAccounted
<1> QED BY <1>1, <1>3 DEF ClearedAccounted

\* A write of the table that fails, or is cut short.
LEMMA BreakDoes ==
  ASSUME Types, WriteFails \/ Crash
  PROVE  /\ torn \in BOOLEAN
         /\ torn' = torn \/ (torn' = TRUE /\ pc # "Idle")
         /\ ~torn' => ~torn /\ table' = table
         /\ UNCHANGED <<state, content, saved, logged, missed>>
<1>1. torn \in BOOLEAN
  BY DEF Types, TypeOK
<1>2. UNCHANGED <<state, content, saved, logged, missed>>
  BY DEF WriteFails, Crash, sinkVars
<1>3. PICK t \in BOOLEAN :
        /\ torn' = t /\ table' = (IF t THEN NoRows ELSE table)
        /\ t = torn \/ (t = TRUE /\ pc # "Idle")
  <2>1. CASE WriteFails
    <3>1. pc # "Idle"
      BY <2>1 DEF WriteFails
    <3>2. PICK t \in {torn, TRUE} : Becomes(table, t)
      BY <2>1 DEF WriteFails
    <3>3. t \in BOOLEAN /\ (t = torn \/ t = TRUE)
      BY <1>1, <3>2
    <3>4. torn' = t /\ table' = (IF t THEN NoRows ELSE table)
      BY <3>2 DEF Becomes
    <3> QED BY <3>1, <3>3, <3>4
  <2>2. CASE Crash
    BY <1>1, <2>2 DEF Crash, Becomes
  <2> QED BY <2>1, <2>2
<1> QED BY <1>1, <1>2, <1>3

LEMMA StepFlag ==
  ASSUME Kept, ClearedAccounted, [Next]_vars
  PROVE  ClearedAccounted'
<1>1. CASE UNCHANGED vars
  BY <1>1, FlagStays DEF vars
<1>2. CASE \E s \in States : Call(s)
  BY <1>2, FlagStays DEF Call, flashVars, sinkVars
<1>3. CASE Crash \/ WriteFails
  <2>1. /\ ~torn' => ~torn /\ table' = table
        /\ UNCHANGED <<content, saved, logged, missed>>
    BY <1>3, BreakDoes DEF Kept
  <2> QED BY <2>1, FlagStays
<1>4. CASE SaveDump \/ LogRecord \/ ReadFile
  <2>1. UNCHANGED <<table, content, torn>> /\ saved \subseteq saved' /\ logged \subseteq logged'
        /\ missed \subseteq missed'
    BY <1>4 DEF SaveDump, LogRecord, ReadFile, Miss, flashVars
  <2> QED BY <2>1, FlagStays
<1>5. CASE WriteInfo
  BY <1>5, WriteFlag
<1>6. CASE \/ DirectoriesFail \/ EnableAccess \/ ClaimFlash \/ MountFlash \/ MountFails
           \/ RetryInit \/ OpenInfo \/ ReadInfo \/ NextFile \/ OpenFile
           \/ ReadFails \/ SaveFails \/ Throws \/ OpenTable \/ CloseFlash \/ DisableAccess
  <2>1. UNCHANGED <<table, content, torn, saved, logged, missed>>
    BY <1>6
    DEF DirectoriesFail, EnableAccess, ClaimFlash, MountFlash, MountFails, RetryInit, Reclaim,
        OpenInfo, ReadInfo, NextFile, OpenFile, ReadFails, SaveFails, Throws,
        OpenTable, CloseFlash, DisableAccess, flashVars, sinkVars
  <2> QED BY <2>1, FlagStays
<1> QED BY <1>1, <1>2, <1>3, <1>4, <1>5, <1>6, HostFlag DEF Next, Step

\* A record whose mark is gone from a table that holds was copied and logged, or
\* is one of those the code loses without a word: left by the host while the pass
\* went by an older table, read short, or refused by a sink (bertHandler;
\* bert_host shows that such records are there).
THEOREM ClearedMeansAccounted == Spec => []ClearedAccounted
<1>1. Init => ClearedAccounted
  BY DEF Init, NoRows, ClearedAccounted
<1>2. Kept /\ [Next]_vars => Kept'
  BY StepKept
<1>3. Kept /\ ClearedAccounted /\ [Next]_vars => ClearedAccounted'
  BY StepFlag
<1> QED BY <1>1, <1>2, <1>3, InitKept, PTL DEF Spec

-------------------------------------------------------------------------------
(* The promise of BertPass.                                                 *)

Marked == IF torn THEN {}
          ELSE {content[f] : f \in {g \in Files : table[g].valid /\ table[g].pendingBMC}}

Delivered == saved \cap logged

InPass == pc # "Idle"

LEMMA InitPasses == Init => Pass!Init
<1> SUFFICES ASSUME Init PROVE Pass!Init
  OBVIOUS
<1>1. {g \in Files : table[g].valid /\ table[g].pendingBMC} = {}
  BY DEF Init, NoRows
<1>2. {content[f] : f \in {g \in Files : table[g].valid /\ table[g].pendingBMC}} = {}
  BY <1>1
<1> QED BY <1>2 DEF Init, Pass!Init

\* A pass that begins, goes on unseen, or ends.
LEMMA QuietPasses ==
  ASSUME UNCHANGED <<Marked, torn, saved, logged, missed>>,
         \/ state' = state /\ (pc = "Idle" => pc' = "Idle")
         \/ pc = "Idle" /\ pc' # "Idle" /\ state' \in States
  PROVE  [Pass!Next]_(Pass!passVars)
<1>1. UNCHANGED <<Marked, Delivered, missed, torn>>
  BY DEF Delivered
<1>2. CASE state' = state /\ (InPass <=> InPass')
  BY <1>1, <1>2 DEF Pass!passVars, Marked, Delivered, InPass
<1>3. CASE state' = state /\ InPass /\ ~InPass'
  BY <1>1, <1>3 DEF Pass!Next, Pass!Return, Marked, Delivered, InPass
<1>4. CASE ~InPass /\ InPass' /\ state' \in States
  BY <1>1, <1>4 DEF Pass!Next, Pass!Call, Pass!Modes, States, Marked, Delivered, InPass
<1> QED BY <1>2, <1>3, <1>4 DEF InPass

\* A record is saved or logged.
LEMMA DeliverPasses ==
  ASSUME Kept, pc # "Idle", pc' # "Idle", UNCHANGED <<state, table, torn, content, missed>>,
         saved \subseteq saved', logged \subseteq logged', Types'
  PROVE  Pass!Next
<1> DEFINE R == Delivered' \ Delivered
<1>1. Delivered' = Delivered \cup R
  BY DEF Delivered
<1>2. R \in SUBSET Records
  BY DEF Delivered, Types, TypeOK
<1>3. UNCHANGED <<Marked, torn, missed>>
  BY DEF Marked
<1> HIDE DEF R
<1>4. Pass!Deliver
  BY <1>1, <1>2, <1>3 DEF Pass!Deliver, Marked, Delivered
<1> QED BY <1>4 DEF Pass!Next, Pass!Work

\* A record goes astray.
LEMMA MissPasses ==
  ASSUME Types', pc # "Idle", pc' # "Idle", UNCHANGED <<state, Marked, torn, saved, logged>>,
         missed \subseteq missed'
  PROVE  Pass!Next
<1> DEFINE R == missed' \ missed
<1>1. missed' = missed \cup R /\ R \in SUBSET Records
  BY DEF Types, TypeOK
<1> HIDE DEF R
<1>2. Pass!Miss
  BY <1>1 DEF Pass!Miss, Marked
<1> QED BY <1>2 DEF Pass!Next, Pass!Work

\* Only records that were saved and logged, or missed, lose their marks in the
\* flash, unless the whole table goes.
LEMMA WriteInfoPasses ==
  ASSUME Kept, WriteInfo
  PROVE  [Pass!Next]_(Pass!passVars)
<1>1. /\ pc = "WriteAccess" /\ pc' = "Exit"
      /\ UNCHANGED <<state, content, saved, logged, missed>>
      /\ \/ torn' = (torn \/ misread) /\ (~torn' => table' = info)
         \/ torn' = TRUE
      /\ torn \in BOOLEAN
  BY DEF WriteInfo, Becomes, sinkVars, Kept, Types, TypeOK
<1>2. UNCHANGED Delivered /\ InPass /\ InPass'
  BY <1>1 DEF Delivered, InPass
<1>3. CASE torn
  <2>1. UNCHANGED <<Marked, torn>>
    BY <1>1, <1>3 DEF Marked
  <2> QED BY <1>1, <2>1, QuietPasses
<1>4. CASE ~torn /\ ~torn'
  <2> DEFINE R == Marked \ Marked'
  <2>1. ~misread /\ table' = info /\ \A f \in Files : Copied(f)
    BY <1>1, <1>4 DEF Kept, Fetched, ScanSteps
  <2>2. Marked' = {content[f] : f \in {g \in Files : info[g].valid /\ info[g].pendingBMC}}
    BY <1>1, <1>4, <2>1 DEF Marked
  <2>3. Marked = {content[f] : f \in {g \in Files : table[g].valid /\ table[g].pendingBMC}}
    BY <1>4 DEF Marked
  <2>4. Marked' \subseteq Marked
    BY <2>1, <2>2, <2>3 DEF Copied
  <2>5. R \subseteq Delivered \cup missed
    <3> SUFFICES ASSUME NEW r \in R PROVE r \in Delivered \cup missed
      OBVIOUS
    <3>1. PICK f \in Files : r = content[f] /\ table[f].valid /\ table[f].pendingBMC
      BY <2>3
    <3>2. Copied(f) /\ info[f] # table[f]
      BY <2>1, <2>2, <3>1
    <3> QED BY <1>1, <3>1, <3>2 DEF Copied, Delivered
  <2>6. R \in SUBSET (Marked \cap (Delivered \cup missed)) /\ Marked' = Marked \ R
    BY <2>4, <2>5
  <2> HIDE DEF R
  <2>7. UNCHANGED torn
    BY <1>1, <1>4
  <2>8. Pass!Acknowledge
    BY <1>1, <1>2, <2>6, <2>7 DEF Pass!Acknowledge, Marked, Delivered, InPass
  <2> QED BY <2>8 DEF Pass!Next, Pass!Work
<1>5. CASE ~torn /\ torn'
  <2>1. Marked' = {} /\ torn' = TRUE
    BY <1>1, <1>5 DEF Marked, Kept, Types, TypeOK
  <2>2. Pass!BreakTable
    BY <1>1, <1>2, <2>1 DEF Pass!BreakTable, Marked, Delivered, InPass
  <2> QED BY <2>2 DEF Pass!Next, Pass!Work
<1> QED BY <1>3, <1>4, <1>5

\* The table breaks, or the daemon dies.
LEMMA BreakPasses ==
  ASSUME Kept, WriteFails \/ Crash
  PROVE  [Pass!Next]_(Pass!passVars)
<1>1. /\ UNCHANGED <<state, content, saved, logged, missed>> /\ torn \in BOOLEAN
      /\ torn' = torn \/ (torn' = TRUE /\ InPass)
      /\ ~torn' => table' = table
      /\ InPass' => InPass
  <2>1. InPass' => InPass
    BY DEF WriteFails, Crash, Return, InPass
  <2> QED BY <2>1, BreakDoes DEF InPass, Kept
<1>2. CASE torn' = torn
  <2>1. UNCHANGED <<Marked, torn>>
    BY <1>1, <1>2 DEF Marked
  <2> QED BY <1>1, <2>1, QuietPasses DEF InPass
<1>3. CASE torn' = TRUE /\ InPass
  <2>1. Marked' = {} /\ UNCHANGED Delivered
    BY <1>1, <1>3 DEF Marked, Delivered
  <2>2. CASE InPass'
    <3>1. Pass!BreakTable
      BY <1>1, <1>3, <2>1, <2>2 DEF Pass!BreakTable, Marked, Delivered, InPass
    <3> QED BY <3>1 DEF Pass!Next, Pass!Work
  <2>3. CASE ~InPass'
    <3>1. Pass!Crash
      BY <1>1, <1>3, <2>1, <2>3 DEF Pass!Crash, Marked, Delivered, InPass
    <3> QED BY <3>1 DEF Pass!Next
  <2> QED BY <2>2, <2>3
<1> QED BY <1>1, <1>2, <1>3

\* The host leaves a record and its mark.
LEMMA HostPasses ==
  ASSUME Kept, Types', NEW f \in Files, HostWrites(f)
  PROVE  [Pass!Next]_(Pass!passVars)
<1>1. Types /\ torn' = torn /\ UNCHANGED <<pc, state, saved, logged>>
  BY HostDoes DEF HostWrites, Kept
<1>2. UNCHANGED Delivered
  BY <1>1 DEF Delivered
<1>3. CASE torn
  <2>1. UNCHANGED Marked
    BY <1>1, <1>3 DEF Marked
  <2>2. CASE missed' = missed
    BY <1>1, <2>1, <2>2, QuietPasses
  <2>3. CASE missed' # missed
    <3>1. pc # "Idle" /\ missed \subseteq missed'
      BY <1>1, <2>3, HostDoes
    <3> QED BY <1>1, <2>1, <3>1, MissPasses
  <2> QED BY <2>2, <2>3
<1>4. CASE ~torn
  <2> DEFINE r == written + 1
             old == Marked \ Marked'
  <2>1. r \in Records /\ missed' \in {missed, IF InPass THEN missed \cup {r} ELSE missed}
    BY <1>1, HostDoes DEF InPass
  <2>2. /\ content'[f] = r /\ table'[f].valid /\ table'[f].pendingBMC
        /\ \A g \in Files : g # f => content'[g] = content[g] /\ table'[g] = table[g]
    BY <1>1, <1>4, HostDoes
  <2>3. Marked' = {content'[g] : g \in {h \in Files : table'[h].valid /\ table'[h].pendingBMC}}
    BY <1>1, <1>4 DEF Marked
  <2>4. Marked = {content[g] : g \in {h \in Files : table[h].valid /\ table[h].pendingBMC}}
    BY <1>4 DEF Marked
  <2>5. r \in Marked' /\ Marked' \subseteq Marked \cup {r}
    BY <2>2, <2>3, <2>4
  <2>6. Marked' = (Marked \ old) \cup {r} /\ old \in SUBSET Marked
    BY <2>5
  <2> HIDE DEF r, old
  <2>7. Pass!HostWrites
    BY <1>1, <1>2, <2>1, <2>6 DEF Pass!HostWrites, Marked, Delivered, InPass
  <2> QED BY <2>7 DEF Pass!Next
<1> QED BY <1>3, <1>4

LEMMA StepPasses ==
  ASSUME Kept, Types', [Next]_vars
  PROVE  [Pass!Next]_(Pass!passVars)
<1>1. CASE SaveDump \/ LogRecord \/ ReadFile
  <2>1. /\ pc # "Idle" /\ pc' # "Idle" /\ UNCHANGED <<state, table, torn, content>>
    BY <1>1 DEF SaveDump, LogRecord, ReadFile, SkipFile, flashVars
  <2>2. \/ saved \subseteq saved' /\ logged \subseteq logged' /\ missed' = missed
        \/ UNCHANGED <<saved, logged>> /\ missed \subseteq missed'
    BY <1>1 DEF SaveDump, LogRecord, ReadFile, Miss
  <2>3. UNCHANGED Marked
    BY <2>1 DEF Marked
  <2> QED BY <2>1, <2>2, <2>3, DeliverPasses, MissPasses
<1>2. CASE WriteInfo \/ WriteFails \/ Crash \/ \E f \in Files : HostWrites(f)
  BY <1>2, WriteInfoPasses, BreakPasses, HostPasses
<1>3. CASE UNCHANGED vars
  BY <1>3, QuietPasses DEF vars, Marked
<1>4. CASE \E s \in States : Call(s)
  <2>1. /\ pc = "Idle" /\ pc' # "Idle" /\ state' \in States
        /\ UNCHANGED <<table, torn, content, saved, logged, missed>>
    BY <1>4 DEF Call, flashVars, sinkVars
  <2> QED BY <2>1, QuietPasses DEF Marked
<1>5. CASE \/ DirectoriesFail \/ EnableAccess \/ ClaimFlash \/ MountFlash \/ MountFails
           \/ RetryInit \/ OpenInfo \/ ReadInfo \/ NextFile \/ OpenFile \/ ReadFails
           \/ SaveFails \/ Throws \/ OpenTable \/ CloseFlash \/ DisableAccess
  <2>1. UNCHANGED <<state, table, torn, content, saved, logged, missed>>
    BY <1>5 DEF flashVars, sinkVars, DirectoriesFail, EnableAccess, ClaimFlash, MountFlash,
       MountFails, RetryInit, Reclaim, OpenInfo, ReadInfo, NextFile, OpenFile, ReadFails,
       SaveFails, Throws, OpenTable, CloseFlash, DisableAccess
  <2>2. pc # "Idle"
    BY <1>5, KindTypes, OpenWindowType, NextFileIs
    DEF Kept, DirectoriesFail, EnableAccess, ClaimFlash, MountFlash, MountFails, RetryInit,
        OpenInfo, ReadInfo, OpenFile, ReadFails, SaveFails, Throws, OpenTable,
        CloseFlash, DisableAccess
  <2>3. UNCHANGED Marked
    BY <2>1 DEF Marked
  <2> QED BY <2>1, <2>2, <2>3, QuietPasses
<1> QED BY <1>1, <1>2, <1>3, <1>4, <1>5 DEF Next, Step

\* A pass keeps its promise to its callers, through every retry, error path,
\* short access, sink that fails unseen, record the host leaves meanwhile and
\* crash: a pending mark goes with a record that was copied and logged or is
\* counted as missed, or with the whole table (bertHandler).
THEOREM PassImplementsPromise == Spec => PassPromise
<1>1. Kept /\ [Next]_vars => Kept'
  BY StepKept
<1>2. Kept /\ Kept' /\ [Next]_vars => [Pass!Next]_(Pass!passVars)
  BY StepPasses DEF Kept
<1> QED BY <1>1, <1>2, InitKept, InitPasses, PTL DEF Spec, PassPromise, Pass!SafeSpec

-------------------------------------------------------------------------------
(* A pass comes to its end.                                                 *)

LEMMA Bounds == NumFiles \in Nat \ {0} /\ Blocks \in Nat \ {0} /\ NumRetry \in Nat \ {0}
BY BertAssumption

\* The steps of r files.
LEMMA Products ==
  ASSUME NEW r \in Nat, NEW s \in Nat
  PROVE  /\ PerFile = 2 * Blocks + 3 /\ PerFile \in Nat /\ PerFile * r \in Nat
         /\ r <= s => PerFile * r <= PerFile * s
         /\ r >= 1 => PerFile * (r - 1) = PerFile * r - PerFile
         /\ s = r - 1 => PerFile * s = PerFile * r - PerFile
<1>1. PerFile = 2 * Blocks + 3 /\ PerFile \in Nat
  BY Bounds DEF PerFile
<1> HIDE DEF PerFile
<1>2. PerFile * r \in Nat
  BY <1>1
<1>3. r <= s => PerFile * r <= PerFile * s
  <2> SUFFICES ASSUME r <= s PROVE PerFile * r <= PerFile * s
    OBVIOUS
  <2>1. PICK d \in Nat : s = r + d
    <3>1. s - r \in Nat /\ s = r + (s - r)
      OBVIOUS
    <3> QED BY <3>1
  <2>2. PerFile * s = PerFile * r + PerFile * d /\ PerFile * d \in Nat
    BY <1>1, <2>1
  <2> QED BY <1>2, <2>2
<1>4. PerFile * (r - 1) = PerFile * r - PerFile
  BY <1>1
<1> QED BY <1>1, <1>2, <1>3, <1>4

LEMMA RowArithmetic ==
  ASSUME NEW a \in Int, NEW b \in Int, NEW n \in Nat
  PROVE  /\ n + 1 - a \in Int
         /\ a \in 1..(n + 1) => n + 1 - a \in Nat /\ (a <= n => n + 1 - a >= 1)
         /\ b = a => n + 1 - b = n + 1 - a
         /\ b >= a => n + 1 - b <= n + 1 - a
         /\ b = a + 1 => n + 1 - b = (n + 1 - a) - 1
OBVIOUS

LEMMA RowType ==
  ASSUME Types
  PROVE  /\ i \in Nat /\ i <= NumFiles + 1 /\ Rows \in Nat /\ retries \in Nat /\ blk \in 0..Blocks
         /\ Rows = NumFiles + 1 - i
         /\ pc \in {"ReadFile", "FileAccess", "Save", "Log"} => Rows >= 1
         /\ pc \in {"ReadFile", "FileAccess"} => blk < Blocks
<1>1. i \in 1..(NumFiles + 1) /\ retries \in 0..NumRetry /\ blk \in 0..Blocks
  BY DEF Types, TypeOK
<1>2. pc \in {"ReadFile", "FileAccess", "Save", "Log"} => i <= NumFiles
  BY DEF Types, Progress
<1>3. pc \in {"ReadFile", "FileAccess"} => blk < Blocks
  BY DEF Types, Progress
<1> QED BY <1>1, <1>2, <1>3, Bounds DEF Rows

Nearer == Left' < Left

LEMMA EarlyNearer ==
  ASSUME Types, Types',
         EnableAccess \/ ClaimFlash \/ MountFlash \/ MountFails \/ RetryInit \/ OpenInfo
           \/ ReadInfo
  PROVE  Nearer
<1>1. PerFile \in Nat /\ PerFile * NumFiles \in Nat /\ retries \in Nat
  BY Products, RowType, Bounds
<1>2. i' = 1 => Rows' = NumFiles
  BY Bounds DEF Rows
<1> HIDE DEF PerFile, Rows
<1>3. CASE EnableAccess
  <2>1. pc = "Enable" /\ (pc' = "Idle" \/ (pc' = "Claim" /\ retries' = retries))
    BY <1>3 DEF EnableAccess, Return
  <2> QED BY <1>1, <2>1 DEF Nearer, Left, AfterInfo
<1>4. CASE ClaimFlash
  <2>1. pc = "Claim" /\ pc' \in {"Mount", "Retry"} /\ retries' = retries
    BY <1>4 DEF ClaimFlash
  <2> QED BY <1>1, <2>1 DEF Nearer, Left, AfterInfo
<1>5. CASE MountFlash \/ MountFails
  <2>1. pc = "Mount" /\ (pc' = "ReadInfo" \/ (pc' = "Retry" /\ retries' = retries))
    BY <1>5 DEF MountFlash, MountFails
  <2> QED BY <1>1, <2>1 DEF Nearer, Left, AfterInfo
<1>6. CASE RetryInit
  <2>1. pc = "Retry" /\ pc' \in {"Claim", "Disable"} /\ retries' = retries - 1
    BY <1>6 DEF RetryInit
  <2> QED BY <1>1, <2>1 DEF Nearer, Left, AfterInfo
<1>7. CASE OpenInfo
  <2>1. pc = "ReadInfo" /\ pc' \in {"InfoAccess", "Exit"}
    BY <1>7, KindTypes, OpenWindowType DEF OpenInfo
  <2> QED BY <1>1, <2>1 DEF Nearer, Left, AfterInfo
<1>8. CASE ReadInfo
  <2>1. pc = "InfoAccess" /\ pc' = "Scan" /\ i' = 1
    BY <1>8 DEF ReadInfo
  <2> QED BY <1>1, <1>2, <2>1 DEF Nearer, Left, AfterInfo
<1> QED BY <1>3, <1>4, <1>5, <1>6, <1>7, <1>8

LEMMA FileNearer ==
  ASSUME Types, Types',
         NextFile \/ OpenFile \/ ReadFile \/ ReadFails \/ SaveDump \/ SaveFails \/ LogRecord
  PROVE  Nearer
<1>1. /\ Rows \in Nat /\ Rows' \in Nat /\ blk \in Nat /\ blk' \in Nat /\ Blocks \in Nat
      /\ pc \in {"ReadFile", "FileAccess", "Save", "Log"} => Rows >= 1
      /\ pc \in {"ReadFile", "FileAccess"} => blk < Blocks
      /\ pc' \in {"ReadFile", "FileAccess", "Save", "Log"} => Rows' >= 1
  <2>1. Rows' \in Nat /\ blk' \in 0..Blocks
        /\ (pc' \in {"ReadFile", "FileAccess", "Save", "Log"} => Rows' >= 1)
    <3>1. i' \in 1..(NumFiles + 1) /\ blk' \in 0..Blocks
      BY DEF Types, TypeOK
    <3>2. pc' \in {"ReadFile", "FileAccess", "Save", "Log"} => i' <= NumFiles
      BY DEF Types, Progress
    <3>3. i' \in Int
      BY <3>1
    <3>4. Rows' \in Nat /\ (i' <= NumFiles => Rows' >= 1)
      BY <3>1, <3>3, Bounds, RowArithmetic DEF Rows
    <3> QED BY <3>1, <3>2, <3>4
  <2> QED BY <2>1, RowType, Bounds
<1>2. /\ i' = i => Rows' = Rows
      /\ i' >= i => Rows' <= Rows
      /\ i' = i + 1 => Rows' = Rows - 1
  <2>1. i \in Int /\ i' \in Int
    BY DEF Types, TypeOK
  <2> QED BY <2>1, Bounds, RowArithmetic DEF Rows
<1> DEFINE X == PerFile * Rows
           Y == PerFile * Rows'
<1>3. PerFile' = PerFile
  BY DEF PerFile
<1> HIDE DEF PerFile, Rows
<1>4. /\ PerFile = 2 * Blocks + 3 /\ PerFile \in Nat /\ X \in Nat /\ Y \in Nat
      /\ i' = i => Y = X
      /\ i' >= i => Y <= X
      /\ i' = i + 1 => Y = X - PerFile
      /\ PerFile * (Rows - 1) = X - PerFile /\ PerFile * (Rows' - 1) = Y - PerFile
      /\ Rows >= 1 => X >= PerFile
  <2>1. PerFile * (Rows - 1) = X - PerFile /\ PerFile * (Rows' - 1) = Y - PerFile
    BY <1>1, Products
  <2>2. 1 \in Nat /\ PerFile * 1 = PerFile
    BY <1>1, Products
  <2>3. Rows >= 1 => X >= PerFile
    BY <1>1, <2>2, Products
  <2> QED BY <1>1, <1>2, <2>1, <2>3, Products
<1> HIDE DEF X, Y
<1>5. /\ pc = "Scan" => Left = 5 + X
      /\ pc = "Log" => Left = 6 + X - PerFile
      /\ pc = "Save" => Left = 7 + X - PerFile
      /\ pc = "FileAccess" => Left = 6 + X - PerFile + 2 * (Blocks - blk)
      /\ pc = "ReadFile" => Left = 7 + X - PerFile + 2 * (Blocks - blk)
      /\ pc = "InfoAccess" => Left >= 3
  <2>1. PerFile * NumFiles \in Nat
    BY Bounds, Products
  <2> QED BY <1>1, <1>4, <2>1 DEF Left, X, AfterInfo
<1>6. /\ pc' = "Scan" => Left' = 5 + Y
      /\ pc' = "Log" => Left' = 6 + Y - PerFile
      /\ pc' = "Save" => Left' = 7 + Y - PerFile
      /\ pc' = "FileAccess" => Left' = 6 + Y - PerFile + 2 * (Blocks - blk')
      /\ pc' = "ReadFile" => Left' = 7 + Y - PerFile + 2 * (Blocks - blk')
      /\ pc' = "WriteInfo" => Left' = 4
      /\ pc' = "Exit" => Left' = 2
  BY <1>1, <1>3, <1>4 DEF Left, Y
<1> HIDE DEF Left
<1>7. CASE NextFile
  <2>1. i \in Int
    BY DEF Types, TypeOK
  <2> QED BY <1>1, <1>4, <1>5, <1>6, <1>7, <2>1, NextFileIs DEF Nearer
<1>8. CASE OpenFile
  <2>1. /\ pc = "ReadFile"
        /\ (pc' = "FileAccess" /\ i' = i /\ blk' = blk) \/ (pc' = "Scan" /\ i' = i + 1)
    BY <1>8, KindTypes, OpenWindowType DEF OpenFile, SkipFile
  <2> QED BY <1>1, <1>4, <1>5, <1>6, <2>1 DEF Nearer
<1>9. CASE ReadFile
  <2>1. /\ pc = "FileAccess" /\ i' = i
        /\ pc' = "Save" \/ (pc' = "ReadFile" /\ blk' = blk + 1)
    BY <1>9 DEF ReadFile
  <2> DEFINE Z == 2 * (Blocks - blk)
             T == 2 * (Blocks - blk')
  <2>2. Left = 6 + X - PerFile + Z /\ Y = X /\ Z \in Nat /\ Z >= 2
    BY <1>1, <1>4, <1>5, <2>1
  <2>3. /\ pc' = "Save" => Left' = 7 + Y - PerFile
        /\ pc' = "ReadFile" => Left' = 7 + Y - PerFile + T
        /\ blk' = blk + 1 => T = Z - 2
    <3>1. blk' = blk + 1 => T = Z - 2
      BY <1>1
    <3>2. pc' = "ReadFile" => Left' = 7 + Y - PerFile + T
      BY <1>6
    <3>3. pc' = "Save" => Left' = 7 + Y - PerFile
      BY <1>6
    <3> QED BY <3>1, <3>2, <3>3
  <2> HIDE DEF Z, T
  <2>4. CASE pc' = "Save"
    BY <1>4, <2>2, <2>3, <2>4 DEF Nearer
  <2>5. CASE pc' = "ReadFile" /\ blk' = blk + 1
    <3>1. Left' = 7 + X - PerFile + (Z - 2)
      BY <2>2, <2>3, <2>5
    <3> QED BY <1>4, <2>2, <3>1 DEF Nearer
  <2> QED BY <2>1, <2>4, <2>5
<1>10. CASE ReadFails
  <2> DEFINE Z == 2 * (Blocks - blk)
  <2>1. (pc = "InfoAccess" /\ pc' = "Exit") \/ (pc = "FileAccess" /\ pc' = "Scan" /\ i' = i + 1)
    BY <1>10 DEF ReadFails, SkipFile
  <2>2. CASE pc = "InfoAccess" /\ pc' = "Exit"
    <3>1. Left >= 3 /\ Left' = 2
      BY <1>5, <1>6, <2>2
    <3>2. Left \in Int
      BY <1>1, <2>2, Products, Bounds DEF Left, AfterInfo
    <3> QED BY <3>1, <3>2 DEF Nearer
  <2>3. CASE pc = "FileAccess" /\ pc' = "Scan" /\ i' = i + 1
    <3>1. Left = 6 + X - PerFile + Z /\ Z \in Nat
      BY <1>1, <1>5, <2>3
    <3> HIDE DEF Z
    <3>2. Left' = 5 + Y /\ Y = X - PerFile
      BY <1>4, <1>6, <2>3
    <3> QED BY <1>4, <3>1, <3>2 DEF Nearer
  <2> QED BY <2>1, <2>2, <2>3
<1>11. CASE SaveDump \/ SaveFails \/ LogRecord
  <2>1. \/ pc = "Save" /\ pc' = "Log" /\ i' = i
        \/ pc \in {"Save", "Log"} /\ pc' = "Scan" /\ i' = i + 1
    BY <1>11 DEF SaveDump, SaveFails, LogRecord, SkipFile
  <2> QED BY <1>1, <1>4, <1>5, <1>6, <2>1 DEF Nearer
<1> QED BY <1>7, <1>8, <1>9, <1>10, <1>11

LEMMA LateNearer ==
  ASSUME Types, Types', pc # "Idle",
         \/ DirectoriesFail \/ Throws \/ OpenTable \/ WriteInfo \/ WriteFails
         \/ CloseFlash \/ DisableAccess \/ Crash
  PROVE  Nearer
<1>1. /\ Rows \in Nat /\ retries \in Nat /\ blk \in 0..Blocks /\ Blocks \in Nat
      /\ pc \in {"ReadFile", "FileAccess", "Save", "Log"} => Rows >= 1
      /\ PerFile * NumFiles \in Nat /\ PerFile \in Nat
  BY RowType, Bounds, Products
<1>2. Left >= 1
  <2>1. PerFile * Rows \in Nat
    BY <1>1, Products
  <2>2. Rows >= 1 => Rows - 1 \in Nat /\ PerFile * (Rows - 1) \in Nat
    BY <1>1, Products
  <2>3. 2 * (Blocks - blk) \in Nat
    BY <1>1
  <2> HIDE DEF PerFile, Rows
  <2>4. CASE pc \in {"ReadFile", "FileAccess", "Save", "Log"}
    BY <1>1, <2>2, <2>3, <2>4 DEF Left
  <2>5. CASE pc \in {"Scan", "WriteInfo", "WriteAccess", "Exit", "Disable"}
    BY <1>1, <2>1, <2>5 DEF Left
  <2>6. CASE pc \in {"Enable", "Claim", "Mount", "Retry", "ReadInfo", "InfoAccess"}
    BY <1>1, <2>6 DEF Left, AfterInfo
  <2> QED BY <2>4, <2>5, <2>6 DEF Types, TypeOK, Steps, AccessSteps
<1>3. CASE pc' = "Idle"
  <2>1. Left' = 0
    BY <1>3 DEF Left
  <2>2. Left \in Int /\ Left >= 1 => 0 < Left
    OBVIOUS
  <2>3. Left \in Int
    <3>1. PerFile * Rows \in Nat
      BY <1>1, Products
    <3>2. PerFile * (Rows - 1) = PerFile * Rows - PerFile
      BY <1>1, Products
    <3>3. PerFile * (Rows - 1) \in Int
      BY <1>1, <3>1, <3>2
    <3> HIDE DEF PerFile, Rows
    <3> QED BY <1>1, <3>1, <3>3 DEF Left, AfterInfo, Types, TypeOK, Steps, AccessSteps
  <2> HIDE DEF Left
  <2> QED BY <1>2, <2>1, <2>2, <2>3 DEF Nearer
<1>4. CASE pc' # "Idle"
  <2>1. \/ pc = "WriteInfo" /\ pc' \in {"WriteAccess", "Exit"}
        \/ pc = "WriteAccess" /\ pc' = "Exit"
        \/ pc = "Exit" /\ pc' = "Disable"
    BY <1>4, KindTypes, OpenWindowType
    DEF DirectoriesFail, Throws, OpenTable, WriteInfo, WriteFails, CloseFlash, DisableAccess,
        Crash, Return
  <2> QED BY <2>1 DEF Nearer, Left
<1> QED BY <1>3, <1>4

\* A pass comes nearer to its end with every step of its own, through all
\* retries and error paths, for every number of files, blocks and attempts
\* (bertHandler, handshakeSPIHandler, initSPIDeviceRetry).
THEOREM PassesEnd == Spec => PassAdvances
<1>1. ASSUME Types, Types', [Next]_vars
      PROVE  [pc # "Idle" => Left' < Left \/ UNCHANGED <<pc, retries, i, blk>>]_vars
  <2> SUFFICES ASSUME Next, pc # "Idle"
               PROVE  Left' < Left \/ UNCHANGED <<pc, retries, i, blk>>
    BY <1>1
  <2>1. CASE Step
    BY <1>1, <2>1, EarlyNearer, FileNearer, LateNearer DEF Step, Nearer
  <2>2. CASE Crash
    BY <1>1, <2>2, LateNearer DEF Nearer
  <2>3. CASE \E f \in Files : HostWrites(f)
    <3>1. UNCHANGED <<pc, retries, i, blk>>
      BY <2>3 DEF HostWrites, fileVars
    <3> QED BY <3>1
  <2>4. CASE \E s \in States : Call(s)
    <3>1. pc = "Idle"
      BY <2>4 DEF Call
    <3> QED BY <3>1
  <2> QED BY <2>1, <2>2, <2>3, <2>4 DEF Next
<1> QED BY <1>1, AlwaysTypes, PTL DEF Spec, PassAdvances
===============================================================================
