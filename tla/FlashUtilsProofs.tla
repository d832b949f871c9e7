--------------------------- MODULE FlashUtilsProofs ---------------------------
(***************************************************************************)
(* What PASSED and a success of fru_upgrade are worth, for every EEPROM,   *)
(* every page size and every set of files, whatever fails, and that an     *)
(* invocation in which nothing fails does what it was asked to.            *)
(***************************************************************************)
EXTENDS FlashUtils, TLAPS

Byte == Data \cup {Junk}

LEMMA PageIsPositive == ASSUME TypeOK PROVE page \in Nat \ {0} /\ Size % page = 0
BY FlashUtilsAssumption DEF TypeOK

LEMMA ImageIsSeq == ASSUME TypeOK PROVE image \in Seq(Data) /\ image \in Seq(Byte)
<1>1. image \in Images \cup {<<>>}
  BY DEF TypeOK
<1>2. image \in Seq(Data)
  <2>1. <<>> \in Seq(Data)
    OBVIOUS
  <2> QED BY <1>1, <2>1, FlashUtilsAssumption
<1>3. Data \subseteq Byte
  BY DEF Byte
<1> QED BY <1>2, <1>3

LEMMA ShownType ==
  ASSUME TypeOK, NEW k \in Nat \ {0}
  PROVE  Shown(k) \in Byte
<1>1. (k - 1) % Size \in Cells
  BY FlashUtilsAssumption DEF Cells
<1> QED BY <1>1 DEF Shown, TypeOK, Byte

\* A loop that sets a part of a sequence keeps its type and length.
LEMMA SeqType ==
  ASSUME NEW n \in Nat, NEW s, s = [k \in 1..n |-> s[k]], \A k \in 1..n : s[k] \in Byte
  PROVE  s \in Seq(Byte) /\ Len(s) = n
<1>1. s \in [1..n -> Byte]
  OBVIOUS
<1> QED BY <1>1

LEMMA JunkIsSeq == ASSUME NEW n \in Nat PROVE AllJunk(n) \in Seq(Byte) /\ Len(AllJunk(n)) = n
BY DEF AllJunk, Byte

LEMMA SpliceIsSeq ==
  ASSUME NEW s \in Seq(Byte), NEW rest \in Seq(Byte), NEW k \in 0..Len(s)
  PROVE  Splice(s, k, rest) \in Seq(Byte) /\ Len(Splice(s, k, rest)) = Len(rest)
<1> DEFINE t == Splice(s, k, rest)
<1>1. \A j \in 1..Len(rest) : t[j] \in Byte
  BY DEF Splice
<1>2. t = [j \in 1..Len(rest) |-> t[j]]
  BY DEF Splice
<1> HIDE DEF t
<1>3. Len(rest) \in Nat
  OBVIOUS
<1> QED BY <1>1, <1>2, <1>3, SeqType DEF t

LEMMA WriteAtType == ASSUME TypeOK, NEW s \in Seq(Byte) PROVE WriteAt(s) \in [Cells -> Byte]
<1> SUFFICES ASSUME NEW n \in Cells, LastOn(s, n) # {}
             PROVE  s[1 + CHOOSE k \in LastOn(s, n) : TRUE] \in Byte
  BY DEF WriteAt, TypeOK, Byte
<1>1. (CHOOSE k \in LastOn(s, n) : TRUE) \in LastOn(s, n)
  OBVIOUS
<1>2. LastOn(s, n) \subseteq 0..Len(s) - 1
  BY DEF LastOn, Chunk
<1>3. \A k \in 0..Len(s) - 1 : s[1 + k] \in Byte
  OBVIOUS
<1> QED BY <1>1, <1>2, <1>3

LEMMA FirstCellsType ==
  ASSUME TypeOK, NEW s \in Seq(Byte), NEW k \in 0..Len(s)
  PROVE  FirstCells(s, k) \in [Cells -> Byte]
BY DEF FirstCells, TypeOK, Byte, Cells

LEMMA InitType == Init => TypeOK
<1> SUFFICES ASSUME Init PROVE TypeOK
  OBVIOUS
<1>1. buf \in Seq(Byte) /\ back \in Seq(Byte)
  BY DEF Init
<1>2. eeprom \in [Cells -> Byte]
  BY FlashUtilsAssumption DEF Init, Cells, Byte
<1>3. at \in Nat /\ faults \in 0..MaxFaults
  BY FlashUtilsAssumption DEF Init
<1> QED BY <1>1, <1>2, <1>3 DEF Init, TypeOK, Byte

LEMMA FaultType == ASSUME TypeOK, Fine \/ Fault PROVE (faults \in 0..MaxFaults /\ hurt \in BOOLEAN /\ wraps \in BOOLEAN)'
BY FlashUtilsAssumption DEF TypeOK, Fine, Fault

LEMMA StepType == TypeOK /\ [Next]_vars => TypeOK'
<1> SUFFICES ASSUME TypeOK, [Next]_vars PROVE TypeOK'
  OBVIOUS
<1>1. CASE Invoke
  <2>1. buf' \in Seq(Byte) /\ back' \in Seq(Byte)
    BY <1>1 DEF Invoke
  <2>2. image' \in Images \cup {<<>>} /\ page' \in PageSizes \cup {Page}
    BY <1>1 DEF Invoke
  <2> QED BY <1>1, <2>1, <2>2 DEF Invoke, TypeOK, Byte
<1>2. CASE Probe
  <2>1. back' \in Seq(Byte)
    BY <1>2, ImageIsSeq, JunkIsSeq DEF Probe, CopyBuffer
  <2>2. Fine \/ Fault
    BY <1>2 DEF Probe
  <2> QED BY <1>2, <2>1, <2>2, FaultType DEF Probe, TypeOK, Byte, Goto, Exit
<1>3. CASE Load
  <2>1. back' \in Seq(Byte)
    BY <1>3, ImageIsSeq, JunkIsSeq DEF Load, CopyBuffer
  <2>2. buf' \in Seq(Byte)
    BY <1>3, ImageIsSeq, JunkIsSeq DEF Load
  <2>3. Fine \/ Fault
    BY <1>3 DEF Load
  <2> QED BY <1>3, <2>1, <2>2, <2>3, FaultType DEF Load, TypeOK, Byte, Goto, Exit
<1>4. CASE WritePage
  <2>1. eeprom' \in [Cells -> Byte]
    BY <1>4, WriteAtType DEF WritePage, TypeOK, Byte
  <2>2. at' \in Nat
    BY <1>4, PageIsPositive DEF WritePage, TypeOK
  <2>3. Fine \/ Fault
    BY <1>4 DEF WritePage
  <2> QED BY <1>4, <2>1, <2>2, <2>3, FaultType DEF WritePage, TypeOK, Byte, Goto
<1>5. CASE EmptyFile
  BY <1>5, FaultType DEF EmptyFile, TypeOK, Exit
<1>6. CASE ReadPage
  <2>1. back' \in Seq(Byte)
    <3>1. CASE back' = [k \in 1..Len(back) |->
                         IF k - 1 \in Chunk(back) THEN Shown(k) ELSE back[k]]
      <4>1. \A k \in 1..Len(back) : back'[k] \in Byte
        BY <3>1, ShownType DEF TypeOK, Byte
      <4> QED BY <3>1, <4>1, SeqType DEF TypeOK
    <3> QED BY <1>6, <3>1 DEF ReadPage, TypeOK, Byte
  <2>2. at' \in Nat
    BY <1>6, PageIsPositive DEF ReadPage, TypeOK
  <2>3. Fine \/ Fault
    BY <1>6 DEF ReadPage
  <2> QED BY <1>6, <2>1, <2>2, <2>3, FaultType DEF ReadPage, AfterRead, TypeOK, Byte, Goto, Exit
<1>7. CASE CompareCrc
  BY <1>7, FaultType DEF CompareCrc, TypeOK, Exit
<1>8. CASE FruWrite
  <2>1. eeprom' \in [Cells -> Byte]
    BY <1>8, FirstCellsType DEF FruWrite, TypeOK, Byte
  <2>2. Fine \/ Fault
    BY <1>8 DEF FruWrite
  <2> QED BY <1>8, <2>1, <2>2, FaultType DEF FruWrite, AfterFruWrite, TypeOK, Byte, Goto, Exit
<1>9. CASE FruVerify
  <2>1. back' \in Seq(Byte)
    <3>1. CASE Len(buf) <= Size /\ back' = [k \in 1..Len(buf) |-> eeprom[k - 1]]
      <4>1. \A k \in 1..Len(buf) : k - 1 \in Cells
        BY <3>1, FlashUtilsAssumption DEF TypeOK, Cells
      <4>2. \A k \in 1..Len(buf) : back'[k] \in Byte
        BY <3>1, <4>1 DEF TypeOK, Byte
      <4> QED BY <3>1, <4>2, SeqType DEF TypeOK
    <3>2. ASSUME NEW k \in 0..Size, k < Len(buf), NEW rest \in {buf, AllJunk(Len(buf))},
                 back' = Splice([j \in 1..k |-> eeprom[j - 1]], k, rest)
          PROVE  back' \in Seq(Byte)
      <4>1. [j \in 1..k |-> eeprom[j - 1]] \in Seq(Byte)
        BY FlashUtilsAssumption DEF TypeOK, Byte, Cells
      <4>2. Len([j \in 1..k |-> eeprom[j - 1]]) = k
        BY FlashUtilsAssumption
      <4>3. rest \in Seq(Byte)
        BY JunkIsSeq DEF TypeOK, Byte
      <4> QED BY <3>2, <4>1, <4>2, <4>3, SpliceIsSeq
    <3> QED BY <1>9, <3>1, <3>2 DEF FruVerify
  <2>2. Fine \/ Fault
    BY <1>9 DEF FruVerify
  <2> QED BY <1>9, <2>1, <2>2, FaultType DEF FruVerify, TypeOK, Byte, Exit
<1>10. CASE FruVerifyFails
  BY <1>10, FaultType DEF FruVerifyFails, TypeOK, Exit
<1>11. CASE Kill
  BY <1>11, FaultType DEF Kill, TypeOK, Exit
<1>12. CASE UNCHANGED vars
  BY <1>12 DEF vars, tool, TypeOK
<1> QED
  BY <1>1, <1>2, <1>3, <1>4, <1>5, <1>6, <1>7, <1>8, <1>9, <1>10, <1>11, <1>12 DEF Next

\* Every variable keeps its type: for every EEPROM, page size and set of files.
THEOREM ToolTypes == Spec => []TypeOK
BY InitType, StepType, PTL DEF Spec

-------------------------------------------------------------------------------
(* What the loops over the pages have done when they end.                   *)

Found(k) == back[k] = Shown(k) /\ (wraps \/ k <= Size)

\* A loop comes to whole pages.
PageStart == \E j \in Nat : at = j * page

\* What was read back so far is the EEPROM's, the rest is what the memory held.
ReadSoFar == \A k \in 1..Len(back) : IF k - 1 < at THEN Found(k) ELSE back[k] = Junk

\* A copy cut short still has a cell that nobody wrote to.
Copied ==
  IF cut THEN image = <<>> \/ \E k \in 1..Len(back) : back[k] = Junk
         ELSE \A k \in 1..Len(back) : Found(k)

LoopInv ==
  /\ pc # "idle" => verdict = "none"
  /\ pc \in {"probe", "load"} => at = 0
  /\ pc \in {"probe", "load", "write", "readBack", "fruWrite"} => ~cut
  /\ pc \in {"write", "readBack"} => PageStart
  /\ pc = "probe" => op # "fru"
  /\ pc = "load" => op \in {"program", "fru"}
  /\ pc = "write" => op = "program" /\ Len(buf) = Len(image) /\ back = CopyBuffer
  /\ pc = "readBack" =>
       /\ op \in {"read", "program"} /\ Len(back) = Len(image)
       /\ op = "program" => Len(buf) = Len(image)
       /\ ReadSoFar
       /\ at = 0 \/ at < Len(back)
  /\ pc = "crc" => Len(back) = Len(image) /\ Len(buf) = Len(image) /\ Copied

ToolInv == TypeOK /\ LoopInv /\ PassedMeansProgrammed /\ OkMeansWritten

LEMMA SmallMod == ASSUME NEW m \in Nat \ {0}, NEW n \in 0..m - 1 PROVE n % m = n
OBVIOUS

\* The EEPROM ends with a page of every size one can select.
LEMMA PageFits ==
  ASSUME TypeOK, PageStart, at < Size
  PROVE  at + page <= Size
<1> DEFINE q == Size \div page
<1>1. page \in Nat \ {0} /\ Size % page = 0 /\ Size \in Nat
  BY PageIsPositive, FlashUtilsAssumption
<1>2. q \in Nat /\ Size = q * page
  BY <1>1
<1> HIDE DEF q
<1>3. PICK j \in Nat : at = j * page
  BY DEF PageStart
<1>4. j < q
  <2> SUFFICES ASSUME q <= j PROVE FALSE
    BY <1>2
  <2>1. q * page <= j * page
    BY <1>1, <1>2
  <2> QED BY <1>2, <1>3, <2>1, <1>1
<1>5. (j + 1) * page <= q * page
  BY <1>1, <1>2, <1>4
<1>6. (j + 1) * page = at + page
  BY <1>1, <1>3
<1> QED BY <1>2, <1>5, <1>6

LEMMA NextPage == ASSUME TypeOK, PageStart PROVE \E j \in Nat : at + page = j * page
<1>1. PICK j \in Nat : at = j * page
  BY DEF PageStart
<1>2. at + page = (j + 1) * page
  BY <1>1, PageIsPositive
<1> QED BY <1>2

LEMMA InitInv == Init => ToolInv
<1> SUFFICES ASSUME Init PROVE ToolInv
  OBVIOUS
<1>1. TypeOK
  BY InitType
<1> QED
  BY <1>1 DEF Init, ToolInv, LoopInv, PassedMeansProgrammed, OkMeansWritten

\* A page read puts what the EEPROM shows into the copy.
LEMMA PageRead ==
  ASSUME TypeOK, PageStart, ReadSoFar, Answers, UNCHANGED <<eeprom, wraps>>,
         back' = [k \in 1..Len(back) |-> IF k - 1 \in Chunk(back) THEN Shown(k) ELSE back[k]]
  PROVE  /\ Len(back') = Len(back)
         /\ \A k \in 1..Len(back) :
              IF k - 1 < at + page THEN Found(k)' ELSE back'[k] = Junk
<1>1. Len(back) \in Nat /\ at \in Nat /\ page \in Nat
  BY PageIsPositive DEF TypeOK
<1>2. Len(back') = Len(back)
  <2>1. \A k \in 1..Len(back) : back'[k] \in Byte
    BY ShownType DEF TypeOK, Byte
  <2> QED BY <1>1, <2>1, SeqType
<1>3. ASSUME NEW k \in 1..Len(back)
      PROVE  IF k - 1 < at + page THEN Found(k)' ELSE back'[k] = Junk
  <2>1. Shown(k)' = Shown(k)
    BY DEF Shown
  <2>2. CASE k - 1 \in Chunk(back)
    <3>1. back'[k] = Shown(k) /\ at <= k - 1 /\ k - 1 < at + page
      BY <2>2 DEF Chunk
    <3>2. wraps \/ k <= Size
      BY <3>1, <1>1, PageFits, FlashUtilsAssumption DEF Answers
    <3> QED BY <2>1, <3>1, <3>2 DEF Found
  <2>3. CASE k - 1 \notin Chunk(back)
    <3>1. back'[k] = back[k]
      BY <2>3
    <3>2. k - 1 < at \/ at + page <= k - 1
      BY <2>3, <1>1 DEF Chunk
    <3> QED BY <2>1, <3>1, <3>2, <1>1 DEF Found, ReadSoFar
  <2> QED BY <2>2, <2>3
<1> QED BY <1>2, <1>3

LEMMA ReadPageInv == ASSUME ToolInv, ReadPage PROVE LoopInv'
<1>1. TypeOK /\ PageStart /\ ReadSoFar /\ ~cut /\ Len(back) = Len(image)
      /\ op \in {"read", "program"} /\ (op = "program" => Len(buf) = Len(image))
      /\ verdict = "none" /\ (at = 0 \/ at < Len(back))
  BY DEF ToolInv, LoopInv, ReadPage
<1>2. UNCHANGED <<eeprom, wraps, op, page, image, buf>>
  BY DEF ReadPage, Fine, Fault
<1>3. Len(back) \in Nat /\ at \in Nat /\ page \in Nat \ {0}
  BY <1>1, PageIsPositive DEF TypeOK
<1>4. CASE /\ Answers /\ UNCHANGED cut
           /\ back' = [k \in 1..Len(back) |->
                         IF k - 1 \in Chunk(back) THEN Shown(k) ELSE back[k]]
           /\ IF at + page < Len(back) THEN at' = at + page /\ Goto("readBack")
                                       ELSE at' = 0 /\ AfterRead
  <2>1. Len(back') = Len(back)
        /\ \A k \in 1..Len(back) : IF k - 1 < at + page THEN Found(k)' ELSE back'[k] = Junk
    BY <1>1, <1>2, <1>4, PageRead
  <2>2. CASE at + page < Len(back)
    <3>1. at' = at + page /\ pc' = "readBack" /\ verdict' = verdict
      BY <1>4, <2>2 DEF Goto
    <3>2. PageStart'
      BY <1>1, <1>2, <3>1, NextPage DEF PageStart
    <3>3. ReadSoFar'
      BY <2>1, <3>1 DEF ReadSoFar
    <3> QED BY <1>1, <1>2, <1>4, <2>1, <3>1, <3>2, <3>3 DEF LoopInv
  <2>3. CASE ~(at + page < Len(back))
    <3>1. AfterRead
      BY <1>4, <2>3
    <3>2. CASE op = "read"
      BY <3>1, <3>2 DEF AfterRead, Exit, LoopInv
    <3>3. CASE op = "program"
      <4>1. pc' = "crc" /\ verdict' = verdict
        BY <3>1, <3>3 DEF AfterRead, Goto
      <4>2. \A k \in 1..Len(back) : Found(k)'
        BY <2>1, <2>3, <1>3
      <4>3. Copied'
        BY <1>1, <1>4, <2>1, <4>2 DEF Copied
      <4> QED BY <1>1, <1>2, <2>1, <3>3, <4>1, <4>3 DEF LoopInv
    <3> QED BY <1>1, <3>2, <3>3
  <2> QED BY <2>2, <2>3
<1>5. CASE UNCHANGED back /\ at' = 0 /\ AfterRead /\ cut' = TRUE
  <2>1. CASE op = "read"
    BY <1>5, <2>1 DEF AfterRead, Exit, LoopInv
  <2>2. CASE op = "program"
    <3>1. pc' = "crc" /\ verdict' = verdict
      BY <1>5, <2>2 DEF AfterRead, Goto
    <3>2. CASE Len(back) = 0
      <4>1. image = <<>>
        <5>1. \A t \in Seq(Data) : Len(t) = 0 => t = <<>>
          OBVIOUS
        <5> QED BY <1>1, <3>2, <5>1, ImageIsSeq
      <4> QED BY <1>1, <1>2, <1>5, <2>2, <3>1, <4>1 DEF LoopInv, Copied
    <3>3. CASE Len(back) > 0
      <4>1. back[Len(back)] = Junk
        BY <1>1, <1>3, <1>5, <3>3 DEF ReadSoFar
      <4> QED BY <1>1, <1>2, <1>3, <1>5, <2>2, <3>1, <3>3, <4>1 DEF LoopInv, Copied
    <3> QED BY <1>3, <3>2, <3>3
  <2> QED BY <1>1, <2>1, <2>2
<1> QED
  BY <1>4, <1>5 DEF ReadPage

LEMMA StepLoop == ToolInv /\ [Next]_vars => LoopInv'
<1> SUFFICES ASSUME ToolInv, [Next]_vars PROVE LoopInv'
  OBVIOUS
<1>0. TypeOK /\ LoopInv
  BY DEF ToolInv
<1>1. CASE Invoke
  BY <1>1 DEF Invoke, LoopInv
<1>2. CASE Probe
  <2>1. verdict = "none" /\ at = 0 /\ ~cut /\ op # "fru"
    BY <1>0, <1>2 DEF Probe, LoopInv
  <2>2. UNCHANGED <<eeprom, op, page, image, buf, at, cut>> /\ (Fine \/ Fault)
    BY <1>2 DEF Probe
  <2>3. CASE op = "read" /\ Goto("readBack")
    <3>1. back' = AllJunk(Len(image))
      BY <1>2, <2>3 DEF Probe, CopyBuffer
    <3>2. Len(back') = Len(image)
      BY <1>0, <3>1, ImageIsSeq, JunkIsSeq
    <3>3. PageStart'
      BY <1>0, <2>1, <2>2, PageIsPositive DEF PageStart
    <3>4. ReadSoFar'
      BY <2>1, <2>2, <3>1, <3>2, ImageIsSeq, <1>0 DEF ReadSoFar, AllJunk
    <3> QED BY <2>1, <2>2, <2>3, <3>2, <3>3, <3>4 DEF LoopInv, Goto
  <2>4. CASE op = "program" /\ Goto("load")
    BY <2>1, <2>2, <2>4 DEF LoopInv, Goto
  <2>5. CASE pc' = "idle"
    BY <2>5 DEF LoopInv
  <2> QED BY <1>2, <2>3, <2>4, <2>5 DEF Probe, Exit
<1>3. CASE Load
  <2>1. verdict = "none" /\ at = 0 /\ ~cut
    BY <1>0, <1>3 DEF Load, LoopInv
  <2>2. UNCHANGED <<eeprom, op, page, image, at, cut>>
    BY <1>3 DEF Load
  <2>3. CASE Goto(IF op = "fru" THEN "fruWrite" ELSE "write")
             /\ buf' \in {image, AllJunk(Len(image))}
    <3>1. CASE op = "fru"
      BY <2>1, <2>2, <2>3, <3>1 DEF LoopInv, Goto
    <3>2. CASE op # "fru"
      <4>1. Len(buf') = Len(image)
        BY <1>0, <2>3, ImageIsSeq, JunkIsSeq
      <4>2. back' = CopyBuffer'
        BY <1>3, <3>2, <2>2 DEF Load, CopyBuffer
      <4>3. PageStart'
        BY <1>0, <2>1, <2>2, PageIsPositive DEF PageStart
      <4>4. op = "program"
        BY <1>0, <1>3, <3>2 DEF LoopInv, Load
      <4> QED BY <2>1, <2>2, <2>3, <3>2, <4>1, <4>2, <4>3, <4>4 DEF LoopInv, Goto
    <3> QED BY <3>1, <3>2
  <2>4. CASE pc' = "idle"
    BY <2>4 DEF LoopInv
  <2> QED BY <1>3, <2>3, <2>4 DEF Load, Exit
<1>4. CASE WritePage
  <2>1. /\ verdict = "none" /\ ~cut /\ PageStart /\ op = "program"
        /\ Len(buf) = Len(image) /\ back = AllJunk(Len(image))
    BY <1>0, <1>4 DEF WritePage, LoopInv, CopyBuffer
  <2>2. UNCHANGED <<op, page, image, buf, back, cut>>
    BY <1>4 DEF WritePage
  <2>3. CASE at + page < Len(buf)
    <3>1. at' = at + page /\ pc' = "write" /\ verdict' = verdict
      BY <1>4, <2>3 DEF WritePage, Goto
    <3>2. PageStart'
      BY <1>0, <2>1, <2>2, <3>1, NextPage DEF PageStart
    <3> QED BY <2>1, <2>2, <3>1, <3>2 DEF LoopInv, CopyBuffer
  <2>4. CASE ~(at + page < Len(buf))
    <3>1. at' = 0 /\ pc' = "readBack" /\ verdict' = verdict
      BY <1>4, <2>4 DEF WritePage, Goto
    <3>2. PageStart'
      BY <1>0, <2>2, <3>1, PageIsPositive DEF PageStart
    <3>3. Len(back) = Len(image)
      BY <1>0, <2>1, ImageIsSeq, JunkIsSeq
    <3>4. ReadSoFar'
      BY <1>0, <2>1, <2>2, <3>1, <3>3, ImageIsSeq DEF ReadSoFar, AllJunk
    <3> QED BY <2>1, <2>2, <3>1, <3>2, <3>3, <3>4 DEF LoopInv
  <2> QED BY <2>3, <2>4
<1>5. CASE ReadPage
  BY <1>5, ReadPageInv
<1>6. CASE FruWrite
  BY <1>0, <1>6 DEF FruWrite, AfterFruWrite, Goto, Exit, LoopInv
<1>7. CASE EmptyFile \/ CompareCrc \/ FruVerify \/ FruVerifyFails \/ Kill
  BY <1>7 DEF EmptyFile, CompareCrc, FruVerify, FruVerifyFails, Kill, Exit, LoopInv
<1>8. CASE UNCHANGED vars
  BY <1>0, <1>8 DEF vars, tool, LoopInv, PageStart, ReadSoFar, Found, Shown, Copied, CopyBuffer
<1> QED
  BY <1>1, <1>2, <1>3, <1>4, <1>5, <1>6, <1>7, <1>8 DEF Next

\* The comparison passes only a copy without a cell nobody wrote to, unless the
\* file was not read either.
LEMMA ComparePassed == ASSUME ToolInv, CompareCrc PROVE PassedMeansProgrammed'
<1> SUFFICES ASSUME verdict' = "PASSED", ~(cut /\ buf # image) PROVE Holds(buf)
  BY DEF CompareCrc, Fine, PassedMeansProgrammed, Holds, Shown
<1>1. back = buf /\ Len(back) = Len(image) /\ Copied /\ TypeOK
  BY DEF CompareCrc, Exit, ToolInv, LoopInv
<1>2. CASE ~cut
  BY <1>1, <1>2 DEF Copied, Found, Holds
<1>3. CASE cut /\ image = <<>>
  BY <1>3 DEF Holds
<1>4. CASE cut /\ image # <<>>
  <2>1. PICK k \in 1..Len(image) : image[k] = Junk
    BY <1>1, <1>4 DEF Copied
  <2>2. image[k] \in Data
    BY <1>1, ImageIsSeq
  <2> QED BY <2>1, <2>2, FlashUtilsAssumption
<1> QED BY <1>2, <1>3, <1>4

LEMMA VerifyOk == ASSUME ToolInv, FruVerify PROVE OkMeansWritten'
<1> SUFFICES ASSUME verdict' = "OK", ~cut' PROVE Holds(buf)
  BY DEF FruVerify, Fine, Fault, OkMeansWritten, Holds, Shown
<1>1. /\ Len(buf) <= Size /\ back' = [k \in 1..Len(buf) |-> eeprom[k - 1]] /\ back' = buf
  BY DEF FruVerify, Exit
<1>2. ASSUME NEW k \in 1..Len(buf) PROVE k <= Size /\ Shown(k) = buf[k]
  <2>1. Len(buf) \in Nat /\ Size \in Nat \ {0}
    BY FlashUtilsAssumption DEF ToolInv, TypeOK
  <2>2. k - 1 \in 0..Size - 1 /\ k <= Size
    BY <1>1, <2>1
  <2>3. (k - 1) % Size = k - 1
    BY <2>1, <2>2, SmallMod
  <2> QED BY <1>1, <2>2, <2>3 DEF Shown
<1> QED BY <1>2 DEF Holds

LEMMA StepVerdict == ToolInv /\ [Next]_vars => (PassedMeansProgrammed /\ OkMeansWritten)'
<1> SUFFICES ASSUME ToolInv, [Next]_vars PROVE (PassedMeansProgrammed /\ OkMeansWritten)'
  OBVIOUS
<1> USE DEF PassedMeansProgrammed, OkMeansWritten
<1>0. pc # "idle" => verdict = "none"
  BY DEF ToolInv, LoopInv
<1>1. CASE Invoke
  BY <1>1 DEF Invoke
<1>2. CASE Probe \/ Load \/ WritePage \/ EmptyFile \/ ReadPage \/ FruVerifyFails \/ Kill
  <2>1. verdict' \notin {"PASSED", "OK"}
    BY <1>0, <1>2 DEF Probe, Load, WritePage, EmptyFile, ReadPage, AfterRead,
                      FruVerifyFails, Kill, Exit, Goto
  <2> QED BY <2>1
<1>3. CASE CompareCrc
  <2>1. verdict' # "OK"
    BY <1>3 DEF CompareCrc, Exit
  <2> QED BY <1>3, <2>1, ComparePassed
<1>4. CASE FruWrite
  <2>1. verdict' # "PASSED"
    BY <1>0, <1>4 DEF FruWrite, AfterFruWrite, Exit, Goto
  <2>2. verdict' = "OK" => image \in ZeroCrc /\ buf = image
    BY <1>0, <1>4 DEF FruWrite, AfterFruWrite, Exit, Goto
  <2>3. UNCHANGED <<image, buf>>
    BY <1>4 DEF FruWrite
  <2> QED BY <2>1, <2>2, <2>3
<1>5. CASE FruVerify
  <2>1. verdict' # "PASSED"
    BY <1>5 DEF FruVerify, Exit
  <2> QED BY <1>5, <2>1, VerifyOk
<1>6. CASE UNCHANGED vars
  BY <1>6 DEF vars, tool, ToolInv, Holds, Shown
<1> QED
  BY <1>1, <1>2, <1>3, <1>4, <1>5, <1>6 DEF Next

LEMMA Inductive == Spec => []ToolInv
<1>1. ToolInv /\ [Next]_vars => ToolInv'
  BY StepType, StepLoop, StepVerdict DEF ToolInv
<1> QED BY <1>1, InitInv, PTL DEF Spec

\* PASSED means that the EEPROM shows what was read of the file, unless neither
\* could be read: for all EEPROMs, page sizes, files and failures.
THEOREM PassedIsProgrammed == Spec => []PassedMeansProgrammed
<1>1. ToolInv => PassedMeansProgrammed
  BY DEF ToolInv
<1> QED BY <1>1, Inductive, PTL

\* fru_upgrade's success means that what was read of the file was written, but
\* for a CRC of 0 and a copy cut short.
THEOREM OkIsWritten == Spec => []OkMeansWritten
<1>1. ToolInv => OkMeansWritten
  BY DEF ToolInv
<1> QED BY <1>1, Inductive, PTL

-------------------------------------------------------------------------------
(* An invocation in which nothing fails.                                    *)

Fits ==
  op \in {"program", "fru"} /\ image # <<>> /\ Len(image) <= Size /\ Page % page = 0

\* The EEPROM holds the first n cells of the file.
Written(n) == \A k \in 1..Len(image) : k <= n => eeprom[k - 1] = image[k]

Undisturbed ==
  ~hurt /\ Fits =>
    /\ pc \in {"fruWrite", "fruVerify"} => op = "fru"
    /\ pc = "crc" => op = "program" /\ ~cut
    /\ pc \in {"write", "readBack", "crc", "fruWrite", "fruVerify"} => buf = image
    /\ pc = "write" => at < Len(image) /\ Written(at)
    /\ pc \in {"readBack", "crc", "fruVerify", "idle"} => Written(Len(image))
    /\ pc = "idle" => verdict = (IF op = "fru" THEN "OK" ELSE "PASSED")

LEMMA ImageLength == ASSUME TypeOK PROVE Len(image) \in Nat /\ (image # <<>> => Len(image) > 0)
<1>1. \A t \in Seq(Data) : Len(t) \in Nat /\ (t # <<>> => Len(t) > 0)
  OBVIOUS
<1> QED BY <1>1, ImageIsSeq

\* A page of the tool lies inside one page of the EEPROM.
LEMMA InsidePage ==
  ASSUME TypeOK, PageStart, Page % page = 0
  PROVE  at % Page \in Nat /\ (at % Page) + page <= Page /\ at % Page <= at
<1> DEFINE m == Page \div page
           d == at \div Page
<1>1. page \in Nat \ {0} /\ Page \in Nat \ {0} /\ at \in Nat
  BY PageIsPositive, FlashUtilsAssumption DEF TypeOK
<1>2. m \in Nat /\ Page = m * page
  BY <1>1
<1>3. d \in Nat /\ at = d * Page + (at % Page) /\ at % Page \in 0..Page - 1
  BY <1>1
<1>4. PICK j \in Nat : at = j * page
  BY DEF PageStart
<1> HIDE DEF m, d
<1>5. d * Page = (d * m) * page /\ d * m \in Nat
  BY <1>1, <1>2, <1>3
<1> DEFINE e == j - d * m
<1>6. e \in Int /\ at % Page = e * page
  <2>1. e * page = j * page - (d * m) * page
    BY <1>1, <1>5
  <2> QED BY <1>1, <1>3, <1>4, <1>5, <2>1
<1> HIDE DEF e
<1>7. e + 1 <= m
  <2> SUFFICES ASSUME m <= e PROVE FALSE
    BY <1>2, <1>6
  <2>1. m * page <= e * page
    BY <1>1, <1>2, <1>6
  <2> QED BY <1>1, <1>2, <1>3, <1>6, <2>1
<1>8. (e + 1) * page <= m * page
  BY <1>1, <1>2, <1>6, <1>7
<1>9. (e + 1) * page = (at % Page) + page
  BY <1>1, <1>6
<1>10. d * Page >= 0
  BY <1>1, <1>3
<1> QED BY <1>1, <1>2, <1>3, <1>8, <1>9, <1>10

\* So nothing rolls over: each cell lands where it belongs.
LEMMA LandsInPlace ==
  ASSUME TypeOK, PageStart, Page % page = 0, Len(image) <= Size,
         NEW k \in Chunk(image)
  PROVE  LandsOn(k) = k /\ k + Page \notin Chunk(image) /\ k \in Cells
<1> DEFINE r == at % Page
<1>1. /\ page \in Nat \ {0} /\ Page \in Nat \ {0} /\ Size \in Nat \ {0} /\ at \in Nat
      /\ Len(image) \in Nat
  BY PageIsPositive, FlashUtilsAssumption, ImageLength DEF TypeOK
<1>2. r \in Nat /\ r + page <= Page /\ r <= at
  BY InsidePage
<1> HIDE DEF r
<1>3. k \in 0..Len(image) - 1 /\ at <= k /\ k < at + page
  BY DEF Chunk
<1>4. r + (k - at) \in 0..Page - 1
  BY <1>1, <1>2, <1>3
<1>5. (r + (k - at)) % Page = r + (k - at)
  BY <1>1, <1>4, SmallMod
<1>6. (at - r) + (r + (k - at)) = k
  BY <1>1, <1>2, <1>3
<1>7. k \in 0..Size - 1
  BY <1>1, <1>3
<1>8. k % Size = k
  BY <1>1, <1>7, SmallMod
<1>9. LandsOn(k) = k
  BY <1>5, <1>6, <1>8 DEF LandsOn, r
<1>10. ~(k + Page < at + page)
  BY <1>1, <1>2, <1>3
<1> QED BY <1>7, <1>9, <1>10 DEF Chunk, Cells

LEMMA PageWritten ==
  ASSUME TypeOK, PageStart, Page % page = 0, Len(image) <= Size, Written(at),
         eeprom' = WriteAt(image), UNCHANGED image
  PROVE  \A k \in 1..Len(image) : k <= at + page => eeprom'[k - 1] = image'[k]
<1> SUFFICES ASSUME NEW k \in 1..Len(image), k <= at + page PROVE eeprom'[k - 1] = image[k]
  OBVIOUS
<1>1. at \in Nat /\ page \in Nat \ {0} /\ Size \in Nat /\ Len(image) \in Nat
  BY PageIsPositive, FlashUtilsAssumption, ImageLength DEF TypeOK
<1>2. k - 1 \in Cells
  BY <1>1 DEF Cells
<1>3. eeprom'[k - 1] = IF LastOn(image, k - 1) = {} THEN eeprom[k - 1]
                       ELSE image[1 + CHOOSE c \in LastOn(image, k - 1) : TRUE]
  BY <1>2 DEF WriteAt
<1>4. \A c \in LastOn(image, k - 1) : c = k - 1
  BY LandsInPlace DEF LastOn
<1>5. CASE k <= at
  <2>1. k - 1 \notin Chunk(image)
    BY <1>1, <1>5 DEF Chunk
  <2>2. LastOn(image, k - 1) = {}
    BY <1>4, <2>1 DEF LastOn
  <2> QED BY <1>3, <1>5, <2>2 DEF Written
<1>6. CASE at < k
  <2>1. k - 1 \in Chunk(image)
    BY <1>1, <1>6 DEF Chunk
  <2>2. k - 1 \in LastOn(image, k - 1)
    BY <2>1, LandsInPlace DEF LastOn
  <2>3. (CHOOSE c \in LastOn(image, k - 1) : TRUE) = k - 1
    BY <1>4, <2>2
  <2>4. 1 + (k - 1) = k
    BY <1>1
  <2> QED BY <1>3, <2>2, <2>3, <2>4
<1> QED BY <1>1, <1>5, <1>6

\* What the EEPROM holds is what a reader finds there.
LEMMA WrittenIsHeld ==
  ASSUME TypeOK, Len(image) <= Size, Written(Len(image))
  PROVE  Holds(image)
<1>1. Len(image) \in Nat /\ Size \in Nat \ {0}
  BY ImageLength, FlashUtilsAssumption
<1> SUFFICES ASSUME NEW k \in 1..Len(image) PROVE k <= Size /\ Shown(k) = image[k]
  BY DEF Holds
<1>2. k - 1 \in 0..Size - 1 /\ k <= Size /\ k <= Len(image)
  BY <1>1
<1>3. (k - 1) % Size = k - 1
  BY <1>1, <1>2, SmallMod
<1> QED BY <1>2, <1>3 DEF Shown, Written

LEMMA SameSeq ==
  ASSUME NEW s \in Seq(Byte), NEW t \in Seq(Byte), Len(s) = Len(t),
         \A k \in 1..Len(s) : s[k] = t[k]
  PROVE  s = t
OBVIOUS

LEMMA WritePageKeeps == ASSUME ToolInv, Undisturbed, WritePage PROVE Undisturbed'
<1> SUFFICES ASSUME ~hurt', Fits' PROVE Undisturbed'
  BY DEF Undisturbed
<1>1. UNCHANGED <<op, page, image, buf, cut, wraps>> /\ Fine /\ ~hurt /\ Fits /\ pc = "write"
  BY DEF WritePage, Fine, Fault, Fits
<1>2. /\ TypeOK /\ PageStart /\ op = "program" /\ buf = image
      /\ at < Len(image) /\ Written(at) /\ Len(image) <= Size /\ Page % page = 0
  BY <1>1 DEF ToolInv, LoopInv, Undisturbed, Fits
<1>3. at \in Nat /\ Size \in Nat /\ Len(image) \in Nat /\ page \in Nat
  BY <1>2, ImageLength, FlashUtilsAssumption, PageIsPositive DEF TypeOK
<1>4. Answers
  BY <1>2, <1>3 DEF Answers
<1>5. eeprom' = WriteAt(image)
  BY <1>1, <1>2, <1>4 DEF WritePage, Fault
<1>6. \A k \in 1..Len(image) : k <= at + page => eeprom'[k - 1] = image'[k]
  BY <1>1, <1>2, <1>5, PageWritten
<1>7. CASE at + page < Len(buf)
  <2>1. at' = at + page /\ pc' = "write"
    BY <1>7 DEF WritePage, Goto
  <2> QED BY <1>1, <1>2, <1>6, <1>7, <2>1 DEF Undisturbed, Written
<1>8. CASE ~(at + page < Len(buf))
  <2>1. pc' = "readBack"
    BY <1>8 DEF WritePage, Goto
  <2>2. Written(Len(image))'
    BY <1>1, <1>2, <1>3, <1>6, <1>8 DEF Written
  <2> QED BY <1>1, <1>2, <2>1, <2>2 DEF Undisturbed
<1> QED BY <1>7, <1>8

LEMMA ReadPageKeeps == ASSUME ToolInv, Undisturbed, ReadPage PROVE Undisturbed'
<1> SUFFICES ASSUME ~hurt', Fits' PROVE Undisturbed'
  BY DEF Undisturbed
<1>1. UNCHANGED <<eeprom, op, page, image, buf>> /\ Fine /\ ~hurt /\ Fits /\ pc = "readBack"
  BY DEF ReadPage, Fine, Fault, Fits
<1>2. /\ TypeOK /\ op = "program" /\ buf = image /\ ~cut /\ Written(Len(image))
      /\ (at = 0 \/ at < Len(image)) /\ Len(image) <= Size /\ image # <<>>
  BY <1>1 DEF ToolInv, LoopInv, Undisturbed, Fits
<1>3. at \in Nat /\ Size \in Nat \ {0} /\ Len(image) \in Nat
  BY <1>2, ImageLength, FlashUtilsAssumption DEF TypeOK
<1>4. Answers
  BY <1>2, <1>3 DEF Answers
<1>5. ~Fault
  BY <1>1 DEF Fine, Fault, ToolInv, TypeOK
<1>6. ~cut' /\ pc' \in {"readBack", "crc"}
  BY <1>2, <1>4, <1>5 DEF ReadPage, AfterRead, Goto
<1>7. Written(Len(image))'
  BY <1>1, <1>2 DEF Written
<1> QED BY <1>1, <1>2, <1>6, <1>7 DEF Undisturbed

LEMMA CompareKeeps == ASSUME ToolInv, Undisturbed, CompareCrc PROVE Undisturbed'
<1> SUFFICES ASSUME ~hurt', Fits' PROVE Undisturbed'
  BY DEF Undisturbed
<1>1. /\ UNCHANGED <<eeprom, op, page, image, buf, back>> /\ ~hurt /\ Fits /\ pc = "crc"
      /\ pc' = "idle" /\ verdict' = (IF back = buf THEN "PASSED" ELSE "ERROR")
  BY DEF CompareCrc, Fine, Fits, Exit
<1>2. /\ TypeOK /\ op = "program" /\ buf = image /\ ~cut /\ Written(Len(image)) /\ Copied
      /\ Len(back) = Len(image) /\ Len(image) <= Size
  BY <1>1 DEF ToolInv, LoopInv, Undisturbed, Fits
<1>3. back = buf
  <2>1. \A k \in 1..Len(back) : back[k] = buf[k]
    BY <1>2, WrittenIsHeld DEF Copied, Found, Holds
  <2> QED BY <1>2, <2>1, SameSeq DEF TypeOK, Byte
<1>4. Written(Len(image))'
  BY <1>1, <1>2 DEF Written
<1> QED BY <1>1, <1>2, <1>3, <1>4 DEF Undisturbed

LEMMA FruWriteKeeps == ASSUME ToolInv, Undisturbed, FruWrite PROVE Undisturbed'
<1> SUFFICES ASSUME ~hurt', Fits' PROVE Undisturbed'
  BY DEF Undisturbed
<1>1. UNCHANGED <<op, page, image, buf>> /\ Fine /\ ~hurt /\ Fits /\ pc = "fruWrite"
  BY DEF FruWrite, Fine, Fault, Fits
<1>2. TypeOK /\ op = "fru" /\ buf = image /\ Len(image) <= Size /\ image # <<>>
  BY <1>1 DEF ToolInv, Undisturbed, Fits
<1>3. Len(image) \in Nat /\ Size \in Nat
  BY <1>2, ImageLength, FlashUtilsAssumption
<1>4. ~Fault /\ ~(Len(buf) > Size)
  BY <1>1, <1>2, <1>3 DEF Fine, Fault, TypeOK
<1>5. eeprom' = FirstCells(image, Len(image)) /\ AfterFruWrite
  BY <1>2, <1>4 DEF FruWrite
<1>6. Written(Len(image))'
  BY <1>1, <1>2, <1>3, <1>5 DEF Written, FirstCells, Cells
<1>7. pc' = "fruVerify" \/ (pc' = "idle" /\ verdict' = "OK")
  BY <1>5 DEF AfterFruWrite, Exit, Goto
<1> QED BY <1>1, <1>2, <1>6, <1>7 DEF Undisturbed

LEMMA FruVerifyKeeps == ASSUME ToolInv, Undisturbed, FruVerify PROVE Undisturbed'
<1> SUFFICES ASSUME ~hurt', Fits' PROVE Undisturbed'
  BY DEF Undisturbed
<1>1. UNCHANGED <<eeprom, op, page, image, buf>> /\ Fine /\ ~hurt /\ Fits /\ pc = "fruVerify"
  BY DEF FruVerify, Fine, Fault, Fits
<1>2. TypeOK /\ op = "fru" /\ buf = image /\ Len(image) <= Size /\ Written(Len(image))
  BY <1>1 DEF ToolInv, Undisturbed, Fits
<1>3. Len(image) \in Nat /\ Size \in Nat
  BY <1>2, ImageLength, FlashUtilsAssumption
<1>4. ~Fault /\ ~(Len(buf) > Size)
  BY <1>1, <1>2, <1>3 DEF Fine, Fault, TypeOK
<1>5. back' = [k \in 1..Len(image) |-> eeprom[k - 1]]
  BY <1>2, <1>4 DEF FruVerify
<1>6. back' = image
  <2>1. [k \in 1..Len(image) |-> eeprom[k - 1]] = [k \in 1..Len(image) |-> image[k]]
    BY <1>2, <1>3 DEF Written
  <2>2. \A t \in Seq(Data) : t = [k \in 1..Len(t) |-> t[k]]
    OBVIOUS
  <2> QED BY <1>2, <1>5, <2>1, <2>2, ImageIsSeq
<1>7. pc' = "idle" /\ verdict' = "OK"
  BY <1>2, <1>6 DEF FruVerify, Exit
<1>8. Written(Len(image))'
  BY <1>1, <1>2 DEF Written
<1> QED BY <1>1, <1>2, <1>7, <1>8 DEF Undisturbed

LEMMA StepUndisturbed == ToolInv /\ Undisturbed /\ [Next]_vars => Undisturbed'
<1> SUFFICES ASSUME ToolInv, Undisturbed, [Next]_vars PROVE Undisturbed'
  OBVIOUS
<1>1. CASE Invoke
  BY <1>1 DEF Invoke, Undisturbed
<1>2. CASE Probe
  BY <1>2 DEF Probe, Fault, Undisturbed, Fits, Exit, Goto
<1>3. CASE Load
  <2> SUFFICES ASSUME ~hurt', Fits' PROVE Undisturbed'
    BY DEF Undisturbed
  <2>1. /\ UNCHANGED <<eeprom, op, image, at, cut>> /\ buf' = image
        /\ Goto(IF op = "fru" THEN "fruWrite" ELSE "write")
    BY <1>3 DEF Load, Fault
  <2>2. at = 0 /\ TypeOK
    BY <1>3 DEF Load, ToolInv, LoopInv
  <2>3. Len(image) > 0 /\ \A k \in 1..Len(image) : ~(k <= 0)
    BY <2>1, <2>2, ImageLength DEF Fits
  <2> QED BY <2>1, <2>2, <2>3 DEF Undisturbed, Written, Goto
<1>4. CASE WritePage
  BY <1>4, WritePageKeeps
<1>5. CASE EmptyFile
  BY <1>5 DEF EmptyFile, DividesByZero, Fine, Undisturbed, Fits
<1>6. CASE ReadPage
  BY <1>6, ReadPageKeeps
<1>7. CASE CompareCrc
  BY <1>7, CompareKeeps
<1>8. CASE FruWrite
  BY <1>8, FruWriteKeeps
<1>9. CASE FruVerify
  BY <1>9, FruVerifyKeeps
<1>10. CASE FruVerifyFails \/ Kill
  BY <1>10 DEF FruVerifyFails, Kill, Fault, Undisturbed
<1>11. CASE UNCHANGED vars
  BY <1>11 DEF vars, tool, Undisturbed, Fits, Written
<1> QED
  BY <1>1, <1>2, <1>3, <1>4, <1>5, <1>6, <1>7, <1>8, <1>9, <1>10, <1>11 DEF Next

\* An invocation in which nothing fails brings a file that fits into the EEPROM
\* and says so, whatever any number of earlier ones left, if the page size is at
\* most the EEPROM's and divides it (program_fw, main of ampere_fru_upgrade).
THEOREM UndisturbedHeals == Spec => []Heals
<1>1. Init => Undisturbed
  BY DEF Init, Undisturbed, Fits
<1>2. ToolInv /\ Undisturbed => Heals
  <2> SUFFICES ASSUME ToolInv, Undisturbed, Fits, pc = "idle", ~hurt
               PROVE  verdict = (IF op = "fru" THEN "OK" ELSE "PASSED") /\ Holds(image)
    BY DEF Heals, Fits
  <2>1. TypeOK /\ Len(image) <= Size /\ Written(Len(image))
    BY DEF ToolInv, Undisturbed, Fits
  <2> QED BY <2>1, WrittenIsHeld DEF Undisturbed
<1> QED BY <1>1, <1>2, StepUndisturbed, Inductive, PTL DEF Spec
===============================================================================
