------------------------------ MODULE CpldUpdate ------------------------------
(***************************************************************************)
(* The two CPLD update tools (ampere_cpldupdate_i2c, ampere_cpldupdate_    *)
(* jtag): one invocation after another, each a process that detects the    *)
(* chip, reads its version or ID, adds up its flash, or erases, programs   *)
(* and verifies it, and says PASS or FAIL.  What lasts from one invocation *)
(* to the next is the chip: its flash, its programming mode and its page   *)
(* pointer.                                                                *)
(*                                                                         *)
(* A step is a call of the device library up to the next point where it    *)
(* looks at the device.  A transfer may fail, the device may stay busy, a  *)
(* row may be stored wrongly, and the tool may be killed between any two   *)
(* steps.  Over I2C a failed transfer is reported; over JTAG nobody looks  *)
(* at the result, and the tool goes on as if it had happened.              *)
(***************************************************************************)
EXTENDS JedFile, FiniteSets

CONSTANTS
  Boards,      \* pairs of the chip behind the bus and the tool, "i2c" or "jtag"
  Ops,         \* options of the command line
  Lines,       \* the JEDEC files one may give: name to sequence of lines,
               \* none for a file that cannot be opened
  CFRows,      \* rows of the configuration flash the model looks at
  UFMRows,     \* rows of the user flash
  OldRow,      \* what the flash holds at first
  JunkRow,     \* a row stored wrongly, or read when no row is selected
  MaxFaults    \* bound: failures and kills over all invocations

ChipKinds == {"LCMXO3LF", "LCMXO3D", "YZBB", "ANLOGIC"}
Lattice == {"LCMXO3LF", "LCMXO3D"}

\* No file was given, or none was parsed, in this invocation.
NoFile == "none"
NoInfo == [cf |-> <<>>, ufm |-> <<>>, end |-> <<>>, allocated |-> <<0, 0, 0>>,
           checkSum |-> 0, ok |-> TRUE]

ASSUME CpldAssumption ==
  /\ Boards \subseteq (ChipKinds \X {"i2c"}) \cup (Lattice \X {"jtag"})
  /\ Ops \subseteq {"program", "version", "id", "checksum"}
  /\ CFRows \in Nat /\ UFMRows \in Nat /\ MaxFaults \in Nat
  /\ OldRow \in Row /\ JunkRow \in Row
  /\ \A f \in DOMAIN Lines :
       LET img == Load(Lines[f])
       IN /\ Lines[f] \in Seq(Line)
          /\ Len(img.cf) <= CFRows /\ Len(img.ufm) <= UFMRows

Files == DOMAIN Lines

VARIABLES
  chip,       \* the chip behind the bus
  intf,       \* the tool in use
  cf,         \* its configuration flash
  ufm,        \* its user flash
  usercode,   \* whose USERCODE it has: "old" or "new"
  mode,       \* "user", or "prog" while the flash may be accessed
  ptr,        \* the page the next write or read is for
  misstored,  \* a row was stored wrongly since the last erase
  pc,         \* the next call of the tool; "idle" when none runs
  op,         \* what was asked for
  stage,      \* the library call in progress: "version", "update", "checksum"
  file,       \* the file given
  devInfo,    \* dev_info: what the parser made of it
  i,          \* the row of the loop
  sum,        \* crc
  verdict,    \* what the tool printed last
  hurt,       \* something failed during this invocation
  blind,      \* what failed was to open or read the flash it verifies
  faults      \* failures so far

flash  == <<cf, ufm, usercode, misstored>>
device == <<flash, mode, ptr>>
tool   == <<pc, op, stage, file, devInfo, i, sum, verdict>>
request == <<op, file, devInfo>>
world  == <<chip, intf>>
fate   == <<hurt, blind, faults>>
vars   == <<world, device, tool, fate>>

Labels == {"idle", "scan", "id", "yzVersion", "parse", "start", "usercode", "erase",
           "initCF", "sendCF", "initUFM", "sendUFM", "programmed", "writeUsercode",
           "initVerify", "verify", "add", "done", "refresh", "disable"}

Init ==
  /\ \E board \in Boards : chip = board[1] /\ intf = board[2]
  /\ cf = [r \in 1..CFRows |-> OldRow] /\ ufm = [r \in 1..UFMRows |-> OldRow]
  /\ usercode = "old" /\ mode = "user" /\ misstored = FALSE
  /\ ptr = [area |-> "none", row |-> 1]
  /\ pc = "idle" /\ op = "none" /\ stage = "none" /\ file = NoFile
  /\ devInfo = NoInfo
  /\ i = 1 /\ sum = 0 /\ verdict = "none"
  /\ hurt = FALSE /\ blind = FALSE /\ faults = 0

-------------------------------------------------------------------------------
(* The chip, as the code uses it.                                           *)

AreaRows(area) == IF area = "cf" THEN CFRows ELSE IF area = "ufm" THEN UFMRows ELSE 0
AtRow == mode = "prog" /\ ptr.row <= AreaRows(ptr.area)
Advanced == [ptr EXCEPT !.row = @ + 1]

\* Programming can only add to what is there: a row that is not blank becomes
\* neither the old one nor the new one.
Stored(old, new) == IF old \in {Blank, new} THEN new ELSE JunkRow

StoreAt(area, rows, new) ==
  IF AtRow /\ ptr.area = area THEN [rows EXCEPT ![ptr.row] = Stored(@, new)] ELSE rows

\* One row goes to where the pointer is, whatever section it is of.
Write(new) ==
  /\ cf' = StoreAt("cf", cf, new)
  /\ ufm' = StoreAt("ufm", ufm, new)
  /\ ptr' = IF AtRow THEN Advanced ELSE ptr

RowAtPtr ==
  IF ~AtRow THEN JunkRow ELSE IF ptr.area = "cf" THEN cf[ptr.row] ELSE ufm[ptr.row]

\* A row stored wrongly: all of it, or only what follows its first word.
Spoiled(row) == {JunkRow, [head |-> row.head, tail |-> JunkRow.tail]}

-------------------------------------------------------------------------------
(* What may go wrong, and how a call returns.                               *)

Fine  == UNCHANGED fate
Failed == faults < MaxFaults /\ faults' = faults + 1 /\ hurt' = TRUE
Fault == Failed /\ UNCHANGED blind
\* The update goes on without the flash open, or without having read it.
FaultOfVerify == Failed /\ blind' = (blind \/ stage = "update")
\* The tool ends of its own fault.
Dies == hurt' = TRUE /\ UNCHANGED <<blind, faults>>

Goto(label) == pc' = label /\ UNCHANGED <<stage, verdict>>
Exit(v) == pc' = "idle" /\ stage' = "none" /\ verdict' = v

\* After the version: done, or on to the ID and the update.
VersionReturns(v) ==
  IF op = "version" THEN Exit(v) ELSE pc' = "id" /\ stage' = "none" /\ UNCHANGED verdict

\* A library call returns an error to main.
Return ==
  CASE stage = "version"  -> VersionReturns("NA")
    [] stage = "checksum" -> Exit("NA")
    [] stage = "update"   -> Exit("FAIL")

\* Mutant: nobody looks at the result over I2C either.
LostTransferUnseen(next) == Goto(next)

\* A transfer failed: i2c_rdwr_msg_transfer says so and the call returns;
\* the results of the ast_jtag_*_xfer functions are not used.
LostTransfer(next) == IF intf = "i2c" THEN Return ELSE Goto(next)

SameRequest == UNCHANGED <<request, i, sum>>

-------------------------------------------------------------------------------
Invoke ==
  /\ pc = "idle"
  /\ op' \in Ops
  /\ file' \in IF op' \in {"program", "checksum"} THEN Files ELSE {NoFile}
  /\ devInfo' = NoInfo
  /\ pc' = "scan" /\ stage' = "none" /\ verdict' = "none"
  /\ i' = 1 /\ sum' = 0
  /\ hurt' = FALSE /\ blind' = FALSE /\ UNCHANGED faults
  /\ UNCHANGED <<world, device>>

\* main, once cpld_scan has found the chip.
Detected ==
  IF op = "id" THEN Goto("id")
  ELSE IF op = "checksum" THEN pc' = "parse" /\ stage' = "checksum" /\ UNCHANGED verdict
  ELSE pc' = (IF chip \in Lattice THEN "start" ELSE "yzVersion")
       /\ stage' = "version" /\ UNCHANGED verdict

\* yzbb_i2c_cpld_get_id up to its n-th transfer (7 when all went through):
\* enable, status, pointer to the UFM, read, disable, bypass.
YzbbGetId(n) ==
  /\ mode' = IF n \in 2..5 THEN "prog" ELSE IF n > 5 THEN "user" ELSE mode
  /\ ptr' = IF n > 3 THEN [area |-> "ufm", row |-> IF n > 4 THEN 2 ELSE 1] ELSE ptr
  /\ UNCHANGED flash

\* cpld_scan finds a chip whose ID answers the first request.
ScanLattice ==
  /\ pc = "scan" /\ chip \in Lattice
  /\ Detected /\ Fine
  /\ SameRequest /\ UNCHANGED <<world, device>>

\* Otherwise, over I2C, it asks as one asks a YZBB chip, ignoring how that
\* ends; the ID has been read if the fourth transfer went through.  A Lattice
\* chip knows the commands too.
ScanYzbb(n) ==
  /\ pc = "scan" /\ intf = "i2c"
  /\ IF chip \in Lattice \/ n < 7 THEN Fault ELSE Fine
  /\ YzbbGetId(n)
  /\ IF chip \in {"YZBB", "ANLOGIC"} /\ n > 4 THEN Detected ELSE Exit("UNSUPPORTED")
  /\ SameRequest /\ UNCHANGED world

\* Over JTAG a failed transfer leaves 0 for the ID.
ScanJtagFails ==
  /\ pc = "scan" /\ intf = "jtag"
  /\ Fault /\ Exit("UNSUPPORTED")
  /\ SameRequest /\ UNCHANGED <<world, device>>

\* The version register of a YZBB chip.  The library for ANLOGIC chips was
\* never opened: its transfers go to descriptor 0 and fail.
YzbbVersion ==
  /\ pc = "yzVersion"
  /\ \/ chip = "YZBB" /\ Fine /\ VersionReturns("SHOWN")
     \/ chip = "YZBB" /\ Fault /\ VersionReturns("NA")
     \/ chip = "ANLOGIC" /\ Fine /\ VersionReturns("NA")
  /\ SameRequest /\ UNCHANGED <<world, device>>

\* The ID is only printed, and an update goes on without it.
IdReturns(v) ==
  IF op = "id" THEN Exit(v) ELSE pc' = "parse" /\ stage' = "update" /\ UNCHANGED verdict

GetId ==
  /\ pc = "id"
  /\ \/ chip \in Lattice /\ Fine /\ IdReturns("SHOWN") /\ UNCHANGED device
     \/ chip \in Lattice /\ Fault /\ UNCHANGED device
          /\ IdReturns(IF intf = "i2c" THEN "NA" ELSE "SHOWN")
     \/ chip = "YZBB" /\ Fine /\ IdReturns("SHOWN") /\ YzbbGetId(7)
     \/ chip = "YZBB" /\ Fault /\ IdReturns("NA") /\ \E n \in 1..6 : YzbbGetId(n)
     \/ chip = "ANLOGIC" /\ Fine /\ IdReturns("NA") /\ UNCHANGED device
  /\ SameRequest /\ UNCHANGED world

\* The two passes over the file.  A row past the end of a buffer lands on the
\* heap behind it, where it does no harm or ends the tool sooner or later, which
\* is a Kill; a row for a buffer that was not allocated goes to the null pointer.
Parse ==
  /\ pc = "parse" /\ chip # "ANLOGIC"
  /\ devInfo' = Load(Lines[file])
  /\ IF NoBuffer(devInfo') THEN Exit("KILLED") /\ Dies
     ELSE Fine /\ IF devInfo'.ok THEN Goto("start") ELSE Return
  /\ UNCHANGED <<op, file, i, sum, world, device>>

\* The ANLOGIC library takes the file as it is.  The first transfer of an update
\* fails; the checksum ignores that, and adds to a crc that main did not set.
Anlogic ==
  /\ pc = "parse" /\ chip = "ANLOGIC"
  /\ IF stage = "update"
     THEN Exit("FAIL") /\ UNCHANGED sum
     ELSE IF Lines[file] = <<>> THEN Exit("NA") /\ UNCHANGED sum
     ELSE Exit("SUM") /\ sum' \in 0..SumMod - 1
  /\ Fine /\ UNCHANGED <<request, i, world, device>>

-------------------------------------------------------------------------------
(* The library calls of lattice.c, the same for both interfaces.            *)

AfterStart ==
  CASE stage = "version"  -> Goto("usercode")
    [] stage = "update"   -> Goto("erase")
    [] stage = "checksum" -> Goto("add")

\* *_cpld_start.  What counts is the status read last: a device found busy before
\* that, or whose answer was lost, is forgotten.
Start ==
  /\ pc = "start"
  /\ \/ (Fine \/ Fault) /\ mode' = "prog" /\ AfterStart
     \/ Fault /\ mode' = "prog" /\ Return
     \/ FaultOfVerify /\ mode' = mode /\ (IF intf = "i2c" THEN Return ELSE AfterStart)
  /\ SameRequest /\ UNCHANGED <<world, flash, ptr>>

\* A version that cannot be read returns without ending the mode.
ReadUsercode ==
  /\ pc = "usercode"
  /\ \/ Fine /\ Goto("done")
     \/ Fault /\ LostTransfer("done")
  /\ SameRequest /\ UNCHANGED <<world, device>>

Blanked(rows) == [r \in DOMAIN rows |-> Blank]

\* Mutant: the other bank is erased.
ErasesUFMUnlessGiven == devInfo.ufm = <<>>

\* The user flash is erased with the other if the file has some for it; the
\* JTAG call for the LCMXO3D has one operand, for the configuration.
ErasesUFM == devInfo.ufm # <<>> /\ ~(intf = "jtag" /\ chip = "LCMXO3D")

EraseDevice ==
  IF mode = "prog"
  THEN /\ cf' = Blanked(cf) /\ misstored' = FALSE
       /\ ufm' = IF ErasesUFM THEN Blanked(ufm) ELSE ufm
       /\ UNCHANGED usercode
  ELSE UNCHANGED flash

\* As at the start, the status read last counts.
Erase ==
  /\ pc = "erase"
  /\ \/ (Fine \/ Fault) /\ EraseDevice /\ Goto("initCF")
     \/ Fault /\ EraseDevice /\ Return
     \/ Fault /\ UNCHANGED flash /\ LostTransfer("initCF")
  /\ SameRequest /\ UNCHANGED <<world, mode, ptr>>

\* Set the page pointer and begin a loop over the rows.
InitAddress(label, area, next) ==
  /\ pc = label
  /\ \/ Fine /\ ptr' = [area |-> area, row |-> 1] /\ Goto(next)
     \/ Fault /\ ptr' = ptr /\ LostTransfer(next)
  /\ i' = 1
  /\ UNCHANGED <<request, sum, world, flash, mode>>

InitCF  == InitAddress("initCF", "cf", "sendCF")
InitUFM == InitAddress("initUFM", "ufm", "sendUFM")

\* *_sendCFdata, *_sendUFMdata: one row and the wait for the device.
SendRow(label, rows) ==
  /\ pc = label /\ i <= Len(rows)
  /\ \/ Fine /\ Write(rows[i]) /\ misstored' = misstored /\ Goto(label)
     \/ Fault /\ (\E row \in Spoiled(rows[i]) : Write(row)) /\ misstored' = TRUE
          /\ Goto(label)
     \/ Fault /\ Write(rows[i]) /\ misstored' = misstored /\ Return
     \/ Fault /\ UNCHANGED <<cf, ufm, ptr, misstored>> /\ LostTransfer(label)
  /\ i' = i + 1
  /\ UNCHANGED <<request, sum, world, usercode, mode>>

RowsSent(label, rows, next) ==
  /\ pc = label /\ i > Len(rows)
  /\ Goto(next) /\ Fine
  /\ SameRequest /\ UNCHANGED <<world, device>>

SendCF  == SendRow("sendCF", devInfo.cf)
SendUFM == SendRow("sendUFM", devInfo.ufm)
CFSent  == RowsSent("sendCF", devInfo.cf,
                    IF devInfo.ufm = <<>> THEN "programmed" ELSE "initUFM")
UFMSent == RowsSent("sendUFM", devInfo.ufm, "programmed")

\* The status between the rows and the user code.
CheckProgrammed ==
  /\ pc = "programmed"
  /\ \/ Fine /\ Goto("writeUsercode")
     \/ Fault /\ Return
  /\ SameRequest /\ UNCHANGED <<world, device>>

WriteUsercode ==
  /\ pc = "writeUsercode"
  /\ \/ Fine /\ usercode' = (IF mode = "prog" THEN "new" ELSE usercode) /\ Goto("initVerify")
     \/ Fault /\ usercode' = (IF mode = "prog" THEN "new" ELSE usercode) /\ Return
     \/ Fault /\ UNCHANGED usercode /\ LostTransfer("initVerify")
  /\ SameRequest /\ UNCHANGED <<world, cf, ufm, misstored, mode, ptr>>

\* Over JTAG the pointer, or the instruction that reads, may be lost.
InitVerify ==
  /\ pc = "initVerify"
  /\ \/ Fine /\ ptr' = [area |-> "cf", row |-> 1] /\ Goto("verify")
     \/ FaultOfVerify /\ ptr' \in {ptr, [ptr EXCEPT !.area = "none"]}
          /\ LostTransfer("verify")
  /\ i' = 1
  /\ UNCHANGED <<request, sum, world, flash, mode>>

\* Mutant: a row that differs is only reported.
CompareAndGoOn(read, row) == Goto("verify")

\* Only the first word of a row is compared.
Compare(read, row) == IF read.head = row.head THEN Goto("verify") ELSE Return

\* *_cpld_verify: over JTAG a read that failed leaves a buffer of zeros.
VerifyRow ==
  /\ pc = "verify" /\ i <= Len(devInfo.cf)
  /\ \/ Fine /\ Compare(RowAtPtr, devInfo.cf[i]) /\ ptr' = (IF AtRow THEN Advanced ELSE ptr)
     \/ FaultOfVerify /\ ptr' = ptr
          /\ IF intf = "i2c" THEN Return ELSE Compare(Blank, devInfo.cf[i])
  /\ i' = i + 1
  /\ UNCHANGED <<request, sum, world, flash, mode>>

Verified == RowsSent("verify", devInfo.cf, "done")

\* The LCMXO3D takes an address of three bytes over JTAG when it is programmed
\* and verified, and is given one of one byte for the checksum.
OtherAddress == intf = "jtag" /\ chip = "LCMXO3D"

\* *_cpld_checksum: the rows the file has, as they are in the device; which rows
\* come of the other address is for the chip to say.
ReadRows(rows, n) == [r \in 1..n |-> IF mode = "prog" THEN rows[r] ELSE JunkRow]
AddUp ==
  /\ pc = "add"
  /\ LET img == devInfo IN
     \/ /\ Fine /\ Goto("done")
        /\ sum' \in IF OtherAddress THEN 0..SumMod - 1
                   ELSE {DeviceSum(intf, ReadRows(cf, Len(img.cf)), ReadRows(ufm, Len(img.ufm)),
                                   img.end)}
        /\ ptr' = [area |-> "ufm", row |-> Len(img.ufm) + 1]
     \/ /\ Fault /\ LostTransfer("done")
        /\ sum' \in IF intf = "i2c" THEN {sum} ELSE 0..SumMod - 1
        /\ ptr' = [area |-> "cf", row |-> 1]
  /\ UNCHANGED <<request, i, world, flash, mode>>

Ends ==
  CASE stage = "version"  -> VersionReturns("SHOWN")
    [] stage = "checksum" -> Exit("SUM")
    [] stage = "update"   -> Exit("PASS")

\* *_cpld_end sets the done bit and looks at the status.  Over JTAG a bad
\* status is returned after the mode was left; over I2C it is overwritten.
ProgramDone ==
  /\ pc = "done"
  /\ \/ Fine /\ mode' = mode /\ Goto(IF intf = "i2c" THEN "refresh" ELSE "disable")
     \/ Fault /\ mode' = mode /\ LostTransfer("disable")
     \/ Fault /\ IF intf = "i2c" THEN mode' = mode /\ Goto("refresh")
                                 ELSE mode' = "user" /\ Return
  /\ SameRequest /\ UNCHANGED <<world, flash, ptr>>

\* Only over I2C: the chip loads what is in its flash.
Refresh ==
  /\ pc = "refresh"
  /\ \/ Fine /\ Goto("disable")
     \/ Fault /\ Return
  /\ SameRequest /\ UNCHANGED <<world, device>>

Disable ==
  /\ pc = "disable"
  /\ \/ Fine /\ mode' = "user" /\ Ends
     \/ Fault /\ mode' = mode /\ (IF intf = "i2c" THEN Return ELSE Ends)
  /\ SameRequest /\ UNCHANGED <<world, flash, ptr>>

\* The tool is killed; nobody takes the chip out of the programming mode.
Kill ==
  /\ pc # "idle"
  /\ Fault /\ Exit("KILLED")
  /\ SameRequest /\ UNCHANGED <<world, device>>

-------------------------------------------------------------------------------
ToolStep ==
  \/ ScanLattice \/ (\E n \in 1..7 : ScanYzbb(n)) \/ ScanJtagFails
  \/ YzbbVersion \/ GetId \/ Parse \/ Anlogic
  \/ Start \/ ReadUsercode \/ Erase
  \/ InitCF \/ SendCF \/ CFSent \/ InitUFM \/ SendUFM \/ UFMSent
  \/ CheckProgrammed \/ WriteUsercode
  \/ InitVerify \/ VerifyRow \/ Verified \/ AddUp
  \/ ProgramDone \/ Refresh \/ Disable

Next == Invoke \/ ToolStep \/ Kill

Spec == Init /\ [][Next]_vars

-------------------------------------------------------------------------------
(* What the tools promise.                                                  *)

\* The types of all variables but the checksum.
ToolTypes ==
  /\ <<chip, intf>> \in Boards
  /\ cf \in [1..CFRows -> Row] /\ ufm \in [1..UFMRows -> Row]
  /\ usercode \in {"old", "new"} /\ mode \in {"user", "prog"} /\ misstored \in BOOLEAN
  /\ ptr \in [area : {"none", "cf", "ufm"}, row : Nat \ {0}]
  /\ pc \in Labels /\ op \in Ops \cup {"none"} /\ file \in Files \cup {NoFile}
  /\ stage \in {"none", "version", "update", "checksum"}
  /\ stage = "none" <=> pc \in {"idle", "scan", "id"}
  /\ i \in 1..CFRows + UFMRows + 1
  /\ verdict \in {"none", "PASS", "FAIL", "SHOWN", "NA", "SUM", "UNSUPPORTED", "KILLED"}
  /\ hurt \in BOOLEAN /\ blind \in BOOLEAN /\ faults \in 0..MaxFaults

\* Every variable keeps its type, the row of each loop stays in the flash, a
\* call is in progress exactly between its start and its return, and the
\* checksum has 16 bits.
TypeOK == ToolTypes /\ sum \in 0..SumMod - 1

Holds(rows, wanted) == \A r \in 1..Len(wanted) : rows[r] = wanted[r]

\* After PASS the first word of every configuration row is the file's, whatever
\* erase, write or status failed on the way, whatever the flash stored wrongly
\* and whatever earlier invocations left, provided the tool could open the flash
\* and read it back: over I2C it would say so, over JTAG a lost read passes for a
\* row that begins with zeros and puts the rows after it off by one
\* (*_cpld_verify, *_cpld_update).
PassMeansHeads ==
  (verdict = "PASS" /\ ~blind) =>
    \A r \in 1..Len(devInfo.cf) : cf[r].head = devInfo.cf[r].head

\* Over I2C every failed transfer and every busy device is noticed before the
\* PASS: unless the flash itself stored a row wrongly, a PASS means that both
\* flashes and the user code are the file's, and that the chip has left the
\* programming mode (i2c_cpld_update and what it calls).
PassMeansStored ==
  (verdict = "PASS" /\ intf = "i2c") =>
    /\ mode = "user"
    /\ ~misstored =>
         /\ Holds(cf, devInfo.cf) /\ Holds(ufm, devInfo.ufm)
         /\ usercode = "new"

\* An update in which nothing fails passes and leaves the file's image, also
\* after updates that were killed or failed half-way; the LCMXO3D's user flash
\* over JTAG, which is never erased, is the exception (main, *_cpld_update).
RetryHeals ==
  (pc = "idle" /\ op = "program" /\ chip # "ANLOGIC" /\ devInfo.ok /\ ~hurt
     /\ verdict # "none") =>
    /\ verdict = "PASS" /\ mode = "user"
    /\ Holds(cf, devInfo.cf) /\ usercode = "new"
    /\ Holds(ufm, devInfo.ufm) \/ (intf = "jtag" /\ chip = "LCMXO3D")

\* The checksum shown for a device that holds the file differs from the one that
\* the file gives by its end section and by nothing else: over I2C it lacks the
\* section, over JTAG it counts line n of it from word n on instead.  For a file
\* without one (over JTAG: of one line) it is the same.  Of the LCMXO3D over JTAG
\* nothing is said, its rows are not read by the address they were written to
\* (*_cpld_checksum against jed_file_parser).
ChecksumTells ==
  LET img == devInfo IN
  (verdict = "SUM" /\ ~hurt /\ chip # "ANLOGIC" /\ ~OtherAddress
     /\ Holds(cf, img.cf) /\ Holds(ufm, img.ufm)) =>
    /\ (sum + SumRows(img.end)) % SumMod =
         (img.checkSum + IF intf = "jtag" THEN JtagEndSum(img.end) ELSE 0) % SumMod
    /\ Len(img.end) <= (IF intf = "jtag" THEN 1 ELSE 0) => sum = img.checkSum

\* The second pass over an orderly file stores as many lines in each buffer as
\* the first pass allocated for it.  Nothing makes sure that the file is orderly:
\* digits after the notes of one whose last section is open are stored and were
\* not counted (jed_update_data_size, jed_file_parser).
BuffersFit ==
  (file \in Files /\ Orderly(Lines[file])) =>
    devInfo.allocated = <<Len(devInfo.cf), Len(devInfo.ufm), Len(devInfo.end)>>
===============================================================================
