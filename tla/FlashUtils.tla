------------------------------ MODULE FlashUtils ------------------------------
(***************************************************************************)
(* The two tools of flash-utils: ampere_eeprom_prog, which programs,       *)
(* reads or detects an EEPROM over I2C page by page, and                   *)
(* ampere_fru_upgrade, which writes a file to the EEPROM's sysfs device.   *)
(* One invocation follows another; what lasts is the EEPROM.  Both check   *)
(* what they wrote by a CRC32 over a copy they read back, and look at      *)
(* little else: most failures of the calls before it go unseen.            *)
(***************************************************************************)
EXTENDS Integers, Sequences

CONSTANTS
  Data,       \* what a cell may hold when it was written as it should
  Junk,       \* anything else
  Images,     \* contents of the files
  ZeroCrc,    \* those whose CRC32 is 0
  Size,       \* cells of the EEPROM
  Page,       \* cells of one of its pages
  PageSizes,  \* page sizes one can select with -t
  Initial,    \* what the EEPROM holds at first
  MaxFaults   \* bound: failures and kills over all invocations

ASSUME FlashUtilsAssumption ==
  /\ Junk \notin Data /\ Images \subseteq Seq(Data) /\ ZeroCrc \subseteq Images
  /\ Page \in Nat \ {0} /\ PageSizes \subseteq Nat \ {0}
  /\ Size \in Nat \ {0} /\ \A p \in PageSizes \cup {Page} : Size % p = 0
  /\ MaxFaults \in Nat
  /\ Initial \in [0..Size - 1 -> Data \cup {Junk}]

Cells == 0..Size - 1

VARIABLES
  eeprom,
  wraps,     \* it has less than the 64 KB of an address: offsets wrap
  pc,        \* the next call; "idle" when no tool runs
  op,        \* "detect", "read", "program", or "fru"
  page,      \* the page size the tool works with
  image,     \* the file
  buf,       \* what the tool read of it
  back,      \* what it read back, or showed
  at,        \* off, the cell of the next page
  verdict,   \* how the last invocation ended
  hurt,      \* something failed during it
  cut,       \* history: the copy read back was cut short
  faults

tool == <<op, page, image, buf, back, at, verdict, cut>>
vars == <<eeprom, wraps, pc, tool, hurt, faults>>

Init ==
  /\ eeprom = Initial /\ wraps \in BOOLEAN /\ pc = "idle"
  /\ op = "none" /\ page = Page /\ image = <<>> /\ buf = <<>> /\ back = <<>>
  /\ at = 0 /\ verdict = "none" /\ hurt = FALSE /\ cut = FALSE /\ faults = 0

-------------------------------------------------------------------------------
Fine  == UNCHANGED <<wraps, hurt, faults>>
Fault == faults < MaxFaults /\ faults' = faults + 1 /\ hurt' = TRUE /\ UNCHANGED wraps

Goto(label) == pc' = label /\ UNCHANGED verdict
Exit(v) == pc' = "idle" /\ verdict' = v

AllJunk(n) == [k \in 1..n |-> Junk]

\* Mutant: the file is read back over itself.
CopyBufferOfFile == image

\* The memory the EEPROM is read into.
CopyBuffer == AllJunk(Len(image))

\* The first k cells are those of s, the rest of the other sequence.
Splice(s, k, rest) == [j \in 1..Len(rest) |-> IF j <= k THEN s[j] ELSE rest[j]]

\* parse_arguments and the start of main.  -r takes the length of a file as the
\* number of cells to read.
Invoke ==
  /\ pc = "idle"
  /\ op' \in {"detect", "read", "program", "fru"}
  /\ page' \in IF op' \in {"read", "program"} THEN PageSizes ELSE {Page}
  /\ image' \in CASE op' = "detect" -> {<<>>}
                  [] op' = "read"   -> Images \ {<<>>}
                  [] OTHER          -> Images
  /\ pc' = IF op' = "fru" THEN "load" ELSE "probe"
  /\ buf' = <<>> /\ back' = <<>> /\ at' = 0
  /\ verdict' = "none" /\ hurt' = FALSE /\ cut' = FALSE
  /\ UNCHANGED <<eeprom, wraps, faults>>

\* detect_eeprom.
Probe ==
  /\ pc = "probe"
  /\ \/ Fine /\ op = "detect" /\ Exit("FOUND")
     \/ Fine /\ op = "read" /\ Goto("readBack")
     \/ Fine /\ op = "program" /\ Goto("load")
     \/ Fault /\ Exit("ERROR")
  /\ back' = IF op = "read" THEN CopyBuffer ELSE <<>>
  /\ UNCHANGED <<eeprom, op, page, image, buf, at, cut>>

\* Both tools read the whole file, and neither looks at the result of fread.
Load ==
  /\ pc = "load"
  /\ \/ Fine /\ buf' = image /\ Goto(IF op = "fru" THEN "fruWrite" ELSE "write")
     \/ Fault /\ buf' = AllJunk(Len(image)) /\ Goto(IF op = "fru" THEN "fruWrite" ELSE "write")
     \/ Fault /\ buf' = <<>> /\ Exit("ERROR")
  /\ back' = IF op = "fru" THEN <<>> ELSE CopyBuffer
  /\ UNCHANGED <<eeprom, op, page, image, at, cut>>

-------------------------------------------------------------------------------
(* ampere_eeprom_prog.                                                      *)

\* Mutant: what is left at the end, less than a page, is not written or read.
ChunkWhole(s) == {k \in 0..Len(s) - 1 : at <= k /\ k < at + page /\ at + page <= Len(s)}

\* The cells of the next page of the loop, counted from 0.
Chunk(s) == {k \in 0..Len(s) - 1 : at <= k /\ k < at + page}
\* Behind the last cell the next slave address is used, which nobody answers.
Answers == wraps \/ at < Size

\* Writing more than a page of the EEPROM rolls over inside that page, so of the
\* cells that come to lie on n the last one stays.
LandsOn(k) == ((at - (at % Page)) + (((at % Page) + (k - at)) % Page)) % Size
LastOn(s, n) == {k \in Chunk(s) : LandsOn(k) = n /\ k + Page \notin Chunk(s)}
WriteAt(s) ==
  [n \in Cells |-> IF LastOn(s, n) = {} THEN eeprom[n]
                   ELSE s[1 + CHOOSE k \in LastOn(s, n) : TRUE]]

\* Reading, only the end of the EEPROM is followed by its start.
Shown(k) == eeprom[(k - 1) % Size]

\* The percentage printed for an empty file is a division by zero: the tool is
\* ended by a signal, or goes on, as the processor has it.
DividesByZero == buf = <<>>

\* eeprom_rd_wr, writing.  i2c_master_write reports a failure by -ENODEV, which
\* is not the -1 it is compared with: the loop goes on, whatever part of the
\* page was stored.
WritePage ==
  /\ pc = "write"
  /\ \/ /\ Fine /\ Answers /\ eeprom' = WriteAt(buf)
     \/ /\ Fine /\ ~Answers /\ UNCHANGED eeprom
     \/ /\ Fault
        /\ \E C \in SUBSET Cells :
             eeprom' = [n \in Cells |-> IF n \in C THEN WriteAt(buf)[n] ELSE eeprom[n]]
  /\ IF at + page < Len(buf) THEN at' = at + page /\ Goto("write")
                             ELSE at' = 0 /\ Goto("readBack")
  /\ UNCHANGED <<op, page, image, buf, back, cut>>

EmptyFile ==
  /\ pc = "write" /\ DividesByZero
  /\ Exit("ERROR") /\ Fine
  /\ UNCHANGED <<eeprom, op, page, image, buf, back, at, cut>>

AfterRead == IF op = "read" THEN Exit("SHOWN") ELSE Goto("crc")

\* eeprom_rd_wr, reading.  A read that fails ends it with -EIO, which is not the
\* -1 its callers look for: they go on with what the buffer holds.
ReadPage ==
  /\ pc = "readBack"
  /\ \/ /\ Fine /\ Answers
        /\ back' = [k \in 1..Len(back) |->
                      IF k - 1 \in Chunk(back) THEN Shown(k) ELSE back[k]]
        /\ IF at + page < Len(back) THEN at' = at + page /\ Goto("readBack")
                                    ELSE at' = 0 /\ AfterRead
        /\ UNCHANGED cut
     \/ /\ Fault \/ (~Answers /\ Fine)
        /\ UNCHANGED back /\ at' = 0 /\ AfterRead /\ cut' = TRUE
  /\ UNCHANGED <<eeprom, op, page, image, buf>>

\* program_fw's CRC32, taken for the data itself.
CompareCrc ==
  /\ pc = "crc"
  /\ Exit(IF back = buf THEN "PASSED" ELSE "ERROR") /\ Fine
  /\ UNCHANGED <<eeprom, op, page, image, buf, back, at, cut>>

-------------------------------------------------------------------------------
(* ampere_fru_upgrade.                                                      *)

FirstCells(s, k) == [n \in Cells |-> IF n < k THEN s[n + 1] ELSE eeprom[n]]

\* Mutant: the file is not compared with what was written.
AfterFruWriteTrusting == Exit("OK")

\* After the write: the check is skipped if the CRC is 0.
AfterFruWrite == IF image \in ZeroCrc /\ buf = image THEN Exit("OK") ELSE Goto("fruVerify")

\* fwrite, fflush, fsync and fclose.  Only fwrite is looked at: what it left in
\* the buffer of the stream may be lost unseen.  An empty file is an error.
FruWrite ==
  /\ pc = "fruWrite"
  /\ \/ /\ Fine /\ buf # <<>> /\ Len(buf) <= Size
        /\ eeprom' = FirstCells(buf, Len(buf)) /\ AfterFruWrite
     \/ /\ buf # <<>> /\ (Fault \/ (Len(buf) > Size /\ Fine))
        /\ \E k \in 0..Size : k < Len(buf) /\ eeprom' = FirstCells(buf, k)
        /\ (Exit("ERROR") \/ AfterFruWrite)
     \/ Fine /\ buf = <<>> /\ Exit("ERROR") /\ UNCHANGED eeprom
     \/ Fault /\ Exit("ERROR") /\ UNCHANGED eeprom
  /\ UNCHANGED <<op, page, image, buf, back, at, cut>>

\* verify_valid_image: the copy is read into memory that was just freed, and
\* fread's result is not looked at.  What was not read is still the file's.
FruVerify ==
  /\ pc = "fruVerify"
  /\ \/ /\ Fine /\ Len(buf) <= Size /\ cut' = FALSE
        /\ back' = [k \in 1..Len(buf) |-> eeprom[k - 1]]
     \/ /\ (Fault \/ (Len(buf) > Size /\ Fine)) /\ cut' = TRUE
        /\ \E k \in 0..Size : k < Len(buf) /\
             \E rest \in {buf, AllJunk(Len(buf))} :
               back' = Splice([j \in 1..k |-> eeprom[j - 1]], k, rest)
  /\ Exit(IF back' = buf THEN "OK" ELSE "ERROR")
  /\ UNCHANGED <<eeprom, op, page, image, buf, at>>

FruVerifyFails ==
  /\ pc = "fruVerify"
  /\ Fault /\ Exit("ERROR")
  /\ UNCHANGED <<eeprom, op, page, image, buf, back, at, cut>>

Kill ==
  /\ pc # "idle"
  /\ Fault /\ Exit("KILLED")
  /\ UNCHANGED <<eeprom, op, page, image, buf, back, at, cut>>

Next ==
  \/ Invoke \/ Probe \/ Load
  \/ WritePage \/ EmptyFile \/ ReadPage \/ CompareCrc
  \/ FruWrite \/ FruVerify \/ FruVerifyFails \/ Kill

Spec == Init /\ [][Next]_vars

-------------------------------------------------------------------------------
TypeOK ==
  /\ eeprom \in [Cells -> Data \cup {Junk}]
  /\ pc \in {"idle", "probe", "load", "write", "readBack", "crc", "fruWrite", "fruVerify"}
  /\ op \in {"none", "detect", "read", "program", "fru"}
  /\ page \in PageSizes \cup {Page} /\ image \in Images \cup {<<>>}
  /\ buf \in Seq(Data \cup {Junk}) /\ back \in Seq(Data \cup {Junk}) /\ at \in Nat
  /\ verdict \in {"none", "FOUND", "SHOWN", "PASSED", "OK", "ERROR", "KILLED"}
  /\ wraps \in BOOLEAN /\ hurt \in BOOLEAN /\ cut \in BOOLEAN /\ faults \in 0..MaxFaults

\* A reader finds s in the EEPROM.
Holds(s) == \A k \in 1..Len(s) : (wraps \/ k <= Size) /\ Shown(k) = s[k]

\* PASSED means that the EEPROM holds what the tool read of the file, although
\* no failed page, no wrong page size and no file that does not fit is noticed
\* where it happens: unless neither the file nor the EEPROM could be read, and
\* what it compared was memory nobody wrote to (program_fw, eeprom_rd_wr).
PassedMeansProgrammed ==
  verdict = "PASSED" => Holds(buf) \/ (cut /\ buf # image)

\* fru_upgrade's success means that the EEPROM holds what it read of the file,
\* except where the check was skipped for a CRC of 0, or compared the file with
\* its own remains in memory (main, verify_valid_image).
OkMeansWritten ==
  verdict = "OK" => Holds(buf) \/ (buf = image /\ image \in ZeroCrc) \/ cut

\* Whatever failed and killed invocations left, one in which nothing fails
\* brings the file into the EEPROM, if it fits and is not empty and the page
\* size is at most the EEPROM's and divides it; and it says so.
Heals ==
  (op \in {"program", "fru"} /\ pc = "idle" /\ ~hurt
     /\ image # <<>> /\ Len(image) <= Size /\ Page % page = 0) =>
    verdict = (IF op = "fru" THEN "OK" ELSE "PASSED") /\ Holds(image)
===============================================================================
