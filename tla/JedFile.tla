-------------------------------- MODULE JedFile --------------------------------
(***************************************************************************)
(* How the CPLD update tools read a JEDEC file (lattice.c).  The file is   *)
(* read twice: jed_update_data_size counts the fuse lines of the three     *)
(* sections, the buffers are allocated from the counts, and                *)
(* jed_file_parser fills them and adds up the checksum.  The two passes    *)
(* tell the lines apart by their first characters, each with flags and a   *)
(* chain of branches of its own.                                           *)
(*                                                                         *)
(* A line is a record with a field "kind"; a line of digits also has a     *)
(* "row" and the checksum line a "sum".  A row of 128 fuses is two words:  *)
(* "head" for the first 32 bits, which verification compares, and "tail"   *)
(* for the others.                                                         *)
(***************************************************************************)
EXTENDS Integers, Sequences

CONSTANT SumMod   \* the checksum is taken modulo this; 2^16 in the code

ASSUME SumModAssumption == SumMod \in Nat \ {0}

Row == [head : Nat, tail : Nat]
Blank == [head |-> 0, tail |-> 0]

\* Lines that begin with 0 or 1: fuses, and the feature bits.
DigitKinds == {"data", "bits"}
Digits(line) == line.kind \in DigitKinds
LLines == {"L000", "L"}
TextKinds == LLines \cup {"QF", "TAG", "END", "FEATURE", "USER", "E", "UH", "star", "blank"}

Line == [kind : TextKinds] \cup [kind : DigitKinds, row : Row] \cup [kind : {"C"}, sum : Nat]

\* A loop over lines, each of which is looked at once.
LineByLine(lines, start, step(_, _)) ==
  LET upTo[k \in 0..Len(lines)] ==
        IF k = 0 THEN start ELSE step(upTo[k - 1], lines[k])
  IN upTo[Len(lines)]

-------------------------------------------------------------------------------
\* The flag that a tag line sets; the first pass knows only three of them.
SizeTags  == [L000 |-> "inCF", TAG |-> "inUFM", END |-> "inEnd"]
ParseTags == [L000 |-> "inCF", TAG |-> "inUFM", END |-> "inEnd",
              FEATURE |-> "inRow", USER |-> "inVer", C |-> "inSum"]

Marked(p, line, tags) ==
  IF line.kind \in DOMAIN tags THEN [p EXCEPT ![tags[line.kind]] = TRUE] ELSE p

\* A section goes on over the lines it skips, and ends at the first other line
\* that does not begin with a digit.
Section(p, line, flag, skipped, taken) ==
  IF line.kind \in skipped THEN p
  ELSE IF Digits(line) THEN taken ELSE [p EXCEPT ![flag] = FALSE]

SkippedInCF  == {"L000", "blank"}
SkippedInUFM == {"TAG", "blank"} \cup LLines
SkippedInEnd == {"END", "blank"} \cup LLines

SizeState == [inCF : BOOLEAN, inUFM : BOOLEAN, inEnd : BOOLEAN,
              cf : Nat, ufm : Nat, end : Nat]

CountLine(s, line) ==
  LET m == Marked(s, line, SizeTags)
  IN IF m.inCF THEN Section(m, line, "inCF", SkippedInCF, [m EXCEPT !.cf = @ + 1])
     ELSE IF m.inUFM THEN Section(m, line, "inUFM", SkippedInUFM, [m EXCEPT !.ufm = @ + 1])
     ELSE IF m.inEnd THEN Section(m, line, "inEnd", SkippedInEnd, [m EXCEPT !.end = @ + 1])
     ELSE m

\* jed_update_data_size: the numbers of lines the buffers are allocated for.
Sizes(lines) ==
  LineByLine(lines,
             [inCF |-> FALSE, inUFM |-> FALSE, inEnd |-> FALSE, cf |-> 0, ufm |-> 0, end |-> 0],
             CountLine)

-------------------------------------------------------------------------------
RowSum(row) == row.head + row.tail

Keep(p, line, rows) ==
  [p EXCEPT ![rows] = Append(@, line.row), !.sum = @ + RowSum(line.row)]

\* The checksum is the line that sets the flag, unless a section of fuses is
\* still open.
TakeSum(m, line) ==
  [m EXCEPT !.inSum = FALSE, !.given = IF line.kind = "C" THEN line.sum ELSE 0]

\* Mutant: the section ends with the feature row itself.
TakeFeatureUntilRow(m, line) ==
  IF line.kind \in {"FEATURE", "blank"} THEN m ELSE [m EXCEPT !.inRow = FALSE]

\* The feature row (E...) and, after it, the feature bits.
TakeFeature(m, line) ==
  IF line.kind \in {"FEATURE", "blank", "E"} THEN m ELSE [m EXCEPT !.inRow = FALSE]

TakeVersion(m, line) ==
  IF line.kind \in {"USER", "blank"} THEN m ELSE [m EXCEPT !.inVer = FALSE]

ParseState ==
  [inCF : BOOLEAN, inUFM : BOOLEAN, inEnd : BOOLEAN, inRow : BOOLEAN, inVer : BOOLEAN,
   inSum : BOOLEAN, cf : Seq(Row), ufm : Seq(Row), end : Seq(Row), sum : Nat, given : Nat]

ParseLine(p, line) ==
  LET m == Marked(p, line, ParseTags)
  IN IF m.inCF THEN Section(m, line, "inCF", SkippedInCF, Keep(m, line, "cf"))
     ELSE IF m.inSum /\ line.kind # "blank" THEN TakeSum(m, line)
     ELSE IF m.inRow THEN TakeFeature(m, line)
     ELSE IF m.inVer THEN TakeVersion(m, line)
     ELSE IF m.inUFM THEN Section(m, line, "inUFM", SkippedInUFM, Keep(m, line, "ufm"))
     ELSE IF m.inEnd THEN Section(m, line, "inEnd", SkippedInEnd, Keep(m, line, "end"))
     ELSE m

\* jed_file_parser: the contents of CPLDInfo.
Parsed(lines) ==
  LineByLine(lines,
             [inCF |-> FALSE, inUFM |-> FALSE, inEnd |-> FALSE, inRow |-> FALSE,
              inVer |-> FALSE, inSum |-> FALSE,
              cf |-> <<>>, ufm |-> <<>>, end |-> <<>>, sum |-> 0, given |-> 0],
             ParseLine)

\* What the tool works with.  A file without fuses, or whose sum is not the one
\* it gives, or is zero, is refused before the device is touched.
Load(lines) ==
  LET s == Sizes(lines)
      p == Parsed(lines)
  IN [cf |-> p.cf, ufm |-> p.ufm, end |-> p.end, allocated |-> <<s.cf, s.ufm, s.end>>,
      checkSum |-> p.given,
      ok |-> s.cf > 0 /\ p.given # 0 /\ p.given = p.sum % SumMod]

\* A row was stored for a buffer of no lines; the fuses always have one.
NoBuffer(img) ==
  \/ img.allocated[2] = 0 /\ img.ufm # <<>>
  \/ img.allocated[3] = 0 /\ img.end # <<>>

-------------------------------------------------------------------------------
(* The files the two passes agree about.                                    *)

SectionTags == {"L000", "TAG", "END"}
Notes == {"FEATURE", "USER", "C"}

\* Of the first k lines: a tag came and no end of a section since; a note came;
\* the feature row's note came, and only its own lines since.
SectionOpen(lines, k) ==
  \E a \in 1..k : lines[a].kind \in SectionTags /\ \A c \in a..k : lines[c].kind # "star"
Noted(lines, k) == \E a \in 1..k : lines[a].kind \in Notes
InFeature(lines, k) ==
  \E a \in 1..k : /\ lines[a].kind = "FEATURE"
                  /\ \A c \in a..k : lines[c].kind \in {"FEATURE", "blank", "E"}

\* A file in which every section that another one follows is ended, the notes
\* come after the sections, and the only digits after a note are the feature
\* bits.
Orderly(lines) ==
  \A k \in 1..Len(lines) :
    /\ lines[k].kind \in SectionTags =>
         ~SectionOpen(lines, k - 1) /\ ~Noted(lines, k - 1)
    /\ Digits(lines[k]) /\ Noted(lines, k - 1) => InFeature(lines, k - 1)

-------------------------------------------------------------------------------
(* What the -c option adds up: the rows read from the device and, over JTAG *)
(* only, the end section of the file, of which line i contributes the words *)
(* that start at word i.                                                    *)

SumRows(rows) == LineByLine(rows, 0, LAMBDA n, row : n + RowSum(row))

\* Two words to a row, so line i is summed from word i on.
Words(rows) == [k \in 1..2 * Len(rows) |->
                  IF k % 2 = 1 THEN rows[(k + 1) \div 2].head ELSE rows[k \div 2].tail]
JtagEndSum(rows) ==
  SumRows([i \in 1..Len(rows) |-> [head |-> Words(rows)[i], tail |-> Words(rows)[i + 1]]])

\* Mutant: the sum is not cut to 16 bits.
DeviceSumUncut(intf, cfRows, ufmRows, endRows) ==
  SumRows(cfRows) + SumRows(ufmRows) + (IF intf = "jtag" THEN JtagEndSum(endRows) ELSE 0)

\* Mutant: the user flash is left out, as the I2C tool leaves out the end section.
DeviceSumWithoutUFM(intf, cfRows, ufmRows, endRows) ==
  (SumRows(cfRows) + (IF intf = "jtag" THEN JtagEndSum(endRows) ELSE 0)) % SumMod

DeviceSum(intf, cfRows, ufmRows, endRows) ==
  (SumRows(cfRows) + SumRows(ufmRows)
     + (IF intf = "jtag" THEN JtagEndSum(endRows) ELSE 0)) % SumMod
===============================================================================
