----------------------------- MODULE MCCpldUpdate -----------------------------
(***************************************************************************)
(* Small instances of CpldUpdate: files of one or two configuration rows,  *)
(* one of which begins with zeros, with and without user flash and end     *)
(* sections, files that must be refused, and files that are not orderly.   *)
(***************************************************************************)
EXTENDS CpldUpdate

OldContent == [head |-> 7, tail |-> 7]
Junk == [head |-> 9, tail |-> 9]

R1 == [head |-> 1, tail |-> 2]
R2 == [head |-> 0, tail |-> 5]
U1 == [head |-> 4, tail |-> 1]
E1 == [head |-> 6, tail |-> 3]
E2 == [head |-> 2, tail |-> 2]

Tag(k) == [kind |-> k]
Data(rows) == [r \in 1..Len(rows) |-> [kind |-> "data", row |-> rows[r]]]
Star == <<Tag("star")>>
CFPart(rows) == <<Tag("QF"), Tag("L000")>> \o Data(rows) \o Star
UFMPart(rows) == <<Tag("TAG"), Tag("L")>> \o Data(rows)
EndPart(rows) == <<Tag("END"), Tag("L")>> \o Data(rows) \o Star
NotePart ==
  <<Tag("FEATURE"), Tag("E"), [kind |-> "bits", row |-> Blank], Tag("blank"),
    Tag("USER"), Tag("UH")>>
SumLine(n) == <<[kind |-> "C", sum |-> n]>>
Rest(n) == NotePart \o SumLine(n)

Plain    == CFPart(<<R1, R2>>) \o Rest(8)
\* A read lost at the first row goes unnoticed, and the second is then compared
\* with the first.
Zeros    == CFPart(<<R2, R1>>) \o Rest(8)
\* The user flash section is closed by the next note.
WithUFM  == CFPart(<<R2>>) \o UFMPart(<<U1>>) \o Rest(10)
WithEnd  == CFPart(<<R1>>) \o EndPart(<<E1>>) \o UFMPart(<<U1>>) \o Star \o Rest(1)
TwoEnds  == CFPart(<<R1>>) \o EndPart(<<E1, E2>>) \o Rest(0)
BadSum   == CFPart(<<R1>>) \o Rest(4)
NoFuses  == UFMPart(<<U1>>) \o Star \o Rest(5)
\* Digits after the notes, of which the second pass makes user flash: one row
\* more than there is room for, and one for which no buffer was allocated.
Overrun  == CFPart(<<R1>>) \o UFMPart(<<U1>>) \o NotePart \o Data(<<R2>>) \o SumLine(13)
NoUFM    == CFPart(<<R1>>) \o <<Tag("TAG")>> \o NotePart \o Data(<<R2>>) \o SumLine(8)

\* Over I2C the two kinds of Lattice chip are treated alike.
AllBoards ==
  {<<"LCMXO3LF", "i2c">>, <<"YZBB", "i2c">>, <<"ANLOGIC", "i2c">>,
   <<"LCMXO3LF", "jtag">>, <<"LCMXO3D", "jtag">>}

SomeFiles == [plain |-> Plain, zeros |-> Zeros, ufm |-> WithUFM, end |-> WithEnd, ends |-> TwoEnds,
              badsum |-> BadSum, nofuses |-> NoFuses, missing |-> <<>>, overrun |-> Overrun,
              noufm |-> NoUFM]

===============================================================================
