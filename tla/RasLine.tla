-------------------------------- MODULE RasLine --------------------------------
(***************************************************************************)
(* What the host error monitor makes of a line of an error file: the       *)
(* fields it cuts out of the hexadecimal digits, the record of the system  *)
(* event log and the entry of the journal.  Lines of other lengths than    *)
(* the ones here throw or are passed over, see ErrorMonitor.               *)
(*                                                                         *)
(* A digit is a number below 16.  A number of more than 28 bits stays the  *)
(* sequence of its digits, the highest first.                              *)
(***************************************************************************)
EXTENDS Integers, SequencesExt

CONSTANTS
  InternalErrors,  \* errors of the SMpro and PMpro
  OtherErrors,     \* errors of the other files
  ImageCodes, LocalCodes, ErrorCodes,  \* lengths of the tables of words
  Occurrences,     \* mapOfOccur: the types with their subtypes it knows,
  OfInstance       \* and those whose words name the instance

Digits(n) == [1..n -> 0..15]
Zeros(n)  == [i \in 1..n |-> 0]
Value(s)  ==
  LET upTo[k \in 0..Len(s)] == IF k = 0 THEN 0 ELSE 16 * upTo[k - 1] + s[k]
  IN upTo[Len(s)]

InternalFiles == {"error_smpro", "error_pmpro", "warn_smpro", "warn_pmpro"}
ErrorFiles ==
  {"error_core_ue", "error_mem_ue", "error_pcie_ue", "error_other_ue",
   "error_core_ce", "error_mem_ce", "error_pcie_ce", "error_other_ce"}

InternalError ==
  [file : InternalFiles, socket : 0..1, location : Digits(2), image : 0..15,
   flags : 0..15, code : Digits(4), data : Digits(8), order : {"low first", "high first"}]
Error ==
  [file : ErrorFiles, socket : 0..1, type : Digits(2), subType : Digits(2),
   instance : Digits(4), status : Digits(8), address : Digits(16), misc0 : Digits(16)]

ASSUME RasLineAssumption ==
  /\ InternalErrors \subseteq InternalError /\ OtherErrors \subseteq Error
  /\ ImageCodes \in Nat /\ LocalCodes \in Nat /\ ErrorCodes \in Nat
  /\ OfInstance \subseteq Occurrences

TypeOf(e) == e.type \o e.subType
OverflowType == <<15, 15, 15, 15>>

\* External: the driver writes the bytes of a number from the lowest to the
\* highest, and the two halves of the data of an internal error in groups of
\* their own.  Which half comes first is for the driver to say: the comments
\* above prepareInternalErrData and at its two reads take the high one to do,
\* the joining suits the low one.
Bytes(w) == [i \in 1..Len(w) |-> w[IF i % 2 = 1 THEN Len(w) - i ELSE Len(w) - i + 2]]
Group(w) == Bytes(w) \o Zeros(8 - Len(w))
IsWarning(e) == e.file \in {"warn_smpro", "warn_pmpro"}

HighHalf(e) == SubSeq(e.data, 1, 4)
LowHalf(e)  == SubSeq(e.data, 5, 8)
FirstHalf(e)  == IF e.order = "low first" THEN LowHalf(e) ELSE HighHalf(e)
SecondHalf(e) == IF e.order = "low first" THEN HighHalf(e) ELSE LowHalf(e)

TextOf(e) ==
  IF e.file \in InternalFiles
  THEN e.location \o <<e.image, e.flags>> \o Zeros(4) \o Group(e.code)
         \o IF IsWarning(e) THEN <<>>
            ELSE Group(FirstHalf(e)) \o Group(SecondHalf(e))
  ELSE TypeOf(e) \o Bytes(e.instance) \o Bytes(e.status)
         \o Bytes(e.address) \o Bytes(e.misc0) \o Zeros(48)

-------------------------------------------------------------------------------
(* utils.hpp.                                                               *)

\* The last n digits, as n digits: parseHexStrToUInt8 and its like.
parseHexStr(s, n) ==
  [i \in 1..n |-> IF i + Len(s) > n THEN s[i + Len(s) - n] ELSE 0]

swap2Byte(s) == [i \in 1..Len(s) |-> s[IF i % 2 = 1 THEN i + 1 ELSE i - 1]]

reverseStr(s) == Reverse(swap2Byte(s))

\* Without the zeros at the front; the last digit stays.
StripZeros(s) ==
  LET first == SelectInSeq(s, LAMBDA d : d # 0)
  IN  SubSeq(s, IF first = 0 THEN Len(s) ELSE first, Len(s))

-------------------------------------------------------------------------------
(* Internal errors.                                                         *)

Warning == 1
ErrorOnly == 2
WithData == 4

\* prepareInternalErrData and parseAndLogInternalErrors.
SubTypeOf(text) ==
  IF Len(text) \div 8 = 2 THEN Warning
  ELSE IF SubSeq(text, 17, 32) = Zeros(16) THEN ErrorOnly ELSE WithData

\* Mutant: the bytes of the second group stay in the order of the line.
DataHalfReversed(text) ==
  StripZeros(SubSeq(text, 25, 32)) \o StripZeros(reverseStr(SubSeq(text, 17, 24)))

DataOf(text) ==
  StripZeros(reverseStr(SubSeq(text, 25, 32))) \o StripZeros(reverseStr(SubSeq(text, 17, 24)))

InternalFields(text) ==
  [subType   |-> SubTypeOf(text),
   imageCode |-> text[3],
   dir       |-> text[4] \div 8,
   location  |-> Value(SubSeq(text, 1, 2)),
   errCode   |-> Value(parseHexStr(reverseStr(SubSeq(text, 9, 16)), 4)),
   data      |-> IF SubTypeOf(text) = WithData THEN parseHexStr(DataOf(text), 8) ELSE Zeros(8)]

\* Bytes 5 to 11 of the record; those before name the processor.
InternalSel(e, f) ==
  <<128 * f.dir + 113, 128 * e.socket + 16 * f.subType + f.imageCode,
    f.location, f.errCode % 256, f.errCode \div 256,
    Value(SubSeq(f.data, 7, 8)), Value(SubSeq(f.data, 5, 6))>>

\* The word for a code; none if the table has no such row ("Unknown").
WordFor(code, length) == IF code < length THEN <<code>> ELSE <<>>

InternalJournal(e, f) ==
  [socket   |-> e.socket,
   image    |-> WordFor(f.imageCode, ImageCodes),
   dir      |-> f.dir,
   location |-> WordFor(f.location, LocalCodes),
   error    |-> WordFor(f.errCode, ErrorCodes),
   severity |-> IF f.subType = Warning THEN "Warning" ELSE "Critical",
   data     |-> IF f.subType \in {Warning, ErrorOnly} THEN <<>> ELSE f.data]

-------------------------------------------------------------------------------
(* The other errors.                                                        *)

\* The number that begins at digit `from' and has n of them.
Number(text, from, n) == reverseStr(SubSeq(text, from, from + n - 1))

\* prepareErrData and parseAndLogErrors.  An overflow has no instance.
ErrorFields(e, text) ==
  LET type == SubSeq(text, 1, 4) IN
  [type     |-> type,
   instance |-> IF type = OverflowType THEN 16384 * e.socket
                ELSE Value(Number(text, 5, 4)),
   address  |-> Number(text, 17, 16),
   misc0    |-> Number(text, 33, 16)]

ErrorSel(f) ==
  <<Value(SubSeq(f.type, 1, 2)), Value(SubSeq(f.type, 3, 4)),
    f.instance \div 256, f.instance % 256>>

\* Where it was, as far as the words of its type say so.
PlaceOf(f) ==
  [socket   |-> IF f.type \in Occurrences THEN <<f.instance \div 16384>> ELSE <<>>,
   instance |-> IF f.type \in OfInstance THEN <<f.instance % 16384>> ELSE <<>>]

\* MCU_ERR_1_TYPE and MCU_ERR_2_TYPE, the only ones that know their DIMM.
DramTypes == {<<0, 1, 0, 1>>, <<0, 1, 0, 2>>}

\* The fields of misc0.  Row and column are kept in bytes.
CellOf(f) ==
  LET low == Value(SubSeq(f.misc0, 10, 16))
  IN  [bank |-> f.misc0[8], row |-> (low \div 1024) % 256, col |-> ((low % 1024) * 8) % 256]

MemoryPlace(f) ==
  LET inst == f.instance % 16384
      known == f.type \in DramTypes
  IN  [socket  |-> <<f.instance \div 16384>>,
       channel |-> inst % 2048,
       dimm    |-> IF known THEN <<inst \div 2048>> ELSE <<>>,
       rank    |-> IF known THEN <<f.address[11]>> ELSE <<>>,
       cell    |-> CellOf(f)]

\* logErrorToRedfish.
ErrorJournal(e, f) ==
  CASE f.type = OverflowType -> PlaceOf(f)
    [] f.type # OverflowType /\ e.file \in {"error_mem_ue", "error_mem_ce"} -> MemoryPlace(f)
    [] f.type # OverflowType /\ e.file \in {"error_pcie_ue", "error_pcie_ce"} ->
         [socket |-> <<f.instance \div 16384>>, instance |-> <<f.instance % 16384>>]
    [] OTHER -> PlaceOf(f)

-------------------------------------------------------------------------------
VARIABLES error, sel, journal   \* the line in hand, and its two entries

lineVars == <<error, sel, journal>>

None == [file |-> "none"]
LinesInit == error = None /\ sel = <<>> /\ journal = None

\* Nothing of a line is kept for the next one.
NextLine == error # None /\ error' = None /\ sel' = <<>> /\ journal' = None

LogInternalError(e) ==
  LET f == InternalFields(TextOf(e)) IN
  /\ error = None
  /\ error' = e /\ sel' = InternalSel(e, f) /\ journal' = InternalJournal(e, f)

LogError(e) ==
  LET f == ErrorFields(e, TextOf(e)) IN
  /\ error = None
  /\ error' = e /\ sel' = ErrorSel(f) /\ journal' = ErrorJournal(e, f)

LinesNext ==
  \/ NextLine
  \/ \E e \in InternalErrors : LogInternalError(e)
  \/ \E e \in OtherErrors : LogError(e)

LinesSpec == LinesInit /\ [][LinesNext]_lineVars

-------------------------------------------------------------------------------
\* The zeros at the front of each half of the data are taken off before the
\* halves are joined: where the group that comes first begins with one, the
\* other half moves.
Misjoined(e) == FirstHalf(e)[1] = 0 /\ SecondHalf(e) # Zeros(4)

\* The data as both entries have it: the group that comes second stands in front.
Joined(e) == SecondHalf(e) \o FirstHalf(e)
Swapped(e) == LowHalf(e) \o HighHalf(e)

\* Part of EntriesTellTheError.  Both entries of an internal error say which one
\* it was: the record in its bits, the journal in words unless the tables lack
\* one (parseAndLogInternalErrors, logInternalErrorToIpmiSEL,
\* logInternalErrorToRedfish).
InternalErrorsAreTold ==
  error.file \in InternalFiles =>
    /\ sel[1] >= 128 <=> error.flags >= 8
    /\ sel[2] \div 128 = error.socket /\ sel[2] % 16 = error.image
    /\ sel[3] = Value(error.location) /\ sel[4] + 256 * sel[5] = Value(error.code)
    /\ journal.image \in {<<error.image>>, <<>>}
    /\ journal.location \in {<<sel[3]>>, <<>>} /\ journal.error \in {<<Value(error.code)>>, <<>>}
    /\ journal.severity = "Warning" <=> IsWarning(error)
    /\ (IsWarning(error) \/ error.data = Zeros(8)) => journal.data = <<>> /\ sel[6] + 256 * sel[7] = 0

\* Part of EntriesTellTheError.  Unless the halves are misjoined both entries
\* show the data of an internal error in one order, which is that of the number
\* only if the driver writes the low half first: with the layout of the comments
\* ("data high" for the first group, "data low" for the second) the halves
\* change places, and the record, which has room for one, keeps the high one
\* (prepareInternalErrData).
DataIsTold ==
  error.file \in InternalFiles /\ ~IsWarning(error) /\ error.data # Zeros(8) /\ ~Misjoined(error) =>
    /\ journal.data = Joined(error)
    /\ sel[6] + 256 * sel[7] = Value(FirstHalf(error))
    /\ error.order = "low first" => journal.data = error.data
    /\ error.order = "high first" => journal.data = Swapped(error)

\* Part of EntriesTellTheError.  Both entries of another error say where it was:
\* the record names its instance, the journal the socket unless the words for
\* its type are missing, and of a memory error the DIMM's cell, as far as row
\* and column fit a byte (parseAndLogErrors, logErrorToIpmiSEL,
\* logErrorToRedfish).
ErrorsArePlaced ==
  error.file \in ErrorFiles =>
    LET overflow == TypeOf(error) = OverflowType
        memory   == error.file \in {"error_mem_ue", "error_mem_ce"} /\ ~overflow
        socket   == IF overflow THEN error.socket ELSE error.instance[1] \div 4
        low      == Value(SubSeq(error.misc0, 10, 16))
    IN
    /\ sel[1] = Value(error.type) /\ sel[2] = Value(error.subType)
    /\ sel[3] \div 64 = socket
    /\ ~overflow => 256 * sel[3] + sel[4] = Value(error.instance)
    /\ journal.socket = <<socket>> \/ (~memory /\ TypeOf(error) \notin Occurrences)
    /\ memory => /\ journal.channel + 2048 * (sel[3] \div 8 % 8) = Value(error.instance) % 16384
                 /\ journal.rank \in {<<error.address[11]>>, <<>>}
                 /\ journal.cell.bank = error.misc0[8]
                 /\ low < 256 * 1024 => journal.cell.row = low \div 1024
                 /\ low % 1024 < 32 => journal.cell.col = 8 * (low % 1024)

\* The two entries of a line, made through four conversions with positions and
\* widths of their own, tell the same error that the hardware put into it, up
\* to the losses the parts name.
EntriesTellTheError == InternalErrorsAreTold /\ DataIsTold /\ ErrorsArePlaced
===============================================================================
