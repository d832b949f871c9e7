--------------------------- MODULE CpldUpdateProofs ---------------------------
(***************************************************************************)
(* The CPLD update tools, for every board, file, size of the flashes and   *)
(* number of failures: types, what a PASS is worth, that an update that is *)
(* not disturbed heals the chip, what the checksum read from a device that *)
(* holds a file is, and that the two passes over an orderly file agree.    *)
(***************************************************************************)
EXTENDS CpldUpdate, WellFoundedInduction, TLAPS

-------------------------------------------------------------------------------
(* Loops over lines.                                                        *)

\* What holds of 0, and of k if of k - 1, holds up to n.
LEMMA Induction ==
  ASSUME NEW n \in Nat, NEW T, 0 \in T, \A k \in 1..n : k - 1 \in T => k \in T
  PROVE  \A k \in 0..n : k \in T
<1> DEFINE R == {ss \in Nat \X Nat : ss[1] < ss[2]}
           missing == {k \in 0..n : k \notin T}
<1>1. OpToRel(<, Nat) = R
  BY DEF OpToRel
<1>2. IsWellFoundedOn(R, Nat)
  BY <1>1, NatLessThanWellFounded
<1>3. SUFFICES ASSUME missing # {} PROVE FALSE
  OBVIOUS
<1>4. missing \subseteq Nat
  OBVIOUS
<1>5. PICK x \in missing : \A y \in missing : ~ (<<y, x>> \in R)
  BY <1>2, <1>3, <1>4, WFMin
<1>6. x \in 1..n /\ x - 1 \in Nat /\ x - 1 < x
  BY <1>5
<1>7. x - 1 \notin missing
  <2>1. <<x - 1, x>> \in R
    BY <1>6
  <2> QED BY <1>5, <2>1
<1> QED BY <1>5, <1>6, <1>7

\* A loop over n lines that starts with a, and whose step F takes the value
\* before a line and its number, has the values f after the lines.
Steps(S, n) == [S \X (1..n) -> S]
Values(f, S, n, a, F) ==
  f \in [0..n -> S] /\ f[0] = a /\ \A k \in 1..n : f[k] = F[<<f[k - 1], k>>]

LEMMA LoopExists ==
  ASSUME NEW S, NEW n \in Nat, NEW a \in S, NEW F \in Steps(S, n)
  PROVE  \E f : Values(f, S, n, a, F)
<1> DEFINE T == {m \in 0..n : \E f \in [0..m -> S] :
                   f[0] = a /\ \A k \in 1..m : f[k] = F[<<f[k - 1], k>>]}
<1> USE DEF Steps
<1>1. 0 \in T
  <2> DEFINE f == [k \in 0..0 |-> a]
  <2>1. f \in [0..0 -> S] /\ f[0] = a /\ 0 \in 0..n
    OBVIOUS
  <2>2. \A k \in 1..0 : f[k] = F[<<f[k - 1], k>>]
    OBVIOUS
  <2> QED BY <2>1, <2>2
<1>2. ASSUME NEW m \in 1..n, m - 1 \in T PROVE m \in T
  <2>1. PICK f \in [0..(m - 1) -> S] :
          f[0] = a /\ \A k \in 1..(m - 1) : f[k] = F[<<f[k - 1], k>>]
    BY <1>2
  <2> DEFINE g == [k \in 0..m |-> IF k < m THEN f[k] ELSE F[<<f[m - 1], m>>]]
  <2>2. f[m - 1] \in S
    OBVIOUS
  <2>3. F[<<f[m - 1], m>>] \in S
    BY <2>2
  <2>4. \A k \in 0..m : g[k] = IF k < m THEN f[k] ELSE F[<<f[m - 1], m>>]
    OBVIOUS
  <2>5. \A k \in 0..m : g[k] \in S
    BY <2>3, <2>4
  <2>6. g \in [0..m -> S]
    BY <2>5
  <2>7. g[0] = a
    BY <2>1, <2>4
  <2>8. ASSUME NEW k \in 1..m PROVE g[k] = F[<<g[k - 1], k>>]
    <3>1. g[k - 1] = f[k - 1]
      BY <2>4
    <3>2. CASE k < m
      <4>1. k \in 1..(m - 1) /\ g[k] = f[k]
        BY <2>4, <3>2
      <4> QED BY <2>1, <3>1, <4>1
    <3>3. CASE k = m
      <4>1. g[m] = F[<<f[m - 1], m>>] /\ g[m - 1] = f[m - 1]
        BY <2>4, <3>1, <3>3
      <4> QED BY <3>3, <4>1
    <3> QED BY <3>2, <3>3
  <2> HIDE DEF g
  <2> QED BY <2>6, <2>7, <2>8
<1> HIDE DEF T
<1>3. n \in T
  BY <1>1, <1>2, Induction
<1> QED BY <1>3 DEF T, Values

-------------------------------------------------------------------------------
(* The sums.                                                                *)

\* The sum of the first k rows, for every k.
SumUpTo(rows) ==
  CHOOSE f : f = [k \in 0..Len(rows) |-> IF k = 0 THEN 0 ELSE f[k - 1] + RowSum(rows[k])]

LEMMA SumLoop ==
  ASSUME NEW rows \in Seq(Row)
  PROVE  /\ SumRows(rows) = SumUpTo(rows)[Len(rows)]
         /\ SumUpTo(rows)[0] = 0
         /\ \A k \in 1..Len(rows) : SumUpTo(rows)[k] = SumUpTo(rows)[k - 1] + RowSum(rows[k])
         /\ \A k \in 0..Len(rows) : SumUpTo(rows)[k] \in Nat
<1> DEFINE n == Len(rows)
           F == [x \in Nat \X (1..n) |-> x[1] + RowSum(rows[x[2]])]
           g == SumUpTo(rows)
<1>1. n \in Nat /\ \A k \in 1..n : RowSum(rows[k]) \in Nat
  <2>1. n \in Nat /\ \A k \in 1..n : rows[k] \in Row
    OBVIOUS
  <2>2. \A row \in Row : RowSum(row) \in Nat
    BY DEF RowSum, Row
  <2> QED BY <2>1, <2>2
<1>2. F \in Steps(Nat, n)
  BY <1>1 DEF Steps
<1>3. PICK f \in [0..n -> Nat] : f[0] = 0 /\ \A k \in 1..n : f[k] = F[<<f[k - 1], k>>]
  <2>1. n \in Nat /\ 0 \in Nat
    BY <1>1
  <2>2. \E f : Values(f, Nat, n, 0, F)
    <3> HIDE DEF F, n
    <3> QED BY <1>2, <2>1, LoopExists
  <2> QED BY <2>2 DEF Values
<1>4. \A k \in 1..n : f[k] = f[k - 1] + RowSum(rows[k])
  BY <1>3
<1>5. f = [k \in 0..n |-> IF k = 0 THEN 0 ELSE f[k - 1] + RowSum(rows[k])]
  BY <1>3, <1>4
<1>6. g = [k \in 0..n |-> IF k = 0 THEN 0 ELSE g[k - 1] + RowSum(rows[k])]
  BY <1>5 DEF SumUpTo
<1>7. g[0] = 0 /\ \A k \in 1..n : g[k] = g[k - 1] + RowSum(rows[k])
  BY <1>1, <1>6
<1>8. SumRows(rows) = g[n]
  BY DEF SumRows, LineByLine, SumUpTo
<1> DEFINE T == {k \in 0..n : g[k] \in Nat}
<1>9. \A k \in 1..n : k - 1 \in T => k \in T
  BY <1>1, <1>7
<1>10. \A k \in 0..n : k \in T
  <2>1. 0 \in T
    BY <1>1, <1>7
  <2> HIDE DEF T
  <2> QED BY <1>1, <1>9, <2>1, Induction
<1> QED BY <1>7, <1>8, <1>10

LEMMA SumNat == ASSUME NEW rows \in Seq(Row) PROVE SumRows(rows) \in Nat
<1>1. Len(rows) \in 0..Len(rows)
  OBVIOUS
<1> QED BY <1>1, SumLoop

LEMMA SumEmpty == SumRows(<<>>) = 0
<1>1. <<>> \in Seq(Row) /\ Len(<<>>) = 0
  OBVIOUS
<1> QED BY <1>1, SumLoop

LEMMA SumAppend ==
  ASSUME NEW rows \in Seq(Row), NEW row \in Row
  PROVE  SumRows(Append(rows, row)) = SumRows(rows) + RowSum(row)
<1> DEFINE n == Len(rows)
           more == Append(rows, row)
<1>1. /\ n \in Nat /\ more \in Seq(Row) /\ Len(more) = n + 1
      /\ more[n + 1] = row /\ \A k \in 1..n : more[k] = rows[k]
  OBVIOUS
<1> HIDE DEF more
<1> DEFINE T == {k \in 0..n : SumUpTo(more)[k] = SumUpTo(rows)[k]}
<1>2. 0 \in T
  BY <1>1, SumLoop
<1>3. \A k \in 1..n : k - 1 \in T => k \in T
  <2> SUFFICES ASSUME NEW k \in 1..n, k - 1 \in T PROVE k \in T
    OBVIOUS
  <2>1. SumUpTo(more)[k] = SumUpTo(more)[k - 1] + RowSum(more[k])
    <3>1. k \in 1..Len(more)
      BY <1>1
    <3> QED BY <1>1, <3>1, SumLoop
  <2>2. SumUpTo(rows)[k] = SumUpTo(rows)[k - 1] + RowSum(rows[k])
    BY <1>1, SumLoop
  <2> QED BY <1>1, <2>1, <2>2
<1> HIDE DEF T
<1>4. n \in T
  <2>1. n \in 0..n
    BY <1>1
  <2> QED BY <1>1, <1>2, <1>3, <2>1, Induction
<1>5. SumUpTo(more)[n] = SumRows(rows)
  BY <1>4, SumLoop DEF T
<1>6. /\ SumRows(more) = SumUpTo(more)[n + 1]
      /\ SumUpTo(more)[n + 1] = SumUpTo(more)[n] + RowSum(more[n + 1])
  BY <1>1, SumLoop
<1> QED BY <1>1, <1>5, <1>6 DEF more

\* The words of the end section that are added up over JTAG are words of it.
LEMMA EndSumNat == ASSUME NEW rows \in Seq(Row) PROVE JtagEndSum(rows) \in Nat
<1> DEFINE n == Len(rows)
           words == [k \in 1..n |-> [head |-> Words(rows)[k], tail |-> Words(rows)[k + 1]]]
<1>1. n \in Nat /\ \A k \in 1..n : rows[k].head \in Nat /\ rows[k].tail \in Nat
  <2>1. n \in Nat /\ \A k \in 1..n : rows[k] \in Row
    OBVIOUS
  <2> QED BY <2>1 DEF Row
<1>2. ASSUME NEW k \in 1..2 * n PROVE Words(rows)[k] \in Nat
  <2>1. Words(rows)[k] = IF k % 2 = 1 THEN rows[(k + 1) \div 2].head ELSE rows[k \div 2].tail
    BY <1>2 DEF Words
  <2>2. CASE k % 2 = 1
    <3>1. (k + 1) \div 2 \in 1..n
      BY <1>1, <2>2
    <3> QED BY <1>1, <2>1, <2>2, <3>1
  <2>3. CASE k % 2 # 1
    <3>1. k \div 2 \in 1..n
      BY <1>1, <2>3
    <3> QED BY <1>1, <2>1, <2>3, <3>1
  <2> QED BY <2>2, <2>3
<1>3. \A k \in 1..n : k \in 1..2 * n /\ k + 1 \in 1..2 * n
  BY <1>1
<1>4. words \in [1..n -> Row]
  BY <1>2, <1>3 DEF Row
<1> HIDE DEF words
<1>5. words \in Seq(Row)
  BY <1>1, <1>4
<1> QED BY <1>5, SumNat DEF JtagEndSum, words

\* No line of the end section, or one of it, is added up as it is.
LEMMA EndSumOfOne ==
  ASSUME NEW rows \in Seq(Row), Len(rows) <= 1
  PROVE  JtagEndSum(rows) = SumRows(rows)
<1> DEFINE n == Len(rows)
           words == [k \in 1..n |-> [head |-> Words(rows)[k], tail |-> Words(rows)[k + 1]]]
<1>1. JtagEndSum(rows) = SumRows(words)
  BY DEF JtagEndSum
<1>2. CASE n = 1
  <2>1. Words(rows)[1] = rows[1].head /\ Words(rows)[2] = rows[1].tail
    <3>1. Words(rows) = [k \in 1..2 |-> IF k % 2 = 1 THEN rows[(k + 1) \div 2].head
                                         ELSE rows[k \div 2].tail]
      BY <1>2 DEF Words
    <3>2. 1 % 2 = 1 /\ 2 % 2 = 0 /\ (1 + 1) \div 2 = 1 /\ 2 \div 2 = 1
      OBVIOUS
    <3> QED BY <3>1, <3>2
  <2>2. rows[1] \in Row /\ rows = [k \in 1..1 |-> rows[k]]
    <3>1. 1 \in 1..Len(rows)
      BY <1>2
    <3> QED BY <1>2, <3>1
  <2>3. words[1] = rows[1]
    BY <1>2, <2>1, <2>2 DEF Row
  <2>4. words = rows
    BY <1>2, <2>2, <2>3
  <2> QED BY <1>1, <2>4
<1>3. CASE n = 0
  <2>1. words = rows
    BY <1>3
  <2> QED BY <1>1, <2>1
<1>4. n \in Nat /\ n <= 1
  OBVIOUS
<1> HIDE DEF n
<1> QED BY <1>2, <1>3, <1>4

-------------------------------------------------------------------------------
(* What each pass over the file makes of a line.                            *)

\* What the kind of a line marks, for both passes.
LEMMA TagsAre ==
  /\ DOMAIN SizeTags = {"L000", "TAG", "END"}
  /\ SizeTags["L000"] = "inCF" /\ SizeTags["TAG"] = "inUFM" /\ SizeTags["END"] = "inEnd"
  /\ DOMAIN ParseTags = {"L000", "TAG", "END", "FEATURE", "USER", "C"}
  /\ ParseTags["L000"] = "inCF" /\ ParseTags["TAG"] = "inUFM" /\ ParseTags["END"] = "inEnd"
  /\ ParseTags["FEATURE"] = "inRow" /\ ParseTags["USER"] = "inVer" /\ ParseTags["C"] = "inSum"
BY DEF SizeTags, ParseTags

LEMMA MarkedParse ==
  ASSUME NEW p \in ParseState, NEW line \in Line
  PROVE  LET m == Marked(p, line, ParseTags) IN
         /\ m \in ParseState
         /\ m.inCF <=> (p.inCF \/ line.kind = "L000")
         /\ m.inUFM <=> (p.inUFM \/ line.kind = "TAG")
         /\ m.inEnd <=> (p.inEnd \/ line.kind = "END")
         /\ m.inRow <=> (p.inRow \/ line.kind = "FEATURE")
         /\ m.inVer <=> (p.inVer \/ line.kind = "USER")
         /\ m.inSum <=> (p.inSum \/ line.kind = "C")
         /\ m.cf = p.cf /\ m.ufm = p.ufm /\ m.end = p.end /\ m.sum = p.sum
<1>1. CASE line.kind = "L000"
  BY <1>1, TagsAre DEF Marked, ParseState
<1>2. CASE line.kind = "TAG"
  BY <1>2, TagsAre DEF Marked, ParseState
<1>3. CASE line.kind = "END"
  BY <1>3, TagsAre DEF Marked, ParseState
<1>4. CASE line.kind = "FEATURE"
  BY <1>4, TagsAre DEF Marked, ParseState
<1>5. CASE line.kind = "USER"
  BY <1>5, TagsAre DEF Marked, ParseState
<1>6. CASE line.kind = "C"
  BY <1>6, TagsAre DEF Marked, ParseState
<1>7. CASE line.kind \notin DOMAIN ParseTags
  BY <1>7, TagsAre DEF Marked, ParseState
<1> QED BY <1>1, <1>2, <1>3, <1>4, <1>5, <1>6, <1>7, TagsAre

LEMMA MarkedSizes ==
  ASSUME NEW s \in SizeState, NEW line \in Line
  PROVE  LET m == Marked(s, line, SizeTags) IN
         /\ m \in SizeState
         /\ m.inCF <=> (s.inCF \/ line.kind = "L000")
         /\ m.inUFM <=> (s.inUFM \/ line.kind = "TAG")
         /\ m.inEnd <=> (s.inEnd \/ line.kind = "END")
         /\ m.cf = s.cf /\ m.ufm = s.ufm /\ m.end = s.end
<1>1. CASE line.kind = "L000"
  BY <1>1, TagsAre DEF Marked, SizeState
<1>2. CASE line.kind = "TAG"
  BY <1>2, TagsAre DEF Marked, SizeState
<1>3. CASE line.kind = "END"
  BY <1>3, TagsAre DEF Marked, SizeState
<1>4. CASE line.kind \notin DOMAIN SizeTags
  BY <1>4, TagsAre DEF Marked, SizeState
<1> QED BY <1>1, <1>2, <1>3, <1>4, TagsAre

LEMMA ParseLineIs ==
  ASSUME NEW p \in ParseState, NEW line \in Line
  PROVE  LET m == Marked(p, line, ParseTags) IN
    ParseLine(p, line) =
     IF m.inCF THEN Section(m, line, "inCF", SkippedInCF, Keep(m, line, "cf"))
     ELSE IF m.inSum /\ line.kind # "blank" THEN TakeSum(m, line)
     ELSE IF m.inRow THEN TakeFeature(m, line)
     ELSE IF m.inVer THEN TakeVersion(m, line)
     ELSE IF m.inUFM THEN Section(m, line, "inUFM", SkippedInUFM, Keep(m, line, "ufm"))
     ELSE IF m.inEnd THEN Section(m, line, "inEnd", SkippedInEnd, Keep(m, line, "end"))
     ELSE m
BY DEF ParseLine

LEMMA LineFacts ==
  ASSUME NEW line \in Line
  PROVE  /\ line.kind \in TextKinds \cup DigitKinds \cup {"C"}
         /\ Digits(line) => line.row \in Row
         /\ line.kind = "C" => line.sum \in Nat
BY DEF Line, Digits, DigitKinds, TextKinds, LLines

\* The sections that are open at a line, its own tag included.
CFAt(p, line)  == p.inCF \/ line.kind = "L000"
UFMAt(p, line) == p.inUFM \/ line.kind = "TAG"
EndAt(p, line) == p.inEnd \/ line.kind = "END"
SumAt(p, line) == p.inSum \/ line.kind = "C"
RowAt(p, line) == p.inRow \/ line.kind = "FEATURE"

\* The second pass gets to the user flash and end sections only if nothing else
\* takes the line.
Elsewhere(p, line) ==
  \/ CFAt(p, line)
  \/ SumAt(p, line) /\ line.kind # "blank"
  \/ RowAt(p, line)
  \/ p.inVer \/ line.kind = "USER"

\* Which buffer a line of the file is stored in.
ToCF(p, line)  == Digits(line) /\ CFAt(p, line)
ToUFM(p, line) == Digits(line) /\ ~Elsewhere(p, line) /\ UFMAt(p, line)
ToEnd(p, line) == Digits(line) /\ ~Elsewhere(p, line) /\ ~UFMAt(p, line) /\ EndAt(p, line)

Flags == {"inCF", "inUFM", "inEnd", "inRow", "inVer", "inSum"}

Sorted(m, line, flag, skipped, rows, q) ==
  /\ \A r \in {"cf", "ufm", "end"} :
       q[r] = IF Digits(line) /\ r = rows THEN Append(m[r], line.row) ELSE m[r]
  /\ q.sum = IF Digits(line) THEN m.sum + RowSum(line.row) ELSE m.sum
  /\ \A f \in Flags :
       q[f] <=> (m[f] /\ (f = flag => line.kind \in skipped \/ Digits(line)))

\* A section keeps a line of digits, and is closed by a line it does not know.
LEMMA SectionEffect ==
  ASSUME NEW m \in ParseState, NEW line \in Line, NEW skipped,
         Digits(line) => line.kind \notin skipped,
         NEW flag \in {"inCF", "inUFM", "inEnd"}, NEW rows \in {"cf", "ufm", "end"},
         NEW q, q = Section(m, line, flag, skipped, Keep(m, line, rows))
  PROVE  q \in ParseState /\ Sorted(m, line, flag, skipped, rows, q)
<1>1. CASE line.kind \in skipped
  BY <1>1 DEF Section, ParseState, Flags, Sorted
<1>2. CASE line.kind \notin skipped /\ ~Digits(line)
  <2>1. q = [m EXCEPT ![flag] = FALSE]
    BY <1>2 DEF Section
  <2>2. \A f \in Flags \cup {"cf", "ufm", "end", "sum", "given"} :
          q[f] = IF f = flag THEN FALSE ELSE m[f]
    BY <2>1 DEF ParseState, Flags
  <2>3. q \in ParseState
    BY <2>1 DEF ParseState
  <2>4. \A f \in Flags : m[f] \in BOOLEAN
    BY DEF ParseState, Flags
  <2> QED BY <1>2, <2>2, <2>3, <2>4 DEF Flags, Sorted
<1>3. CASE line.kind \notin skipped /\ Digits(line)
  <2>1. q = [m EXCEPT ![rows] = Append(@, line.row), !.sum = @ + RowSum(line.row)]
    BY <1>3 DEF Section, Keep
  <2>2. line.row \in Row /\ RowSum(line.row) \in Nat
    BY <1>3, LineFacts DEF RowSum, Row
  <2>3. /\ \A r \in {"cf", "ufm", "end"} : m[r] \in Seq(Row) /\ Append(m[r], line.row) \in Seq(Row)
        /\ m.sum \in Nat /\ m.sum + RowSum(line.row) \in Nat
        /\ \A f \in Flags : m[f] \in BOOLEAN
    BY <2>2 DEF ParseState, Flags
  <2>4. /\ \A r \in {"cf", "ufm", "end"} :
             q[r] = IF r = rows THEN Append(m[r], line.row) ELSE m[r]
        /\ q.sum = m.sum + RowSum(line.row)
        /\ q.given = m.given
        /\ \A f \in Flags : q[f] = m[f]
    BY <2>1 DEF ParseState, Flags
  <2>5. q \in ParseState
    BY <2>1, <2>3 DEF ParseState
  <2> QED BY <1>3, <2>3, <2>4, <2>5 DEF Sorted
<1> QED BY <1>1, <1>2, <1>3

\* What the second pass makes of a line: the rows it keeps and adds up,
Keeps(p, line, q) ==
  /\ q.cf = IF ToCF(p, line) THEN Append(p.cf, line.row) ELSE p.cf
  /\ q.ufm = IF ToUFM(p, line) THEN Append(p.ufm, line.row) ELSE p.ufm
  /\ q.end = IF ToEnd(p, line) THEN Append(p.end, line.row) ELSE p.end
  /\ q.sum = IF ToCF(p, line) \/ ToUFM(p, line) \/ ToEnd(p, line)
             THEN p.sum + RowSum(line.row) ELSE p.sum

\* and the sections and notes that stay open after it.
Moves(p, line, q) ==
  /\ q.inCF <=> CFAt(p, line) /\ (line.kind \in SkippedInCF \/ Digits(line))
  /\ q.inUFM <=> /\ UFMAt(p, line)
                 /\ Elsewhere(p, line) \/ line.kind \in SkippedInUFM \/ Digits(line)
  /\ q.inEnd <=> /\ EndAt(p, line)
                 /\ \/ Elsewhere(p, line) \/ UFMAt(p, line)
                    \/ line.kind \in SkippedInEnd \/ Digits(line)
  /\ q.inSum <=> SumAt(p, line) /\ (CFAt(p, line) \/ line.kind = "blank")
  /\ q.inRow <=> /\ RowAt(p, line)
                 /\ \/ CFAt(p, line)
                    \/ SumAt(p, line) /\ line.kind # "blank"
                    \/ line.kind \in {"FEATURE", "blank", "E"}
  /\ ~p.inVer /\ line.kind # "USER" => ~q.inVer

LEMMA ParseEffect ==
  ASSUME NEW p \in ParseState, NEW line \in Line, NEW q, q = ParseLine(p, line)
  PROVE  q \in ParseState /\ Keeps(p, line, q) /\ Moves(p, line, q)
<1> DEFINE m == Marked(p, line, ParseTags)
<1>1. /\ m \in ParseState
      /\ m.cf = p.cf /\ m.ufm = p.ufm /\ m.end = p.end /\ m.sum = p.sum
      /\ (m.inCF <=> CFAt(p, line)) /\ (m.inUFM <=> UFMAt(p, line)) /\ (m.inEnd <=> EndAt(p, line))
      /\ (m.inSum <=> SumAt(p, line)) /\ (m.inRow <=> RowAt(p, line))
      /\ (m.inVer <=> p.inVer \/ line.kind = "USER")
  BY MarkedParse DEF CFAt, UFMAt, EndAt, SumAt, RowAt
<1>2. Digits(line) => /\ line.row \in Row /\ RowSum(line.row) \in Nat
                      /\ line.kind \notin {"blank", "C", "FEATURE", "USER", "L000"}
  BY LineFacts DEF RowSum, Row, Digits, DigitKinds
<1> HIDE DEF m
<1>4. q =
     IF m.inCF THEN Section(m, line, "inCF", SkippedInCF, Keep(m, line, "cf"))
     ELSE IF m.inSum /\ line.kind # "blank" THEN TakeSum(m, line)
     ELSE IF m.inRow THEN TakeFeature(m, line)
     ELSE IF m.inVer THEN TakeVersion(m, line)
     ELSE IF m.inUFM THEN Section(m, line, "inUFM", SkippedInUFM, Keep(m, line, "ufm"))
     ELSE IF m.inEnd THEN Section(m, line, "inEnd", SkippedInEnd, Keep(m, line, "end"))
     ELSE m
  BY ParseLineIs DEF m
<1>5. /\ m["cf"] = m.cf /\ m["ufm"] = m.ufm /\ m["end"] = m.end
      /\ q["cf"] = q.cf /\ q["ufm"] = q.ufm /\ q["end"] = q.end
      /\ m["inCF"] = m.inCF /\ m["inUFM"] = m.inUFM /\ m["inEnd"] = m.inEnd
      /\ m["inRow"] = m.inRow /\ m["inVer"] = m.inVer /\ m["inSum"] = m.inSum
      /\ q["inCF"] = q.inCF /\ q["inUFM"] = q.inUFM /\ q["inEnd"] = q.inEnd
      /\ q["inRow"] = q.inRow /\ q["inVer"] = q.inVer /\ q["inSum"] = q.inSum
  OBVIOUS
<1>6. CASE m.inCF
  <2>1. q = Section(m, line, "inCF", SkippedInCF, Keep(m, line, "cf"))
    BY <1>4, <1>6
  <2>2. Digits(line) => line.kind \notin SkippedInCF
    BY DEF Digits, DigitKinds, SkippedInCF
  <2>3. q \in ParseState /\ Sorted(m, line, "inCF", SkippedInCF, "cf", q)
    BY <1>1, <2>1, <2>2, SectionEffect
  <2>k. Keeps(p, line, q)
    BY <1>1, <1>5, <1>6, <2>3 DEF Keeps, ToCF, ToUFM, ToEnd, Elsewhere, Sorted
  <2>m. Moves(p, line, q)
    BY <1>1, <1>5, <1>6, <2>3 DEF Moves, Elsewhere, Flags, Sorted
  <2> QED BY <2>3, <2>k, <2>m
<1>7. CASE ~m.inCF /\ m.inSum /\ line.kind # "blank"
  <2>1. q = TakeSum(m, line)
    BY <1>4, <1>7
  <2>2. \E n \in Nat : q = [m EXCEPT !.inSum = FALSE, !.given = n]
    BY <2>1, LineFacts DEF TakeSum
  <2>3. /\ q \in ParseState /\ q.cf = m.cf /\ q.ufm = m.ufm /\ q.end = m.end /\ q.sum = m.sum
        /\ q.inCF = m.inCF /\ q.inUFM = m.inUFM /\ q.inEnd = m.inEnd /\ q.inRow = m.inRow
        /\ q.inVer = m.inVer /\ ~q.inSum
    BY <1>1, <2>2 DEF ParseState
  <2>k. Keeps(p, line, q)
    BY <1>1, <1>7, <2>3 DEF Keeps, ToCF, ToUFM, ToEnd, Elsewhere
  <2>m. Moves(p, line, q)
    BY <1>1, <1>7, <2>3 DEF Moves, Elsewhere, Flags
  <2> QED BY <2>3, <2>k, <2>m
<1>8. CASE ~m.inCF /\ ~(m.inSum /\ line.kind # "blank") /\ (m.inRow \/ m.inVer)
  <2>1. \/ q = TakeFeature(m, line) /\ m.inRow
        \/ q = TakeVersion(m, line) /\ ~m.inRow
    BY <1>4, <1>8
  <2>2. /\ q \in ParseState /\ q.cf = m.cf /\ q.ufm = m.ufm /\ q.end = m.end /\ q.sum = m.sum
        /\ q.inCF = m.inCF /\ q.inUFM = m.inUFM /\ q.inEnd = m.inEnd /\ q.inSum = m.inSum
        /\ q.inRow <=> (m.inRow /\ line.kind \in {"FEATURE", "blank", "E"})
        /\ ~m.inVer => ~q.inVer
    BY <1>1, <2>1 DEF TakeFeature, TakeVersion, ParseState
  <2>k. Keeps(p, line, q)
    BY <1>1, <1>8, <2>2 DEF Keeps, ToCF, ToUFM, ToEnd, Elsewhere
  <2>m. Moves(p, line, q)
    BY <1>1, <1>8, <2>2 DEF Moves, Elsewhere, Flags
  <2> QED BY <2>2, <2>k, <2>m
<1>9. CASE ~Elsewhere(p, line) /\ m.inUFM
  <2>1. q = Section(m, line, "inUFM", SkippedInUFM, Keep(m, line, "ufm"))
    BY <1>1, <1>4, <1>9 DEF Elsewhere
  <2>2. Digits(line) => line.kind \notin SkippedInUFM
    BY DEF Digits, DigitKinds, SkippedInUFM, LLines
  <2>3. q \in ParseState /\ Sorted(m, line, "inUFM", SkippedInUFM, "ufm", q)
    BY <1>1, <2>1, <2>2, SectionEffect
  <2>k. Keeps(p, line, q)
    BY <1>1, <1>5, <1>9, <2>3 DEF Keeps, ToCF, ToUFM, ToEnd, Elsewhere, Sorted
  <2>m. Moves(p, line, q)
    BY <1>1, <1>5, <1>9, <2>3 DEF Moves, Elsewhere, Flags, Sorted
  <2> QED BY <2>3, <2>k, <2>m
<1>10. CASE ~Elsewhere(p, line) /\ ~m.inUFM /\ m.inEnd
  <2>1. q = Section(m, line, "inEnd", SkippedInEnd, Keep(m, line, "end"))
    BY <1>1, <1>4, <1>10 DEF Elsewhere
  <2>2. Digits(line) => line.kind \notin SkippedInEnd
    BY DEF Digits, DigitKinds, SkippedInEnd, LLines
  <2>3. q \in ParseState /\ Sorted(m, line, "inEnd", SkippedInEnd, "end", q)
    BY <1>1, <2>1, <2>2, SectionEffect
  <2>k. Keeps(p, line, q)
    BY <1>1, <1>5, <1>10, <2>3 DEF Keeps, ToCF, ToUFM, ToEnd, Elsewhere, Sorted
  <2>m. Moves(p, line, q)
    BY <1>1, <1>5, <1>10, <2>3 DEF Moves, Elsewhere, Flags, Sorted
  <2> QED BY <2>3, <2>k, <2>m
<1>11. CASE ~Elsewhere(p, line) /\ ~m.inUFM /\ ~m.inEnd
  <2>1. q = m
    BY <1>1, <1>4, <1>11 DEF Elsewhere
  <2>k. Keeps(p, line, q)
    BY <1>1, <1>11, <2>1 DEF Keeps, ToCF, ToUFM, ToEnd, Elsewhere
  <2>m. Moves(p, line, q)
    BY <1>1, <1>11, <2>1 DEF Moves, Elsewhere, Flags
  <2> QED BY <1>1, <2>1, <2>k, <2>m
<1> QED BY <1>1, <1>6, <1>7, <1>8, <1>9, <1>10, <1>11 DEF Elsewhere

Counts(s, line, t) ==
  /\ t.cf = s.cf + (IF Digits(line) /\ CFAt(s, line) THEN 1 ELSE 0)
  /\ t.ufm = s.ufm + (IF Digits(line) /\ ~CFAt(s, line) /\ UFMAt(s, line) THEN 1 ELSE 0)
  /\ t.end = s.end + (IF /\ Digits(line) /\ ~CFAt(s, line) /\ ~UFMAt(s, line)
                         /\ EndAt(s, line)
                      THEN 1 ELSE 0)
  /\ t.inCF <=> CFAt(s, line) /\ (line.kind \in SkippedInCF \/ Digits(line))
  /\ t.inUFM <=> /\ UFMAt(s, line)
                 /\ CFAt(s, line) \/ line.kind \in SkippedInUFM \/ Digits(line)
  /\ t.inEnd <=> /\ EndAt(s, line)
                 /\ \/ CFAt(s, line) \/ UFMAt(s, line)
                    \/ line.kind \in SkippedInEnd \/ Digits(line)

LEMMA CountEffect ==
  ASSUME NEW s \in SizeState, NEW line \in Line, NEW t, t = CountLine(s, line)
  PROVE  t \in SizeState /\ Counts(s, line, t)
<1> DEFINE m == Marked(s, line, SizeTags)
<1>1. /\ m \in SizeState
      /\ m.cf = s.cf /\ m.ufm = s.ufm /\ m.end = s.end
      /\ (m.inCF <=> CFAt(s, line)) /\ (m.inUFM <=> UFMAt(s, line)) /\ (m.inEnd <=> EndAt(s, line))
  BY MarkedSizes DEF CFAt, UFMAt, EndAt
<1> HIDE DEF m
<1>2. t = IF m.inCF THEN Section(m, line, "inCF", SkippedInCF, [m EXCEPT !.cf = @ + 1])
     ELSE IF m.inUFM THEN Section(m, line, "inUFM", SkippedInUFM, [m EXCEPT !.ufm = @ + 1])
     ELSE IF m.inEnd THEN Section(m, line, "inEnd", SkippedInEnd, [m EXCEPT !.end = @ + 1])
     ELSE m
  BY DEF CountLine, m
<1>3. Digits(line) => line.kind \notin SkippedInCF \cup SkippedInUFM \cup SkippedInEnd
  BY DEF Digits, DigitKinds, SkippedInCF, SkippedInUFM, SkippedInEnd, LLines
<1>4. CASE m.inCF
  <2>1. t = Section(m, line, "inCF", SkippedInCF, [m EXCEPT !.cf = @ + 1])
    BY <1>2, <1>4
  <2>2. t \in SizeState
    <3>1. t = m \/ t = [m EXCEPT !.cf = @ + 1] \/ t = [m EXCEPT !.inCF = FALSE]
      BY <2>1 DEF Section
    <3>2. [m EXCEPT !.cf = @ + 1] \in SizeState
      BY <1>1 DEF SizeState
    <3>3. [m EXCEPT !.inCF = FALSE] \in SizeState
      BY <1>1 DEF SizeState
    <3> QED BY <1>1, <3>1, <3>2, <3>3
  <2>3. Counts(s, line, t)
    BY <1>1, <1>3, <1>4, <2>1 DEF Section, SizeState, Counts
  <2> QED BY <2>2, <2>3
<1>5. CASE ~m.inCF /\ m.inUFM
  <2>1. t = Section(m, line, "inUFM", SkippedInUFM, [m EXCEPT !.ufm = @ + 1])
    BY <1>2, <1>5
  <2>2. t \in SizeState
    <3>1. t = m \/ t = [m EXCEPT !.ufm = @ + 1] \/ t = [m EXCEPT !.inUFM = FALSE]
      BY <2>1 DEF Section
    <3>2. [m EXCEPT !.ufm = @ + 1] \in SizeState
      BY <1>1 DEF SizeState
    <3>3. [m EXCEPT !.inUFM = FALSE] \in SizeState
      BY <1>1 DEF SizeState
    <3> QED BY <1>1, <3>1, <3>2, <3>3
  <2>3. Counts(s, line, t)
    BY <1>1, <1>3, <1>5, <2>1 DEF Section, SizeState, Counts
  <2> QED BY <2>2, <2>3
<1>6. CASE ~m.inCF /\ ~m.inUFM /\ m.inEnd
  <2>1. t = Section(m, line, "inEnd", SkippedInEnd, [m EXCEPT !.end = @ + 1])
    BY <1>2, <1>6
  <2>2. t \in SizeState
    <3>1. t = m \/ t = [m EXCEPT !.end = @ + 1] \/ t = [m EXCEPT !.inEnd = FALSE]
      BY <2>1 DEF Section
    <3>2. [m EXCEPT !.end = @ + 1] \in SizeState
      BY <1>1 DEF SizeState
    <3>3. [m EXCEPT !.inEnd = FALSE] \in SizeState
      BY <1>1 DEF SizeState
    <3> QED BY <1>1, <3>1, <3>2, <3>3
  <2>3. Counts(s, line, t)
    BY <1>1, <1>3, <1>6, <2>1 DEF Section, SizeState, Counts
  <2> QED BY <2>2, <2>3
<1>7. CASE ~m.inCF /\ ~m.inUFM /\ ~m.inEnd
  BY <1>1, <1>2, <1>7 DEF Counts, SizeState
<1> QED BY <1>4, <1>5, <1>6, <1>7

-------------------------------------------------------------------------------
(* The two passes, line by line.                                            *)

SizesStart ==
  [inCF |-> FALSE, inUFM |-> FALSE, inEnd |-> FALSE, cf |-> 0, ufm |-> 0, end |-> 0]
SizesUpTo(lines) ==
  CHOOSE f : f = [k \in 0..Len(lines) |->
                    IF k = 0 THEN SizesStart ELSE CountLine(f[k - 1], lines[k])]

ParseStart ==
  [inCF |-> FALSE, inUFM |-> FALSE, inEnd |-> FALSE, inRow |-> FALSE,
   inVer |-> FALSE, inSum |-> FALSE,
   cf |-> <<>>, ufm |-> <<>>, end |-> <<>>, sum |-> 0, given |-> 0]
ParsedUpTo(lines) ==
  CHOOSE f : f = [k \in 0..Len(lines) |->
                    IF k = 0 THEN ParseStart ELSE ParseLine(f[k - 1], lines[k])]

LEMMA LinesOf ==
  ASSUME NEW lines \in Seq(Line)
  PROVE  Len(lines) \in Nat /\ \A k \in 1..Len(lines) : lines[k] \in Line
OBVIOUS

LEMMA SizesLoop ==
  ASSUME NEW lines \in Seq(Line)
  PROVE  /\ Sizes(lines) = SizesUpTo(lines)[Len(lines)]
         /\ SizesUpTo(lines)[0] = SizesStart
         /\ \A k \in 1..Len(lines) : 
              SizesUpTo(lines)[k] = CountLine(SizesUpTo(lines)[k - 1], lines[k])
         /\ \A k \in 0..Len(lines) : SizesUpTo(lines)[k] \in SizeState
<1> DEFINE n == Len(lines)
           F == [x \in SizeState \X (1..n) |-> CountLine(x[1], lines[x[2]])]
           g == SizesUpTo(lines)
<1>1. n \in Nat /\ \A k \in 1..n : \A s \in SizeState : CountLine(s, lines[k]) \in SizeState
  BY LinesOf, CountEffect
<1>2. F \in Steps(SizeState, n)
  BY <1>1 DEF Steps
<1>s. SizesStart \in SizeState
  BY DEF SizesStart, SizeState
<1>3. PICK f \in [0..n -> SizeState] :
        f[0] = SizesStart /\ \A k \in 1..n : f[k] = F[<<f[k - 1], k>>]
  <2>1. \E f : Values(f, SizeState, n, SizesStart, F)
    <3> HIDE DEF F, n
    <3> QED BY <1>1, <1>2, <1>s, LoopExists
  <2> QED BY <2>1 DEF Values
<1>4. \A k \in 1..n : f[k] = CountLine(f[k - 1], lines[k])
  BY <1>3
<1>5. f = [k \in 0..n |-> IF k = 0 THEN SizesStart ELSE CountLine(f[k - 1], lines[k])]
  BY <1>3, <1>4
<1>6. g = [k \in 0..n |-> IF k = 0 THEN SizesStart ELSE CountLine(g[k - 1], lines[k])]
  BY <1>5 DEF SizesUpTo
<1>7. g[0] = SizesStart /\ \A k \in 1..n : g[k] = CountLine(g[k - 1], lines[k])
  BY <1>1, <1>6
<1>8. Sizes(lines) = g[n]
  BY DEF Sizes, LineByLine, SizesUpTo, SizesStart
<1> DEFINE T == {k \in 0..n : g[k] \in SizeState}
<1>9. \A k \in 1..n : k - 1 \in T => k \in T
  BY <1>1, <1>7
<1>10. \A k \in 0..n : k \in T
  <2>1. 0 \in T
    BY <1>1, <1>7, <1>s
  <2> HIDE DEF T
  <2> QED BY <1>1, <1>9, <2>1, Induction
<1> QED BY <1>7, <1>8, <1>10

LEMMA ParseLoop ==
  ASSUME NEW lines \in Seq(Line)
  PROVE  /\ Parsed(lines) = ParsedUpTo(lines)[Len(lines)]
         /\ ParsedUpTo(lines)[0] = ParseStart
         /\ \A k \in 1..Len(lines) : 
              ParsedUpTo(lines)[k] = ParseLine(ParsedUpTo(lines)[k - 1], lines[k])
         /\ \A k \in 0..Len(lines) : ParsedUpTo(lines)[k] \in ParseState
<1> DEFINE n == Len(lines)
           F == [x \in ParseState \X (1..n) |-> ParseLine(x[1], lines[x[2]])]
           g == ParsedUpTo(lines)
<1>1. n \in Nat /\ \A k \in 1..n : \A p \in ParseState : ParseLine(p, lines[k]) \in ParseState
  BY LinesOf, ParseEffect
<1>2. F \in Steps(ParseState, n)
  BY <1>1 DEF Steps
<1>s. ParseStart \in ParseState
  <2>1. <<>> \in Seq(Row)
    OBVIOUS
  <2> QED BY <2>1 DEF ParseStart, ParseState
<1>3. PICK f \in [0..n -> ParseState] :
        f[0] = ParseStart /\ \A k \in 1..n : f[k] = F[<<f[k - 1], k>>]
  <2>1. \E f : Values(f, ParseState, n, ParseStart, F)
    <3> HIDE DEF F, n
    <3> QED BY <1>1, <1>2, <1>s, LoopExists
  <2> QED BY <2>1 DEF Values
<1>4. \A k \in 1..n : f[k] = ParseLine(f[k - 1], lines[k])
  BY <1>3
<1>5. f = [k \in 0..n |-> IF k = 0 THEN ParseStart ELSE ParseLine(f[k - 1], lines[k])]
  BY <1>3, <1>4
<1>6. g = [k \in 0..n |-> IF k = 0 THEN ParseStart ELSE ParseLine(g[k - 1], lines[k])]
  BY <1>5 DEF ParsedUpTo
<1>7. g[0] = ParseStart /\ \A k \in 1..n : g[k] = ParseLine(g[k - 1], lines[k])
  BY <1>1, <1>6
<1>8. Parsed(lines) = g[n]
  BY DEF Parsed, LineByLine, ParsedUpTo, ParseStart
<1> DEFINE T == {k \in 0..n : g[k] \in ParseState}
<1>9. \A k \in 1..n : k - 1 \in T => k \in T
  BY <1>1, <1>7
<1>10. \A k \in 0..n : k \in T
  <2>1. 0 \in T
    BY <1>1, <1>7, <1>s
  <2> HIDE DEF T
  <2> QED BY <1>1, <1>9, <2>1, Induction
<1> QED BY <1>7, <1>8, <1>10

\* The sum of the second pass is that of the rows it stores.
LEMMA SumOfParsed ==
  ASSUME NEW lines \in Seq(Line)
  PROVE  LET p == Parsed(lines) IN
         /\ p \in ParseState
         /\ p.sum = SumRows(p.cf) + SumRows(p.ufm) + SumRows(p.end)
<1> DEFINE n == Len(lines)
           P == ParsedUpTo(lines)
           Adds(p) == p.sum = SumRows(p.cf) + SumRows(p.ufm) + SumRows(p.end)
           T == {k \in 0..n : Adds(P[k])}
<1>1. n \in Nat /\ n \in 0..n
  BY LinesOf
<1>2. 0 \in T
  BY <1>1, ParseLoop, SumEmpty DEF ParseStart
<1>3. ASSUME NEW k \in 1..n, k - 1 \in T PROVE k \in T
  <2> DEFINE p == P[k - 1]
             line == lines[k]
             q == P[k]
  <2>1. /\ p \in ParseState /\ line \in Line /\ q = ParseLine(p, line)
        /\ Adds(p)
    BY <1>3, ParseLoop, LinesOf
  <2> HIDE DEF p, line, q, Adds, P
  <2>2. Keeps(p, line, q)
    BY <2>1, ParseEffect
  <2>3. p.cf \in Seq(Row) /\ p.ufm \in Seq(Row) /\ p.end \in Seq(Row)
    BY <2>1 DEF ParseState
  <2>4. SumRows(p.cf) \in Nat /\ SumRows(p.ufm) \in Nat /\ SumRows(p.end) \in Nat
    BY <2>3, SumNat
  <2>5. Digits(line) => line.row \in Row /\ RowSum(line.row) \in Nat
    BY <2>1, LineFacts DEF RowSum, Row
  <2>6. Digits(line) =>
          /\ SumRows(Append(p.cf, line.row)) = SumRows(p.cf) + RowSum(line.row)
          /\ SumRows(Append(p.ufm, line.row)) = SumRows(p.ufm) + RowSum(line.row)
          /\ SumRows(Append(p.end, line.row)) = SumRows(p.end) + RowSum(line.row)
    BY <2>3, <2>5, SumAppend
  <2>7. Adds(q)
    <3>1. CASE ToCF(p, line)
      <4>1. q.cf = Append(p.cf, line.row) /\ q.ufm = p.ufm /\ q.end = p.end
             /\ q.sum = p.sum + RowSum(line.row) /\ Digits(line)
        BY <2>2, <3>1 DEF Keeps, ToCF, ToUFM, ToEnd, Elsewhere
      <4> QED BY <2>1, <2>4, <2>5, <2>6, <4>1 DEF Adds
    <3>2. CASE ToUFM(p, line)
      <4>1. q.cf = p.cf /\ q.ufm = Append(p.ufm, line.row) /\ q.end = p.end
             /\ q.sum = p.sum + RowSum(line.row) /\ Digits(line)
        BY <2>2, <3>2 DEF Keeps, ToCF, ToUFM, ToEnd, Elsewhere
      <4> QED BY <2>1, <2>4, <2>5, <2>6, <4>1 DEF Adds
    <3>3. CASE ToEnd(p, line)
      <4>1. q.cf = p.cf /\ q.ufm = p.ufm /\ q.end = Append(p.end, line.row)
             /\ q.sum = p.sum + RowSum(line.row) /\ Digits(line)
        BY <2>2, <3>3 DEF Keeps, ToCF, ToUFM, ToEnd, Elsewhere
      <4> QED BY <2>1, <2>4, <2>5, <2>6, <4>1 DEF Adds
    <3>4. CASE ~ToCF(p, line) /\ ~ToUFM(p, line) /\ ~ToEnd(p, line)
      BY <2>1, <2>2, <3>4 DEF Keeps, Adds
    <3> QED BY <3>1, <3>2, <3>3, <3>4
  <2> QED BY <2>7 DEF q
<1> HIDE DEF T
<1>4. n \in T
  BY <1>1, <1>2, <1>3, Induction
<1>5. Adds(P[n])
  BY <1>4 DEF T
<1> HIDE DEF Adds
<1> QED BY <1>1, <1>5, ParseLoop DEF Adds

-------------------------------------------------------------------------------
(* Types.                                                                   *)

\* The call in progress, and the option it belongs to.
Control ==
  /\ pc \in Labels
  /\ stage \in {"none", "version", "update", "checksum"}
  /\ stage = "none" <=> pc \in {"idle", "scan", "id"}
  /\ verdict \in {"none", "PASS", "FAIL", "SHOWN", "NA", "SUM", "UNSUPPORTED", "KILLED"}
  /\ verdict = "PASS" => pc = "idle"
  /\ op \in Ops \cup {"none"} /\ (pc # "idle" => op \in Ops)
  /\ pc \in {"erase", "initCF", "sendCF", "initUFM", "sendUFM", "programmed", "writeUsercode",
             "initVerify", "verify"} => stage = "update"
  /\ pc \in {"usercode", "yzVersion"} => stage = "version"
  /\ pc = "add" => stage = "checksum"
  /\ pc = "parse" => stage \in {"update", "checksum"}
  /\ pc = "id" => op \in {"program", "id"}
  /\ stage = "update" => op = "program"
  /\ stage = "checksum" => op = "checksum"
  /\ stage = "version" => op \in {"version", "program"}

\* The chip and its flash.
Chip ==
  /\ <<chip, intf>> \in Boards
  /\ cf \in [1..CFRows -> Row] /\ ufm \in [1..UFMRows -> Row]
  /\ usercode \in {"old", "new"} /\ mode \in {"user", "prog"} /\ misstored \in BOOLEAN
  /\ ptr \in [area : {"none", "cf", "ufm"}, row : Nat \ {0}]

\* What was read of the file fits the flash.
Request ==
  /\ file \in Files \cup {NoFile} /\ (op \in {"program", "checksum"} => file \in Files)
  /\ i \in 1..CFRows + UFMRows + 1
  /\ devInfo.cf \in Seq(Row) /\ Len(devInfo.cf) <= CFRows
  /\ devInfo.ufm \in Seq(Row) /\ Len(devInfo.ufm) <= UFMRows

Fate == hurt \in BOOLEAN /\ blind \in BOOLEAN /\ faults \in 0..MaxFaults

Types == Control /\ Chip /\ Request /\ Fate

LEMMA TypesAreTypes == Types => ToolTypes
BY DEF Types, Control, Chip, Request, Fate, ToolTypes

LEMMA Sizes0 == CFRows \in Nat /\ UFMRows \in Nat /\ MaxFaults \in Nat
BY CpldAssumption

LEMMA RowFacts ==
  /\ Blank \in Row /\ JunkRow \in Row /\ OldRow \in Row
  /\ \A old, new \in Row : Stored(old, new) \in Row
  /\ \A row \in Row : Spoiled(row) \subseteq Row
BY CpldAssumption DEF Blank, Row, Stored, Spoiled

LEMMA NoInfoFits ==
  /\ NoInfo.cf \in Seq(Row) /\ Len(NoInfo.cf) <= CFRows
  /\ NoInfo.ufm \in Seq(Row) /\ Len(NoInfo.ufm) <= UFMRows
<1>1. NoInfo.cf = <<>> /\ NoInfo.ufm = <<>>
  BY DEF NoInfo
<1>2. <<>> \in Seq(Row) /\ Len(<<>>) = 0
  OBVIOUS
<1> QED BY <1>1, <1>2, Sizes0

LEMMA InitTypes == Init => Types
<1> SUFFICES ASSUME Init PROVE Types
  OBVIOUS
<1>1. <<chip, intf>> \in Boards
  <2>1. PICK board \in Boards : chip = board[1] /\ intf = board[2]
    BY DEF Init
  <2>2. board = <<board[1], board[2]>>
    BY <2>1, CpldAssumption
  <2> QED BY <2>1, <2>2
<1>2. /\ 1 \in 1..CFRows + UFMRows + 1 /\ 0 \in 0..MaxFaults
  BY Sizes0
<1>3. cf \in [1..CFRows -> Row] /\ ufm \in [1..UFMRows -> Row]
  BY RowFacts DEF Init
<1>4. Control
  BY DEF Init, Control, Labels
<1>5. Chip
  <2>1. ptr \in [area : {"none", "cf", "ufm"}, row : Nat \ {0}]
    BY DEF Init
  <2> QED BY <1>1, <1>3, <2>1 DEF Init, Chip
<1>6. Request
  BY <1>2, NoInfoFits DEF Init, Request
<1>7. Fate
  BY <1>2 DEF Init, Fate
<1> QED BY <1>4, <1>5, <1>6, <1>7 DEF Types

\* How a call comes back to main.
LEMMA ReturnControl ==
  ASSUME Control, stage # "none", Return, op' = op
  PROVE  /\ Control'
         /\ pc' \in {"idle", "id"} /\ verdict' # "PASS"
         /\ stage = "update" => pc' = "idle"
         /\ op # "program" \/ stage = "update" \/ pc' = "id"
BY DEF Control, Return, VersionReturns, Exit, Labels

LEMMA ExitControl ==
  ASSUME Control, NEW v \in {"FAIL", "SHOWN", "NA", "SUM", "UNSUPPORTED", "KILLED", "PASS"}, Exit(v),
         op' = op
  PROVE  Control'
BY DEF Control, Exit, Labels

LEMMA GotoControl ==
  ASSUME Control, stage # "none", op' = op,
         NEW label \in Labels \ {"idle", "scan", "id", "usercode", "yzVersion", "add", "parse"},
         stage = "update" \/ label \in {"start", "done", "refresh", "disable"},
         Goto(label)
  PROVE  Control' /\ verdict' # "PASS"
BY DEF Control, Goto, Labels

LEMMA DetectedControl ==
  ASSUME Control, pc = "scan", Detected, op' = op
  PROVE  Control' /\ pc' # "idle" /\ verdict' # "PASS" /\ stage' # "update"
BY CpldAssumption DEF Control, Detected, Goto, Labels

LEMMA LostTransferControl ==
  ASSUME Control, stage # "none", op' = op,
         NEW label \in Labels \ {"idle", "scan", "id", "usercode", "yzVersion", "add", "parse"},
         stage = "update" \/ label \in {"start", "done", "refresh", "disable"},
         LostTransfer(label)
  PROVE  Control' /\ verdict' # "PASS"
BY ReturnControl, GotoControl DEF LostTransfer

LEMMA InvokeControl == ASSUME Control, Invoke PROVE Control'
BY DEF Control, Invoke, Labels

LEMMA ScanControl ==
  ASSUME Control, ScanLattice \/ (\E n \in 1..7 : ScanYzbb(n)) \/ ScanJtagFails
  PROVE  Control'
<1>1. pc = "scan" /\ op' = op /\ (Detected \/ Exit("UNSUPPORTED"))
  BY DEF ScanLattice, ScanYzbb, ScanJtagFails, SameRequest, request
<1> QED BY <1>1, ExitControl, DetectedControl

LEMMA IdControl == ASSUME Control, YzbbVersion \/ GetId PROVE Control'
<1>1. op' = op
  BY DEF YzbbVersion, GetId, SameRequest, request
<1>2. CASE YzbbVersion
  <2>1. pc = "yzVersion" /\ \E v \in {"SHOWN", "NA"} : VersionReturns(v)
    BY <1>2 DEF YzbbVersion
  <2> QED BY <1>1, <2>1 DEF Control, VersionReturns, Exit, Labels
<1>3. CASE GetId
  <2>1. pc = "id" /\ \E v \in {"SHOWN", "NA"} : IdReturns(v)
    BY <1>3 DEF GetId
  <2> QED BY <1>1, <2>1 DEF Control, IdReturns, Exit, Labels
<1> QED BY <1>2, <1>3

LEMMA FileControl == ASSUME Control, Parse \/ Anlogic PROVE Control'
<1>1. pc = "parse" /\ stage # "none" /\ stage \in {"update", "checksum"} /\ op' = op
  BY DEF Control, Parse, Anlogic, request
<1>2. Goto("start") \/ Return \/ \E v \in {"FAIL", "NA", "SUM", "KILLED"} : Exit(v)
  BY DEF Parse, Anlogic
<1>3. "start" \in Labels
  BY DEF Labels
<1> QED BY <1>1, <1>2, <1>3, GotoControl, ReturnControl, ExitControl

LEMMA StartControl == ASSUME Control, Start \/ ReadUsercode PROVE Control'
<1>1. stage # "none" /\ op' = op
  BY DEF Control, Start, ReadUsercode, SameRequest, request
<1>2. CASE Start
  <2>1. pc = "start" /\ (Return \/ AfterStart)
    BY <1>2 DEF Start
  <2>2. CASE AfterStart
    BY <1>1, <2>1, <2>2 DEF Control, AfterStart, Goto, Labels
  <2> QED BY <1>1, <2>1, <2>2, ReturnControl
<1>3. CASE ReadUsercode
  <2>1. Goto("done") \/ LostTransfer("done")
    BY <1>3 DEF ReadUsercode
  <2>2. "done" \in Labels
    BY DEF Labels
  <2> QED BY <1>1, <2>1, <2>2, GotoControl, LostTransferControl
<1> QED BY <1>2, <1>3

UpdateLabels == {"initCF", "sendCF", "initUFM", "sendUFM", "programmed", "writeUsercode",
                 "initVerify", "verify", "done"}

LEMMA UpdateMoves ==
  ASSUME Control,
         \/ Erase \/ InitCF \/ SendCF \/ CFSent \/ InitUFM \/ SendUFM \/ UFMSent
         \/ CheckProgrammed \/ WriteUsercode \/ InitVerify \/ VerifyRow \/ Verified
  PROVE  /\ stage = "update" /\ op' = op
         /\ \E label \in UpdateLabels : Goto(label) \/ LostTransfer(label) \/ Return
<1>1. CASE Erase
  BY <1>1 DEF Erase, Control, UpdateLabels, SameRequest, request
<1>2. CASE InitCF \/ InitUFM
  BY <1>2 DEF InitCF, InitUFM, InitAddress, Control, UpdateLabels, request
<1>3. CASE SendCF \/ SendUFM
  BY <1>3 DEF SendCF, SendUFM, SendRow, Control, UpdateLabels, request
<1>4. CASE CFSent \/ UFMSent \/ Verified
  BY <1>4 DEF CFSent, UFMSent, Verified, RowsSent, Control, UpdateLabels, SameRequest, request
<1>5. CASE CheckProgrammed \/ WriteUsercode
  BY <1>5 DEF CheckProgrammed, WriteUsercode, Control, UpdateLabels, SameRequest, request
<1>6. CASE InitVerify
  BY <1>6 DEF InitVerify, Control, UpdateLabels, request
<1>7. CASE VerifyRow
  BY <1>7 DEF VerifyRow, Compare, Control, UpdateLabels, request
<1> QED BY <1>1, <1>2, <1>3, <1>4, <1>5, <1>6, <1>7

LEMMA UpdateControl ==
  ASSUME Control,
         \/ Erase \/ InitCF \/ SendCF \/ CFSent \/ InitUFM \/ SendUFM \/ UFMSent
         \/ CheckProgrammed \/ WriteUsercode \/ InitVerify \/ VerifyRow \/ Verified
  PROVE  Control'
<1>1. stage = "update" /\ op' = op
  BY UpdateMoves
<1>2. PICK label \in UpdateLabels : Goto(label) \/ LostTransfer(label) \/ Return
  BY UpdateMoves
<1>3. label \in Labels \ {"idle", "scan", "id", "usercode", "yzVersion", "add", "parse"}
  BY DEF UpdateLabels, Labels
<1> QED BY <1>1, <1>2, <1>3, GotoControl, LostTransferControl, ReturnControl

LEMMA EndControl == ASSUME Control, AddUp \/ ProgramDone \/ Refresh \/ Disable PROVE Control'
<1>1. stage # "none" /\ op' = op
  BY DEF Control, AddUp, ProgramDone, Refresh, Disable, SameRequest, request
<1>2. {"done", "refresh", "disable"} \subseteq Labels
  BY DEF Labels
<1>3. CASE AddUp \/ ProgramDone \/ Refresh
  <2>1. \E label \in {"done", "refresh", "disable"} : Goto(label) \/ LostTransfer(label) \/ Return
    BY <1>3 DEF AddUp, ProgramDone, Refresh
  <2> QED BY <1>1, <1>2, <2>1, GotoControl, LostTransferControl, ReturnControl
<1>4. CASE Disable
  <2>1. Return \/ Ends
    BY <1>4 DEF Disable
  <2>2. CASE Ends
    BY <1>1, <2>2 DEF Control, Ends, VersionReturns, Exit, Labels
  <2> QED BY <1>1, <2>1, <2>2, ReturnControl
<1> QED BY <1>3, <1>4

LEMMA StepControl == ASSUME Control, Next PROVE Control'
<1>1. CASE Kill
  <2>1. Exit("KILLED") /\ op' = op
    BY <1>1 DEF Kill, SameRequest, request
  <2> QED BY <2>1, ExitControl
<1>2. CASE ToolStep
  BY <1>2, ScanControl, IdControl, FileControl, StartControl, UpdateControl, EndControl DEF ToolStep
<1> QED BY <1>1, <1>2, InvokeControl DEF Next

-------------------------------------------------------------------------------
(* The chip, the request and what failed.                                   *)

LEMMA FateTypes ==
  ASSUME Fate, Fine \/ Fault \/ FaultOfVerify \/ Dies
  PROVE  Fate' /\ (hurt => hurt') /\ (blind => blind')
<1>1. CASE Fine
  BY <1>1 DEF Fate, Fine, fate
<1>2. CASE Failed
  <2>1. faults' \in 0..MaxFaults /\ hurt' = TRUE
    BY <1>2, Sizes0 DEF Fate, Failed
  <2>2. blind' \in BOOLEAN /\ (blind => blind')
    BY <1>2 DEF Fate, Fine, Fault, FaultOfVerify, Dies, fate
  <2> QED BY <2>1, <2>2 DEF Fate
<1>3. CASE Dies
  BY <1>3 DEF Fate, Dies
<1> QED BY <1>1, <1>2, <1>3 DEF Fault, FaultOfVerify

\* A row at the pointer, and the pointer moved on.
LEMMA WriteChip ==
  ASSUME Chip, NEW new \in Row, Write(new), UNCHANGED <<world, usercode, mode>>,
         misstored' \in BOOLEAN
  PROVE  Chip'
<1>1. AtRow => ptr.row \in Nat \ {0} /\ ptr.row <= AreaRows(ptr.area)
  BY DEF AtRow, Chip
<1>2. ASSUME NEW area, NEW n \in Nat, NEW rows \in [1..n -> Row],
             area \in {"cf", "ufm"}, AreaRows(area) = n
      PROVE  StoreAt(area, rows, new) \in [1..n -> Row]
  <2>1. CASE AtRow /\ ptr.area = area
    <3>1. ptr.row \in 1..n
      BY <1>1, <1>2, <2>1
    <3>2. Stored(rows[ptr.row], new) \in Row
      BY <3>1, RowFacts
    <3> QED BY <2>1, <3>1, <3>2 DEF StoreAt
  <2> QED BY <2>1 DEF StoreAt
<1>3. AreaRows("cf") = CFRows /\ AreaRows("ufm") = UFMRows
  BY DEF AreaRows
<1>4. cf' \in [1..CFRows -> Row] /\ ufm' \in [1..UFMRows -> Row]
  BY <1>2, <1>3, Sizes0 DEF Write, Chip
<1>5. ptr' \in [area : {"none", "cf", "ufm"}, row : Nat \ {0}]
  BY DEF Write, Advanced, Chip
<1> QED BY <1>4, <1>5 DEF Chip, world

LEMMA StillChip == ASSUME Chip, UNCHANGED <<world, device>> PROVE Chip'
BY DEF Chip, world, device, flash

LEMMA YzbbChip ==
  ASSUME Chip, NEW n \in 1..7, YzbbGetId(n), UNCHANGED world
  PROVE  Chip'
BY DEF Chip, YzbbGetId, world, flash

LEMMA EraseChip == ASSUME Chip, Erase PROVE Chip'
<1>1. EraseDevice \/ UNCHANGED flash
  BY DEF Erase
<1>2. UNCHANGED <<world, mode, ptr>>
  BY DEF Erase
<1>3. Blanked(cf) \in [1..CFRows -> Row] /\ Blanked(ufm) \in [1..UFMRows -> Row]
  BY RowFacts DEF Blanked, Chip
<1>4. CASE EraseDevice
  BY <1>2, <1>3, <1>4 DEF EraseDevice, Chip, world, flash
<1>5. CASE UNCHANGED flash
  BY <1>2, <1>5 DEF Chip, world, flash
<1> QED BY <1>1, <1>4, <1>5

LEMMA SendChip ==
  ASSUME Chip, Request, SendCF \/ SendUFM
  PROVE  Chip'
<1>1. PICK rows \in Seq(Row) : \E label \in Labels : SendRow(label, rows)
  BY DEF SendCF, SendUFM, Request, Labels
<1>2. PICK label \in Labels : SendRow(label, rows)
  BY <1>1
<1>3. i \in Nat \ {0} /\ i <= Len(rows) /\ rows[i] \in Row
  BY <1>1, <1>2, Sizes0 DEF SendRow, Request
<1>4. /\ UNCHANGED <<world, usercode, mode>>
      /\ \/ (\E row \in Row : Write(row)) /\ misstored' \in BOOLEAN
         \/ UNCHANGED <<cf, ufm, ptr, misstored>>
  BY <1>2, <1>3, RowFacts DEF SendRow, Chip
<1>5. CASE UNCHANGED <<cf, ufm, ptr, misstored>>
  BY <1>4, <1>5 DEF Chip, world
<1> QED BY <1>4, <1>5, WriteChip

LEMMA PtrChip ==
  ASSUME Chip, InitCF \/ InitUFM \/ InitVerify \/ VerifyRow \/ AddUp, Request
  PROVE  Chip'
<1>1. UNCHANGED <<world, flash, mode>>
  BY DEF InitCF, InitUFM, InitAddress, InitVerify, VerifyRow, AddUp
<1>2. Len(devInfo.ufm) + 1 \in Nat \ {0}
  BY DEF Request
<1>3. ptr' \in [area : {"none", "cf", "ufm"}, row : Nat \ {0}]
  BY <1>2 DEF InitCF, InitUFM, InitAddress, InitVerify, VerifyRow, AddUp, Advanced, Chip
<1> QED BY <1>1, <1>3 DEF Chip, world, flash

LEMMA StepChip == ASSUME Chip, Request, Next PROVE Chip'
<1>1. CASE \/ Invoke \/ Kill \/ ScanLattice \/ ScanJtagFails \/ YzbbVersion \/ Parse \/ Anlogic
           \/ ReadUsercode \/ CFSent \/ UFMSent \/ Verified \/ CheckProgrammed \/ Refresh
  <2>1. UNCHANGED <<world, device>>
    BY <1>1 DEF Invoke, Kill, ScanLattice, ScanJtagFails, YzbbVersion, Parse, Anlogic,
       ReadUsercode, CFSent, UFMSent, Verified, RowsSent, CheckProgrammed, Refresh
  <2> QED BY <2>1, StillChip
<1>2. CASE GetId \/ \E n \in 1..7 : ScanYzbb(n)
  <2>1. UNCHANGED world /\ (UNCHANGED device \/ \E n \in 1..7 : YzbbGetId(n))
    BY <1>2 DEF GetId, ScanYzbb
  <2> QED BY <2>1, StillChip, YzbbChip
<1>3. CASE Start \/ ProgramDone \/ Disable
  <2>1. UNCHANGED <<world, flash, ptr>> /\ mode' \in {"user", "prog", mode}
    BY <1>3 DEF Start, ProgramDone, Disable
  <2> QED BY <2>1 DEF Chip, world, flash
<1>4. CASE WriteUsercode
  <2>1. /\ UNCHANGED <<world, cf, ufm, misstored, mode, ptr>>
        /\ usercode' \in {"new", usercode}
    BY <1>4 DEF WriteUsercode
  <2> QED BY <2>1 DEF Chip, world
<1> QED BY <1>1, <1>2, <1>3, <1>4, EraseChip, SendChip, PtrChip DEF Next, ToolStep

LEMMA StepFate ==
  ASSUME Fate, Next
  PROVE  /\ Fate'
         /\ pc # "idle" => (hurt => hurt') /\ (blind => blind')
<1>1. CASE Invoke
  <2>1. hurt' = FALSE /\ blind' = FALSE /\ UNCHANGED faults /\ pc = "idle"
    BY <1>1 DEF Invoke
  <2> QED BY <2>1 DEF Fate
<1>2. Fine \/ Fault \/ FaultOfVerify \/ Dies \/ Invoke
  BY DEF Next, ToolStep, ScanLattice, ScanYzbb, ScanJtagFails, YzbbVersion, GetId, Parse, Anlogic,
     Start, ReadUsercode, Erase, InitCF, InitUFM, InitAddress, SendCF, SendUFM, SendRow, CFSent,
     UFMSent, Verified, RowsSent, CheckProgrammed, WriteUsercode, InitVerify, VerifyRow, AddUp,
     ProgramDone, Refresh, Disable, Kill
<1> QED BY <1>1, <1>2, FateTypes

\* What is known of a file that was parsed.
LEMMA LoadTypes ==
  ASSUME NEW lines \in Seq(Line)
  PROVE  LET img == Load(lines) IN
         /\ img.cf \in Seq(Row) /\ img.ufm \in Seq(Row) /\ img.end \in Seq(Row)
         /\ img.ok => img.checkSum =
                       (SumRows(img.cf) + SumRows(img.ufm) + SumRows(img.end)) % SumMod
<1> DEFINE p == Parsed(lines)
<1>1. p \in ParseState /\ p.sum = SumRows(p.cf) + SumRows(p.ufm) + SumRows(p.end)
  BY SumOfParsed
<1> HIDE DEF p
<1>2. /\ Load(lines).cf = p.cf /\ Load(lines).ufm = p.ufm /\ Load(lines).end = p.end
      /\ Load(lines).checkSum = p.given
      /\ Load(lines).ok => p.given = p.sum % SumMod
  BY DEF Load, p
<1> QED BY <1>1, <1>2 DEF ParseState

LEMMA LoadFits ==
  ASSUME NEW f \in Files
  PROVE  LET img == Load(Lines[f]) IN
         /\ img.cf \in Seq(Row) /\ Len(img.cf) <= CFRows
         /\ img.ufm \in Seq(Row) /\ Len(img.ufm) <= UFMRows
BY CpldAssumption, LoadTypes DEF Files

LEMMA StepRequest == ASSUME Control, Request, Next PROVE Request'
<1>1. 1 \in 1..CFRows + UFMRows + 1
  BY Sizes0
<1>2. CASE Invoke
  <2>1. file' \in Files \cup {NoFile} /\ devInfo' = NoInfo /\ i' = 1
    BY <1>2 DEF Invoke
  <2>2. op' \in {"program", "checksum"} => file' \in Files
    BY <1>2 DEF Invoke
  <2> QED BY <1>1, <2>1, <2>2, NoInfoFits DEF Request
<1>3. CASE Parse
  <2>1. devInfo' = Load(Lines[file]) /\ UNCHANGED <<op, file, i>> /\ file \in Files
    BY <1>3 DEF Parse, Request, Control
  <2> QED BY <2>1, LoadFits DEF Request
<1>4. CASE InitCF \/ InitUFM \/ InitVerify
  BY <1>1, <1>4 DEF InitCF, InitUFM, InitAddress, InitVerify, Request, request
<1>5. CASE SendCF \/ SendUFM \/ VerifyRow
  <2>1. /\ i' = i + 1 /\ UNCHANGED request
        /\ i <= Len(devInfo.cf) \/ i <= Len(devInfo.ufm)
    BY <1>5 DEF SendCF, SendUFM, SendRow, VerifyRow
  <2>2. Len(devInfo.cf) \in Nat /\ Len(devInfo.ufm) \in Nat
    BY DEF Request
  <2>3. i + 1 \in 1..CFRows + UFMRows + 1
    BY <2>1, <2>2, Sizes0 DEF Request
  <2> QED BY <2>1, <2>3 DEF Request, request
<1>6. CASE UNCHANGED <<request, i>>
  BY <1>6 DEF Request, request
<1>7. UNCHANGED <<request, i>> \/ Invoke \/ Parse \/ InitCF \/ InitUFM \/ InitVerify \/ SendCF
        \/ SendUFM \/ VerifyRow
  BY DEF Next, ToolStep, ScanLattice, ScanYzbb, ScanJtagFails, YzbbVersion, GetId, Anlogic, Start,
     ReadUsercode, Erase, CFSent, UFMSent, Verified, RowsSent, CheckProgrammed, WriteUsercode,
     AddUp, ProgramDone, Refresh, Disable, Kill, SameRequest
<1> QED BY <1>2, <1>3, <1>4, <1>5, <1>6, <1>7

LEMMA StepTypes == ASSUME Types, [Next]_vars PROVE Types'
<1>1. CASE UNCHANGED vars
  <2>1. UNCHANGED <<world, device, tool, fate>>
    BY <1>1 DEF vars
  <2> QED BY <2>1 DEF Types, Control, Chip, Request, Fate, world, device, flash, tool, fate
<1>2. CASE Next
  BY <1>2, StepControl, StepChip, StepRequest, StepFate DEF Types
<1> QED BY <1>1, <1>2

LEMMA AlwaysTypes == Spec => []Types
BY InitTypes, StepTypes, PTL DEF Spec

\* Every variable but the checksum keeps its type, for any boards, files and
\* sizes: the row of a loop stays in the flash, and a library call is in progress
\* exactly between its start and its return (main, *_cpld_update).
THEOREM CpldTypes == Spec => []ToolTypes
BY AlwaysTypes, TypesAreTypes, PTL

-------------------------------------------------------------------------------
(* What an update has done so far.                                          *)

\* The steps of an update in which the flash is open, after the erase, with the
\* rows of the one flash and the other written, and after the user code.
Opened   == {"erase", "initCF", "sendCF", "initUFM", "sendUFM", "programmed", "writeUsercode",
             "initVerify", "verify", "done"}
Ending   == {"done", "refresh", "disable"}
Coded    == {"initVerify", "verify"} \cup Ending
UFMDone  == {"programmed", "writeUsercode"} \cup Coded
CFDone   == {"initUFM", "sendUFM"} \cup UFMDone
Erased   == {"initCF", "sendCF"} \cup CFDone

HeadsTo(n) == \A r \in 1..Len(devInfo.cf) : r < n => cf[r].head = devInfo.cf[r].head

\* The verification has compared the rows before i, provided it could.
Heads ==
  /\ stage = "update" /\ pc \in Opened /\ ~blind => mode = "prog"
  /\ pc = "verify" /\ ~blind => ptr = [area |-> "cf", row |-> i] /\ HeadsTo(i)
  /\ stage = "update" /\ pc \in Ending /\ ~blind => HeadsTo(Len(devInfo.cf) + 1)
  /\ verdict = "PASS" /\ ~blind => HeadsTo(Len(devInfo.cf) + 1)

\* Nothing fails unnoticed.
Trusted == intf = "i2c" \/ ~hurt

\* The user flash is erased before it is programmed.
UserToo == ~(intf = "jtag" /\ chip = "LCMXO3D") /\ devInfo.ufm # <<>>

SentTo(rows, wanted, n) == \A r \in 1..Len(wanted) : r < n => rows[r] = wanted[r]
BlankFrom(rows, n) == \A r \in DOMAIN rows : r >= n => rows[r] = Blank

\* Where the update is, on a chip whose rows are stored as they are sent.
CFStored ==
  /\ pc = "initCF" => BlankFrom(cf, 1)
  /\ pc = "sendCF" => SentTo(cf, devInfo.cf, i) /\ BlankFrom(cf, i)
  /\ pc \in CFDone => Holds(cf, devInfo.cf)

UFMStored ==
  /\ pc \in {"initCF", "sendCF", "initUFM"} => BlankFrom(ufm, 1)
  /\ pc = "sendUFM" => SentTo(ufm, devInfo.ufm, i) /\ BlankFrom(ufm, i)
  /\ pc \in UFMDone => Holds(ufm, devInfo.ufm)

Located ==
  /\ pc \in Opened => mode = "prog"
  /\ pc \in Coded => usercode = "new"
  /\ pc \in {"sendCF", "verify"} => ptr = [area |-> "cf", row |-> i]
  /\ pc = "sendUFM" => ptr = [area |-> "ufm", row |-> i]
  /\ pc \in Erased /\ ~hurt => ~misstored

Stores ==
  stage = "update" /\ Trusted =>
    /\ Located
    /\ ~misstored => CFStored /\ (UserToo => UFMStored)

Passed ==
  verdict = "PASS" /\ Trusted =>
    /\ mode = "user" /\ (~hurt => ~misstored)
    /\ ~misstored => /\ Holds(cf, devInfo.cf) /\ usercode = "new"
                     /\ UserToo => Holds(ufm, devInfo.ufm)

\* A reason why an update that is over did not pass.
Excused == hurt \/ op # "program" \/ chip = "ANLOGIC" \/ ~devInfo.ok \/ verdict = "none"

Healed == pc = "idle" => verdict = "PASS" \/ Excused

Inv == Types /\ Heads /\ Stores /\ Passed /\ Healed

LEMMA InitInv == Init => Inv
<1> SUFFICES ASSUME Init PROVE Heads /\ Stores /\ Passed /\ Healed
  BY InitTypes DEF Inv
<1>1. pc = "idle" /\ stage = "none" /\ verdict = "none"
  BY DEF Init
<1> QED BY <1>1 DEF Heads, Stores, Passed, Healed, Excused

\* A step outside an update, or one that ends it without a PASS.
LEMMA AsideInv ==
  ASSUME Types', stage' # "update" \/ pc' \in {"parse", "start"}, verdict' # "PASS",
         pc' = "idle" => Excused'
  PROVE  Inv'
<1>1. /\ pc' # "verify"
      /\ pc' \in {"parse", "start"} =>
           pc' \notin Opened \cup Ending \cup Coded \cup CFDone \cup UFMDone \cup Erased
  BY DEF Types, Control, Opened, Ending, Coded, CFDone, UFMDone, Erased
<1>2. Heads'
  BY <1>1 DEF Heads
<1>3. Stores'
  BY <1>1 DEF Stores, Located, CFStored, UFMStored
<1> QED BY <1>2, <1>3 DEF Inv, Passed, Healed

\* A failure that is noticed ends an update.
LEMMA FailInv ==
  ASSUME Types, Types', stage = "update", Return, hurt'
  PROVE  Inv'
<1>1. pc' = "idle" /\ stage' = "none" /\ verdict' = "FAIL"
  BY DEF Return, Exit
<1> QED BY <1>1, AsideInv DEF Excused

\* A step to the next one.
LEMMA OnwardInv ==
  ASSUME Types', pc' # "idle", Heads', Stores'
  PROVE  Inv'
BY DEF Inv, Passed, Healed, Types, Control

LEMMA InvokeInv == ASSUME Types', Invoke PROVE Inv'
<1>1. stage' = "none" /\ verdict' = "none" /\ pc' = "scan"
  BY DEF Invoke
<1> QED BY <1>1, AsideInv

LEMMA KillInv == ASSUME Types', Kill PROVE Inv'
<1>1. stage' = "none" /\ verdict' = "KILLED" /\ hurt'
  BY DEF Kill, Exit, Fault, Failed
<1> QED BY <1>1, AsideInv DEF Excused

LEMMA ScanInv ==
  ASSUME Types, Types', ScanLattice \/ (\E n \in 1..7 : ScanYzbb(n)) \/ ScanJtagFails
  PROVE  Inv'
<1>1. pc = "scan" /\ op' = op /\ UNCHANGED world
  BY DEF ScanLattice, ScanYzbb, ScanJtagFails, SameRequest, request
<1>2. CASE Detected
  BY <1>1, <1>2, DetectedControl, AsideInv DEF Types
<1>3. CASE Exit("UNSUPPORTED") /\ hurt'
  <2>1. stage' = "none" /\ verdict' = "UNSUPPORTED"
    BY <1>3 DEF Exit
  <2> QED BY <1>3, <2>1, AsideInv DEF Excused
<1>4. Detected \/ (Exit("UNSUPPORTED") /\ hurt')
  <2>1. CASE ScanLattice \/ ScanJtagFails
    BY <2>1 DEF ScanLattice, ScanJtagFails, Fault, Failed
  <2>2. CASE \E n \in 1..7 : ScanYzbb(n)
    <3>1. PICK n \in 1..7 : ScanYzbb(n)
      BY <2>2
    <3>2. <<chip, intf>> \in Boards
      BY DEF Types, Chip
    <3>3. chip \in {"YZBB", "ANLOGIC"} \/ chip \in Lattice
      BY <3>2, CpldAssumption DEF ChipKinds, Lattice
    <3>4. CASE chip \in Lattice \/ n < 7
      BY <3>1, <3>4 DEF ScanYzbb, Fault, Failed
    <3>5. CASE chip \in {"YZBB", "ANLOGIC"} /\ n >= 7
      BY <3>1, <3>5 DEF ScanYzbb
    <3> QED BY <3>3, <3>4, <3>5
  <2> QED BY <2>1, <2>2
<1> QED BY <1>2, <1>3, <1>4

\* The version of a YZBB chip, and the ID.
LEMMA IdInv == ASSUME Types, Types', YzbbVersion \/ GetId PROVE Inv'
<1>1. CASE YzbbVersion
  <2>1. pc = "yzVersion" /\ op' = op /\ \E v \in {"SHOWN", "NA"} : VersionReturns(v)
    BY <1>1 DEF YzbbVersion, SameRequest, request
  <2>2. stage' = "none" /\ verdict' # "PASS" /\ (pc' = "idle" => op' = "version")
    BY <2>1 DEF VersionReturns, Exit, Types, Control
  <2> QED BY <2>2, AsideInv DEF Excused
<1>2. CASE GetId
  <2>1. pc = "id" /\ op' = op /\ \E v \in {"SHOWN", "NA"} : IdReturns(v)
    BY <1>2 DEF GetId, SameRequest, request
  <2>2. /\ verdict' # "PASS" /\ (pc' = "idle" => op' = "id" /\ stage' = "none")
        /\ pc' = "idle" \/ pc' = "parse"
    BY <2>1 DEF IdReturns, Exit, Types, Control
  <2> QED BY <2>2, AsideInv DEF Excused
<1> QED BY <1>1, <1>2

LEMMA FileInv == ASSUME Types, Types', Parse \/ Anlogic PROVE Inv'
<1>1. pc = "parse" /\ stage \in {"update", "checksum"} /\ verdict # "PASS"
  BY DEF Parse, Anlogic, Types, Control
<1>2. CASE Parse
  <2>1. CASE Goto("start")
    BY <1>1, <2>1, AsideInv DEF Goto
  <2>2. CASE ~devInfo'.ok /\ Return
    <3>1. stage' = "none" /\ pc' = "idle" /\ verdict' # "PASS"
      BY <1>1, <2>2 DEF Return, Exit
    <3> QED BY <2>2, <3>1, AsideInv DEF Excused
  <2>3. CASE Exit("KILLED") /\ Dies
    BY <2>3, AsideInv DEF Exit, Dies, Excused
  <2> QED BY <1>2, <2>1, <2>2, <2>3 DEF Parse
<1>3. CASE Anlogic
  <2>1. chip' = "ANLOGIC" /\ stage' = "none" /\ verdict' # "PASS"
    BY <1>3 DEF Anlogic, Exit, world
  <2> QED BY <2>1, AsideInv DEF Excused
<1> QED BY <1>2, <1>3

\* The calls of a version read and of a checksum.
LEMMA OtherCallsInv ==
  ASSUME Types, Types', stage # "update",
         Start \/ ReadUsercode \/ AddUp \/ ProgramDone \/ Refresh \/ Disable
  PROVE  Inv'
<1>1. /\ stage \in {"version", "checksum"} /\ op' = op /\ verdict # "PASS"
      /\ stage = "checksum" => op = "checksum"
  BY DEF Types, Control, Start, ReadUsercode, AddUp, ProgramDone, Refresh, Disable, SameRequest,
         request
<1>2. \/ Return \/ Ends \/ AfterStart
      \/ \E label \in {"done", "refresh", "disable"} : Goto(label)
  BY DEF Start, ReadUsercode, AddUp, ProgramDone, Refresh, Disable, LostTransfer
<1>3. /\ stage' # "update" /\ verdict' # "PASS"
      /\ pc' = "idle" => op # "program"
  <2>1. CASE Return \/ Ends
    BY <1>1, <2>1 DEF Return, Ends, VersionReturns, Exit
  <2>2. CASE AfterStart \/ \E label \in {"done", "refresh", "disable"} : Goto(label)
    BY <1>1, <2>2 DEF AfterStart, Goto
  <2> QED BY <1>2, <2>1, <2>2
<1> QED BY <1>1, <1>3, AsideInv DEF Excused

-------------------------------------------------------------------------------
(* The calls of an update.                                                  *)

\* Over JTAG an invocation in which something failed is not trusted any more.
LEMMA UntrustedStores == ASSUME hurt', intf' = "jtag" PROVE Stores'
BY DEF Stores, Trusted

LEMMA Interfaces == ASSUME Types PROVE intf \in {"i2c", "jtag"}
<1>1. <<chip, intf>> \in Boards
  BY DEF Types, Chip
<1> QED BY <1>1, CpldAssumption

\* A transfer that failed ends the update over I2C.
LEMMA LostInv ==
  ASSUME Types, Types', stage = "update", NEW label \in UpdateLabels \cup {"disable"},
         LostTransfer(label), hurt', UNCHANGED world,
         Goto(label) => Heads'
  PROVE  Inv'
<1>1. CASE Return
  BY <1>1, FailInv
<1>2. CASE intf = "jtag" /\ Goto(label)
  <2>1. pc' # "idle" /\ intf' = "jtag"
    BY <1>2 DEF Goto, UpdateLabels, world
  <2> QED BY <1>2, <2>1, UntrustedStores, OnwardInv
<1> QED BY <1>1, <1>2, Interfaces DEF LostTransfer

\* The steps before the verification keep the flash open.
LEMMA HeadsOn ==
  ASSUME Types, Types', Heads, stage = "update", pc \in Opened \ {"done"},
         NEW label \in UpdateLabels \ {"verify", "done"}, Goto(label), UNCHANGED mode,
         blind => blind'
  PROVE  Heads'
<1>1. /\ pc' # "verify" /\ pc' \notin Ending /\ stage' = "update" /\ verdict' # "PASS"
  BY DEF Goto, Ending, UpdateLabels, Types, Control
<1>2. ~blind' => mode' = "prog"
  BY DEF Heads, Types, Fate
<1> QED BY <1>1, <1>2 DEF Heads

LEMMA StartInv == ASSUME Inv, Types', stage = "update", Start PROVE Inv'
<1>1. pc = "start" /\ UNCHANGED <<world, flash, ptr>>
  BY DEF Start
<1>2. CASE Return /\ hurt'
  BY <1>2, FailInv DEF Inv
<1>3. ASSUME AfterStart PROVE pc' = "erase" /\ stage' = "update" /\ pc' # "idle" /\ verdict' # "PASS"
  BY <1>1, <1>3 DEF AfterStart, Goto, Inv, Types, Control
<1>4. pc' = "erase" => /\ pc' # "verify" /\ pc' \notin Ending \cup Coded \cup Erased
                       /\ pc' \notin CFDone \cup UFMDone
  BY DEF Ending, Coded, Erased, CFDone, UFMDone
<1>5. CASE (Fine \/ Fault) /\ mode' = "prog" /\ AfterStart
  <2>1. Heads'
    BY <1>3, <1>4, <1>5 DEF Heads
  <2>2. Stores'
    BY <1>3, <1>4, <1>5 DEF Stores, Located, CFStored, UFMStored
  <2> QED BY <1>3, <1>5, <2>1, <2>2, OnwardInv
<1>6. CASE intf = "jtag" /\ AfterStart /\ hurt' /\ blind'
  <2>1. Heads'
    BY <1>3, <1>4, <1>6 DEF Heads
  <2> QED BY <1>1, <1>3, <1>6, <2>1, UntrustedStores, OnwardInv DEF world
<1>7. intf \in {"i2c", "jtag"}
  BY Interfaces DEF Inv
<1> QED BY <1>2, <1>5, <1>6, <1>7 DEF Start, Fault, FaultOfVerify, Failed

LEMMA EraseInv == ASSUME Inv, Types', Erase PROVE Inv'
<1>1. /\ pc = "erase" /\ stage = "update" /\ SameRequest /\ UNCHANGED <<world, mode, ptr>>
  BY DEF Erase, Inv, Types, Control
<1>2. Goto("initCF") => (blind' = blind => Heads') /\ pc' # "idle"
  BY <1>1, HeadsOn DEF Inv, Opened, UpdateLabels, Goto
<1>3. CASE (Fine \/ Fault) /\ EraseDevice /\ Goto("initCF")
  <2>1. Heads' /\ pc' = "initCF" /\ stage' = "update" /\ devInfo' = devInfo /\ (hurt => hurt')
    BY <1>1, <1>2, <1>3 DEF Fine, Fault, Failed, fate, SameRequest, request, Goto
  <2>2. ASSUME Trusted' PROVE Located' /\ CFStored' /\ (UserToo' => UFMStored')
    <3>1. Trusted /\ mode = "prog" /\ (UserToo' => ErasesUFM)
      BY <1>1, <2>1, <2>2 DEF Trusted, Inv, Stores, Located, Opened, UserToo, ErasesUFM, world
    <3>2. /\ cf' = Blanked(cf) /\ misstored' = FALSE
          /\ UserToo' => ufm' = Blanked(ufm)
      BY <1>3, <3>1 DEF EraseDevice
    <3>3. /\ pc' \notin Coded /\ pc' \notin CFDone /\ pc' \notin UFMDone
          /\ pc' \notin {"sendCF", "sendUFM", "verify"} /\ mode' = "prog"
      BY <1>1, <2>1, <3>1 DEF Coded, CFDone, UFMDone, Ending
    <3>4. /\ BlankFrom(cf, 1)' /\ (UserToo' => BlankFrom(ufm, 1)')
      BY <3>2 DEF BlankFrom, Blanked
    <3> QED BY <3>2, <3>3, <3>4, <2>1 DEF Located, CFStored, UFMStored
  <2>3. Stores'
    BY <2>2 DEF Stores
  <2> QED BY <2>1, <2>3, <1>2, <1>3, OnwardInv
<1>4. CASE Return /\ hurt'
  BY <1>1, <1>4, FailInv DEF Inv
<1>5. CASE Fault /\ LostTransfer("initCF")
  BY <1>1, <1>2, <1>5, LostInv DEF Fault, Failed, UpdateLabels, Inv
<1> QED BY <1>3, <1>4, <1>5 DEF Erase, Fault, Failed

\* The rows that are and that are not in the flash where an update has come to.
LEMMA WhereSets ==
  /\ "initCF" \notin CFDone \cup UFMDone \cup Coded \cup Ending
  /\ "sendCF" \notin CFDone \cup UFMDone \cup Coded \cup Ending
  /\ "initUFM" \notin UFMDone \cup Coded \cup Ending /\ "initUFM" \in CFDone
  /\ "sendUFM" \notin UFMDone \cup Coded \cup Ending /\ "sendUFM" \in CFDone
  /\ "programmed" \notin Coded \cup Ending /\ "writeUsercode" \notin Coded \cup Ending
  /\ "programmed" \in UFMDone /\ "writeUsercode" \in UFMDone
  /\ "initVerify" \in Coded \ Ending /\ "verify" \in Coded \ Ending
  /\ Ending \subseteq Coded /\ Coded \subseteq UFMDone /\ UFMDone \subseteq CFDone
  /\ CFDone \subseteq Erased /\ "initCF" \in Erased /\ "sendCF" \in Erased
  /\ {"initCF", "sendCF", "initUFM", "sendUFM"} \cap Ending = {}
  /\ \A p \in UFMDone : p \notin {"initCF", "sendCF", "initUFM", "sendUFM"}
BY DEF Ending, Coded, UFMDone, CFDone, Erased

LEMMA InitAddressInv == ASSUME Inv, Types', InitCF \/ InitUFM PROVE Inv'
<1>1. /\ pc \in {"initCF", "initUFM"} /\ stage = "update" /\ i' = 1
      /\ UNCHANGED <<request, world, flash, mode>>
  BY DEF InitCF, InitUFM, InitAddress, Inv, Types, Control
<1> DEFINE next == IF pc = "initCF" THEN "sendCF" ELSE "sendUFM"
           area == IF pc = "initCF" THEN "cf" ELSE "ufm"
<1>2. \/ Fine /\ ptr' = [area |-> area, row |-> 1] /\ Goto(next)
      \/ Fault /\ LostTransfer(next)
  BY DEF InitCF, InitUFM, InitAddress
<1>3. next \in UpdateLabels \ {"verify", "done"} /\ pc \in Opened \ {"done"}
  BY <1>1 DEF UpdateLabels, Opened
<1>4. Goto(next) /\ (blind => blind') => Heads'
  BY <1>1, <1>3, HeadsOn DEF Inv
<1>5. CASE Fine /\ ptr' = [area |-> area, row |-> 1] /\ Goto(next)
  <2>1. pc' = next /\ stage' = "update" /\ pc' # "idle" /\ UNCHANGED <<devInfo, hurt, blind>>
    BY <1>1, <1>5 DEF Fine, fate, Goto, request
  <2>2. ASSUME Trusted' PROVE Located' /\ (~misstored' => CFStored' /\ (UserToo' => UFMStored'))
    <3>1. /\ Trusted /\ Located /\ (~misstored => CFStored /\ (UserToo => UFMStored))
          /\ UserToo' = UserToo
      BY <1>1, <2>1, <2>2 DEF Trusted, Inv, Stores, world, UserToo
    <3>2. UNCHANGED <<cf, ufm, usercode, misstored, mode>>
      BY <1>1 DEF flash
    <3>3. Located'
      BY <1>1, <1>3, <1>5, <2>1, <3>1, <3>2, WhereSets DEF Located
    <3>4. CFStored => CFStored'
      BY <1>1, <2>1, <3>2, WhereSets DEF CFStored, SentTo, BlankFrom, Holds
    <3>5. UFMStored => UFMStored'
      BY <1>1, <2>1, <3>2, WhereSets DEF UFMStored, SentTo, BlankFrom, Holds
    <3> QED BY <3>1, <3>2, <3>3, <3>4, <3>5
  <2>3. Stores'
    BY <2>2 DEF Stores
  <2> QED BY <1>4, <1>5, <2>1, <2>3, OnwardInv
<1>6. CASE Fault /\ LostTransfer(next)
  <2>1. hurt' /\ (blind => blind')
    BY <1>6 DEF Fault, Failed
  <2> QED BY <1>1, <1>3, <1>4, <1>6, <2>1, LostInv DEF Inv
<1> QED BY <1>2, <1>5, <1>6

\* A row goes to where the pointer is, and the pointer moves on.
LEMMA WriteAdvances ==
  ASSUME Chip, NEW area \in {"cf", "ufm"}, NEW k \in Nat \ {0}, NEW new \in Row, Write(new),
         mode = "prog", ptr = [area |-> area, row |-> k], k <= AreaRows(area)
  PROVE  /\ ptr' = [area |-> area, row |-> k + 1]
         /\ area = "cf" => UNCHANGED ufm /\ cf' = [cf EXCEPT ![k] = Stored(cf[k], new)]
         /\ area = "ufm" => UNCHANGED cf /\ ufm' = [ufm EXCEPT ![k] = Stored(ufm[k], new)]
<1>1. AtRow
  BY DEF AtRow
<1>2. ptr' = [area |-> area, row |-> k + 1]
  BY <1>1 DEF Write, Advanced
<1>3. ptr.area = area /\ ptr.row = k
  OBVIOUS
<1> QED BY <1>1, <1>2, <1>3 DEF Write, StoreAt

\* What a row that is stored as it was sent adds.
LEMMA StoredAdds ==
  ASSUME NEW n \in Nat, NEW rows \in [1..n -> Row], NEW wanted \in Seq(Row), Len(wanted) <= n,
         NEW k \in Nat \ {0}, k <= Len(wanted), SentTo(rows, wanted, k), BlankFrom(rows, k),
         NEW after, after = [rows EXCEPT ![k] = Stored(rows[k], wanted[k])]
  PROVE  SentTo(after, wanted, k + 1) /\ BlankFrom(after, k + 1)
<1>1. rows[k] = Blank /\ k \in 1..n
  BY DEF BlankFrom
<1>2. after[k] = wanted[k] /\ \A r \in 1..n : r # k => after[r] = rows[r]
  BY <1>1 DEF Stored
<1>3. SentTo(after, wanted, k + 1)
  <2> SUFFICES ASSUME NEW r \in 1..Len(wanted), r < k + 1 PROVE after[r] = wanted[r]
    BY DEF SentTo
  <2>1. r \in 1..n /\ (r = k \/ r < k)
    OBVIOUS
  <2> QED BY <1>2, <2>1 DEF SentTo
<1>4. BlankFrom(after, k + 1)
  BY <1>2 DEF BlankFrom
<1> QED BY <1>3, <1>4

LEMMA SendSteps ==
  ASSUME Types, SendCF \/ SendUFM
  PROVE  LET rows == IF pc = "sendCF" THEN devInfo.cf ELSE devInfo.ufm
         IN /\ pc \in {"sendCF", "sendUFM"} /\ stage = "update" /\ i' = i + 1
            /\ UNCHANGED <<request, world, usercode, mode>>
            /\ i \in Nat \ {0} /\ i <= Len(rows) /\ rows \in Seq(Row) /\ rows[i] \in Row
            /\ \/ Fine /\ Write(rows[i]) /\ misstored' = misstored /\ Goto(pc)
               \/ /\ Fault /\ (\E row \in Row : Write(row)) /\ misstored' = TRUE /\ Goto(pc)
               \/ Fault /\ Return
               \/ Fault /\ LostTransfer(pc)
<1>1. CASE SendCF
  <2>1. /\ pc = "sendCF" /\ stage = "update" /\ i' = i + 1
        /\ UNCHANGED <<request, world, usercode, mode>> /\ i <= Len(devInfo.cf)
    BY <1>1 DEF SendCF, SendRow, Types, Control
  <2>2. devInfo.cf \in Seq(Row) /\ i \in Nat \ {0}
    BY Sizes0 DEF Types, Request
  <2>3. devInfo.cf[i] \in Row
    BY <2>1, <2>2
  <2>4. Spoiled(devInfo.cf[i]) \subseteq Row
    BY <2>3, RowFacts
  <2> QED BY <1>1, <2>1, <2>2, <2>3, <2>4 DEF SendCF, SendRow
<1>2. CASE SendUFM
  <2>1. /\ pc = "sendUFM" /\ stage = "update" /\ i' = i + 1
        /\ UNCHANGED <<request, world, usercode, mode>> /\ i <= Len(devInfo.ufm)
    BY <1>2 DEF SendUFM, SendRow, Types, Control
  <2>2. devInfo.ufm \in Seq(Row) /\ i \in Nat \ {0}
    BY Sizes0 DEF Types, Request
  <2>3. devInfo.ufm[i] \in Row
    BY <2>1, <2>2
  <2>4. Spoiled(devInfo.ufm[i]) \subseteq Row
    BY <2>3, RowFacts
  <2> QED BY <1>2, <2>1, <2>2, <2>3, <2>4 DEF SendUFM, SendRow
<1> QED BY <1>1, <1>2

\* Where the pointer is after a row, stored rightly or wrongly.
LEMMA SentPointer ==
  ASSUME Types, SendCF \/ SendUFM, Located, NEW row \in Row, Write(row)
  PROVE  LET area == IF pc = "sendCF" THEN "cf" ELSE "ufm"
         IN /\ i <= AreaRows(area)
            /\ ptr' = [area |-> area, row |-> i + 1]
            /\ area = "cf" => UNCHANGED ufm /\ cf' = [cf EXCEPT ![i] = Stored(cf[i], row)]
            /\ area = "ufm" => UNCHANGED cf /\ ufm' = [ufm EXCEPT ![i] = Stored(ufm[i], row)]
<1> DEFINE area == IF pc = "sendCF" THEN "cf" ELSE "ufm"
<1>1. /\ pc \in {"sendCF", "sendUFM"} /\ i \in Nat \ {0}
      /\ pc = "sendCF" => i <= Len(devInfo.cf)
      /\ pc = "sendUFM" => i <= Len(devInfo.ufm)
  BY SendSteps
<1>2. /\ Len(devInfo.cf) \in Nat /\ Len(devInfo.cf) <= CFRows
      /\ Len(devInfo.ufm) \in Nat /\ Len(devInfo.ufm) <= UFMRows
  BY DEF Types, Request
<1>3. i <= AreaRows(area) /\ area \in {"cf", "ufm"}
  BY <1>1, <1>2, Sizes0 DEF AreaRows
<1>4. mode = "prog" /\ ptr = [area |-> area, row |-> i]
  BY <1>1 DEF Located, Opened
<1>5. Chip
  BY DEF Types
<1> HIDE DEF area
<1>6. /\ ptr' = [area |-> area, row |-> i + 1]
      /\ area = "cf" => UNCHANGED ufm /\ cf' = [cf EXCEPT ![i] = Stored(cf[i], row)]
      /\ area = "ufm" => UNCHANGED cf /\ ufm' = [ufm EXCEPT ![i] = Stored(ufm[i], row)]
  BY <1>1, <1>3, <1>4, <1>5, WriteAdvances
<1> QED BY <1>3, <1>6 DEF area

\* After a row the update is one row further.
LEMMA SentLocated ==
  ASSUME Types, SendCF \/ SendUFM, Located, NEW row \in Row, Write(row), pc' = pc,
         hurt => hurt', hurt' \/ misstored' = misstored
  PROVE  Located'
<1>1. pc \in {"sendCF", "sendUFM"} /\ i' = i + 1 /\ UNCHANGED <<usercode, mode>>
  BY SendSteps
<1>2. pc' \notin Coded /\ pc \in Opened /\ pc \in Erased
  BY <1>1, WhereSets DEF Opened
<1>3. ptr' = [area |-> IF pc = "sendCF" THEN "cf" ELSE "ufm", row |-> i']
  BY <1>1, SentPointer
<1>4. mode' = "prog"
  BY <1>1, <1>2 DEF Located
<1>5. ~hurt' => ~misstored'
  BY <1>2 DEF Located, Types, Fate
<1> QED BY <1>1, <1>2, <1>3, <1>4, <1>5 DEF Located

\* A row stored as it was sent.
LEMMA SentStored ==
  ASSUME Types, SendCF \/ SendUFM, Located, pc' = pc,
         Write((IF pc = "sendCF" THEN devInfo.cf ELSE devInfo.ufm)[i])
  PROVE  /\ CFStored => CFStored'
         /\ CFStored /\ UFMStored => UFMStored'
<1>1. /\ pc \in {"sendCF", "sendUFM"} /\ i' = i + 1 /\ devInfo' = devInfo
      /\ i \in Nat \ {0}
  BY SendSteps DEF request
<1>2. /\ cf \in [1..CFRows -> Row] /\ ufm \in [1..UFMRows -> Row]
      /\ devInfo.cf \in Seq(Row) /\ Len(devInfo.cf) <= CFRows
      /\ devInfo.ufm \in Seq(Row) /\ Len(devInfo.ufm) <= UFMRows
  BY DEF Types, Chip, Request
<1>3. CASE pc = "sendCF"
  <2>1. i <= Len(devInfo.cf) /\ devInfo.cf[i] \in Row
    BY <1>3, SendSteps
  <2>2. UNCHANGED ufm /\ cf' = [cf EXCEPT ![i] = Stored(cf[i], devInfo.cf[i])]
    BY <1>3, <2>1, SentPointer
  <2>3. CFStored => SentTo(cf', devInfo.cf, i + 1) /\ BlankFrom(cf', i + 1)
    BY <1>1, <1>2, <1>3, <2>1, <2>2, StoredAdds, Sizes0 DEF CFStored
  <2>4. CFStored => CFStored'
    BY <1>1, <1>3, <2>3, WhereSets DEF CFStored, SentTo, BlankFrom
  <2>5. UFMStored => UFMStored'
    BY <1>1, <1>3, <2>2, WhereSets DEF UFMStored, BlankFrom
  <2> QED BY <2>4, <2>5
<1>4. CASE pc = "sendUFM"
  <2>1. i <= Len(devInfo.ufm) /\ devInfo.ufm[i] \in Row
    BY <1>4, SendSteps
  <2>2. UNCHANGED cf /\ ufm' = [ufm EXCEPT ![i] = Stored(ufm[i], devInfo.ufm[i])]
    BY <1>4, <2>1, SentPointer
  <2>3. UFMStored => SentTo(ufm', devInfo.ufm, i + 1) /\ BlankFrom(ufm', i + 1)
    BY <1>1, <1>2, <1>4, <2>1, <2>2, StoredAdds, Sizes0 DEF UFMStored
  <2>4. UFMStored => UFMStored'
    BY <1>1, <1>4, <2>3, WhereSets DEF UFMStored, SentTo, BlankFrom
  <2>5. CFStored => CFStored'
    BY <1>1, <1>4, <2>2, WhereSets DEF CFStored, Holds
  <2> QED BY <2>4, <2>5
<1> QED BY <1>1, <1>3, <1>4

LEMMA SendInv == ASSUME Inv, Types', SendCF \/ SendUFM PROVE Inv'
<1> DEFINE rows == IF pc = "sendCF" THEN devInfo.cf ELSE devInfo.ufm
<1>1. /\ Types /\ pc \in {"sendCF", "sendUFM"} /\ stage = "update"
      /\ UNCHANGED <<request, world, usercode, mode>>
      /\ rows[i] \in Row
  BY SendSteps DEF Inv
<1>2. pc \in UpdateLabels \ {"verify", "done"} /\ pc \in Opened \ {"done"}
  BY <1>1 DEF UpdateLabels, Opened
<1>3. Goto(pc) /\ (blind => blind') => Heads'
  BY <1>1, <1>2, HeadsOn DEF Inv
<1>4. ASSUME Trusted', hurt => hurt'
      PROVE  /\ Trusted /\ Located /\ (~misstored => CFStored /\ (UserToo => UFMStored))
             /\ UserToo' = UserToo
  BY <1>1, <1>4 DEF Inv, Stores, Trusted, UserToo, world, request, Types, Fate
<1>5. CASE Fine /\ Write(rows[i]) /\ misstored' = misstored /\ Goto(pc)
  <2>1. pc' = pc /\ pc' # "idle" /\ UNCHANGED <<hurt, blind>>
    BY <1>1, <1>5 DEF Fine, fate, Goto
  <2>2. Trusted' => Located'
    BY <1>1, <1>4, <1>5, <2>1, SentLocated
  <2>3. Trusted' /\ ~misstored' => CFStored' /\ (UserToo' => UFMStored')
    BY <1>1, <1>4, <1>5, <2>1, SentStored
  <2>4. Stores'
    BY <2>2, <2>3 DEF Stores
  <2> QED BY <1>3, <1>5, <2>1, <2>4, OnwardInv
<1>6. CASE Fault /\ (\E row \in Row : Write(row)) /\ misstored' = TRUE /\ Goto(pc)
  <2>1. pc' = pc /\ pc' # "idle" /\ hurt' = TRUE /\ blind' = blind
    BY <1>1, <1>6 DEF Fault, Failed, Goto
  <2>2. Trusted' => Located'
    BY <1>1, <1>4, <1>6, <2>1, SentLocated
  <2>3. Stores'
    BY <1>6, <2>2 DEF Stores
  <2> QED BY <1>3, <1>6, <2>1, <2>3, OnwardInv
<1>7. CASE Fault /\ Return
  BY <1>1, <1>7, FailInv DEF Fault, Failed
<1>8. CASE Fault /\ LostTransfer(pc)
  <2>1. hurt' /\ (blind => blind')
    BY <1>8 DEF Fault, Failed
  <2> QED BY <1>1, <1>2, <1>3, <1>8, <2>1, LostInv DEF Inv
<1> QED BY <1>1, <1>5, <1>6, <1>7, <1>8, SendSteps

LEMMA RowsSentInv == ASSUME Inv, Types', CFSent \/ UFMSent PROVE Inv'
<1>1. /\ pc \in {"sendCF", "sendUFM"} /\ stage = "update" /\ SameRequest
      /\ UNCHANGED <<world, device>> /\ Fine
      /\ pc = "sendCF" => i > Len(devInfo.cf)
      /\ pc = "sendUFM" => i > Len(devInfo.ufm)
      /\ \/ Goto("programmed") /\ (pc = "sendCF" => devInfo.ufm = <<>>)
         \/ Goto("initUFM") /\ pc = "sendCF"
  BY DEF CFSent, UFMSent, RowsSent, Inv, Types, Control
<1>2. /\ pc \in Opened \ {"done"} /\ pc' \in {"programmed", "initUFM"} /\ stage' = "update"
      /\ UNCHANGED <<devInfo, hurt, blind, mode, cf, ufm, usercode, misstored, ptr>>
  BY <1>1 DEF Opened, Goto, Fine, fate, SameRequest, request, device, flash
<1>3. Heads'
  BY <1>1, <1>2, HeadsOn DEF Inv, UpdateLabels
<1>4. i \in Nat /\ Len(devInfo.cf) \in Nat /\ Len(devInfo.ufm) \in Nat
  BY Sizes0 DEF Inv, Types, Request
<1>5. ASSUME Trusted' PROVE Located' /\ (~misstored' => CFStored' /\ (UserToo' => UFMStored'))
  <2>1. /\ Trusted /\ Located /\ (~misstored => CFStored /\ (UserToo => UFMStored))
        /\ UserToo' = UserToo
    BY <1>1, <1>2, <1>5 DEF Trusted, Inv, Stores, world, UserToo
  <2>2. Located'
    BY <1>1, <1>2, <2>1, WhereSets DEF Located, Opened
  <2>3. CFStored => Holds(cf, devInfo.cf)
    BY <1>1, <1>4, WhereSets DEF CFStored, SentTo, Holds
  <2>4. CFStored => CFStored'
    BY <1>1, <1>2, <2>3, WhereSets DEF CFStored, Holds
  <2>5. UFMStored /\ UserToo => UFMStored'
    <3>1. CASE pc = "sendCF"
      BY <1>1, <1>2, <3>1, WhereSets DEF UFMStored, UserToo, Goto, BlankFrom
    <3>2. CASE pc = "sendUFM"
      <4>1. UFMStored => Holds(ufm, devInfo.ufm)
        BY <1>1, <1>4, <3>2 DEF UFMStored, SentTo, Holds
      <4> QED BY <1>1, <1>2, <3>2, <4>1, WhereSets DEF UFMStored, Goto, Holds
    <3> QED BY <1>1, <3>1, <3>2
  <2> QED BY <1>2, <2>1, <2>2, <2>4, <2>5
<1>6. Stores'
  BY <1>5 DEF Stores
<1> QED BY <1>2, <1>3, <1>6, OnwardInv

\* Both flashes are written and stay as they are, the pointer may move.
LEMMA WrittenStores ==
  ASSUME Inv, stage = "update", stage' = "update", UNCHANGED <<world, cf, ufm, misstored, devInfo>>,
         hurt => hurt', pc \in UFMDone, pc' \in UFMDone,
         Trusted /\ Trusted' /\ Located => Located'
  PROVE  Stores'
<1>1. Trusted' => Trusted
  BY DEF Trusted, world, Inv, Types, Fate
<1>2. CFStored => CFStored'
  BY WhereSets DEF CFStored, Holds
<1>3. UFMStored => UFMStored'
  BY WhereSets DEF UFMStored, Holds
<1>4. UserToo' = UserToo
  BY DEF UserToo, world
<1> QED BY <1>1, <1>2, <1>3, <1>4 DEF Inv, Stores

LEMMA ProgrammedInv == ASSUME Inv, Types', CheckProgrammed \/ WriteUsercode PROVE Inv'
<1>1. /\ pc \in {"programmed", "writeUsercode"} /\ stage = "update" /\ SameRequest
      /\ UNCHANGED <<world, cf, ufm, misstored, mode, ptr>>
  BY DEF CheckProgrammed, WriteUsercode, Inv, Types, Control, device, flash
<1> DEFINE next == IF pc = "programmed" THEN "writeUsercode" ELSE "initVerify"
<1>2. \/ /\ Fine /\ Goto(next)
         /\ usercode' = usercode \/ pc = "writeUsercode"
         /\ pc = "writeUsercode" /\ mode = "prog" => usercode' = "new"
      \/ Fault /\ Return
      \/ Fault /\ LostTransfer(next)
  BY DEF CheckProgrammed, WriteUsercode, device, flash
<1>3. next \in UpdateLabels \ {"verify", "done"} /\ pc \in Opened \ {"done"}
  BY <1>1 DEF UpdateLabels, Opened
<1>4. Goto(next) /\ (blind => blind') => Heads'
  BY <1>1, <1>3, HeadsOn DEF Inv
<1>5. CASE /\ Fine /\ Goto(next)
           /\ usercode' = usercode \/ pc = "writeUsercode"
           /\ pc = "writeUsercode" /\ mode = "prog" => usercode' = "new"
  <2>1. pc' = next /\ pc' # "idle" /\ stage' = "update" /\ UNCHANGED <<devInfo, hurt, blind>>
    BY <1>1, <1>5 DEF Fine, fate, Goto, SameRequest, request
  <2>2. Located => Located'
    BY <1>1, <1>3, <1>5, <2>1, WhereSets DEF Located
  <2>3. Stores'
    BY <1>1, <2>1, <2>2, WhereSets, WrittenStores
  <2>4. Heads'
    BY <1>4, <1>5, <2>1
  <2> QED BY <2>1, <2>3, <2>4, OnwardInv
<1>6. CASE Fault /\ Return
  BY <1>1, <1>6, FailInv DEF Fault, Failed, Inv
<1>7. CASE Fault /\ LostTransfer(next)
  <2>1. hurt' /\ (blind => blind')
    BY <1>7 DEF Fault, Failed
  <2> QED BY <1>1, <1>3, <1>4, <1>7, <2>1, LostInv DEF Inv
<1> QED BY <1>2, <1>5, <1>6, <1>7

LEMMA InitVerifyInv == ASSUME Inv, Types', InitVerify PROVE Inv'
<1>1. /\ pc = "initVerify" /\ stage = "update" /\ i' = 1 /\ UNCHANGED <<request, world, flash, mode>>
      /\ pc \in Opened
  BY DEF InitVerify, Inv, Types, Control, Opened
<1>2. CASE Fine /\ ptr' = [area |-> "cf", row |-> 1] /\ Goto("verify")
  <2>1. /\ pc' = "verify" /\ stage' = "update" /\ pc' # "idle" /\ verdict' # "PASS"
        /\ UNCHANGED <<devInfo, hurt, blind, cf, ufm, misstored, usercode>>
    BY <1>1, <1>2 DEF Fine, fate, Goto, request, flash, Inv, Types, Control
  <2>2. HeadsTo(1)'
    BY DEF HeadsTo
  <2>3. Heads'
    BY <1>1, <1>2, <2>1, <2>2, WhereSets DEF Inv, Heads
  <2>4. Located => Located'
    BY <1>1, <1>2, <2>1, WhereSets DEF Located
  <2>5. Stores'
    BY <1>1, <2>1, <2>4, WhereSets, WrittenStores
  <2> QED BY <2>1, <2>3, <2>5, OnwardInv
<1>3. CASE FaultOfVerify /\ LostTransfer("verify")
  <2>1. hurt' /\ blind'
    BY <1>1, <1>3 DEF FaultOfVerify, Failed
  <2>2. Goto("verify") => Heads'
    BY <1>1, <2>1 DEF Heads, Goto, Inv, Types, Control
  <2>3. "verify" \in UpdateLabels \cup {"disable"} /\ Types
    BY DEF UpdateLabels, Inv
  <2> QED BY <1>1, <1>3, <2>1, <2>2, <2>3, LostInv
<1> QED BY <1>2, <1>3 DEF InitVerify

\* What the verification reads while it is where it should be.
LEMMA ReadsRow ==
  ASSUME Types, pc = "verify", i <= Len(devInfo.cf), mode = "prog",
         ptr = [area |-> "cf", row |-> i]
  PROVE  /\ i \in 1..Len(devInfo.cf) /\ AtRow /\ RowAtPtr = cf[i]
         /\ Advanced = [area |-> "cf", row |-> i + 1]
<1>1. i \in Nat \ {0} /\ Len(devInfo.cf) \in Nat /\ Len(devInfo.cf) <= CFRows
  BY Sizes0 DEF Types, Request
<1>2. AtRow /\ ptr.area = "cf" /\ ptr.row = i
  BY <1>1, Sizes0 DEF AtRow, AreaRows
<1> QED BY <1>1, <1>2 DEF RowAtPtr, Advanced

LEMMA VerifyRowInv == ASSUME Inv, Types', VerifyRow PROVE Inv'
<1>1. /\ pc = "verify" /\ stage = "update" /\ i' = i + 1 /\ i <= Len(devInfo.cf)
      /\ UNCHANGED <<request, world, flash, mode>> /\ pc \in Opened /\ Types
  BY DEF VerifyRow, Inv, Types, Control, Opened
<1>2. CASE /\ Fine /\ Compare(RowAtPtr, devInfo.cf[i])
           /\ ptr' = (IF AtRow THEN Advanced ELSE ptr)
  <2>1. UNCHANGED <<devInfo, hurt, blind, cf, ufm, misstored, usercode, chip, intf, op>>
    BY <1>1, <1>2 DEF Fine, fate, request, flash, world
  <2>2. CASE RowAtPtr.head = devInfo.cf[i].head /\ Goto("verify")
    <3>1. pc' = "verify" /\ stage' = "update" /\ pc' # "idle" /\ verdict' # "PASS"
      BY <1>1, <2>2 DEF Goto, Types, Control
    <3>2. ASSUME ~blind' PROVE ptr' = [area |-> "cf", row |-> i'] /\ HeadsTo(i)'
      <4>1. mode = "prog" /\ ptr = [area |-> "cf", row |-> i] /\ HeadsTo(i)
        BY <1>1, <2>1, <3>2 DEF Inv, Heads
      <4>2. cf[i].head = devInfo.cf[i].head /\ ptr' = [area |-> "cf", row |-> i']
        BY <1>1, <1>2, <2>2, <4>1, ReadsRow
      <4>3. i \in Nat
        BY <1>1, <4>1, ReadsRow
      <4> QED BY <1>1, <2>1, <4>1, <4>2, <4>3 DEF HeadsTo
    <3>3. Heads'
      BY <1>1, <2>1, <3>1, <3>2, WhereSets DEF Inv, Heads
    <3>4. Located => Located'
      <4>1. SUFFICES ASSUME Located PROVE Located'
        OBVIOUS
      <4>2. mode = "prog" /\ ptr = [area |-> "cf", row |-> i]
        BY <1>1, <4>1 DEF Located
      <4>3. ptr' = [area |-> "cf", row |-> i']
        BY <1>1, <1>2, <4>2, ReadsRow
      <4> QED BY <1>1, <2>1, <3>1, <4>1, <4>3, WhereSets DEF Located
    <3>5. Stores'
      BY <1>1, <2>1, <3>1, <3>4, WhereSets, WrittenStores DEF world
    <3> QED BY <3>1, <3>3, <3>5, OnwardInv
  <2>3. CASE RowAtPtr.head # devInfo.cf[i].head /\ Return
    <3>1. hurt
      <4>1. SUFFICES ASSUME ~hurt PROVE FALSE
        OBVIOUS
      <4>2. Located /\ (~misstored => CFStored)
        BY <1>1, <4>1 DEF Inv, Stores, Trusted
      <4>3. mode = "prog" /\ ptr = [area |-> "cf", row |-> i] /\ Holds(cf, devInfo.cf)
        BY <1>1, <4>1, <4>2, WhereSets DEF Located, CFStored
      <4> QED BY <1>1, <2>3, <4>3, ReadsRow DEF Holds
    <3> QED BY <1>1, <2>1, <2>3, <3>1, FailInv
  <2> QED BY <1>2, <2>2, <2>3 DEF Compare
<1>3. CASE FaultOfVerify /\ (Goto("verify") \/ Return) /\ (intf = "i2c" => Return)
  <2>1. hurt' /\ blind'
    BY <1>1, <1>3 DEF FaultOfVerify, Failed
  <2>2. CASE Return
    BY <1>1, <2>1, <2>2, FailInv
  <2>3. CASE Goto("verify") /\ intf = "jtag"
    <3>1. Heads' /\ pc' # "idle" /\ intf' = "jtag"
      BY <1>1, <2>1, <2>3 DEF Heads, Goto, Types, Control, world
    <3> QED BY <2>1, <3>1, UntrustedStores, OnwardInv
  <2> QED BY <1>1, <1>3, <2>2, <2>3, Interfaces
<1> QED BY <1>2, <1>3 DEF VerifyRow, Compare

LEMMA VerifiedInv == ASSUME Inv, Types', Verified PROVE Inv'
<1>1. /\ pc = "verify" /\ stage = "update" /\ i > Len(devInfo.cf) /\ Goto("done") /\ Fine
      /\ SameRequest /\ UNCHANGED <<world, device>> /\ pc \in Opened
  BY DEF Verified, RowsSent, Inv, Types, Control, Opened
<1>2. /\ pc' = "done" /\ stage' = "update" /\ pc' # "idle" /\ verdict' # "PASS"
      /\ UNCHANGED <<devInfo, hurt, blind, cf, ufm, misstored, usercode, mode, ptr>>
  BY <1>1 DEF Fine, fate, SameRequest, request, device, flash, Goto, Inv, Types, Control
<1>3. HeadsTo(i) => HeadsTo(Len(devInfo.cf) + 1)'
  BY <1>1, <1>2, Sizes0 DEF HeadsTo, Inv, Types, Request
<1>4. Heads'
  BY <1>1, <1>2, <1>3 DEF Inv, Heads
<1>5. Located => Located'
  BY <1>1, <1>2, WhereSets DEF Located, Ending, Coded
<1>6. Stores'
  BY <1>1, <1>2, <1>5, WhereSets, WrittenStores DEF Ending, Coded
<1> QED BY <1>2, <1>4, <1>6, OnwardInv

\* The done bit and the refresh change neither the flashes nor what was compared.
LEMMA EndingInv == ASSUME Inv, Types', stage = "update", ProgramDone \/ Refresh PROVE Inv'
<1>1. /\ pc \in {"done", "refresh"} /\ SameRequest /\ UNCHANGED <<world, flash, ptr>> /\ Types
      /\ pc \in Ending /\ pc \in UFMDone
  BY DEF ProgramDone, Refresh, Inv, device, Ending, UFMDone, Coded
<1>2. \/ /\ Goto("refresh") \/ Goto("disable")
         /\ mode' = mode /\ blind' = blind /\ (hurt => hurt')
      \/ LostTransfer("disable") /\ mode' = mode /\ blind' = blind /\ hurt'
      \/ Return /\ hurt'
  BY DEF ProgramDone, Refresh, Fine, Fault, Failed, fate, device
<1>3. ASSUME Goto("refresh") \/ Goto("disable"), blind' = blind
      PROVE  /\ pc' \in {"refresh", "disable"} /\ stage' = "update" /\ verdict' # "PASS"
             /\ pc' # "idle" /\ Heads'
  <2>1. /\ pc' \in {"refresh", "disable"} /\ stage' = "update" /\ verdict' # "PASS"
        /\ UNCHANGED <<devInfo, cf>>
    BY <1>1, <1>3 DEF Goto, Types, Control, SameRequest, request, flash
  <2>2. pc' \notin Opened /\ pc' # "verify" /\ pc' \in Ending
    BY <2>1 DEF Opened, Ending
  <2>3. HeadsTo(Len(devInfo.cf) + 1) => HeadsTo(Len(devInfo.cf) + 1)'
    BY <2>1 DEF HeadsTo
  <2> QED BY <1>1, <1>3, <2>1, <2>2, <2>3 DEF Inv, Heads
<1>4. CASE /\ Goto("refresh") \/ Goto("disable")
           /\ mode' = mode /\ blind' = blind /\ (hurt => hurt')
  <2>1. /\ pc' \notin Opened /\ pc' \notin {"sendCF", "verify", "sendUFM"} /\ pc' \in UFMDone
        /\ UNCHANGED <<devInfo, cf, ufm, misstored, usercode>>
    BY <1>1, <1>3, <1>4 DEF Opened, UFMDone, Coded, Ending, SameRequest, request, flash
  <2>2. Located => Located'
    BY <1>1, <1>4, <2>1, WhereSets DEF Located, Types, Fate
  <2>3. Stores'
    BY <1>1, <1>3, <1>4, <2>1, <2>2, WrittenStores
  <2> QED BY <1>3, <1>4, <2>3, OnwardInv
<1>5. CASE LostTransfer("disable") /\ mode' = mode /\ blind' = blind /\ hurt'
  BY <1>1, <1>3, <1>5, LostInv
<1>6. CASE Return /\ hurt'
  BY <1>1, <1>6, FailInv
<1> QED BY <1>2, <1>4, <1>5, <1>6

\* The PASS.
LEMMA DisableInv == ASSUME Inv, Types', stage = "update", Disable PROVE Inv'
<1>1. /\ pc = "disable" /\ SameRequest /\ UNCHANGED <<world, flash, ptr>> /\ Types
      /\ pc \in Ending /\ pc \in Coded /\ pc \in UFMDone /\ pc \in CFDone /\ pc \in Erased
  BY DEF Disable, Inv, Ending, Coded, UFMDone, CFDone, Erased
<1>2. CASE Ends /\ blind' = blind /\ (Trusted' => hurt' = hurt /\ mode' = "user")
  <2>1. /\ pc' = "idle" /\ stage' = "none" /\ verdict' = "PASS"
        /\ UNCHANGED <<devInfo, cf, ufm, misstored, usercode, chip, intf>>
    BY <1>1, <1>2 DEF Ends, Exit, SameRequest, request, flash, world
  <2>2. Heads'
    BY <1>1, <1>2, <2>1 DEF Inv, Heads, HeadsTo
  <2>3. Stores'
    BY <2>1 DEF Stores
  <2>4. Passed'
    <3>1. SUFFICES ASSUME Trusted' PROVE Passed'
      BY DEF Passed
    <3>2. Trusted /\ hurt' = hurt /\ mode' = "user"
      BY <1>2, <2>1, <3>1 DEF Trusted
    <3>3. Located /\ (~misstored => CFStored /\ (UserToo => UFMStored)) /\ UserToo' = UserToo
      BY <2>1, <3>2 DEF Inv, Stores, UserToo
    <3> QED BY <1>1, <2>1, <3>2, <3>3 DEF Passed, Located, CFStored, UFMStored, Holds
  <2>5. Healed'
    BY <2>1 DEF Healed
  <2> QED BY <2>2, <2>3, <2>4, <2>5 DEF Inv
<1>3. CASE Return /\ hurt'
  BY <1>1, <1>3, FailInv
<1>4. \/ Fine /\ mode' = "user" /\ Ends
      \/ Fault /\ (IF intf = "i2c" THEN Return ELSE Ends)
  BY DEF Disable
<1>5. CASE Fine /\ mode' = "user" /\ Ends
  BY <1>2, <1>5 DEF Fine, fate
<1>6. CASE Fault /\ intf = "jtag" /\ Ends
  BY <1>1, <1>2, <1>6 DEF Fault, Failed, Trusted, world
<1> QED BY <1>1, <1>3, <1>4, <1>5, <1>6, Interfaces DEF Fault, Failed

LEMMA StepInv == ASSUME Inv, [Next]_vars PROVE Inv'
<1>1. Types /\ Types'
  BY StepTypes DEF Inv
<1>2. CASE UNCHANGED vars
  BY <1>2, <1>1 DEF vars, world, device, flash, tool, fate, Inv, Heads, HeadsTo, Stores, Trusted,
     UserToo, Located, CFStored, UFMStored, SentTo, BlankFrom, Holds, Passed, Healed, Excused
<1>3. CASE stage = "update" /\ (Start \/ ProgramDone \/ Refresh \/ Disable)
  BY <1>1, <1>3, StartInv, EndingInv, DisableInv
<1>4. CASE stage # "update" /\ (Start \/ ReadUsercode \/ AddUp \/ ProgramDone \/ Refresh \/ Disable)
  BY <1>1, <1>4, OtherCallsInv
<1>5. ReadUsercode \/ AddUp => stage # "update"
  BY <1>1 DEF ReadUsercode, AddUp, Types, Control
<1> QED BY <1>1, <1>2, <1>3, <1>4, <1>5, InvokeInv, KillInv, ScanInv, IdInv, FileInv, EraseInv,
           InitAddressInv, SendInv, RowsSentInv, ProgrammedInv, InitVerifyInv, VerifyRowInv,
           VerifiedInv DEF Next, ToolStep

LEMMA AlwaysInv == Spec => []Inv
BY InitInv, StepInv, PTL DEF Spec

-------------------------------------------------------------------------------
\* After a PASS the first word of every configuration row is the file's, whatever
\* was lost, stored wrongly or left by earlier invocations, if the flash could be
\* opened and read back (*_cpld_verify, *_cpld_update).
THEOREM PassComparesHeads == Spec => []PassMeansHeads
<1>1. Inv => PassMeansHeads
  <2> SUFFICES ASSUME Inv, verdict = "PASS", ~blind, NEW r \in 1..Len(devInfo.cf)
               PROVE  cf[r].head = devInfo.cf[r].head
    BY DEF PassMeansHeads
  <2>1. HeadsTo(Len(devInfo.cf) + 1) /\ Len(devInfo.cf) \in Nat
    BY DEF Inv, Heads, Types, Request
  <2> QED BY <2>1 DEF HeadsTo
<1> QED BY <1>1, AlwaysInv, PTL

\* Over I2C a PASS means that both flashes and the user code are the file's, and
\* that the chip is back in user mode, unless the flash stored a row wrongly
\* (i2c_cpld_update and what it calls).
THEOREM PassIsStored == Spec => []PassMeansStored
<1>1. Inv => PassMeansStored
  <2> SUFFICES ASSUME Inv, verdict = "PASS", intf = "i2c" PROVE PassMeansStored
    BY DEF PassMeansStored
  <2>1. Passed /\ Trusted
    BY DEF Inv, Trusted
  <2>2. devInfo.ufm = <<>> => Holds(ufm, devInfo.ufm)
    BY DEF Holds
  <2> QED BY <2>1, <2>2 DEF Passed, UserToo, PassMeansStored
<1> QED BY <1>1, AlwaysInv, PTL

\* An update that is not disturbed passes and leaves the file's image, whatever
\* any number of killed or failed invocations left (main, *_cpld_update).
THEOREM UpdateHeals == Spec => []RetryHeals
<1>1. Inv => RetryHeals
  <2> SUFFICES ASSUME Inv, pc = "idle", op = "program", chip # "ANLOGIC", devInfo.ok, ~hurt,
                      verdict # "none"
               PROVE  /\ verdict = "PASS" /\ mode = "user"
                      /\ Holds(cf, devInfo.cf) /\ usercode = "new"
                      /\ Holds(ufm, devInfo.ufm) \/ (intf = "jtag" /\ chip = "LCMXO3D")
    BY DEF RetryHeals
  <2>1. verdict = "PASS" /\ Trusted /\ Passed
    BY DEF Inv, Healed, Excused, Trusted
  <2>2. devInfo.ufm = <<>> => Holds(ufm, devInfo.ufm)
    BY DEF Holds
  <2> QED BY <2>1, <2>2 DEF Passed, UserToo
<1> QED BY <1>1, AlwaysInv, PTL

-------------------------------------------------------------------------------
(* The checksum.                                                            *)

\* What the file says of the rows of the device that it has.
FileSum(img) == (SumRows(img.cf) + SumRows(img.ufm) + SumRows(img.end)) % SumMod
FirstRows(rows, n) == [r \in 1..n |-> rows[r]]
\* crc is the sum of the device as it is, if its rows are what is read.
SumIsDevices ==
  ~OtherAddress =>
    sum = DeviceSum(intf, FirstRows(cf, Len(devInfo.cf)), FirstRows(ufm, Len(devInfo.ufm)),
                    devInfo.end)

\* What is known of the parsed file, and of the sum once it is made.
Loaded ==
  /\ devInfo.end \in Seq(Row)
  /\ devInfo.ok => devInfo.checkSum = FileSum(devInfo)
Checking ==
  /\ pc # "idle" => verdict = "none"
  /\ stage = "checksum" /\ pc # "parse" => devInfo.ok
  /\ pc = "add" /\ ~hurt => mode = "prog"
  /\ stage = "checksum" /\ pc \in Ending /\ ~hurt => SumIsDevices
  /\ verdict = "SUM" /\ ~hurt /\ chip # "ANLOGIC" => devInfo.ok /\ SumIsDevices

SumInv == Types /\ Loaded /\ Checking /\ sum \in 0..SumMod - 1

LEMMA ModRange ==
  ASSUME NEW a \in Nat
  PROVE  a % SumMod \in 0..SumMod - 1
BY SumModAssumption

\* The rows read from a flash, for an invocation in which nothing failed those
\* that are there.
LEMMA ReadRowsType ==
  ASSUME NEW n \in Nat, NEW rows \in [1..n -> Row], NEW k \in 0..n
  PROVE  /\ ReadRows(rows, k) \in Seq(Row)
         /\ mode = "prog" => ReadRows(rows, k) = FirstRows(rows, k)
<1>1. \A r \in 1..k : (IF mode = "prog" THEN rows[r] ELSE JunkRow) \in Row
  BY RowFacts
<1>2. ReadRows(rows, k) \in [1..k -> Row]
  BY <1>1 DEF ReadRows
<1>3. k \in Nat
  OBVIOUS
<1> QED BY <1>2, <1>3 DEF ReadRows, FirstRows

LEMMA DeviceSumType ==
  ASSUME NEW a \in Seq(Row), NEW b \in Seq(Row), NEW c \in Seq(Row)
  PROVE  DeviceSum(intf, a, b, c) \in 0..SumMod - 1
<1> DEFINE e == IF intf = "jtag" THEN JtagEndSum(c) ELSE 0
<1>1. SumRows(a) \in Nat /\ SumRows(b) \in Nat /\ e \in Nat
  BY SumNat, EndSumNat
<1>2. SumRows(a) + SumRows(b) + e \in Nat
  BY <1>1
<1> QED BY <1>2, ModRange DEF DeviceSum

LEMMA InitSum == Init => SumInv
<1> SUFFICES ASSUME Init PROVE SumInv
  OBVIOUS
<1>1. Loaded
  <2>1. /\ devInfo.cf = <<>> /\ devInfo.ufm = <<>> /\ devInfo.end = <<>>
        /\ devInfo.checkSum = 0
    BY DEF Init, NoInfo
  <2>2. <<>> \in Seq(Row) /\ (0 + 0 + 0) % SumMod = 0
    BY SumModAssumption
  <2> QED BY <2>1, <2>2, SumEmpty DEF Loaded, FileSum
<1>2. sum \in 0..SumMod - 1
  BY SumModAssumption DEF Init
<1> QED BY <1>1, <1>2, InitTypes DEF SumInv, Checking, Init

\* A step after which no checksum is in progress or shown.
Quiet ==
  /\ stage' = "checksum" => pc' = "parse"
  /\ pc' # "add" /\ verdict' # "SUM"
  /\ pc' # "idle" => verdict' = "none"

LEMMA QuietStep ==
  ASSUME SumInv, Types', Quiet, devInfo' = devInfo, sum' \in 0..SumMod - 1
  PROVE  SumInv'
BY DEF SumInv, Quiet, Loaded, FileSum, Checking, Ending, Types, Control

LEMMA ReturnQuiet ==
  ASSUME Types, stage # "none", verdict = "none", Return
  PROVE  Quiet
BY DEF Types, Control, Return, VersionReturns, Exit, Quiet

LEMMA GotoQuiet ==
  ASSUME stage # "checksum", verdict = "none", NEW label, label # "add", Goto(label)
  PROVE  Quiet
BY DEF Goto, Quiet

LEMMA ExitQuiet ==
  ASSUME NEW v, v # "SUM", Exit(v)
  PROVE  Quiet
BY DEF Exit, Quiet

LEMMA LostTransferQuiet ==
  ASSUME Types, stage \notin {"none", "checksum"}, verdict = "none", NEW label, label # "add",
         LostTransfer(label)
  PROVE  Quiet
BY ReturnQuiet, GotoQuiet DEF LostTransfer

LEMMA VersionReturnsQuiet ==
  ASSUME NEW v, v # "SUM", verdict = "none", VersionReturns(v)
  PROVE  Quiet
BY DEF VersionReturns, Exit, Quiet

LEMMA DetectedQuiet ==
  ASSUME Types, pc = "scan", verdict = "none", Detected
  PROVE  Quiet
BY DEF Types, Control, Detected, Goto, Quiet

LEMMA ScanQuiet ==
  ASSUME Types, verdict = "none",
         \/ ScanLattice \/ (\E n \in 1..7 : ScanYzbb(n)) \/ ScanJtagFails \/ YzbbVersion \/ GetId
  PROVE  Quiet
<1>1. CASE ScanLattice \/ (\E n \in 1..7 : ScanYzbb(n)) \/ ScanJtagFails
  <2>1. pc = "scan" /\ (Detected \/ Exit("UNSUPPORTED"))
    BY <1>1 DEF ScanLattice, ScanYzbb, ScanJtagFails
  <2> QED BY <2>1, DetectedQuiet, ExitQuiet
<1>2. CASE YzbbVersion
  <2>1. \E v \in {"SHOWN", "NA"} : VersionReturns(v)
    BY <1>2 DEF YzbbVersion
  <2> QED BY <2>1, VersionReturnsQuiet
<1>3. CASE GetId
  <2>1. \E v \in {"SHOWN", "NA"} : IdReturns(v)
    BY <1>3 DEF GetId
  <2> QED BY <2>1 DEF IdReturns, Exit, Quiet
<1> QED BY <1>1, <1>2, <1>3

\* Calls of an update or a version query.
LEMMA OtherQuiet ==
  ASSUME Types, verdict = "none", stage # "checksum",
         \/ Start \/ ReadUsercode \/ Erase \/ InitCF \/ SendCF \/ CFSent \/ InitUFM \/ SendUFM
         \/ UFMSent \/ CheckProgrammed \/ WriteUsercode \/ InitVerify \/ VerifyRow \/ Verified
         \/ ProgramDone \/ Refresh \/ Disable
  PROVE  Quiet
<1>0. stage \in {"version", "update"}
  BY DEF Types, Control, Start, ReadUsercode, Erase, InitCF, SendCF, CFSent, InitUFM, SendUFM,
     UFMSent, CheckProgrammed, WriteUsercode, InitVerify, VerifyRow, Verified, ProgramDone,
     Refresh, Disable, InitAddress, SendRow, RowsSent
<1>1. CASE Start
  <2>1. Return \/ AfterStart
    BY <1>1 DEF Start
  <2>2. AfterStart => \E label \in {"usercode", "erase"} : Goto(label)
    BY <1>0 DEF AfterStart
  <2> QED BY <1>0, <2>1, <2>2, ReturnQuiet, GotoQuiet
<1>2. CASE ReadUsercode
  <2>1. Goto("done") \/ LostTransfer("done")
    BY <1>2 DEF ReadUsercode
  <2> QED BY <1>0, <2>1, GotoQuiet, LostTransferQuiet
<1>3. CASE \/ Erase \/ InitCF \/ SendCF \/ CFSent \/ InitUFM \/ SendUFM \/ UFMSent
           \/ CheckProgrammed \/ WriteUsercode \/ InitVerify \/ VerifyRow \/ Verified
  <2>1. PICK label \in UpdateLabels : Goto(label) \/ LostTransfer(label) \/ Return
    BY <1>3, UpdateMoves DEF Types
  <2>2. label # "add"
    BY DEF UpdateLabels
  <2> QED BY <1>0, <2>1, <2>2, ReturnQuiet, GotoQuiet, LostTransferQuiet
<1>4. CASE ProgramDone \/ Refresh
  <2>1. \E label \in {"refresh", "disable"} : Goto(label) \/ LostTransfer(label) \/ Return
    BY <1>4 DEF ProgramDone, Refresh
  <2> QED BY <1>0, <2>1, ReturnQuiet, GotoQuiet, LostTransferQuiet
<1>5. CASE Disable
  <2>1. Return \/ Ends
    BY <1>5 DEF Disable
  <2>2. Ends => VersionReturns("SHOWN") \/ Exit("PASS")
    BY <1>0 DEF Ends
  <2> QED BY <1>0, <2>1, <2>2, ReturnQuiet, VersionReturnsQuiet, ExitQuiet
<1> QED BY <1>1, <1>2, <1>3, <1>4, <1>5

\* The steps of a checksum.
LEMMA InvokeSum == ASSUME SumInv, Types', Invoke PROVE SumInv'
<1>1. /\ devInfo' = NoInfo /\ pc' = "scan" /\ stage' = "none" /\ verdict' = "none"
      /\ sum' = 0
  BY DEF Invoke
<1>2. Loaded'
  <2>1. /\ devInfo'.cf = <<>> /\ devInfo'.ufm = <<>> /\ devInfo'.end = <<>>
        /\ devInfo'.checkSum = 0
    BY <1>1 DEF NoInfo
  <2>2. <<>> \in Seq(Row) /\ (0 + 0 + 0) % SumMod = 0
    BY SumModAssumption
  <2> QED BY <2>1, <2>2, SumEmpty DEF Loaded, FileSum
<1>3. sum' \in 0..SumMod - 1
  BY <1>1, SumModAssumption
<1> QED BY <1>1, <1>2, <1>3 DEF SumInv, Checking

LEMMA ParseSum == ASSUME SumInv, Types', Parse PROVE SumInv'
<1>1. /\ pc = "parse" /\ stage \in {"update", "checksum"} /\ verdict = "none"
      /\ devInfo' = Load(Lines[file]) /\ file \in Files /\ sum' = sum
      /\ \/ Exit("KILLED")
         \/ IF devInfo'.ok THEN Goto("start") ELSE Return
  BY DEF Parse, SumInv, Types, Control, Request, Checking
<1>2. Loaded'
  <2>1. Lines[file] \in Seq(Line)
    BY <1>1, CpldAssumption DEF Files
  <2> QED BY <1>1, <2>1, LoadTypes DEF Loaded, FileSum
<1>5. CASE Exit("KILLED")
  BY <1>1, <1>2, <1>5 DEF Exit, SumInv, Checking
<1>3. CASE devInfo'.ok /\ Goto("start")
  <2>1. pc' = "start" /\ stage' = stage /\ verdict' = "none"
    BY <1>1, <1>3 DEF Goto
  <2> QED BY <1>1, <1>2, <1>3, <2>1 DEF SumInv, Checking, Ending
<1>4. CASE ~devInfo'.ok /\ Return
  <2>1. pc' = "idle" /\ stage' = "none" /\ verdict' \in {"FAIL", "NA"}
    BY <1>1, <1>4 DEF Return, Exit
  <2> QED BY <1>1, <1>2, <2>1 DEF SumInv, Checking
<1> QED BY <1>1, <1>3, <1>4, <1>5

LEMMA AnlogicSum == ASSUME SumInv, Types', Anlogic PROVE SumInv'
<1>1. /\ chip' = "ANLOGIC" /\ pc' = "idle" /\ stage' = "none" /\ devInfo' = devInfo
      /\ sum' \in 0..SumMod - 1
  BY DEF Anlogic, Exit, world, request, SumInv
<1> QED BY <1>1 DEF SumInv, Loaded, FileSum, Checking

LEMMA AddUpSum == ASSUME SumInv, Types', AddUp PROVE SumInv'
<1>1. /\ pc = "add" /\ stage = "checksum" /\ verdict = "none" /\ devInfo.ok
      /\ UNCHANGED <<devInfo, cf, ufm, intf, chip>>
  BY DEF AddUp, SumInv, Types, Control, Checking, request, world, flash
<1> DEFINE a == ReadRows(cf, Len(devInfo.cf))
           b == ReadRows(ufm, Len(devInfo.ufm))
<1>2. /\ a \in Seq(Row) /\ b \in Seq(Row)
      /\ mode = "prog" => a = FirstRows(cf, Len(devInfo.cf)) /\ b = FirstRows(ufm, Len(devInfo.ufm))
  <2>1. Len(devInfo.cf) \in 0..CFRows /\ Len(devInfo.ufm) \in 0..UFMRows
    BY Sizes0 DEF SumInv, Types, Request
  <2> QED BY <2>1, Sizes0, ReadRowsType DEF SumInv, Types, Chip
<1>3. Loaded'
  BY <1>1 DEF SumInv, Loaded, FileSum
<1> HIDE DEF a, b
<1>4. CASE /\ Fine /\ Goto("done")
           /\ sum' \in IF OtherAddress THEN 0..SumMod - 1 ELSE {DeviceSum(intf, a, b, devInfo.end)}
  <2>1. pc' = "done" /\ stage' = "checksum" /\ verdict' = "none" /\ hurt' = hurt
    BY <1>1, <1>4 DEF Fine, fate, Goto
  <2>2. sum' \in 0..SumMod - 1
    BY <1>2, <1>4, DeviceSumType DEF SumInv, Loaded
  <2>3. ~hurt' => SumIsDevices'
    BY <1>1, <1>2, <1>4, <2>1 DEF SumInv, Checking, SumIsDevices, OtherAddress
  <2> QED BY <1>1, <1>3, <2>1, <2>2, <2>3 DEF SumInv, Checking, Ending
<1>5. CASE Fault /\ LostTransfer("done") /\ sum' \in {sum} \cup 0..SumMod - 1
  <2>1. hurt' /\ sum' \in 0..SumMod - 1
    BY <1>5 DEF Fault, Failed, SumInv
  <2>2. \/ pc' = "done" /\ stage' = "checksum" /\ verdict' = "none"
        \/ pc' = "idle" /\ stage' = "none" /\ verdict' = "NA"
    BY <1>1, <1>5 DEF LostTransfer, Return, Exit, Goto
  <2> QED BY <1>1, <1>3, <2>1, <2>2 DEF SumInv, Checking, Ending
<1> QED BY <1>4, <1>5 DEF AddUp, a, b

LEMMA StartSum == ASSUME SumInv, Types', Start, stage = "checksum" PROVE SumInv'
<1>1. /\ pc = "start" /\ verdict = "none" /\ devInfo.ok /\ UNCHANGED <<devInfo, sum, chip>>
  BY DEF Start, SumInv, Types, Checking, SameRequest, request, world
<1>2. CASE AfterStart /\ (hurt' \/ mode' = "prog")
  <2>1. pc' = "add" /\ stage' = "checksum" /\ verdict' = "none"
    BY <1>1, <1>2 DEF AfterStart, Goto
  <2> QED BY <1>1, <1>2, <2>1 DEF SumInv, Loaded, FileSum, Checking, Ending
<1>3. CASE Return
  <2>1. Quiet
    BY <1>1, <1>3, ReturnQuiet DEF SumInv
  <2> QED BY <1>1, <2>1, QuietStep DEF SumInv
<1> QED BY <1>2, <1>3 DEF Start, Fault, FaultOfVerify, Failed

LEMMA EndingSum ==
  ASSUME SumInv, Types', ProgramDone \/ Refresh \/ Disable, stage = "checksum"
  PROVE  SumInv'
<1>1. /\ pc \in Ending /\ verdict = "none" /\ devInfo.ok
      /\ UNCHANGED <<devInfo, sum, chip, intf, cf, ufm>>
      /\ hurt' = hurt \/ hurt'
  BY DEF ProgramDone, Refresh, Disable, Fine, Fault, Failed, fate, Ending, SumInv, Types, Checking,
     SameRequest, request, world, device, flash
<1>2. ~hurt' => SumIsDevices'
  BY <1>1 DEF SumInv, Checking, SumIsDevices, OtherAddress
<1>3. CASE \E label \in {"refresh", "disable"} : Goto(label)
  <2>1. pc' \in {"refresh", "disable"} /\ stage' = "checksum" /\ verdict' = "none"
    BY <1>1, <1>3 DEF Goto
  <2> QED BY <1>1, <1>2, <2>1 DEF SumInv, Loaded, FileSum, Checking, Ending
<1>4. CASE Return
  <2>1. Quiet
    BY <1>1, <1>4, ReturnQuiet DEF SumInv
  <2> QED BY <1>1, <2>1, QuietStep DEF SumInv
<1>5. CASE Ends
  <2>1. pc' = "idle" /\ stage' = "none" /\ verdict' = "SUM"
    BY <1>5 DEF Ends, Exit
  <2> QED BY <1>1, <1>2, <2>1 DEF SumInv, Loaded, FileSum, Checking, Ending
<1>6. \/ \E label \in {"refresh", "disable"} : Goto(label)
      \/ Return \/ Ends
  BY DEF ProgramDone, Refresh, Disable, LostTransfer
<1> QED BY <1>3, <1>4, <1>5, <1>6

LEMMA StepSum == ASSUME SumInv, [Next]_vars PROVE SumInv'
<1>1. Types /\ Types'
  BY StepTypes DEF SumInv
<1>2. CASE UNCHANGED vars
  BY <1>1, <1>2 DEF vars, world, device, flash, tool, fate, SumInv, Loaded, FileSum, Checking,
     SumIsDevices, OtherAddress
<1>3. CASE \/ ScanLattice \/ (\E n \in 1..7 : ScanYzbb(n)) \/ ScanJtagFails \/ YzbbVersion \/ GetId
  <2>1. pc # "idle" /\ UNCHANGED <<devInfo, sum>>
    BY <1>3 DEF ScanLattice, ScanYzbb, ScanJtagFails, YzbbVersion, GetId, SameRequest, request
  <2>2. Quiet
    BY <1>1, <1>3, <2>1, ScanQuiet DEF SumInv, Checking
  <2> QED BY <1>1, <2>1, <2>2, QuietStep DEF SumInv
<1>4. CASE Kill
  <2>1. Quiet /\ UNCHANGED <<devInfo, sum>>
    BY <1>4, ExitQuiet DEF Kill, SameRequest, request
  <2> QED BY <1>1, <2>1, QuietStep DEF SumInv
<1>5. CASE /\ stage # "checksum"
           /\ \/ Start \/ ReadUsercode \/ Erase \/ InitCF \/ SendCF \/ CFSent \/ InitUFM
              \/ SendUFM \/ UFMSent \/ CheckProgrammed \/ WriteUsercode \/ InitVerify
              \/ VerifyRow \/ Verified \/ ProgramDone \/ Refresh \/ Disable
  <2>1. pc # "idle" /\ UNCHANGED <<devInfo, sum>>
    BY <1>5 DEF Start, ReadUsercode, Erase, InitCF, SendCF, CFSent, InitUFM, SendUFM, UFMSent,
       CheckProgrammed, WriteUsercode, InitVerify, VerifyRow, Verified, ProgramDone, Refresh,
       Disable, InitAddress, SendRow, RowsSent, SameRequest, request
  <2>2. Quiet
    BY <1>1, <1>5, <2>1, OtherQuiet DEF SumInv, Checking
  <2> QED BY <1>1, <2>1, <2>2, QuietStep DEF SumInv
<1>6. stage = "checksum" =>
        ~ (\/ ReadUsercode \/ Erase \/ InitCF \/ SendCF \/ CFSent \/ InitUFM
           \/ SendUFM \/ UFMSent \/ CheckProgrammed \/ WriteUsercode \/ InitVerify
           \/ VerifyRow \/ Verified)
  BY <1>1 DEF Types, Control, ReadUsercode, Erase, InitCF, SendCF, CFSent, InitUFM, SendUFM,
     UFMSent, CheckProgrammed, WriteUsercode, InitVerify, VerifyRow, Verified, InitAddress,
     SendRow, RowsSent
<1>7. stage = "checksum" /\ (Start \/ ProgramDone \/ Refresh \/ Disable) => SumInv'
  BY <1>1, StartSum, EndingSum
<1> QED BY <1>1, <1>2, <1>3, <1>4, <1>5, <1>6, <1>7, InvokeSum, ParseSum, AnlogicSum, AddUpSum
        DEF Next, ToolStep

LEMMA AlwaysSum == Spec => []SumInv
BY InitSum, StepSum, PTL DEF Spec

\* Every variable keeps its type, the checksum has 16 bits whatever the rows of
\* the device and of the file add up to.
THEOREM SumHasRange == Spec => []TypeOK
<1>1. SumInv => TypeOK
  BY TypesAreTypes DEF SumInv, TypeOK
<1> QED BY <1>1, AlwaysSum, PTL

\* The first rows of a flash that holds the wanted ones are these.
LEMMA HeldRows ==
  ASSUME NEW rows, NEW wanted \in Seq(Row), Holds(rows, wanted)
  PROVE  FirstRows(rows, Len(wanted)) = wanted
<1>1. Len(wanted) \in Nat /\ wanted = [r \in 1..Len(wanted) |-> wanted[r]]
  OBVIOUS
<1>2. [r \in 1..Len(wanted) |-> rows[r]] = [r \in 1..Len(wanted) |-> wanted[r]]
  BY DEF Holds
<1> QED BY <1>1, <1>2 DEF FirstRows

LEMMA Division ==
  ASSUME NEW M \in Nat \ {0}, NEW n \in Nat
  PROVE  n \div M \in Int /\ n % M \in 0..M - 1 /\ n = M * (n \div M) + (n % M)
OBVIOUS

\* A number and what is left of it count for the same.
LEMMA ModOfSum ==
  ASSUME NEW a \in Nat, NEW b \in Nat
  PROVE  ((a % SumMod) + b) % SumMod = (a + b) % SumMod
<1> DEFINE M == SumMod
           q == a \div M
           c == a % M
           u == (c + b) % M
           k == (c + b) \div M
           v == (a + b) % M
           l == (a + b) \div M
<1>1. M \in Nat \ {0}
  BY SumModAssumption
<1> HIDE DEF M
<1>2. q \in Int /\ c \in 0..M - 1 /\ a = M * q + c
  BY <1>1, Division
<1> HIDE DEF q, c
<1> DEFINE x == c + b
           y == a + b
<1>3. x \in Nat /\ y \in Nat /\ x = c + b /\ y = a + b
  BY <1>1, <1>2
<1>9. /\ u = x % M /\ k = x \div M /\ v = y % M /\ l = y \div M
  OBVIOUS
<1> HIDE DEF x, y, u, k, v, l
<1>4. k \in Int /\ u \in 0..M - 1 /\ c + b = M * k + u
  BY <1>1, <1>3, <1>9, Division
<1>5. l \in Int /\ v \in 0..M - 1 /\ a + b = M * l + v
  BY <1>1, <1>3, <1>9, Division
<1>6. M * (q + k - l) = v - u
  BY <1>1, <1>2, <1>4, <1>5
<1>7. q + k - l = 0
  <2> DEFINE d == q + k - l
  <2>1. d \in Int /\ M * d = v - u /\ v - u < M /\ v - u > -M
    BY <1>1, <1>2, <1>4, <1>5, <1>6
  <2> HIDE DEF d
  <2>2. ASSUME d >= 1 PROVE FALSE
    <3>1. M * d >= M
      BY <1>1, <2>1, <2>2
    <3> QED BY <1>1, <1>4, <1>5, <2>1, <3>1
  <2>3. ASSUME d <= -1 PROVE FALSE
    <3>1. M * d <= -M
      BY <1>1, <2>1, <2>3
    <3> QED BY <1>1, <1>4, <1>5, <2>1, <3>1
  <2>4. d = 0
    BY <2>1, <2>2, <2>3
  <2> QED BY <2>4 DEF d
<1>8. u = v
  BY <1>1, <1>4, <1>5, <1>6, <1>7
<1> QED BY <1>8 DEF u, v, c, M

\* The checksum shown for a device that holds the file is the one the file gives
\* but for its end section, which the two interfaces treat each in a way of its
\* own (*_cpld_checksum).
THEOREM ChecksumIsFiles == Spec => []ChecksumTells
<1>1. SumInv => ChecksumTells
  <2> SUFFICES ASSUME SumInv, verdict = "SUM", ~hurt, chip # "ANLOGIC", ~OtherAddress,
                      Holds(cf, devInfo.cf), Holds(ufm, devInfo.ufm)
               PROVE  /\ (sum + SumRows(devInfo.end)) % SumMod =
                           (devInfo.checkSum
                              + IF intf = "jtag" THEN JtagEndSum(devInfo.end) ELSE 0) % SumMod
                      /\ Len(devInfo.end) <= (IF intf = "jtag" THEN 1 ELSE 0) =>
                           sum = devInfo.checkSum
    BY DEF ChecksumTells
  <2> DEFINE a == SumRows(devInfo.cf) + SumRows(devInfo.ufm)
             e == SumRows(devInfo.end)
             j == IF intf = "jtag" THEN JtagEndSum(devInfo.end) ELSE 0
  <2>1. /\ SumIsDevices /\ devInfo.checkSum = FileSum(devInfo)
        /\ devInfo.cf \in Seq(Row) /\ devInfo.ufm \in Seq(Row) /\ devInfo.end \in Seq(Row)
    BY DEF SumInv, Checking, Loaded, Types, Request
  <2>2. FirstRows(cf, Len(devInfo.cf)) = devInfo.cf
    BY <2>1, HeldRows
  <2>3. FirstRows(ufm, Len(devInfo.ufm)) = devInfo.ufm
    BY <2>1, HeldRows
  <2>4. sum = (a + j) % SumMod /\ devInfo.checkSum = (a + e) % SumMod
    BY <2>1, <2>2, <2>3 DEF SumIsDevices, DeviceSum, FileSum
  <2>5. a \in Nat /\ e \in Nat /\ j \in Nat
    <3>1. /\ SumRows(devInfo.cf) \in Nat /\ SumRows(devInfo.ufm) \in Nat
          /\ SumRows(devInfo.end) \in Nat /\ JtagEndSum(devInfo.end) \in Nat
      BY <2>1, SumNat, EndSumNat
    <3> QED BY <3>1
  <2>6. ASSUME Len(devInfo.end) <= (IF intf = "jtag" THEN 1 ELSE 0) PROVE e = j
    <3>1. CASE intf = "jtag"
      BY <2>1, <2>6, <3>1, EndSumOfOne
    <3>2. CASE intf # "jtag"
      <4>1. devInfo.end = <<>>
        BY <2>1, <2>6, <3>2
      <4> QED BY <3>2, <4>1, SumEmpty
    <3> QED BY <3>1, <3>2
  <2> HIDE DEF a, e, j
  <2>7. (sum + e) % SumMod = ((a + j) + e) % SumMod
    BY <2>4, <2>5, ModOfSum
  <2>8. (devInfo.checkSum + j) % SumMod = ((a + e) + j) % SumMod
    BY <2>4, <2>5, ModOfSum
  <2>9. (a + j) + e = (a + e) + j
    BY <2>5
  <2> QED BY <2>4, <2>6, <2>7, <2>8, <2>9 DEF e, j
<1> QED BY <1>1, AlwaysSum, PTL

-------------------------------------------------------------------------------
(* The two passes over an orderly file.                                     *)

\* Where the two passes are after k lines of such a file: the same sections are
\* open for both until the first note, one at most; then none is for the first
\* pass, and the second stores no more.
Abreast(lines, k, s, p) ==
  /\ s.cf = Len(p.cf) /\ s.ufm = Len(p.ufm) /\ s.end = Len(p.end)
  /\ ~Noted(lines, k) =>
       /\ (s.inCF <=> p.inCF) /\ (s.inUFM <=> p.inUFM) /\ (s.inEnd <=> p.inEnd)
       /\ ~p.inSum /\ ~p.inRow /\ ~p.inVer
       /\ ~(s.inCF /\ s.inUFM) /\ ~(s.inCF /\ s.inEnd) /\ ~(s.inUFM /\ s.inEnd)
       /\ s.inCF \/ s.inUFM \/ s.inEnd => SectionOpen(lines, k)
  /\ Noted(lines, k) =>
       /\ ~s.inCF /\ ~s.inUFM /\ ~s.inEnd /\ ~p.inCF
       /\ InFeature(lines, k) => p.inRow /\ ~p.inSum

LEMMA OneMoreLine ==
  ASSUME NEW lines, NEW k \in Nat \ {0}
  PROVE  /\ Noted(lines, k) <=> Noted(lines, k - 1) \/ lines[k].kind \in Notes
         /\ lines[k].kind # "star" /\ (SectionOpen(lines, k - 1) \/ lines[k].kind \in SectionTags)
              => SectionOpen(lines, k)
         /\ InFeature(lines, k) =>
              \/ lines[k].kind = "FEATURE"
              \/ InFeature(lines, k - 1) /\ lines[k].kind \in {"FEATURE", "blank", "E"}
<1>1. \A a : a \in 1..k <=> a \in 1..(k - 1) \/ a = k
  OBVIOUS
<1>2. Noted(lines, k) <=> Noted(lines, k - 1) \/ lines[k].kind \in Notes
  BY <1>1 DEF Noted
<1>3. ASSUME lines[k].kind # "star", SectionOpen(lines, k - 1) PROVE SectionOpen(lines, k)
  <2>1. PICK a \in 1..(k - 1) :
          lines[a].kind \in SectionTags /\ \A c \in a..(k - 1) : lines[c].kind # "star"
    BY <1>3 DEF SectionOpen
  <2>2. \A c \in a..k : c \in a..(k - 1) \/ c = k
    OBVIOUS
  <2>3. a \in 1..k
    OBVIOUS
  <2> QED BY <1>3, <2>1, <2>2, <2>3 DEF SectionOpen
<1>4. ASSUME lines[k].kind \in SectionTags PROVE SectionOpen(lines, k)
  <2>1. k \in 1..k /\ \A c \in k..k : c = k
    OBVIOUS
  <2>2. lines[k].kind # "star"
    BY <1>4 DEF SectionTags
  <2> QED BY <1>4, <2>1, <2>2 DEF SectionOpen
<1>5. ASSUME InFeature(lines, k), lines[k].kind # "FEATURE"
      PROVE  InFeature(lines, k - 1) /\ lines[k].kind \in {"FEATURE", "blank", "E"}
  <2>1. PICK a \in 1..k :
          /\ lines[a].kind = "FEATURE"
          /\ \A c \in a..k : lines[c].kind \in {"FEATURE", "blank", "E"}
    BY <1>5 DEF InFeature
  <2>2. a \in 1..(k - 1) /\ k \in a..k /\ \A c \in a..(k - 1) : c \in a..k
    BY <1>5, <2>1
  <2> QED BY <2>1, <2>2 DEF InFeature
<1> QED BY <1>2, <1>3, <1>4, <1>5

LEMMA AbreastStep ==
  ASSUME NEW lines \in Seq(Line), Orderly(lines), NEW k \in 1..Len(lines),
         NEW s \in SizeState, NEW p \in ParseState, Abreast(lines, k - 1, s, p)
  PROVE  Abreast(lines, k, CountLine(s, lines[k]), ParseLine(p, lines[k]))
<1> DEFINE line == lines[k]
           t == CountLine(s, lines[k])
           q == ParseLine(p, lines[k])
<1>1. line \in Line
  BY LinesOf
<1>2. /\ Counts(s, line, t) /\ Keeps(p, line, q) /\ Moves(p, line, q)
  BY <1>1, CountEffect, ParseEffect
<1>3. /\ p.cf \in Seq(Row) /\ p.ufm \in Seq(Row) /\ p.end \in Seq(Row)
      /\ Digits(line) => line.row \in Row
  BY <1>1, LineFacts DEF ParseState
<1>4. Digits(line) =>
        /\ Len(Append(p.cf, line.row)) = Len(p.cf) + 1
        /\ Len(Append(p.ufm, line.row)) = Len(p.ufm) + 1
        /\ Len(Append(p.end, line.row)) = Len(p.end) + 1
  BY <1>3
<1>5. /\ line.kind \in SectionTags => ~SectionOpen(lines, k - 1) /\ ~Noted(lines, k - 1)
      /\ Digits(line) /\ Noted(lines, k - 1) => InFeature(lines, k - 1)
  BY DEF Orderly
<1>6. /\ Noted(lines, k) <=> Noted(lines, k - 1) \/ line.kind \in Notes
      /\ line.kind # "star" /\ (SectionOpen(lines, k - 1) \/ line.kind \in SectionTags)
           => SectionOpen(lines, k)
      /\ InFeature(lines, k) =>
           \/ line.kind = "FEATURE"
           \/ InFeature(lines, k - 1) /\ line.kind \in {"FEATURE", "blank", "E"}
  BY OneMoreLine
<1>7. Digits(line) => line.kind \notin SectionTags \cup Notes \cup {"star", "blank", "E"}
  BY DEF Digits, DigitKinds, SectionTags, Notes
<1> HIDE DEF line, t, q
<1>8. CASE Noted(lines, k - 1)
  <2>1. /\ ~s.inCF /\ ~s.inUFM /\ ~s.inEnd /\ ~p.inCF
        /\ InFeature(lines, k - 1) => p.inRow /\ ~p.inSum
        /\ s.cf = Len(p.cf) /\ s.ufm = Len(p.ufm) /\ s.end = Len(p.end)
    BY <1>8 DEF Abreast
  <2>2. /\ ~CFAt(s, line) /\ ~UFMAt(s, line) /\ ~EndAt(s, line) /\ ~CFAt(p, line)
    BY <1>5, <1>8, <2>1 DEF CFAt, UFMAt, EndAt, SectionTags
  <2>3. /\ t.cf = s.cf /\ t.ufm = s.ufm /\ t.end = s.end
        /\ ~t.inCF /\ ~t.inUFM /\ ~t.inEnd /\ ~q.inCF
    BY <1>2, <2>2 DEF Counts, Moves, SizeState
  <2>4. Digits(line) => Elsewhere(p, line)
    BY <1>5, <1>8, <2>1 DEF Elsewhere, RowAt
  <2>5. q.cf = p.cf /\ q.ufm = p.ufm /\ q.end = p.end
    BY <1>2, <2>2, <2>4 DEF Keeps, ToCF, ToUFM, ToEnd
  <2>6. InFeature(lines, k) => q.inRow /\ ~q.inSum
    <3>1. CASE line.kind = "FEATURE"
      BY <1>2, <2>2, <3>1 DEF Moves, RowAt, SumAt
    <3>2. CASE InFeature(lines, k - 1) /\ line.kind \in {"blank", "E"}
      BY <1>2, <2>1, <2>2, <3>2 DEF Moves, RowAt, SumAt
    <3> QED BY <1>6, <3>1, <3>2
  <2> QED BY <1>6, <1>8, <2>1, <2>3, <2>5, <2>6 DEF Abreast, t, q
<1>9. CASE ~Noted(lines, k - 1)
  <2>1. /\ s.cf = Len(p.cf) /\ s.ufm = Len(p.ufm) /\ s.end = Len(p.end)
        /\ (s.inCF <=> p.inCF) /\ (s.inUFM <=> p.inUFM) /\ (s.inEnd <=> p.inEnd)
        /\ ~p.inSum /\ ~p.inRow /\ ~p.inVer
        /\ ~(s.inCF /\ s.inUFM) /\ ~(s.inCF /\ s.inEnd) /\ ~(s.inUFM /\ s.inEnd)
        /\ s.inCF \/ s.inUFM \/ s.inEnd => SectionOpen(lines, k - 1)
    BY <1>9 DEF Abreast
  <2>2. /\ (CFAt(s, line) <=> CFAt(p, line)) /\ (UFMAt(s, line) <=> UFMAt(p, line))
        /\ (EndAt(s, line) <=> EndAt(p, line))
    BY <2>1 DEF CFAt, UFMAt, EndAt
  <2>3. Digits(line) => (Elsewhere(p, line) <=> CFAt(p, line))
    BY <1>7, <2>1 DEF Elsewhere, SumAt, RowAt, Notes
  <2>4. t.cf = Len(q.cf) /\ t.ufm = Len(q.ufm) /\ t.end = Len(q.end)
    <3>1. CASE Digits(line)
      <4>1. s.cf \in Nat /\ s.ufm \in Nat /\ s.end \in Nat
        BY DEF SizeState
      <4>2. /\ t.cf = IF CFAt(p, line) THEN s.cf + 1 ELSE s.cf
            /\ t.ufm = IF ~CFAt(p, line) /\ UFMAt(p, line) THEN s.ufm + 1 ELSE s.ufm
            /\ t.end = IF ~CFAt(p, line) /\ ~UFMAt(p, line) /\ EndAt(p, line)
                      THEN s.end + 1 ELSE s.end
        BY <1>2, <2>2, <3>1, <4>1 DEF Counts
      <4>3. /\ q.cf = IF CFAt(p, line) THEN Append(p.cf, line.row) ELSE p.cf
            /\ q.ufm = IF ~CFAt(p, line) /\ UFMAt(p, line)
                      THEN Append(p.ufm, line.row) ELSE p.ufm
            /\ q.end = IF ~CFAt(p, line) /\ ~UFMAt(p, line) /\ EndAt(p, line)
                      THEN Append(p.end, line.row) ELSE p.end
        BY <1>2, <2>3, <3>1 DEF Keeps, ToCF, ToUFM, ToEnd
      <4>4. t.cf = Len(q.cf)
        BY <1>4, <2>1, <3>1, <4>2, <4>3
      <4>5. t.ufm = Len(q.ufm)
        BY <1>4, <2>1, <3>1, <4>2, <4>3
      <4>6. t.end = Len(q.end)
        BY <1>4, <2>1, <3>1, <4>2, <4>3
      <4> QED BY <4>4, <4>5, <4>6
    <3>2. CASE ~Digits(line)
      BY <1>2, <2>1, <3>2 DEF Counts, Keeps, ToCF, ToUFM, ToEnd, SizeState
    <3> QED BY <3>1, <3>2
  \* one section at most is open, a new one only when none was
  <2>5. /\ ~(CFAt(s, line) /\ UFMAt(s, line)) /\ ~(CFAt(s, line) /\ EndAt(s, line))
        /\ ~(UFMAt(s, line) /\ EndAt(s, line))
    BY <1>5, <2>1 DEF CFAt, UFMAt, EndAt, SectionTags
  <2>6. CASE line.kind \in Notes
    <3>1. /\ ~Digits(line)
          /\ line.kind \notin SkippedInCF \cup SkippedInUFM \cup SkippedInEnd
      BY <2>6, <1>7 DEF Notes, SkippedInCF, SkippedInUFM, SkippedInEnd, LLines
    <3>2. ~t.inCF /\ ~t.inUFM /\ ~t.inEnd /\ ~q.inCF
      BY <1>2, <2>5, <3>1 DEF Counts, Moves
    <3>3. ~InFeature(lines, k - 1)
      <4>1. InFeature(lines, k - 1) => Noted(lines, k - 1)
        BY DEF InFeature, Noted, Notes
      <4> QED BY <1>9, <4>1
    <3>4. line.kind = "FEATURE" => q.inRow /\ ~q.inSum
      BY <1>2, <2>1 DEF Moves, RowAt, SumAt
    <3> QED BY <1>6, <2>4, <2>6, <3>2, <3>3, <3>4 DEF Abreast, t, q
  <2>7. CASE line.kind \notin Notes
    <3>1. ~SumAt(p, line) /\ ~RowAt(p, line) /\ ~q.inSum /\ ~q.inRow /\ ~q.inVer
      BY <1>2, <2>1, <2>7 DEF Moves, SumAt, RowAt, Notes
    <3>2. Elsewhere(p, line) <=> CFAt(p, line)
      BY <2>1, <2>7, <3>1 DEF Elsewhere, Notes
    <3>3. (t.inCF <=> q.inCF) /\ (t.inUFM <=> q.inUFM) /\ (t.inEnd <=> q.inEnd)
      BY <1>2, <2>2, <3>2 DEF Counts, Moves
    <3>4. ~(t.inCF /\ t.inUFM) /\ ~(t.inCF /\ t.inEnd) /\ ~(t.inUFM /\ t.inEnd)
      BY <1>2, <2>5 DEF Counts
    <3>5. t.inCF \/ t.inUFM \/ t.inEnd => SectionOpen(lines, k)
      <4>1. t.inCF \/ t.inUFM \/ t.inEnd =>
              CFAt(s, line) \/ UFMAt(s, line) \/ EndAt(s, line)
        BY <1>2 DEF Counts
      <4>2. CFAt(s, line) \/ UFMAt(s, line) \/ EndAt(s, line) =>
              SectionOpen(lines, k - 1) \/ line.kind \in SectionTags
        BY <2>1 DEF CFAt, UFMAt, EndAt, SectionTags
      <4>3. line.kind = "star" => ~t.inCF /\ ~t.inUFM /\ ~t.inEnd
        BY <1>2, <1>7, <2>5
           DEF Counts, SkippedInCF, SkippedInUFM, SkippedInEnd, LLines
      <4> QED BY <1>6, <4>1, <4>2, <4>3
    <3> QED BY <1>6, <1>9, <2>4, <2>7, <3>1, <3>3, <3>4, <3>5 DEF Abreast, t, q
  <2> QED BY <2>6, <2>7
<1> QED BY <1>8, <1>9

\* For an orderly file the buffers are as large as what is stored in them.
LEMMA OrderlyFits ==
  ASSUME NEW lines \in Seq(Line), Orderly(lines)
  PROVE  LET img == Load(lines)
         IN img.allocated = <<Len(img.cf), Len(img.ufm), Len(img.end)>>
<1> DEFINE n == Len(lines)
           T == {k \in 0..n : Abreast(lines, k, SizesUpTo(lines)[k], ParsedUpTo(lines)[k])}
<1>1. n \in Nat /\ n \in 0..n
  BY LinesOf
<1>2. 0 \in T
  <2>1. ~Noted(lines, 0)
    BY DEF Noted
  <2>2. Abreast(lines, 0, SizesStart, ParseStart)
    BY <2>1 DEF Abreast, SizesStart, ParseStart
  <2> QED BY <1>1, <2>2, SizesLoop, ParseLoop
<1>3. ASSUME NEW k \in 1..n, k - 1 \in T PROVE k \in T
  <2>1. /\ SizesUpTo(lines)[k] = CountLine(SizesUpTo(lines)[k - 1], lines[k])
        /\ ParsedUpTo(lines)[k] = ParseLine(ParsedUpTo(lines)[k - 1], lines[k])
        /\ SizesUpTo(lines)[k - 1] \in SizeState /\ ParsedUpTo(lines)[k - 1] \in ParseState
    BY SizesLoop, ParseLoop
  <2>2. Abreast(lines, k - 1, SizesUpTo(lines)[k - 1], ParsedUpTo(lines)[k - 1])
    BY <1>3
  <2> QED BY <2>1, <2>2, AbreastStep
<1> HIDE DEF T
<1>4. n \in T
  BY <1>1, <1>2, <1>3, Induction
<1>5. Abreast(lines, n, Sizes(lines), Parsed(lines))
  BY <1>4, SizesLoop, ParseLoop DEF T
<1> QED BY <1>5 DEF Load, Abreast

\* Whatever files there are, the second pass over an orderly one stores as many
\* lines in each buffer as were allocated for it.
THEOREM OrderlyFilesFit == Spec => []BuffersFit
<1>1. Init => BuffersFit
  BY DEF Init, NoInfo, BuffersFit
<1>2. Types /\ BuffersFit /\ [Next]_vars => BuffersFit'
  <2> SUFFICES ASSUME Types, BuffersFit, [Next]_vars PROVE BuffersFit'
    OBVIOUS
  <2>1. CASE Parse
    <3>1. file \in Files /\ devInfo' = Load(Lines[file])
      BY <2>1 DEF Parse, Types, Control, Request
    <3>2. Lines[file] \in Seq(Line) /\ file' = file
      BY <2>1, <3>1, CpldAssumption DEF Parse, Files
    <3> QED BY <3>1, <3>2, OrderlyFits DEF BuffersFit
  <2>2. CASE Invoke
    BY <2>2 DEF Invoke, NoInfo, BuffersFit
  <2>3. UNCHANGED <<devInfo, file>> \/ Parse \/ Invoke
    BY DEF vars, tool, Next, ToolStep, ScanLattice, ScanYzbb, ScanJtagFails, YzbbVersion, GetId,
       Anlogic, Start, ReadUsercode, Erase, InitCF, SendCF, CFSent, InitUFM, SendUFM, UFMSent,
       CheckProgrammed, WriteUsercode, InitVerify, VerifyRow, Verified, AddUp, ProgramDone,
       Refresh, Disable, Kill, InitAddress, SendRow, RowsSent, SameRequest, request
  <2> QED BY <2>1, <2>2, <2>3 DEF BuffersFit
<1> QED BY <1>1, <1>2, AlwaysTypes, PTL DEF Spec

===============================================================================
