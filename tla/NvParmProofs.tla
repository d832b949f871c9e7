----------------------------- MODULE NvParmProofs -----------------------------
(***************************************************************************)
(* NvParm implements NvStore, and an exit status of 0 means what it should:*)
(* for every flash, partition, buffer, set of commands and of processes.   *)
(***************************************************************************)
EXTENDS NvParm, TLAPS

\* The cells a process has erased, or done with, so far.
Erased(p) ==
  CASE pc[p] = "erase" -> {n \in Touched(op[p]) : n < at[p]}
    [] pc[p] \in {"write", "verify"} -> Touched(op[p])
    [] OTHER -> {}

\* Those of them it has yet to make whole, and those whose content it counts on.
Owned(p) == IF pc[p] = "erase" /\ op[p].kind = "clear" THEN {} ELSE Erased(p)
Held(p) == IF pc[p] = "erase" /\ op[p].kind \in Updates THEN Touched(op[p]) ELSE Owned(p)

-------------------------------------------------------------------------------
(* The invariant.                                                           *)

\* Where a process may be, with what.
ToolOK(p) ==
  /\ ~Idle(p) /\ op[p].kind \in {"clear", "file"} => op[p].off % Per = 0
  /\ pc[p] = "get" => op[p].kind \in Updates \cup Looks /\ at[p] = First(op[p])
  /\ pc[p] = "erase" =>
       /\ op[p].kind \in Changes
       /\ \E j \in Nat : at[p] = First(op[p]) + j * Per
       /\ at[p] < Beyond(op[p])
       /\ op[p].kind \in Updates => at[p] = First(op[p])
  /\ pc[p] = "write" => op[p].kind \in Updates \cup {"file"}
  /\ pc[p] = "verify" => op[p].kind = "file"
  /\ pc[p] \in {"write", "verify"} /\ op[p].kind = "file" =>
       op[p].off <= at[p] /\ at[p] <= op[p].off + Len(op[p].data)
  /\ pc[p] \in {"erase", "write"} /\ op[p].kind \in Updates =>
       blob[p] \in [Touched(op[p]) -> Entry]

\* What a process that nobody crossed knows of the flash.
Knows(p) ==
  clean[p] =>
    /\ Owned(p) \subseteq torn
    /\ pc[p] = "erase" => \A n \in Erased(p) : flash[n] = Blank
    /\ pc[p] \in {"erase", "write"} /\ op[p].kind \in Updates =>
         \A n \in Touched(op[p]) : blob[p][n] = Effect(op[p], n, last[n])
    /\ pc[p] = "write" => \A n \in Touched(op[p]) :
         op[p].kind \in Updates \/ at[p] <= n => flash[n] = Blank
    /\ pc[p] = "verify" => \A n \in Touched(op[p]) :
         /\ n < at[p] => flash[n] = InFile(p, n)
         /\ op[p].off + Len(op[p].data) <= n => flash[n] = Blank

\* What is not torn is what it was made.
Untorn == \A n \in Cells : n \notin torn => flash[n] = last[n]

\* Nobody counts on a cell that somebody else has yet to make whole.
Apart(p, q) == clean[p] /\ clean[q] => Owned(p) \cap Held(q) = {}
Exclusive == \A p, q \in Procs : p # q => Apart(p, q)

Types == TypeOK /\ blob = [p \in Procs |-> blob[p]] /\ \A p \in Procs : ToolOK(p)
Inv == Types /\ Untorn /\ (\A p \in Procs : Knows(p)) /\ Exclusive

-------------------------------------------------------------------------------
(* Blocks.                                                                  *)

LEMMA CommandType ==
  ASSUME NEW c \in Commands
  PROVE  /\ c.kind \in Kinds /\ c.off \in Nat /\ c.data \in Seq(Entry)
         /\ Len(c.data) \in Nat
         /\ c.kind = "set" => c.data[1] \in Entry
<1>1. c \in Command
  BY NvParmAssumption
<1>2. c.kind \in Kinds /\ c.off \in Nat /\ c.data \in Seq(Entry)
  BY <1>1 DEF Command
<1>3. c.kind = "set" => c.data[1] \in Entry
  BY NvParmAssumption DEF Entry
<1> QED BY <1>2, <1>3

LEMMA FirstIs ==
  ASSUME NEW c \in Commands
  PROVE  /\ First(c) \in Nat /\ First(c) <= c.off /\ c.off < First(c) + Per
         /\ c.off % Per = 0 => First(c) = c.off
BY CommandType, LayoutAssumption DEF First, BlockStart

LEMMA TwoDivides == ASSUME NEW m \in Nat \ {0} PROVE (m + m - 1) \div m = 1
OBVIOUS

LEMMA UpdatesBlock ==
  ASSUME NEW c \in Commands, c.kind \in Updates
  PROVE  Touched(c) = Reach(First(c), Per) /\ Beyond(c) = First(c) + Per
<1>1. Per \in Nat \ {0}
  BY LayoutAssumption
<1>2. Length(c) = Per
  BY DEF Length, Updates
<1>3. RoundUp(Per) = Per
  BY <1>1, TwoDivides DEF RoundUp
<1>4. Beyond(c) = First(c) + Per
  BY <1>2, <1>3 DEF Beyond
<1> QED BY <1>4 DEF Touched, Reach

LEMMA LengthType == ASSUME NEW c \in Commands PROVE Length(c) \in Nat
BY CommandType, LayoutAssumption DEF Length

\* A command ends behind whole blocks, and not before what it is to write.
LEMMA BeyondIs ==
  ASSUME NEW c \in Commands
  PROVE  /\ \E k \in Nat : Beyond(c) = First(c) + k * Per
         /\ First(c) + Length(c) <= Beyond(c)
<1> DEFINE k == (Length(c) + Per - 1) \div Per
<1>1. Per \in Nat \ {0} /\ Length(c) \in Nat /\ First(c) \in Nat
  BY LayoutAssumption, LengthType, FirstIs
<1>2. k \in Nat /\ Length(c) <= k * Per
  BY <1>1
<1>3. Beyond(c) = First(c) + k * Per
  BY DEF Beyond, RoundUp
<1> HIDE DEF k
<1> QED BY <1>1, <1>2, <1>3

\* A block that begins before the end ends before it.
LEMMA BlockFits ==
  ASSUME NEW p \in Procs, op[p] \in Commands, ToolOK(p), pc[p] = "erase"
  PROVE  /\ at[p] \in Nat /\ First(op[p]) <= at[p] /\ at[p] + Per <= Beyond(op[p])
         /\ \E j \in Nat : at[p] + Per = First(op[p]) + j * Per
         /\ Reach(at[p], Per) \subseteq Touched(op[p])
<1>1. PICK j \in Nat : at[p] = First(op[p]) + j * Per
  BY DEF ToolOK
<1>2. PICK k \in Nat : Beyond(op[p]) = First(op[p]) + k * Per
  BY BeyondIs
<1>3. Per \in Nat \ {0} /\ First(op[p]) \in Nat /\ at[p] < Beyond(op[p])
  BY LayoutAssumption, FirstIs DEF ToolOK
<1>4. j < k
  <2> SUFFICES ASSUME k <= j PROVE FALSE
    OBVIOUS
  <2>1. k * Per <= j * Per
    BY <1>3
  <2> QED BY <1>1, <1>2, <1>3, <2>1
<1>5. (j + 1) * Per <= k * Per
  BY <1>3, <1>4
<1>6. at[p] + Per = First(op[p]) + (j + 1) * Per
  BY <1>1, <1>3
<1>7. 0 <= j * Per /\ j * Per \in Nat /\ k * Per \in Nat /\ (j + 1) * Per \in Nat
  BY <1>3
<1>8. at[p] \in Nat /\ First(op[p]) <= at[p] /\ at[p] + Per <= Beyond(op[p])
  BY <1>1, <1>2, <1>3, <1>5, <1>6, <1>7
<1>9. Reach(at[p], Per) \subseteq Touched(op[p])
  <2>1. Beyond(op[p]) \in Nat
    BY <1>2, <1>3, <1>7
  <2> QED BY <1>3, <1>8, <2>1, LayoutAssumption DEF Reach, Touched, Cells
<1> QED BY <1>6, <1>8, <1>9

LEMMA StoredType == ASSUME NEW a \in Entry, NEW b \in Entry PROVE Stored(a, b) \in Entry
BY DEF Stored, Entry

LEMMA StoredBlank == ASSUME NEW b PROVE Stored(Blank, b) = b
BY DEF Stored

-------------------------------------------------------------------------------
(* What a step of one process leaves to the others.                         *)

Same(q) == pc'[q] = pc[q] /\ op'[q] = op[q] /\ blob'[q] = blob[q] /\ at'[q] = at[q]

OthersSame(p) == \A q \in Procs : q # p => Same(q)

LEMMA SameSets ==
  ASSUME NEW q \in Procs, Same(q)
  PROVE  Erased(q)' = Erased(q) /\ Owned(q)' = Owned(q) /\ Held(q)' = Held(q)
BY DEF Same, Erased, Owned, Held

LEMMA SetsTouched ==
  ASSUME NEW q \in Procs
  PROVE  /\ Erased(q) \subseteq Touched(op[q]) /\ Owned(q) \subseteq Held(q)
         /\ Held(q) \subseteq Touched(op[q]) /\ Touched(op[q]) \subseteq Cells
         /\ Idle(q) => Held(q) = {}
<1>1. Touched(op[q]) \subseteq Cells /\ Erased(q) \subseteq Touched(op[q])
  BY DEF Erased, Touched
<1>2. Owned(q) \subseteq Erased(q)
  BY DEF Owned
<1>3. Owned(q) \subseteq Held(q) /\ Held(q) \subseteq Touched(op[q])
  BY <1>1, <1>2 DEF Held
<1>4. Idle(q) => Held(q) = {}
  BY DEF Idle, Held, Owned, Erased
<1> QED BY <1>1, <1>3, <1>4

\* What a process knows outlives every step that keeps what it speaks of.
LEMMA Frame ==
  ASSUME NEW q \in Procs, Knows(q), Same(q), clean'[q] /\ ~Idle(q) => clean[q],
         clean'[q] /\ ~Idle(q) =>
           /\ \A n \in Touched(op[q]) : flash'[n] = flash[n]
           /\ Owned(q) \cap torn \subseteq torn'
           /\ \A n \in Held(q) : last'[n] = last[n]
  PROVE  Knows(q)'
<1> SUFFICES ASSUME clean'[q] PROVE Knows(q)'
  BY DEF Knows
<1>1. CASE Idle(q)
  <2>1. Owned(q)' = {}
    BY <1>1, SameSets, SetsTouched
  <2> QED BY <1>1, <2>1 DEF Knows, Same, Idle
<1>2. CASE ~Idle(q)
  <2>1. clean[q] /\ (\A n \in Touched(op[q]) : flash'[n] = flash[n])
        /\ Owned(q) \cap torn \subseteq torn' /\ \A n \in Held(q) : last'[n] = last[n]
    BY <1>2
  <2>2. Erased(q)' = Erased(q) /\ Owned(q)' = Owned(q)
    BY SameSets
  <2>3. pc'[q] = pc[q] /\ op'[q] = op[q] /\ blob'[q] = blob[q] /\ at'[q] = at[q]
    BY DEF Same
  <2>4. Owned(q)' \subseteq torn'
    BY <2>1, <2>2 DEF Knows
  <2>5. pc'[q] = "erase" => \A n \in Erased(q)' : flash'[n] = Blank
    BY <2>1, <2>2, <2>3, SetsTouched DEF Knows
  <2>6. pc'[q] \in {"erase", "write"} /\ op'[q].kind \in Updates =>
          \A n \in Touched(op'[q]) : blob'[q][n] = Effect(op'[q], n, last'[n])
    <3> SUFFICES ASSUME pc[q] \in {"erase", "write"}, op[q].kind \in Updates,
                        NEW n \in Touched(op[q])
                 PROVE  blob[q][n] = Effect(op[q], n, last'[n])
      BY <2>3
    <3>1. n \in Held(q)
      BY DEF Held, Owned, Erased
    <3> QED BY <2>1, <3>1 DEF Knows
  <2>7. pc'[q] = "write" => \A n \in Touched(op'[q]) :
          op'[q].kind \in Updates \/ at'[q] <= n => flash'[n] = Blank
    BY <2>1, <2>3 DEF Knows
  <2>8. pc'[q] = "verify" => \A n \in Touched(op'[q]) :
          /\ n < at'[q] => flash'[n] = InFile(q, n)'
          /\ op'[q].off + Len(op'[q].data) <= n => flash'[n] = Blank
    BY <2>1, <2>3 DEF Knows, InFile
  <2> QED BY <2>4, <2>5, <2>6, <2>7, <2>8 DEF Knows
<1> QED BY <1>1, <1>2

\* A step that changes only cells of the commands it belongs to.
LEMMA ChangedFrame ==
  ASSUME Inv, NEW p \in Procs, NEW C, NEW left, C \subseteq Touched(op[p]), left \subseteq C,
         Changed(p, C, left), flash' \in Content,
         \A n \in Cells : n \notin C => flash'[n] = flash[n],
         OthersSame(p)
  PROVE  /\ last' \in Content /\ torn' \subseteq Cells /\ clean' \in [Procs -> BOOLEAN]
         /\ clean'[p] = clean[p]
         /\ Untorn'
         /\ \A n \in Cells : n \notin C => last'[n] = last[n] /\ (n \in torn' <=> n \in torn)
         /\ \A n \in C : n \in torn' <=> n \in left
         /\ \A n \in C : last'[n] = IF n \in left THEN last[n] ELSE flash'[n]
         /\ \A q \in Procs : q # p =>
              /\ Knows(q)'
              /\ clean'[q] /\ ~Idle(q) => clean[q] /\ Touched(op[q]) \cap C = {}
<1>1. torn' = (torn \ C) \cup left
      /\ last' = [n \in Cells |-> IF n \in torn' THEN last[n] ELSE flash'[n]]
      /\ clean' = [q \in Procs |->
                 clean[q] /\ (q = p \/ Idle(q) \/ Touched(op[q]) \cap C = {})]
  BY DEF Changed
<1>2. C \subseteq Cells
  BY SetsTouched
<1>3. /\ last \in Content /\ torn \subseteq Cells /\ clean \in [Procs -> BOOLEAN]
      /\ \A n \in Cells : n \notin torn => flash[n] = last[n]
  BY DEF Inv, Types, TypeOK, Untorn
<1>4. last' \in Content /\ torn' \subseteq Cells /\ clean' \in [Procs -> BOOLEAN]
      /\ clean'[p] = clean[p]
  <2>1. last' \in Content
    BY <1>1, <1>3 DEF Content
  <2>2. torn' \subseteq Cells
    BY <1>1, <1>2, <1>3
  <2> QED BY <1>1, <1>3, <2>1, <2>2
<1>5. Untorn'
  BY <1>1 DEF Untorn
<1>6. ASSUME NEW n \in Cells, n \notin C
      PROVE  last'[n] = last[n] /\ (n \in torn' <=> n \in torn)
  BY <1>1, <1>3, <1>6
<1>7. \A n \in C : (n \in torn' <=> n \in left)
                   /\ last'[n] = IF n \in left THEN last[n] ELSE flash'[n]
  BY <1>1, <1>2
<1>8. ASSUME NEW q \in Procs, q # p
      PROVE  /\ Knows(q)'
             /\ clean'[q] /\ ~Idle(q) => clean[q] /\ Touched(op[q]) \cap C = {}
  <2>1. clean'[q] /\ ~Idle(q) => clean[q] /\ Touched(op[q]) \cap C = {}
    BY <1>1, <1>8
  <2>2. Knows(q) /\ Same(q)
    BY <1>8 DEF Inv, OthersSame
  <2>3. clean'[q] /\ ~Idle(q) =>
           /\ \A n \in Touched(op[q]) : flash'[n] = flash[n]
           /\ Owned(q) \cap torn \subseteq torn'
           /\ \A n \in Held(q) : last'[n] = last[n]
    <3> SUFFICES ASSUME clean'[q], ~Idle(q)
                 PROVE  /\ \A n \in Touched(op[q]) : flash'[n] = flash[n]
                        /\ Owned(q) \cap torn \subseteq torn'
                        /\ \A n \in Held(q) : last'[n] = last[n]
      OBVIOUS
    <3>1. \A n \in Touched(op[q]) : n \in Cells /\ n \notin C
      BY <2>1, SetsTouched
    <3> QED BY <1>6, <3>1, SetsTouched
  <2>4. Knows(q)'
    BY <2>1, <2>2, <2>3, Frame
  <2> QED BY <2>1, <2>4
<1> QED BY <1>4, <1>5, <1>6, <1>7, <1>8

\* A step that changes no cell.
LEMMA KeptFrame ==
  ASSUME Inv, NEW p \in Procs, Kept, OthersSame(p), \A q \in Procs : q # p => clean'[q] = clean[q]
  PROVE  Untorn' /\ \A q \in Procs : q # p => Knows(q)'
<1>1. Untorn'
  BY DEF Inv, Kept, Untorn
<1>2. ASSUME NEW q \in Procs, q # p PROVE Knows(q)'
  <2>1. Knows(q) /\ Same(q) /\ (clean'[q] => clean[q])
    BY <1>2 DEF Inv, OthersSame
  <2> QED BY <2>1, Frame DEF Kept
<1> QED BY <1>1, <1>2

\* Processes stay apart if the one that takes a step comes to own and to hold
\* nothing that is another's.
LEMMA ApartFrame ==
  ASSUME Inv, NEW p \in Procs, OthersSame(p),
         \A q \in Procs : q # p /\ ~Idle(q) /\ clean'[q] => clean[q],
         \A q \in Procs : q # p /\ ~Idle(q) /\ clean'[q] /\ clean'[p] =>
           Owned(p)' \cap Held(q) = {} /\ Owned(q) \cap Held(p)' = {}
  PROVE  Exclusive'
<1> SUFFICES ASSUME NEW q \in Procs, NEW r \in Procs, q # r, clean'[q], clean'[r]
             PROVE  Owned(q)' \cap Held(r)' = {}
  BY DEF Exclusive, Apart
<1>1. \A s \in Procs : s # p => Owned(s)' = Owned(s) /\ Held(s)' = Held(s)
  BY SameSets DEF OthersSame
<1>2. \A s \in Procs : Idle(s) => Owned(s) = {} /\ Held(s) = {}
  BY SetsTouched
<1>3. CASE q = p
  BY <1>1, <1>2, <1>3
<1>4. CASE r = p
  BY <1>1, <1>2, <1>4
<1>5. CASE q # p /\ r # p
  <2>1. CASE Idle(q) \/ Idle(r)
    BY <1>1, <1>2, <1>5, <2>1
  <2>2. CASE ~Idle(q) /\ ~Idle(r)
    <3>1. clean[q] /\ clean[r]
      BY <1>5, <2>2
    <3> QED BY <1>1, <1>5, <3>1 DEF Inv, Exclusive, Apart
  <2> QED BY <2>1, <2>2
<1> QED BY <1>3, <1>4, <1>5

-------------------------------------------------------------------------------
(* The types, and the ends of the tool.                                     *)

ToolType ==
  /\ pc \in [Procs -> {"idle", "get", "erase", "write", "verify"}]
  /\ op \in [Procs -> Commands \cup {NoCommand}]
  /\ at \in [Procs -> Nat]
  /\ status \in [Procs -> {"none", "ok", "error"}]
  /\ \A p \in Procs : Idle(p) <=> op[p] = NoCommand
  /\ blob = [p \in Procs |-> blob[p]]

LEMMA ToolTypeOf == ASSUME Types PROVE ToolType
BY DEF Types, TypeOK, ToolType

LEMMA Running ==
  ASSUME Types, NEW p \in Procs, ~Idle(p)
  PROVE  op[p] \in Commands /\ op[p] # NoCommand /\ ToolOK(p) /\ at[p] \in Nat
BY DEF Types, TypeOK

LEMMA FaultType == ASSUME Types, Fine \/ Fault PROVE faults' \in 0..MaxFaults
BY NvParmAssumption DEF Types, TypeOK, Fine, Fault

LEMMA SameTool == ASSUME NEW q \in Procs, ToolOK(q), Same(q) PROVE ToolOK(q)'
BY DEF Same, ToolOK, Idle

LEMMA OthersTool ==
  ASSUME Types, NEW p \in Procs, OthersSame(p), ToolOK(p)'
  PROVE  \A q \in Procs : ToolOK(q)'
BY SameTool DEF Types, OthersSame

LEMMA GotoTool ==
  ASSUME Types, NEW p \in Procs, ~Idle(p), NEW label \in {"get", "erase", "write", "verify"},
         Goto(p, label), NEW b, NEW a \in Nat,
         blob' = [blob EXCEPT ![p] = b], at' = [at EXCEPT ![p] = a]
  PROVE  /\ ToolType' /\ OthersSame(p)
         /\ pc'[p] = label /\ op' = op /\ blob'[p] = b /\ at'[p] = a
<1>1. ToolType
  BY ToolTypeOf
<1>2. pc' = [pc EXCEPT ![p] = label] /\ op' = op /\ status' = status
  BY DEF Goto
<1>3. OthersSame(p)
  BY <1>1, <1>2 DEF ToolType, OthersSame, Same
<1>4. blob' = [q \in Procs |-> blob'[q]] /\ blob'[p] = b
  BY <1>1 DEF ToolType
<1>5. \A q \in Procs : Idle(q)' <=> op'[q] = NoCommand
  BY <1>1, <1>2 DEF ToolType, Idle
<1> QED BY <1>1, <1>2, <1>3, <1>4, <1>5 DEF ToolType

LEMMA ExitTool ==
  ASSUME Types, NEW p \in Procs, NEW how \in {"ok", "error"}, Exit(p, how)
  PROVE  /\ ToolType' /\ OthersSame(p) /\ Idle(p)'
         /\ op' = [op EXCEPT ![p] = NoCommand]
         /\ \A q \in Procs : ToolOK(q)'
         /\ Owned(p)' = {} /\ Held(p)' = {} /\ Knows(p)'
<1>1. ToolType
  BY ToolTypeOf
<1>2. OthersSame(p)
  BY <1>1 DEF Exit, ToolType, OthersSame, Same
<1>3. Idle(p)' /\ op'[p] = NoCommand
  BY <1>1 DEF Exit, ToolType, Idle
<1>4. blob' = [q \in Procs |-> blob'[q]]
  BY <1>1 DEF ToolType, Exit
<1>5. \A q \in Procs : Idle(q)' <=> op'[q] = NoCommand
  BY <1>1, <1>2, <1>3 DEF ToolType, OthersSame, Same, Idle
<1>6. ToolType'
  BY <1>1, <1>4, <1>5 DEF ToolType, Exit
<1>7. ToolOK(p)'
  BY <1>3 DEF ToolOK, Idle
<1>8. Owned(p)' = {} /\ Held(p)' = {}
  BY <1>3 DEF Idle, Owned, Held, Erased
<1>9. Knows(p)'
  BY <1>3, <1>8 DEF Knows, Idle
<1> QED BY <1>2, <1>3, <1>6, <1>7, <1>8, <1>9, OthersTool DEF Exit

LEMMA TypesOf ==
  ASSUME ToolType', flash' \in Content, last' \in Content, torn' \subseteq Cells,
         clean' \in [Procs -> BOOLEAN], faults' \in 0..MaxFaults, \A q \in Procs : ToolOK(q)'
  PROVE  Types'
BY DEF ToolType, Types, TypeOK

LEMMA KeptTypes ==
  ASSUME Types, Kept
  PROVE  flash' \in Content /\ last' \in Content /\ torn' \subseteq Cells
BY DEF Types, TypeOK, Kept

\* The tool ends, and changed nothing.
LEMMA ExitKept ==
  ASSUME Inv, NEW p \in Procs, NEW how \in {"ok", "error"}, Exit(p, how), Kept, Fine \/ Fault,
         \A q \in Procs : q # p => clean'[q] = clean[q], clean' \in [Procs -> BOOLEAN]
  PROVE  Inv'
<1>1. Types
  BY DEF Inv
<1>2. Types'
  BY <1>1, ExitTool, KeptTypes, FaultType, TypesOf
<1>3. Untorn' /\ \A q \in Procs : Knows(q)'
  BY <1>1, ExitTool, KeptFrame
<1>4. Exclusive'
  BY <1>1, ExitTool, ApartFrame
<1> QED BY <1>2, <1>3, <1>4 DEF Inv

\* The tool ends with a step that changed cells of its command.
LEMMA ExitChanged ==
  ASSUME Inv, NEW p \in Procs, NEW how \in {"ok", "error"}, Exit(p, how), Fine \/ Fault,
         NEW C, NEW left, C \subseteq Touched(op[p]), left \subseteq C,
         Changed(p, C, left), flash' \in Content,
         \A n \in Cells : n \notin C => flash'[n] = flash[n]
  PROVE  Inv'
<1>1. Types
  BY DEF Inv
<1>2. OthersSame(p) /\ ToolType' /\ Owned(p)' = {} /\ Held(p)' = {} /\ Knows(p)'
      /\ \A q \in Procs : ToolOK(q)'
  BY <1>1, ExitTool
<1>3. /\ last' \in Content /\ torn' \subseteq Cells /\ clean' \in [Procs -> BOOLEAN]
      /\ Untorn'
      /\ \A q \in Procs : q # p => Knows(q)' /\ (clean'[q] /\ ~Idle(q) => clean[q])
  BY <1>2, ChangedFrame
<1>4. Types'
  BY <1>1, <1>2, <1>3, FaultType, TypesOf
<1>5. Exclusive'
  BY <1>2, <1>3, ApartFrame
<1> QED BY <1>2, <1>3, <1>4, <1>5 DEF Inv

-------------------------------------------------------------------------------
(* The invariant holds initially, and every step preserves it.              *)

LEMMA InitInv == ASSUME Init PROVE Inv
<1>1. Types
  BY NvParmAssumption DEF Init, Types, TypeOK, Idle, ToolOK, Content
<1>2. Untorn /\ \A p \in Procs : Knows(p)
  BY DEF Init, Untorn, Knows
<1>3. Exclusive
  BY DEF Init, Exclusive, Apart
<1> QED BY <1>1, <1>2, <1>3 DEF Inv

LEMMA InvokeInv == ASSUME Inv, NEW p \in Procs, Invoke(p) PROVE Inv'
<1>1. Idle(p) /\ Kept /\ clean' = [clean EXCEPT ![p] = TRUE] /\ (Fine \/ Fault)
  BY DEF Invoke
<1>2. Types /\ clean \in [Procs -> BOOLEAN]
  BY DEF Inv, Types, TypeOK
<1>3. clean' \in [Procs -> BOOLEAN] /\ \A q \in Procs : q # p => clean'[q] = clean[q]
  BY <1>1, <1>2
<1>4. ASSUME NEW how \in {"ok", "error"}, Exit(p, how) PROVE Inv'
  BY <1>1, <1>3, <1>4, ExitKept
<1>5. ASSUME NEW c \in Commands, Fine, Valid(c), Beyond(c) > First(c),
             pc' = [pc EXCEPT ![p] = FirstAccess(c)], op' = [op EXCEPT ![p] = c],
             status' = [status EXCEPT ![p] = "none"],
             at' = [at EXCEPT ![p] = First(c)], UNCHANGED blob
      PROVE  Inv'
  <2>1. ToolType
    BY <1>2, ToolTypeOf
  <2>2. c # NoCommand /\ First(c) \in Nat /\ c.kind \in Kinds /\ c.off \in Nat
    BY NvParmAssumption, FirstIs, CommandType
  <2>3. pc'[p] = FirstAccess(c) /\ op'[p] = c /\ at'[p] = First(c)
    BY <1>5, <2>1 DEF ToolType
  <2>4. FirstAccess(c) \in {"get", "erase"}
        /\ (FirstAccess(c) = "get" <=> c.kind \in Updates \cup Looks)
    BY DEF FirstAccess
  <2>5. OthersSame(p)
    BY <1>5, <2>1 DEF ToolType, OthersSame, Same
  <2>6. \A q \in Procs : Idle(q)' <=> op'[q] = NoCommand
    BY <2>1, <2>2, <2>3, <2>4, <2>5 DEF ToolType, OthersSame, Same, Idle
  <2>7. ToolType'
    <3>1. pc' \in [Procs -> {"idle", "get", "erase", "write", "verify"}]
      BY <1>5, <2>1, <2>4 DEF ToolType
    <3>2. op' \in [Procs -> Commands \cup {NoCommand}] /\ at' \in [Procs -> Nat]
          /\ status' \in [Procs -> {"none", "ok", "error"}]
      BY <1>5, <2>1, <2>2 DEF ToolType
    <3> QED BY <1>5, <2>1, <2>6, <3>1, <3>2 DEF ToolType
  <2>8. ToolOK(p)'
    <3>1. c.kind \in {"clear", "file"} => c.off % Per = 0
      BY <1>5 DEF Valid, ValidOffset
    <3>2. pc'[p] = "erase" => c.kind \in Changes /\ c.kind \notin Updates
      BY <2>2, <2>3, <2>4 DEF Changes
    <3>3. \E j \in Nat : First(c) = First(c) + j * Per
      <4>1. First(c) = First(c) + 0 * Per
        BY <2>2, LayoutAssumption
      <4> QED BY <4>1
    <3>4. First(c) < Beyond(c)
      BY <1>5
    <3>5. pc'[p] \in {"get", "erase"}
      BY <2>3, <2>4
    <3>6. pc'[p] = "get" => c.kind \in Updates \cup Looks
      BY <2>3, <2>4
    <3> QED BY <2>3, <3>1, <3>2, <3>3, <3>4, <3>5, <3>6 DEF ToolOK
  <2>9. Types'
    BY <1>1, <1>2, <1>3, <2>5, <2>7, <2>8, KeptTypes, FaultType, OthersTool, TypesOf
  <2>10. Erased(p)' = {}
    BY <2>2, <2>3, <2>4, LayoutAssumption DEF Erased, Touched, Cells
  <2>11. Owned(p)' = {} /\ Held(p)' = {}
    BY <2>2, <2>3, <2>4, <2>10 DEF Owned, Held
  <2>12. Knows(p)'
    BY <2>2, <2>3, <2>4, <2>10, <2>11 DEF Knows
  <2>13. Untorn' /\ \A q \in Procs : Knows(q)'
    BY <1>1, <1>3, <2>5, <2>12, KeptFrame
  <2>14. Exclusive'
    BY <1>3, <2>5, <2>11, ApartFrame
  <2> QED BY <2>9, <2>13, <2>14 DEF Inv
<1> QED BY <1>4, <1>5 DEF Invoke

LEMMA GetInv == ASSUME Inv, NEW p \in Procs, Get(p) PROVE Inv'
<1> DEFINE c == op[p]
           B == Reach(First(c), Per)
<1>1. pc[p] = "get" /\ Kept /\ clean' = [clean EXCEPT ![p] = (B \cap torn = {})]
      /\ (Fine \/ Fault)
  BY DEF Get
<1>2. Types /\ clean \in [Procs -> BOOLEAN] /\ ~Idle(p)
  BY <1>1 DEF Inv, Types, TypeOK, Idle
<1>3. clean' \in [Procs -> BOOLEAN] /\ (clean'[p] <=> B \cap torn = {})
      /\ \A q \in Procs : q # p => clean'[q] = clean[q]
  BY <1>1, <1>2
<1>4. ASSUME NEW how \in {"ok", "error"}, Exit(p, how) PROVE Inv'
  BY <1>1, <1>3, <1>4, ExitKept
<1>5. ASSUME Fine, B # {}, c.kind \in Updates,
             blob' = [blob EXCEPT ![p] = Modified(c, [n \in B |-> flash[n]])],
             Goto(p, "erase"), UNCHANGED at
      PROVE  Inv'
  <2>1. ToolType /\ c \in Commands /\ ToolOK(p) /\ at[p] = First(c) /\ at[p] \in Nat
    BY <1>1, <1>2, ToolTypeOf, Running DEF ToolOK
  <2>2. at' = [at EXCEPT ![p] = at[p]]
    BY <1>5, <2>1 DEF ToolType
  <2>3. /\ ToolType' /\ OthersSame(p) /\ pc'[p] = "erase" /\ op' = op /\ at'[p] = First(c)
        /\ blob'[p] = Modified(c, [n \in B |-> flash[n]])
    <3> DEFINE b == Modified(c, [n \in B |-> flash[n]])
    <3>1. blob' = [blob EXCEPT ![p] = b] /\ "erase" \in {"get", "erase", "write", "verify"}
      BY <1>5
    <3> HIDE DEF b
    <3>2. /\ ToolType' /\ OthersSame(p)
          /\ pc'[p] = "erase" /\ op' = op /\ blob'[p] = b /\ at'[p] = at[p]
      BY <1>2, <1>5, <2>1, <2>2, <3>1, GotoTool
    <3> QED BY <2>1, <3>2 DEF b
  <2>4. B = Touched(c) /\ Beyond(c) = First(c) + Per /\ B \subseteq Cells
    BY <1>5, <2>1, UpdatesBlock DEF Reach
  <2>5. ASSUME NEW n \in B PROVE blob'[p][n] = Effect(c, n, flash[n])
    BY <1>5, <2>3 DEF Modified, Effect, Updates
  <2>6. blob'[p] \in [B -> Entry]
    <3>1. \A n \in B : Effect(c, n, flash[n]) \in Entry
      <4>1. \A n \in B : flash[n] \in Entry
        BY <1>2, <2>4 DEF Types, TypeOK, Content
      <4>2. c.kind = "set" => c.data[1] \in Entry
        BY <2>1, CommandType
      <4>3. Blank \in Entry
        BY DEF Entry
      <4> QED BY <1>5, <4>1, <4>2, <4>3 DEF Effect, Updates
    <3>2. blob'[p] = [n \in B |-> blob'[p][n]]
      <4> DEFINE b == [n \in B |-> flash[n]]
      <4>1. ASSUME NEW e PROVE [b EXCEPT ![c.off] = e] = [n \in B |-> [b EXCEPT ![c.off] = e][n]]
        OBVIOUS
      <4>2. blob'[p] = [b EXCEPT ![c.off] = c.data[1]] \/ blob'[p] = [b EXCEPT ![c.off] = Blank]
        BY <1>5, <2>3 DEF Modified, Updates
      <4> QED BY <4>1, <4>2
    <3> QED BY <2>5, <3>1, <3>2
  <2>7. ToolOK(p)'
    <3>1. c.kind \in Changes /\ c.kind \notin {"clear", "file"}
      BY <1>5 DEF Updates, Changes, Kinds, Looks
    <3>2. First(c) = First(c) + 0 * Per /\ First(c) < Beyond(c)
      BY <2>1, <2>4, FirstIs, LayoutAssumption
    <3>3. \E j \in Nat : First(c) = First(c) + j * Per
      BY <3>2
    <3> QED BY <1>5, <2>3, <2>4, <2>6, <3>1, <3>2, <3>3 DEF ToolOK
  <2>8. Types'
    BY <1>1, <1>2, <1>3, <2>3, <2>7, KeptTypes, FaultType, OthersTool, TypesOf
  <2>9. Owned(p)' = {} /\ Erased(p)' = {} /\ Held(p)' = B
    <3>1. Erased(p)' = {}
      BY <2>1, <2>3, FirstIs DEF Erased, Touched, Cells
    <3>2. Owned(p)' = {}
      BY <3>1 DEF Owned
    <3> QED BY <1>5, <2>3, <2>4, <3>1, <3>2 DEF Held
  <2>10. Knows(p)'
    <3> SUFFICES ASSUME clean'[p] PROVE Knows(p)'
      BY DEF Knows
    <3>1. B \cap torn = {}
      BY <1>3
    <3>2. \A n \in B : flash[n] = last[n] /\ last'[n] = last[n]
      BY <1>1, <2>4, <3>1 DEF Inv, Untorn, Kept
    <3>3. \A n \in Touched(c) : blob'[p][n] = Effect(c, n, last'[n])
      BY <2>4, <2>5, <3>2
    <3> QED BY <2>3, <2>9, <3>3 DEF Knows
  <2>11. Untorn' /\ \A q \in Procs : Knows(q)'
    BY <1>1, <1>3, <2>3, <2>10, KeptFrame
  <2>12. Exclusive'
    <3>1. ASSUME NEW q \in Procs, q # p, ~Idle(q), clean'[q], clean'[p]
          PROVE  Owned(p)' \cap Held(q) = {} /\ Owned(q) \cap Held(p)' = {}
      <4>1. Owned(q) \subseteq torn /\ B \cap torn = {}
        BY <1>3, <3>1 DEF Inv, Knows
      <4> QED BY <2>9, <4>1
    <3> QED BY <1>3, <2>3, <3>1, ApartFrame
  <2> QED BY <2>8, <2>11, <2>12 DEF Inv
<1> QED BY <1>4, <1>5 DEF Get

\* The tool goes on after a step that changed cells of its command.
LEMMA GoesOn ==
  ASSUME Inv, NEW p \in Procs, ~Idle(p), Fine \/ Fault,
         NEW label \in {"get", "erase", "write", "verify"}, Goto(p, label),
         NEW a \in Nat, at' = [at EXCEPT ![p] = a], UNCHANGED blob,
         NEW C, NEW left, C \subseteq Touched(op[p]), left \subseteq C,
         Changed(p, C, left), flash' \in Content,
         \A n \in Cells : n \notin C => flash'[n] = flash[n],
         ToolOK(p)', clean[p] => Knows(p)',
         Owned(p)' \subseteq Owned(p) \cup C, Held(p)' \subseteq Held(p) \cup C
  PROVE  Inv'
<1>1. Types
  BY DEF Inv
<1>2. ToolType' /\ OthersSame(p)
  <2>1. blob' = [blob EXCEPT ![p] = blob[p]]
    BY <1>1, ToolTypeOf DEF ToolType
  <2> QED BY <1>1, <2>1, GotoTool
<1>3. /\ last' \in Content /\ torn' \subseteq Cells /\ clean' \in [Procs -> BOOLEAN]
      /\ clean'[p] = clean[p] /\ Untorn'
      /\ \A q \in Procs : q # p =>
           Knows(q)' /\ (clean'[q] /\ ~Idle(q) => clean[q] /\ Touched(op[q]) \cap C = {})
  BY <1>2, ChangedFrame
<1>4. Types'
  BY <1>1, <1>2, <1>3, FaultType, OthersTool, TypesOf
<1>5. Knows(p)'
  BY <1>3 DEF Knows
<1>6. Exclusive'
  <2>1. ASSUME NEW q \in Procs, q # p, ~Idle(q), clean'[q], clean'[p]
        PROVE  Owned(p)' \cap Held(q) = {} /\ Owned(q) \cap Held(p)' = {}
    <3>1. clean[p] /\ clean[q] /\ Touched(op[q]) \cap C = {}
      BY <1>3, <2>1
    <3>2. Owned(p) \cap Held(q) = {} /\ Owned(q) \cap Held(p) = {}
      BY <2>1, <3>1 DEF Inv, Exclusive, Apart
    <3>3. Owned(q) \subseteq Touched(op[q]) /\ Held(q) \subseteq Touched(op[q])
      BY SetsTouched
    <3> QED BY <3>1, <3>2, <3>3
  <2> QED BY <1>2, <1>3, <2>1, ApartFrame
<1> QED BY <1>3, <1>4, <1>5, <1>6 DEF Inv

LEMMA EraseInv == ASSUME Inv, NEW p \in Procs, Erase(p) PROVE Inv'
<1> DEFINE c == op[p]
           B == Reach(at[p], Per)
           left == IF c.kind = "clear" THEN {} ELSE B
<1>1. pc[p] = "erase" /\ ~Idle(p) /\ Types
  BY DEF Erase, Idle, Inv
<1>2. c \in Commands /\ ToolOK(p) /\ clean \in [Procs -> BOOLEAN] /\ flash \in Content
      /\ Blank \in Entry /\ Junk \in Entry
  BY <1>1, Running DEF Types, TypeOK, Entry
<1>3. /\ at[p] \in Nat /\ First(c) <= at[p] /\ at[p] + Per <= Beyond(c)
      /\ \E j \in Nat : at[p] + Per = First(c) + j * Per
      /\ B \subseteq Touched(c) /\ at[p] + Per \in Nat
  <2>1. /\ at[p] \in Nat /\ First(c) <= at[p] /\ at[p] + Per <= Beyond(c)
        /\ \E j \in Nat : at[p] + Per = First(c) + j * Per
        /\ B \subseteq Touched(c)
    BY <1>1, <1>2, BlockFits
  <2> QED BY <2>1, LayoutAssumption
<1>4. ASSUME NEW how \in {"ok", "error"}, Exit(p, how), B = {}, UNCHANGED <<flash, history>>, Fine
      PROVE  Inv'
  BY <1>2, <1>4, ExitKept DEF history, Kept
<1>5. ASSUME Fault, Changed(p, B, B), Exit(p, "error"),
             \/ UNCHANGED flash
             \/ \E e \in {Blank, Junk} :
                  flash' = [n \in Cells |-> IF n \in B THEN e ELSE flash[n]]
      PROVE  Inv'
  <2>1. flash' \in Content /\ \A n \in Cells : n \notin B => flash'[n] = flash[n]
    BY <1>2, <1>5 DEF Content
  <2> QED BY <1>3, <1>5, <2>1, ExitChanged
<1>6. ASSUME Fine, flash' = [n \in Cells |-> IF n \in B THEN Blank ELSE flash[n]],
             Changed(p, B, left), AfterErase(p)
      PROVE  Inv'
  <2>1. /\ flash' \in Content /\ \A n \in Cells : n \notin B => flash'[n] = flash[n]
        /\ \A n \in B : flash'[n] = Blank
        /\ left \subseteq B /\ (c.kind # "clear" => left = B)
    BY <1>2, <1>3, <1>6, SetsTouched DEF Content
  <2>2. torn' = (torn \ B) \cup left
        /\ \A n \in Cells : n \in torn' /\ n \in B => last'[n] = last[n]
    BY <1>6 DEF Changed
  <2> HIDE DEF left
  <2>3. CASE at[p] + Per < Beyond(c)
    <3>1. Goto(p, "erase") /\ at' = [at EXCEPT ![p] = at[p] + Per] /\ UNCHANGED blob
      BY <1>6, <2>3 DEF AfterErase
    <3>2. pc'[p] = "erase" /\ op' = op /\ at'[p] = at[p] + Per /\ blob' = blob
      BY <1>1, <3>1, ToolTypeOf DEF Goto, ToolType
    <3>3. c.kind \notin Updates
      <4> SUFFICES ASSUME c.kind \in Updates PROVE FALSE
        OBVIOUS
      <4>1. at[p] = First(c) /\ Beyond(c) = First(c) + Per /\ First(c) \in Nat
        BY <1>1, <1>2, UpdatesBlock, FirstIs DEF ToolOK
      <4> QED BY <2>3, <4>1, LayoutAssumption
    <3>4. ToolOK(p)'
      <4>1. c.kind \in {"clear", "file"} => c.off % Per = 0
        BY <1>1, <1>2 DEF ToolOK
      <4>2. c.kind \in Changes
        BY <1>1, <1>2 DEF ToolOK
      <4> QED BY <1>3, <2>3, <3>2, <3>3, <4>1, <4>2 DEF ToolOK
    <3>5. Erased(p)' \subseteq Erased(p) \cup B
      <4>1. Erased(p)' = {n \in Touched(c) : n < at[p] + Per}
        BY <3>2 DEF Erased
      <4>2. Erased(p) = {n \in Touched(c) : n < at[p]}
        BY <1>1 DEF Erased
      <4>3. \A n \in Cells : n < at[p] \/ at[p] <= n
        BY <1>3, LayoutAssumption DEF Cells
      <4> QED BY <4>1, <4>2, <4>3, SetsTouched DEF Reach
    <3>6. Owned(p)' = (IF c.kind = "clear" THEN {} ELSE Erased(p)') /\ Held(p)' = Owned(p)'
          /\ Owned(p) = (IF c.kind = "clear" THEN {} ELSE Erased(p)) /\ Owned(p) \subseteq Held(p)
      BY <1>1, <3>2, <3>3, SetsTouched DEF Owned, Held
    <3>7. ASSUME clean[p] PROVE Knows(p)'
      <4>1. Owned(p) \subseteq torn /\ \A n \in Erased(p) : flash[n] = Blank
        BY <1>1, <3>7 DEF Inv, Knows
      <4>2. Owned(p)' \subseteq torn'
        BY <2>1, <2>2, <3>5, <3>6, <4>1
      <4>3. \A n \in Erased(p)' : flash'[n] = Blank
        BY <2>1, <3>5, <4>1, SetsTouched
      <4> QED BY <3>2, <3>3, <4>2, <4>3 DEF Knows
    <3>8. Owned(p)' \subseteq Owned(p) \cup B /\ Held(p)' \subseteq Held(p) \cup B
      BY <3>5, <3>6
    <3>9. "erase" \in {"get", "erase", "write", "verify"}
      OBVIOUS
    <3> HIDE DEF B
    <3> QED BY <1>1, <1>3, <1>6, <2>1, <3>1, <3>4, <3>7, <3>8, <3>9, GoesOn
  <2>4. CASE ~(at[p] + Per < Beyond(c)) /\ c.kind = "clear"
    <3>1. Exit(p, "ok")
      BY <1>6, <2>4 DEF AfterErase
    <3> QED BY <1>3, <1>6, <2>1, <3>1, ExitChanged
  <2>5. CASE ~(at[p] + Per < Beyond(c)) /\ c.kind # "clear"
    <3>1. Goto(p, "write") /\ at' = [at EXCEPT ![p] = First(c)] /\ UNCHANGED blob
      BY <1>6, <2>5 DEF AfterErase
    <3>2. pc'[p] = "write" /\ op' = op /\ at'[p] = First(c) /\ blob' = blob
      BY <1>1, <3>1, ToolTypeOf DEF Goto, ToolType
    <3>3. Touched(c) = Erased(p) \cup B
      <4>1. Erased(p) = {n \in Touched(c) : n < at[p]}
        BY <1>1 DEF Erased
      <4>2. Beyond(c) = at[p] + Per
        <5>1. Beyond(c) \in Int
          <6>1. PICK k \in Nat : Beyond(c) = First(c) + k * Per
            BY <1>2, BeyondIs
          <6> QED BY <1>2, <6>1, FirstIs, LayoutAssumption
        <5> QED BY <1>3, <2>5, <5>1
      <4>3. \A n \in Cells : n < at[p] \/ at[p] <= n
        BY <1>3, LayoutAssumption DEF Cells
      <4> QED BY <1>3, <4>1, <4>2, <4>3 DEF Reach, Touched
    <3>4. c.kind \in Updates \cup {"file"}
      BY <1>1, <1>2, <2>5 DEF ToolOK, Changes, Kinds, Updates, Looks
    <3>5. c.kind = "file" => First(c) = c.off /\ c.off \in Nat /\ Len(c.data) \in Nat
                             /\ c.off % Per = 0
      BY <1>1, <1>2, FirstIs, CommandType DEF ToolOK
    <3>6. c.kind \in Updates => blob[p] \in [Touched(c) -> Entry]
      BY <1>1, <1>2 DEF ToolOK
    <3>7. ToolOK(p)'
      BY <2>5, <3>2, <3>4, <3>5, <3>6 DEF ToolOK
    <3>8. Owned(p)' = Touched(c) /\ Held(p)' = Touched(c) /\ Erased(p)' = Touched(c)
      BY <3>2 DEF Erased, Owned, Held
    <3>9. Owned(p) = Erased(p) /\ Owned(p) \subseteq Held(p)
      BY <1>1, <2>5, SetsTouched DEF Owned
    <3>10. ASSUME clean[p] PROVE Knows(p)'
      <4>1. /\ Owned(p) \subseteq torn /\ \A n \in Erased(p) : flash[n] = Blank
            /\ c.kind \in Updates =>
                 \A n \in Touched(c) : blob[p][n] = Effect(c, n, last[n])
        BY <1>1, <3>10 DEF Inv, Knows
      <4>2. Touched(c) \subseteq torn'
        BY <2>1, <2>2, <2>5, <3>3, <3>9, <4>1
      <4>3. \A n \in Touched(c) : flash'[n] = Blank
        BY <2>1, <3>3, <4>1, SetsTouched
      <4>4. c.kind \in Updates => \A n \in Touched(c) : last'[n] = last[n]
        <5> SUFFICES ASSUME c.kind \in Updates PROVE \A n \in Touched(c) : last'[n] = last[n]
          OBVIOUS
        <5>1. Touched(c) = B
          BY <1>1, <1>2, UpdatesBlock DEF ToolOK
        <5> QED BY <2>2, <4>2, <5>1, SetsTouched
      <4> QED BY <3>2, <3>8, <4>1, <4>2, <4>3, <4>4 DEF Knows
    <3>11. Owned(p)' \subseteq Owned(p) \cup B /\ Held(p)' \subseteq Held(p) \cup B
      BY <3>3, <3>8, <3>9
    <3>12. "write" \in {"get", "erase", "write", "verify"} /\ First(c) \in Nat
      BY <1>2, FirstIs
    <3> HIDE DEF B
    <3> QED BY <1>1, <1>3, <1>6, <2>1, <3>1, <3>7, <3>10, <3>11, <3>12, GoesOn
  <2> QED BY <2>3, <2>4, <2>5
<1> QED BY <1>4, <1>5, <1>6 DEF Erase

LEMMA WriteBlockInv == ASSUME Inv, NEW p \in Procs, WriteBlock(p) PROVE Inv'
<1> DEFINE c == op[p]
           B == Reach(First(c), Per)
           new(n) == blob[p][n]
<1>1. pc[p] = "write" /\ c.kind \in Updates /\ ~Idle(p) /\ Types /\ flash \in Content
  BY DEF WriteBlock, Idle, Inv, Types, TypeOK
<1>2. c \in Commands /\ blob[p] \in [Touched(c) -> Entry] /\ First(c) \in Nat
  BY <1>1, Running, FirstIs DEF ToolOK
<1>3. Touched(c) = B /\ B \subseteq Cells /\ Junk \in Entry
  BY <1>1, <1>2, UpdatesBlock, SetsTouched DEF Entry
<1>4. ASSUME NEW C, C \subseteq B
      PROVE  Written(C, new) \in Content /\ \A n \in Cells : n \notin C => Written(C, new)[n] = flash[n]
  <2>1. \A n \in C : n \in Cells /\ flash[n] \in Entry /\ new(n) \in Entry
    BY <1>1, <1>2, <1>3, <1>4 DEF Content
  <2>2. \A n \in C : Stored(flash[n], new(n)) \in Entry
    BY <2>1, StoredType
  <2> QED BY <1>1, <2>2 DEF Written, Content
<1>5. CASE /\ Fine /\ flash' = Written(B, new)
           /\ Changed(p, B, IF clean[p] THEN {} ELSE B) /\ Exit(p, "ok")
  <2>1. flash' \in Content /\ \A n \in Cells : n \notin B => flash'[n] = flash[n]
    BY <1>4, <1>5
  <2> DEFINE left == IF clean[p] THEN {} ELSE B
  <2>2. left \subseteq B /\ Changed(p, B, left) /\ B \subseteq Touched(c)
    BY <1>3, <1>5
  <2> HIDE DEF left, B, c
  <2> QED BY <1>5, <2>1, <2>2, ExitChanged DEF c
<1>6. CASE /\ Fault
           /\ \E k \in 0..Per - 1 : flash' = Written(Reach(First(c), k), new)
           /\ Changed(p, B, B) /\ (Exit(p, "ok") \/ Exit(p, "error"))
  <2>1. PICK k \in 0..Per - 1 : flash' = Written(Reach(First(c), k), new)
    BY <1>6
  <2>2. Reach(First(c), k) \subseteq B
    BY <1>2, LayoutAssumption DEF Reach, Cells
  <2>3. flash' \in Content /\ \A n \in Cells : n \notin B => flash'[n] = flash[n]
    BY <1>4, <2>1, <2>2
  <2> QED BY <1>3, <1>6, <2>3, ExitChanged
<1>7. CASE /\ Fault
           /\ \E bad \in B : flash' = [Written(B, new) EXCEPT ![bad] = Junk]
           /\ Changed(p, B, B) /\ Exit(p, "ok")
  <2>1. PICK bad \in B : flash' = [Written(B, new) EXCEPT ![bad] = Junk]
    BY <1>7
  <2>2. flash' \in Content /\ \A n \in Cells : n \notin B => flash'[n] = flash[n]
    BY <1>3, <1>4, <2>1 DEF Content
  <2> QED BY <1>3, <1>7, <2>2, ExitChanged
<1> HIDE DEF new
<1> QED BY <1>5, <1>6, <1>7, Zenon DEF WriteBlock, new

-------------------------------------------------------------------------------
(* Writing and verifying a file.                                            *)

\* The buffer of the file that a process has come to.
LEMMA ChunkIs ==
  ASSUME Types, NEW p \in Procs, pc[p] \in {"write", "verify"}, op[p].kind = "file"
  PROVE  /\ op[p] \in Commands /\ ToolOK(p) /\ ~Idle(p)
         /\ op[p].off \in Nat /\ Len(op[p].data) \in Nat /\ at[p] \in Nat /\ BufSize \in Nat \ {0}
         /\ First(op[p]) = op[p].off /\ op[p].off <= at[p]
         /\ at[p] <= op[p].off + Len(op[p].data)
         /\ Chunk(p) \subseteq Touched(op[p])
         /\ \A n \in Chunk(p) : /\ at[p] <= n /\ n < at[p] + BufSize
                                /\ n < op[p].off + Len(op[p].data)
                                /\ InFile(p, n) \in Entry
         /\ \A n \in Touched(op[p]) :
              at[p] <= n /\ n < at[p] + BufSize /\ n < op[p].off + Len(op[p].data) => n \in Chunk(p)
<1> DEFINE c == op[p]
<1>1. ~Idle(p)
  BY DEF Idle
<1>2. c \in Commands /\ ToolOK(p) /\ at[p] \in Nat
  BY <1>1, Running
<1>3. c.off \in Nat /\ Len(c.data) \in Nat /\ c.data \in Seq(Entry) /\ BufSize \in Nat \ {0}
  BY <1>2, CommandType, NvParmAssumption
<1>4. First(c) = c.off /\ c.off <= at[p] /\ at[p] <= c.off + Len(c.data)
  BY <1>1, <1>2, FirstIs DEF ToolOK
<1>5. c.off + Len(c.data) <= Beyond(c) /\ Beyond(c) \in Int
  <2>1. PICK k \in Nat : Beyond(c) = First(c) + k * Per
    BY <1>2, BeyondIs
  <2>2. Beyond(c) \in Int
    BY <1>2, <2>1, FirstIs, LayoutAssumption
  <2>3. Length(c) = Len(c.data)
    BY DEF Length
  <2> QED BY <1>2, <1>4, <2>2, <2>3, BeyondIs
<1>6. \A n \in Chunk(p) : /\ n \in Cells /\ at[p] <= n /\ n < at[p] + BufSize
                          /\ n < c.off + Len(c.data)
  <2> DEFINE left == c.off + Len(c.data) - at[p]
             k == IF left < BufSize THEN left ELSE BufSize
  <2>1. left \in Int /\ k \in Int /\ k <= left /\ k <= BufSize /\ at[p] + left = c.off + Len(c.data)
    <3> HIDE DEF c
    <3>1. c.off \in Nat /\ Len(c.data) \in Nat /\ BufSize \in Nat /\ at[p] \in Nat
      BY <1>2, <1>3
    <3>2. left \in Int /\ at[p] + left = c.off + Len(c.data)
      BY <3>1
    <3> HIDE DEF left
    <3> QED BY <3>1, <3>2
  <2>2. Chunk(p) = Reach(at[p], k)
    BY DEF Chunk
  <2> HIDE DEF left, k
  <2> QED BY <1>2, <1>3, <2>1, <2>2, LayoutAssumption DEF Reach, Cells
<1>7. ASSUME NEW n \in Chunk(p) PROVE InFile(p, n) \in Entry /\ n \in Touched(c)
  <2>1. n \in Cells /\ n \in Int /\ c.off <= n /\ n < c.off + Len(c.data)
    <3>1. n \in Cells /\ at[p] <= n /\ n < c.off + Len(c.data)
      BY <1>6
    <3>2. n \in Int
      BY <3>1 DEF Cells
    <3> QED BY <1>2, <1>3, <1>4, <3>1, <3>2
  <2>2. n - c.off + 1 \in 1..Len(c.data)
    <3> HIDE DEF c
    <3>1. c.off \in Nat /\ Len(c.data) \in Nat
      BY <1>3
    <3> QED BY <2>1, <3>1
  <2>3. n \in Touched(c)
    BY <1>3, <1>4, <1>5, <2>1 DEF Touched
  <2> QED BY <1>3, <2>2, <2>3 DEF InFile
<1>8. \A n \in Touched(c) :
        at[p] <= n /\ n < at[p] + BufSize /\ n < c.off + Len(c.data) => n \in Chunk(p)
  BY <1>2, <1>3 DEF Chunk, Reach, Touched, Cells
<1> QED BY <1>1, <1>2, <1>3, <1>4, <1>6, <1>7, <1>8

LEMMA WrittenChunk ==
  ASSUME Types, NEW p \in Procs, pc[p] = "write", op[p].kind = "file",
         NEW C, C \subseteq Chunk(p)
  PROVE  LET new(n) == InFile(p, n) IN
         /\ Written(C, new) \in Content
         /\ \A n \in Cells : n \notin C => Written(C, new)[n] = flash[n]
<1> DEFINE new(n) == InFile(p, n)
<1>1. flash \in Content
  BY DEF Types, TypeOK
<1>2. \A n \in C : n \in Cells /\ flash[n] \in Entry /\ new(n) \in Entry
  BY <1>1, ChunkIs, SetsTouched DEF Content
<1>3. \A n \in C : Stored(flash[n], new(n)) \in Entry
  BY <1>2, StoredType
<1> HIDE DEF new
<1>4. Written(C, new) \in Content
  BY <1>1, <1>3 DEF Written, Content
<1>5. \A n \in Cells : n \notin C => Written(C, new)[n] = flash[n]
  BY DEF Written
<1> USE DEF new
<1> QED BY <1>4, <1>5

\* What the tool holds while it writes or verifies.
LEMMA FileSets ==
  ASSUME NEW p \in Procs, pc[p] \in {"write", "verify"}
  PROVE  Erased(p) = Touched(op[p]) /\ Owned(p) = Touched(op[p])
         /\ (op[p].kind = "file" => Held(p) = Touched(op[p]))
BY DEF Erased, Owned, Held

LEMMA WriteChunkInv == ASSUME Inv, NEW p \in Procs, WriteChunk(p) PROVE Inv'
<1> DEFINE c == op[p]
           C == Chunk(p)
           new(n) == InFile(p, n)
           b == IF IsLast(p) THEN c.off ELSE at[p] + BufSize
           label == IF IsLast(p) THEN "verify" ELSE "write"
<1>1. pc[p] = "write" /\ c.kind = "file" /\ Types /\ (Fine \/ Fault) /\ Changed(p, C, C)
  BY DEF WriteChunk, Inv
<1>2. /\ c \in Commands /\ ToolOK(p) /\ ~Idle(p)
      /\ c.off \in Nat /\ Len(c.data) \in Nat /\ at[p] \in Nat /\ BufSize \in Nat \ {0}
      /\ First(c) = c.off /\ C \subseteq Touched(c)
      /\ \A n \in C : at[p] <= n /\ n < at[p] + BufSize /\ n < c.off + Len(c.data)
      /\ c.off <= at[p] /\ at[p] <= c.off + Len(c.data) /\ c.off % Per = 0
  BY <1>1, ChunkIs DEF ToolOK
<1>3. flash' \in Content /\ \A n \in Cells : n \notin C => flash'[n] = flash[n]
  <2>1. Written(C, new) \in Content /\ \A n \in Cells : n \notin C => Written(C, new)[n] = flash[n]
    BY <1>1, WrittenChunk
  <2>2. C \subseteq Cells /\ Junk \in Entry
    BY <1>2, SetsTouched DEF Entry
  <2>3. flash' = Written(C, new) \/ \E bad \in C : flash' = [Written(C, new) EXCEPT ![bad] = Junk]
    BY DEF WriteChunk
  <2> HIDE DEF C
  <2> QED BY <2>1, <2>2, <2>3 DEF Content
<1>4. Goto(p, label) /\ at' = [at EXCEPT ![p] = b] /\ UNCHANGED blob
  BY DEF WriteChunk
<1>5. label \in {"write", "verify"} /\ b \in Nat /\ c.off <= b /\ b <= c.off + Len(c.data)
      /\ (label = "verify" => b = c.off) /\ (label = "write" => b = at[p] + BufSize)
  BY <1>2 DEF IsLast
<1> HIDE DEF label, b
<1>6. pc'[p] = label /\ op' = op /\ at'[p] = b /\ blob' = blob
  BY <1>1, <1>4, ToolTypeOf DEF Goto, ToolType
<1>7. ToolOK(p)'
  <2>1. "file" \notin Updates
    BY DEF Updates
  <2> QED BY <1>1, <1>2, <1>5, <1>6, <2>1 DEF ToolOK
<1>8. Owned(p)' = Touched(c) /\ Held(p)' = Touched(c) /\ Owned(p) = Touched(c) /\ Held(p) = Touched(c)
      /\ Erased(p)' = Touched(c)
  <2>1. pc[p] \in {"write", "verify"} /\ pc'[p] \in {"write", "verify"}
    BY <1>1, <1>5, <1>6
  <2>2. Erased(p)' = Touched(c)
    BY <1>6, <2>1 DEF Erased
  <2>3. Owned(p)' = Touched(c) /\ Held(p)' = Touched(c)
    BY <1>6, <2>1, <2>2 DEF Owned, Held
  <2> QED BY <1>1, <2>1, <2>2, <2>3, FileSets
<1>9. ASSUME clean[p] PROVE Knows(p)'
  <2>1. Touched(c) \subseteq torn
        /\ \A n \in Touched(c) : at[p] <= n => flash[n] = Blank
    BY <1>1, <1>8, <1>9 DEF Inv, Knows, Updates
  <2>2. Owned(p)' \subseteq torn'
    BY <1>1, <1>8, <2>1 DEF Changed
  <2>3. \A n \in Touched(c) : n \in Int /\ n \in Cells /\ c.off <= n
    BY <1>2, LayoutAssumption DEF Touched, Cells
  <2>4. \A n \in Touched(c) : label = "write" /\ b <= n => flash'[n] = Blank
    <3> SUFFICES ASSUME NEW n \in Touched(c), label = "write", b <= n PROVE flash'[n] = Blank
      OBVIOUS
    <3>1. n \notin C /\ at[p] <= n
      BY <1>2, <1>5, <2>3
    <3> QED BY <1>3, <2>1, <2>3, <3>1
  <2>5. \A n \in Touched(c) : c.off + Len(c.data) <= n => flash'[n] = Blank
    <3> SUFFICES ASSUME NEW n \in Touched(c), c.off + Len(c.data) <= n PROVE flash'[n] = Blank
      OBVIOUS
    <3>1. n \notin C /\ at[p] <= n
      BY <1>2, <2>3
    <3> QED BY <1>3, <2>1, <2>3, <3>1
  <2>6. \A n \in Touched(c) : label = "verify" => ~(n < b)
    BY <1>2, <1>5, <2>3
  <2> QED BY <1>1, <1>5, <1>6, <2>2, <2>4, <2>5, <2>6 DEF Knows, Updates
<1>10. label \in {"get", "erase", "write", "verify"}
  BY <1>5
<1> HIDE DEF C
<1> QED BY <1>1, <1>2, <1>3, <1>4, <1>5, <1>7, <1>8, <1>9, <1>10, GoesOn

LEMMA WriteChunkFailsInv == ASSUME Inv, NEW p \in Procs, WriteChunkFails(p) PROVE Inv'
<1> DEFINE new(n) == InFile(p, n)
<1>1. pc[p] = "write" /\ op[p].kind = "file" /\ Fault /\ Exit(p, "error") /\ Types
  BY DEF WriteChunkFails, Inv
<1>2. PICK k \in 0..BufSize - 1 :
        /\ flash' = Written(Chunk(p) \cap Reach(at[p], k), new)
        /\ Changed(p, Chunk(p) \cap Reach(at[p], k), Chunk(p) \cap Reach(at[p], k))
  BY DEF WriteChunkFails
<1> DEFINE C == Chunk(p) \cap Reach(at[p], k)
<1>3. C \subseteq Chunk(p) /\ Chunk(p) \subseteq Touched(op[p])
  BY <1>1, ChunkIs
<1>4. flash' = Written(C, new) /\ Changed(p, C, C)
  BY <1>2
<1> HIDE DEF C
<1>5. flash' \in Content /\ \A n \in Cells : n \notin C => flash'[n] = flash[n]
  BY <1>1, <1>3, <1>4, WrittenChunk
<1>6. C \subseteq Touched(op[p])
  BY <1>3
<1> QED BY <1>1, <1>4, <1>5, <1>6, ExitChanged

\* A buffer that was compared, of a process that nobody crossed.
LEMMA ComparedIs ==
  ASSUME Inv, NEW p \in Procs, VerifyChunk(p), clean[p]
  PROVE  \A n \in Touched(op[p]) :
           n < at[p] + BufSize \/ op[p].off + Len(op[p].data) <= n =>
             flash[n] = IF n < op[p].off + Len(op[p].data) THEN InFile(p, n) ELSE Blank
<1> DEFINE c == op[p]
<1>1. Types /\ pc[p] = "verify" /\ \A n \in Chunk(p) : flash[n] = InFile(p, n)
  BY DEF Inv, VerifyChunk
<1>2. c.kind = "file"
  BY <1>1, Running DEF ToolOK, Idle
<1>3. /\ c.off \in Nat /\ Len(c.data) \in Nat /\ at[p] \in Nat /\ BufSize \in Nat
      /\ \A n \in Touched(c) :
           at[p] <= n /\ n < at[p] + BufSize /\ n < c.off + Len(c.data) => n \in Chunk(p)
  BY <1>1, <1>2, ChunkIs
<1>4. \A n \in Touched(c) : /\ n < at[p] => flash[n] = InFile(p, n)
                            /\ c.off + Len(c.data) <= n => flash[n] = Blank
  BY <1>1 DEF Inv, Knows
<1>5. \A n \in Touched(c) : n \in Int
  BY LayoutAssumption DEF Touched, Cells
<1> HIDE DEF c
<1>6. ASSUME NEW n \in Touched(c), n < at[p] + BufSize \/ c.off + Len(c.data) <= n
      PROVE  flash[n] = IF n < c.off + Len(c.data) THEN InFile(p, n) ELSE Blank
  <2>1. n \in Int
    BY <1>5
  <2>2. CASE c.off + Len(c.data) <= n
    BY <1>3, <1>4, <2>1, <2>2
  <2>3. CASE n < c.off + Len(c.data)
    <3>1. flash[n] = InFile(p, n)
      BY <1>1, <1>3, <1>4, <1>6, <2>1, <2>3
    <3> QED BY <2>3, <3>1
  <2> QED BY <1>3, <2>1, <2>2, <2>3
<1> USE DEF c
<1> QED BY <1>6

LEMMA VerifyChunkInv == ASSUME Inv, NEW p \in Procs, VerifyChunk(p) PROVE Inv'
<1> DEFINE c == op[p]
<1>1. pc[p] = "verify" /\ UNCHANGED <<flash, clean>> /\ Fine /\ Types
  BY DEF VerifyChunk, Inv
<1>2. c.kind = "file" /\ ~Idle(p)
  BY <1>1, Running DEF ToolOK, Idle
<1>3. /\ c \in Commands /\ ToolOK(p) /\ c.off \in Nat /\ Len(c.data) \in Nat
      /\ at[p] \in Nat /\ BufSize \in Nat \ {0} /\ First(c) = c.off
      /\ c.off <= at[p] /\ at[p] <= c.off + Len(c.data)
  BY <1>1, <1>2, ChunkIs
<1>4. Owned(p) = Touched(c) /\ Held(p) = Touched(c)
  BY <1>1, <1>2, FileSets
<1>5. flash \in Content /\ last \in Content /\ torn \subseteq Cells /\ clean \in [Procs -> BOOLEAN]
  BY <1>1 DEF Types, TypeOK
<1>6. CASE IsLast(p)
  <2>1. Exit(p, "ok")
        /\ torn' = (IF clean[p] THEN torn \ Touched(c) ELSE torn)
        /\ last' = [n \in Cells |-> IF n \in torn' THEN last[n] ELSE flash[n]]
    BY <1>6 DEF VerifyChunk
  <2>2. OthersSame(p) /\ ToolType' /\ Owned(p)' = {} /\ Held(p)' = {} /\ Knows(p)'
        /\ \A q \in Procs : ToolOK(q)'
    BY <1>1, <2>1, ExitTool
  <2>3. last' \in Content /\ torn' \subseteq Cells
    BY <1>5, <2>1 DEF Content
  <2>4. Types'
    BY <1>1, <1>5, <2>2, <2>3, FaultType, TypesOf
  <2>5. Untorn'
    BY <1>1, <2>1 DEF Untorn
  <2>6. ASSUME NEW q \in Procs, q # p PROVE Knows(q)'
    <3>1. Knows(q) /\ Same(q) /\ clean'[q] = clean[q]
      BY <1>1, <2>2, <2>6 DEF Inv, OthersSame
    <3>2. ASSUME clean[q]
          PROVE  /\ Owned(q) \cap torn \subseteq torn'
                 /\ \A n \in Held(q) : last'[n] = last[n]
      <4>1. clean[p] => Touched(c) \cap Held(q) = {} /\ Owned(q) \cap Touched(c) = {}
        BY <1>4, <2>6, <3>2 DEF Inv, Exclusive, Apart
      <4>2. \A n \in Held(q) : n \in Cells
        BY SetsTouched
      <4>3. \A n \in Held(q) : n \in torn => n \in torn'
        BY <2>1, <4>1
      <4>4. \A n \in Cells : n \notin torn => flash[n] = last[n]
        BY DEF Inv, Untorn
      <4> QED BY <2>1, <4>1, <4>2, <4>3, <4>4
    <3>3. \A n \in Touched(op[q]) : flash'[n] = flash[n]
      BY <1>1
    <3> QED BY <3>1, <3>2, <3>3, Frame
  <2>7. Exclusive'
    <3>1. \A q \in Procs : q # p /\ ~Idle(q) /\ clean'[q] => clean[q]
      BY <1>1
    <3> QED BY <2>2, <3>1, ApartFrame
  <2> QED BY <2>2, <2>4, <2>5, <2>6, <2>7 DEF Inv
<1>7. CASE ~IsLast(p)
  <2>1. at' = [at EXCEPT ![p] = at[p] + BufSize] /\ Goto(p, "verify") /\ UNCHANGED blob /\ Kept
    BY <1>1, <1>7 DEF VerifyChunk, Kept
  <2>2. at[p] + BufSize \in Nat /\ at[p] + BufSize < c.off + Len(c.data)
    <3> HIDE DEF c
    <3>1. c.off \in Nat /\ Len(c.data) \in Nat /\ ~(at[p] + BufSize >= c.off + Len(c.data))
      BY <1>3, <1>7 DEF IsLast, c
    <3> QED BY <1>3, <3>1
  <2>3. ToolType' /\ OthersSame(p) /\ pc'[p] = "verify" /\ op' = op /\ at'[p] = at[p] + BufSize
    <3>1. blob' = [blob EXCEPT ![p] = blob[p]] /\ "verify" \in {"get", "erase", "write", "verify"}
      BY <1>1, <2>1, ToolTypeOf DEF ToolType
    <3> QED BY <1>1, <1>2, <2>1, <2>2, <3>1, GotoTool
  <2>4. ToolOK(p)'
    <3>1. c.off <= at[p] + BufSize /\ at[p] + BufSize <= c.off + Len(c.data)
      <4> HIDE DEF c
      <4>1. c.off \in Nat /\ Len(c.data) \in Nat /\ c.off <= at[p]
        BY <1>3
      <4> QED BY <1>3, <2>2, <4>1
    <3> QED BY <1>2, <1>3, <2>3, <3>1 DEF ToolOK
  <2>5. Types'
    BY <1>1, <1>5, <2>1, <2>3, <2>4, KeptTypes, FaultType, OthersTool, TypesOf
  <2>6. Owned(p)' = Owned(p) /\ Held(p)' = Held(p) /\ Erased(p)' = Touched(c)
    <3>1. Erased(p)' = Touched(c)
      BY <2>3 DEF Erased
    <3> QED BY <1>4, <2>3, <3>1 DEF Owned, Held
  <2>7. Knows(p)'
    <3> SUFFICES ASSUME clean[p] PROVE Knows(p)'
      BY <1>1 DEF Knows
    <3>1. \A n \in Touched(c) : n < at[p] + BufSize \/ c.off + Len(c.data) <= n =>
            flash[n] = IF n < c.off + Len(c.data) THEN InFile(p, n) ELSE Blank
      BY ComparedIs
    <3>2. \A n \in Touched(c) : n \in Int
      BY LayoutAssumption DEF Touched, Cells
    <3>3. \A n \in Touched(c) : /\ n < at[p] + BufSize => flash[n] = InFile(p, n)
                                /\ c.off + Len(c.data) <= n => flash[n] = Blank
      <4> HIDE DEF c
      <4>1. c.off \in Nat /\ Len(c.data) \in Nat
        BY <1>3
      <4> QED BY <1>3, <2>2, <3>1, <3>2, <4>1
    <3>4. Touched(c) \subseteq torn
      BY <1>4 DEF Inv, Knows
    <3>5. InFile(p, 0)' = InFile(p, 0) /\ \A n : InFile(p, n)' = InFile(p, n)
      BY <2>3 DEF InFile
    <3> QED BY <1>1, <1>4, <2>1, <2>3, <2>6, <3>3, <3>4, <3>5 DEF Knows, Kept
  <2>8. Untorn' /\ \A q \in Procs : Knows(q)'
    BY <1>1, <2>1, <2>3, <2>7, KeptFrame
  <2>9. Exclusive'
    <3>1. \A q \in Procs : q # p /\ ~Idle(q) /\ clean'[q] => clean[q]
      BY <1>1
    <3>2. \A q \in Procs : q # p /\ clean'[q] /\ clean'[p] =>
             Owned(p) \cap Held(q) = {} /\ Owned(q) \cap Held(p) = {}
      BY <1>1 DEF Inv, Exclusive, Apart
    <3> QED BY <2>3, <2>6, <3>1, <3>2, ApartFrame
  <2> QED BY <2>5, <2>8, <2>9 DEF Inv
<1> QED BY <1>6, <1>7

LEMMA VerifyFailsInv == ASSUME Inv, NEW p \in Procs, VerifyFails(p) PROVE Inv'
BY ExitKept DEF VerifyFails, Inv, Types, TypeOK, history, Kept

LEMMA KillInv == ASSUME Inv, NEW p \in Procs, Kill(p) PROVE Inv'
BY ExitKept DEF Kill, Inv, Types, TypeOK, history, Kept

LEMMA StepInv == ASSUME Inv, [Next]_vars PROVE Inv'
<1>1. ASSUME NEW p \in Procs, Step(p) PROVE Inv'
  BY <1>1, InvokeInv, GetInv, EraseInv, WriteBlockInv, WriteChunkInv, WriteChunkFailsInv,
     VerifyChunkInv, VerifyFailsInv, KillInv DEF Step
<1>2. CASE UNCHANGED vars
  <2>1. \A p \in Procs : Same(p) /\ clean'[p] = clean[p]
    BY <1>2 DEF Same, vars, tool, history
  <2>2. ToolType' /\ \A p \in Procs : ToolOK(p)'
    BY <1>2, <2>1, ToolTypeOf, SameTool DEF Inv, Types, vars, tool, ToolType, Idle
  <2>3. Types'
    BY <1>2, <2>2, TypesOf DEF Inv, Types, TypeOK, vars, tool, history
  <2>4. \A p \in Procs : Knows(p)'
    BY <1>2, <2>1, Frame DEF Inv, vars, history
  <2>5. Untorn'
    BY <1>2 DEF Inv, Untorn, vars, history
  <2>6. Exclusive'
    BY <1>2, <2>1, SameSets DEF Inv, Exclusive, Apart, vars, history
  <2> QED BY <2>3, <2>4, <2>5, <2>6 DEF Inv
<1> QED BY <1>1, <1>2 DEF Next

LEMMA AlwaysInv == Spec => []Inv
BY InitInv, StepInv, PTL DEF Spec

\* Whatever is set, erased, written and killed, the tool and the flash keep
\* their types (main).
THEOREM NvParmTypes == Spec => []TypeOK
<1>1. Inv => TypeOK
  BY DEF Inv, Types
<1> QED BY <1>1, AlwaysInv, PTL

-------------------------------------------------------------------------------
(* What a command that nobody crossed leaves in its blocks.                 *)

LEMMA BlockWritten ==
  ASSUME Inv, NEW p \in Procs, pc[p] = "write", op[p].kind \in Updates, clean[p],
         LET new(n) == blob[p][n] IN flash' = Written(Reach(First(op[p]), Per), new)
  PROVE  \A n \in Touched(op[p]) : flash'[n] = Effect(op[p], n, last[n])
<1> DEFINE c == op[p]
           B == Reach(First(c), Per)
<1>1. c \in Commands /\ B = Touched(c) /\ B \subseteq Cells
  <2>1. c \in Commands
    BY Running DEF Inv, Idle
  <2> QED BY <2>1, UpdatesBlock, SetsTouched
<1>2. \A n \in Touched(c) : blob[p][n] = Effect(c, n, last[n]) /\ flash[n] = Blank
  BY DEF Inv, Knows
<1>3. \A n \in B : flash'[n] = Stored(flash[n], blob[p][n])
  BY <1>1 DEF Written
<1> QED BY <1>1, <1>2, <1>3, StoredBlank

LEMMA FileVerified ==
  ASSUME Inv, NEW p \in Procs, VerifyChunk(p), clean[p], IsLast(p)
  PROVE  /\ op[p].kind = "file"
         /\ \A n \in Touched(op[p]) : flash[n] = Effect(op[p], n, last[n])
<1> DEFINE c == op[p]
<1>1. Types /\ pc[p] = "verify"
  BY DEF Inv, VerifyChunk
<1>2. c.kind = "file"
  BY <1>1, Running DEF ToolOK, Idle
<1>3. /\ c.off \in Nat /\ Len(c.data) \in Nat /\ at[p] + BufSize >= c.off + Len(c.data)
      /\ at[p] \in Nat /\ BufSize \in Nat
  BY <1>1, <1>2, ChunkIs DEF IsLast
<1>4. \A n \in Touched(c) : n \in Int
  BY LayoutAssumption DEF Touched, Cells
<1>5. \A n \in Touched(c) : n < at[p] + BufSize \/ c.off + Len(c.data) <= n =>
        flash[n] = IF n < c.off + Len(c.data) THEN InFile(p, n) ELSE Blank
  BY ComparedIs
<1>6. ASSUME NEW n \in Touched(c) PROVE flash[n] = Effect(c, n, last[n])
  <2>1. Effect(c, n, last[n]) =
          IF n - c.off < Len(c.data) THEN c.data[n - c.off + 1] ELSE Blank
    BY <1>2 DEF Effect
  <2>2. InFile(p, n) = c.data[n - c.off + 1]
    BY DEF InFile
  <2> HIDE DEF c
  <2>3. n - c.off < Len(c.data) <=> n < c.off + Len(c.data)
    BY <1>3, <1>4
  <2>4. n < at[p] + BufSize \/ c.off + Len(c.data) <= n
    BY <1>3, <1>4
  <2> QED BY <1>5, <2>1, <2>2, <2>3, <2>4
<1> QED BY <1>2, <1>6

LEMMA AllErased ==
  ASSUME Inv, NEW p \in Procs, pc[p] = "erase", op[p].kind = "clear", clean[p],
         ~(at[p] + Per < Beyond(op[p])),
         flash' = [n \in Cells |-> IF n \in Reach(at[p], Per) THEN Blank ELSE flash[n]]
  PROVE  \A n \in Touched(op[p]) : flash'[n] = Effect(op[p], n, last[n])
<1> DEFINE c == op[p]
<1>1. c \in Commands /\ ToolOK(p)
  BY Running DEF Inv, Idle
<1>2. at[p] \in Nat /\ at[p] + Per <= Beyond(c)
  BY <1>1, BlockFits
<1>3. Beyond(c) \in Int
  <2>1. PICK k \in Nat : Beyond(c) = First(c) + k * Per
    BY <1>1, BeyondIs
  <2> QED BY <1>1, <2>1, FirstIs, LayoutAssumption
<1>4. \A n \in Touched(c) : n \in Cells /\ n \in Int /\ n < Beyond(c)
  BY DEF Touched, Cells
<1>5. \A n \in Touched(c) : n < at[p] => flash[n] = Blank
  BY DEF Inv, Knows, Erased
<1>6. \A n \in Touched(c) : at[p] <= n => n \in Reach(at[p], Per)
  BY <1>2, <1>3, <1>4, LayoutAssumption DEF Reach
<1>7. \A n \in Touched(c) : flash'[n] = Blank
  BY <1>2, <1>4, <1>5, <1>6
<1> QED BY <1>7 DEF Effect

-------------------------------------------------------------------------------
(* Steps of NvStore.                                                        *)

\* What NvStore and NvParm both take from NvLayout.
LEMMA SameLayout ==
  /\ Store!Cells = Cells /\ Store!Changes = Changes /\ Store!Content = Content
  /\ \A c : Store!Touched(c) = Touched(c)
  /\ \A c, n, old : Store!Effect(c, n, old) = Effect(c, n, old)
<1>1. Store!Cells = Cells /\ Store!Changes = Changes
  BY DEF Store!Cells, Cells, Store!Changes, Changes, Store!Kinds, Kinds, Store!Looks, Looks
<1>2. Store!Content = Content
  BY <1>1 DEF Store!Content, Content, Store!Entry, Entry, Store!Blank, Blank, Store!Zero, Zero,
              Store!Junk, Junk
<1>3. \A c : Store!First(c) = First(c) /\ Store!Beyond(c) = Beyond(c)
  BY DEF Store!First, First, Store!BlockStart, BlockStart, Store!Beyond, Beyond,
         Store!RoundUp, RoundUp, Store!Length, Length
<1>4. \A c : Store!Touched(c) = Touched(c)
  BY <1>1, <1>3 DEF Store!Touched, Touched
<1>5. \A c, n, old : Store!Effect(c, n, old) = Effect(c, n, old)
  BY DEF Store!Effect, Effect, Store!Blank, Blank
<1> QED BY <1>1, <1>2, <1>4, <1>5

LEMMA ExitEnds ==
  ASSUME NEW p \in Procs, NEW how, Exit(p, how)
  PROVE  Store!Ends(p) /\ pc' = [pc EXCEPT ![p] = "idle"] /\ status' = [status EXCEPT ![p] = how]
BY DEF Exit, Store!Ends

LEMMA GotoStays ==
  ASSUME NEW p \in Procs, NEW label, Goto(p, label)
  PROVE  UNCHANGED op /\ pc' = [pc EXCEPT ![p] = label]
BY DEF Goto

LEMMA LeaveStep ==
  ASSUME Inv, NEW p \in Procs, ~Idle(p), Kept, NEW how, Exit(p, how)
  PROVE  Store!Next
<1>1. op[p] # NoCommand
  BY Running DEF Inv
<1> QED BY <1>1, ExitEnds DEF Kept, Store!Next, Store!Leave

LEMMA TearStep ==
  ASSUME Inv, NEW p \in Procs, ~Idle(p), op[p].kind \in Changes,
         NEW C \in SUBSET Touched(op[p]), Changed(p, C, C),
         \A n \in Cells : n \notin C => flash'[n] = flash[n],
         UNCHANGED op \/ Store!Ends(p)
  PROVE  Store!Next
<1>1. op[p] # NoCommand
  BY Running DEF Inv
<1>2. torn' = torn \cup C
  BY DEF Changed
<1>3. last' = last
  <2>1. last = [n \in Cells |-> last[n]]
    BY DEF Inv, Types, TypeOK, Content
  <2>2. last' = [n \in Cells |-> IF n \in torn' THEN last[n] ELSE flash'[n]]
    BY DEF Changed
  <2>3. \A n \in Cells : n \notin torn' => flash'[n] = last[n]
    BY <1>2 DEF Inv, Untorn
  <2> QED BY <2>1, <2>2, <2>3
<1>4. Store!Tear(p)
  BY <1>1, <1>2, <1>3, SameLayout DEF Store!Tear
<1> QED BY <1>4 DEF Store!Next

LEMMA CommitStep ==
  ASSUME Inv, NEW p \in Procs, ~Idle(p), op[p].kind \in Changes,
         NEW C \in SUBSET Touched(op[p]), op[p].kind = "clear" \/ C = Touched(op[p]),
         torn' = torn \ C,
         last' = [n \in Cells |-> IF n \in torn' THEN last[n] ELSE flash'[n]],
         \A n \in Cells : n \notin C => flash'[n] = flash[n],
         \A n \in C : flash'[n] = Effect(op[p], n, last[n]),
         UNCHANGED op \/ Store!Ends(p)
  PROVE  Store!Next
<1>1. op[p] # NoCommand
  BY Running DEF Inv
<1>2. last' = [n \in Cells |-> IF n \in C THEN Effect(op[p], n, last[n]) ELSE last[n]]
  BY DEF Inv, Untorn
<1>3. Store!Commit(p)
  BY <1>1, <1>2, SameLayout DEF Store!Commit
<1> QED BY <1>3 DEF Store!Next

LEMMA InvokeStore == ASSUME Inv, NEW p \in Procs, Invoke(p) PROVE [Store!Next]_(Store!vars)
<1>1. Kept /\ op[p] = NoCommand /\ op \in [Procs -> Commands \cup {NoCommand}]
  BY DEF Invoke, Inv, Types, TypeOK
<1>2. CASE \E how \in {"ok", "error"} : Exit(p, how)
  BY <1>1, <1>2 DEF Exit, Kept, Store!vars
<1>3. CASE \E c \in Commands : op' = [op EXCEPT ![p] = c]
  BY <1>1, <1>3 DEF Kept, Store!Next, Store!Ask
<1> QED BY <1>2, <1>3 DEF Invoke

LEMMA GetStore == ASSUME Inv, NEW p \in Procs, Get(p) PROVE [Store!Next]_(Store!vars)
<1>1. ~Idle(p) /\ Kept
  BY DEF Get, Idle
<1>2. CASE \E how \in {"ok", "error"} : Exit(p, how)
  BY <1>1, <1>2, LeaveStep
<1>3. CASE Goto(p, "erase")
  BY <1>1, <1>3, GotoStays DEF Kept, Store!vars
<1> QED BY <1>2, <1>3 DEF Get

LEMMA EraseStore == ASSUME Inv, NEW p \in Procs, Erase(p) PROVE [Store!Next]_(Store!vars)
<1> DEFINE c == op[p]
           B == Reach(at[p], Per)
<1>1. ~Idle(p) /\ c \in Commands /\ ToolOK(p) /\ pc[p] = "erase" /\ c.kind \in Changes
  BY Running DEF Erase, Idle, Inv, ToolOK
<1>2. B \in SUBSET Touched(c) /\ B \subseteq Cells
  BY <1>1, BlockFits, SetsTouched
<1>3. CASE UNCHANGED <<flash, history>> /\ Exit(p, "error")
  BY <1>1, <1>3, LeaveStep DEF Kept, history
<1>4. CASE /\ Changed(p, B, B) /\ Exit(p, "error")
           /\ \/ UNCHANGED flash
              \/ \E e \in {Blank, Junk} :
                   flash' = [n \in Cells |-> IF n \in B THEN e ELSE flash[n]]
  BY <1>1, <1>2, <1>4, ExitEnds, TearStep
<1>5. CASE /\ flash' = [n \in Cells |-> IF n \in B THEN Blank ELSE flash[n]]
           /\ Changed(p, B, IF c.kind = "clear" THEN {} ELSE B) /\ AfterErase(p)
  <2>1. UNCHANGED op \/ Store!Ends(p)
    BY <1>5, ExitEnds, GotoStays DEF AfterErase
  <2>2. \A n \in Cells : n \notin B => flash'[n] = flash[n]
    BY <1>5
  <2>3. CASE c.kind = "clear"
    <3>1. \A n \in B : flash'[n] = Effect(c, n, last[n])
      BY <1>2, <1>5, <2>3 DEF Effect
    <3>2. torn' = torn \ B
          /\ last' = [n \in Cells |-> IF n \in torn' THEN last[n] ELSE flash'[n]]
      BY <1>5, <2>3 DEF Changed
    <3> HIDE DEF B
    <3> QED BY <1>1, <1>2, <2>1, <2>2, <2>3, <3>1, <3>2, CommitStep
  <2>4. CASE c.kind # "clear"
    <3>1. Changed(p, B, B)
      BY <1>5, <2>4
    <3> QED BY <1>1, <1>2, <2>1, <2>2, <3>1, TearStep
  <2> QED BY <2>3, <2>4
<1> QED BY <1>3, <1>4, <1>5 DEF Erase

LEMMA WriteBlockStore == ASSUME Inv, NEW p \in Procs, WriteBlock(p) PROVE [Store!Next]_(Store!vars)
<1> DEFINE c == op[p]
           B == Reach(First(c), Per)
           new(n) == blob[p][n]
<1>1. pc[p] = "write" /\ c.kind \in Updates /\ ~Idle(p)
  BY DEF WriteBlock, Idle
<1>2. c \in Commands /\ c.kind \in Changes /\ First(c) \in Nat
  BY <1>1, Running, FirstIs DEF Inv, Updates, Changes, Kinds, Looks
<1>3. B \in SUBSET Touched(c) /\ B = Touched(c) /\ B \subseteq Cells
  BY <1>1, <1>2, UpdatesBlock, SetsTouched
<1>4. Store!Ends(p)
  BY ExitEnds DEF WriteBlock
<1>5. ASSUME NEW C, C \subseteq B
      PROVE  \A n \in Cells : n \notin B => Written(C, new)[n] = flash[n]
  BY <1>5 DEF Written
<1>6. CASE flash' = Written(B, new) /\ Changed(p, B, IF clean[p] THEN {} ELSE B)
  <2>1. \A n \in Cells : n \notin B => flash'[n] = flash[n]
    BY <1>5, <1>6
  <2>2. CASE clean[p]
    <3>1. \A n \in B : flash'[n] = Effect(c, n, last[n])
      BY <1>1, <1>3, <1>6, <2>2, BlockWritten
    <3>2. torn' = torn \ B
          /\ last' = [n \in Cells |-> IF n \in torn' THEN last[n] ELSE flash'[n]]
      BY <1>6, <2>2 DEF Changed
    <3> HIDE DEF B
    <3> QED BY <1>1, <1>2, <1>3, <1>4, <2>1, <3>1, <3>2, CommitStep
  <2>3. CASE ~clean[p]
    <3>1. Changed(p, B, B)
      BY <1>6, <2>3
    <3> QED BY <1>1, <1>2, <1>3, <1>4, <2>1, <3>1, TearStep
  <2> QED BY <2>2, <2>3
<1>7. CASE Changed(p, B, B) /\ \E k \in 0..Per - 1 : flash' = Written(Reach(First(c), k), new)
  <2>1. PICK k \in 0..Per - 1 : flash' = Written(Reach(First(c), k), new)
    BY <1>7
  <2>2. Reach(First(c), k) \subseteq B
    BY <1>2, LayoutAssumption DEF Reach, Cells
  <2>3. \A n \in Cells : n \notin B => flash'[n] = flash[n]
    BY <1>5, <2>1, <2>2
  <2> QED BY <1>1, <1>2, <1>3, <1>4, <1>7, <2>3, TearStep
<1>8. CASE Changed(p, B, B) /\ \E bad \in B : flash' = [Written(B, new) EXCEPT ![bad] = Junk]
  <2>1. PICK bad \in B : flash' = [Written(B, new) EXCEPT ![bad] = Junk]
    BY <1>8
  <2>2. Written(B, new) = [n \in Cells |-> Written(B, new)[n]]
    BY DEF Written
  <2>3. \A n \in Cells : n \notin B => flash'[n] = flash[n]
    BY <1>5, <2>1, <2>2
  <2> QED BY <1>1, <1>2, <1>3, <1>4, <1>8, <2>3, TearStep
<1> HIDE DEF new
<1> QED BY <1>6, <1>7, <1>8, Zenon DEF WriteBlock, new

LEMMA WriteFileStore ==
  ASSUME Inv, NEW p \in Procs, WriteChunk(p) \/ WriteChunkFails(p)
  PROVE  [Store!Next]_(Store!vars)
<1> DEFINE new(n) == InFile(p, n)
<1>1. pc[p] = "write" /\ op[p].kind = "file" /\ Types /\ ~Idle(p) /\ op[p].kind \in Changes
  BY DEF WriteChunk, WriteChunkFails, Inv, Idle, Changes, Kinds, Looks
<1>2. Chunk(p) \subseteq Touched(op[p]) /\ Chunk(p) \subseteq Cells
  BY <1>1, ChunkIs, SetsTouched
<1>3. ASSUME NEW C, C \subseteq Chunk(p)
      PROVE  /\ Written(C, new) = [n \in Cells |-> Written(C, new)[n]]
             /\ \A n \in Cells : n \notin C => Written(C, new)[n] = flash[n]
  BY DEF Written
<1>4. CASE WriteChunk(p)
  <2>1. UNCHANGED op /\ Changed(p, Chunk(p), Chunk(p))
    BY <1>4, GotoStays DEF WriteChunk
  <2>2. \/ flash' = Written(Chunk(p), new)
        \/ \E bad \in Chunk(p) : flash' = [Written(Chunk(p), new) EXCEPT ![bad] = Junk]
    BY <1>4 DEF WriteChunk
  <2>3. \A n \in Cells : n \notin Chunk(p) => flash'[n] = flash[n]
    BY <1>3, <2>2
  <2> QED BY <1>1, <1>2, <2>1, <2>3, TearStep
<1>5. CASE WriteChunkFails(p)
  <2>1. Store!Ends(p)
    BY <1>5, ExitEnds DEF WriteChunkFails
  <2>2. PICK k \in 0..BufSize - 1 :
        /\ flash' = Written(Chunk(p) \cap Reach(at[p], k), new)
        /\ Changed(p, Chunk(p) \cap Reach(at[p], k), Chunk(p) \cap Reach(at[p], k))
    BY <1>5 DEF WriteChunkFails
  <2> DEFINE C == Chunk(p) \cap Reach(at[p], k)
  <2>3. C \subseteq Chunk(p) /\ Changed(p, C, C) /\ flash' = Written(C, new)
    BY <2>2
  <2> HIDE DEF C
  <2>4. \A n \in Cells : n \notin C => flash'[n] = flash[n]
    BY <1>3, <2>3
  <2> QED BY <1>1, <1>2, <2>1, <2>3, <2>4, TearStep
<1> QED BY <1>4, <1>5

LEMMA VerifyStore ==
  ASSUME Inv, NEW p \in Procs, VerifyChunk(p)
  PROVE  [Store!Next]_(Store!vars)
<1>1. ~Idle(p) /\ UNCHANGED flash
  BY DEF VerifyChunk, Idle
<1>2. CASE ~IsLast(p)
  BY <1>2, GotoStays DEF VerifyChunk, Store!vars
<1>3. CASE IsLast(p)
  <2>1. /\ Exit(p, "ok") /\ Store!Ends(p)
        /\ torn' = (IF clean[p] THEN torn \ Touched(op[p]) ELSE torn)
        /\ last' = [n \in Cells |-> IF n \in torn' THEN last[n] ELSE flash[n]]
    BY <1>3, ExitEnds DEF VerifyChunk
  <2>2. CASE clean[p]
    <3>1. op[p].kind = "file" /\ \A n \in Touched(op[p]) : flash'[n] = Effect(op[p], n, last[n])
      BY <1>1, <1>3, <2>2, FileVerified
    <3>2. op[p].kind \in Changes
      BY <3>1 DEF Changes, Kinds, Looks
    <3>3. torn' = torn \ Touched(op[p])
          /\ last' = [n \in Cells |-> IF n \in torn' THEN last[n] ELSE flash'[n]]
      BY <1>1, <2>1, <2>2
    <3> QED BY <1>1, <2>1, <3>1, <3>2, <3>3, CommitStep
  <2>3. CASE ~clean[p]
    <3>1. last' = last
      <4>1. last = [n \in Cells |-> last[n]]
        BY DEF Inv, Types, TypeOK, Content
      <4> QED BY <2>1, <2>3, <4>1 DEF Inv, Untorn
    <3> QED BY <1>1, <2>1, <2>3, <3>1, LeaveStep DEF Kept
  <2> QED BY <2>2, <2>3
<1> QED BY <1>2, <1>3

LEMMA StepStore == ASSUME Inv, [Next]_vars PROVE [Store!Next]_(Store!vars)
<1>1. CASE UNCHANGED vars
  BY <1>1 DEF vars, tool, history, Store!vars
<1>2. ASSUME NEW p \in Procs, VerifyFails(p) \/ Kill(p) PROVE Store!Next
  BY <1>2, LeaveStep DEF VerifyFails, Kill, Idle, Kept, history
<1>3. ASSUME NEW p \in Procs, Step(p) PROVE [Store!Next]_(Store!vars)
  BY <1>2, <1>3, InvokeStore, GetStore, EraseStore, WriteBlockStore, WriteFileStore,
     VerifyStore DEF Step
<1> QED BY <1>1, <1>3 DEF Next

\* To whoever reads the parameters, every command of nvparm that is neither cut
\* short nor crossed happens at once and changes what it was asked to change
\* and no other entry, although -s, -e and -f erase and rewrite whole blocks
\* (flash_erase, flash_write, main).
THEOREM CommandsAreAtomic == Spec => StorePromise
<1>1. Init => Store!Init
  BY NvParmAssumption, SameLayout DEF Init, Store!Init
<1> QED BY <1>1, AlwaysInv, StepStore, PTL DEF Spec, StorePromise, Store!Spec

-------------------------------------------------------------------------------
(* What a status of 0 means.                                                *)

LEMMA OwnProcess == ASSUME Inv, NEW p \in Procs, Step(p) PROVE \A q \in Procs : q # p => pc'[q] = pc[q]
<1>1. \A label : Goto(p, label) \/ Exit(p, label) =>
        \A q \in Procs : q # p => pc'[q] = pc[q]
  BY DEF Goto, Exit, Inv, Types, TypeOK
<1> QED BY <1>1 DEF Step, Invoke, Get, Erase, AfterErase, WriteBlock, WriteChunk, WriteChunkFails,
                VerifyChunk, VerifyFails, Kill, Inv, Types, TypeOK

LEMMA NoFault == ASSUME Inv, Fine PROVE ~Fault
BY NvParmAssumption DEF Inv, Types, TypeOK, Fine, Fault

LEMMA Ended ==
  ASSUME Inv, NEW p \in Procs
  PROVE  /\ \A label \in {"get", "erase", "write", "verify"} : Goto(p, label) => pc'[p] # "idle"
         /\ Exit(p, "error") => status'[p] = "error"
BY DEF Inv, Types, TypeOK, Goto, Exit

LEMMA StepDone ==
  ASSUME Inv, NEW p \in Procs, Step(p), ~Idle(p), pc'[p] = "idle", status'[p] = "ok",
         Fine, clean[p], op[p].kind \in Changes
  PROVE  \A n \in Touched(op[p]) : flash'[n] = Effect(op[p], n, last[n])
<1>1. /\ ~Fault /\ ~Exit(p, "error")
      /\ \A label \in {"get", "erase", "write", "verify"} : ~Goto(p, label)
  BY NoFault, Ended
<1>2. ~Invoke(p) /\ ~Kill(p) /\ ~WriteChunkFails(p) /\ ~VerifyFails(p)
  BY <1>1 DEF Invoke, Kill, WriteChunkFails, VerifyFails
<1>3. ~Get(p) /\ ~WriteChunk(p)
  BY <1>1 DEF Get, WriteChunk, Changes
<1>4. CASE Erase(p)
  <2>1. /\ pc[p] = "erase" /\ op[p].kind = "clear" /\ ~(at[p] + Per < Beyond(op[p]))
        /\ flash' = [n \in Cells |-> IF n \in Reach(at[p], Per) THEN Blank ELSE flash[n]]
    BY <1>1, <1>4 DEF Erase, AfterErase
  <2> QED BY <2>1, AllErased
<1>5. CASE WriteBlock(p)
  BY <1>1, <1>5, BlockWritten DEF WriteBlock
<1>6. CASE VerifyChunk(p)
  <2>1. IsLast(p) /\ UNCHANGED flash
    BY <1>1, <1>6 DEF VerifyChunk
  <2> QED BY <1>6, <2>1, FileVerified
<1> QED BY <1>2, <1>3, <1>4, <1>5, <1>6 DEF Step

\* If nvparm returns 0 from its last access, nothing failed in that access and
\* nobody crossed it, then the blocks hold what the command was to make of them
\* (the ends of -s, -e, -c and -f in main).
THEOREM StatusZeroMeansDone == Spec => OkMeansDone
<1>1. ASSUME Inv, [Next]_vars
      PROVE  [\A p \in Procs :
                (~Idle(p) /\ pc'[p] = "idle" /\ status'[p] = "ok" /\ Fine /\ clean[p]
                   /\ op[p].kind \in Changes) =>
                  \A n \in Touched(op[p]) : flash'[n] = Effect(op[p], n, last[n])]_vars
  <2> SUFFICES ASSUME Next, NEW p \in Procs,
                      ~Idle(p), pc'[p] = "idle", status'[p] = "ok", Fine, clean[p],
                      op[p].kind \in Changes
               PROVE  \A n \in Touched(op[p]) : flash'[n] = Effect(op[p], n, last[n])
    BY <1>1
  <2>1. PICK q \in Procs : Step(q)
    BY DEF Next
  <2>2. q = p
    BY <1>1, <2>1, OwnProcess DEF Idle
  <2> QED BY <1>1, <2>1, <2>2, StepDone
<1> QED BY <1>1, AlwaysInv, PTL DEF Spec, OkMeansDone
===============================================================================
