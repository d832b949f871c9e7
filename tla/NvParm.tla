-------------------------------- MODULE NvParm --------------------------------
(***************************************************************************)
(* nvparm.c: the tool that sets, erases, reads, lists, dumps and clears    *)
(* the parameters in the host's SPI flash, or writes a file of them.  It   *)
(* takes no lock, so the model runs several at once.  A step is one access *)
(* to the flash: the read of a block, the erasure of a block, one write,   *)
(* the comparison of one buffer.  Any of them may fail, a write may be cut *)
(* short or stored wrongly, and the tool may be killed between them.       *)
(***************************************************************************)
EXTENDS NvLayout, FiniteSets

CONSTANTS
  Procs,      \* invocations that may run at the same time
  Commands,   \* what may be asked for
  NoCommand,
  BufSize,    \* cells of the buffer of -f
  Initial,    \* contents the flash may have at first
  MaxFaults   \* bound: failures and kills over all invocations

ASSUME NvParmAssumption ==
  /\ Commands \subseteq Command /\ NoCommand \notin Commands
  /\ BufSize \in Nat \ {0} /\ MaxFaults \in Nat /\ Initial \subseteq Content
  /\ \A c \in Commands : c.kind = "set" => c.data \in [1..1 -> Params]

VARIABLES
  flash,
  pc,      \* the next access of each process; "idle" when it does not run
  op,      \* its command
  blob,    \* the block it read, with its change
  at,      \* the cell it has come to
  status,  \* how it ended: 0, or not (killed, too)
  faults,
  last,    \* history: what each cell held when it was last not torn
  torn,    \* history: cells whose update has begun and was not completed
  clean    \* history: nobody else has changed its blocks meanwhile

tool    == <<pc, op, blob, at, status>>
history == <<last, torn, clean>>
vars    == <<flash, tool, faults, history>>

Idle(p) == pc[p] = "idle"

Init ==
  /\ flash \in Initial
  /\ pc = [p \in Procs |-> "idle"] /\ op = [p \in Procs |-> NoCommand]
  /\ blob = [p \in Procs |-> <<>>] /\ at = [p \in Procs |-> 0]
  /\ status = [p \in Procs |-> "none"] /\ faults = 0
  /\ last = flash /\ torn = {} /\ clean = [p \in Procs |-> FALSE]

-------------------------------------------------------------------------------
Fine  == UNCHANGED faults
Fault == faults < MaxFaults /\ faults' = faults + 1

Goto(p, label) == pc' = [pc EXCEPT ![p] = label] /\ UNCHANGED <<op, status>>

Exit(p, how) ==
  /\ pc' = [pc EXCEPT ![p] = "idle"]
  /\ op' = [op EXCEPT ![p] = NoCommand]
  /\ status' = [status EXCEPT ![p] = how]
  /\ blob' = [blob EXCEPT ![p] = <<>>] /\ at' = [at EXCEPT ![p] = 0]

\* The flash was not changed.
Kept == UNCHANGED <<flash, last, torn>>

\* The process changed the cells C, and `left' of them are torn now: for the
\* others that is what they hold.
Changed(p, C, left) ==
  /\ torn' = (torn \ C) \cup left
  /\ last' = [n \in Cells |-> IF n \in torn' THEN last[n] ELSE flash'[n]]
  /\ clean' = [q \in Procs |->
                 clean[q] /\ (q = p \/ Idle(q) \/ Touched(op[q]) \cap C = {})]

\* Programming can only clear bits.
Stored(old, new) ==
  IF old \in {Blank, new} THEN new
  ELSE IF new = Blank THEN old
  ELSE IF Zero \in {old, new} THEN Zero ELSE Junk

\* The cells from n on that a write of k cells reaches.
Reach(n, k) == {m \in Cells : n <= m /\ m < n + k}

\* flash after new[m] was written to each cell m of C.
Written(C, new(_)) == [m \in Cells |-> IF m \in C THEN Stored(flash[m], new(m)) ELSE flash[m]]

-------------------------------------------------------------------------------
\* validate_input_offset takes the offset behind the last block, too.
ValidOffset(c) == c.off <= Size /\ c.off % Per = 0
Valid(c) ==
  /\ c.kind \in {"clear", "dump", "file"} => ValidOffset(c)
  /\ c.kind = "file" => Len(c.data) <= Size

FirstAccess(c) == IF c.kind \in Updates \cup Looks THEN "get" ELSE "erase"

\* main up to the first access.  If the flash is not in /proc/mtd, nothing was
\* done and the status is 0.  An empty file has nothing to erase and to write.
Invoke(p) ==
  /\ Idle(p)
  /\ \E c \in Commands :
       \/ /\ Fine /\ Valid(c) /\ Beyond(c) > First(c)
          /\ pc' = [pc EXCEPT ![p] = FirstAccess(c)]
          /\ op' = [op EXCEPT ![p] = c]
          /\ status' = [status EXCEPT ![p] = "none"]
          /\ at' = [at EXCEPT ![p] = First(c)] /\ UNCHANGED blob
       \/ Fine /\ Valid(c) /\ Beyond(c) = First(c) /\ Exit(p, "ok")
       \/ Fine /\ ~Valid(c) /\ Exit(p, "error")
       \/ Fault /\ (Exit(p, "ok") \/ Exit(p, "error"))
  /\ clean' = [clean EXCEPT ![p] = TRUE]
  /\ Kept

\* Mutant: the entry is counted from the start of the flash (nvp_off without % off).
ModifiedFirst(c, b) ==
  CASE c.kind = "set"   -> [b EXCEPT ![First(c)] = c.data[1]]
    [] c.kind = "unset" -> [b EXCEPT ![First(c)] = Blank]

\* The entry that -s and -e change in the block.
Modified(c, b) ==
  CASE c.kind = "set"   -> [b EXCEPT ![c.off] = c.data[1]]
    [] c.kind = "unset" -> [b EXCEPT ![c.off] = Blank]

\* nvparam_get reads the block; behind the flash the read comes back short.
\* -r, -l and -d print it, or write it to a file.
Get(p) ==
  LET c == op[p]
      B == Reach(First(c), Per)
  IN
  /\ pc[p] = "get"
  /\ \/ /\ Fine /\ B # {} /\ c.kind \in Updates
        /\ blob' = [blob EXCEPT ![p] = Modified(c, [n \in B |-> flash[n]])]
        /\ Goto(p, "erase") /\ UNCHANGED at
     \/ Fine /\ B # {} /\ c.kind \in Looks /\ Exit(p, "ok")
     \/ Fine /\ B = {} /\ Exit(p, "error")
     \/ Fault /\ Exit(p, "error")
  /\ clean' = [clean EXCEPT ![p] = (B \cap torn = {})]
  /\ Kept

\* flash_erase, one block of it.  Clearing is done when the last one is.
AfterErase(p) ==
  IF at[p] + Per < Beyond(op[p])
  THEN Goto(p, "erase") /\ at' = [at EXCEPT ![p] = @ + Per] /\ UNCHANGED blob
  ELSE IF op[p].kind = "clear" THEN Exit(p, "ok")
  ELSE Goto(p, "write") /\ at' = [at EXCEPT ![p] = First(op[p])] /\ UNCHANGED blob

Erase(p) ==
  LET B == Reach(at[p], Per) IN
  /\ pc[p] = "erase"
  /\ \/ /\ Fine /\ B # {}
        /\ flash' = [n \in Cells |-> IF n \in B THEN Blank ELSE flash[n]]
        /\ Changed(p, B, IF op[p].kind = "clear" THEN {} ELSE B)
        /\ AfterErase(p)
     \/ Fine /\ B = {} /\ Exit(p, "error") /\ UNCHANGED <<flash, history>>
     \/ /\ Fault /\ B # {}
        /\ \/ UNCHANGED flash
           \/ \E e \in {Blank, Junk} :
                flash' = [n \in Cells |-> IF n \in B THEN e ELSE flash[n]]
        /\ Changed(p, B, B) /\ Exit(p, "error")

\* -s and -e write the block back and do not read it again.  A write that was
\* cut short is not an error, but what main returns is then the count.
WriteBlock(p) ==
  LET B == Reach(First(op[p]), Per)
      new(n) == blob[p][n]
  IN
  /\ pc[p] = "write" /\ op[p].kind \in Updates
  /\ \/ /\ Fine /\ flash' = Written(B, new)
        /\ Changed(p, B, IF clean[p] THEN {} ELSE B) /\ Exit(p, "ok")
     \/ /\ Fault
        /\ \E k \in 0..Per - 1 : flash' = Written(Reach(First(op[p]), k), new)
        /\ Changed(p, B, B) /\ (Exit(p, "ok") \/ Exit(p, "error"))
     \/ /\ Fault
        /\ \E bad \in B : flash' = [Written(B, new) EXCEPT ![bad] = Junk]
        /\ Changed(p, B, B) /\ Exit(p, "ok")

\* The next buffer of the file, at the cell at[p].
Chunk(p) == Reach(at[p], IF op[p].off + Len(op[p].data) - at[p] < BufSize
                         THEN op[p].off + Len(op[p].data) - at[p] ELSE BufSize)
InFile(p, n) == op[p].data[n - op[p].off + 1]

\* Mutant: off by one, the last entry of a file is forgotten.
IsLastEarly(p) == at[p] + BufSize >= op[p].off + Len(op[p].data) - 1

IsLast(p) == at[p] + BufSize >= op[p].off + Len(op[p].data)

\* flash_write.
WriteChunk(p) ==
  LET new(n) == InFile(p, n) IN
  /\ pc[p] = "write" /\ op[p].kind = "file"
  /\ \/ /\ Fine /\ flash' = Written(Chunk(p), new)
     \/ /\ Fault /\ \E bad \in Chunk(p) : flash' = [Written(Chunk(p), new) EXCEPT ![bad] = Junk]
  /\ Changed(p, Chunk(p), Chunk(p))
  /\ IF IsLast(p) THEN at' = [at EXCEPT ![p] = op[p].off] /\ Goto(p, "verify")
                  ELSE at' = [at EXCEPT ![p] = @ + BufSize] /\ Goto(p, "write")
  /\ UNCHANGED blob

\* The file cannot be read, or the write fails or stops early.
WriteChunkFails(p) ==
  LET new(n) == InFile(p, n) IN
  /\ pc[p] = "write" /\ op[p].kind = "file"
  /\ Fault
  /\ \E k \in 0..BufSize - 1 :
       LET C == Chunk(p) \cap Reach(at[p], k)
       IN flash' = Written(C, new) /\ Changed(p, C, C)
  /\ Exit(p, "error")

\* flash_verify.
VerifyChunk(p) ==
  /\ pc[p] = "verify" /\ Fine
  /\ \A n \in Chunk(p) : flash[n] = InFile(p, n)
  /\ UNCHANGED <<flash, clean>>
  /\ IF IsLast(p)
     THEN /\ Exit(p, "ok")
          /\ torn' = IF clean[p] THEN torn \ Touched(op[p]) ELSE torn
          /\ last' = [n \in Cells |-> IF n \in torn' THEN last[n] ELSE flash[n]]
     ELSE /\ at' = [at EXCEPT ![p] = @ + BufSize] /\ Goto(p, "verify")
          /\ UNCHANGED <<blob, last, torn>>

\* A difference, or a read that fails.
VerifyFails(p) ==
  /\ pc[p] = "verify"
  /\ \/ Fine /\ \E n \in Chunk(p) : flash[n] # InFile(p, n)
     \/ Fault
  /\ Exit(p, "error") /\ UNCHANGED <<flash, history>>

\* The tool is killed between two accesses, or the BMC goes down.
Kill(p) ==
  /\ ~Idle(p)
  /\ Fault /\ Exit(p, "error")
  /\ UNCHANGED <<flash, history>>

Step(p) ==
  \/ Invoke(p) \/ Get(p) \/ Erase(p) \/ WriteBlock(p)
  \/ WriteChunk(p) \/ WriteChunkFails(p) \/ VerifyChunk(p)
  \/ VerifyFails(p) \/ Kill(p)

Next == \E p \in Procs : Step(p)

Spec == Init /\ [][Next]_vars

-------------------------------------------------------------------------------
TypeOK ==
  /\ flash \in Content /\ last \in Content /\ torn \subseteq Cells
  /\ pc \in [Procs -> {"idle", "get", "erase", "write", "verify"}]
  /\ op \in [Procs -> Commands \cup {NoCommand}]
  /\ at \in [Procs -> Nat] /\ clean \in [Procs -> BOOLEAN]
  /\ status \in [Procs -> {"none", "ok", "error"}]
  /\ faults \in 0..MaxFaults
  /\ \A p \in Procs : Idle(p) <=> op[p] = NoCommand

\* To whoever reads the parameters, a command that is neither cut short nor
\* crossed by another one happens at once: -s and -e change one entry although
\* they rewrite a block, -c and -f the blocks they are given.  What a command
\* cut short has torn is made whole only by -c or -f.
Store == INSTANCE NvStore WITH store <- last, asked <- op
StorePromise == Store!Spec

\* A status of 0 means that the flash holds what was asked for, whatever failed
\* before, unless the access that gave it failed unseen, another command crossed
\* this one, or -s or -e met a block that was torn already (main).
OkMeansDone ==
  [][\A p \in Procs :
       (~Idle(p) /\ pc'[p] = "idle" /\ status'[p] = "ok" /\ Fine /\ clean[p]
          /\ op[p].kind \in Changes) =>
         \A n \in Touched(op[p]) : flash'[n] = Effect(op[p], n, last[n])]_vars
===============================================================================
