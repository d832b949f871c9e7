------------------------------- MODULE NvLayout -------------------------------
(***************************************************************************)
(* The host's SPI flash as nvparm.c sees it: cells, one for an entry of 8  *)
(* bytes, in blocks of Per cells that can only be erased together, and the *)
(* commands one can give, with what each is meant to do.                   *)
(***************************************************************************)
EXTENDS Integers, Sequences

CONSTANTS
  Params,    \* values of a parameter; an entry with one of them has its CRC
  Size,      \* cells of the flash
  Per,       \* cells of an erase block
  PartLen    \* cells of the NVPARAM partition, 64 KB

ASSUME LayoutAssumption ==
  /\ Per \in Nat \ {0} /\ PartLen \in Nat \ {0}
  /\ Size \in Nat /\ Size % Per = 0

Cells == 0..Size - 1

\* Besides a parameter a cell may hold ones, zeros, or anything else.
Blank == "blank"
Zero  == "zero"
Junk  == "junk"
Entry == Params \cup {Blank, Zero, Junk}
Content == [Cells -> Entry]

-------------------------------------------------------------------------------
\* One command: -s, -e, -r, -l, -d, -c or -f, its offset, and the value or the
\* contents of the file.
Kinds == {"set", "unset", "read", "list", "dump", "clear", "file"}
Command == [kind : Kinds, off : Nat, data : Seq(Entry)]

\* -s and -e read a block, change an entry and write the block back.
Updates == {"set", "unset"}
Looks   == {"read", "list", "dump"}
Changes == Kinds \ Looks

BlockStart(off) == off - (off % Per)
RoundUp(len) == ((len + Per - 1) \div Per) * Per

First(c) == BlockStart(c.off)
Length(c) ==
  CASE c.kind = "clear" -> PartLen
    [] c.kind = "file"  -> Len(c.data)
    [] OTHER            -> Per
Beyond(c) == First(c) + RoundUp(Length(c))

\* The blocks a command is about.
Touched(c) == {n \in Cells : First(c) <= n /\ n < Beyond(c)}

\* What the command is to make of one of their cells; a file is followed by
\* blank cells up to the end of its last block.
Effect(c, n, old) ==
  CASE c.kind = "set"   -> IF n = c.off THEN c.data[1] ELSE old
    [] c.kind = "unset" -> IF n = c.off THEN Blank ELSE old
    [] c.kind = "clear" -> Blank
    [] c.kind = "file"  -> IF n - c.off < Len(c.data) THEN c.data[n - c.off + 1] ELSE Blank
    [] OTHER            -> old
===============================================================================
