------------------------------- MODULE MCNvParm -------------------------------
(***************************************************************************)
(* Small instances of NvParm: a flash of two blocks of two cells.          *)
(***************************************************************************)
EXTENDS NvParm, TLC

Cmd(k, off, data) == [kind |-> k, off |-> off, data |-> data]

\* Updates of both cells of a block, a partition that fits and one that does
\* not, files of one block, more than one, and none, and offsets behind the end
\* and inside a block.
SomeCommands ==
  {Cmd("set", 0, <<"new">>), Cmd("unset", 1, <<>>), Cmd("set", 4, <<"new">>),
   Cmd("read", 0, <<>>), Cmd("list", 2, <<>>), Cmd("dump", 1, <<>>),
   Cmd("clear", 0, <<>>), Cmd("clear", 2, <<>>),
   Cmd("file", 0, <<"new", Zero, "new">>), Cmd("file", 2, <<>>), Cmd("file", 4, <<"new">>)}

OldContent == {[n \in Cells |-> "old"]}

Processes == Permutations(Procs)
===============================================================================
