------------------------------- MODULE MCRasLine -------------------------------
(***************************************************************************)
(* Errors for RasLine: halves of data with and without zeros at the front, *)
(* codes on both sides of the ends of the tables, and places, rows and     *)
(* columns on both sides of a byte.                                        *)
(***************************************************************************)
EXTENDS RasLine

Halves == {<<0, 0, 0, 0>>, <<0, 0, 1, 2>>, <<0, 15, 0, 0>>, <<1, 2, 3, 4>>, <<15, 0, 0, 15>>}
Datas == {high \o low : high \in Halves, low \in Halves}

\* The last row of each table, and the first that it does not have.
SomeInternalErrors ==
  [file : {"error_smpro", "warn_pmpro"}, socket : {1}, location : {<<4, 13>>, <<4, 14>>},
   image : {9, 10}, flags : {1, 10}, code : {<<0, 0, 9, 1>>, <<0, 0, 9, 2>>, <<1, 0, 2, 0>>},
   data : Datas, order : {"low first", "high first"}]

MCUError1 == <<0, 1, 0, 1>>
GICError  == <<0, 5, 0, 2>>
Overflow  == <<15, 15, 15, 15>>
KnownTypes == {MCUError1, GICError, Overflow}
WithInstance == {MCUError1}

TypesToLog == KnownTypes \cup {<<3, 3, 3, 3>>}

\* An address in rank 2, and misc0 of bank 9 with a row and column that fit a
\* byte and with ones that do not.
Address == <<0, 0, 0, 0, 0, 0, 0, 0, 1, 2, 2, 4, 5, 6, 7, 8>>
Misc(row) == <<0, 0, 0, 0, 0, 0, 0, 9>> \o row

SomeErrors ==
  {[file |-> f, socket |-> 1, type |-> SubSeq(t, 1, 2), subType |-> SubSeq(t, 3, 4),
    instance |-> i, status |-> Zeros(8), address |-> Address, misc0 |-> Misc(m)] :
     f \in ErrorFiles, t \in TypesToLog,
     i \in {<<0, 0, 0, 1>>, <<4, 8, 0, 3>>, <<7, 15, 15, 15>>},
     m \in {<<0, 0, 0, 1, 8, 4, 0, 5>>, <<0, 3, 15, 12, 8, 3, 15, 15>>}}
===============================================================================
