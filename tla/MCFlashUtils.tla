----------------------------- MODULE MCFlashUtils -----------------------------
(***************************************************************************)
(* Small instances of FlashUtils: an EEPROM of two pages of two cells.     *)
(***************************************************************************)
EXTENDS FlashUtils

\* An empty file, one that ends inside a page, one that repeats itself, one
\* whose CRC is 0, and one that does not fit.
SomeImages ==
  {<<>>, <<"a", "b", "a">>, <<"a", "b", "a", "b">>, <<"b", "a">>, <<"a", "a", "b", "b", "a">>}
CrcZero == {<<"b", "a">>}
Fresh == [n \in 0..Size - 1 |-> "a"]
===============================================================================
