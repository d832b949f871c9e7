------------------------------- MODULE MCEntryId -------------------------------
(* Small instances of EntryId: daylight saving ends after the third second, *)
(* and the local time shows the second and the third again.                 *)
EXTENDS EntryId
LocalTime == [t \in 0..5 |-> IF t <= 3 THEN t ELSE t - 2]
===============================================================================
