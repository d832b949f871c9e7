------------------------------ MODULE MCPowerCap ------------------------------
(* Small instances of PowerCap.  Excursions need two power levels around a *)
(* cap; the default cap of 0 is exceeded by any reading.                   *)
EXTENDS PowerCap

\* External: the values an object_t<Cap> has before any setter ran.
Fresh == [enableFlag |-> FALSE, exceptAct |-> "NoAction", powerCap |-> 0,
          correctTime |-> 0, samplePeriod |-> 0]
===============================================================================
