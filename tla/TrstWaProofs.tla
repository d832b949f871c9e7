------------------------------ MODULE TrstWaProofs ------------------------------
(***************************************************************************)
(* The reset of the JTAG ports: an invocation in which no call fails has   *)
(* reset every socket powered by the end of its waits and leaves TRST      *)
(* high, for every waiting time and any number of invocations, failures    *)
(* and changes of the power.                                               *)
(***************************************************************************)
EXTENDS TrstWa, TLAPS

\* A pulse that nothing disturbed has pulled TRST low before it lets it go.
PulseIsWhole == pc = "high" /\ ~hurt => trst = "low"

IInv == TypeOK /\ PulseIsWhole /\ PowerGoodIsReset

LEMMA InitInv == Init => IInv
<1> SUFFICES ASSUME Init PROVE IInv
  OBVIOUS
<1>1. 0 \in 0..MaxRises /\ 0 \in 0..MaxFaults /\ 0 \in 0..MaxWait
  BY TrstWaAssumption
<1>2. TypeOK
  BY <1>1 DEF Init, TypeOK, Sockets
<1> QED BY <1>2 DEF Init, IInv, PulseIsWhole, PowerGoodIsReset

\* What Exit and GoOnTo leave of the types.
LEMMA LeaveTypes ==
  ASSUME TypeOK
  PROVE  /\ \A r \in {-1, 0, 1} : Exit(r) =>
              /\ pc' = "idle" /\ ret' \in {-1, 0, 1}
              /\ socket' \in Sockets /\ edge' \in BOOLEAN /\ left' \in 0..MaxWait
         /\ \A s \in Sockets : GoOnTo(s) =>
              /\ pc' = "listen" /\ socket' \in Sockets
              /\ ret' \in {-1, 0, 1} /\ edge' \in BOOLEAN /\ left' \in 0..MaxWait
BY DEF TypeOK, Exit, GoOnTo

LEMMA FaultTypes ==
  ASSUME TypeOK
  PROVE  Fine \/ Fault => faults' \in 0..MaxFaults /\ hurt' \in BOOLEAN
<1>1. faults \in Nat /\ faults <= MaxFaults /\ MaxFaults \in Nat
  BY TrstWaAssumption DEF TypeOK
<1>2. CASE Fine
  BY <1>2 DEF TypeOK, Fine
<1>3. CASE Fault
  BY <1>1, <1>3 DEF Fault
<1> QED BY <1>2, <1>3

LEMMA StepTypes == TypeOK /\ [Next]_vars => TypeOK'
<1> SUFFICES ASSUME TypeOK, [Next]_vars PROVE TypeOK'
  OBVIOUS
<1> USE TrstWaAssumption, LeaveTypes, FaultTypes
<1>1. CASE Start
  BY <1>1 DEF Start, TypeOK, board, Sockets
<1>2. CASE StartFails
  BY <1>2 DEF StartFails, TypeOK, board
<1>3. CASE Listen
  <2>1. left' \in 0..MaxWait
    BY <1>3 DEF Listen
  <2> QED BY <1>3, <2>1 DEF Listen, TypeOK, board
<1>4. CASE WaitEnds
  BY <1>4 DEF WaitEnds, TypeOK, board
<1>5. CASE WaitFails
  BY <1>5 DEF WaitFails, TypeOK, board
<1>6. CASE PulseLow
  BY <1>6 DEF PulseLow, TypeOK, board
<1>7. CASE PulseHigh
  BY <1>7 DEF PulseHigh, TypeOK, board, Sockets
<1>8. CASE Kill
  BY <1>8 DEF Kill, TypeOK, board
<1>9. CASE Tick
  BY <1>9 DEF Tick, TypeOK, board
<1>10. CASE PowerRises
  <2>1. PICK s \in fitted \ good :
          /\ rises[s] < MaxRises /\ rises' = [rises EXCEPT ![s] = @ + 1]
          /\ good' = good \cup {s}
    BY <1>10 DEF PowerRises
  <2>2. s \in Sockets
    BY <2>1 DEF TypeOK, Sockets
  <2>3. rises' \in [Sockets -> 0..MaxRises] /\ good' \subseteq fitted
    BY <2>1, <2>2 DEF TypeOK
  <2>4. unreset' \subseteq fitted /\ late' \subseteq fitted /\ edge' \in BOOLEAN
    BY <1>10 DEF PowerRises, TypeOK
  <2> QED BY <1>10, <2>3, <2>4 DEF PowerRises, TypeOK
<1>11. CASE PowerFalls
  BY <1>11 DEF PowerFalls, TypeOK, tool
<1>12. CASE UNCHANGED vars
  BY <1>12 DEF vars, tool, board, TypeOK
<1> QED BY <1>1, <1>2, <1>3, <1>4, <1>5, <1>6, <1>7, <1>8, <1>9, <1>10, <1>11, <1>12
        DEF Next

LEMMA StepInv == IInv /\ [Next]_vars => IInv'
<1> SUFFICES ASSUME IInv, [Next]_vars PROVE IInv'
  OBVIOUS
<1>t. TypeOK /\ TypeOK'
  BY StepTypes DEF IInv
<1> USE DEF IInv, PulseIsWhole, PowerGoodIsReset
<1>1. CASE Start
  BY <1>t, <1>1 DEF Start, GoOnTo
<1>2. CASE StartFails
  BY <1>t, <1>2 DEF StartFails, Fault
<1>3. CASE Listen
  BY <1>t, <1>3 DEF Listen
<1>4. CASE WaitEnds
  BY <1>t, <1>4 DEF WaitEnds
<1>5. CASE WaitFails
  BY <1>t, <1>5 DEF WaitFails, Fault
<1>6. CASE PulseLow
  \* a pulse whose first half failed is not whole, and the invocation is hurt
  BY <1>t, <1>6 DEF PulseLow, Fine, Fault
<1>7. CASE PulseHigh
  \* the tool stops with nothing left to reset, or goes on to socket 1
  <2>1. ~hurt' => trst = "low" /\ trst' = "high" /\ unreset' = {}
    BY <1>t, <1>7 DEF PulseHigh, Fine, Fault
  <2>2. pc' \in {"idle", "listen"}
    BY <1>7 DEF PulseHigh, Exit, GoOnTo
  <2> QED BY <1>t, <2>1, <2>2
<1>8. CASE Kill
  BY <1>t, <1>8 DEF Kill, Fault
<1>9. CASE Tick
  BY <1>t, <1>9 DEF Tick
<1>10. CASE PowerRises
  \* nobody waits when the tool does not run: the new edge is late
  <2>1. pc = "idle" => \A s \in Sockets : ~Awaits(s)
    BY DEF Awaits
  <2> QED BY <1>t, <1>10, <2>1 DEF PowerRises, TypeOK, Sockets
<1>11. CASE PowerFalls
  BY <1>t, <1>11 DEF PowerFalls, tool
<1>12. CASE UNCHANGED vars
  BY <1>t, <1>12 DEF vars, tool
<1> QED BY <1>1, <1>2, <1>3, <1>4, <1>5, <1>6, <1>7, <1>8, <1>9, <1>10, <1>11, <1>12
        DEF Next

-------------------------------------------------------------------------------
\* For every waiting time, the variables keep their types and only a socket of
\* the board has power.
THEOREM TrstTypes == Spec => []TypeOK
<1>1. IInv => TypeOK
  BY DEF IInv
<1> QED BY InitInv, StepInv, <1>1, PTL DEF Spec

\* An invocation in which no call fails leaves TRST high and every socket reset
\* whose power came before its wait was over, whatever the invocations before
\* it left, whenever the edges came and however often the power goes.
THEOREM PoweredSocketsAreReset == Spec => []PowerGoodIsReset
<1>1. IInv => PowerGoodIsReset
  BY DEF IInv
<1> QED BY InitInv, StepInv, <1>1, PTL DEF Spec
===============================================================================
