-------------------------- MODULE GcpHostPowerProofs --------------------------
(***************************************************************************)
(* Proof that a power operation of the GCP driver returns nil only once   *)
(* the instance has the status the call asked for (PowerOpHonest).  The   *)
(* invariant ties each wait to the status of its call: a reboot's first   *)
(* wait expects TERMINATED while the call asks for RUNNING, and only its  *)
(* second wait may return success.                                         *)
(***************************************************************************)
EXTENDS GcpHostPower, TLAPS

PowerInv ==
    /\ op \in {"none", "rebootStart"} \cup DOMAIN Target
    /\ op \in {"stopWait", "startWait", "rebootStartWait"} => Target[op] = asked
    /\ op \in {"rebootStopWait", "rebootStart"} => asked = "running"
    /\ op # "none" => Created
    /\ opResult = "ok" => inst = asked /\ asked \in {"terminated", "running"} /\ Created

LEMMA PowerInvInit == PowerInit => PowerInv
  BY DEF PowerInit, PowerInv, Init, Target

LEMMA PowerInvStep == PowerInv /\ [PowerNext]_pvars => PowerInv'
<1> SUFFICES ASSUME PowerInv, [PowerNext]_pvars PROVE PowerInv'
  OBVIOUS
<1> USE DEF PowerInv, Target, Created
<1>1. CASE Next /\ UNCHANGED <<op, asked, opResult, lastState>>
  <2>1. Created => UNCHANGED <<pc, result>>
    BY <1>1 DEF Next, Insert, OperationWait, GetInstance, WaitHostReady, Kill,
                Retry, GiveUp, Boot, AttemptFails, Desist
  <2>2. opResult = "ok" => UNCHANGED inst
    BY <1>1, <2>1 DEF Next, Insert, OperationWait, GetInstance, WaitHostReady, Kill,
                      Retry, GiveUp, Boot, AttemptFails, Desist
  <2> QED
    BY <1>1, <2>1, <2>2
<1>2. CASE StopHost
  BY <1>2 DEF StopHost, Refused, CallStop
<1>3. CASE StartHost
  BY <1>3 DEF StartHost, Refused, CallStart
<1>4. CASE RebootHost
  BY <1>4 DEF RebootHost, Refused, CallStop
<1>5. CASE RebootStart
  BY <1>5 DEF RebootStart, Refused, CallStart
<1>6. CASE WaitOperation
  <2>1. op \in {"stopWait", "startWait", "rebootStopWait", "rebootStartWait"}
    BY <1>6 DEF WaitOperation
  <2>2. CASE op = "stopWait"
    BY <1>6, <2>2 DEF WaitOperation, AfterWait
  <2>3. CASE op = "startWait"
    BY <1>6, <2>3 DEF WaitOperation, AfterWait
  <2>4. CASE op = "rebootStopWait"
    BY <1>6, <2>4 DEF WaitOperation, AfterWait
  <2>5. CASE op = "rebootStartWait"
    BY <1>6, <2>5 DEF WaitOperation, AfterWait
  <2> QED
    BY <2>1, <2>2, <2>3, <2>4, <2>5
<1>7. CASE GetHostState
  BY <1>7 DEF GetHostState, vars
<1>8. CASE Settle
  BY <1>8 DEF Settle
<1>9. CASE UNCHANGED pvars
  BY <1>9 DEF pvars, vars
<1> QED
  BY <1>1, <1>2, <1>3, <1>4, <1>5, <1>6, <1>7, <1>8, <1>9 DEF PowerNext

(* For every MaxAttempts, a StopHost, StartHost or RebootHost that returned *)
(* nil has left the created instance in the status it asked for.           *)
THEOREM PowerHonest == PowerSpec => []PowerOpHonest
<1>1. PowerInv => PowerOpHonest
  BY DEF PowerInv, PowerOpHonest
<1> QED
  BY <1>1, PowerInvInit, PowerInvStep, PTL DEF PowerSpec

=============================================================================
