------------------------- MODULE GcpCreateHostProofs -------------------------
(***************************************************************************)
(* Proof that the GCP CreateHost retry loop returns success only with a    *)
(* running instance whose id is known, for every number of attempts.       *)
(***************************************************************************)
EXTENDS GcpCreateHost, TLAPS

(* A success is final and was reached from WaitHostReady, which only a    *)
(* built server reaches.                                                   *)
HostInv ==
    /\ TypeOK
    /\ pc = "waitReady" => server
    /\ result = "ok" => pc = "done" /\ inst = "running" /\ server
    /\ result = "none" => pc # "done"

LEMMA HostInvInit == Init => HostInv
<1> SUFFICES ASSUME Init PROVE HostInv
  OBVIOUS
<1>1. attempts \in 1..MaxAttempts
  BY MaxAttemptsAssumption DEF Init
<1> QED
  BY <1>1 DEF Init, HostInv, TypeOK, Instances, Steps

LEMMA HostInvStep == HostInv /\ [Next]_vars => HostInv'
<1> SUFFICES ASSUME HostInv, [Next]_vars PROVE HostInv'
  OBVIOUS
<1> USE DEF HostInv, TypeOK, Instances, Steps
<1>1. CASE Insert
  BY <1>1 DEF Insert, AttemptFails, Desist
<1>2. CASE OperationWait
  BY <1>2 DEF OperationWait, AttemptFails
<1>3. CASE GetInstance
  BY <1>3 DEF GetInstance, AttemptFails, Desist
<1>4. CASE WaitHostReady
  BY <1>4 DEF WaitHostReady
<1>5. CASE Kill
  BY <1>5 DEF Kill, AttemptFails
<1>6. CASE Retry
  <2>1. attempts' \in 1..MaxAttempts
    BY <1>6, MaxAttemptsAssumption DEF Retry
  <2> QED
    BY <1>6, <2>1 DEF Retry
<1>7. CASE GiveUp
  BY <1>7 DEF GiveUp
<1>8. CASE Boot
  BY <1>8 DEF Boot
<1>9. CASE UNCHANGED vars
  BY <1>9 DEF vars
<1> QED
  BY <1>1, <1>2, <1>3, <1>4, <1>5, <1>6, <1>7, <1>8, <1>9 DEF Next

(* For every bound on the attempts, Stack.CreateHost returns a host only   *)
(* when the instance is running and its id was obtained from GCP: a        *)
(* success never hands over an instance still booting or an unknown one.  *)
THEOREM SuccessIsReady == Spec => []ReadyOnSuccess
<1>1. HostInv => ReadyOnSuccess
  BY DEF HostInv, ReadyOnSuccess
<1> QED
  BY <1>1, HostInvInit, HostInvStep, PTL DEF Spec

(* CreateHost returns success only on a step that leaves the instance     *)
(* running and its id known (the action property ReadyOnReturn checked by  *)
(* the run of GcpHostPower): the invariant holds after the step.           *)
THEOREM ReturnsReady == Spec => ReadyOnReturn
<1>1. Spec => []HostInv
  BY HostInvInit, HostInvStep, PTL DEF Spec
<1>2. HostInv /\ [Next]_vars
        => [result = "none" /\ result' = "ok" => inst' = "running" /\ server']_vars
  BY HostInvStep DEF HostInv
<1> QED
  BY <1>1, <1>2, PTL DEF Spec, ReadyOnReturn

=============================================================================
