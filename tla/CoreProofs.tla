----------------------------- MODULE CoreProofs -----------------------------
(***************************************************************************)
(* Proofs about Core for every value of its constants.                     *)
(***************************************************************************)
EXTENDS Core, TLAPS

(* A task between two storage calls of Carry, Alter or Delete holds the    *)
(* write side of its own instance's TaskedLock.                           *)
LockInv == \A t \in Tasks : pc[t] \in Writing => wlock[InstanceOf[t]] = t

(* A task that reloaded inside Alter has a callback and a non-null payload *)
(* to run it on (nobody can null the carrier while it holds the lock).    *)
AlterInv ==
    \A t \in Tasks : pc[t] = Reloaded =>
        /\ op[t] \in Ops
        /\ shielded[InstanceOf[t]] \in Payload

TypeInv == TypeOK /\ LockInv /\ AlterInv

LEMMA ApplyType ==
    ASSUME NEW o \in Ops, NEW p \in Payload
    PROVE  Apply(o, p) \in Payload
BY DEF Apply, AttachHost, DetachHost, Ops, Payload

LEMMA TypeInvInit == Init => TypeInv
<1> SUFFICES ASSUME Init PROVE TypeInv
  OBVIOUS
<1>1. TypeOK
  <2>1. byID \in Entry /\ byName \in Entry
    BY DEF Init, Entry, Payload
  <2>2. QED
    BY <2>1 DEF Init, TypeOK, PCs, Entry
<1>2. LockInv /\ AlterInv
  BY DEF Init, LockInv, AlterInv, Writing, Idle, CarryingID, Reloaded,
         WroteName, DeletingName
<1>3. QED
  BY <1>1, <1>2 DEF TypeInv

LEMMA TypeInvStep == TypeInv /\ [Next]_vars => TypeInv'
<1> SUFFICES ASSUME TypeInv, [Next]_vars PROVE TypeInv'
  OBVIOUS
<1> USE InstanceAssumption, NoTaskAssumption
<1> USE DEF TypeInv, TypeOK, LockInv, AlterInv, PCs, Writing, Entry,
            Idle, CarryingID, Reloaded, WroteName, Inspecting, DeletingName
<1>1. CASE UNCHANGED vars
  BY <1>1 DEF vars
<1>2. ASSUME NEW t \in Tasks, CarryWriteName(t) PROVE TypeInv'
  BY <1>2 DEF CarryWriteName, LockFree, Payload
<1>3. ASSUME NEW t \in Tasks, CarryWriteID(t) PROVE TypeInv'
  BY <1>3 DEF CarryWriteID
<1>4. ASSUME NEW t \in Tasks, Read(t) PROVE TypeInv'
  BY <1>4 DEF Read, LockFree
<1>5. ASSUME NEW t \in Tasks, InspectReload(t) PROVE TypeInv'
  BY <1>5 DEF InspectReload, Reload
<1>6. ASSUME NEW t \in Tasks, InspectCallback(t) PROVE TypeInv'
  BY <1>6 DEF InspectCallback
<1>7. ASSUME NEW t \in Tasks, AlterReload(t) PROVE TypeInv'
  BY <1>7 DEF AlterReload, LockFree, Reload
<1>8. ASSUME NEW t \in Tasks, AlterWriteName(t) PROVE TypeInv'
  <2>1. Apply(op[t], shielded[InstanceOf[t]]) \in Payload
    BY <1>8, ApplyType DEF AlterWriteName
  <2>2. QED
    BY <1>8, <2>1 DEF AlterWriteName
<1>9. ASSUME NEW t \in Tasks, AlterWriteID(t) PROVE TypeInv'
  BY <1>9 DEF AlterWriteID
<1>10. ASSUME NEW t \in Tasks, DeleteID(t) PROVE TypeInv'
  BY <1>10 DEF DeleteID, LockFree
<1>11. ASSUME NEW t \in Tasks, DeleteName(t) PROVE TypeInv'
  BY <1>11 DEF DeleteName
<1>12. QED
  BY <1>1, <1>2, <1>3, <1>4, <1>5, <1>6, <1>7, <1>8, <1>9, <1>10, <1>11
  DEF Next

(* Every state of every behaviour of Core is well typed, whichever         *)
(* instances the tasks share: in particular a callback always runs on a    *)
(* carried payload, never on the null carrier Delete leaves behind.        *)
THEOREM TypeCorrect == Spec => []TypeOK
<1>1. Init => TypeInv
  BY TypeInvInit
<1>2. TypeInv /\ [Next]_vars => TypeInv'
  BY TypeInvStep
<1>3. QED
  BY <1>1, <1>2, PTL DEF Spec, TypeInv
-----------------------------------------------------------------------------
(* All tasks call one and the same Core instance, so one TaskedLock        *)
(* orders every Carry, Alter and Delete of the network.                   *)
SharedInstance == \A t, u \in Tasks : InstanceOf[t] = InstanceOf[u]

(* What the lock holder has done to the two entries so far.               *)
AgreeInv ==
    /\ \A t \in Tasks : pc[t] \in {CarryingID, WroteName} =>
                            byName = shielded[InstanceOf[t]]
    /\ \A t \in Tasks : pc[t] = Reloaded => byName = byID
    /\ \A t \in Tasks : pc[t] = DeletingName => byID = NoEntry
    /\ IndicesAgreeAtRest

IInv == TypeInv /\ AgreeInv

(* Under one shared lock, a task that finds the lock free, or whose read  *)
(* lock is granted, sees no other task between two storage calls.         *)
LEMMA NoOtherWriter ==
    ASSUME SharedInstance, TypeInv, NEW t \in Tasks,
           wlock[InstanceOf[t]] = NoTask
    PROVE  \A u \in Tasks : pc[u] \notin Writing
BY NoTaskAssumption DEF SharedInstance, TypeInv, LockInv, TypeOK

LEMMA OneWriter ==
    ASSUME SharedInstance, TypeInv, NEW t \in Tasks, NEW u \in Tasks,
           pc[t] \in Writing, pc[u] \in Writing
    PROVE  t = u
BY DEF SharedInstance, TypeInv, LockInv

LEMMA AgreeInit == Init => AgreeInv
BY DEF Init, AgreeInv, IndicesAgreeAtRest, Idle, CarryingID, WroteName,
       Reloaded, DeletingName

LEMMA AgreeStep ==
    ASSUME SharedInstance
    PROVE  IInv /\ [Next]_vars => AgreeInv'
<1> SUFFICES ASSUME IInv, [Next]_vars PROVE AgreeInv'
  OBVIOUS
<1>0. TypeInv
  BY DEF IInv
<1> USE DEF IInv, AgreeInv, IndicesAgreeAtRest, HalfWritten, Writing,
            Idle, CarryingID, Reloaded, WroteName, Inspecting, DeletingName
<1> USE InstanceAssumption, NoTaskAssumption
<1>1. CASE UNCHANGED vars
  BY <1>1 DEF vars
<1>2. ASSUME NEW t \in Tasks, CarryWriteName(t) PROVE AgreeInv'
  <2>1. \A u \in Tasks : pc[u] \notin Writing
    BY <1>0, <1>2, NoOtherWriter DEF CarryWriteName, LockFree
  <2>2. QED
    BY <1>2, <2>1, <1>0 DEF CarryWriteName, TypeInv, TypeOK
<1>3. ASSUME NEW t \in Tasks, CarryWriteID(t) PROVE AgreeInv'
  <2>1. \A u \in Tasks \ {t} : pc[u] \notin Writing
    BY <1>0, <1>3, OneWriter DEF CarryWriteID
  <2>2. QED
    BY <1>3, <2>1, <1>0 DEF CarryWriteID, TypeInv, TypeOK
<1>4. ASSUME NEW t \in Tasks, Read(t) PROVE AgreeInv'
  <2>1. \A u \in Tasks : pc[u] \notin Writing
    BY <1>0, <1>4, NoOtherWriter DEF Read, LockFree
  <2>2. QED
    BY <1>4, <2>1 DEF Read
<1>5. ASSUME NEW t \in Tasks, InspectReload(t) PROVE AgreeInv'
  <2>1. \A u \in Tasks : pc[u] \notin Writing
    BY <1>0, <1>5, NoOtherWriter DEF InspectReload, Reload
  <2>2. QED
    BY <1>5, <2>1, <1>0 DEF InspectReload, Reload, TypeInv, TypeOK
<1>6. ASSUME NEW t \in Tasks, InspectCallback(t) PROVE AgreeInv'
  BY <1>6, <1>0 DEF InspectCallback, TypeInv, TypeOK
<1>7. ASSUME NEW t \in Tasks, AlterReload(t) PROVE AgreeInv'
  <2>1. \A u \in Tasks : pc[u] \notin Writing
    BY <1>0, <1>7, NoOtherWriter DEF AlterReload, LockFree, Reload
  <2>2. QED
    BY <1>7, <2>1, <1>0 DEF AlterReload, Reload, TypeInv, TypeOK
<1>8. ASSUME NEW t \in Tasks, AlterWriteName(t) PROVE AgreeInv'
  <2>1. \A u \in Tasks \ {t} : pc[u] \notin Writing
    BY <1>0, <1>8, OneWriter DEF AlterWriteName
  <2>2. QED
    BY <1>8, <2>1, <1>0 DEF AlterWriteName, TypeInv, TypeOK
<1>9. ASSUME NEW t \in Tasks, AlterWriteID(t) PROVE AgreeInv'
  <2>1. \A u \in Tasks \ {t} : pc[u] \notin Writing
    BY <1>0, <1>9, OneWriter DEF AlterWriteID
  <2>2. QED
    BY <1>9, <2>1, <1>0 DEF AlterWriteID, TypeInv, TypeOK
<1>10. ASSUME NEW t \in Tasks, DeleteID(t) PROVE AgreeInv'
  <2>1. \A u \in Tasks : pc[u] \notin Writing
    BY <1>0, <1>10, NoOtherWriter DEF DeleteID, LockFree
  <2>2. QED
    BY <1>10, <2>1, <1>0 DEF DeleteID, TypeInv, TypeOK
<1>11. ASSUME NEW t \in Tasks, DeleteName(t) PROVE AgreeInv'
  <2>1. \A u \in Tasks \ {t} : pc[u] \notin Writing
    BY <1>0, <1>11, OneWriter DEF DeleteName
  <2>2. QED
    BY <1>11, <2>1, <1>0 DEF DeleteName, TypeInv, TypeOK
<1>12. QED
  BY <1>1, <1>2, <1>3, <1>4, <1>5, <1>6, <1>7, <1>8, <1>9, <1>10, <1>11
  DEF Next

(* When every task goes through one Core instance, the byID and byName     *)
(* entries of the network hold the same payload whenever no Carry, Alter  *)
(* or Delete is between its two storage calls (spec 3, invariant 1).      *)
THEOREM IndicesAgree ==
    ASSUME SharedInstance
    PROVE  Spec => []IndicesAgreeAtRest
<1>1. Init => IInv
  BY TypeInvInit, AgreeInit DEF IInv
<1>2. IInv /\ [Next]_vars => IInv'
  BY TypeInvStep, AgreeStep DEF IInv
<1>3. IInv => IndicesAgreeAtRest
  BY DEF IInv, AgreeInv
<1>4. QED
  BY <1>1, <1>2, <1>3, PTL DEF Spec
-----------------------------------------------------------------------------
(* What the byID entry holds while a writer is between its storage calls: *)
(* nothing before Carry's byID PUT, the reloaded revision in the carrier   *)
(* after Alter's Reload, and the callback applied to that same revision   *)
(* after Alter's byName PUT.  Before Carry nothing is stored.             *)
StoreInv ==
    /\ ~created => byID = NoEntry
    /\ \A t \in Tasks : pc[t] = CarryingID =>
            byID = NoEntry /\ shielded[InstanceOf[t]] = {}
    /\ \A t \in Tasks : pc[t] = Reloaded => shielded[InstanceOf[t]] = byID
    /\ \A t \in Tasks : pc[t] = WroteName =>
            /\ byID \in Payload /\ op[t] \in Ops
            /\ shielded[InstanceOf[t]] = Apply(op[t], byID)

LEMMA StoreInit == Init => StoreInv
BY DEF Init, StoreInv, Idle, CarryingID, Reloaded, WroteName

LEMMA StoreStep ==
    ASSUME SharedInstance
    PROVE  IInv /\ StoreInv /\ [Next]_vars => StoreInv'
<1> SUFFICES ASSUME IInv, StoreInv, [Next]_vars PROVE StoreInv'
  OBVIOUS
<1>0. TypeInv
  BY DEF IInv
<1> USE DEF StoreInv, Writing, Idle, CarryingID, Reloaded, WroteName,
            Inspecting, DeletingName
<1> USE InstanceAssumption, NoTaskAssumption
<1>1. CASE UNCHANGED vars
  BY <1>1 DEF vars
<1>2. ASSUME NEW t \in Tasks, CarryWriteName(t) PROVE StoreInv'
  <2>1. \A u \in Tasks : pc[u] \notin Writing
    BY <1>0, <1>2, NoOtherWriter DEF CarryWriteName, LockFree
  <2>2. QED
    BY <1>2, <2>1, <1>0 DEF CarryWriteName, TypeInv, TypeOK, PCs
<1>3. ASSUME NEW t \in Tasks, CarryWriteID(t) PROVE StoreInv'
  <2>1. \A u \in Tasks \ {t} : pc[u] \notin Writing
    BY <1>0, <1>3, OneWriter DEF CarryWriteID
  <2>2. QED
    BY <1>3, <2>1, <1>0 DEF CarryWriteID, TypeInv, TypeOK, PCs
<1>4. ASSUME NEW t \in Tasks, Read(t) PROVE StoreInv'
  <2>1. \A u \in Tasks : pc[u] \notin Writing
    BY <1>0, <1>4, NoOtherWriter DEF Read, LockFree
  <2>2. QED
    BY <1>4, <2>1 DEF Read
<1>5. ASSUME NEW t \in Tasks, InspectReload(t) PROVE StoreInv'
  <2>1. \A u \in Tasks : pc[u] \notin Writing
    BY <1>0, <1>5, NoOtherWriter DEF InspectReload, Reload
  <2>2. QED
    BY <1>5, <2>1, <1>0 DEF InspectReload, Reload, TypeInv, TypeOK
<1>6. ASSUME NEW t \in Tasks, InspectCallback(t) PROVE StoreInv'
  BY <1>6 DEF InspectCallback
<1>7. ASSUME NEW t \in Tasks, AlterReload(t) PROVE StoreInv'
  <2>1. \A u \in Tasks : pc[u] \notin Writing
    BY <1>0, <1>7, NoOtherWriter DEF AlterReload, LockFree, Reload
  <2>2. QED
    BY <1>7, <2>1, <1>0 DEF AlterReload, Reload, TypeInv, TypeOK
<1>8. ASSUME NEW t \in Tasks, AlterWriteName(t) PROVE StoreInv'
  <2>1. \A u \in Tasks \ {t} : pc[u] \notin Writing
    BY <1>0, <1>8, OneWriter DEF AlterWriteName
  <2>2. op[t] \in Ops /\ shielded[InstanceOf[t]] = byID /\ byID \in Payload
    BY <1>0, <1>8 DEF AlterWriteName, TypeInv, AlterInv
  <2>3. QED
    BY <1>8, <2>1, <2>2, <1>0 DEF AlterWriteName, TypeInv, TypeOK
<1>9. ASSUME NEW t \in Tasks, AlterWriteID(t) PROVE StoreInv'
  <2>1. \A u \in Tasks \ {t} : pc[u] \notin Writing
    BY <1>0, <1>9, OneWriter DEF AlterWriteID
  <2>2. created
    BY <1>9, NoEntryAssumption DEF AlterWriteID, Payload
  <2>3. QED
    BY <1>9, <2>1, <2>2, <1>0 DEF AlterWriteID, TypeInv, TypeOK
<1>10. ASSUME NEW t \in Tasks, DeleteID(t) PROVE StoreInv'
  <2>1. \A u \in Tasks : pc[u] \notin Writing
    BY <1>0, <1>10, NoOtherWriter DEF DeleteID, LockFree
  <2>2. QED
    BY <1>10, <2>1, <1>0 DEF DeleteID, TypeInv, TypeOK
<1>11. ASSUME NEW t \in Tasks, DeleteName(t) PROVE StoreInv'
  <2>1. \A u \in Tasks \ {t} : pc[u] \notin Writing
    BY <1>0, <1>11, OneWriter DEF DeleteName
  <2>2. QED
    BY <1>11, <2>1, <1>0 DEF DeleteName, TypeInv, TypeOK
<1>12. QED
  BY <1>1, <1>2, <1>3, <1>4, <1>5, <1>6, <1>7, <1>8, <1>9, <1>10, <1>11
  DEF Next

(* Each step of Core is a step of MetadataStore on the byID entry, or     *)
(* leaves byID alone: Carry's byID PUT creates it, Alter's byID PUT       *)
(* applies the callback to the revision it replaces, DELETE byID removes  *)
(* it.                                                                     *)
LEMMA RefineStep ==
    ASSUME SharedInstance
    PROVE  IInv /\ StoreInv /\ [Next]_vars => [Abs!Next]_byID
<1> SUFFICES ASSUME IInv, StoreInv, [Next]_vars PROVE [Abs!Next]_byID
  OBVIOUS
<1> USE DEF StoreInv, CarryingID, WroteName, DeletingName
<1>1. CASE UNCHANGED vars
  BY <1>1 DEF vars
<1>2. ASSUME NEW t \in Tasks, CarryWriteID(t) PROVE Abs!Create
  BY <1>2 DEF CarryWriteID, Abs!Create
<1>3. ASSUME NEW t \in Tasks, AlterWriteID(t) PROVE Abs!Mutate
  <2>1. byID \in Payload /\ op[t] \in Ops
        /\ byID' = Apply(op[t], byID)
    BY <1>3 DEF AlterWriteID
  <2>2. byID # NoEntry
    BY <2>1, NoEntryAssumption DEF Payload
  <2>3. \E o \in Ops : byID' = Apply(o, byID)
    BY <2>1
  <2>4. QED
    BY <2>2, <2>3 DEF Abs!Mutate, Abs!Ops, Abs!Apply, Abs!AttachHost,
                      Abs!DetachHost, Ops, Apply, AttachHost, DetachHost
<1>4. ASSUME NEW t \in Tasks, DeleteID(t) PROVE [Abs!Remove]_byID
  BY <1>4 DEF DeleteID, Abs!Remove
<1>5. ASSUME NEW t \in Tasks,
             \/ CarryWriteName(t) \/ Read(t)
             \/ InspectReload(t) \/ InspectCallback(t)
             \/ AlterReload(t) \/ AlterWriteName(t) \/ DeleteName(t)
      PROVE  UNCHANGED byID
  BY <1>5 DEF CarryWriteName, Read, InspectReload, InspectCallback,
              AlterReload, AlterWriteName, DeleteName
<1>6. QED
  BY <1>1, <1>2, <1>3, <1>4, <1>5 DEF Next, Abs!Next

(* When every task goes through one Core instance, the byID entry of the  *)
(* network behaves as the metadata register of MetadataStore: created     *)
(* once by Carry, changed only by whole AttachHost/DetachHost callbacks   *)
(* applied to its latest revision, removed by Delete, so no Alter is lost *)
(* (spec 5 and 8), for any number of tasks and hosts.                     *)
THEOREM CoreLinearizable ==
    ASSUME SharedInstance
    PROVE  Spec => Linearizable
<1>1. Init => IInv /\ StoreInv /\ Abs!Init
  BY TypeInvInit, AgreeInit, StoreInit DEF IInv, Init, Abs!Init
<1>2. IInv /\ StoreInv /\ [Next]_vars => IInv' /\ StoreInv'
  BY TypeInvStep, AgreeStep, StoreStep DEF IInv
<1>3. IInv /\ StoreInv /\ [Next]_vars => [Abs!Next]_byID
  BY RefineStep
<1>4. QED
  BY <1>1, <1>2, <1>3, PTL DEF Spec, Linearizable, Abs!Spec

=============================================================================
