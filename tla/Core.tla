-------------------------------- MODULE Core --------------------------------
(***************************************************************************)
(* The persistent object of core.go for one network: the two object-       *)
(* storage entries networks/byID/<id> and networks/byName/<name>, the      *)
(* in-memory Core instances that carry the payload (field shielded) and    *)
(* the TaskedLock each instance embeds, and the tasks that call Carry,     *)
(* Read, Inspect, Alter and Delete on them.                                *)
(*                                                                         *)
(* Each object-storage GET or PUT is one step, so that tasks interleave    *)
(* between them the way goroutines do.  A task's instance is fixed by      *)
(* InstanceOf: tasks given one instance share its lock (the network object *)
(* handed to the subtasks of network.Create); tasks given different        *)
(* instances each got their own from LoadNetwork, which builds a new Core  *)
(* on every call.                                                          *)
(***************************************************************************)
EXTENDS NetworkHosts

CONSTANTS Tasks,       \* concurrent tasks (goroutines) using the network
          Instances,   \* in-memory Core instances of the network
          InstanceOf,  \* the instance each task calls
          Creator,     \* the task running network.Create, the one that Carries
          NoTask       \* the owner of a TaskedLock nobody holds

ASSUME InstanceAssumption == InstanceOf \in [Tasks -> Instances]
ASSUME CreatorAssumption == Creator \in Tasks
ASSUME NoTaskAssumption == NoTask \notin Tasks

VARIABLES
    byID,      \* content of networks/byID/<id>, or NoEntry
    byName,    \* content of networks/byName/<name>, or NoEntry
    shielded,  \* shielded[i]: payload carried by instance i, NoEntry when null
    wlock,     \* wlock[i]: task holding the write side of i's TaskedLock
    rlocks,    \* rlocks[i]: tasks holding the read side of i's TaskedLock
    pc,        \* pc[t]: where task t is inside a Core method
    op,        \* op[t]: the callback of the Alter task t is running
    created    \* Carry has saved the network's metadata (both entries)

vars == <<byID, byName, shielded, wlock, rlocks, pc, op, created>>

\* Program points between two object-storage calls.
Idle       == "idle"
CarryingID == "carryID"      \* Carry wrote byName, byID next
Reloaded   == "reloaded"     \* Alter reloaded, callback and byName write next
WroteName  == "wroteName"    \* Alter wrote byName, byID next
Inspecting == "inspecting"   \* Inspect reloaded, callback next
DeletingName == "deleteName" \* Delete removed byID, byName next

PCs == {Idle, CarryingID, Reloaded, WroteName, Inspecting, DeletingName}

\* Points where a task holds the write side of its instance's lock.
Writing == {CarryingID, Reloaded, WroteName, DeletingName}

\* Points where byID and byName may legitimately differ (a write is half done).
HalfWritten == {CarryingID, WroteName, DeletingName}

NoOp == [kind |-> "none", host |-> NoTask]

TypeOK ==
    /\ byID \in Entry
    /\ byName \in Entry
    /\ shielded \in [Instances -> Entry]
    /\ wlock \in [Instances -> Tasks \cup {NoTask}]
    /\ rlocks \in [Instances -> SUBSET Tasks]
    /\ pc \in [Tasks -> PCs]
    /\ op \in [Tasks -> Ops \cup {NoOp}]
    /\ created \in BOOLEAN

\* Nobody holds either side of the instance's TaskedLock.
LockFree(i) == wlock[i] = NoTask /\ rlocks[i] = {}

Init ==
    /\ byID \in {NoEntry, {}}
    /\ byName = byID
    /\ shielded = [i \in Instances |-> NoEntry]
    /\ wlock = [i \in Instances |-> NoTask]
    /\ rlocks = [i \in Instances |-> {}]
    /\ pc = [t \in Tasks |-> Idle]
    /\ op = [t \in Tasks |-> NoOp]
    /\ created = (byID # NoEntry)

(* Reload (core.go 354-371): readByID GETs byID/<id> and deserialises it *)
(* into instance i's shielded payload; when the entry has vanished it      *)
(* fails with NotFound and the payload is left as it was.                 *)
Reload(i) ==
    /\ byID # NoEntry
    /\ shielded' = [shielded EXCEPT ![i] = byID]

-----------------------------------------------------------------------------
(* Carry (core.go 204-228): refused unless the instance is null; takes the *)
(* write lock, pins the new network (no host yet), then write() PUTs       *)
(* byName and then byID.                                                   *)
CarryWriteName(t) ==
    LET i == InstanceOf[t] IN
    /\ t = Creator /\ ~created
    /\ pc[t] = Idle
    /\ shielded[i] = NoEntry
    /\ LockFree(i)
    /\ wlock' = [wlock EXCEPT ![i] = t]
    /\ shielded' = [shielded EXCEPT ![i] = {}]
    /\ byName' = {}
    /\ pc' = [pc EXCEPT ![t] = CarryingID]
    /\ UNCHANGED <<byID, rlocks, op, created>>

CarryWriteID(t) ==
    LET i == InstanceOf[t] IN
    /\ pc[t] = CarryingID
    /\ byID' = shielded[i]
    /\ wlock' = [wlock EXCEPT ![i] = NoTask]
    /\ pc' = [pc EXCEPT ![t] = Idle]
    /\ created' = TRUE
    /\ UNCHANGED <<byName, shielded, rlocks, op>>

(* Read (core.go 252-307): refused unless the instance is null; under the *)
(* write lock, readByReference reads byID/<ref>, and on NotFound          *)
(* byName/<ref>.  A reference is the network's id or its name; the other  *)
(* folder has no entry under it.  NotFound is retried until the 10 s      *)
(* budget ends, so a failed attempt leaves everything as it was.          *)
Read(t) ==
    LET i == InstanceOf[t] IN
    /\ pc[t] = Idle
    /\ shielded[i] = NoEntry
    /\ LockFree(i)
    /\ \E found \in {byID, byName} :
          shielded' = [shielded EXCEPT ![i] = found]
    /\ UNCHANGED <<byID, byName, wlock, rlocks, pc, op, created>>

(* Inspect (core.go 127-158): read lock, Reload (a GET of byID into the   *)
(* shielded payload), then the callback reads it.  When byID has vanished *)
(* Reload fails and Inspect returns with nothing changed.                 *)
InspectReload(t) ==
    LET i == InstanceOf[t] IN
    /\ pc[t] = Idle
    /\ shielded[i] # NoEntry
    /\ wlock[i] = NoTask
    /\ rlocks' = [rlocks EXCEPT ![i] = @ \cup {t}]
    /\ Reload(i)
    /\ pc' = [pc EXCEPT ![t] = Inspecting]
    /\ UNCHANGED <<byID, byName, wlock, op, created>>

InspectCallback(t) ==
    LET i == InstanceOf[t] IN
    /\ pc[t] = Inspecting
    /\ rlocks' = [rlocks EXCEPT ![i] = @ \ {t}]
    /\ pc' = [pc EXCEPT ![t] = Idle]
    /\ UNCHANGED <<byID, byName, shielded, wlock, op, created>>

(* Alter (core.go 161-195): write lock, Reload (GET byID), the callback   *)
(* on the shielded payload, then write(): PUT byName, PUT byID, unlock.   *)
(* When byID has vanished Reload fails and Alter returns, nothing changed.*)
\* Variant of AlterReload that does not wait for the TaskedLock (SafeLock
\* left out of Alter): two Alters on one instance overlap.
AlterReloadUnlocked(t) ==
    LET i == InstanceOf[t] IN
    /\ pc[t] = Idle
    /\ shielded[i] # NoEntry
    /\ \E o \in Ops : op' = [op EXCEPT ![t] = o]
    /\ wlock' = [wlock EXCEPT ![i] = t]
    /\ Reload(i)
    /\ pc' = [pc EXCEPT ![t] = Reloaded]
    /\ UNCHANGED <<byID, byName, rlocks, created>>

AlterReload(t) ==
    LET i == InstanceOf[t] IN
    /\ pc[t] = Idle
    /\ shielded[i] # NoEntry
    /\ LockFree(i)
    /\ \E o \in Ops : op' = [op EXCEPT ![t] = o]
    /\ wlock' = [wlock EXCEPT ![i] = t]
    /\ Reload(i)
    /\ pc' = [pc EXCEPT ![t] = Reloaded]
    /\ UNCHANGED <<byID, byName, rlocks, created>>

AlterWriteName(t) ==
    LET i == InstanceOf[t]
        p == Apply(op[t], shielded[i])
    IN
    /\ pc[t] = Reloaded
    /\ shielded' = [shielded EXCEPT ![i] = p]
    /\ byName' = p
    /\ pc' = [pc EXCEPT ![t] = WroteName]
    /\ UNCHANGED <<byID, wlock, rlocks, op, created>>

AlterWriteID(t) ==
    LET i == InstanceOf[t] IN
    /\ pc[t] = WroteName
    /\ byID' = shielded[i]
    /\ wlock' = [wlock EXCEPT ![i] = NoTask]
    /\ pc' = [pc EXCEPT ![t] = Idle]
    /\ op' = [op EXCEPT ![t] = NoOp]
    /\ UNCHANGED <<byName, shielded, rlocks, created>>

(* Delete (core.go 391-443): write lock, Search then Delete byID (absent  *)
(* is tolerated), the same for byName, then the carrier is nulled.        *)
DeleteID(t) ==
    LET i == InstanceOf[t] IN
    /\ pc[t] = Idle
    /\ shielded[i] # NoEntry
    /\ LockFree(i)
    /\ wlock' = [wlock EXCEPT ![i] = t]
    /\ byID' = NoEntry
    /\ pc' = [pc EXCEPT ![t] = DeletingName]
    /\ UNCHANGED <<byName, shielded, rlocks, op, created>>

\* Variant of DeleteName whose Search looks byName up under the id: it
\* finds nothing, which Delete tolerates, and the byName entry stays.
DeleteNameSearchByID(t) ==
    LET i == InstanceOf[t] IN
    /\ pc[t] = DeletingName
    /\ shielded' = [shielded EXCEPT ![i] = NoEntry]
    /\ wlock' = [wlock EXCEPT ![i] = NoTask]
    /\ pc' = [pc EXCEPT ![t] = Idle]
    /\ UNCHANGED <<byID, byName, rlocks, op, created>>

DeleteName(t) ==
    LET i == InstanceOf[t] IN
    /\ pc[t] = DeletingName
    /\ byName' = NoEntry
    /\ shielded' = [shielded EXCEPT ![i] = NoEntry]
    /\ wlock' = [wlock EXCEPT ![i] = NoTask]
    /\ pc' = [pc EXCEPT ![t] = Idle]
    /\ UNCHANGED <<byID, rlocks, op, created>>

-----------------------------------------------------------------------------
Next ==
    \E t \in Tasks :
        \/ CarryWriteName(t) \/ CarryWriteID(t)
        \/ Read(t)
        \/ InspectReload(t) \/ InspectCallback(t)
        \/ AlterReload(t) \/ AlterWriteName(t) \/ AlterWriteID(t)
        \/ DeleteID(t) \/ DeleteName(t)

Spec == Init /\ [][Next]_vars

-----------------------------------------------------------------------------
(* Properties.                                                             *)

(* Spec 3, invariant 1: byID/<id> and byName/<name> hold the same bytes at *)
(* rest, i.e. whenever no Carry, Alter or Delete is between its two PUTs   *)
(* or DELETEs (write() in core.go 332-352 and Delete in 391-443).          *)
IndicesAgreeAtRest ==
    (\A t \in Tasks : pc[t] \notin HalfWritten) => byID = byName

(* Spec 5 and 8: the Alters of the tasks are linearisable, each callback   *)
(* applied to the latest revision at the moment its byID write lands, so   *)
(* no concurrent AttachHost or DetachHost is lost.  The byID entry         *)
(* behaves as the abstract metadata register of MetadataStore.            *)
Abs == INSTANCE MetadataStore WITH meta <- byID

Linearizable == Abs!Spec
=============================================================================
