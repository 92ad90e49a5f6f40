# TLA+ models of SafeScale's persistent metadata and network resource

This directory holds TLA+ models of the SafeScale sources under `src/`, with TLC
configurations and TLAPS proofs. `PROJECT.json` lists the components, the runs,
the mutants, which source lines each definition models (`map`), the findings, the
hazards and the theorems.

## 1. The system (inventory)

| Part | Source | State | Operations | Modelled by |
|---|---|---|---|---|
| Persistent object `Core` | `lib/server/resources/operations/core.go` | object-storage folders `byID/<id>` and `byName/<name>`; per instance: the `Shielded` carrier (nil = null) and a `TaskedLock` | `Carry`, `Read`, `Inspect`, `Alter`, `Reload`, `write`, `Delete` | `Core` |
| Network hosts registry | `unnamed/part_001` 790-854 | `hosts.v1` property: the set of attached hosts | `AttachHost`, `DetachHost` (both Alter callbacks) | `NetworkHosts` |
| Network Create | `unnamed/part_001` 308-718 | provider network, VIP, key pair, gateways, metadata; deferred compensations | `Create` | `NetworkCreate` |
| Network Delete | `unnamed/part_001` 940-1110 | the same | `Delete`, `deleteGateway` | `NetworkDelete`, refining `NetworkTeardown` |
| Network queries | `unnamed/part_001` | none (reads) | `GetGateway`, `GetCIDR`, `ListHosts`, `ToProtocol`, ... | planned, as operators |
| Error model | `lib/server/iaas/stacks/gcp/compute.go` 1130-1876 | the error a handler holds, the gRPC status it returns, the error the client rebuilds | constructors, `Wrap`, `NewError`, `ErrListError`, `ToGRPCStatus`, `FromGRPCStatus` | `ErrorModel` (kinds and codes; messages, cause chains and consequences not modelled) |
| GCP stack | `lib/server/iaas/stacks/gcp/compute.go` 1-1130 | provider resources | `CreateHost` retry loop, `DeleteHost`, ... | `GcpCreateHost` (CreateHost loop), `GcpHostPower` (stop, start, reboot, state) |
| gRPC service, SSH, cluster interface, tests | `unnamed/part_000`, `part_001` 1-194, `part_002` 185-268, `integration_tests` | none of their own | request translation | not modelled |

How the parts interact. A network operation loads the network with
`LoadNetwork` (part_001 line 281), which builds a **new** `Core` and reads its
metadata. Every mutation then goes through `Core.Alter`: take the instance's
write lock, `Reload` from storage (byID), run the callback on the carrier, and
`write` (PUT byName, then PUT byID). `Delete` takes the same lock, deletes byID
then byName and nulls the carrier. `Inspect` takes a read lock, reloads and runs
a read-only callback. `Carry` gives a null instance its first payload and writes
it; `Read` fills a null instance from storage by id or by name. (core.go's
`Read` requires a null carrier at 262 and then loads through that carrier's
`Alter` at 311; the model gives `Read` the intended effect, a successful
load, rather than the failure on a nil carrier.)

What makes this hard:
- the TaskedLock is a field of the instance, and every `LoadNetwork` makes a new
  instance, so two tasks that each loaded the network are not excluded by it;
- `write` and `Delete` are two storage calls each, so another task's step can
  fall between them;
- `Alter` reads (Reload) long before it writes, so a stale revision can be written back;
- Create and Delete stop half way on an error and must undo what they did
  (deferred compensations).

## 2. Modules

- `NetworkHosts`: the data. The payload is the set of hosts attached to the
  network (`hosts.v1`); `NoEntry` stands for a missing object or a null carrier.
  `AttachHost`/`DetachHost` are the callbacks of part_001 790-854; `Apply` is
  how `Alter` runs a callback on the carrier. `hosts.v1` lives in
  `Core.properties` (core.go 49), which the model stores with the payload
  in both entries, as spec 6 describes and as the four-argument `NewCore`
  called at part_001:261 implies. That constructor is not under src/, and
  core.go's own `write` (332-352) and `Reload` (355-371) neither serialize
  nor restore `properties`; under that `write`, every host change is lost
  whatever the interleaving.
- `MetadataStore`: the abstract specification of what the metadata promises,
  which is one register that is created, mutated atomically by an attach or a
  detach, and removed.
- `Core`: the implementation. Its variables are:
  - `byID` and `byName`, the two storage entries;
  - `shielded[i]`, the carrier of instance `i`;
  - `wlock[i]` and `rlocks[i]`, the TaskedLock;
  - `pc[t]` and `op[t]`, the position and pending callback of task `t`;
  - `created`, a history variable.

  `InstanceOf` says which instance each task holds. The actions follow the
  code's step order:
  - `CarryWriteName`/`CarryWriteID`;
  - `Read`;
  - `InspectReload`/`InspectCallback`;
  - `AlterReload` (lock, Reload, choose the callback);
  - `AlterWriteName` (callback, then PUT byName);
  - `AlterWriteID` (PUT byID, unlock);
  - `DeleteID`/`DeleteName`.

  Each step is one storage call, so other tasks interleave exactly where the
  code lets them. `Core` refines `MetadataStore` with `meta <- byID` (the
  property `Linearizable`).
- `MC_Core`: two choices of `InstanceOf`:
  - `MCSharedInstance`: all tasks share one instance;
  - `MCOwnInstance`: one task has its own instance, which is what `LoadNetwork` does.
- `CoreProofs`: the TLAPS proofs about Core.
- `NetworkDelete`: `network.Delete` (part_001 939-1100) and `deleteGateway`
  (720-751), called by one client that retries after errors, up to
  `MaxCalls` calls.
  - State: what exists for one network, which is
    - the provider network (`netUp`) and the VIP (`vip`);
    - for each gateway, its provider host (`gwHost`), its host metadata
      (`gwMeta`) and whether the network metadata records its id (`gwRec`);
    - the network metadata (`meta`) and whether hosts are attached;
    - the step of the current call (`pc`) and what the last call returned
      (`result`).
  - Actions: one per provider or storage call and per outcome the code
    tells apart:
    - `RefuseAttached` (the hosts check), then `Checkpoint` (abort);
    - `SkipGateway`, `LoadHostFails` and `DeleteGateway` for the primary
      gateway, then the secondary one;
    - `DeleteVIP`, whose failure is only logged;
    - `DeleteNetworkOK`, `DeleteNetworkNotFound`, `DeleteNetworkTimeout`
      (the network may or may not have gone) and `DeleteNetworkOther`.
      The provider refuses to delete a network while a gateway host is
      still on it (`NoHostOnNetwork`), the same contract as
      `NetworkCreate`'s `UndoNetwork`; the refusal is an error of the
      default case, `DeleteNetworkOther`;
    - `AlterWrite`, the write-back at the end of Alter;
    - `DeleteMetadata` (`Core.Delete`).
  - `DeleteOutcome` gives what a deletion may do: remove the object or not,
    report an error or not. A deletion never both keeps the object and
    reports success.
  - `Init` is a network as Create leaves it. With `RecordedIDs` it covers
    both possibilities for the gateway ids: Create stores them, or does
    not, since lines 636 and 648 are commented out.
- `NetworkTeardown`: what Delete promises about the order of a teardown
  (spec 4.7). It has three variables: the provider network, the network
  metadata, and the recorded gateways whose metadata exists. The recorded
  gateways' metadata is removed first, the network once none is left, and
  the metadata once the network is gone. Nothing comes back. `NetworkDelete`
  instantiates it as `Teardown` with `net <- netUp`, `md <- meta` and
  `gws <- {g : gwRec[g] /\ gwMeta[g]}`. Its property `TeardownOrdered` is
  `Teardown!Spec`.
- `NetworkDeleteProofs`: the TLAPS proofs about Delete.
- `NetworkCreate`: `network.Create` (part_001 308-718).
  - The parent task's `pc` walks through the steps in the code's order:
    prechecks, CreateNetwork, CreateVIP (when failing over), Carry, the
    GATEWAY_CREATION Alter, template and image, CreateKeyPair, start the
    gateway subtasks, wait on them, check their results, the
    GATEWAY_CONFIGURATION Alter, start and wait on the finalisation
    subtasks, and the READY Alter. Each step may fail.
    The type assertions on a subtask's result (562-564, 594-596) are left
    out: by spec 4.7 a gateway subtask returns `{host, userdata}`, so they
    cannot fail. (Were one to fail, the first would return without waiting
    on the secondary, like the path of `create_unjoined`.)
  - The subtasks are actions of their own, `GatewayTask(g)` and
    `FinalizeTask(g)`. They run concurrently with the parent. Their bodies are
    not in the sources: they are modelled from spec 4.7, and a gateway cannot
    be created on a network that is already gone.
  - Every Go `defer` that a step registers is pushed on `defers`. On an error
    return (`Fail`) the parent unwinds, unless `KeepOnFailure` is set: it pops
    the last compensation and runs it (`UndoGateway`, `UndoMeta`, `UndoVIP`,
    `UndoNetwork`). Each compensation may fail; its error becomes a
    consequence (`compFailed`).
  - The provider refuses to delete a network while a host is still on it.

- `GcpCreateHost`: the retry loop of the GCP driver's `Stack.CreateHost`
  (compute.go 355-404). One attempt is a sequence of steps:
  - `buildGcpMachine`: `Insert`, `OperationWait`, `GetInstance`;
  - then `WaitHostReady`;
  - then `Kill` (`DeleteHost`) when the host does not become ready.

  `Retry` and `GiveUp` are the retry helper's choice after a failed attempt,
  with at most `MaxAttempts` attempts within the long-operation timeout. A
  403 ends the loop (`Desist`). `Boot` is the cloud finishing an instance.
  The instance is named after the request, so an instance left over makes
  the next `Insert` conflict.
- `GcpCreateHostProofs`: the TLAPS proofs about it.
- `GcpHostPower` extends `GcpCreateHost` with what may be done to the host
  once CreateHost returned it (compute.go 713-736, 821-905): `StopHost`,
  `StartHost` and `RebootHost` (a `Stop` then a `Start`, `RebootStart`),
  each an SDK call that may be refused (`Refused`) followed by
  `waitUntilOperationIsSuccessfulOrTimeout` (`WaitOperation`, which may time
  out), and `GetHostState`, which sets `lastState` through `StateConvert`
  (the code's `stateConvert` switch). `Settle` is the cloud finishing a stop
  or a start. Calls on one host are made one at a time. The wait helper is
  not in the repository and the spec does not describe it. `WaitOperation`
  models the call sites (`DesiredState: "DONE"`, then `return err`) under
  an assumed contract: the operation is DONE once the instance has reached
  the status it asked for, and otherwise the wait times out. `PowerOpHonest`
  and `PowerHonest` hold under that assumption only.

- `ErrorModel`: the error values of package scerr as the gRPC boundary sees
  them, a record of a kind (the Go type: a typed error, a bare `errCore`, an
  `ErrList`, a plain Go error) and the gRPC code. `Constructors` is the
  table of the typed constructors and the code each sets (compute.go
  1440-1795; `NotImplementedErrorWithReason` sets none, so its code is the
  zero, OK). `Wrap`, `NewError` and `ErrListError` are operators on it.
  `StatusOf`/`ToGRPCStatus` are the conversion: `grpcstatus.Errorf` of
  `codes.OK` is nil. `FromGRPCStatus` is the client's switch over codes
  (`KindOfCode`). The actions are one call: `Decorate` (the handler wraps
  the error, at most `MaxWraps` times), `Send` and `Receive`.
- `ErrorModelProofs`: the TLAPS proof of `ClientCode` about it.

## 3. Runs

The Core runs have 3 tasks, 2 hosts and 2 instances. Three tasks are enough for
a creator and two concurrent mutators. Two hosts make attach and detach
distinguishable and let two Alters carry different payloads, so a lost update
is visible. The Delete runs use one network, retried by one client.

| Run | cfg | Expect | Shows |
|---|---|---|---|
| `core_shared` | `MC_Core_shared.cfg` | pass | with one shared instance, the lock keeps byID = byName at rest (`IndicesAgreeAtRest`) and Core refines MetadataStore (`Linearizable`) |
| `core_own_lost_update` | `MC_Core_own_Linearizable.cfg` | violation | with instances per task, an Alter writes a payload reloaded before another task's Delete or Alter (the same interleavings also leave byID and byName different at rest; `IndicesAgreeAtRest` holds in `core_shared` only) |
| `delete_retry` | `NetworkDelete_retry.cfg` | pass | with every failure and up to 3 calls, the network metadata outlives the provider network (`NoUntrackedNetwork`) and a successful Delete removed the network, its metadata and the recorded gateways' metadata (`SuccessMeansGone`); Delete implements `NetworkTeardown` (`TeardownOrdered`) |
| `delete_notfound` | `NetworkDelete_NotFoundCleansMetadata.cfg` | violation | a NotFound from DeleteNetwork returns before `Core.Delete`; the metadata stays forever |
| `delete_timeout` | `NetworkDelete_TimeoutOnlyIfPresent.cfg` | violation | Timeout is returned even when the poll saw the network disappear |
| `delete_unreachable_gateway` | `NetworkDelete_GatewayReachable.cfg` | violation | a failed DeleteHost leaves the gateway VM while deleteGateway removes its metadata; every retry then skips the gateway and the provider refuses DeleteNetwork, so the network can never be deleted |

| `create_rollback` | `NetworkCreate_rollback.cfg` | pass | a rolled-back Create whose compensations succeeded leaves nothing behind (`RollbackComplete`); a successful one has the network, the metadata at READY, the gateways and the VIP (`SuccessComplete`); under fairness, every Create ends with no subtask running (`Quiescence`) |
| `create_keypair_leak` | `NetworkCreate_NoKeyPairLeak.cfg` | violation | the key pair has no compensation |
| `create_unjoined` | `NetworkCreate_JoinedBeforeReturn.cfg` | violation | Create returns while a gateway subtask still runs |

| `gcp_host` | `GcpHostPower_retry.cfg` | pass | the step where CreateHost succeeds hands over a running instance with a known id (`ReadyOnReturn`, an action property, since a later stop makes the state form false), and a stop, start or reboot that returns nil has reached the status it asked for (`PowerOpHonest`) |
| `error_grpc_nil` | `ErrorModel_ErrorReachesClient.cfg` | violation | an error from `NewError`, `ErrListError` or `NotImplementedErrorWithReason` (or a `Wrap` of one) has code OK, becomes a nil status, and the client sees success |
| `gcp_orphan` | `GcpCreateHost_NoOrphanOnError.cfg` | violation | CreateHost returns an error with its instance still alive: the kill branch is dead code, because buildGcpMachine never returns a host with an error |

For GCP, `MaxAttempts = 6` allows a conflict after an orphaned instance
to repeat several times before the timeout.

Create has no bound to choose, because one call is a finite run. The initial
states cover failover or not and KeepOnFailure or not. The transitions cover
every failure point and every order of the subtasks against the parent.

For Delete, three calls are enough. One call fails part way, the next one
meets its partial effects, and a third can still succeed. Bounds of 4 and 5
give the same verdicts. `CHECK_DEADLOCK FALSE` is used because a client stops
calling once the network is gone or its retries are spent.

The Core violations are findings in `PROJECT.json`. Spec sections 5 and 8
say Alters on one resource are totally ordered and that Delete is final. The
code gives that order only among tasks that share a `Core` instance, and
`LoadNetwork` never shares one.

Mutants:
- dropping the lock check from `AlterReload` breaks `Linearizable`;
- a `DeleteName` that leaves byName in place breaks `IndicesAgreeAtRest`;
- a `SkipGateway` that takes every LoadHost error for NotFound breaks
  `TeardownOrdered`, though no invariant of the run: the network is then
  deleted while a recorded gateway's metadata remains.

The other mutants are listed in `PROJECT.json`.

For the error model, `MaxWraps = 2` lets a typed error be wrapped and the
wrapper wrapped again, or made the cause of a `NewError` and then wrapped,
which is how the handlers decorate errors.

Fairness. `create_rollback` uses `FairSpec`: weak fairness of the parent's
steps (`ParentNext`) and of each gateway goroutine (`GatewayTask(g)`,
`FinalizeTask(g)`). The code justifies it: each is a goroutine that is not
blocked once its step is enabled, and every provider call in it returns,
with a result or an error (a timeout is an error). Strong fairness is not
needed: no step is enabled only intermittently. Under it, `Quiescence` says
every Create reaches `done` with no subtask still running. A Create that
waited on the wrong task would violate it. The mutant `WaitPrimaryOnSecondary`
has the primary's wait look at the secondary, and it breaks `Quiescence`.
The other models state only safety.

## 4. Proofs

- `TypeCorrect`: `Spec => []TypeOK`, for all constants. It rests on the
  inductive invariant `TypeInv`, which is `TypeOK` plus two facts:
  - `LockInv`: a task in a writing step holds its instance's write lock;
  - `AlterInv`: a task between Reload and callback has a callback and a non-null carrier.

  `AlterInv` is why no callback ever runs on a null carrier.
- `IndicesAgree`: under the assumption `SharedInstance` (every task holds the
  same instance), `Spec => []IndicesAgreeAtRest`. `IndicesAgreeAtRest` alone is
  not inductive, so the proof uses `AgreeInv`. `AgreeInv` records for each
  half-done write what is already on storage:
  - after PUT byName, byName equals the carrier;
  - after Reload, byName equals byID;
  - after DELETE byID, byID is missing.

  The steps rely on two lemmas:
  - `NoOtherWriter`: no task is writing while the lock is free;
  - `OneWriter`: at most one task is writing.

  Together they say that only the lock holder's step changes storage. The
  assumption is necessary: without it the `core_own_lost_update`
  interleavings also leave the indices different at rest.

- `MetadataOutlivesNetwork` and `SuccessIsComplete` (`NetworkDeleteProofs`)
  prove `NoUntrackedNetwork` and `SuccessMeansGone` for every `MaxCalls` and
  every `RecordedIDs`. The inductive invariant `DeleteInv` records what a call
  has already removed, given where it stands:
  - past a gateway's step, that gateway's metadata is gone if its id was
    recorded;
  - at `write` or `meta`, the provider network is gone;
  - a returned success is final, because a new call needs the metadata.
- `DeleteRefinesTeardown` (`NetworkDeleteProofs`) proves `TeardownOrdered`
  for the same constants. Under the mapping, the step lemma
  `TeardownStep` relates the steps as follows:
  - `DeleteGateway` is `RemoveGateway` or a stutter;
  - `DeleteNetworkOK` and `DeleteNetworkTimeout` are `RemoveNetwork` or a
    stutter. At `net`, `DeleteInv` already says no recorded gateway's
    metadata is left;
  - `DeleteMetadata` is `RemoveMetadata` or a stutter;
  - every other step leaves the three mapped values alone.

  `DeleteInv` alone does not suffice. `CallInv` (a call in progress still
  has the metadata it started from) is needed to show that a failed
  metadata deletion does not bring the metadata back.

- `SuccessIsReady` (`GcpCreateHostProofs`) proves `ReadyOnSuccess` for every
  `MaxAttempts`. It uses `HostInv`: a success is final and was reached from
  `waitReady`, which only a built server reaches. `ReturnsReady` proves the
  action property `ReadyOnReturn`, which the run checks, from the same
  invariant taken after the step.

- `CreateSuccessComplete` (`NetworkCreateProofs`) proves `SuccessComplete`
  for every interleaving of the parent and the subtasks. `SuccessComplete`
  is not inductive, because a subtask's step could in principle destroy a
  gateway after the check. `CreateInv` records, by the parent's position,
  what the passed steps created:
  - past CreateNetwork the network is up, and the VIP is up past CreateVIP;
  - past Carry the metadata exists;
  - past CheckGateways the gateways are done and up (`GatewaysUp`);
  - outside the unwinding, a finished subtask's gateway is up;
  - the unwinding only returns an error.

  The lemma `GatewayTaskKeeps` shows a subtask only moves a running gateway.
- `PowerHonest` (`GcpHostPowerProofs`) proves `PowerOpHonest` for every
  `MaxAttempts`. `PowerInv` ties each wait to the status its call asked for.
  A reboot's first wait expects TERMINATED while the call asks for RUNNING,
  and only the second wait may return success. CreateHost's own steps
  leave the instance alone once a power call returned success.

- `CoreLinearizable` (`CoreProofs`) proves the refinement `Linearizable`,
  `Spec => Abs!Spec` with `meta <- byID`, under `SharedInstance`, for all
  constants. The refinement mapping is the byID entry itself; what needs
  an invariant is that a writer's byID PUT is a step of MetadataStore.
  `StoreInv`, checked by TLC before it was proved, says:
  - before Carry nothing is stored (`~created => byID = NoEntry`), so
    Carry's byID PUT is `Create`;
  - after Alter's Reload the carrier equals byID;
  - after Alter's byName PUT the carrier is the callback applied to byID,
    so the byID PUT is `Mutate` with that callback as the witness.

  `NoOtherWriter` and `OneWriter` again say that nobody else writes in
  between. Every other step leaves byID alone, and DELETE byID is `Remove`
  or a stutter. `RefineStep` is the step lemma.
- `CreateRollbackComplete` (`NetworkCreateProofs`) proves `RollbackComplete`.
  `RollInv` describes the stack of Go defers. Without KeepOnFailure and
  while no compensation has failed, every live resource has its
  compensation on `defers`. A gateway host is covered by its own
  compensation or by the network's, because DeleteNetwork is refused while
  a host is on the network and a subtask cannot create a host on a network
  that is gone. An error return without KeepOnFailure has run the whole
  stack. The lemmas `HasAppend` and `HasPop` state what a push and a pop
  do to membership. `RollShrink`, `RollPush` and `RollUndo` state the
  three shapes of step: nothing created, a defer registered, a
  compensation run. `RollInvStep` has one case per action.

- `ClientCode` (`ErrorModelProofs`) proves, for every `MaxWraps`, the
  exact extent of the `error_grpc_nil` finding: once the call is received
  the client gets nil exactly when the handler's error has code OK, and
  otherwise an error with that same code. `ErrInv` records the shape of
  every error value (a kind and a code from finite sets), that only a
  plain Go error has kind "plain" and then code Unknown, and that `sent`
  and `recv` are what `ToGRPCStatus` and `FromGRPCStatus` computed from
  the error, which `Decorate` no longer changes after `Send`. The lemmas
  `StatusCode` and `RebuiltCode` state what the two conversions do to
  the code.

Not proved, and left to TLC: `Quiescence` (liveness: TLAPS cannot reason
about ENABLED and fairness here). Every invariant and action property
of a passing run is stated by a theorem.

## 5. Not modelled, and plan

1. Done: `NetworkDelete`.
2. Done: `NetworkCreate`, with the proof of `SuccessComplete` and the
   liveness `Quiescence`. Still to do: two concurrent Creates of the same
   name (the check-then-act at line 327).
3. **Storage faults in `Core`.** A failing PUT or DELETE, and a property that
   the next Alter repairs the indices.
4. **Error model.** Done for kinds and codes (`ErrorModel`). Still to do: the
   cause chain (`Cause`) and the consequences, and whether a kind survives
   the gRPC round trip (it does not for `ErrNotAvailable` or
   `ErrInvalidInstance`; nothing promises it).
5. Done: the refinement proof `CoreLinearizable`.
6. **Concurrent power calls.** Two StopHost/StartHost calls on one host at
   once, where the one-at-a-time assumption of `GcpHostPower` is dropped.

Not modelled: `BrowseFolder` only reads. Serialisation is abstracted to the
payload value. The eventual consistency of object storage (the 10 s retry in
`Read`) is not modelled. The gRPC, SSH, cluster and test code has no state of
its own.
