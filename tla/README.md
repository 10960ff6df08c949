# TLA+ models of the Sui adapter's temporary store

This directory holds TLA+ models of `TemporaryStore`, found in
`src/sui-execution/suivm/sui-adapter/src/temporary_store.rs`. The store is the
per-transaction staging area between the Move runtime, the execution engine and
the read-only backing store. The directory also holds the TLC configurations
that check the models, and the TLAPS proofs about them.

## The system and its parts

A transaction's `TemporaryStore` has three kinds of state.

- **Constant state**, set once by `new` or `new_for_mock_transaction`:
  - the input objects;
  - `mutable_input_refs`;
  - the Lamport version: one more than the highest input version, or
    `SequenceNumber::MAX` for a mock transaction.
- **The execution results** (`ExecutionResultsV2`):
  - written objects;
  - created ids;
  - deleted ids;
  - `objects_modified_at`, the pre-image of every object the transaction
    touched destructively.
- **Other per-transaction state**:
  - `loaded_child_objects`, the metadata of the dynamic fields the runtime read;
  - a cache of packages loaded from the database.

Several actors change this state:

1. **The Move runtime** reads objects through `read_child_object` and the
   resolvers. At the end of each run it hands back its results:
   - `record_execution_results` merges them into the store's results: writes
     overwrite, sets union, and the first recorded pre-image wins;
   - `save_loaded_child_objects` records the children the run loaded.

   The runtime may run more than once in one transaction, for example an
   advance-epoch transaction that also publishes packages.
2. **Native calls of the engine** change the results directly:
   - gas smashing and gas charging call `mutate_input_object` and
     `delete_input_object`;
   - `create_object`;
   - after a failed run, `drop_writes` (or `reset`);
   - on epoch change, `advance_epoch_safe_mode` (through
     `mutate_child_object`) and `upgrade_system_package`.
3. **The engine's post-execution sequence** runs these calls in order:
   1. `ensure_active_inputs_mutated`;
   2. `collect_storage_and_rebate`, which calls the `GasCharger`;
   3. `conserve_unmetered_storage_rebate`, for system transactions;
   4. `check_sui_conserved`;
   5. `into_effects`, which stamps every written object with the Lamport
      version and the digest, and runs the debug `check_invariants`.
4. **Ownership authentication**: `check_ownership_invariants` walks the
   ownership chains of the modified objects.
5. **Resolvers**: package, module and resource lookups, which also fill the
   package cache.

The Rosetta account endpoints in `src/crates/sui-rosetta/src/account.rs` are
async HTTP handlers that query a full node while the chain goes on producing
checkpoints. `RosettaAccount` models them (see below).

## Modules

| Module | Models |
|---|---|
| `TemporaryStore` | the store's state, every native mutation, the runtime's storage interface, and the engine's post-execution sequence |
| `MCTemporaryStore` | two small instances for TLC: a user transaction and a system transaction |
| `TemporaryStoreProofs` | TLAPS proofs: the type invariant, and written and deleted disjoint with one Move run |
| `TemporaryStoreNoPanicProofs` | TLAPS proof that no call of the engine on the store panics, for the transactions the engine builds |
| `OwnershipTypes` | the constants of the ownership check and the `Owner` enum |
| `OwnershipDecision` | the abstract ownership check: one step decides by reachability |
| `OwnershipCheck` | `get_objects_to_authenticate` and the worklist of `check_ownership_invariants`, shown to implement `OwnershipDecision` |
| `MCOwnershipCheck` | the instance for TLC: every store over five ids |
| `OwnershipCheckProofs` | TLAPS lemmas on the chain walk and the worklist, and the proof of `AuthenticatedRooted` |
| `OwnershipRefinementProofs` | TLAPS proof that the worklist implements the safety part of `OwnershipDecision` |
| `Resolvers` | the package, module and resource resolvers and the package cache, interleaved with `upgrade_system_package` |
| `MCResolvers` | the instance for TLC: a system package, an input package, three Move objects and a missing id |
| `ResolversProofs` | TLAPS proofs of every property of the `resolvers` run |
| `RosettaAccount` | the `balance` and `coins` handlers of the Rosetta account API, one action per await, against an advancing chain |
| `RosettaAccountProofs` | TLAPS proofs of `TypeOK`, `BalanceAtBlock` and `AnsweredFromOneSnapshot` for every chain history |
| `MCRosettaAccount` | the instance for TLC: three checkpoints, two stakes, three coins |

### State

| Code | Model |
|---|---|
| `written_objects` | `written`: id to object or `NoObj` |
| `created_object_ids` | `created` |
| `deleted_object_ids` | `deleted` |
| `objects_modified_at` | `modifiedAt`: id to version or `NoVer` |
| `loaded_child_objects` | `loadedChildren`: id to `[ver, rebate]` |
| the gas charger's per-object storage tracking | `charger` |
| how many Move runs were recorded | `vmRuns` |
| where the engine is in its sequence | `phase` |

Constants give the rest:

- the input objects and the backing store are `Backing`;
- `InputIds` and `MutableInputIds` are the inputs and the mutable inputs;
- `GasCoin` is the gas coin, or `NoGas` for a system transaction;
- the system object ids, the system packages, `MockTransaction` and
  `DebugAssertions` (`cfg(debug_assertions)`).

An object is abstracted to four fields:

- its version;
- its `storage_rebate`;
- its size for gas metering;
- whether `previous_transaction` is this transaction's digest.

An object digest is identified with its version.

### Actions

Each action models one call, whole.

- `VMFinish` is one Move run followed by `save_loaded_child_objects` and
  `record_execution_results`. What the run does in between is an abstract
  contract (`VMMutable`, `VMRemovable`, `VMCreatable`), because the runtime is
  not in this repository:
  - it mutates live mutable inputs and children;
  - it deletes or wraps them, but never the gas coin, 0x5 or its inner state;
  - it creates fresh ids at version 0.

  The merge follows `merge_results` as the spec states it.
- The native calls are each an action:
  - `MutateInputObject` (the gas coin);
  - `DeleteInputObject` (a secondary gas coin);
  - `CreateObject`;
  - `AdvanceEpochSafeMode` (through `MutateChildObject`);
  - `UpgradeSystemPackage`;
  - `DropWrites`.

  Their debug assertions are guards when `DebugAssertions` holds:
  - no read after delete;
  - no delete after write.
- The post-execution actions follow the engine's order through `phase`:
  - `EnsureActiveInputsMutated`;
  - `CollectStorageAndRebate`, which includes `collect_rebate`;
  - `ConserveUnmeteredStorageRebate`;
  - `CheckSuiConserved`;
  - `IntoEffects`.

  Every `panic!`, `assert!`, `expect`, `unwrap` and index in these calls leads
  to `phase = "panicked"`. A conservation error leads to
  `"conservation_failed"`.

## Runs

The MC module and its cfgs fix these instances:

- **User transaction** (`MCTemporaryStore_user.cfg`, run `user_tx`):
  - gas coin `g`;
  - secondary gas coin `s`;
  - an owned mutable input `m`;
  - a dynamic-field child `c`;
  - a fresh id `n`;
  - two sizes and a storage price of 2.
- **System transaction** (`MCTemporaryStore_system.cfg`, run `system_tx`):
  - 0x5 as the mutable input `w`;
  - its inner state `i` as a child;
  - a system package `p`;
  - a fresh id `n`;
  - unmetered gas.
- **Merge** (`MCTemporaryStore_merge.cfg`, run `merge_two_runs`): the user
  instance with two Move runs.

These bounds cover the cases that matter:

- every kind of object the code tells apart (gas coin, smashed coin, input,
  child, fresh id, 0x5, system package);
- every path through `get_input_storage_rebate`;
- a reset between a run and the post-execution phase;
- one versus two runtime runs.

Deadlock checking is off because a transaction really ends: after
`committed`, `panicked` or `conservation_failed`, no call is made.

The runs check these properties:

- **`WrittenDeletedDisjoint`** is spec §3's invariant 1. It holds with one
  runtime run. With two runs it is violated (run `merge_two_runs`, see
  Findings).
- **`NoPanic`**: none of the store's panics fires in any order of the calls
  above. This covers:
  - the rebate lookup;
  - the 0x5 preconditions in unmetered conservation;
  - the gas coin index;
  - `check_invariants` in a debug build.
- **`StorageRebateConserved`**: `check_sui_conserved` never fails. The rebates
  of the pre-images flow into the summary's rebate and non-refundable fee. The
  storage cost flows into the rebates of the written objects, or into 0x5 for
  a system transaction.

Each property of each passing run has a mutant in `PROJECT.json` that breaks
it. Each mutant is a plausible bug of the code:

- `drop_writes` forgetting the deleted ids;
- `ensure_active_inputs_mutated` testing `written_objects` instead of
  `objects_modified_at`;
- the rebate lookup only looking at inputs;
- an unmetered charger that charges.

## Ownership authentication (`OwnershipCheck`)

### State and actions

The backing store is reduced to the owner of the latest object of each id.
The owner is `AddressOwner(a)`, `ObjectOwner(p)`, `Shared` or `Immutable`, or
`NoObj` for an object-less UID. The execution results are reduced to the set
of modified ids. `Init` fixes both, ranging over every store the run allows,
so one run covers every ownership graph over the ids, cycles included.

The variables follow the code:

- `toAuthenticate` is the `Vec`, used as a stack;
- `authenticated` is `authenticated_objects`;
- `covered` maps each id to the parent that covers it.

The actions are:

- **`GetObjectsToAuthenticate`** is the whole of `get_objects_to_authenticate`:
  - the roots are the address-owned and shared inputs that are not gas coins;
  - the panics on inputs (wrong address, object-owned input) and on modified
    ids (missing, address-owned or shared, immutable outside an epoch-change
    package upgrade) are modelled;
  - the object-owned modified ids are pushed in ObjectID order, the iteration
    order of `objects_modified_at`. `SelectIn` is that filter. It is a
    recursive function over the prefixes of `IdOrder`, where `SelectSeq`
    would be a RECURSIVE operator that the provers cannot expand.
- **`AuthenticateStep`** is one iteration of the `while let` loop:
  - the last id is popped;
  - an object-less id is skipped;
  - a non-object owner panics;
  - any other id goes through `Cover`.
- **`Finish`** is the loop's exit with `Ok`.
- **`StoreError`** is a `?` on a store lookup.

The fairness is weak fairness on the three steps of the check. The check is a
single-threaded loop that, once it can take a step, takes it. A store error is
not forced.

### The abstract check and the refinement

`OwnershipDecision` states what the check promises, without the worklist.
Its state is the store, the modified ids and an `outcome`. The outcome starts
as `"pending"`, and one of two steps ends it:

- **`Decide`** sets it to `"ok"` if `AcceptedByReachability` holds, and to
  `"panicked"` otherwise.
- **`Fail`** sets it to `"error"`. It can only happen when some modified id
  is looked up.

`AncestorsOf` follows the chain of owners upward from an id, stopping at a
root. `Explored` is every object on a chain that starts at an object-owned
modified id. `AcceptedByReachability` holds when all of these hold:

- every non-gas input is the sender's, shared or immutable;
- every looked-up modified id exists, and is object-owned or an
  epoch-change system package;
- every explored object is a root, object-less, or object-owned.

The roots and the panics are stated from spec §4.4, not from the code's
`Roots`. `Decide` is weakly fair: the check always returns.

`OwnershipCheck` instantiates the abstract module as `Decision`. The
refinement mapping keeps the store and the modified ids, and maps `phase` to
`outcome`: a terminal phase is itself, any other is `"pending"`. The property
`OwnershipRefinement == Decision!Spec` then says all of these:

- every step of the worklist is a step of the abstract check, or leaves
  the outcome alone;
- the outcome never changes once decided;
- a store error comes only after a lookup;
- the check always returns.

### Runs

The runs are `ownership_user` (`IsEpochChange = FALSE`) and `ownership_epoch`
(`TRUE`). Each has 32768 initial stores:

- gas coin `g`;
- input `r`, owned by the sender, another address, shared, or immutable;
- three non-inputs `x`, `y`, `u`, each object-less, owned by the sender,
  immutable, or owned by any of the five ids;
- every set of modified ids that contains the gas coin.

Five ids are enough for these cases:

- a chain of length three;
- a two-cycle next to a separate chain;
- a chain through the gas coin or an immutable input;
- two children of one parent.

The runs check two properties:

- **`OwnershipRefinement`**: the worklist implements `OwnershipDecision`. It
  returns `Ok` exactly when reachability accepts, and panics exactly when it
  rejects, whatever the stack order.
- **`AuthenticatedRooted`**: every authenticated id is a root or is owned,
  through a chain of objects, by a root.

That the walk ends needs no property of its own. `OwnershipDecision`'s
specification has weak fairness on `Decide`, and `Decide` is enabled while the
outcome is pending. So `OwnershipRefinement` already says that every
behaviour reaches `ok`, `panicked` or `error`. On a cycle, this rests on the
`covered` guard.

## Resolvers (`Resolvers`)

The Move runtime reads packages, modules and resources through the store
while the engine may write to it: `upgrade_system_package` writes a new
version of a system package, and a run's results write input objects. An
object is abstracted to its kind, version and whether it is immutable. The
backing store (`Store`) is a constant, and `input_objects` are its objects for
the ids in `Inputs`.

| Code | Model |
|---|---|
| `written_objects` | `written` |
| `objects_modified_at` | `modifiedAt` |
| `runtime_packages_loaded_from_db` | `cache` |
| (history) the last version a resolver returned for an id | `seen` |
| `fp_bail!(ExecutionInvariantViolation)` in `get_resource` | `bailed` |

The actions are the four resolvers (`GetPackageObject`, `GetModule`,
`GetResource`, `GetModuleById`), `UpgradeSystemPackage` and `WriteInput`.
The resolvers follow the code's lookup order:

- `get_package_object` and `get_module_by_id` read `written_objects`, then the
  store;
- `get_module` and `get_resource` read through `read_object` (written, then
  inputs);
- `get_module` falls back to the store and does not cache;
- `get_resource` falls back to `read_object` a second time.

A lookup that finds nothing, or a `BadObjectType` error, changes no state
and is a stutter. `get_latest_parent_entry_ref_deprecated` is `unreachable!`
and has no action.

The run `resolvers` checks:

- **`ResolutionNeverRegresses`** (action property): once a resolver has
  returned a version of an id, no later resolution returns an older one,
  whichever resolver asks. This is the store's promise that reads reflect
  in-flight writes. It fails as soon as one resolver asks the store before
  `written_objects`.

The cache's content is not checked as a property: its only assignment
inserts the store's object. The bail in `get_resource`'s fallback is not
checked either. Its second `read_object` repeats the first inside one call,
so the bail is dead code (spec §9 calls it likely vestigial). Both facts are
conjuncts of the inductive invariant of the proofs (`CacheHoldsDbVersions`,
`NoResourceBail` in `ResolversProofs`).

The instance has a system package `p1` (version 1, and an input), an input
package `p2`, a mutable input `o1`, a mutable object `o2` and an immutable
object `o3` that are not inputs, and an id `x` the store lacks. So every
reachable branch of every lookup order is taken, and an upgrade can happen before,
between or after any two lookups. Deadlock is checked: a lookup is always
enabled.

The `RwLock` on the cache cannot block. Its only read guard is taken in
`into_inner`, which consumes the store, so no read guard is held while a
resolver writes.

## Rosetta account endpoints (`RosettaAccount`)

### State and actions

A handler runs as an async task, and each `.await` on the full node is one
action. Between any two of them the chain may produce a checkpoint
(`AdvanceChain`, up to `MaxHeight`). The chain is one address's history,
given as constants indexed by height: the SUI balance (`Balance`), each
stake's status (none, pending or active) and estimated reward
(`StakeStatus`, `Reward`), and the coins the address owns (`CoinsAt`).

| Code | Model |
|---|---|
| the full node's latest checkpoint | `height` |
| where each handler is | `pc[r]`: `idle`, an await, `done` or `error` |
| the request | `req[r]`: op, network ok, sub-account kind, block index and hash |
| the value a handler holds between awaits | `fetched[r]` |
| the response | `resp[r]`: `[block, body]` |
| (history) the latest checkpoint when the request arrived | `startH[r]` |

The actions are:

- `Start`: `check_network_identifier` fails the request or sends it down one
  of three paths (coins, sub-account, plain balance);
- `GetStakes`: `get_stakes` folded by `get_sub_account_balances`. `Selected`
  is the `StakeStatus` arm each kind matches, `SubBalances` the fold, and
  `GetSubAccountBalances` the single amount (zero when nothing matches);
- `GetSui`: `get_sui`;
- `AnswerAtTip`: `current_block_identifier`, awaited after the lookup. It
  pairs what was fetched with the checkpoint that is latest now;
- `ResolveBlock`: the block by index, else by hash, else the latest. A block
  the node does not have yet is an error;
- `GetBalanceAtBlock`: `get_balance_at_block` at the resolved index;
- `FullNodeError`: any await fails and `?` propagates the error.

`Amount::new` and `Amount::new_from_sub_balances` are not in the repository.
`PlainAmount` and `AmountFromSubBalances` model them from spec section 6: a
single amount whose value is the sum of the sub-balances.

### Runs

`rosetta_account` serves one request of any form (130 of them) while the
chain goes from checkpoint 0 to 2. The handlers share no state, so one
request shows every race between a handler and the chain. In the instance,
every kind of answer changes as the chain advances: stake `s1` is
pending at 0 and active from 1, `s2` is active at 0 and 1 and withdrawn at 2,
rewards grow, and the balance and coins change each time. So a value read at
the wrong height shows. The run checks:

- **`BalanceAtBlock`**: a plain balance is the balance at the block it
  reports. That block is the named one, or no older than the request;
- **`AnsweredFromOneSnapshot`**: every answer about the current state is what
  the API asks at one checkpoint between the request's arrival and the block
  reported. The reported block is never older than the request.

`CHECK_DEADLOCK FALSE`: a run ends when its request is answered and the
chain is at its last checkpoint.

## Findings

**`ownership_id_only_parent`.** The worklist skips an entry with no stored
object and never revisits the child that pushed it. A modified object owned by
an object-less UID, or by a cycle of objects, is therefore accepted. The code
comment says this is deliberate: the two cases cannot be told apart. Spec §8,
however, says that after `Ok` every modified id is transitively owned by the
sender, a sponsor, a shared input, or is a system package.

**`ownership_enqueue_twice`.** The push guard tests `covered`, whose keys are
the ids already popped. A modified id still waiting on the stack is pushed
again when one of its children is popped first, so the stack holds it twice.
Spec §4.4 says each id is enqueued at most once. The walk still terminates and
decides the same (`OwnershipRefinement`).

**`rosetta_block_after_lookup`.** `balance` with a sub-account (line 32) and
`coins` (line 135) await `current_block_identifier` after the lookup. When a
checkpoint lands in between, the response names a block the balances were not
read at. The doc comment of `balance` promises "the BlockIdentifier at which
the balance lookup was performed" (`AnsweredAtItsBlock` fails; the answer
still satisfies `AnsweredFromOneSnapshot`).

**`rosetta_block_ignored`.** The sub-account branch never reads
`request.block_identifier`. A request for the stakes at an older block, or at
a block the node does not yet have, is answered at the tip. The plain branch
answers at that block or fails (`RequestedBlockHonoured` fails).

**`merge_two_runs`.** `record_execution_results` merges a run's results into
the earlier ones. If the first run mutates a child and the second deletes it,
the id is in both `written_objects` and `deleted_object_ids`. Spec §3 states
that the two are disjoint between all operations. The code only catches this
in the debug `check_invariants` of `into_effects`, and a release build commits
both. Whether the runtime can do this in one transaction is up to the
runtime. The store does not prevent it.

## Proofs

`TemporaryStoreProofs` proves two theorems for every value of the constants
that satisfies `StoreAssumption`, `LamportBound` and `ParameterAssumption`.
`TemporaryStoreNoPanicProofs` proves a third, `NoPanicHolds`, from the same
assumptions and two hypotheses on the transaction.

**`TypeCorrect`: `Spec => []TypeOK`.** `TypeOK` alone is not inductive. The
strengthening `TypeInv` adds that while `phase` is `"execution"` or
`"ensured"`, every written object's rebate is a natural number. After
`collect_storage_and_rebate`, 0x5 may receive the charger's unmetered total,
which `TypeOK` types as `UnmeteredStorageRebate`. The prover cannot show that
a sum over a set is a natural number. The proof of `NextTypeInv` has one step
per action. The helper sums are written as operators of the charger
(`TrackedRebateOf(ch)`), so that an action that leaves the charger unchanged
leaves `StoreObj` unchanged.

**`SingleRunDisjoint`: if `MaxVMRuns <= 1`, then
`Spec => []WrittenDeletedDisjoint`.** This is the first debug check of
`check_invariants`: no object is both written and deleted. `merge_two_runs`
shows that it fails with two runs, so the theorem carries the bound as a
hypothesis. The inductive invariant `DInv` is `TypeInv` plus these conjuncts:

- `WrittenDeletedDisjoint` itself;
- `DeletedModified`: every deleted id has a recorded pre-image;
- `DeletedRemovable`: only secondary gas coins, and ids a Move run may
  delete, are ever deleted;
- `SecondaryUnwritten`: during execution, no secondary gas coin is written;
- `BeforeRun`: before the run, only secondary gas coins are deleted, and only
  native calls have written. Those calls write the gas coin, 0x5's inner
  state, fresh ids and system packages.

Each conjunct is needed by one action:

- `DeletedModified` covers `ensure_active_inputs_mutated`. It writes only ids
  with no pre-image, so it never writes a deleted one.
- `SecondaryUnwritten` covers `delete_input_object` when debug assertions are
  off.
- `BeforeRun` and `DeletedRemovable` cover the run. It deletes only what
  `Removable` holds, which no native call writes (lemma
  `RemovableNotNative`). It creates only fresh ids, which nothing deletes
  (lemma `FreshNotDeletable`).
- In `conserve_unmetered_storage_rebate`, a nonzero amount means the
  transaction is unmetered. Then `StoreAssumption` leaves no secondary gas
  coins, so 0x5 is not deleted.

TLC checks `DInv` as an invariant on both cfgs, with debug assertions on and
off.

**`NoPanicHolds`: if `SystemTxMutatesState` and `DebugOneRun`, then
`Spec => []NoPanic`.** The store can panic at four places:

- the rebate lookup of `collect_storage_and_rebate`;
- the checks on 0x5 in `conserve_unmetered_storage_rebate`;
- the debug `check_invariants` of `into_effects`;
- the gas coin index of `into_effects`.

The theorem has two hypotheses, and both come from how the engine builds
transactions:

- `SystemTxMutatesState`: an unmetered transaction takes 0x5 as a mutable
  input. The `expect` in `conserve_unmetered_storage_rebate` states this.
  Only system transactions are unmetered.
- `DebugOneRun`: debug builds meet at most one Move run. `merge_two_runs`
  shows that two runs trip the written/deleted check. So without this
  hypothesis the theorem is false.

The inductive invariant `PInv` is `TypeInv`, `NoPanic` and
`DebugAssertions => DInv`, plus five conjuncts:

- `RebateFound`: every recorded pre-image is an input, a loaded child, or
  the stored version. A run records pre-images only of what it may mutate,
  and each native call records the stored version.
- `GuardedWritten`: until the rebates are moved, the gas coin and 0x5 are
  written whenever they have a pre-image. Nothing may delete or wrap them,
  and every mutation writes them.
- `AllModified`: after `ensure_active_inputs_mutated`, every mutable input
  has a pre-image.
- `UnmeteredZero`: an unmetered charger leaves every written rebate at 0
  after collection. So 0x5's rebate is 0 when the unmetered total arrives.
- `GasKept`: the gas coin is still written when `into_effects` reads it.

Under debug assertions, `DInv` keeps 0x5 out of `deleted_object_ids`, and
`WrittenDeletedDisjoint` passes the first check of `check_invariants`.
`DInv` is preserved by `NextDInv` because of `DebugOneRun`. The proof has one
lemma per action, of the form `PInv /\ A => PRest'`. The type invariant and
`DInv` are carried by `NextTypeInv` and `NextDInv`. No step needs the value of
a sum: a nonzero unmetered amount only tells the proof that the transaction
is unmetered. TLC checked `PInv` on both runs before the proof was written.

The proofs rest on these assumptions:

- **`LamportBound`**: the Lamport version is a version, so that stamped
  objects stay well typed. TLC evaluates the assumptions on every run.
- **`StoreAssumption`**: a system transaction has no gas coin, and so no
  secondary gas coins to smash. Its charger is unmetered and carries no coins.
  `NoObj` models `None`, so it is neither an object nor a child's metadata
  record.
- The abstract contract of the Move runtime described above.

`RosettaAccountProofs` proves the two properties of the `rosetta_account`
run for every chain history, every set of concurrent requests and every last
checkpoint that satisfy `RosettaAssumption`. That assumption only types the
constants and keeps `None` apart from heights and sub-account kinds.

**`BalanceAtItsBlock`: `Spec => []BalanceAtBlock`.** The inductive invariant
`BInv` has two parts:

- `PTypeOK`: a task past idle holds a request and the checkpoint it arrived
  at, and the chain never goes below that checkpoint;
- `PlainInv`: a plain request is never on the lookup path. At `"balance"` it
  holds a resolved block: the named one, or one no older than the request.
  Once answered, its response is the balance at that block.

The invariant is needed because `BalanceAtBlock` speaks only of answered
requests. The block is fixed at `ResolveBlock` and used at
`GetBalanceAtBlock`, with chain steps in between, so the state between the
two awaits must carry it. `StepOfTask` shows that a step of one task leaves
every other task's part alone.

**`OneSnapshot`: `Spec => []AnsweredFromOneSnapshot`.** This adds `SnapInv`
to `BInv`. Between the two awaits of the lookup path, what a task holds is
the spec's answer at some checkpoint from its arrival to the current
height. `AdvanceChain` only widens that range, and `AnswerAtTip` reports the
current height, so the answer stays inside it. The lemma `SubAccountAmount`
shows that the fold of `get_sub_account_balances`, filtered by `Selected`,
computes the amount the spec describes for each kind. It is an equality of
sets with one `MapThenSumSet` on each side, and the provers need no values of
the sums.

Only TLC checks these:

- `StorageRebateConserved`, because its argument rests on the values of
  sums (`MapThenSumSet`), which the provers cannot compute;
- `NoPanic` without its two hypotheses. With two runs under debug
  assertions it fails;
- `WrittenDeletedDisjoint` with two or more Move runs, where it fails.

`RosettaTypeCorrect` proves `Spec => []TypeOK` for the same constants. It
uses the invariant of `OneSnapshot` and `RespInv`, which says that a request
has no response until it is done. `TypeOK` is not inductive by itself,
because a response is typed through the snapshot the task holds.

`ResolversProofs` proves every property of the `resolvers` run, for every
backing store, set of inputs and set of system packages that satisfy
`ResolverAssumption`. `ResolversInvariant` proves `Spec => []IInv`, and
`ResolversTypeCorrect` follows from it. The inductive invariant `IInv` adds
four facts to the type invariant:

- `WrittenOK`: a written object is the store's own (a mutated input) or, for
  a system package only, its upgrade one version up;
- `SeenBelow`: each version a resolver returned is at most the version of
  `Current(id)`, the written object or else the store's;
- `CacheHoldsDbVersions`: the cache holds only the store's objects;
- `NoResourceBail`: `get_resource` never bailed. A lookup then always
  returns `Current(id)`.

`NeverRegresses` proves the action property `ResolutionNeverRegresses`. A
lookup returns `Current(id)`, which bounds every earlier answer by
`SeenBelow`, and a write never lowers `Current(id)`. The assumption
`NoObj \notin Objects` is needed to tell a missing object from a present
one. TLC evaluates it on every run.

`OwnershipCheckProofs` proves `AuthenticatedAlwaysRooted`:
`Spec => []AuthenticatedRooted`, for every store, set of ids and ObjectID
order that satisfy `OwnershipAssumption`.

- `AncestorsOf` is a recursive function. `Up(x)` names the walk it builds,
  and `UpEquation` shows that the walk satisfies its defining equation,
  using `IterationExists`, a lemma that a function defined by iteration
  exists. `LeastNat` and `IntervalInduction` are induction over an interval
  of naturals, proved from well-founded induction on `Nat`. They are stated
  for a set, not an operator, so the provers can instantiate them.
- The walk ends at `NoId` and stays there (`UpEnds`). It is periodic once it
  repeats an id (`UpRepeats`). A walk that has not ended after N steps
  repeats its last id earlier (`LastRepeats`, by `FS_PigeonHole`).
  `ChainExtends` follows from these: if the owner of x is a root, or reaches
  one, then so does x. It needs the pigeonhole step because the chain from x
  is one link longer than the chain from its owner, and `AncestorsOf` keeps
  only N links.
- The inductive invariant `OInv` adds the types of the store, the worklist
  and the authenticated set to `AuthenticatedRooted`.
  `get_objects_to_authenticate` authenticates only roots
  (`RootsAuthorised`). A popped id is authenticated only when its owner is,
  and then `ChainExtends` applies.

`OwnershipRefinementProofs` proves `WorklistRefinesDecision`:
`Spec => Decision!Init /\ [][Decision!Next]_Decision!avars`. This is the
safety part of `OwnershipRefinement`. Every step of the worklist, mapped to
its outcome, is a `Decide` or a `Fail` of the abstract check, or a stutter.
The inductive invariant `RInv` extends `OInv` with three parts:

- **`WalkInv`**, which holds once `get_objects_to_authenticate` has
  returned without panicking:
  - every root is authenticated;
  - every other authenticated id is covered;
  - every id on the worklist is explored and is not a root;
  - every pushed id (a start, or a parent recorded in `covered`) is handled:
    it is still on the worklist, is a root, has no object, or was popped and
    covered.
- **`CoveredOK`**: a covered id is explored, is not a root, and is object
  owned, by the parent recorded for it.
- **`Outcomes`**: `"ok"` only with the worklist drained and the abstract
  check accepting, `"panicked"` only when it rejects, and `"error"` only when
  some id is examined.

The argument has three steps:

1. When the worklist is drained, the owner of every pushed id is a root, is
   pushed, or ends the chain (`DrainedStep`).
2. Induction along the walk `Up` then shows that every explored id is a
   start or pushed (`DrainedChain`).
3. So `Finish` returns `Ok` only when `AcceptedByReachability` holds
   (`DrainedAccepted`).

A panic is rejection. This holds either because an input or a modified id
fails `get_objects_to_authenticate` (`PanicRejected`), or because a popped
explored id is not object-owned (`PoppedRootRejected`). `StepRefines` maps
each step, and the theorem combines it with `NextRInv` by PTL. TLC checked
`RInv` as an invariant of both ownership runs before the proof was written.

Only TLC checks these:

- `StorageRebateConserved`, because its argument rests on sums
  (`MapThenSumSet`). The input and output totals must be split element by
  element, which needs induction over finite sets with an operator
  parameter. None of the installed provers can instantiate that;
- `WrittenDeletedDisjoint` with two or more Move runs, where it fails;
- liveness: the weak fairness of `Decide` in `OwnershipRefinement`, and
  with it the termination of the ownership worklist. The proof system does not reason
  about `ENABLED` or fairness. `TemporaryStore` states no liveness, because
  the engine's sequence is straight-line code;
- the violation runs (`OkMeansRooted`, `EnqueuedOnce`, `AnsweredAtItsBlock`,
  `RequestedBlockHonoured`), which show what the code does, not what it
  promises.

## Not modelled, and the plan

- **`check_sui_conserved_expensive` and `get_input_sui`.** These need coin
  balances inside Move values. They are a candidate for a later sitting, with
  balances as small naturals.
- **Events, object changes, `into_inner`, and the size estimates.** These are
  data conversion with no control of interest.
- **The Rosetta endpoints' wire formats.** JSON (de)serialisation and the
  `Coin::from` conversion are data conversion; a coin is a model value.
