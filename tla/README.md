# TLA+ models of the OpenZeppelin ecosystem adapters

This directory holds specifications of the adapters in `src/packages`: TLA+
modules, the TLC configurations that check them on small instances, and theorems
about them that the TLA+ proof system checks. `PROJECT.json` lists, for a tool or
a reader in a hurry, the components, the runs, the source lines each definition
models (`map`), the hazards of the code with the properties that watch them, the
disagreements between code and documents that were met (`findings`), one
plausible bug per property that the property catches (`mutants`), and the theorems.

## 1. The system

An *adapter* lets one UI code base talk to one blockchain ecosystem. An
application asks an adapter for a **runtime** of some **profile** (declarative,
viewer, transactor, composer, operator) on one network and gets an object with a
**capability** per concern: query, execution, wallet, UI kit, access control,
identity registry, name resolution and so on. `adapter-runtime-utils` composes and
disposes runtimes for all adapters; `adapter-evm-core` implements nearly all of the
EVM behaviour, and `adapter-evm` and `adapter-polkadot` configure it;
`adapter-stellar` and `adapter-midnight` are ecosystems of their own;
`adapter-solana` is a scaffold.

Everything runs in one JavaScript thread. Nothing is interrupted between two
awaits, and everything may happen during one: a promise continuation of another
call, a change the user makes in the wallet, a transaction mined on the chain, an
RPC node that answers late, wrongly or not at all. Re-entrancy is the other source
of interleaving: cleanup hooks and method bodies call back into the lifecycle.

| Component | State it keeps | Operations | Interacts with | What is hard | What makes it correct |
|---|---|---|---|---|---|
| Capability lifecycle (`runtime-capability.ts`) | `disposed`, the pending set, cleanup hooks by stage | `dispose`, guarded calls, `trackPromise`, registration of hooks | wraps every capability; hooks call other lifecycles | `dispose` re-entered from hooks and from method bodies; late results; hooks that throw | hooks once and by stage, no caller waits for ever, no late result gets through |
| Profile runtime and factories (`profile-runtime.ts`, `runtime-factories.ts`, `profiles/shared*.ts`) | the runtime's and the factories' capability caches, the position of the dispose loop | `createRuntime`, lazy getters, `dispose` | builds and disposes lifecycles, starts `configureUiKit` unawaited | two caches, private dependencies, a creator that throws half way | disposal reaches everything that was built; nothing is built twice |
| EVM identity registry writes (`irs/`) | none of its own; the chain | `registerTrustedIssuer`, `deployOnchainId`, `grantHolderManagementKey`, `attachClaim`, `registerIdentity` and their reads | write completion, transaction execution, chain | probe–submit–wait–assert against a chain others write to; timeouts; lost and late transactions | an answer never claims what the chain does not have; re-driving completes |
| EVM write completion (`shared/`) | none | merge of two completion signals, error mapping | every EVM write | a disagreement is noticed after submission | one meaning of "confirmed" |
| EVM UI-kit manager (`wallet/uiKitManager.ts`) | selected kit, config, provider, loading and error flags, listeners | `configure`, `subscribe` | wallet implementation, RainbowKit assets, UI root | two `configure` calls overlap; failures between awaits | the config rendered is the config used; settled state fits the kit |
| EVM wallet implementation (`wallet/wagmi-implementation.ts`, `connection.ts`, `components/`) | active and default Wagmi config, one account subscription, RPC listener; the connect button's and dialog's state | connect, disconnect, switch network, clients, status, subscribe, select a connector | UI-kit manager, execution, RPC settings, the facades of EVM and Polkadot | the user changes account, chain and connection at any time; one subscription for all subscribers | what is signed is what was validated; the newest subscriber is served; the dialog never locks its user out |
| EVM transaction execution (`transaction/`) | none; the relayer's and the chain's | `executeEvmTransaction` (EOA, relayer), `signAndBroadcastEvmTransaction`, `waitForEvmTransactionConfirmation`, the relayers' list and options form | wallet, relayer service, chain | state read before an await and used after it; polling limits; failures after submission | required account signs, chain is the intended one, success means success |
| EVM access control (`access-control/`) | registered contracts, discovered roles, cached capabilities, an indexer client | reads, role discovery, ownership and admin transfers, history | on-chain reader, indexer, execution | caches against a chain that moves; indexer missing or behind; delays; a failed read beside good ones | pending transfers classified rightly; a failure is not told as a state |
| EVM name resolution (`name-resolution/`) | a client of the bound network, one of mainnet | `resolveName`, `resolveAddress` | RPC nodes, registries, CCIP gateways | a lookup ends in many ways; mainnet may be asked after one of them only; lookups share a client | an error is never taken for "no name" |
| EVM ABI loading and proxies (`abi/`, `proxy/`) | none | `loadEvmContract`: providers in order with timeouts, detection, implementation; `compareContractDefinitions` | Etherscan, Sourcify, the chain | late answers, early exits, upgrades between two reads; two normalisations | the result says where its schema is from; what was fetched is kept; breaking changes are told as such |
| Stellar access control (`access-control/`) | contexts with known and discovered role ids; the indexer client's endpoint and availability | registration, roles and members, transfers, their writers | Soroban RPC, indexer, settings, execution | transfers that expire by ledger; two queries against a moving indexer; settings changed during a check | pending and expired are told as far as chain and indexer were read; ids given stay known, and no member counted is lost |
| Stellar wallet and transactions (`wallet/`, `transaction/`, `transform/`, `mapping/`) | kits, their selected wallets, the connection shown, the kit manager's state, the dialog's | connect, disconnect, configure, form to ScVal, sign, send, relay | wallets kit, Soroban RPC, relayer | the user reconnects and reconfigures during a write; answers that are lost; two strategies; three readers of one type | the connected wallet signs; an answer stays true; what is sent is what was entered |
| Settings (`configuration/` of EVM core and Stellar) | what the user saved, the application's configuration, the network's defaults | resolve, test, save | every client of a network service | two stores of user settings that do not follow each other; each reader has its own order of precedence | what was tested is what its readers use; where readers can agree they do |
| Midnight wallet (`wallet/`) | the enabled API, the promise of a connection, listeners, one poll timer; the UI root's state and refs | connect, disconnect, subscribe, polling; the mount effect, the button, focus and fallback | Lace extension, which has no events | four places set or clear one timer; prompts answered late or never | who listens is served; "Connecting" ends |
| Midnight archives (`utils/zip-*`, `analysis/`, `export/`) | loaded artifacts, a cache of decorations | upload, extract, decorate, trim to one function, export | the forms, the calls | several files of one name; caches with a part of a key | artifacts belong together; a secret is asked for where one is needed |
| Midnight calls (`capabilities/`, `transaction/`, `query/`) | artifacts of the contract loaded last, global ZK keys, persisted private state | loading, `formatTransactionData`, `signAndBroadcast`, `queryViewFunction` | Midnight SDK, proof server, indexer | contracts loaded during a call; secrets with a name per function | a secret lives in its call only |
| Conformance kit (`adapter-runtime-utils/src/conformance`) | the rows of a report | `checkConformance` | a name-resolution capability that may do anything | calls that throw, answers with hostile getters | fails for the violations there were, and only those |
| EVM ERC-3643, ERC-4626, query, mapping | none | conversions, single reads and writes | execution | formats | — |
| Adapter packages, Vite plugin | none at run time | configuration | — | — | — |

`PROJECT.json` has the same list with the source files and what is modelled of each.


## 2. Plan

The order puts first what everything else runs inside, then the writes that move
value, then the reads.

| Order | Module | Status | Composition |
|---|---|---|---|
| 1 | `RuntimeCapability`, refining `CapabilityContract` | done, proved | instantiates the contract with a refinement mapping |
| 2 | `ProfileRuntime` | done, proved | uses one bit per capability for what 1 shows |
| 3 | `IdentityOnboarding` | done, proved | includes write completion; its executor is the interface of 5 |
| 4 | `UiKitManager` | done, proved | manager, wallet configs, assets and UI root together |
| 5 | `EvmExecution` | done, proved | strategies, wallet, relayer, connection |
| 6 | `EvmRoles` | done, proved | service, reader, indexer client, chain |
| 7 | `EvmTransfers` | done, proved | reader, indexer, contract and the service's own writers |
| 8 | `NameResolution` | done, proved | service, both clients, gateways |
| 9 | `AbiLoading` | done, proved | loader, providers, proxy detection, chain |
| 10 | `StellarTransfers` | done, proved | reads of chain and indexer; the pair of 7 for Stellar |
| 11 | `StellarRoles` | done, proved | service, indexer client's caches, settings, chain |
| 12 | `StellarExecution` | done, proved | writers, strategies, wallet, kits, network, relayer |
| 13 | `MidnightWallet` | done, proved | Lace implementation and UI root together |
| 14 | `MidnightExecution` | done, proved | artifacts, keys, writes, private state, queries |
| 15 | `AbiComparison` | done, proved | the comparison of what 9 loads |
| 16 | `Settings` | done | the settings that 4, 5, 9, 11 and 12 read |
| 17 | `AccessHistory`, `AccessFeatures` | done; the history proved | both adapters' services side by side |
| 18 | `StellarGrants` | done, proved | the enrichment of the members of 11 |
| 19 | `StellarValues` | done | form, parser and converter before 12 |
| 20 | `Relayers` | done, proved | list, form and request before 5 and 12 |
| 21 | `MidnightArtifacts` | done | where the artifacts of 14 come from |
| 22 | `Conformance` | done | the judge of an implementation of 8 |
| 23 | `StellarConnecting` | done, proved | kit manager, implementation, UI root and dialog around the wallet of 12 |
| 24 | `WagmiWatching`, `WagmiDialog` | done, proved | the subscription over the configs of 4; the dialog over the wagmi hooks |
| 25 | `ProvedParts`, `AdapterParts` | done | instantiate those of 2 and 7 to 24 that are proved about; and the others, see 3.25 |

What the plan has left is the composition of `Settings` with `UiKitManager` and
`WagmiWatching`, which now meet in the event "the settings changed" only.

Abstract specifications worth stating: `CapabilityContract` (done); for transfers,
an account that is the holder now and at most one successor that may accept until a
deadline, which the Stellar reads implement only up to the lag of their indexer and
the resolution of its timestamps, so that `PendingAgrees` states it with both.

The theorems worth proving are proved, but for those that section 6 leaves to TLC with its
reasons. (A run checks the properties of the smaller modules in
groups, see 3.25.)

## 3. The modules

Common conventions. A definition carries the name of the function it stands for
where one exists. A step is the code between two awaits (or, in `RuntimeCapability`,
between two points where foreign code may run). A definition whose comment begins
"The mutant of" is a plausible bug used to show that a property can be broken by the
code; no specification uses it.

### 3.1 `CapabilityContract`, `RuntimeCapability`, `MCRuntimeCapability`

`runtime-capability.ts` wraps a capability object in a proxy with a lifecycle.
`disposed`, `pending` and `cleanups` are the lifecycle's fields; `call` and `inner`
are the promise the caller holds and the one the method returned; `stack` is the
JavaScript call stack, so that a hook or a method body that disposes, calls or
registers is run inside the `dispose` loop that called it. `Dispose` is the part of
`dispose()` up to the loop, `RunCleanup`, `HookEnds`, `NextStage` and
`DisposeReturns` the loop, `CallMethod`, `TrackPromise`, `ReturnValue` and
`InnerSettles` the guarded call. `hook` and `ran` are history variables; `ran` is a
sequence, in which a hook that ran twice occurs twice (`HooksRunOnce`).

`CapabilityContract` says what the holder of a capability may rely on, with no
stack, stages or pending promises: a promise settles once, with its own result only
while the capability is live, and a hook runs at most once and only on a disposed
capability. `ImplementsContract` is the refinement, with `open` mapped to the
pending sets and `released` to the hooks run.

### 3.2 `ProfileRuntime`

One runtime over the factories of the five adapters, from `createRuntime` to
`dispose`. `BuildOrder`, `DisposeOrder` and `Requirements` are the code's tables.
`shared` is the cache of `createProfileSharedState`, `lazy` the one of
`createLazyRuntimeCapabilityFactories`; `ComposeLazy`, `ComposeStatic` and
`ComposeFails` are one creator's run, with the capabilities it asks for while it
runs; `UseCapability` is a method that asks for another at call time. The lifecycle of
a capability is the single bit `alive`, justified by 3.1. What the property
`dispose` of a service object *is* - the class's method or the lifecycle's - is the
variable `method`.

Left out: the event bus, to which nothing subscribes, and a capability whose own
`dispose()` throws, which no capability of the repository has.

### 3.3 `IdentityOnboarding`, `MCIdentityOnboarding`

Each worker drives the five writes for one holder. `pc` is the await its call is at:
`Probe` (idempotency read), `Submit`, `ExecutorThrows`/`ExecutorReturns`,
`WaitEnds`/`ReceiptArrives` (bounded receipt wait), `AssertKey`. `wiring` is the pair
of completion signals of `shared/completion.ts`. The chain (`facts`, `loose`) accepts
an operation as the contracts do; `loose` holds transactions nobody waits for any
more. The saga itself (`Advance`, `Resume`) is external: the behaviour the package's
docs ask of an integrator.

### 3.4 `UiKitManager`

`configure()` from await to await: `Configure` (synchronous head), `BeginRainbowKit`,
`BeginCustom`, `NoKit`, `Unloaded` (the branches after the wallet implementation is
had), `AssetsLoaded`, `RainbowKitConfig`, `Finish`, and `WalletFails`, `Abort` for the
failures. `manager` is the manager's state, `active` and `default` the wallet
implementation's two configs; a config is a record of the kit it was made for, the RPC
settings there were when it was made and its identity. `Mounted` and `Wrapped` are what
`EvmWalletUiRoot` renders of a state. A root copies the state when it mounts and at each
notification. `shown` is the copy of a root that is there from the start; `late` that of one
that mounts, and mounts again, at any moment (`RootMounts`), the awaits of `configure()`
included, in which the manager's state has been changed and nobody was told.

RPC settings have two stores. A config is made from `userNetworkServiceConfigService`
(`ServiceRpcChanges`), to which nobody listens; what drops the cached config is an event of
`userRpcConfigService` (`UserRpcChanges`). `EventsInvalidate` is what the listener promises,
of the second store; of the first, `ui_kit_rpc` shows that the promise the comments make is
not kept.

Two simplifications: the RPC listener, which is registered after a dynamic import, is
taken to be there before the first config is made; and a `kitName` of `undefined`
behaves as `custom`, as in the code.

### 3.5 `EvmExecution`

`request[q]` is one call: of the EOA strategy, the relayer strategy or the exported
`signAndBroadcastEvmTransaction` (method `targeted`), followed by
`waitForEvmTransactionConfirmation`. `client` is the wagmi client it holds, with the
account and network it was made for; `from` the account read after that await; `reply`
the status last polled. `wallet` changes arbitrarily between steps. `job` is the
relayer's transaction and advances on its own; `tx` is the transaction on chain.
`connection` is one call of `connectAndEnsureCorrectNetworkCore`.

External: viem compares the network of the client with the wallet's before it asks for a
signature, and wagmi's `getAccount` has no network for a wallet that is not connected. The step
from `_ensureCorrectNetworkOrSwitch` to the reading of the client crosses only resolved
promises, so no wallet event comes between. viem answers a wait for a transaction that was
replaced or cancelled with the receipt of the other one: a transaction ends `success`,
`reverted` or `replaced` (`Outcomes`), and for a replaced one any receipt may arrive
(`ReceiptArrives`), so that a receipt says nothing certain of the transaction it was asked for,
and no property claims it. The account that `connectAndEnsureCorrectNetworkCore` answers is the
one of before the switch; nothing is stated about it.

`MCEvmWriting` checks this module and the onboarding of 3.3 where fairness is needed, in
behaviours of their own: the other part rests.

### 3.6 `EvmRoles`, `MCEvmRoles`

One contract. `log` is its history of role events, `indexed` how much of it the indexer
has processed, so that the chain and the indexer answer consistently but at different
moments. `contexts` are the objects `registerContract` made; a call keeps the one it
began with, as the code does, also after `dispose()` or another `registerContract`. A
call's `pc` is the await it is at: reading the role constants (`AbiAnswers`, `AbiFails`),
`Capabilities`, `health` and `asking` (the indexer's health check and query), `reading`
(`CountMembers`, `ReadMember`, one request each and for every role at once). Every
request may fail. `purpose` says which of the three indexer queries is made.

An indexer without an endpoint behaves as one whose first health check fails. `Window`
stands for the `first: 1000` of the discovery query. Members are sets: the code's list
may name a member twice when a revocation moves it between two reads. Roles in `Named`
have a label and roles in `Given` an id the application knows; the dictionary of
well-known names is one of the sources of labels and is not told apart from those given. What the
grant map (`indexer-client.ts:617-628`) keeps of several grants is left out: of a grant only its
account matters here.

### 3.7 `NameResolution`

`config` is what the service was constructed with, `call` the concurrent calls of
`resolveName` and `resolveAddress`. A call's `tier` is the client it asks (`bound` or
`l1`), `coin` the coin type, `saw` the flag its own `ccipRead` hook sets, `attempts` the
requests it made with what really became of them. What a registry holds is not state:
it changes at any moment, so every request may be answered in every way, and a value
is named by the registry and coin type it came from. Failures are told apart by the
class or name the service's mapper looks for.

### 3.8 `AbiLoading`

One load, since loads share nothing. `setup` is the request and the settings, `load`
where it has got to, `late` the providers that timed out and may answer yet, `heard` what
came of each (history). The ABI of a contract is a record of the features
`detectProxyFromAbi` looks at. `chain` says in which of the places the code probes the proxy
keeps its implementation, and `impl` changes with an upgrade between two reads.

### 3.9 `EvmTransfers`

`getOwnership` and `getAdminInfo` beside the contract (`chain`, `starts`), an indexer that
lags (`indexed`) and the operation the service itself sent last (`sent`). The pending
account is read from the chain; the indexer adds the transfer's initiation. Every read
may fail. Delays of the default admin are not kept: they decide when the contract
accepts, and the reads do not judge by them.

### 3.10 `StellarTransfers`

The same two questions on Stellar. The holder is read from the chain, the started and the
completed event by two queries from an indexer that goes on in between, the ledger from
the chain last. A ledger holds up to two operations of the contract, which carry one
timestamp. `call.first`, `second` and `read` are history variables: what the indexer and the
chain had at those moments; `clean` says that no read of the call failed. `getAdminInfo` tells a
failed `get_admin` as renounced, and the model does the same.

### 3.11 `StellarRoles`

`context` holds the known and the discovered role ids of the contract registered last,
`client` the caches of `StellarIndexerClient` and how often the settings changed,
`members` one role's members in the order of the chain, where a revocation moves the last
member into the gap. A call keeps the context it began with (`nr`). `pc` is its await: the
availability check (`check`, `asked`), the discovery query, the count and the reading of
members, which run at once. An answer of the check that comes after the settings changed is
cached as the code does, and ids discovered after ids were given (or an empty list of them) are
hidden, as in the code; no property denies either, and section 7 has both.

### 3.12 `StellarExecution`

One write. `kits` are the `StellarWalletsKit` instances with the wallet each has
selected, the active one and the one the native button was put up with; `wallet` is the
connection shown; `asking` the wallets whose `connect()` waits. `write` goes through the
writer of the access-control service, the preparation, the signature, the handing over
and the confirmation or polling of its strategy: EOA, or the relayer by operations, fee bump
or multisig. `network` and `relay` go on after the answer. A wallet stands for its account.

### 3.13 `MidnightWallet`

`lace` is the one `LaceWalletImplementation` of the page, `root` one mount of
`MidnightWalletUiRoot`, `flows` the attempt its mount effect makes and one `connect()` per
click. A prompt is an `enable()` not yet answered, and each gives an API object of its own,
so that a late answer to an abandoned prompt is told from the one asked for. Init includes
what an earlier mount may have left behind. Delays between polls are left out.

### 3.14 `MidnightExecution`

`artifacts` is the one `MidnightArtifactContext`, `keys` the contract whose keys the global
ZK provider has, `store` the names of the secrets in the persisted private state. A write
carries the artifacts that went with its data (`own`), those it uses (`runs`) and the
private state its circuit saw. The SDK is external: it may fail at every step, and
persists the next private state when the transaction is final, or has none. All contracts
have a circuit of the name called; `Pure` are those where it is pure. Which module and witness
code a call runs is modelled as the code has it, the contract loaded last included, and nothing is
claimed of it (7.).

### 3.15 `AbiComparison`

`stored` and `fresh` are any two ABIs of up to `MaxItems` items, `verdict` what `compareAbis`
answers: validation, normalisation, hash, the matching of items by key, the impact of each
difference and the severity. Items are of all six kinds: functions, events, errors, constructor,
fallback and receive. Parameters are named and typed from small sets that have swapped names,
overloads and parameters that changed places; a fallback may be payable. The hash is the
normalised ABI itself: collisions of `simpleHash` are left out. A stable sort is defined by the
place of each element, one more than the number of those before it (`Place`), which can be
reasoned about by counting. `SeverityIsRight` has a part for all ABIs and one for those whose
parameters are declared in the order of their names (`Named`): for others it would be false
(7.).

### 3.16 `Settings`

One network and one `service` of it. `user` and `userRpc` are the two stores of what the user
saved (`userNetworkServiceConfigService` and `userRpcConfigService`), `app` and `network` the
other places a setting may come from, `test` the connection test under way. Neither store
follows the other: the forms save to the first, Stellar's RPC readers look into the second
(`ResolveRpcUrl`, `CustomRpcUrl`) or into none (`NetworkRpcUrl`, of the ledger's reader and the
relayer). Each reader is an operator of its own, because in the code each resolves the setting
by itself (`ResolveRpcUrl`, `DefaultTransportUrl`, `RpcOverrideForRainbowKit`,
`ResolveExplorer`, `HealthCheckKey`, ...). A "bad" URL is refused by `isValidUrl` and by `fetch`
alike; a form field left empty is saved as absent, as the forms do. Every reader is asked
afresh; what is cached, and which event drops it, is in `UiKitManager` (3.4), `WagmiWatching`
(3.24) and `StellarRoles` (3.11).

### 3.17 `MidnightArtifacts`

An archive is a sequence of files with the names and the content that the extractor tells
apart, among them decoys of each kind. `Extract`, `StripZipForFunction` and the readers of
definitions are functions of it, with the code's bounds of depth as constants; `loaded`,
`analysis`, `cache` and `shown` are what the builder and `FunctionDecorationsService` keep,
with the analysis between its two awaits. `Ledger` and `Queries` count as one type; legacy
names of verifier keys and `deriveIdentitySecretPropertyName` are left out.

### 3.18 `AccessHistory`

`getHistory` of both adapters over one log of events. `adapter` says whose indexer client
makes the query, `indexed` how far the indexer is, `client` whether it was found available,
`paging` the application's reading with its filter, cursor and the entries so far. Both the
query by filter and the mapping of an event to an entry are the code's tables
(`TypeOf`, `ChangeOf`, `Asked`, `Entry`). A limit or ledger of 0 counts as unset, as in the code.
`LogSize` events are in blocks up to `MaxBlock`; the first `OfAnyKind` have any type, the others
are of the two commonest; up to `MaxLag` of them are not indexed at first. The indexer's order is
a filter of the log from its end (`Selected`).

### 3.19 `AccessFeatures`

`context` is the registered contract with its cached capabilities, `asking` the
`getCapabilities` of Stellar that wait for the indexer, `told` and `called` what was answered
and called last. `OwnableRequired` and the like are the code's lists of functions; a contract
has any set of them, in whole or in part. A guarded operation is a pair of the capability it
asks for and the function it then calls.

### 3.20 `StellarGrants`

`getCurrentRolesEnriched` of Stellar: members from the chain, role after role, then one
query of grants per role from an indexer that lags, `indexed` behind `log`. Events of one
ledger share a timestamp and come in any order; the query asks for no limit, so that `PageLimit`
is the indexer's own. Members of a role are read in one step (3.11 has the finer grain).
A contract has the roles of one of the `RoleSets`.

### 3.21 `StellarValues`

One parameter of one function, from its type in the contract's spec through the form
(`schema`, `input`) to the ScVal of a transaction, of a relayer's operation and of a query
(`sent`). A JavaScript value is a record of its kind; `Native`, `ParseInput`, `FromArg`, `ToScVal`,
`RelayerScVal` are the code's functions, branch by branch for the types listed. Characters of strings and
widths of integers are abstracted to which converter is chosen; a form can be filled in for
the `Fillable` types. Result types, `getScValsFromArgs`, `convertObjectToScVal` and the loader of asset
contracts are left out. `BytesN<n>` with its exact length and `hasEnumFields` are branches no type
reaches.

### 3.22 `Relayers`

`listing` reads the pages of a service whose relayers come and go (`service`, `changes`),
`detail` is the relayer chosen, `form` the options form with the edits that its fields allow
(`EvmEdits`, `StellarEdits`), `timer` the 100 ms after which a change is told, `options` what
the application holds and `sent` the request. A relayer that joins has an id that none before it
had. A form is edited while the service has had at most `MaxEdited` relayers, so that reading a
long list and editing a form are not multiplied with each other. Fees are given or not; balance
and status of a relayer are one flag. `Selecting` has the filter of lists, for this module and 3.18.

### 3.23 `Conformance`

`checkConformance` over a capability that answers each vector twice, from a set of answers
that has each way to go wrong. `rows` grow as the kit grades, `defects` (history) says what an
answer violates by the contract's own words, to which the report is held. Parts deeper than 64
levels or cyclic are compared by identity in the code and left out; a malformed configuration is one flag.

### 3.24 `StellarConnecting`, `WagmiWatching`, `WagmiDialog`

`StellarConnecting` has the kit manager's state (`manager`), its calls of `configure()` that
wait for the implementation (`wiring`), the one implementation (`impl`), the wallets asked
(`prompts`), the UI root (`root`) and button and dialog (`ui`). Effects of React run in the step
that causes them, and what waits for the implementation goes on before anything else happens
(`Quiet`), as only resolved promises are awaited. The manager's network is taken to be set, which
`createUiKit` does before anything else.

`WagmiWatching` has the implementation with its two configs and the one slot of a
subscription (`impl`), which of the wagmi stores is connected (`connected`) and all
subscriptions with what each was told (`watchers`), behind the facade of EVM or Polkadot. `moved`
is a history flag: the kit or the settings changed since.

`WagmiDialog` has wagmi's session, what the button last rendered of it, and the dialog with
its one attempt. Whether some other hook connects is any Boolean.

### 3.25 `ProvedParts` and `AdapterParts`

`ProfileRuntime` and the modules of 3.7 to 3.24 share no state with each other in the code, so
their product shows nothing that each alone does not. They are instantiated over one set of
variables, of which a behaviour belongs to one *part*, chosen at the start; the properties are
those of the parts, each asked where it applies. `ProvedParts` has the parts that are proved
about, with their proofs, and their specification `ProvedSpec`; `AdapterParts`, which the run
checks, adds the others, so that every behaviour of a proved part in the run is one of
`ProvedSpec`. `Secrets` is `MidnightExecution` once more, with two writes at a time and no
query, for the secrets that two calls call by different names; `Midnight` has one write beside a
query and two loads, for the secret of a call beside what loads and the SDK persist. `Grants` is
`StellarGrants` with two roles, or with one and one more event. Several properties of related
parts make one conjunction, which the mutant of one of them breaks.

### 3.26 Proof modules

`RuntimeCapabilityProofs`, `ProfileRuntimeProofs`, `IdentityOnboardingProofs`,
`UiKitManagerProofs`, `EvmExecutionProofs`, `EvmRolesProofs` and `MidnightExecutionProofs`
extend the modules they are named after. The proofs about `StellarExecution`, `NameResolution`,
`AbiLoading`, `EvmTransfers`, `StellarTransfers`, `WagmiDialog`, `WagmiWatching`,
`StellarConnecting`, `MidnightWallet`, `StellarRoles`, `StellarGrants`, `Relayers`,
`AccessHistory` and `AbiComparison` are in `ProvedParts`, about the instances of these modules
there: a section of it begins with which of the variables `s1` to `s14` is which. Two sections
prove what several of them need: that a set of numbers that has 0, and each number whose
predecessor it has, has them all up to a bound (`Upto`), and what a filter of a list selects,
stage by stage (`SelectedStepwise`). See section 6.

## 4. The runs

| Run | Configuration | What it shows | Distinct states |
|---|---|---|---|
| `runtime_capability` | `MCRuntimeCapability` | Hooks run once each and in stage order, no call stays open on a disposed capability, late results are dropped, a throwing hook does not stop the others, and the lifecycle implements `CapabilityContract`, whatever re-enters what. | 134,142 |
| `service_teardown` | `ProfileRuntime`, `ServiceTeardown.cfg` | Finding: the `dispose()` of a composed service never runs. | violation |
| `identity_onboarding` | `MCIdentityOnboarding` | Two workers race for one holder under up to two faults: answers about the chain are true, skipped writes are on chain, and no holder has a claim on an identity it cannot manage. | 549,503 |
| `ui_kit_manager` | `UiKitManager` | One config everywhere, under overlap and in a root that mounts at any moment; sequential calls leave a fitting state; connections are kept; what the RPC listener hears is not used any more; the manager stops initializing. | 563,840 |
| `ui_kit_rpc` | `UiKitManager`, `UiKitRpc.cfg` | Finding: a config outlives a change of the RPC settings it was made from. | violation |
| `evm_roles` | `MCEvmRoles` | A reader beside a discovery: labels given win, members shown held their role while they were read, every call ends. | 171,234 |
| `evm_roles_enriched` | `MCEvmRoles`, `EvmRolesEnriched.cfg` | Finding: the enriched answer shows a revoked member of an enumerable contract. | violation |
| `evm_writing` | `MCEvmWriting` | Right account, right network, final answers of the relayer, polling that ends; and a worker that re-drives an onboarding completes it, after up to three faults. | 158,523 |
| `adapter_parts` | `AdapterParts` | Names, ABIs and their comparison, settings, transfers, history and features of both ecosystems, Stellar roles, grants, values and writes, relayers, runtimes, the wallets of Midnight, Stellar and EVM with their dialogs, Midnight calls and archives, the conformance kit: what is answered or shown is of the source it names and true as far as each property says (3. and 7.), nothing built is forgotten, who subscribes is served. Where the code lets a failure pass for an answer (Stellar's `get_admin`, a failed page of an EVM history), the property leaves it out by name. | 3,695,481 |
| `abi_beacon` | `AbiLoading`, `AbiBeacon.cfg` | Finding: a beacon proxy's implementation is never found. | violation |
| `stellar_signing` | `StellarExecution`, `StellarSigning.cfg` | Finding: a declined wallet is asked to sign. | violation |
| `midnight_connecting` | `MidnightWallet`, `MidnightConnecting.cfg` | Finding: "Connecting" never ends when the wallet does not answer. | violation |

No run checks for deadlock: every module describes a finite number of calls, after
which the system rests.

### Bounds

- **`MCRuntimeCapability`**: two capabilities are enough for one to be disposed by
  the other's hook and to dispose it back; two hooks give every pair of stages and both
  orders; one call on either capability covers a method body that disposes its own
  or the other capability. More hooks repeat the loop; the proofs cover the rest.
- **`ProfileRuntime`** (a part of `adapter_parts`, and `service_teardown`): the tables are the
  code's, nothing is cut. `MaxUses = 2` calls are enough for one capability to be asked for
  through two others.
- **`MCIdentityOnboarding`**: one holder, since operations on different holders commute
  in the contracts; two workers, since a third can only land what one of the two can.
  `MaxFaults` counts failed and stale reads, lost transactions and executors that throw;
  two allow a fault at one call and another at its retry. In `MCEvmWriting` it is one worker with
  three, for a fault at each of three calls that follow each other. The three wirings are one for
  each way two signals combine: none, one, and a disagreement. Workers are symmetric
  (safety only).
- **`UiKitManager`**: three calls, so that a call can follow two that overlapped, or a
  success, a failure and a success (two for `ui_kit_rpc`); one change of each store of RPC settings;
  two roots, of which one mounts as often as it may.
- **`MCEvmRoles`**: `reader` is a call of `getCurrentRoles` or `getCurrentRolesEnriched`,
  `discoverer` one of `discoverKnownRoleIds`: two calls that race for the flag, the labels
  and the health check. Two events are a grant and its revocation, or grants of two roles
  to one account; `Window = 1` makes the discovery query drop one of two. One
  registration, which may be disposed of and not repeated; a second one was checked
  for the safety properties (7.4 million states, `MaxContexts = 2`).
- **`MCEvmWriting`**: of an execution, requests share only the wallet, and the wallet is arbitrary at
  every step, so one request sees all that several would. Two accounts and two networks
  are the right one and another. `MaxPolls = 2` is a poll that is repeated and one that
  is not; it stands for five minutes of polling every two seconds.
- **`AdapterParts`**, by part (distinct states):
  - *names* (866,452): two concurrent calls, which is what one call's gateway traffic needs
    to be taken for another's; every configuration and every outcome of every request.
  - *abis* (17,133): one upgrade, at any point of the load.
  - *evm* (19,680): two starts, so that one replaces another, and four moves of the chain: a start,
    its replacement, its acceptance and a renunciation.
  - *stellar* (314,465): one account, since who is the successor decides nothing; three
    events in four ledgers, so that a start can be followed by its completion and another
    start, in one ledger or several, with expiry before, at and after the last of them.
  - *write* (518,019): two wallets are the connected one and another; one configured kit
    beside the default one; one status read that decides and one that does not.
  - *roles* (204,202): a reader beside a discovery, one id given and another emitted, one change
    of the settings, two registrations, one grant or revocation between two reads.
  - *runtime* (85,540): see above.
  - *lace* (122,695): two clicks beside the attempt at mount, so that prompts overlap; one
    account, which is known or not; two reads of the wallet's state unanswered at once.
  - *midnight* (328,032): two contracts of which one is pure, two loads, one write and one query.
  - *secrets* (160,456): two writes, two names, one load. Two writes with two loads
    were checked apart from the runs (3.7 million states, no violation).
  - *comparison* (95,048): every pair of ABIs of up to two items, which an overload and its twin,
    a change of each impact, and two changes of different impact need.
  - *settings* (47,556): every combination of the places a setting may come from, both stores included,
    one test at a time.
  - *archives* (6,768): archives with one decoy of each kind; three files of re-exports and depth two
    stand for 20 and 6. A second upload follows only one of the archives `Rebuilt`, by another of them.
  - *history* (394,524): three events in two blocks, the first of any type, read page by page with every
    filter, one of them indexed later or not. Four events, pages of up to two and any lag
    were checked apart from the runs (4.9 million states, no violation).
  - *features* (17,264): every contract with all the functions of its extensions, and each that
    lacks one or has one with other parameters; a second registration puts a whole contract in
    the place of a whole one.
  - *grants* (300,172): two roles and three events, for a query per role; or one role
    and four events, so that an account is granted, revoked and granted again, with another between.
  - *values* (3,917): every type of the listed ones, nested once or twice, with a value of each shape.
  - *relaying* (32,542): three relayers in pages of one with two changes, for a change before, on
    and after the page being read; with one relayer, every sequence of edits.
  - *kit* (53,438): two vectors, so that one's failure can touch the other's rows, and one label.
  - *stellar ui* (67,732): two wallets, two kits and two prompts: a second of each while the first is
    under way; the dialog closes and opens without a bound.
  - *watching* (39,622): two subscriptions, since the slot remembers one; three configs: the one a
    subscription is bound to, the one made after the settings changed, and a kit's own.
  - *dialog* (224): nothing is cut but the number of connectors.

## 5. Fairness

Weak fairness is given to what the JavaScript event loop and bounded requests
guarantee, never to a user, an application or a remote party that may decline.

- `RuntimeCapability`: code on the stack returns. Nothing makes an application dispose
  or a promise settle.
- `IdentityOnboarding` (in `MCEvmWriting`): a call in progress goes on (reads and waits have
  timeouts in viem and in the service), a transaction that is not lost is mined, and a worker
  whose call ended calls again. Strong fairness of `Advance` says that a worker whose answer
  allows it to go on infinitely often does not repeat the same call for ever; it is about the
  external saga, not about the code under `src/`.
- `UiKitManager`: imports resolve or fail. `InitializingEnds` assumes that the wallet
  implementation can be had; if its promise rejects, `configure()` rejects before its
  `try` and the flag stays up, which the model has (`WalletFails`).
- `EvmRoles`: each request is answered or fails (`fetch` and viem's transport), and a
  call whose request ended goes on.
- `EvmExecution`: the relayer's API answers or fails, timers fire, and viem's receipt wait
  times out. Nothing is assumed of the wallet's user, so the EOA strategy has no liveness
  property: a signature may be left waiting for ever. The relayer client has no timeout of
  its own; the assumption is the HTTP client's.
- `MidnightWallet`: continuations run, timers fire, React runs its effects. Nothing is
  assumed of the extension, of its user or of the window's focus, which is what makes
  `ConnectingEnds` fail: everything that could end "Connecting" depends on one of them.
- The other modules have safety properties only: what they wait for is a user, or a
  request whose end the code does not bound.

## 6. What is proved

All theorems hold for every value of the constants under the modules' named assumptions, and do
not use fairness. Each rests on an inductive invariant: `Init => IInv`, `IInv /\ [Next]_vars =>
IInv'` and `IInv => property`. The assumptions are `HolderAssumption`, `WiringAssumption` and
`FaultAssumption` (identity), `ExecutionAssumption` (execution), `RpcAssumption` (UI kit),
`BoundsAssumption` (`EvmRoles`), and those of `ProvedParts`: `BoundsAssumption`,
`WalletBoundsAssumption`, `RoleBoundsAssumption`, `ChangesAssumption`, `LogAssumption`,
`ItemsAssumption`, `AccountsAssumption`, `SizesAssumption`, `WalletsAssumption` and `NamesAssumption`:
bounds are natural numbers, the target is a network, what stands for "nobody" is no account and
for "none" no wallet, accounts and relayers can be counted, a page of relayers holds some, a
secret has a name, the roles given and named are roles, the methods a call may be of are those
modelled, and the window of events that discovery queries and the bound on registrations are
not zero. `TypeCorrect` of `ProfileRuntimeProofs` and the theorems of `MidnightExecutionProofs`
have the like as hypotheses, which `ProvedParts` discharges.

**`RuntimeCapabilityProofs`**: `TypeCorrect`, `NothingLeftOpen` (no call is left open on a
disposed capability), `ResultsAreLive` (what a caller was told never changes, and a method's own
result reaches it only while the capability is live). `IInv = TypeOK /\ PendingIsTracked /\
DisposedIsDrained /\ Bodies`. `NoCallLeftOpen` is not inductive: a pending call must be in the
pending set of its owner (`PendingIsTracked`) for `Dispose` to reject it, that set must be empty
afterwards (`DisposedIsDrained`), and a call whose body is on the stack must still be running,
once, and be the stack's own (`Bodies`), for the check made when the body returns to be the one
that matters.

`StagesInOrder` (`StagedOrder`: hooks run by stage) and `HooksAreRunOnce` (`HooksRunOnce`) rest
on a second invariant, `HInv`, about the frames of `dispose()` on the stack. The loop of a
capability is on the stack at most once, has run what stands before its place and nothing after
it (`Loops`, `Visits`); a hook stands in one place (`OnePlace`) and was registered there
(`RegisteredIsOld`); what ran was registered (`RanIsRegistered`), once (`RunsOnce`). Hooks that
register hooks, or dispose other capabilities, push and pop frames, which `LoopsPush` and
`LoopsPop` deal with for any depth.

`LifecycleKeepsContract` is the refinement of `CapabilityContract`: under the mapping of
`RuntimeCapability` the initial states are initial states of the contract, and each step is one
of its steps or leaves it alone (`StepContract`: one lemma per action, and `StutterIsNone` for
those the contract does not see). It needs both invariants.

**`ProfileRuntimeProofs`**: `TypeCorrect`, `EverythingReleased`, `BuiltOnce`. Of what is alive
`IInv` says who will dispose it (`Owned`: the runtime's cache, or a capability in it that holds
it privately and is alive itself), which needs what composition has passed (`Composed`), that
both caches agree on a lazily built capability (`OnDemand`), and that a private instance is in
no cache (`Numbered`); the disposal loop leaves nothing behind it (`Passed`).

**`IdentityOnboardingProofs`**: `TypeCorrect`, `SuccessIsTrue`, `AlreadyIsTrue`,
`HoldersCanRescue`, for any number of workers, holders and faults and any wiring. Facts on chain
are never undone, so it is enough that the fact is there when the answer is given. `IInv` adds
to the properties that a receipt of success and the assertion after it imply the fact
(`ReceiptsTrue`), that a worker beyond `grant` has its grant on chain and nobody grants on a
foreign identity (`PastGrant`), and which writes can be where (`Places`).

**`UiKitManagerProofs`**: `TypeCorrect`, `ConfigIsShared`, `SequentialFit`, `ProviderFits`,
`EventsAreHeard`, `ConnectionIsKept`, for any number of calls of `configure()`. Two parts of
`IInv` do the work. `Handed` follows a config from where it is made to where it is activated,
whatever overlaps: it is for the kit of the call that carries it and not from before an event
that came before that call, and the default one is from after the last event. A root that mounts
is added to what notifications tell: of the state it copies, `ProviderOverItsConfig` says less
while a call to RainbowKit awaits its config, since what it shows then does not fit.
`Sequential` says what a call that is alone finds and leaves, and holds as long as calls do not
overlap. The two action properties follow from what the last step of a call (`Complete`,
`Abort`) does with what `Handed` says it has.

**`EvmExecutionProofs`**: `TypeCorrect`, `SignerIsRequired`, `NetworkIsTarget`,
`RelayerIsFinal`, `ConnectionIsOnTarget`. A request moves only its own job and transaction, so
`IInv` is `TypeOK` and a relation `Fits` between the three: the places of each method (`Route`),
the checks of account and network that still hold up to the signature (`Signature`), final
statuses once polled (`Relay`), and that a job under way has no settled transaction (`Settled`).
`OneRequest` reduces a step to the request that takes it. The wallet occurs in `Fits` nowhere,
which is the point: what is checked is kept in the request, so the user's changes cannot make it
stale. `ConnectionIsOnTarget` needs no invariant: one step looks and answers.

**`EvmRolesProofs`**: `TypeCorrect`, `ListedMembersHeld`, `GivenLabelsStay`, for any number of
calls, roles, accounts, events and registrations. The members of a role are defined by recursion
over the log of events. The log grows by one event at a time, so the induction can be that of
the behaviour: `Enumerated` says that for every prefix of the log the recursion has one
solution, which lists accounts, and `ListsLast` adds an event. `Fits` says of a call what it
holds: members that have held their role since it began to read (`Sound`), nothing before it
reads (`Early`). Events only ever prolong the log, so what holds of a prefix stays (`HeldKept`,
`FitsKept`). `GivenLabelsStay` is an action property with one lemma per step that writes a
label.

**`MidnightExecutionProofs`**: `SecretsStayInCalls`. Calls share the persisted private state, so
the invariant says of each write what it may leave to the others: the state it works on is what
was persisted at first and its own name, its own only if it was given a secret.

**`ProvedParts`** states the properties that the run `adapter_parts` checks, of the
specification `ProvedSpec` of the parts it has: `RuntimeReleases`, `SecretsAreKept` (from two of
the modules above), `WriteIsTrue`, `NamesAreTold`, `LoadsAreTold`, `TransfersAreTold`,
`WalletsServe`, `RolesAreKept`, `RelayersAreSent`, `HistoryIsShown` and `SeverityIsTold`.
`PartsInv` has one invariant per part; a step leaves the part as it is and is a step of its
module, so `PartsMove` is one case per part.

- *A Stellar write*: `WriteFits`, which relates where the write is, what network and relayer
  have of it and what it answered, and is inductive with `TypeOK`.
- *Names*: `NameFits` says of a lookup which registries it has asked and what they answered; L1
  behind the bound network is asked only after that one missed (`AskedBehind`), and what a call
  ended with is explained by its last attempt (`NameEnded`, `CodeTells`). Other calls of the
  same client occur in it nowhere.
- *ABIs*: at most two providers are asked, so `LoadGoes` says for each place what was heard so
  far, a list of up to two answers: who refused, and that the ABI in use came from the last one
  (`CameFrom`). Answers that come after their timeout (`late`) change nothing of it.
- *EVM transfers*: a call that read no holder read it when there was none, and nobody becomes a
  holder after that. On Stellar likewise, for `getOwnership` and for a `getAdminInfo` whose reads
  came through.
- *Stellar transfers*: events are in order of their ledgers, and one that completes a transfer
  is not after its deadline (`EventsFit`). What a call found with its two queries is stated of
  the prefixes they saw (`LatestStart`, `NotCompleted`, `NoLoneStart`), to which later events
  add nothing, and `HasExpired` says that whatever came after an expiry was seen is too late.

- *The EVM connect dialog*: its two properties are inductive with its types.
- *The subscription to wagmi's account*: the slot of the implementation has the newest subscription
  that found a wallet, the only one that may be served (`SlotIsNewest`), and who is served was told
  of its config, which is the one in use unless kit or settings changed (`ServedIsTold`).
- *Connecting a Stellar wallet*: of the calls of `configure()` that wait for the implementation the
  last brings the manager's kit, or was overtaken (`WiringFits`); a root that listens shows the
  implementation's address (`RootFits`); a dialog open over a connection waits for nothing
  (`UiFits`); and who waits for a wallet waits for one that was asked (`PromptsFit`).
- *The Midnight wallet*: four places set or clear one timer. `PageFits` says that an API that the
  root synced has its listener; `SyncWillServe`, that listeners without a timer or a poll have an API
  the root has yet to sync, and will; prompts are of attempts of their own (`PromptsCounted`), which
  still wait for them (`PromptsAwaited`).
- *Stellar roles*: ids given stay known, whatever discovery stores later (`ContextFits`); and
  what a reading shows are the members at the places it has read, of those it counted, which are
  the first ones while none leaves (`ReadingFits`).
- *Grants*: what a query could see is a beginning of the log, so `RowFits` says that each row shown
  is told of the beginning its query had, which later events do not change (`ToldStays`).
- *Relayers*: `PagesFit` says that the pages before the current one were full, that what was found is
  from the list at or before its place, and, while none went, that it begins with what the list
  began with; `FormFits` and `SentFits` relate form, timer, options and request. An attempt to prove
  that no relayer is listed twice failed as long as a relayer that left could come back under its
  old id: then it is listed twice. The service gives every relayer an id of its own, so `Enlist`
  now says so.
- *The history of a contract*: what is asked of the indexer is what `Meant` says of the filter
  (`AskedAsMeant`, by cases over the tables of both adapters). `PagingFits` says that the events
  shown fall, and are exactly those meant of the ones indexed at first, from the cursor on; two
  falling lists of which one has the other's events from some event on begin alike
  (`OlderFollow`).
- *Two ABIs*: a function that is gone by name is gone in the normalised ABIs too, since
  normalisation keeps kinds and names, and its removal is breaking (`GoneBreaks`, for all ABIs).
  For the rest, the places of a list's elements are one to one with its positions, because the
  sets of those before them grow strictly (`SortPermutes`), so a sorted list is the list in
  another order, and parameters in order stay (`SortStays`). Normalisation therefore keeps the
  map of selectors to items (`NormalMap`), the differences are those of the two maps
  (`DifferencesAre`), and the severity is what they weigh (`SeverityFits`). `Compiles` is
  needed: of two items of one selector, the map keeps one.

Induction over numbers needs no operator as a parameter: a set of numbers up to a bound that is
not all of them has a least one outside (`Least`), and `Upto` and `Stepwise` follow. So what is
computed along a list, as a filter by `Selected`, can be proved about; the induction theorems of
the library take an operator and cannot be used.

`TypeOK` of the modules proved about is not in the runs because the theorems (in `ProvedParts`,
the typing parts of the invariants) give it for every value of the constants; that of the other
modules is stated in each and was checked apart from the runs. `ConnectionIsOnTarget` is proved
and not run.

### Only model-checked

- Liveness under fairness (`CleanupsRelease`, `Onboarded`, `InitializingEnds`, `CallsEnd`,
  `RelayerEnds`): the prover handles neither fairness nor `ENABLED`.
- `ValuesRight` and `ConformanceJudged`: `StellarValues` and `Conformance` use `RECURSIVE`
  operators for nested types and values, which excludes them from proofs; no other module does.
- `ArchivesRight`: the archives are a fixed finite set, written out in the module, so that the run
  has them all; a theorem would say no more.
- `SettingsAgree` and `FeaturesFit`: `Settings` and `AccessFeatures` have no constants and are
  finite, so that the run is exhaustive but for the contracts of a second registration (section
  4).

## 7. Findings

1. **Composed services are never torn down** (`service_teardown`). The lifecycle's proxy
   replaces the property `dispose` of the service object, and the cleanup hook
   `() => service.dispose()` then calls the lifecycle's, which has nothing left to do.
2. **Enriched roles show revoked members** (`evm_roles_enriched`): empty roles are filled in
   from the indexer although the contract can enumerate its members.
3. **Beacon proxies have no implementation** (`abi_beacon`): the calls that would ask for it
   hand viem a signature it cannot parse, and the exception is taken for "none".
4. **A declined wallet signs** (`stellar_signing`): `connect()` selects the wallet in the
   kit first and does not undo that when the user declines.
5. **"Connecting" without end** (`midnight_connecting`): the timeout meant for a wallet that
   does not respond is set after it responded.
6. **Changed RPC settings go unheard** (`ui_kit_rpc`): the cached Wagmi config is dropped on
   an event of `userRpcConfigService`, and made from `userNetworkServiceConfigService`.

Each is quoted with its lines in `PROJECT.json`. Smaller disagreements between text and
code, or oddities of the code, that were met and that no run is about:

- EVM. A reverted deployment answers "No identity was created", while its usual cause is that
  the identity exists (a retry is safe: the next probe finds it). Of overlapping `configure()`
  calls, the one that finishes last sets the config and the one that began last owns the kit.
  `adapter-evm/src/wallet/README.md:15,51` calls the Wagmi provider always rendered, and
  `EvmWalletUiRoot.tsx:33-39` renders its children bare without a config. The comment in
  `onchain-reader.ts:446-449` speaks of `hasRole` checks by the caller, who makes none.
  `discoverRoleIds` is described as returning all role ids and asks for the newest 1000 events.
  The initiation told with a pending transfer may be another start's, when the indexer is behind
  (`access-control/service.ts:366`). The comment at `EvmWalletUiRoot.tsx:33-36` takes a provider
  without a config for the only state to guard against; a root that mounts while RainbowKit's
  config is awaited (`uiKitManager.ts:171-177`) has RainbowKit's provider over the custom kit's
  config until the next notification. A wait for a transaction that its user sped up or
  cancelled is answered with the receipt of the other one (`transaction/sender.ts:250`), and
  waits on the network that the wallet is on then.
- Stellar. A failed `get_admin` is told as "renounced"
  (`adapter-stellar/src/access-control/onchain-reader.ts:402-405`, `service.ts:888-899`), which
  `service.ts:843` reserves for an admin that was renounced, and where the EVM service throws.
  The answer of an availability check that was asked of the old endpoint is cached after the
  settings changed (`indexer-client.ts:279-311`), though the comment at `:244-246` says the
  cache is reset. Role ids discovered by a call that began before ids were given are hidden
  behind these, an empty list included, and left out when ids are added to the given ones. A
  transaction the network rejected after it took it is answered with its hash
  (`transaction/eoa.ts:176-206`). A write with a caller argument cannot go through the relayer's
  operations mode: the placeholder caller is not an address. A start and a completion of the
  same ledger have one timestamp, and the queries take the start for completed or for pending by
  it (`indexer-client.ts:1009-1029`).
- Midnight. A poll under way at a disconnection shows the wallet connected again. A
  subscription before the implementation was asked for goes to an object that is thrown
  away (`connection.ts:86-92`). The poll's timer goes on with no listener left, where the
  wallet's README says that polling stops. The listener of the automatic reconnection uses
  `unsubscribe` before it has a value when the address is known already. `callCircuit` never gives the
  `result` it documents, and makes up a hash `midnight_tx_...` when the SDK gives none. ZK
  keys are kept by circuit id across contracts. Whether a circuit is run locally, and from which
  module, is read from the contract loaded last; witness code that is missing is filled in from it.
- ABIs and settings. `normalizeAbi` sorts parameters by name, so that two functions with swapped
  parameters are identical, and a parameter that is renamed may make another function of it;
  swapped overloads make ABIs that differ with no difference. A health check of an EVM `rpc`
  service without a form value ignores the application's override; the form of Stellar's RPC
  saves to `userNetworkServiceConfigService`, where no reader of Stellar's RPC looks:
  `resolveRpcUrl` (`configuration/rpc.ts:32`), which nothing in the package calls, and
  `getSorobanRpcServer` read `userRpcConfigService`, the ledger (`onchain-reader.ts:431`) and
  the relayer the network only, although `transaction/relayer.ts:416-419` speaks of user
  overrides; `adapter-evm-core/src/configuration/rpc.ts:40` names the one store and reads the
  other; `hasIndexerEndpoint` (`access-control/service.ts:1532`) looks at the network only.
- History. The EVM filter for initiated admin transfers does not ask for scheduled default-admin
  transfers, which are shown under that type; a filter by role misses owner and admin events that are
  shown with the role; a page that fails is an empty last page on EVM and an error on Stellar;
  Stellar refuses a contract's address as account.
- Features. The delay operations of the EVM service are guarded by two-step admin support only; Stellar's
  `get_admin` by `accept_admin_transfer`; `grantRole`, `revokeRole` and `transferOwnership` of EVM by
  nothing. Grants shown on Stellar may be later than the reading of the members, or earlier than the
  last one when the indexer is behind or has a default page.
- Stellar values. The parser is bypassed when `eoa.ts` and `relayer.ts` convert; a `Bytes` payload
  throws, or becomes a string in a tuple; an absent option in a struct or tuple throws or becomes "";
  a struct in a struct becomes a map of untyped keys (`struct-conversion.test.ts:76` asks for "defined"
  only); integer enums in structs throw; several payloads one of which is a tuple are flattened; the
  relayer's operations mode turns void into `false` (`transaction/relayer.ts:449`); queries with
  structs, maps or enums send other ScVals than transactions do; view functions with bytes, string or
  vector parameters are taken for modifying ones, and writers of instance storage for views.
- Relayers. `networkConfig.id.includes(r.network)` lists look-alikes, and none of `mainnet` for
  `stellar-public`; a relayer removed between two pages hides another; an overstated total is read
  for ever. A form whose custom fees are emptied shows FAST and sends no speed; one of two EIP-1559 fees
  may be missing; a hidden gas limit is still sent; a change of the last 100 ms is lost.
- Midnight archives. `endsWith` gives circuit `set` the keys of `reset`; a trimmed archive drops
  witness code in TypeScript, and after a reload from it an export of another function has no
  keys; the cache key of decorations is 32 characters of JSON that hold a part of the address
  only, so that a rebuilt archive of the same address shows old ones; the set of visited helpers
  is shared between branches of a search bounded in depth, which then misses some; circuits
  taken for pure without `PureCircuits` are not run locally.
- Conformance kit. A disposed capability, or one with neither method, passes with everything skipped;
  a second answer is not graded when the first was a failure.
- Stellar connecting. A root that is mounted after only an unknown kit was configured hears of
  no connection, and its dialog names its choice for ever. Overlapping first `configure()` calls
  may leave the implementation with another kit than the manager shows, and an earlier one's end
  clears a later one's error. The facade drops `isConnecting` and `status`
  (`connection.ts:120-131`), so that no button of the dialog is ever disabled. `createUiKit` for
  another network changes the manager's network at once and the implementation's at the next
  `configure()`.
- EVM connecting. After one "Connector already connected" a dialog that stays mounted closes at once
  whenever it is opened. A subscription stays with the config it was made for; one made before the
  implementation (EVM) or before a config (Polkadot) is a no-op that nobody is told of.

## 8. Not modelled

- Snapshots of access control beyond their guards, and the writers of EVM roles and of the
  admin delay: single reads, and one transaction each over the modelled path.
- RainbowKit's own components, the network switcher and the account display; `cleanup()` of the
  wagmi implementation, which nothing in `src/` calls; the network switch of a Stellar UI kit
  between two `configure()` calls (7.).
- Field generation and type mapping other than Stellar's, ERC-3643 and ERC-4626 reads: they keep
  no state; their writes go through `EvmExecution`'s path.
- The unpacking of ZIP containers, the parsing of TypeScript text beyond the declarations told
  apart in `MidnightArtifacts`, and the wording of errors. Only one Midnight network exists in the
  package, so calls for two networks, which would share the SDK's global network id, are left out.
- What remains of hazards met and not modelled: a runtime that includes name resolution and has no
  RPC URL throws after other capabilities were built (`profiles/shared.ts:106`; the
  failing creator itself is in `ProfileRuntime`); a call that finds a discovery under way
  works with the roles known so far (`access-control/service.ts:1577`); a RainbowKit import that
  failed is not tried again.
- Gas, fees, values and calldata: no property depends on them.
- React rendering beyond the choice the UI root makes, the Solana scaffold, the Vite
  plugin, and everything at build time.
