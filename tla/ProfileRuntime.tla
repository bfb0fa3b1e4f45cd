--------------------------- MODULE ProfileRuntime ---------------------------
(***************************************************************************)
(* One runtime, from createRuntime(profile, config) to dispose(): which     *)
(* capability objects are built, in which caches they are found again, and  *)
(* which of them disposal reaches.                                          *)
(*   profile-runtime.ts     requirements, eager composition, dispose loop   *)
(*   runtime-factories.ts   the lazily memoised factories                   *)
(*   profiles/shared*.ts    what each adapter's factories build, and from   *)
(*                          what                                            *)
(*                                                                         *)
(* A runtime is composed from "lazy" factories (createRuntime of every      *)
(* adapter) or from the exported "static" capabilityFactories, whose query  *)
(* and access control build a private capability of their own.  The         *)
(* lifecycle of one capability is RuntimeCapability; here it is a bit.      *)
(***************************************************************************)
EXTENDS Naturals, Sequences, FiniteSets

CONSTANT MaxUses    \* calls an application makes on one runtime

VARIABLES
    adapter,    \* the ecosystem whose factories are used
    style,      \* "lazy" or "static" factories
    rpcOk,      \* an RPC URL can be resolved for the network
    profile,    \* the profile asked for
    phase,      \* where the runtime is in its life
    pos,        \* position of the composition or disposal loop
    shared,     \* the runtime's capability cache: key -> instance number, 0 none
    lazy,       \* the factories' capability cache, likewise
    built,      \* built[k]: instances of capability k built so far
    alive,      \* instances built and not disposed
    private,    \* private[k]: instance k's cleanup hook disposes
    method,     \* method[s]: what the property dispose of service object s is
    torn,       \* services whose own dispose() ran
    uses        \* calls made

vars == <<adapter, style, rpcOk, profile, phase, pos, shared, lazy, built, alive,
          private, method, torn, uses>>

input == <<adapter, style, rpcOk, profile>>

Tier1 == {"addressing", "explorer", "networkCatalog", "uiLabels"}

Reading == {"contractLoading", "schema", "typeMapping"}

(* PROFILE_REQUIREMENTS *)
Requirements ==
    [declarative |-> Tier1,
     viewer      |-> Tier1 \union Reading \union {"query"},
     transactor  |-> Tier1 \union Reading \union {"execution", "wallet"},
     composer    |-> Tier1 \union Reading
                       \union {"query", "execution", "wallet", "uiKit", "relayer"},
     operator    |-> Tier1 \union Reading
                       \union {"query", "execution", "wallet", "uiKit", "accessControl"}]

(* The order createRuntimeFromFactories asks for capabilities in. *)
BuildOrder == <<"addressing", "explorer", "networkCatalog", "uiLabels", "contractLoading",
                "schema", "typeMapping", "query", "execution", "wallet", "uiKit", "relayer",
                "accessControl", "nameResolution">>

(* DISPOSABLE_CAPABILITY_KEYS *)
DisposeOrder == <<"contractLoading", "schema", "typeMapping", "query", "execution", "uiKit",
                  "relayer", "accessControl", "wallet", "nameResolution">>

Keys == {BuildOrder[i] : i \in DOMAIN BuildOrder}

Disposable == {DisposeOrder[i] : i \in DOMAIN DisposeOrder}

Offered(a) ==
    Keys \ (CASE a = "evm" -> {}
              [] a \in {"polkadot", "stellar"} -> {"nameResolution"}
              [] a \in {"midnight", "solana"} -> {"accessControl", "nameResolution"})

Adapters == {"evm", "polkadot", "stellar", "midnight", "solana"}

(* Capabilities a creator asks its factories for while building k, and ones *)
(* a method of k asks for when it is called.                                *)
NeedsToBuild(k) ==
    IF k = "accessControl" /\ adapter = "evm" THEN {"execution"} ELSE {}

NeedsToRun(k) ==
    CASE k = "query" -> {"contractLoading"}
      [] k = "accessControl" /\ adapter = "polkadot" -> {"execution"}
      [] OTHER -> {}

(* The capability a static factory builds for the private use of k. *)
PrivateOf(k) ==
    CASE k = "query" -> {"contractLoading"}
      [] k = "accessControl" /\ adapter \in {"evm", "polkadot"} -> {"execution"}
      [] OTHER -> {}

(* Capabilities that are a service class wrapped by guardRuntimeCapability, *)
(* with a hook () => service.dispose().                                     *)
Services == {"accessControl", "nameResolution"}

Included(k) ==
    \/ k \in Requirements[profile]
    \/ k = "nameResolution" /\ k \in Offered(adapter)

Init ==
    /\ adapter \in Adapters
    /\ style \in {"lazy", "static"}
    /\ rpcOk \in BOOLEAN
    /\ profile \in DOMAIN Requirements
    /\ phase = "new"
    /\ pos = 1
    /\ shared = [k \in Keys |-> 0]
    /\ lazy = [k \in Keys |-> 0]
    /\ built = [k \in Keys |-> 0]
    /\ alive = {}
    /\ private = [k \in Keys |-> {}]
    /\ method = [s \in Services |-> "service"]
    /\ torn = {}
    /\ uses = 0

-----------------------------------------------------------------------------
(* Building one capability *)

(* Mutant: getCapability never finds what is cached. *)
MissingAlways(ks) == ks

(* The lazy getCapability of the keys ks: each is built unless cached.      *)
Missing(ks) == {k \in ks : lazy[k] = 0}

BuildLazily(ks) ==
    LET new == Missing(ks) IN
    /\ lazy' = [k \in Keys |-> IF k \in new THEN built[k] + 1 ELSE lazy[k]]
    /\ built' = [k \in Keys |-> IF k \in new THEN built[k] + 1 ELSE built[k]]
    /\ alive' = alive \union {<<k, built[k] + 1>> : k \in new \intersect Disposable}

(* guardRuntimeCapability hands the service object itself to the proxy, and *)
(* createRuntimeCapabilityProxy defines dispose on that object: from then   *)
(* on service.dispose is the lifecycle's function, not the class's method.  *)
Guard(k) == method' = [s \in Services |-> IF s = k THEN "lifecycle" ELSE method[s]]

(* ensClient resolves the RPC URL while the name-resolution capability is   *)
(* being built, and throws without one.                                     *)
CreatorThrows(k) == k = "nameResolution" /\ ~rpcOk

-----------------------------------------------------------------------------
(* createRuntimeFromFactories *)

CreateRuntime ==
    /\ phase = "new"
    /\ phase' = IF Requirements[profile] \subseteq Offered(adapter)
                THEN "building" ELSE "unsupported"
    /\ UNCHANGED <<input, pos, shared, lazy, built, alive, private, method, torn, uses>>

AtKey(k) == phase = "building" /\ pos <= Len(BuildOrder) /\ BuildOrder[pos] = k

SkipCapability(k) ==
    /\ AtKey(k)
    /\ ~Included(k)
    /\ pos' = pos + 1
    /\ UNCHANGED <<input, phase, shared, lazy, built, alive, private, method, torn, uses>>

ComposeLazy(k) ==
    /\ AtKey(k)
    /\ style = "lazy"
    /\ Included(k)
    /\ ~CreatorThrows(k)
    /\ BuildLazily({k} \union NeedsToBuild(k))
    /\ shared' = [shared EXCEPT ![k] = lazy'[k]]
    /\ Guard(k)
    /\ pos' = pos + 1
    /\ UNCHANGED <<input, phase, private, torn, uses>>

(* Mutant: no cleanup is registered for the private capability. *)
ComposeStaticLeaky(k) ==
    /\ AtKey(k)
    /\ style = "static"
    /\ Included(k)
    /\ ~CreatorThrows(k)
    /\ LET fresh == {k} \union PrivateOf(k) IN
        /\ built' = [j \in Keys |-> IF j \in fresh THEN built[j] + 1 ELSE built[j]]
        /\ alive' = alive \union {<<j, built[j] + 1>> : j \in fresh \intersect Disposable}
    /\ shared' = [shared EXCEPT ![k] = built[k] + 1]
    /\ Guard(k)
    /\ pos' = pos + 1
    /\ UNCHANGED <<input, phase, lazy, private, torn, uses>>

(* A static factory builds afresh; what it builds for private use is        *)
(* disposed by a cleanup hook of the capability itself.                     *)
ComposeStatic(k) ==
    /\ AtKey(k)
    /\ style = "static"
    /\ Included(k)
    /\ ~CreatorThrows(k)
    /\ LET fresh == {k} \union PrivateOf(k) IN
        /\ built' = [j \in Keys |-> IF j \in fresh THEN built[j] + 1 ELSE built[j]]
        /\ alive' = alive \union {<<j, built[j] + 1>> : j \in fresh \intersect Disposable}
    /\ private' = [private EXCEPT ![k] = {<<j, built[j] + 1>> : j \in PrivateOf(k)}]
    /\ shared' = [shared EXCEPT ![k] = built[k] + 1]
    /\ Guard(k)
    /\ pos' = pos + 1
    /\ UNCHANGED <<input, phase, lazy, torn, uses>>

(* The exception leaves createRuntime with no runtime to dispose. *)
ComposeFails(k) ==
    /\ AtKey(k)
    /\ Included(k)
    /\ CreatorThrows(k)
    /\ phase' = "failed"
    /\ UNCHANGED <<input, pos, shared, lazy, built, alive, private, method, torn, uses>>

RuntimeReady ==
    /\ phase = "building"
    /\ pos > Len(BuildOrder)
    /\ phase' = "ready"
    /\ pos' = 1
    /\ UNCHANGED <<input, shared, lazy, built, alive, private, method, torn, uses>>

-----------------------------------------------------------------------------
(* Using and disposing *)

Live(k) == <<k, shared[k]>> \in alive

(* A method of k that reaches for another capability when it is called; the *)
(* proxy refuses the call once k is disposed.                               *)
UseCapability(k) ==
    /\ phase \in {"ready", "disposed"}
    /\ uses < MaxUses
    /\ shared[k] # 0
    /\ Live(k)
    /\ uses' = uses + 1
    /\ IF style = "lazy"
       THEN BuildLazily(NeedsToRun(k))
       ELSE UNCHANGED <<lazy, built, alive>>
    /\ UNCHANGED <<input, phase, pos, shared, private, method, torn>>

(* dispose() of capability k runs its cleanup hooks: one disposes what k    *)
(* holds privately, the one of a service calls service.dispose().  When     *)
(* that is the lifecycle's function it finds k disposed already and returns *)
(* at once.                                                                 *)
DisposeInstance(k) ==
    /\ alive' = alive \ ({<<k, shared[k]>>} \union private[k])
    /\ torn' = torn \union {s \in Services \intersect {k} : method[s] = "service"}

(* The application disposes one capability by hand. *)
DisposeCapability(k) ==
    /\ phase = "ready"
    /\ shared[k] # 0
    /\ Live(k)
    /\ DisposeInstance(k)
    /\ UNCHANGED <<input, phase, pos, shared, lazy, built, private, method, uses>>

DisposeRuntime ==
    /\ phase = "ready"
    /\ phase' = "disposing"
    /\ UNCHANGED <<input, pos, shared, lazy, built, alive, private, method, torn, uses>>

(* One round of the disposal loop; a capability that was never composed or  *)
(* is disposed already is passed over.                                      *)
DisposeNext ==
    /\ phase = "disposing"
    /\ pos <= Len(DisposeOrder)
    /\ LET k == DisposeOrder[pos] IN
        IF shared[k] # 0 /\ Live(k)
        THEN DisposeInstance(k)
        ELSE UNCHANGED <<alive, torn>>
    /\ pos' = pos + 1
    /\ UNCHANGED <<input, phase, shared, lazy, built, private, method, uses>>

RuntimeDisposed ==
    /\ phase = "disposing"
    /\ pos > Len(DisposeOrder)
    /\ phase' = "disposed"
    /\ UNCHANGED <<input, pos, shared, lazy, built, alive, private, method, torn, uses>>

Next ==
    \/ CreateRuntime \/ RuntimeReady
    \/ \E k \in Keys : SkipCapability(k) \/ ComposeLazy(k) \/ ComposeStatic(k) \/ ComposeFails(k)
    \/ \E k \in Keys : UseCapability(k) \/ DisposeCapability(k)
    \/ DisposeRuntime \/ DisposeNext \/ RuntimeDisposed

Spec == Init /\ [][Next]_vars

-----------------------------------------------------------------------------
(* Properties *)

(* The runtime's variables keep their types. *)
TypeOK ==
    /\ adapter \in Adapters
    /\ style \in {"lazy", "static"}
    /\ rpcOk \in BOOLEAN
    /\ profile \in DOMAIN Requirements
    /\ phase \in {"new", "building", "ready", "disposing", "disposed", "unsupported", "failed"}
    /\ pos \in 1 .. Len(BuildOrder) + 1
    /\ shared \in [Keys -> Nat]
    /\ lazy \in [Keys -> Nat]
    /\ built \in [Keys -> Nat]
    /\ alive \subseteq Disposable \X Nat
    /\ private \in [Keys -> SUBSET (Keys \X Nat)]
    /\ method \in [Services -> {"service", "lifecycle"}]
    /\ torn \subseteq Services
    /\ uses \in 0 .. MaxUses

(* dispose() of the runtime reaches every capability object the runtime or  *)
(* its factories ever built: no dependency a creator or a method asked for  *)
(* stays out of the runtime's own cache, and no private one is forgotten.   *)
AllReleased == phase = "disposed" => alive = {}

(* The capability a creator or a method is handed is the one the runtime    *)
(* exposes: with createRuntime no capability exists twice.                  *)
OneInstance == style = "lazy" => \A k \in Keys : built[k] <= 1

(* The cleanup hook guardRuntimeCapability is given lets a composed service *)
(* tear down its external resources alongside the capability: once the      *)
(* runtime is disposed, the dispose() of each of its services has run.      *)
ServicesTornDown ==
    phase = "disposed" => \A s \in Services : shared[s] # 0 => s \in torn
=============================================================================
