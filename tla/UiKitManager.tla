---------------------------- MODULE UiKitManager ----------------------------
(***************************************************************************)
(* The UI-kit manager of the EVM-compatible adapters: a singleton whose     *)
(* configure() selects a wallet UI kit and the Wagmi config that serves it. *)
(*   wallet/uiKitManager.ts            configure and the manager's state    *)
(*   wallet/wagmi-implementation.ts    the active and the default config    *)
(*   wallet/rainbowkitAssetManager.ts  RainbowKit's provider and stylesheet *)
(*   EvmWalletUiRoot.tsx, PolkadotWalletUiRoot.tsx   what is rendered       *)
(*                                                                         *)
(* configure() is asynchronous and writes the state it shares with other    *)
(* calls before and after each of its awaits.  Two calls overlap when an    *)
(* application configures a kit while createRuntime's own call, which       *)
(* nobody awaits, is still running.                                         *)
(*                                                                         *)
(* A UI root copies the manager's state when it mounts and at each          *)
(* notification.  Two roots are followed: one that is there from the start, *)
(* and one that mounts at any time, between two awaits of a configure() too. *)
(***************************************************************************)
EXTENDS Naturals

CONSTANTS
    Calls,      \* calls of configure(), numbered in the order they are made
    MaxRpc      \* bound on the changes of each store of RPC settings

ASSUME CallAssumption == Calls \subseteq Nat
ASSUME RpcAssumption == MaxRpc \in Nat

VARIABLES
    overlap,    \* the application may configure while a configure() runs
    walletOk,   \* the wallet implementation can be constructed
    pc,         \* pc[c]: which await call c is at
    kit,        \* kit[c]: the kit c selects
    changed,    \* changed[c]: another kit was selected when c began
    got,        \* got[c]: the config c obtained
    since,      \* since[c]: the changes of RPC settings made when c began
    manager,    \* the manager's state object
    shown,      \* the copy of it a UI root has that was there from the start
    late,       \* the copy of a UI root that mounts, or mounts again, at any time
    active,     \* activeWagmiConfig of the wallet implementation
    default,    \* its defaultInstanceConfig
    assets,     \* loadedAssets of the RainbowKit asset manager
    rpc,        \* number of changes of the RPC settings, in each of their two stores
    made        \* number of Wagmi configs created

callState == <<pc, kit, changed, got, since>>
walletState == <<active, default, assets, rpc, made>>
environment == <<overlap, walletOk>>
copies == <<shown, late>>
vars == <<environment, callState, manager, copies, walletState>>

Kits == {"rainbowkit", "custom", "none", "unsupported"}

(* services: userNetworkServiceConfigService, which the settings of a       *)
(* config come from; user: userRpcConfigService, whose events are heard.    *)
NoChanges == [services |-> 0, user |-> 0]

NoConfig == [for |-> "nothing", rpc |-> NoChanges, id |-> 0]

Init ==
    /\ overlap \in BOOLEAN
    /\ walletOk \in BOOLEAN
    /\ pc = [c \in Calls |-> "new"]
    /\ kit = [c \in Calls |-> "unset"]
    /\ changed = [c \in Calls |-> FALSE]
    /\ got = [c \in Calls |-> NoConfig]
    /\ since = [c \in Calls |-> NoChanges]
    /\ manager = [kit |-> "unset", wagmi |-> NoConfig, provider |-> FALSE, loaded |-> FALSE,
                  initializing |-> FALSE, error |-> FALSE]
    /\ shown = manager /\ late = manager
    /\ active = NoConfig
    /\ default = NoConfig
    /\ assets = "unloaded"
    /\ rpc = NoChanges
    /\ made = 0

Running == {c \in Calls : pc[c] \in {"wallet", "assets", "config", "finish"}}

Settings(k) == [for |-> k, rpc |-> rpc, id |-> made + 1]

(* notifyListeners: each root that is mounted copies the state. *)
Notify == shown' = manager' /\ late' = manager'

GoesTo(c, place) == pc' = [pc EXCEPT ![c] = place]

-----------------------------------------------------------------------------
(* configure(), one action from await to await *)

(* The synchronous prefix: the kit is selected at once, and what belonged   *)
(* to another kit is dropped.                                               *)
Configure(c, k) ==
    /\ pc[c] = "new"
    /\ \A d \in Calls : d < c => pc[d] # "new"
    /\ overlap \/ Running = {}
    /\ LET other == manager.kit # k IN
        /\ changed' = [changed EXCEPT ![c] = other]
        /\ manager' = [manager EXCEPT !.initializing = TRUE, !.error = FALSE, !.kit = k,
                                      !.provider = @ /\ ~other, !.loaded = @ /\ ~other]
    /\ Notify
    /\ kit' = [kit EXCEPT ![c] = k]
    /\ since' = [since EXCEPT ![c] = rpc]
    /\ GoesTo(c, "wallet")
    /\ UNCHANGED <<environment, got, walletState>>

(* getWalletImplementation rejects.  Its await is not inside the try, so    *)
(* configure() rejects with the state left as it is.                        *)
WalletFails(c) ==
    /\ pc[c] = "wallet"
    /\ ~walletOk
    /\ GoesTo(c, "rejected")
    /\ UNCHANGED <<environment, kit, changed, got, since, manager, copies, walletState>>

(* Mutant: the try block ends without the finally. *)
CompleteNoFinally(c, m, config) ==
    /\ manager' = [m EXCEPT !.wagmi = config,
                            !.error = config = NoConfig /\ kit[c] \notin {"none", "custom"}]
    /\ Notify
    /\ active' = config
    /\ GoesTo(c, "done")

(* The end of the try block and the finally after it, from manager state m. *)
Complete(c, m, config) ==
    /\ manager' = [m EXCEPT !.wagmi = config, !.initializing = FALSE,
                            !.error = config = NoConfig /\ kit[c] \notin {"none", "custom"}]
    /\ Notify
    /\ active' = config
    /\ GoesTo(c, "done")

(* Mutant: the wallet implementation keeps the config of before. *)
AbortKeepsActive(c, m) ==
    /\ manager' = [m EXCEPT !.wagmi = NoConfig, !.initializing = FALSE, !.error = TRUE]
    /\ Notify
    /\ GoesTo(c, "done")
    /\ UNCHANGED active

(* The catch block and the finally after it. *)
Abort(c, m) ==
    /\ manager' = [m EXCEPT !.wagmi = NoConfig, !.initializing = FALSE, !.error = TRUE]
    /\ Notify
    /\ active' = NoConfig
    /\ GoesTo(c, "done")

Unloaded(m) == [m EXCEPT !.provider = FALSE, !.loaded = FALSE]

AtBranch(c, k) == pc[c] = "wallet" /\ walletOk /\ kit[c] = k

(* RainbowKit: its assets are loaded unless they are there.                 *)
BeginRainbowKit(c) ==
    /\ AtBranch(c, "rainbowkit")
    /\ GoesTo(c, IF changed[c] \/ ~manager.provider \/ ~manager.loaded THEN "assets" ELSE "config")
    /\ UNCHANGED <<environment, kit, changed, got, since, manager, copies, walletState>>

(* Mutant: every configure() creates a default config of its own. *)
BeginCustomAfresh(c) ==
    /\ AtBranch(c, "custom")
    /\ default' = Settings("custom") /\ made' = made + 1
    /\ got' = [got EXCEPT ![c] = default']
    /\ GoesTo(c, "finish")
    /\ UNCHANGED <<environment, kit, changed, since, manager, copies, active, assets, rpc>>

(* getActiveConfigForManager returns the default config, created on demand  *)
(* and kept.                                                                *)
BeginCustom(c) ==
    /\ AtBranch(c, "custom")
    /\ IF default = NoConfig
       THEN default' = Settings("custom") /\ made' = made + 1
       ELSE UNCHANGED <<default, made>>
    /\ got' = [got EXCEPT ![c] = default']
    /\ GoesTo(c, "finish")
    /\ UNCHANGED <<environment, kit, changed, since, manager, copies, active, assets, rpc>>

NoKit(c) ==
    /\ AtBranch(c, "none") \/ AtBranch(c, "unsupported")
    /\ Complete(c, Unloaded(manager), NoConfig)
    /\ UNCHANGED <<environment, kit, changed, got, since, default, assets, rpc, made>>

(* ensureRainbowKitAssetsLoaded: the imports are made once, and what they   *)
(* came to, a failure included, is the answer from then on.                 *)
LoadedAssets == IF assets = "unloaded" THEN {"loaded", "noStyles", "noProvider"} ELSE {assets}

WithAssets(m, result) ==
    [m EXCEPT !.provider = result # "noProvider", !.loaded = result = "loaded"]

(* Mutant: subscribers are told as soon as the assets are there. *)
AssetsLoadedNotifies(c) ==
    /\ pc[c] = "assets"
    /\ \E result \in LoadedAssets :
        /\ assets' = result
        /\ IF result = "loaded"
           THEN /\ manager' = WithAssets(manager, result)
                /\ Notify
                /\ GoesTo(c, "config")
                /\ UNCHANGED active
           ELSE Abort(c, WithAssets(manager, result))
    /\ UNCHANGED <<environment, kit, changed, got, since, default, rpc, made>>

AssetsLoaded(c) ==
    /\ pc[c] = "assets"
    /\ \E result \in LoadedAssets :
        /\ assets' = result
        /\ IF result = "loaded"
           THEN /\ manager' = WithAssets(manager, result)
                /\ GoesTo(c, "config")
                /\ UNCHANGED <<copies, active>>
           ELSE Abort(c, WithAssets(manager, result))
    /\ UNCHANGED <<environment, kit, changed, got, since, default, rpc, made>>

(* getConfigForRainbowKit creates a config each time, or answers null when  *)
(* the kit's settings are incomplete or its import fails.                   *)
RainbowKitConfig(c) ==
    /\ pc[c] = "config"
    /\ \/ got' = [got EXCEPT ![c] = Settings("rainbowkit")] /\ made' = made + 1
       \/ got' = [got EXCEPT ![c] = NoConfig] /\ UNCHANGED made
    /\ GoesTo(c, "finish")
    /\ UNCHANGED <<environment, kit, changed, since, manager, copies, active, default, assets, rpc>>

(* Mutant: the config to activate is the one activated before. *)
FinishStale(c) ==
    /\ pc[c] = "finish"
    /\ Complete(c, IF kit[c] = "custom" /\ changed[c] THEN Unloaded(manager) ELSE manager,
                   IF manager.wagmi # NoConfig THEN manager.wagmi ELSE got[c])
    /\ UNCHANGED <<environment, kit, changed, got, since, default, assets, rpc, made>>

Finish(c) ==
    /\ pc[c] = "finish"
    /\ Complete(c, IF kit[c] = "custom" /\ changed[c] THEN Unloaded(manager) ELSE manager, got[c])
    /\ UNCHANGED <<environment, kit, changed, got, since, default, assets, rpc, made>>

-----------------------------------------------------------------------------
(* The roots and the user's RPC settings *)

(* useState(getState()) and the effect's handleStateChange: a root that     *)
(* mounts copies the state as it is, whatever configure() is at.            *)
RootMounts ==
    /\ late' = manager
    /\ UNCHANGED <<environment, callState, manager, shown, walletState>>

(* Mutant: the cached config outlives an event of the settings. *)
UserRpcChangesUnheard ==
    /\ rpc.user < MaxRpc
    /\ rpc' = [rpc EXCEPT !.user = @ + 1]
    /\ UNCHANGED <<environment, callState, manager, copies, active, default, assets, made>>

(* setupRpcConfigListener: an event of userRpcConfigService invalidates the *)
(* default config; the active one stays until the next configure().         *)
UserRpcChanges ==
    /\ rpc.user < MaxRpc
    /\ rpc' = [rpc EXCEPT !.user = @ + 1]
    /\ default' = NoConfig
    /\ UNCHANGED <<environment, callState, manager, copies, active, assets, made>>

(* The settings that configs are made from change: nobody listens.          *)
ServiceRpcChanges ==
    /\ rpc.services < MaxRpc
    /\ rpc' = [rpc EXCEPT !.services = @ + 1]
    /\ UNCHANGED <<environment, callState, manager, copies, active, default, assets, made>>

CallSteps(c) ==
    WalletFails(c) \/ BeginRainbowKit(c) \/ BeginCustom(c) \/ NoKit(c)
      \/ AssetsLoaded(c) \/ RainbowKitConfig(c) \/ Finish(c)

Next ==
    \/ \E c \in Calls, k \in Kits : Configure(c, k)
    \/ \E c \in Calls : CallSteps(c)
    \/ RootMounts
    \/ UserRpcChanges
    \/ ServiceRpcChanges

(* The awaits of a call end: imports resolve or fail.  Nobody has to        *)
(* configure anything.                                                      *)
Fairness == \A c \in Calls : WF_vars(CallSteps(c))

Spec == Init /\ [][Next]_vars /\ Fairness

-----------------------------------------------------------------------------
(* What EvmWalletUiRoot renders of a manager state *)

Mounted(m) == m.wagmi # NoConfig

Wrapped(m) ==
    Mounted(m) /\ m.kit = "rainbowkit" /\ m.provider /\ m.loaded /\ ~m.error

-----------------------------------------------------------------------------
(* Properties *)

Changes == [services : 0 .. MaxRpc, user : 0 .. MaxRpc]

Configs == [for : Kits \union {"nothing"}, rpc : Changes, id : Nat]

ManagerStates ==
    {m \in [kit : Kits \union {"unset"}, wagmi : Configs, provider : BOOLEAN, loaded : BOOLEAN,
            initializing : BOOLEAN, error : BOOLEAN] : m.loaded => m.provider}

(* The manager's variables keep their types, and the assets count as loaded *)
(* only with a provider to render.                                          *)
TypeOK ==
    /\ overlap \in BOOLEAN
    /\ walletOk \in BOOLEAN
    /\ pc \in [Calls -> {"new", "wallet", "assets", "config", "finish", "done", "rejected"}]
    /\ kit \in [Calls -> Kits \union {"unset"}]
    /\ changed \in [Calls -> BOOLEAN]
    /\ got \in [Calls -> Configs]
    /\ since \in [Calls -> Changes]
    /\ {manager, shown, late} \subseteq ManagerStates
    /\ active \in Configs
    /\ default \in Configs
    /\ assets \in {"unloaded", "loaded", "noStyles", "noProvider"}
    /\ rpc \in Changes
    /\ made \in Nat

(* However calls overlap or fail and whenever a root mounts, the config     *)
(* React hands to its hooks is the config the wallet implementation         *)
(* connects and signs with (uiKitManager.ts:190-191, EvmWalletUiRoot.tsx).  *)
OneConfig == shown.wagmi = active /\ late.wagmi = active

(* The settled state fits the kit that is selected: its config is one made  *)
(* for that kit, RainbowKit has its assets unless an error says otherwise,  *)
(* and an error leaves no config behind.                                    *)
FitsSelectedKit(m) ==
    /\ ~m.initializing
    /\ m.error => m.wagmi = NoConfig
    /\ m.wagmi # NoConfig => m.wagmi.for = m.kit
    /\ m.kit = "custom" => m.wagmi # NoConfig
    /\ m.kit = "rainbowkit" /\ ~m.error => Wrapped(m)

Settled == Running = {} /\ walletOk /\ \E c \in Calls : pc[c] = "done"

(* As long as the application waits for each configure() before it makes    *)
(* the next, every one of them - after failures, after other kits, after    *)
(* changes of the RPC settings - leaves a state that fits the kit, in every *)
(* root.                                                                    *)
SequentialCallsFit ==
    Settled /\ ~overlap => FitsSelectedKit(shown) /\ FitsSelectedKit(late)

RainbowKitRuns == \E c \in Calls : kit[c] = "rainbowkit" /\ pc[c] \in {"config", "finish"}

Misplaced(m) == Wrapped(m) /\ m.wagmi.for # "rainbowkit"

(* One configure() at a time, no notification has RainbowKit's provider     *)
(* rendered over a config of another kit.  A root that mounts while         *)
(* configure() awaits RainbowKit's config (uiKitManager.ts:171-177) does    *)
(* render that, over the config of before, but no longer than the await     *)
(* lasts, whatever comes of it.                                             *)
ProviderOverItsConfig ==
    ~overlap => ~Misplaced(shown) /\ (Misplaced(late) => RainbowKitRuns)

(* The custom kit keeps its config, and with it the wallet connection, when *)
(* it is configured again, unless an event of userRpcConfigService has      *)
(* invalidated it since.                                                    *)
ConnectionKept ==
    [][\A c \in Calls :
        ~overlap /\ pc[c] = "finish" /\ pc'[c] = "done" /\ kit[c] = "custom"
          /\ manager.wagmi.for = "custom" /\ manager.wagmi.rpc.user = rpc.user
            => active' = active]_vars

Activates(c) == pc[c] # "done" /\ pc'[c] = "done" /\ active' # NoConfig

(* However many calls overlap: a configure() begun after an event of        *)
(* userRpcConfigService activates no config made before the event           *)
(* (setupRpcConfigListener), and RainbowKit's config is made of settings    *)
(* no older than the call.                                                  *)
EventsInvalidate ==
    [][\A c \in Calls : Activates(c) =>
        /\ active'.rpc.user >= since[c].user
        /\ kit[c] = "rainbowkit" => active'.rpc.services >= since[c].services]_vars

(* The comment of getActiveConfigForManager (wagmi-implementation.ts:460-   *)
(* 462), "Config is automatically invalidated when RPC settings change":    *)
(* with one configure() at a time, none activates a config made from RPC    *)
(* settings that had changed before it began.  The code does not do this:   *)
(* settings are read from a store nobody listens to.                        *)
FreshSettings ==
    [][\A c \in Calls :
        ~overlap /\ Activates(c) => active'.rpc.services >= since[c].services]_vars

(* The manager does not stay "initializing": with a wallet implementation   *)
(* to be had, every configure() ends and says so, whatever failed in it.    *)
InitializingEnds == (walletOk /\ manager.initializing) ~> ~manager.initializing
=============================================================================
