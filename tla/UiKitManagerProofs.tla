------------------------- MODULE UiKitManagerProofs -------------------------
(***************************************************************************)
(* Proofs about UiKitManager, for any number of configure() calls, that     *)
(* overlap or not, and of changes of either store of RPC settings.  Handed   *)
(* follows the configs from where they are made to where they are           *)
(* activated, whatever overlaps; Sequential says what one call at a time    *)
(* finds and leaves.                                                        *)
(***************************************************************************)
EXTENDS UiKitManager, TLAPS

(* Which kits get to which await. *)
Branches ==
    \A c \in Calls :
        /\ pc[c] # "new" => kit[c] # "unset" /\ manager.kit # "unset"
        /\ pc[c] \in {"assets", "config"} => kit[c] = "rainbowkit"
        /\ pc[c] = "finish" => kit[c] \in {"custom", "rainbowkit"}

(* A config in use is not newer than the settings; the one custom config    *)
(* made since the last event of the user's settings is the default one.     *)
Kept(x) ==
    /\ x.rpc.user <= rpc.user
    /\ x.for = "custom" /\ x.rpc.user = rpc.user => x = default

(* A config newer than what call c must hear of. *)
NotOlder(x, c) ==
    /\ since[c].user <= x.rpc.user
    /\ kit[c] = "rainbowkit" => since[c].services <= x.rpc.services

(* Configs on their way: the default one is newer than the last event, and  *)
(* what a call obtained is for its kit and newer than the last event before *)
(* it began.                                                                *)
Handed ==
    /\ manager.wagmi = active
    /\ shown.wagmi = active /\ late.wagmi = active
    /\ default # NoConfig => default.for = "custom" /\ default.rpc.user = rpc.user
    /\ Kept(active)
    /\ \A c \in Calls :
         /\ since[c].user <= rpc.user /\ since[c].services <= rpc.services
         /\ Kept(got[c])
         /\ pc[c] = "finish" =>
              /\ kit[c] = "custom" => got[c].for = "custom"
              /\ got[c] # NoConfig => got[c].for = kit[c] /\ NotOlder(got[c], c)

(* Without a wallet implementation no call gets anywhere. *)
NoWallet ==
    ~walletOk => active = NoConfig /\ \A c \in Calls : pc[c] \in {"new", "wallet", "rejected"}

(* The manager's config is one of its kit. *)
OfItsKit(m) == m.wagmi # NoConfig => m.wagmi.for = m.kit

(* Between two calls, the manager is untouched or fits its kit. *)
Quiet ==
    /\ shown = manager /\ late = manager
    /\ OfItsKit(manager)
    /\ walletOk /\ manager.kit # "unset" => FitsSelectedKit(manager)

(* Where a call to RainbowKit has its assets and awaits its config. *)
AwaitsConfig(c) == kit[c] = "rainbowkit" /\ pc[c] \in {"config", "finish"}

(* While call c alone runs: what it finds, and what it has changed so far.  *)
Alone(c) ==
    /\ manager.kit = kit[c] /\ manager.initializing /\ ~manager.error
    /\ shown.kit = manager.kit /\ ~shown.error
    /\ late.kit = manager.kit
    /\ ~changed[c] => OfItsKit(manager)
    /\ changed[c] => ~shown.provider
    /\ changed[c] /\ (late.provider \/ manager.provider) => AwaitsConfig(c)
    /\ pc[c] = "wallet" => shown = manager /\ late = manager
    /\ pc[c] = "config" => manager.provider /\ manager.loaded
    /\ pc[c] = "finish" =>
         /\ kit[c] = "rainbowkit" => manager.provider /\ manager.loaded
         /\ kit[c] = "custom" => active.rpc.user <= got[c].rpc.user

Sequential ==
    ~overlap =>
        /\ \A c, d \in Running : c = d
        /\ Running = {} => Quiet
        /\ \A c \in Running : Alone(c)
        /\ manager.provider => manager.kit = "rainbowkit"

IInv == TypeOK /\ Branches /\ Handed /\ NoWallet /\ Sequential

-----------------------------------------------------------------------------
(* Types *)

(* A config made from the settings is a config. *)
LEMMA SettingsType ==
    ASSUME TypeOK, NEW k \in Kits PROVE Settings(k) \in Configs /\ Settings(k) # NoConfig
BY DEF TypeOK, Settings, Configs, NoConfig, Kits

LEMMA NoConfigType == NoConfig \in Configs
BY RpcAssumption DEF NoConfig, Configs, NoChanges, Changes

(* What the actions do to the manager keeps it a manager state. *)
LEMMA ManagerType ==
    ASSUME NEW m \in ManagerStates, NEW config \in Configs, NEW k \in Kits,
           NEW result \in {"loaded", "noStyles", "noProvider"}, NEW other \in BOOLEAN,
           NEW error \in BOOLEAN
    PROVE  /\ Unloaded(m) \in ManagerStates
           /\ WithAssets(m, result) \in ManagerStates
           /\ [m EXCEPT !.wagmi = config, !.initializing = FALSE, !.error = error] \in ManagerStates
           /\ [m EXCEPT !.initializing = TRUE, !.error = FALSE, !.kit = k,
                        !.provider = @ /\ ~other, !.loaded = @ /\ ~other] \in ManagerStates
BY DEF ManagerStates, Unloaded, WithAssets

(* A call that completes or aborts. *)
LEMMA CompleteType ==
    ASSUME TypeOK, NEW c \in Calls, NEW m \in ManagerStates, NEW config \in Configs,
           Complete(c, m, config)
    PROVE  /\ manager' \in ManagerStates /\ Notify /\ active' = config
           /\ pc' = [pc EXCEPT ![c] = "done"]
<1>1. PICK error \in BOOLEAN : error = (config = NoConfig /\ kit[c] \notin {"none", "custom"})
  OBVIOUS
<1>2. manager' = [m EXCEPT !.wagmi = config, !.initializing = FALSE, !.error = error]
  BY <1>1 DEF Complete
<1>3. [m EXCEPT !.wagmi = config, !.initializing = FALSE, !.error = error] \in ManagerStates
  BY ManagerType DEF Kits
<1> QED BY <1>2, <1>3 DEF Complete, GoesTo

LEMMA AbortType ==
    ASSUME TypeOK, NEW c \in Calls, NEW m \in ManagerStates, Abort(c, m)
    PROVE  /\ manager' \in ManagerStates /\ Notify /\ active' = NoConfig
           /\ pc' = [pc EXCEPT ![c] = "done"]
<1>1. [m EXCEPT !.wagmi = NoConfig, !.initializing = FALSE, !.error = TRUE] \in ManagerStates
  BY ManagerType, NoConfigType DEF Kits
<1> QED BY <1>1 DEF Abort, GoesTo

LEMMA InitType == Init => TypeOK
<1> SUFFICES ASSUME Init PROVE TypeOK
  OBVIOUS
<1>1. manager \in ManagerStates
  BY NoConfigType DEF Init, ManagerStates
<1> QED BY <1>1, NoConfigType, RpcAssumption DEF Init, TypeOK, NoChanges, Changes

LEMMA StepType == TypeOK /\ [Next]_vars => TypeOK'
<1> SUFFICES ASSUME TypeOK, [Next]_vars PROVE TypeOK'
  OBVIOUS
<1> USE DEF vars, environment, callState, walletState, copies, Notify
<1>1. ASSUME NEW c \in Calls, NEW k \in Kits, Configure(c, k) PROVE TypeOK'
  <2>1. manager' \in ManagerStates
    <3>1. PICK other \in BOOLEAN : other = (manager.kit # k)
      OBVIOUS
    <3>2. manager' = [manager EXCEPT !.initializing = TRUE, !.error = FALSE, !.kit = k,
                                     !.provider = @ /\ ~other, !.loaded = @ /\ ~other]
      BY <1>1, <3>1 DEF Configure
    <3> QED BY <3>2, ManagerType, NoConfigType DEF TypeOK
  <2> QED BY <1>1, <2>1 DEF Configure, TypeOK, GoesTo
<1>2. ASSUME NEW c \in Calls, WalletFails(c) \/ BeginRainbowKit(c) PROVE TypeOK'
  BY <1>2 DEF TypeOK, WalletFails, BeginRainbowKit, GoesTo
<1>3. ASSUME NEW c \in Calls, BeginCustom(c) PROVE TypeOK'
  <2>1. default' \in Configs /\ made' \in Nat
    BY <1>3, SettingsType DEF TypeOK, BeginCustom, Kits
  <2> QED BY <1>3, <2>1 DEF TypeOK, BeginCustom, GoesTo
<1>4. ASSUME NEW c \in Calls, NoKit(c) PROVE TypeOK'
  <2>1. Unloaded(manager) \in ManagerStates
    BY ManagerType, NoConfigType DEF TypeOK, Kits
  <2> QED BY <1>4, <2>1, CompleteType, NoConfigType DEF TypeOK, NoKit
<1>5. ASSUME NEW c \in Calls, AssetsLoaded(c) PROVE TypeOK'
  <2>1. PICK result \in LoadedAssets :
          /\ assets' = result
          /\ IF result = "loaded"
             THEN /\ manager' = WithAssets(manager, result)
                  /\ GoesTo(c, "config")
                  /\ UNCHANGED <<copies, active>>
             ELSE Abort(c, WithAssets(manager, result))
    BY <1>5 DEF AssetsLoaded
  <2>2. result \in {"loaded", "noStyles", "noProvider"}
    BY DEF LoadedAssets, TypeOK
  <2>3. WithAssets(manager, result) \in ManagerStates
    BY <2>2, ManagerType, NoConfigType DEF TypeOK, Kits
  <2>4. CASE result = "loaded"
    BY <1>5, <2>1, <2>2, <2>3, <2>4 DEF AssetsLoaded, TypeOK, GoesTo
  <2>5. CASE result # "loaded"
    BY <1>5, <2>1, <2>2, <2>3, <2>5, AbortType, NoConfigType DEF AssetsLoaded, TypeOK
  <2> QED BY <2>4, <2>5
<1>6. ASSUME NEW c \in Calls, RainbowKitConfig(c) PROVE TypeOK'
  BY <1>6, SettingsType, NoConfigType DEF TypeOK, RainbowKitConfig, GoesTo, Kits
<1>7. ASSUME NEW c \in Calls, Finish(c) PROVE TypeOK'
  <2> DEFINE m == IF kit[c] = "custom" /\ changed[c] THEN Unloaded(manager) ELSE manager
  <2>1. m \in ManagerStates /\ got[c] \in Configs
    BY ManagerType, NoConfigType DEF TypeOK, Kits
  <2>2. Complete(c, m, got[c])
    BY <1>7 DEF Finish
  <2> HIDE DEF m
  <2> QED BY <1>7, <2>1, <2>2, CompleteType DEF TypeOK, Finish
<1>8. CASE RootMounts
  BY <1>8 DEF TypeOK, RootMounts
<1>9. CASE UserRpcChanges
  <2>1. rpc' \in Changes
    BY <1>9, RpcAssumption DEF TypeOK, UserRpcChanges, Changes
  <2> QED BY <1>9, <2>1, NoConfigType DEF TypeOK, UserRpcChanges
<1>10. CASE ServiceRpcChanges
  <2>1. rpc' \in Changes
    BY <1>10, RpcAssumption DEF TypeOK, ServiceRpcChanges, Changes
  <2> QED BY <1>10, <2>1 DEF TypeOK, ServiceRpcChanges
<1>11. CASE UNCHANGED vars
  BY <1>11 DEF TypeOK
<1> QED
  BY <1>1, <1>2, <1>3, <1>4, <1>5, <1>6, <1>7, <1>8, <1>9, <1>10, <1>11 DEF Next, CallSteps

-----------------------------------------------------------------------------
(* What the actions do, field by field *)

LEMMA ConfigureFields ==
    ASSUME TypeOK, NEW c \in Calls, NEW k \in Kits, Configure(c, k)
    PROVE  /\ manager'.kit = k /\ manager'.wagmi = manager.wagmi
           /\ manager'.initializing /\ ~manager'.error
           /\ manager'.provider <=> manager.provider /\ manager.kit = k
           /\ manager'.loaded <=> manager.loaded /\ manager.kit = k
           /\ Notify
           /\ pc[c] = "new" /\ pc' = [pc EXCEPT ![c] = "wallet"]
           /\ kit' = [kit EXCEPT ![c] = k]
           /\ changed'[c] <=> manager.kit # k
           /\ \A d \in Calls : d # c => changed'[d] = changed[d]
           /\ since' = [since EXCEPT ![c] = rpc]
           /\ UNCHANGED <<overlap, walletOk, got, active, default, assets, rpc, made>>
<1>1. manager \in ManagerStates
  BY DEF TypeOK
<1>2. PICK other \in BOOLEAN : other = (manager.kit # k)
  OBVIOUS
<1>3. /\ manager' = [manager EXCEPT !.initializing = TRUE, !.error = FALSE, !.kit = k,
                                    !.provider = @ /\ ~other, !.loaded = @ /\ ~other]
      /\ changed' = [changed EXCEPT ![c] = other]
  BY <1>2 DEF Configure
<1> QED
  BY <1>1, <1>2, <1>3 DEF Configure, GoesTo, environment, walletState, ManagerStates, Notify, TypeOK

LEMMA CompleteFields ==
    ASSUME NEW c \in Calls, NEW m \in ManagerStates, NEW config \in Configs, Complete(c, m, config)
    PROVE  /\ manager'.kit = m.kit /\ manager'.wagmi = config /\ ~manager'.initializing
           /\ manager'.provider = m.provider /\ manager'.loaded = m.loaded
           /\ manager'.error <=> config = NoConfig /\ kit[c] \notin {"none", "custom"}
           /\ Notify /\ active' = config /\ pc' = [pc EXCEPT ![c] = "done"]
<1>1. PICK error \in BOOLEAN : error = (config = NoConfig /\ kit[c] \notin {"none", "custom"})
  OBVIOUS
<1>2. manager' = [m EXCEPT !.wagmi = config, !.initializing = FALSE, !.error = error]
  BY <1>1 DEF Complete
<1> QED BY <1>1, <1>2 DEF Complete, GoesTo, ManagerStates

LEMMA AbortFields ==
    ASSUME NEW c \in Calls, NEW m \in ManagerStates, Abort(c, m)
    PROVE  /\ manager'.kit = m.kit /\ manager'.wagmi = NoConfig /\ ~manager'.initializing
           /\ manager'.provider = m.provider /\ manager'.loaded = m.loaded
           /\ manager'.error
           /\ Notify /\ active' = NoConfig /\ pc' = [pc EXCEPT ![c] = "done"]
BY DEF Abort, GoesTo, ManagerStates

LEMMA UnloadedFields ==
    ASSUME NEW m \in ManagerStates
    PROVE  LET u == Unloaded(m) IN
           /\ u \in ManagerStates
           /\ u.kit = m.kit /\ u.wagmi = m.wagmi /\ ~u.provider /\ ~u.loaded
           /\ u.initializing = m.initializing /\ u.error = m.error
BY DEF Unloaded, ManagerStates

LEMMA AssetsFields ==
    ASSUME NEW m \in ManagerStates, NEW result \in {"loaded", "noStyles", "noProvider"}
    PROVE  LET a == WithAssets(m, result) IN
           /\ a \in ManagerStates
           /\ a.kit = m.kit /\ a.wagmi = m.wagmi
           /\ a.initializing = m.initializing /\ a.error = m.error
           /\ result = "loaded" => a.provider /\ a.loaded
BY DEF WithAssets, ManagerStates

(* The two outcomes of loading the assets. *)
LEMMA AssetsSplit ==
    ASSUME TypeOK, NEW c \in Calls, AssetsLoaded(c)
    PROVE  /\ pc[c] = "assets"
           /\ UNCHANGED <<overlap, walletOk, kit, changed, got, since, default, rpc, made>>
           /\ \/ /\ manager' = WithAssets(manager, "loaded")
                 /\ pc' = [pc EXCEPT ![c] = "config"]
                 /\ UNCHANGED <<copies, active>>
              \/ \E result \in {"noStyles", "noProvider"} : Abort(c, WithAssets(manager, result))
<1>1. LoadedAssets \subseteq {"loaded", "noStyles", "noProvider"}
  BY DEF LoadedAssets, TypeOK
<1> QED BY <1>1 DEF AssetsLoaded, GoesTo, environment

-----------------------------------------------------------------------------
(* The configs, whatever overlaps *)

Untimed == Branches /\ Handed /\ NoWallet

LEMMA InitUntimed == Init => Untimed
BY DEF Init, Untimed, Branches, Handed, NoWallet, Kept, NoConfig, NoChanges

(* Where a call completes or aborts, the config it activates is handed on. *)
LEMMA CompleteUntimed ==
    ASSUME TypeOK, Untimed, NEW c \in Calls, NEW config \in Configs,
           pc[c] \notin {"new", "wallet", "rejected"} \/ walletOk,
           Kept(config), manager'.wagmi = config, manager'.kit = manager.kit,
           pc[c] \notin {"new", "done"},
           Notify, active' = config, pc' = [pc EXCEPT ![c] = "done"],
           UNCHANGED <<walletOk, kit, got, since, default, rpc>>
    PROVE  Untimed'
<1> USE DEF Untimed
<1>1. Branches'
  BY DEF Branches, TypeOK
<1>2. Handed'
  BY DEF Handed, Kept, NotOlder, Notify, TypeOK
<1>3. NoWallet'
  BY DEF NoWallet, TypeOK
<1> QED BY <1>1, <1>2, <1>3

LEMMA StepUntimed == TypeOK /\ Untimed /\ [Next]_vars => Untimed'
<1> SUFFICES ASSUME TypeOK, Untimed, [Next]_vars PROVE Untimed'
  OBVIOUS
<1> USE DEF Untimed
<1>0. manager \in ManagerStates /\ Kept(NoConfig) /\ NoConfig \in Configs
  BY NoConfigType DEF TypeOK, Kept, NoConfig, NoChanges, Changes
<1>1. ASSUME NEW c \in Calls, NEW k \in Kits, Configure(c, k) PROVE Untimed'
  <2>1. Branches'
    BY <1>1, ConfigureFields DEF Branches, TypeOK, Kits
  <2>2. Handed'
    BY <1>1, ConfigureFields DEF Handed, Kept, NotOlder, Notify, TypeOK, Changes
  <2>3. NoWallet'
    BY <1>1, ConfigureFields DEF NoWallet, TypeOK
  <2> QED BY <2>1, <2>2, <2>3
<1>2. ASSUME NEW c \in Calls, WalletFails(c) \/ BeginRainbowKit(c) PROVE Untimed'
  <2> USE DEF WalletFails, BeginRainbowKit, GoesTo, AtBranch, environment, walletState, copies, TypeOK
  <2>1. Branches'
    BY <1>2 DEF Branches
  <2>2. Handed'
    BY <1>2 DEF Handed, Kept, NotOlder
  <2>3. NoWallet'
    BY <1>2 DEF NoWallet
  <2> QED BY <2>1, <2>2, <2>3
<1>3. ASSUME NEW c \in Calls, BeginCustom(c) PROVE Untimed'
  <2>1. /\ pc[c] = "wallet" /\ walletOk /\ kit[c] = "custom"
        /\ pc' = [pc EXCEPT ![c] = "finish"] /\ got' = [got EXCEPT ![c] = default']
        /\ UNCHANGED <<walletOk, kit, since, manager, shown, late, active, rpc>>
    BY <1>3 DEF BeginCustom, AtBranch, GoesTo, environment, copies
  <2>2. default'.for = "custom" /\ default'.rpc.user = rpc.user
    BY <1>3 DEF BeginCustom, Handed, Settings
  <2>3. default # NoConfig => default' = default
    BY <1>3 DEF BeginCustom
  <2>4. Branches'
    BY <2>1 DEF Branches, TypeOK
  <2>5. ASSUME NEW x, Kept(x) PROVE Kept(x)'
    BY <2>1, <2>2, <2>3, <2>5 DEF Kept, NoConfig
  <2>6. Kept(default)'
    BY <2>1, <2>2 DEF Kept, TypeOK, Changes
  <2>7. Handed'
    BY <2>1, <2>2, <2>5, <2>6 DEF Handed, NotOlder, TypeOK
  <2>8. NoWallet'
    BY <2>1 DEF NoWallet
  <2> QED BY <2>4, <2>7, <2>8
<1>4. ASSUME NEW c \in Calls, NoKit(c) PROVE Untimed'
  <2>1. /\ Complete(c, Unloaded(manager), NoConfig) /\ pc[c] = "wallet" /\ walletOk
        /\ UNCHANGED <<walletOk, kit, got, since, default, rpc>>
    BY <1>4 DEF NoKit, AtBranch, environment
  <2> QED BY <1>0, <2>1, UnloadedFields, CompleteFields, CompleteUntimed
<1>5. ASSUME NEW c \in Calls, AssetsLoaded(c) PROVE Untimed'
  <2>1. /\ pc[c] = "assets"
        /\ UNCHANGED <<overlap, walletOk, kit, changed, got, since, default, rpc, made>>
    BY <1>5, AssetsSplit
  <2>2. CASE /\ manager' = WithAssets(manager, "loaded")
             /\ pc' = [pc EXCEPT ![c] = "config"]
             /\ UNCHANGED <<copies, active>>
    <3>1. manager'.kit = manager.kit /\ manager'.wagmi = manager.wagmi
      BY <1>0, <2>2, AssetsFields
    <3>2. Branches'
      BY <2>1, <2>2, <3>1 DEF Branches, TypeOK
    <3>3. Handed'
      BY <2>1, <2>2, <3>1 DEF Handed, Kept, NotOlder, copies, TypeOK
    <3>4. NoWallet'
      BY <2>1, <2>2 DEF NoWallet
    <3> QED BY <3>2, <3>3, <3>4
  <2>3. ASSUME NEW result \in {"noStyles", "noProvider"}, Abort(c, WithAssets(manager, result))
        PROVE  Untimed'
    BY <1>0, <2>1, <2>3, AssetsFields, AbortFields, CompleteUntimed
  <2> QED BY <1>5, <2>2, <2>3, AssetsSplit
<1>6. ASSUME NEW c \in Calls, RainbowKitConfig(c) PROVE Untimed'
  <2>1. /\ pc[c] = "config" /\ pc' = [pc EXCEPT ![c] = "finish"]
        /\ UNCHANGED <<walletOk, kit, since, manager, shown, late, active, default, rpc>>
    BY <1>6 DEF RainbowKitConfig, GoesTo, environment, copies
  <2>2. PICK x \in Configs : /\ got' = [got EXCEPT ![c] = x]
                             /\ x = NoConfig \/ (x.for = "rainbowkit" /\ x.rpc = rpc)
    <3>1. Settings("rainbowkit") \in Configs
      BY SettingsType DEF Kits
    <3> QED BY <1>0, <1>6, <3>1 DEF RainbowKitConfig, Settings
  <2>3. Branches'
    BY <2>1 DEF Branches, TypeOK
  <2>4. Handed'
    BY <1>0, <2>1, <2>2 DEF Handed, Kept, NotOlder, Branches, TypeOK, Changes
  <2>5. NoWallet'
    BY <2>1 DEF NoWallet
  <2> QED BY <2>3, <2>4, <2>5
<1>7. ASSUME NEW c \in Calls, Finish(c) PROVE Untimed'
  <2> DEFINE m == IF kit[c] = "custom" /\ changed[c] THEN Unloaded(manager) ELSE manager
  <2>1. /\ Complete(c, m, got[c]) /\ pc[c] = "finish"
        /\ UNCHANGED <<walletOk, kit, got, since, default, rpc>>
    BY <1>7 DEF Finish, environment
  <2>2. m \in ManagerStates /\ m.kit = manager.kit
    BY <1>0, UnloadedFields
  <2>3. got[c] \in Configs /\ Kept(got[c])
    BY DEF TypeOK, Handed
  <2> HIDE DEF m
  <2> QED BY <2>1, <2>2, <2>3, CompleteFields, CompleteUntimed
<1>8. CASE RootMounts
  BY <1>8 DEF RootMounts, environment, callState, walletState, Branches, Handed, NoWallet, Kept, NotOlder
<1>9. CASE UserRpcChanges
  <2>1. /\ rpc'.user = rpc.user + 1 /\ rpc'.services = rpc.services /\ default' = NoConfig
        /\ UNCHANGED <<walletOk, pc, kit, got, since, manager, shown, late, active>>
    BY <1>9 DEF UserRpcChanges, environment, callState, copies, TypeOK, Changes
  <2>2. ASSUME NEW x \in Configs, Kept(x) PROVE Kept(x)'
    BY <2>1, <2>2 DEF Kept, TypeOK, Configs, Changes
  <2>3. Handed'
    BY <2>1, <2>2 DEF Handed, NotOlder, TypeOK, Changes
  <2> QED BY <2>1, <2>3 DEF Branches, NoWallet
<1>10. CASE ServiceRpcChanges
  <2>1. /\ rpc'.user = rpc.user /\ rpc'.services = rpc.services + 1
        /\ UNCHANGED <<walletOk, pc, kit, got, since, manager, shown, late, active, default>>
    BY <1>10 DEF ServiceRpcChanges, environment, callState, copies, TypeOK, Changes
  <2>2. Handed'
    BY <2>1 DEF Handed, Kept, NotOlder, TypeOK, Changes
  <2> QED BY <2>1, <2>2 DEF Branches, NoWallet
<1>11. CASE UNCHANGED vars
  BY <1>11 DEF vars, environment, callState, walletState, copies, Branches, Handed, NoWallet, Kept, NotOlder
<1> QED
  BY <1>1, <1>2, <1>3, <1>4, <1>5, <1>6, <1>7, <1>8, <1>9, <1>10, <1>11 DEF Next, CallSteps

-----------------------------------------------------------------------------
(* One call at a time *)

LEMMA InitSequential == Init => Sequential
<1> SUFFICES ASSUME Init PROVE Sequential
  OBVIOUS
<1>1. Running = {}
  BY DEF Init, Running
<1> QED BY <1>1 DEF Init, Sequential, Quiet, OfItsKit

(* A call that begins, goes on to another await or ends. *)
LEMMA RunningMoves ==
    ASSUME TypeOK, NEW c \in Calls, NEW place, pc' = [pc EXCEPT ![c] = place]
    PROVE  Running' = IF place \in {"wallet", "assets", "config", "finish"}
                      THEN Running \union {c} ELSE Running \ {c}
BY DEF Running, TypeOK

(* What calls that end leave behind. *)
LEMMA EndSequential ==
    ASSUME TypeOK, Sequential, NEW c \in Running, UNCHANGED overlap,
           pc' = [pc EXCEPT ![c] = "done"] \/ pc' = [pc EXCEPT ![c] = "rejected"],
           ~overlap => Quiet' /\ (manager'.provider => manager'.kit = "rainbowkit")
    PROVE  Sequential'
<1>1. Running' = Running \ {c}
  BY RunningMoves DEF Running
<1>2. ~overlap => Running' = {}
  BY <1>1 DEF Sequential
<1> QED BY <1>2 DEF Sequential

(* What a call leaves that goes on alone. *)
LEMMA MoveSequential ==
    ASSUME TypeOK, Sequential, NEW c \in Running, UNCHANGED overlap,
           NEW place \in {"assets", "config", "finish"}, pc' = [pc EXCEPT ![c] = place],
           ~overlap => Alone(c)' /\ (manager'.provider => manager'.kit = "rainbowkit")
    PROVE  Sequential'
<1>1. Running' = Running \union {c}
  BY RunningMoves DEF Running
<1>2. Running' = Running
  BY <1>1
<1> QED BY <1>2 DEF Sequential

LEMMA StepSequential == TypeOK /\ Untimed /\ Sequential /\ [Next]_vars => Sequential'
<1> SUFFICES ASSUME TypeOK, Untimed, Sequential, [Next]_vars PROVE Sequential'
  OBVIOUS
<1>0. /\ manager \in ManagerStates /\ NoConfig \in Configs /\ NoConfig.for = "nothing"
      /\ manager.wagmi = active
      /\ ~overlap => (manager.provider => manager.kit = "rainbowkit")
  BY NoConfigType DEF TypeOK, NoConfig, Untimed, Handed, Sequential
<1>1. ASSUME NEW c \in Calls, NEW k \in Kits, Configure(c, k) PROVE Sequential'
  <2> SUFFICES ASSUME ~overlap' PROVE /\ \A d, e \in Running' : d = e
                                      /\ Running' # {}
                                      /\ \A d \in Running' : Alone(d)'
                                      /\ manager'.provider => manager'.kit = "rainbowkit"
    BY DEF Sequential
  <2>1. ~overlap /\ Running = {} /\ Quiet
    BY <1>1, ConfigureFields DEF Configure, Sequential
  <2>2. Running' = {c}
    BY <1>1, <2>1, ConfigureFields, RunningMoves
  <2>3. Alone(c)'
    BY <1>0, <1>1, <2>1, ConfigureFields DEF Alone, AwaitsConfig, Quiet, OfItsKit, Notify, TypeOK
  <2>4. manager'.provider => manager'.kit = "rainbowkit"
    BY <1>0, <1>1, <2>1, ConfigureFields
  <2> QED BY <2>2, <2>3, <2>4
<1>2. ASSUME NEW c \in Calls, WalletFails(c) PROVE Sequential'
  <2>1. /\ pc[c] = "wallet" /\ ~walletOk /\ pc' = [pc EXCEPT ![c] = "rejected"]
        /\ UNCHANGED <<overlap, walletOk, manager, shown, late>>
    BY <1>2 DEF WalletFails, GoesTo, environment, copies
  <2>2. ~overlap => shown = manager /\ late = manager
    BY <2>1 DEF Sequential, Alone, Running
  <2>3. OfItsKit(manager)
    BY <1>0, <2>1 DEF Untimed, NoWallet, OfItsKit
  <2>4. ~overlap => Quiet'
    BY <2>1, <2>2, <2>3 DEF Quiet, OfItsKit
  <2> QED BY <1>0, <2>1, <2>4, EndSequential DEF Running
<1>3. ASSUME NEW c \in Calls, BeginRainbowKit(c) PROVE Sequential'
  <2>1. PICK place \in {"assets", "config"} : pc' = [pc EXCEPT ![c] = place]
    BY <1>3 DEF BeginRainbowKit, GoesTo
  <2>2. /\ c \in Running /\ pc[c] = "wallet" /\ kit[c] = "rainbowkit"
        /\ UNCHANGED <<overlap, kit, changed, got, manager, shown, late, active>>
        /\ place = "config" => manager.provider /\ manager.loaded
    BY <1>3, <2>1 DEF BeginRainbowKit, GoesTo, AtBranch, Running, environment, walletState, copies, TypeOK
  <2>3. ~overlap => Alone(c)
    BY <2>2 DEF Sequential
  <2>4. ~overlap => Alone(c)'
    BY <2>1, <2>2, <2>3 DEF Alone, AwaitsConfig, OfItsKit, copies, TypeOK
  <2> QED BY <1>0, <2>1, <2>2, <2>4, MoveSequential
<1>4. ASSUME NEW c \in Calls, BeginCustom(c) PROVE Sequential'
  <2>1. /\ c \in Running /\ kit[c] = "custom"
        /\ pc' = [pc EXCEPT ![c] = "finish"] /\ got' = [got EXCEPT ![c] = default']
        /\ UNCHANGED <<overlap, kit, changed, manager, shown, late, active, rpc>>
    BY <1>4 DEF BeginCustom, AtBranch, GoesTo, Running, environment, copies
  <2>2. default'.rpc.user = rpc.user /\ active.rpc.user <= rpc.user
    BY <1>4 DEF BeginCustom, Untimed, Handed, Kept, Settings
  <2>3. ~overlap => Alone(c)
    BY <2>1 DEF Sequential
  <2>4. ~overlap => Alone(c)'
    BY <2>1, <2>2, <2>3 DEF Alone, AwaitsConfig, OfItsKit, copies, TypeOK
  <2> QED BY <1>0, <2>1, <2>4, MoveSequential
<1>5. ASSUME NEW c \in Calls, NoKit(c) PROVE Sequential'
  <2>1. /\ Complete(c, Unloaded(manager), NoConfig) /\ c \in Running /\ UNCHANGED overlap
        /\ kit[c] \in {"none", "unsupported"}
    BY <1>5 DEF NoKit, AtBranch, Running, environment
  <2>2. /\ manager'.kit = manager.kit /\ manager'.wagmi = NoConfig /\ ~manager'.provider
        /\ ~manager'.initializing
        /\ Notify /\ pc' = [pc EXCEPT ![c] = "done"]
    BY <1>0, <2>1, UnloadedFields, CompleteFields
  <2>3. ~overlap => manager'.kit = kit[c]
    BY <2>1, <2>2 DEF Sequential, Alone
  <2>4. ~overlap => Quiet'
    BY <2>1, <2>2, <2>3 DEF Quiet, OfItsKit, FitsSelectedKit, Notify
  <2> QED BY <2>1, <2>2, <2>4, EndSequential
<1>6. ASSUME NEW c \in Calls, AssetsLoaded(c) PROVE Sequential'
  <2>1. /\ c \in Running /\ pc[c] = "assets" /\ kit[c] = "rainbowkit"
        /\ UNCHANGED <<overlap, walletOk, kit, changed, got, since, default, rpc, made>>
    BY <1>6, AssetsSplit DEF Running, Untimed, Branches
  <2>2. ~overlap => Alone(c) /\ manager.kit = "rainbowkit"
    BY <2>1 DEF Sequential, Alone
  <2>3. CASE /\ manager' = WithAssets(manager, "loaded")
             /\ pc' = [pc EXCEPT ![c] = "config"]
             /\ UNCHANGED <<copies, active>>
    <3>1. /\ manager'.kit = manager.kit /\ manager'.wagmi = manager.wagmi
          /\ manager'.initializing = manager.initializing /\ manager'.error = manager.error
          /\ manager'.provider /\ manager'.loaded
      BY <1>0, <2>3, AssetsFields
    <3>2. ~overlap => Alone(c)'
      BY <2>1, <2>2, <2>3, <3>1 DEF Alone, AwaitsConfig, OfItsKit, copies, TypeOK
    <3> QED BY <2>1, <2>2, <2>3, <3>1, <3>2, MoveSequential
  <2>4. ASSUME NEW result \in {"noStyles", "noProvider"}, Abort(c, WithAssets(manager, result))
        PROVE  Sequential'
    <3>1. /\ manager'.kit = manager.kit /\ manager'.wagmi = NoConfig /\ ~manager'.initializing
          /\ manager'.error /\ Notify /\ pc' = [pc EXCEPT ![c] = "done"]
      BY <1>0, <2>4, AssetsFields, AbortFields
    <3>2. ~overlap => Quiet'
      BY <2>2, <3>1 DEF Quiet, OfItsKit, FitsSelectedKit, Notify
    <3> QED BY <2>1, <2>2, <3>1, <3>2, EndSequential
  <2> QED BY <1>6, <2>3, <2>4, AssetsSplit
<1>7. ASSUME NEW c \in Calls, RainbowKitConfig(c) PROVE Sequential'
  <2>1. /\ c \in Running /\ pc[c] = "config" /\ kit[c] = "rainbowkit"
        /\ pc' = [pc EXCEPT ![c] = "finish"]
        /\ UNCHANGED <<overlap, kit, changed, manager, shown, late, active>>
    BY <1>7 DEF RainbowKitConfig, GoesTo, Running, environment, copies, Untimed, Branches
  <2>2. ~overlap => Alone(c)
    BY <2>1 DEF Sequential
  <2>3. ~overlap => Alone(c)'
    BY <2>1, <2>2 DEF Alone, AwaitsConfig, OfItsKit, copies, TypeOK
  <2> QED BY <1>0, <2>1, <2>3, MoveSequential
<1>8. ASSUME NEW c \in Calls, Finish(c) PROVE Sequential'
  <2> DEFINE m == IF kit[c] = "custom" /\ changed[c] THEN Unloaded(manager) ELSE manager
  <2>1. /\ Complete(c, m, got[c]) /\ c \in Running /\ pc[c] = "finish" /\ UNCHANGED overlap
        /\ got[c] \in Configs
    BY <1>8 DEF Finish, environment, Running, TypeOK
  <2>2. /\ m \in ManagerStates /\ m.kit = manager.kit
        /\ kit[c] = "custom" \/ m = manager
        /\ m.provider => manager.provider
    BY <1>0, UnloadedFields
  <2> HIDE DEF m
  <2>3. /\ manager'.kit = manager.kit /\ manager'.wagmi = got[c] /\ ~manager'.initializing
        /\ manager'.provider = m.provider /\ manager'.loaded = m.loaded
        /\ manager'.error <=> got[c] = NoConfig /\ kit[c] \notin {"none", "custom"}
        /\ Notify /\ active' = got[c] /\ pc' = [pc EXCEPT ![c] = "done"]
    BY <2>1, <2>2, CompleteFields
  <2>4. /\ kit[c] \in {"custom", "rainbowkit"}
        /\ kit[c] = "custom" => got[c].for = "custom"
        /\ got[c] # NoConfig => got[c].for = kit[c]
    BY <2>1 DEF Untimed, Branches, Handed
  <2>5. ASSUME ~overlap PROVE Quiet' /\ (manager'.provider => manager'.kit = "rainbowkit")
    <3>1. /\ manager.kit = kit[c]
          /\ kit[c] = "rainbowkit" => manager.provider /\ manager.loaded
      BY <2>1, <2>5 DEF Sequential, Alone
    <3>2. manager'.provider => manager'.kit = "rainbowkit"
      BY <1>0, <2>2, <2>3, <2>5
    <3>3. OfItsKit(manager')
      BY <2>3, <2>4, <3>1 DEF OfItsKit
    <3>4. CASE kit[c] = "custom"
      <4>1. got[c] # NoConfig
        BY <1>0, <2>4, <3>4
      <4> QED BY <2>3, <2>4, <3>1, <3>2, <3>3, <3>4, <4>1 DEF Quiet, OfItsKit, FitsSelectedKit, Notify
    <3>5. CASE kit[c] = "rainbowkit"
      <4>1. manager'.provider /\ manager'.loaded
        BY <2>2, <2>3, <3>1, <3>5
      <4> QED
        BY <2>3, <2>4, <3>1, <3>2, <3>3, <3>5, <4>1
        DEF Quiet, OfItsKit, FitsSelectedKit, Wrapped, Mounted, Notify
    <3> QED BY <2>4, <3>4, <3>5
  <2> QED BY <2>1, <2>3, <2>5, EndSequential
<1>9. CASE RootMounts
  <2>1. late' = manager /\ UNCHANGED <<overlap, walletOk, pc, kit, changed, got, manager, shown, active>>
    BY <1>9 DEF RootMounts, environment, callState, walletState
  <2>2. Running' = Running
    BY <2>1 DEF Running
  <2>3. ASSUME NEW c \in Running, Alone(c) PROVE Alone(c)'
    BY <2>1, <2>3 DEF Alone, AwaitsConfig, OfItsKit
  <2>4. Quiet => Quiet'
    BY <2>1 DEF Quiet, OfItsKit, FitsSelectedKit, Wrapped, Mounted
  <2> QED BY <2>1, <2>2, <2>3, <2>4 DEF Sequential
<1>10. CASE UserRpcChanges \/ ServiceRpcChanges \/ UNCHANGED vars
  <2>1. UNCHANGED <<overlap, walletOk, pc, kit, changed, got, manager, shown, late, active>>
    BY <1>10 DEF UserRpcChanges, ServiceRpcChanges, vars, environment, callState, walletState, copies
  <2> QED
    BY <2>1 DEF Sequential, Running, Quiet, Alone, AwaitsConfig, OfItsKit, FitsSelectedKit, Wrapped, Mounted
<1> QED
  BY <1>1, <1>2, <1>3, <1>4, <1>5, <1>6, <1>7, <1>8, <1>9, <1>10 DEF Next, CallSteps

-----------------------------------------------------------------------------
(* What follows *)

(* The inductive invariant holds in every reachable state. *)
THEOREM Invariance == Spec => []IInv
<1>1. Init => IInv
  BY InitType, InitUntimed, InitSequential DEF IInv, Untimed
<1>2. IInv /\ [Next]_vars => IInv'
  BY StepType, StepUntimed, StepSequential DEF IInv, Untimed
<1> QED BY <1>1, <1>2, PTL DEF Spec

(* The manager's variables keep their types. *)
THEOREM TypeCorrect == Spec => []TypeOK
<1>1. IInv => TypeOK
  BY DEF IInv
<1> QED BY <1>1, Invariance, PTL

(* However many calls overlap or fail, React's hooks and the wallet         *)
(* implementation are given the same config.                                *)
THEOREM ConfigIsShared == Spec => []OneConfig
<1>1. IInv => OneConfig
  BY DEF IInv, Handed, OneConfig
<1> QED BY <1>1, Invariance, PTL

(* After any number of calls, one at a time, the state fits the kit. *)
THEOREM SequentialFit == Spec => []SequentialCallsFit
<1>1. IInv => SequentialCallsFit
  BY DEF IInv, Branches, Sequential, Quiet, SequentialCallsFit, Settled
<1> QED BY <1>1, Invariance, PTL

(* One call at a time, no notification has RainbowKit's provider rendered   *)
(* over a config of another kit, and a root that mounts renders that only   *)
(* while a call to RainbowKit awaits its config.                            *)
THEOREM ProviderFits == Spec => []ProviderOverItsConfig
<1>1. IInv => ProviderOverItsConfig
  <2> SUFFICES ASSUME IInv, ~overlap PROVE ~Misplaced(shown) /\ (Misplaced(late) => RainbowKitRuns)
    BY DEF ProviderOverItsConfig
  <2> USE DEF IInv, Handed, Misplaced, Wrapped, Mounted
  <2>1. CASE Running = {}
    BY <2>1 DEF Sequential, Quiet, OfItsKit
  <2>2. ASSUME NEW c \in Running PROVE ~Misplaced(shown) /\ (Misplaced(late) => RainbowKitRuns)
    <3>1. Alone(c) /\ c \in Calls
      BY DEF Sequential, Running
    <3>2. CASE changed[c]
      BY <3>1, <3>2 DEF Alone, AwaitsConfig, RainbowKitRuns
    <3>3. CASE ~changed[c]
      BY <3>1, <3>3 DEF Alone, OfItsKit
    <3> QED BY <3>2, <3>3
  <2> QED BY <2>1, <2>2
<1> QED BY <1>1, Invariance, PTL

(* Which action ends a call, and with which config. *)
LEMMA Ends ==
    ASSUME IInv, [Next]_vars, NEW c \in Calls, pc[c] # "done", pc'[c] = "done"
    PROVE  (pc[c] = "finish" /\ active' = got[c]) \/ (pc[c] # "finish" /\ active' = NoConfig)
<1> USE DEF IInv
<1>0. manager \in ManagerStates /\ NoConfig \in Configs /\ got[c] \in Configs
  BY NoConfigType DEF TypeOK
<1>1. ASSUME NEW d \in Calls, NEW k \in Kits, Configure(d, k) PROVE FALSE
  BY <1>1, ConfigureFields DEF TypeOK
<1>2. ASSUME NEW d \in Calls,
             WalletFails(d) \/ BeginRainbowKit(d) \/ BeginCustom(d) \/ RainbowKitConfig(d)
      PROVE  FALSE
  BY <1>2 DEF TypeOK, WalletFails, BeginRainbowKit, BeginCustom, RainbowKitConfig, GoesTo
<1>3. ASSUME NEW d \in Calls, NoKit(d) PROVE pc[c] # "finish" /\ active' = NoConfig
  <2>1. pc[d] = "wallet" /\ Complete(d, Unloaded(manager), NoConfig)
    BY <1>3 DEF NoKit, AtBranch
  <2>2. active' = NoConfig /\ pc' = [pc EXCEPT ![d] = "done"]
    BY <2>1 DEF Complete, GoesTo
  <2> QED BY <2>1, <2>2 DEF TypeOK
<1>4. ASSUME NEW d \in Calls, AssetsLoaded(d) PROVE pc[c] # "finish" /\ active' = NoConfig
  <2>1. pc[d] = "assets" /\ pc' # [pc EXCEPT ![d] = "config"]
    BY <1>4, AssetsSplit DEF TypeOK
  <2>2. PICK result : Abort(d, WithAssets(manager, result))
    BY <1>4, <2>1, AssetsSplit
  <2>3. active' = NoConfig /\ pc' = [pc EXCEPT ![d] = "done"]
    BY <2>2 DEF Abort, GoesTo
  <2> QED BY <2>1, <2>3 DEF TypeOK
<1>5. ASSUME NEW d \in Calls, Finish(d) PROVE pc[c] = "finish" /\ active' = got[c]
  <2>1. pc[d] = "finish" /\ active' = got[d] /\ pc' = [pc EXCEPT ![d] = "done"]
    BY <1>5 DEF Finish, Complete, GoesTo
  <2> QED BY <2>1 DEF TypeOK
<1>6. CASE RootMounts \/ UserRpcChanges \/ ServiceRpcChanges \/ UNCHANGED vars
  BY <1>6 DEF RootMounts, UserRpcChanges, ServiceRpcChanges, vars, callState
<1> QED BY <1>1, <1>2, <1>3, <1>4, <1>5, <1>6 DEF Next, CallSteps

(* However many calls overlap, none activates a config made before an event *)
(* of the user's RPC settings that came before the call, and RainbowKit's   *)
(* config is made of settings no older than the call.                       *)
THEOREM EventsAreHeard == Spec => EventsInvalidate
<1> DEFINE Fresh(c) ==
      Activates(c) => /\ active'.rpc.user >= since[c].user
                      /\ kit[c] = "rainbowkit" => active'.rpc.services >= since[c].services
<1>1. IInv /\ [Next]_vars => \A c \in Calls : Fresh(c)
  <2> SUFFICES ASSUME IInv, [Next]_vars, NEW c \in Calls, Activates(c)
               PROVE  /\ active'.rpc.user >= since[c].user
                      /\ kit[c] = "rainbowkit" => active'.rpc.services >= since[c].services
    OBVIOUS
  <2>1. pc[c] = "finish" /\ active' = got[c]
    BY Ends DEF Activates
  <2>2. NotOlder(got[c], c) /\ since[c] \in Changes /\ got[c].rpc \in Changes
    BY <2>1 DEF IInv, Handed, TypeOK, Configs, Activates
  <2> QED BY <2>1, <2>2, RpcAssumption DEF NotOlder, Changes
<1>2. IInv /\ [Next]_vars => [\A c \in Calls : Fresh(c)]_vars
  BY <1>1
<1> QED BY <1>2, Invariance, PTL DEF Spec, EventsInvalidate

(* One call at a time, the custom kit keeps its config when it is           *)
(* configured again, unless an event of the user's RPC settings came since. *)
THEOREM ConnectionIsKept == Spec => ConnectionKept
<1> DEFINE Same(c) ==
      ~overlap /\ pc[c] = "finish" /\ pc'[c] = "done" /\ kit[c] = "custom"
        /\ manager.wagmi.for = "custom" /\ manager.wagmi.rpc.user = rpc.user
          => active' = active
<1>1. IInv /\ [Next]_vars => \A c \in Calls : Same(c)
  <2> SUFFICES ASSUME IInv, [Next]_vars, NEW c \in Calls,
                      ~overlap, pc[c] = "finish", pc'[c] = "done", kit[c] = "custom",
                      manager.wagmi.for = "custom", manager.wagmi.rpc.user = rpc.user
               PROVE  active' = active
    OBVIOUS
  <2> USE DEF IInv
  <2>1. active' = got[c]
    BY Ends
  <2>2. /\ active = default
        /\ got[c].for = "custom" /\ Kept(got[c])
    BY DEF Handed, Kept
  <2>3. active.rpc.user = rpc.user /\ active.rpc.user <= got[c].rpc.user
    BY DEF Handed, Sequential, Running, Alone
  <2>4. got[c].rpc.user = rpc.user
    <3>1. got[c].rpc.user \in Nat /\ rpc.user \in Nat
      BY RpcAssumption DEF TypeOK, Configs, Changes
    <3> QED BY <2>2, <2>3, <3>1 DEF Kept
  <2> QED BY <2>1, <2>2, <2>4 DEF Kept
<1>2. IInv /\ [Next]_vars => [\A c \in Calls : Same(c)]_vars
  BY <1>1
<1> QED BY <1>2, Invariance, PTL DEF Spec, ConnectionKept

=============================================================================
