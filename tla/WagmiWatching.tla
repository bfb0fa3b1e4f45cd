----------------------------- MODULE WagmiWatching -----------------------------
(***************************************************************************)
(* The one subscription to the wallet's account that the wagmi wallet        *)
(* implementation keeps (onWalletConnectionChange of wagmi-implementation.ts) *)
(* behind the facades of the EVM and the Polkadot adapter, while UI kits are *)
(* configured and RPC settings change.  How the configs come about is the     *)
(* subject of UiKitManager; here they matter as what a subscription is bound  *)
(* to.                                                                       *)
(***************************************************************************)
EXTENDS Naturals, Sequences

CONSTANTS
    MaxConfigs,     \* bound on the wagmi configs made
    MaxWatchers     \* bound on the subscriptions

VARIABLES
    facade,         \* the adapter whose functions are called, "evm" or "polkadot"
    impl,           \* the implementation and its two configs, 0 for none
    connected,      \* for each config made whether its wallet is connected
    watchers        \* the subscriptions in their order

vars == <<facade, impl, connected, watchers>>

Configs == 1 .. MaxConfigs

TypeOK ==
    /\ facade \in {"evm", "polkadot"}
    /\ impl \in [made : BOOLEAN, default : 0 .. MaxConfigs, active : 0 .. MaxConfigs,
                 slot : 0 .. MaxWatchers]
    /\ connected \in UNION {[1 .. n -> BOOLEAN] : n \in 0 .. MaxConfigs}
    /\ watchers \in Seq([config : 0 .. MaxConfigs, live : BOOLEAN, ended : BOOLEAN,
                         told : BOOLEAN, moved : BOOLEAN])

\* A config that is made takes the connection up that an earlier one stored, or does not.
ConfigMade == /\ Len(connected) < MaxConfigs
              /\ \E c \in BOOLEAN : connected' = Append(connected, c)

\* A new state of the implementation, with a default config that is made if there is none.
WithDefault(i) ==
    IF i.default # 0 THEN impl' = i /\ UNCHANGED connected
    ELSE ConfigMade /\ impl' = [i EXCEPT !.default = Len(connected')]

\* The same for a use, where the active config will do.
ReadyForUse(i) == IF i.active # 0 THEN impl' = i /\ UNCHANGED connected ELSE WithDefault(i)

ConfigToUse(i) == IF i.active # 0 THEN i.active ELSE i.default

\* Whether the facade's functions reach a wallet: the EVM's need the implementation, Polkadot's
\* that it "isReady", with an active config.
Reached == IF facade = "evm" THEN impl.made ELSE impl.active # 0

\* What getEvmWalletConnectionStatus or getPolkadotWalletConnectionStatus answers.
Status == Reached /\ ConfigToUse(impl) # 0 /\ connected[ConfigToUse(impl)]

-----------------------------------------------------------------------------
(* The implementation.                                                      *)

\* getEvmWalletImplementation or getPolkadotWalletImplementation, by any of their callers.
GetImplementation ==
    /\ ~impl.made
    /\ impl' = [impl EXCEPT !.made = TRUE]
    /\ UNCHANGED <<facade, connected, watchers>>

\* What excuses a subscription that is not of the config in use: the kit had or gets a config
\* of its own, or the settings changed after the config was made.
Moved == [i \in DOMAIN watchers |-> [watchers[i] EXCEPT !.moved = TRUE]]
OwnConfig == impl.active \notin {0, impl.default}

\* getActiveConfigForManager and setActiveWagmiConfig, for a kit without a config of its own.
ActivateDefault ==
    /\ impl.made
    /\ IF impl.default # 0 THEN impl' = [impl EXCEPT !.active = impl.default] /\ UNCHANGED connected
       ELSE ConfigMade /\ impl' = [impl EXCEPT !.default = Len(connected'), !.active = Len(connected')]
    /\ watchers' = IF OwnConfig THEN Moved ELSE watchers
    /\ UNCHANGED facade

\* The same for RainbowKit, with a config of its own.
ActivateRainbowKit ==
    /\ impl.made
    /\ ConfigMade
    /\ impl' = [impl EXCEPT !.active = Len(connected')]
    /\ watchers' = Moved
    /\ UNCHANGED facade

\* setActiveWagmiConfig(null): the kit failed.  Polkadot's facade is not ready then.
Deactivate ==
    /\ impl.active # 0
    /\ impl' = [impl EXCEPT !.active = 0]
    /\ watchers' = IF OwnConfig \/ facade = "polkadot" THEN Moved ELSE watchers
    /\ UNCHANGED <<facade, connected>>

\* setupRpcConfigListener: the settings of some network changed.
RpcConfigChanged ==
    /\ impl.default # 0
    /\ impl' = [impl EXCEPT !.default = 0]
    /\ watchers' = Moved
    /\ UNCHANGED <<facade, connected>>

\* getWalletConnectionStatus: the default config may be made for it.
GetWalletConnectionStatus ==
    /\ Reached
    /\ ReadyForUse(impl)
    /\ UNCHANGED <<facade, watchers>>

-----------------------------------------------------------------------------
(* Subscriptions.                                                           *)

Ended(ws) == IF impl.slot = 0 THEN ws ELSE [ws EXCEPT ![impl.slot].live = FALSE]

\* onWalletConnectionChange of the facade, and of the implementation.  The subscription made
\* before ends.  Who subscribes asks for the status at the same time.
OnWalletConnectionChange ==
    /\ Len(watchers) < MaxWatchers
    /\ IF Reached
       THEN /\ ReadyForUse([impl EXCEPT !.slot = Len(watchers) + 1])
            /\ watchers' = Append(Ended(watchers),
                  [config |-> ConfigToUse(impl'), live |-> TRUE, ended |-> FALSE, moved |-> FALSE,
                   told |-> connected'[ConfigToUse(impl')]])
       ELSE /\ UNCHANGED <<impl, connected>>
            /\ watchers' = Append(watchers, [config |-> 0, live |-> FALSE, ended |-> FALSE,
                                             moved |-> FALSE, told |-> FALSE])
    /\ UNCHANGED facade

\* The function that was returned is called; the implementation's slot is left as it is.
Unsubscribe(i) ==
    /\ ~watchers[i].ended
    /\ watchers' = [watchers EXCEPT ![i].ended = TRUE, ![i].live = FALSE]
    /\ UNCHANGED <<facade, impl, connected>>

\* The wallet of a config connects or disconnects, by connectWallet, disconnectWallet or its
\* user, and watchAccount tells who watches the config (external).
AccountChanges(c) ==
    /\ connected' = [connected EXCEPT ![c] = ~@]
    /\ watchers' = [i \in DOMAIN watchers |->
                      IF watchers[i].live /\ watchers[i].config = c
                      THEN [watchers[i] EXCEPT !.told = connected'[c]] ELSE watchers[i]]
    /\ UNCHANGED <<facade, impl>>

-----------------------------------------------------------------------------
Init ==
    /\ facade \in {"evm", "polkadot"}
    /\ impl = [made |-> FALSE, default |-> 0, active |-> 0, slot |-> 0]
    /\ connected = <<>>
    /\ watchers = <<>>

Next ==
    \/ GetImplementation \/ ActivateDefault \/ ActivateRainbowKit \/ Deactivate
    \/ RpcConfigChanged \/ GetWalletConnectionStatus
    \/ OnWalletConnectionChange
    \/ \E i \in DOMAIN watchers : Unsubscribe(i)
    \/ \E c \in DOMAIN connected : AccountChanges(c)

Spec == Init /\ [][Next]_vars

-----------------------------------------------------------------------------
(* Properties.                                                              *)

\* Of the subscriptions that found a wallet the newest is served until its own function ends
\* it, whatever becomes of the earlier ones and their functions; the others are not.
LatestIsServed ==
    \A i \in DOMAIN watchers :
        watchers[i].live <=> /\ watchers[i].config # 0 /\ ~watchers[i].ended
                             /\ \A j \in i + 1 .. Len(watchers) : watchers[j].config = 0

\* Who is served was told what the facade answers when it is asked, in whatever order
\* configs are made, used and configured, unless the kit or the settings changed.
ToldIsStatus ==
    \A i \in DOMAIN watchers :
        watchers[i].live /\ ~watchers[i].moved => watchers[i].told = Status
=============================================================================
