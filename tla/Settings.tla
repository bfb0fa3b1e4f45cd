------------------------------- MODULE Settings -------------------------------
(***************************************************************************)
(* The settings of a network's services and their connection tests, of the *)
(* EVM adapters (adapter-evm-core/src/configuration, the URL and key       *)
(* lookups of wallet and ABI loading, and adapter-evm's form defaults) and *)
(* of Stellar (adapter-stellar/src/configuration).  Every reader resolves  *)
(* a setting by itself, from what the user saved, what the application     *)
(* configured and the network's own default; a test asks what the form     *)
(* says.  One network and one service of it, and the two stores of user    *)
(* settings, neither of which follows the other: the connection forms save *)
(* to userNetworkServiceConfigService, which the EVM adapters, explorers   *)
(* and indexers read; Stellar's RPC readers read userRpcConfigService.     *)
(* Every reader is asked afresh: what of it is cached, and which events    *)
(* clear the cache, is in UiKitManager and StellarRoles.                   *)
(***************************************************************************)
EXTENDS Sequences

VARIABLES
    service,        \* the service whose settings these are
    network,        \* the network's own defaults
    app,            \* what the application configured (appConfigService)
    user,           \* the service settings (userNetworkServiceConfigService), or NoForm
    userRpc,        \* the RPC settings (userRpcConfigService), or NoForm
    test            \* the connection test that runs, or ended last

vars == <<service, network, app, user, userRpc, test>>

None == "none"
Nothing == [none |-> TRUE]
NoForm == Nothing
OrNone(S) == S \cup {None}

\* A URL or key is named for whose it is.  "bad" is no URL: isValidUrl and fetch
\* both refuse it.
ValidUrl(url) == url \notin {None, "bad"}

Services == {"rpc", "stellarRpc", "explorer", "indexer", "definitions"}

\* What a network, an application and a user may have, for each service.  An
\* override is a string, a UserRpcProviderConfig or an RpcEndpointConfig, whose http
\* may be missing.
Network(svc) ==
    CASE svc \in {"rpc", "stellarRpc"} -> [url : OrNone({"default", "bad"})]
      [] svc = "indexer" -> [url : OrNone({"default", "bad"})]
      [] svc = "explorer" -> [api : OrNone({"default"}), supportsV2 : BOOLEAN, needsKey : BOOLEAN,
                              identifier : OrNone({"etherscan-v2", "routescan"})]
      [] svc = "definitions" -> {Nothing}

Override == [shape : {"string", "provider"}, url : {"app", "bad"}]
              \cup [shape : {"endpoint"}, url : OrNone({"app", "bad"})]

App(svc) ==
    CASE svc \in {"rpc", "stellarRpc"} -> Override \cup {Nothing}
      [] svc = "indexer" -> {Nothing}
      [] svc = "explorer" -> [v2Key : OrNone({"v2"}), serviceKey : OrNone({"service", ""}),
                              explorerKey : OrNone({"explorer"})]
      [] svc = "definitions" -> [provider : OrNone({"etherscan", "sourcify"})]

Form(svc) ==
    CASE svc \in {"rpc", "stellarRpc"} -> [url : {"user", "bad"}]
      [] svc = "indexer" -> [url : OrNone({"user", "bad"})]
      [] svc = "explorer" -> [api : OrNone({"user", "bad"}), key : OrNone({"user"})]
      [] svc = "definitions" -> [provider : OrNone({"etherscan", "sourcify"})]

Urls == OrNone({"user", "app", "default", "bad", "v2Base"})
Keys == OrNone({"user", "v2", "service", "explorer", ""})
Answers == {"healthy", "unhealthy", "empty", "error", "httpError", "netError"}

NoTest == [pc |-> "idle", form |-> NoForm, url |-> None, key |-> None, ok |-> FALSE,
           timeout |-> FALSE, last |-> None]

TypeOK ==
    /\ service \in Services
    /\ network \in Network(service) /\ app \in App(service)
    /\ user \in Form(service) \cup {NoForm}
    /\ userRpc \in [url : {"user", "bad"}] \cup {NoForm}
    /\ test \in [pc : {"idle", "first", "fallback", "last", "done"}, ok : BOOLEAN,
                 form : Form(service) \cup {NoForm}, url : Urls, key : Keys,
                 timeout : BOOLEAN, last : OrNone(Answers)]

-----------------------------------------------------------------------------
(* RPC URLs.                                                               *)

UrlOf(form) == IF form = NoForm THEN None ELSE form.url
UserUrl == UrlOf(user)
OverrideUrl == IF app = Nothing THEN None ELSE app.url

\* resolveRpcUrl of both ecosystems, and resolveAccessControlIndexerUrl, which knows
\* no override: the first that is valid.  None is its error, or undefined.
FirstValid(urls) == LET valid == SelectSeq(urls, ValidUrl)
                    IN IF valid = <<>> THEN None ELSE Head(valid)

ResolveRpcUrl ==
    FirstValid(<<IF service = "rpc" THEN UserUrl ELSE UrlOf(userRpc), OverrideUrl, network.url>>)
ResolveIndexerUrl == FirstValid(<<UserUrl, network.url>>)

\* The RPC servers of Stellar: that of reads, types and sending (getSorobanRpcServer) has
\* no override and refuses nothing, that of the ledger and the relayer reads no settings.
CustomRpcUrl == IF userRpc = NoForm THEN network.url ELSE userRpc.url
NetworkRpcUrl == network.url

\* createDefaultConfig: the first there is, valid or not; else viem's own, not the network's.
DefaultTransportUrl ==
    CASE UserUrl # None -> UserUrl
      [] UserUrl = None /\ OverrideUrl # None -> OverrideUrl
      [] OTHER -> "viem"

\* getRpcOverrideForRainbowKit, and what createRainbowKitWagmiConfig makes of it.
RpcOverrideForRainbowKit ==
    CASE UserUrl # None -> [shape |-> "endpoint", url |-> UserUrl]
      [] UserUrl = None /\ app # Nothing /\ app.shape = "provider" ->
            [shape |-> "endpoint", url |-> app.url]
      [] OTHER -> app

RainbowKitTransportUrl ==
    LET override == RpcOverrideForRainbowKit
    IN IF override = Nothing \/ (override # Nothing /\ override.url = None) THEN "viem"
       ELSE override.url

-----------------------------------------------------------------------------
(* The explorer, and the provider of contract definitions.                 *)

IsV2 == network.supportsV2 /\ network.identifier = "etherscan-v2"
V2Key == IF IsV2 THEN app.v2Key ELSE None

\* getGlobalServiceConfig(identifier).apiKey ?? getExplorerApiKey(identifier): only what
\* is missing is replaced, an empty key is not.
IdentifierKey ==
    CASE network.identifier = None -> None
      [] app.serviceKey # None /\ network.identifier # None -> app.serviceKey
      [] OTHER -> app.explorerKey

\* resolveExplorerApiKeyFromAppConfig.
AppConfigKey ==
    CASE V2Key # None -> V2Key
      [] V2Key = None /\ IdentifierKey \notin {None, ""} -> IdentifierKey
      [] OTHER -> None

\* resolveExplorerConfig: the API URL and the key.
OrElse(a, b) == IF a # None THEN a ELSE b

ResolveExplorer ==
    IF user # NoForm
    THEN [url |-> OrElse(user.api, network.api),
          key |-> OrElse(user.key, OrElse(V2Key, IdentifierKey))]
    ELSE [url |-> network.api,
          key |-> CASE V2Key # None -> V2Key
                    [] V2Key = None /\ IdentifierKey \notin {None, ""} -> IdentifierKey
                    [] OTHER -> None]

\* loadAbiFromEtherscan: V2 wherever the network supports it.
LoadRequest == IF network.supportsV2 THEN [ResolveExplorer EXCEPT !.url = "v2Base"]
               ELSE ResolveExplorer

\* getEvmDefaultServiceConfig('explorer'): the key that a health check is made with.
HealthCheckKey == AppConfigKey

\* The default of the provider field of getEvmNetworkServiceForms, and the provider
\* that the loader asks first.
Provider(setting) == IF setting = Nothing THEN None ELSE setting.provider
ShownProvider == OrElse(Provider(user), Provider(app))
FirstProvider == OrElse(Provider(user), OrElse(Provider(app), "etherscan"))

-----------------------------------------------------------------------------
(* Connection tests.                                                       *)

Ended(t, ok) == [t EXCEPT !.pc = "done", !.ok = ok]

\* What a test asks: the form's endpoint, and of an explorer the V2 API with the form's
\* key wherever the network supports it, else the API of the form or the network.
AskedOfV2(form) == [url |-> "v2Base", key |-> form.key]
AskedOfExplorer(form) ==
    IF network.supportsV2 THEN AskedOfV2(form)
    ELSE [url |-> OrElse(form.api, network.api), key |-> form.key]

Asked(form) ==
    IF service = "explorer" THEN AskedOfExplorer(form) ELSE [url |-> form.url, key |-> None]

\* A missing indexer is fine, a missing explorer key or URL is not.
StartTest(form) ==
    LET asked == Asked(form)
        begun == [NoTest EXCEPT !.pc = "first", !.form = form,
                                !.url = asked.url, !.key = asked.key]
    IN /\ test.pc \in {"idle", "done"} /\ service # "definitions"
       /\ test' = CASE asked.url = None -> Ended(begun, service = "indexer")
                    [] service = "explorer" /\ network.needsKey /\ form.key = None -> Ended(begun, FALSE)
                    [] service = "indexer" /\ asked.url = "bad" -> Ended(begun, FALSE)
                    [] OTHER -> begun
       /\ UNCHANGED <<service, network, app, user, userRpc>>

\* testWithFallbackMethod is asked when getHealth has no result, and when anything
\* threw: in the try, and once more in the catch.
AfterFirst(t, answer) ==
    CASE answer = "healthy" -> Ended(t, TRUE)
      [] service = "stellarRpc" /\ answer = "empty" -> [t EXCEPT !.pc = "fallback"]
      [] service = "stellarRpc" /\ answer = "netError" -> [t EXCEPT !.pc = "last"]
      [] OTHER -> Ended(t, FALSE)

AfterFallback(t, answer) ==
    CASE answer = "healthy" -> Ended(t, TRUE)
      [] answer = "netError" /\ t.pc = "fallback" -> [t EXCEPT !.pc = "last"]
      [] OTHER -> Ended(t, FALSE)

\* An answer, of an endpoint that is one: only Soroban has a health of its own.
Answered(answer) ==
    /\ test.pc \in {"first", "fallback", "last"}
    /\ test.url = "bad" => answer = "netError"
    /\ answer \in {"unhealthy", "empty"} => service = "stellarRpc"
    /\ LET t == [test EXCEPT !.last = answer]
       IN test' = IF test.pc = "first" THEN AfterFirst(t, answer) ELSE AfterFallback(t, answer)
    /\ UNCHANGED <<service, network, app, user, userRpc>>

\* The mutant of TimerFires: the fallback is asked without the signal.
TimerUnheardByFallback ==
    /\ service \in {"rpc", "stellarRpc"} /\ test.pc \in {"first", "fallback", "last"}
    /\ ~test.timeout
    /\ test' = IF test.pc = "first" THEN Ended([test EXCEPT !.timeout = TRUE], FALSE)
               ELSE [test EXCEPT !.timeout = TRUE]
    /\ UNCHANGED <<service, network, app, user, userRpc>>

\* The AbortController of the RPC tests: whatever is being asked is given up, and an
\* AbortError is not answered with the fallback.
TimerFires ==
    /\ service \in {"rpc", "stellarRpc"} /\ test.pc \in {"first", "fallback", "last"}
    /\ test' = Ended([test EXCEPT !.timeout = TRUE], FALSE)
    /\ UNCHANGED <<service, network, app, user, userRpc>>

\* The user saves a form, or resets the service; or the RPC settings of Stellar change.
Save(form) ==
    /\ user' = form
    /\ UNCHANGED <<service, network, app, userRpc, test>>

SaveRpc(form) ==
    /\ service = "stellarRpc"
    /\ userRpc' = form
    /\ UNCHANGED <<service, network, app, user, test>>

Init ==
    /\ service \in Services
    /\ network \in Network(service) /\ app \in App(service)
    /\ user = NoForm /\ userRpc = NoForm /\ test = NoTest

Next ==
    \/ \E form \in Form(service) : StartTest(form)
    \/ \E form \in Form(service) \cup {NoForm} : Save(form)
    \/ \E form \in [url : {"user", "bad"}] \cup {NoForm} : SaveRpc(form)
    \/ \E answer \in Answers : Answered(answer)
    \/ TimerFires

Spec == Init /\ [][Next]_vars

-----------------------------------------------------------------------------
(* Properties.                                                             *)

\* A connection test that succeeds tells the truth about what will be used: its endpoint
\* answered, in time and in good health, and once the tested form is the saved one every
\* reader of it (the EVM's resolveRpcUrl and both wallet configurations; the indexer
\* client; the ABI loader, for a form with a key) asks that endpoint with that key.  The
\* form of Stellar's RPC is saved where none of its readers looks: only once the RPC
\* settings are the same do those that read any ask what was tested.
TestedIsUsed ==
    test.pc = "done" /\ test.ok /\ test.url # None =>
        /\ test.last = "healthy" /\ ~test.timeout
        /\ test.form = user =>
             /\ service = "rpc" => {ResolveRpcUrl, DefaultTransportUrl, RainbowKitTransportUrl} = {test.url}
             /\ service = "indexer" => ResolveIndexerUrl = test.url
             /\ service = "explorer" /\ user.key # None =>
                  LoadRequest = [url |-> test.url, key |-> test.key]
        /\ service = "stellarRpc" /\ test.form = userRpc => {ResolveRpcUrl, CustomRpcUrl} = {test.url}

\* The readers that resolve a setting by themselves agree: the two wallet configurations
\* always, even on an invalid URL, and with resolveRpcUrl, which refuses that, if the first
\* of the user's and the override is there and valid; those of Stellar that read RPC settings,
\* if these are valid or there is nothing but a valid default, and with the ledger's and
\* the relayer's, which read none, in the latter case; the key of a health check is the one
\* of ABI loading while the user saved nothing; the provider the form shows is the one the
\* loader asks first.
ReadersAgree ==
    /\ service = "rpc" =>
         /\ DefaultTransportUrl = RainbowKitTransportUrl
         /\ ValidUrl(OrElse(UserUrl, OverrideUrl)) => ResolveRpcUrl = DefaultTransportUrl
    /\ service = "stellarRpc" =>
         /\ ValidUrl(UrlOf(userRpc)) => ResolveRpcUrl = CustomRpcUrl
         /\ userRpc = NoForm /\ app = Nothing /\ ValidUrl(network.url) =>
              {ResolveRpcUrl, CustomRpcUrl} = {NetworkRpcUrl}
    /\ service = "explorer" /\ user = NoForm => HealthCheckKey = LoadRequest.key
    /\ service = "definitions" /\ ShownProvider # None => FirstProvider = ShownProvider
=============================================================================
