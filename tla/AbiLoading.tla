------------------------------ MODULE AbiLoading ------------------------------
(***************************************************************************)
(* loadEvmContract (adapter-evm-core/src/abi/loader.ts): the ABI of a      *)
(* contract from what the user pasted, or from Etherscan and Sourcify, and *)
(* for a proxy the ABI of its implementation (proxy/detection.ts).  One    *)
(* load; loads share nothing.  Providers are asked one after the other     *)
(* with a timeout each, and the chain is read in between, so the proxy may *)
(* be upgraded on the way.                                                 *)
(***************************************************************************)
EXTENDS Naturals, Sequences

CONSTANT MaxUpgrades        \* bound on the upgrades of the proxy during a load

VARIABLES
    setup,      \* what the caller asks for, and the settings
    chain,      \* where the proxy keeps its implementation, and which it is
    load,       \* the load
    late,       \* providers that timed out and whose answer is still to come
    heard       \* history: what came of each provider, as it happened

vars == <<setup, chain, load, late, heard>>

Providers == {"etherscan", "sourcify"}
None == "none"
OrNone(S) == S \cup {None}

Setup == [input : {"badAddress", "manual", "badManual", "fetch"},
          forced : OrNone(Providers), uiDefault : OrNone(Providers),
          appDefault : OrNone(Providers), skip : BOOLEAN]

\* The features of an ABI that detectProxyFromAbi looks at.
Abi == [upgradedEvent : BOOLEAN, erc1967Error : BOOLEAN, implementationFn : BOOLEAN,
        adminPart : BOOLEAN, beaconPart : BOOLEAN, diamondPart : BOOLEAN,
        otherEvents : BOOLEAN, fallback : BOOLEAN, proxyConstructor : BOOLEAN,
        functions : 0 .. 2]

ProxyTypes == {"uups", "transparent", "beacon", "diamond", "minimal", "unknown"}

\* Where a proxy keeps the address of its implementation.
Homes == {"eip1967", "legacy", "beacon", "bytecode", "method", "nowhere"}
Implementations == 1 .. MaxUpgrades + 1

ProviderErrors == {"unverified", "timeout", "other"}
Error == ProviderErrors \cup {"address", "abi", "unverifiedMessage"}

\* A result: the contract the schema is of (0 the one asked for), where it is said
\* to be from, and proxyInfo.
Result == [ok : BOOLEAN, error : OrNone(Error), schema : {0} \cup Implementations,
           from : OrNone(Providers), proxy : OrNone(ProxyTypes),
           impl : {0} \cup Implementations, admin : BOOLEAN]

Load == [pc : {"idle", "asking", "probing", "admin", "fetching", "done"},
         queue : Seq(Providers), used : OrNone(Providers), proxy : OrNone(ProxyTypes),
         places : Seq(STRING), impl : {0} \cup Implementations, admin : BOOLEAN,
         failed : BOOLEAN, result : Result]

TypeOK ==
    /\ setup \in Setup
    /\ chain \in [home : Homes, impl : Implementations]
    /\ load \in Load
    /\ late \subseteq Providers
    /\ heard \in Seq([provider : Providers, what : ProviderErrors \cup {"abi"}])

-----------------------------------------------------------------------------
(* Results.                                                                *)

NoResult == [ok |-> FALSE, error |-> None, schema |-> 0, from |-> None,
             proxy |-> None, impl |-> 0, admin |-> FALSE]

Failed(k, error) == [k EXCEPT !.pc = "done", !.result = [NoResult EXCEPT !.error = error]]

\* buildContractResult, with the proxyInfo there is.
Loaded(k, schema, from) ==
    [k EXCEPT !.pc = "done",
        !.result = [ok |-> TRUE, error |-> None, schema |-> schema, from |-> from,
                    proxy |-> k.proxy, impl |-> k.impl,
                    admin |-> k.admin /\ k.impl # 0]]

-----------------------------------------------------------------------------
(* The providers.                                                          *)

Other(p) == CHOOSE q \in Providers : q # p

ProviderOrder ==
    CASE setup.forced # None -> <<setup.forced>>
      [] setup.uiDefault # None -> <<setup.uiDefault, Other(setup.uiDefault)>>
      [] setup.appDefault # None -> <<setup.appDefault, Other(setup.appDefault)>>
      [] OTHER -> <<"etherscan", "sourcify">>

\* detectProxyFromAbi: later checks override earlier ones, and the last two only
\* speak when the others were silent.
ProxyTypeOf(abi) ==
    LET bare == abi.fallback /\ abi.functions <= 1
    IN CASE abi.diamondPart -> "diamond"
         [] abi.beaconPart -> "beacon"
         [] abi.upgradedEvent \/ abi.erc1967Error -> "uups"
         [] abi.implementationFn \/ abi.adminPart -> "transparent"
         [] bare /\ ~abi.otherEvents -> "minimal"
         [] bare /\ (abi.proxyConstructor \/ abi.functions = 0) -> "unknown"
         [] OTHER -> None

\* getImplementationAddress: where it looks, in order.
PlacesFor(proxy) ==
    CASE proxy \in {"uups", "transparent"} -> <<"eip1967", "legacy">>
      [] proxy = "beacon" -> <<"beacon">>
      [] proxy = "minimal" -> <<"bytecode">>
      [] proxy = "diamond" -> <<>>
      [] OTHER -> <<"method", "eip1967">>

\* The initial ABI is there: proxy detection, or the result as it is.
WithInitialAbi(k, p, abi) ==
    LET proxy == ProxyTypeOf(abi)
        got == [k EXCEPT !.used = p, !.queue = <<>>]
    IN IF setup.skip \/ proxy = None THEN Loaded(got, 0, p)
       ELSE [got EXCEPT !.pc = "probing", !.proxy = proxy, !.places = PlacesFor(proxy)]

\* The catch of loadContractWithProxyDetection.
GiveUp(k, error) ==
    Failed(k, IF setup.forced = None /\ error = "unverified" THEN "unverifiedMessage" ELSE error)

\* The mutant of NextProvider for FailureWasEarned: the error of the first provider is thrown.
FirstErrorThrown(k, error) == GiveUp(k, error)

\* The catch in the loop over the providers: the next one, or the last error.
NextProvider(k, error) ==
    IF Tail(k.queue) = <<>> THEN GiveUp(k, error)
    ELSE [k EXCEPT !.queue = Tail(@)]

-----------------------------------------------------------------------------
Init ==
    /\ setup \in Setup
    /\ setup.input # "fetch" => setup.forced = None /\ setup.uiDefault = None
    /\ setup.uiDefault # None \/ setup.forced # None => setup.appDefault = None
    /\ setup.forced # None => setup.uiDefault = None
    /\ chain \in [home : Homes, impl : {1}]
    /\ load = [pc |-> "idle", queue |-> <<>>, used |-> None, proxy |-> None,
               places |-> <<>>, impl |-> 0, admin |-> FALSE,
               failed |-> FALSE, result |-> NoResult]
    /\ late = {}
    /\ heard = <<>>

\* loadEvmContract, up to the first request.
Begin ==
    /\ load.pc = "idle"
    /\ load' = CASE setup.input = "badAddress" -> Failed(load, "address")
                 [] setup.input = "badManual" -> Failed(load, "abi")
                 [] setup.input = "manual" -> Loaded(load, 0, None)
                 [] OTHER -> [load EXCEPT !.pc = "asking", !.queue = ProviderOrder]
    /\ UNCHANGED <<setup, chain, late, heard>>

Hear(p, what) == heard' = Append(heard, [provider |-> p, what |-> what])

\* Sourcify answers "not found" by a status, so only Etherscan says "not verified".
ProviderFails ==
    /\ load.pc = "asking"
    /\ LET p == Head(load.queue) IN
         \E error \in ProviderErrors \ {"timeout"} :
            /\ error = "unverified" => p = "etherscan"
            /\ load' = NextProvider(load, error)
            /\ Hear(p, error)
    /\ UNCHANGED <<setup, chain, late>>

\* withTimeout: the load goes on.  Sourcify's request is aborted, Etherscan's runs on.
ProviderTimesOut ==
    /\ load.pc = "asking"
    /\ LET p == Head(load.queue) IN
         /\ load' = NextProvider(load, "timeout")
         /\ late' = late \cup (IF p = "etherscan" THEN {p} ELSE {})
         /\ Hear(p, "timeout")
    /\ UNCHANGED <<setup, chain>>

ProviderDelivers ==
    /\ load.pc = "asking"
    /\ LET p == Head(load.queue) IN
         /\ \E abi \in Abi : load' = WithInitialAbi(load, p, abi)
         /\ Hear(p, "abi")
    /\ UNCHANGED <<setup, chain, late>>

\* The mutant of LateAnswer for SourceIsTold: the request assigns its result when it ends.
LateAnswerCounts(k, p) == IF k.pc = "probing" THEN [k EXCEPT !.used = p] ELSE k

\* What the load makes of an answer that comes after its timeout: nothing.
LateAnswer(k, p) == k

AnswersLate(p) ==
    /\ p \in late
    /\ late' = late \ {p}
    /\ load' = LateAnswer(load, p)
    /\ UNCHANGED <<setup, chain, heard>>

-----------------------------------------------------------------------------
(* The proxy.                                                              *)

\* callContractFunction: parseAbi knows no signature that lacks "function", and a
\* signature without a return type decodes to nothing, so every call answers null.
CallContractFunction(proxyHome) == 0

\* What there is at a place: a slot, the bytecode, or a method that must be called,
\* which for a beacon is implementation() of the beacon found in the slot.
ValueAt(place) ==
    IF chain.home # place THEN 0
    ELSE IF place \in {"beacon", "method"} THEN CallContractFunction(place)
    ELSE chain.impl

\* One place of the ladder; a read that fails counts as empty.
Probe ==
    /\ load.pc = "probing" /\ load.places # <<>>
    /\ \E fails \in BOOLEAN :
         LET found == IF fails THEN 0 ELSE ValueAt(Head(load.places))
         IN load' = [load EXCEPT !.places = IF found # 0 THEN <<>> ELSE Tail(@),
                                 !.impl = found, !.failed = @ \/ fails]
    /\ UNCHANGED <<setup, chain, late, heard>>

\* getAdminAddress, also when there is no implementation.
ReadAdmin ==
    /\ load.pc = "probing" /\ load.places = <<>>
    /\ \E admin \in BOOLEAN :
         LET k == [load EXCEPT !.admin = admin]
         IN load' = IF k.impl = 0 THEN Loaded(k, 0, k.used) ELSE [k EXCEPT !.pc = "fetching"]
    /\ UNCHANGED <<setup, chain, late, heard>>

\* The end of handleProxyDetection when the implementation's ABI could not be had:
\* the proxy's own.
WithoutImplementationAbi(k) == Loaded(k, 0, k.used)

\* The implementation whose ABI Etherscan is asked for.
Wanted(k) == k.impl

\* loadImplementationAbi: Etherscan, whatever provider was forced, and no timeout.
FetchImplementation ==
    /\ load.pc = "fetching"
    /\ \/ load' = Loaded(load, Wanted(load), "etherscan")
       \/ load' = WithoutImplementationAbi(load)
    /\ UNCHANGED <<setup, chain, late, heard>>

\* The owner of the proxy upgrades it.
Upgrade ==
    /\ chain.impl <= MaxUpgrades /\ load.pc # "done"
    /\ chain.home # "nowhere"
    /\ chain' = [chain EXCEPT !.impl = @ + 1]
    /\ UNCHANGED <<setup, load, late, heard>>

Next ==
    \/ Begin \/ ProviderFails \/ ProviderTimesOut \/ ProviderDelivers
    \/ (\E p \in Providers : AnswersLate(p))
    \/ Probe \/ ReadAdmin \/ FetchImplementation \/ Upgrade

Spec == Init /\ [][Next]_vars

-----------------------------------------------------------------------------
(* Properties.                                                             *)

Done == load.pc = "done"
Delivered == \E i \in DOMAIN heard : heard[i].what = "abi"
Asked == [i \in DOMAIN heard |-> heard[i].provider]

\* A result names the source of its schema.  The contract's own ABI comes from the
\* provider that delivered it within its time, never from one that answered after
\* the load had gone on; an implementation's is of the implementation the result
\* names, also when the proxy was upgraded between the reads.
SourceIsTold ==
    Done /\ load.result.ok /\ setup.input = "fetch" =>
        IF load.result.schema = 0
          THEN heard[Len(heard)] = [provider |-> load.result.from, what |-> "abi"]
          ELSE load.result.from = "etherscan" /\ load.result.schema = load.result.impl

\* An ABI that was delivered is never lost to a failure after it: the chain, the
\* explorer of the implementation and the detection may all fail.
FetchedIsKept == Done /\ Delivered => load.result.ok

\* A load that fails has asked the forced provider alone, or both in the preferred
\* order; and "unverified" is said only of a contract Etherscan called unverified.
ProvidersExhausted ==
    Done /\ ~load.result.ok /\ setup.input = "fetch" =>
        /\ Asked = ProviderOrder
        /\ load.result.error = "unverifiedMessage" =>
             \E i \in DOMAIN heard : heard[i] = [provider |-> "etherscan", what |-> "unverified"]

\* A load fails only when there was nothing more to try.
FailureWasEarned == FetchedIsKept /\ ProvidersExhausted

\* "Automatically detects proxy contracts and resolves implementation addresses for
\* UUPS, Transparent, Beacon, and other proxy patterns" (proxy/detection.ts): a
\* beacon proxy, seen as one and read without failure, gets its implementation.
BeaconResolved ==
    Done /\ load.proxy = "beacon" /\ chain.home = "beacon" /\ ~load.failed =>
        load.result.impl # 0
=============================================================================
