---------------------------- MODULE NameResolution ----------------------------
(***************************************************************************)
(* EvmNameResolutionService (adapter-evm-core/src/name-resolution): names  *)
(* to addresses and back through ENS.  A runtime is bound to one network,  *)
(* which has a Universal Resolver of its own or not, and may have a second *)
(* client, for mainnet (L1).  The service keeps no state; what is hard is  *)
(* that a lookup ends in many ways and that the next registry is asked     *)
(* after one of them only.                                                 *)
(*                                                                         *)
(* The registries are not kept as state: they change at any moment, so a   *)
(* request may be answered in any way, and the value a registry holds is   *)
(* named by the registry and the coin type that were asked.                *)
(***************************************************************************)
EXTENDS Naturals, Sequences

CONSTANT Calls      \* concurrent calls of resolveName and resolveAddress

VARIABLES
    config,     \* what the service was constructed with
    call        \* the calls

vars == <<config, call>>

Tiers == {"bound", "l1"}
Coins == {"eth", "scoped"}

\* ur: the bound chain has a Universal Resolver; l1: the second client, of
\* mainnet, of a chain without a resolver, or none; coin: ENSIP-11 has a coin
\* type for the bound chain's id.
Config == [ur : BOOLEAN, mainnet : BOOLEAN, l1 : {"none", "mainnet", "other"},
           optIn : BOOLEAN, coin : BOOLEAN]

\* What can become of a request: the resolver's own answers ...
Misses == {"null", "noResolver", "notContract", "resolverError"}
Answers == Misses \cup {"value", "invalid", "noProfile", "mismatch"}

\* ... and viem's failures, by the class or name the mapper looks for.
GatewayFailures == {"offchainLookup", "gatewayRevert"}
Failures == GatewayFailures \cup {"timeout", "http", "noResolverContract", "other"}

\* A request that ended, as it really was.
Attempt == [tier : Tiers, coin : Coins, saw : BOOLEAN, what : Answers \cup Failures]

Codes == {"OK", "NAME_NOT_FOUND", "ADDRESS_NOT_FOUND", "UNSUPPORTED_NETWORK",
          "UNSUPPORTED_NAME", "RESOLUTION_TIMEOUT", "EXTERNAL_GATEWAY_ERROR",
          "ADAPTER_ERROR"}

\* A result: its code; for "OK" the registry and coin type its value is of, and
\* the provenance that goes with it.
Result == [code : Codes, of : (Tiers \X Coins) \cup {<<>>}, scoped : BOOLEAN,
           fallback : BOOLEAN, external : BOOLEAN, avatar : BOOLEAN]

Error(code) == [code |-> code, of |-> <<>>, scoped |-> FALSE, fallback |-> FALSE,
                external |-> FALSE, avatar |-> FALSE]
Pending == Error("OK")

Call == [pc : {"idle", "asking", "avatar", "done"}, op : {"forward", "reverse"},
         tier : Tiers, coin : Coins, saw : BOOLEAN, attempts : Seq(Attempt),
         result : Result]

TypeOK ==
    /\ config \in Config
    /\ call \in [Calls -> Call]
    /\ \A c \in Calls : Len(call[c].attempts) <= 2

-----------------------------------------------------------------------------
(* Which client may be asked.                                              *)

SupportsEns == config.ur
IsMainnetBound == config.mainnet
HasL1Client == config.l1 # "none"

MayConsultL1 == config.optIn /\ HasL1Client /\ ~IsMainnetBound

\* The coin type of the bound chain: mainnet's is ETH's.
BoundCoin == IF IsMainnetBound THEN "eth" ELSE "scoped"

-----------------------------------------------------------------------------
(* The shapes a call's record takes.                                       *)

Idle == [pc |-> "idle", op |-> "forward", tier |-> "bound", coin |-> "eth",
         saw |-> FALSE, attempts |-> <<>>, result |-> Pending]

\* A request over a client derived for this call, whose ccipRead hook reports to
\* a flag of this call.
Asking(k, op, tier, coin) ==
    [k EXCEPT !.pc = "asking", !.op = op, !.tier = tier, !.coin = coin, !.saw = FALSE]

Ended(k, result) == [k EXCEPT !.pc = "done", !.result = result]

Steps(c, k) == call' = [call EXCEPT ![c] = k] /\ UNCHANGED config

Init ==
    /\ config \in Config
    /\ config.mainnet => config.coin
    /\ call = [c \in Calls |-> Idle]

-----------------------------------------------------------------------------
(* resolveName and resolveAddress up to their first request.               *)

\* The network is looked at before the name.
ForwardStart(k, wellFormed) ==
    IF ~SupportsEns /\ (~HasL1Client \/ ~config.coin)
      THEN Ended(k, Error("UNSUPPORTED_NETWORK"))
    ELSE IF ~wellFormed THEN Ended(k, Error("UNSUPPORTED_NAME"))
    ELSE IF SupportsEns THEN Asking(k, "forward", "bound", "eth")
    ELSE Asking(k, "forward", "l1", BoundCoin)

ResolveName(c) ==
    /\ call[c].pc = "idle"
    /\ \E wellFormed \in BOOLEAN :
         Steps(c, ForwardStart([call[c] EXCEPT !.op = "forward"], wellFormed))

\* The address is looked at before the network.
ReverseStart(k, wellFormed) ==
    IF ~wellFormed THEN Ended(k, Error("ADDRESS_NOT_FOUND"))
    ELSE IF SupportsEns THEN Asking(k, "reverse", "bound", "eth")
    ELSE IF MayConsultL1 THEN Asking(k, "reverse", "l1", "eth")
    ELSE Ended(k, Error("UNSUPPORTED_NETWORK"))

ResolveAddress(c) ==
    /\ call[c].pc = "idle"
    /\ \E wellFormed \in BOOLEAN :
         Steps(c, ReverseStart([call[c] EXCEPT !.op = "reverse"], wellFormed))

-----------------------------------------------------------------------------
(* The remote side of one request.                                         *)

\* The resolver answered OffchainLookup and the client asks the gateway.
FollowOffchain(c) ==
    /\ call[c].pc = "asking" /\ ~call[c].saw
    /\ call[c].tier = "l1" => config.l1 = "mainnet"
    /\ Steps(c, [call[c] EXCEPT !.saw = TRUE])

\* What a request may come to.  A name that is not the address's own and bytes
\* that are no address are answers of one direction; a client of a chain
\* without a resolver never gets as far as a resolver, and the gateway's own
\* revert follows a gateway request.
Comes(k, what) ==
    /\ what = "mismatch" => k.op = "reverse"
    /\ what = "invalid" => k.op = "forward"
    /\ what = "gatewayRevert" => k.saw
    /\ what = "noResolverContract" <=> k.tier = "l1" /\ config.l1 = "other"

\* The mutant of SawOffchain: one observing client shared by all calls.
SharedFlag(c) == \E d \in Calls : call[d].saw

\* What the calls' client reports of the gateway: derived per call.
SawOffchain(c) == call[c].saw

-----------------------------------------------------------------------------
(* Errors.                                                                 *)

\* mapNameResolutionError: rows in the order they are tried.
MapError(what, viaGateway) ==
    CASE viaGateway /\ what \in GatewayFailures \cup {"timeout", "http"} -> "EXTERNAL_GATEWAY_ERROR"
      [] ~viaGateway /\ what = "timeout" -> "RESOLUTION_TIMEOUT"
      [] ~viaGateway /\ what \in GatewayFailures -> "EXTERNAL_GATEWAY_ERROR"
      [] what = "noResolverContract" -> "UNSUPPORTED_NETWORK"
      [] OTHER -> "ADAPTER_ERROR"

\* The code resolveVia gives an outcome.
ForwardCode(what, viaGateway) ==
    CASE what = "value" -> "OK"
      [] what \in Misses \cup {"invalid"} -> "NAME_NOT_FOUND"
      [] what = "noProfile" -> "UNSUPPORTED_NAME"
      [] OTHER -> MapError(what, viaGateway)

\* What attemptReverse makes of an outcome: success, empty or failure.
ReverseKind(what) ==
    CASE what = "value" -> "success"
      [] what \in Misses \cup {"mismatch", "noProfile"} -> "empty"
      [] OTHER -> "failure"

-----------------------------------------------------------------------------
(* Results.                                                                *)

\* buildEnsProvenance: scoped exactly when the coin type is not ETH's.
EnsValue(tier, coin, external) ==
    [Pending EXCEPT !.of = <<tier, coin>>, !.scoped = coin # "eth", !.external = external]

\* The provenance of a name: the bound network's own, scoped unless it is mainnet,
\* or L1's.
ReverseValue(tier, external) ==
    IF tier = "l1" THEN EnsValue("l1", "eth", external)
    ELSE [EnsValue("bound", "eth", FALSE) EXCEPT !.scoped = ~IsMainnetBound]

\* composeNetworkFallbackProvenance, when L1 was asked after the bound network.
WithFallback(k, result) ==
    [result EXCEPT !.fallback = k.tier = "l1" /\ SupportsEns]

-----------------------------------------------------------------------------
(* A request ends.                                                         *)

\* The mutant of EligibleForL1: any error lets L1 be asked.
AnyErrorEligible(k, code) ==
    code # "OK" /\ k.tier = "bound" /\ SupportsEns /\ MayConsultL1

\* The end of resolveVia, and the fallback of resolveName.
EligibleForL1(k, code) ==
    code = "NAME_NOT_FOUND" /\ k.tier = "bound" /\ SupportsEns /\ MayConsultL1

ForwardEnds(c, k, what) ==
    LET code == ForwardCode(what, SawOffchain(c))
    IN IF code = "OK"
         THEN Ended(k, WithFallback(k, EnsValue(k.tier, k.coin, SawOffchain(c))))
       ELSE IF EligibleForL1(k, code) THEN Asking(k, "forward", "l1", "eth")
       ELSE Ended(k, Error(code))

\* The end of attemptReverse up to the avatar, the ladder of resolveAddress and
\* finishL1Attempt.
ReverseEnds(c, k, what) ==
    LET kind == ReverseKind(what)
    IN CASE kind = "success" ->
              [k EXCEPT !.pc = "avatar",
                        !.result = WithFallback(k, ReverseValue(k.tier, SawOffchain(c)))]
         [] kind = "failure" -> Ended(k, Error(MapError(what, SawOffchain(c))))
         [] kind = "empty" /\ k.tier = "bound" /\ MayConsultL1 -> Asking(k, "reverse", "l1", "eth")
         [] OTHER -> Ended(k, Error("ADDRESS_NOT_FOUND"))

RequestEnds(c) ==
    /\ call[c].pc = "asking"
    /\ \E what \in Answers \cup Failures :
         /\ Comes(call[c], what)
         /\ LET k == [call[c] EXCEPT !.attempts = Append(@,
                        [tier |-> call[c].tier, coin |-> call[c].coin,
                         saw |-> call[c].saw, what |-> what])]
            IN Steps(c, IF k.op = "forward" THEN ForwardEnds(c, k, what)
                        ELSE ReverseEnds(c, k, what))

\* tryGetAvatar: whatever comes of it, the name stands.
AvatarEnds(c) ==
    /\ call[c].pc = "avatar"
    /\ \E found \in BOOLEAN :
         Steps(c, Ended(call[c], [call[c].result EXCEPT !.avatar = found]))

Next == \E c \in Calls :
    ResolveName(c) \/ ResolveAddress(c) \/ FollowOffchain(c) \/ RequestEnds(c) \/ AvatarEnds(c)

Spec == Init /\ [][Next]_vars

-----------------------------------------------------------------------------
(* Properties.                                                             *)

Done(c) == call[c].pc = "done"
Asked(c) == call[c].attempts # <<>>
Code(c) == call[c].result.code
Last(c) == call[c].attempts[Len(call[c].attempts)]

\* A failure is never taken for a miss.  An answer "not found" means that every registry
\* that was asked said that it has nothing to use, and that none the integrator opted in
\* to was left out; and mainnet is asked behind a bound network with a resolver only when
\* that network said so, never when it failed to answer.
FailureIsNoMiss ==
    \A c \in Calls :
        /\ Done(c) /\ Asked(c) /\ Code(c) \in {"NAME_NOT_FOUND", "ADDRESS_NOT_FOUND"} =>
             /\ \A i \in DOMAIN call[c].attempts :
                  call[c].attempts[i].what \in Answers \ {"value"}
             /\ MayConsultL1 => Last(c).tier = "l1"
        /\ SupportsEns /\ call[c].tier = "l1" =>
             /\ config.optIn /\ ~config.mainnet
             /\ Asked(c) /\ call[c].attempts[1].tier = "bound"
             /\ call[c].attempts[1].what \in
                  Misses \cup (IF call[c].op = "forward" THEN {"invalid"} ELSE {"mismatch", "noProfile"})

\* The gateway is blamed for the gateway's failures of this very request, and a
\* timeout is reported as such only when no gateway was involved, whatever other
\* calls did over the same client meanwhile.
BlameFitsRequest ==
    \A c \in Calls : Done(c) /\ Asked(c) =>
        /\ Code(c) = "EXTERNAL_GATEWAY_ERROR" =>
             Last(c).saw \/ Last(c).what \in GatewayFailures
        /\ Code(c) = "RESOLUTION_TIMEOUT" => Last(c).what = "timeout" /\ ~Last(c).saw
        /\ Last(c).saw /\ Last(c).what \in {"timeout", "http"} =>
             Code(c) = "EXTERNAL_GATEWAY_ERROR"
=============================================================================
