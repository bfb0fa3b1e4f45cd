----------------------------- MODULE MCEvmRoles -----------------------------
(* A reader of roles beside a discovery, over two roles and one account.      *)
EXTENDS EvmRoles, TLC

CONSTANTS reader, discoverer

MCCalls == {reader, discoverer}
MCMethods == reader :> {"roles", "enriched"} @@ discoverer :> {"discover"}
=============================================================================
