------------------------ MODULE MCIdentityOnboarding ------------------------
(* Every worker onboards the same holder. *)
EXTENDS IdentityOnboarding, TLC

CONSTANT h1

OneHolder == [w \in Workers |-> h1]

(* One wiring for each way the two signals combine. *)
MCWirings ==
    {[options |-> "absent", result |-> "absent"],
     [options |-> "absent", result |-> "submitted"],
     [options |-> "submitted", result |-> "confirmed"]}

Symmetric == Permutations(Workers)
=============================================================================
