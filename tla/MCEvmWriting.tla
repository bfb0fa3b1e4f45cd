---------------------------- MODULE MCEvmWriting ----------------------------
(***************************************************************************)
(* The EVM writes that are checked under fairness: executing a transaction  *)
(* (EvmExecution), and a worker that re-drives the writes of an onboarding  *)
(* (IdentityOnboarding) whose executor is anything that sends.  They share  *)
(* no state, and a behaviour is of one of them: the other rests, with no    *)
(* transaction requested, or with every holder onboarded.                   *)
(***************************************************************************)
EXTENDS EvmExecution

CONSTANTS Workers, Holders, HolderOf, Wirings, MaxFaults, h1

VARIABLES part, step, pc, sent, verdict, wiring, facts, foreign, loose, faults

onboarding == <<step, pc, sent, verdict, wiring, facts, foreign, loose, faults>>

Saga == INSTANCE IdentityOnboarding WITH tx <- sent

OneHolder == [w \in Workers |-> h1]

(* One wiring for each way the two signals combine. *)
MCWirings ==
    {[options |-> "absent", result |-> "absent"],
     [options |-> "absent", result |-> "submitted"],
     [options |-> "submitted", result |-> "confirmed"]}

MCInit ==
    \/ /\ part = "execution"
       /\ Init
       /\ step = [w \in Workers |-> "done"]
       /\ pc = [w \in Workers |-> "idle"]
       /\ sent = [w \in Workers |-> "none"]
       /\ verdict = [w \in Workers |-> "none"]
       /\ wiring = [options |-> "absent", result |-> "absent"]
       /\ facts = {} /\ foreign = {} /\ loose = {} /\ faults = 0
    \/ /\ part = "onboarding"
       /\ Saga!Init
       /\ Init /\ wallet = [account |-> Nobody, chain |-> Target]

MCNext ==
    \/ part = "execution" /\ Next /\ UNCHANGED <<part, onboarding>>
    \/ part = "onboarding" /\ Saga!Next /\ UNCHANGED <<part, vars>>

MCSpec == MCInit /\ [][MCNext]_<<part, vars, onboarding>> /\ Fairness /\ Saga!Fairness

(* A deployment that lands after its call gave up, or that another worker   *)
(* made first, orphans nobody: re-driving the writes completes the saga.    *)
Onboarded == Saga!Onboarded
=============================================================================
