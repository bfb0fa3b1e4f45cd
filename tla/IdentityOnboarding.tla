------------------------- MODULE IdentityOnboarding -------------------------
(***************************************************************************)
(* The writes of the EVM identity-registry capability (adapter-evm-core,    *)
(* src/irs) as an onboarding saga drives them: trust the claim issuer,      *)
(* deploy the holder's ONCHAINID, grant the holder MANAGEMENT on it, attach *)
(* the claim, register the identity.                                        *)
(*                                                                         *)
(* A write reads the chain, submits a transaction through an injected       *)
(* executor and may wait and read again before it answers.  Between any two *)
(* of these steps transactions land - the call's own, one an earlier call   *)
(* gave up on, one of another worker onboarding the same holder - and every *)
(* read may fail or be answered by a node that lags behind.  What the       *)
(* answer of a call says about the chain is all a worker has to go by.      *)
(*                                                                         *)
(* The chain, the executor and the workers are external: the contracts      *)
(* behave as the code relies on, the workers re-drive as the docs under     *)
(* adapter-evm-core/docs tell them to.                                      *)
(***************************************************************************)
EXTENDS Naturals

CONSTANTS
    Workers,    \* processes that onboard holders
    Holders,    \* wallets being onboarded
    HolderOf,   \* HolderOf[w]: the holder w onboards
    Wirings,    \* the completion signals an integration may be wired with
    MaxFaults   \* bound on the faults of one behaviour

Signal == {"absent", "submitted", "confirmed"}

ASSUME HolderAssumption == HolderOf \in [Workers -> Holders]
ASSUME WiringAssumption == Wirings \subseteq [options : Signal, result : Signal]
ASSUME FaultAssumption == MaxFaults \in Nat

Ops == {"trust", "deploy", "grant", "attach", "register"}

VARIABLES
    step,       \* step[w]: the write w is at in its saga, or "done"
    pc,         \* pc[w]: where w's current call is, "idle" between calls
    tx,         \* tx[w]: the transaction of w's current call
    verdict,    \* verdict[w]: how w's last call answered, "none" while a call runs
    wiring,     \* completion signals of the execution options and the strategy
    facts,      \* <<op, h>>: op has taken effect on chain for holder h
    foreign,    \* holders whose identity another operator's key manages
    loose,      \* <<op, h>>: a transaction in flight that no call waits for
    faults      \* failed or stale reads, lost transactions, ... so far

callState == <<step, pc, tx, verdict>>
chainState == <<facts, loose>>
vars == <<callState, chainState, wiring, foreign, faults>>

Verdicts ==
    {"already", "noop", "ambiguous", "failed", "disagreement", "submitted", "ok",
     "indeterminate", "reverted", "unresolved", "lacking", "unverified", "confirmed"}

Init ==
    /\ step = [w \in Workers |-> "trust"]
    /\ pc = [w \in Workers |-> "idle"]
    /\ tx = [w \in Workers |-> "none"]
    /\ verdict = [w \in Workers |-> "none"]
    /\ wiring \in Wirings
    /\ facts \in SUBSET ({"trust", "deploy"} \X Holders)
    /\ foreign \in SUBSET {h \in Holders : <<"deploy", h>> \in facts}
    /\ loose = {}
    /\ faults = 0

Fault == faults < MaxFaults /\ faults' = faults + 1

NoFault == UNCHANGED faults

-----------------------------------------------------------------------------
(* The chain *)

(* Whether the contracts accept op for h: an issuer, a link, a key and a    *)
(* registration exist once; only a key with MANAGEMENT adds keys or claims. *)
Accepts(op, h) ==
    /\ op # "attach" => <<op, h>> \notin facts
    /\ op \in {"grant", "attach"} => <<"deploy", h>> \in facts /\ h \notin foreign

(* A transaction in flight is mined: it takes effect, or is reverted.       *)
Mine(w) ==
    /\ tx[w] = "pending"
    /\ LET h == HolderOf[w] IN
        \/ /\ Accepts(step[w], h)
           /\ facts' = facts \union {<<step[w], h>>}
           /\ tx' = [tx EXCEPT ![w] = "success"]
           /\ NoFault
        \/ /\ IF Accepts(step[w], h) THEN Fault ELSE NoFault
           /\ tx' = [tx EXCEPT ![w] = "reverted"]
           /\ UNCHANGED facts
    /\ UNCHANGED <<step, pc, verdict, loose, wiring, foreign>>

MineLoose(op, h) ==
    /\ <<op, h>> \in loose
    /\ loose' = loose \ {<<op, h>>}
    /\ \/ Accepts(op, h) /\ facts' = facts \union {<<op, h>>} /\ NoFault
       \/ (IF Accepts(op, h) THEN Fault ELSE NoFault) /\ UNCHANGED facts
    /\ UNCHANGED <<callState, wiring, foreign>>

(* A transaction is lost: it is never mined and has no receipt.             *)
Drop(w) ==
    /\ tx[w] = "pending"
    /\ Fault
    /\ tx' = [tx EXCEPT ![w] = "dropped"]
    /\ UNCHANGED <<step, pc, verdict, chainState, wiring, foreign>>

(* The three answers of a read: a node answers no too early at worst.       *)
ReadsYes(fact) == fact /\ NoFault

ReadsNo(fact) == IF fact THEN Fault ELSE NoFault

ReadFails == Fault

-----------------------------------------------------------------------------
(* The write path shared by every operation *)

(* resolveWriteCompletion: what options and strategy say must agree; one    *)
(* signal is honoured, none means confirmed.                                *)
Resolve(s) ==
    CASE s.options # "absent" /\ s.result # "absent" /\ s.options # s.result -> "disagreement"
      [] s.options # "absent" -> s.options
      [] s.result # "absent"  -> s.result
      [] OTHER                -> "confirmed"

(* The call answers.  A transaction it leaves in flight may still land.     *)
Answer(w, v) ==
    /\ verdict' = [verdict EXCEPT ![w] = v]
    /\ pc' = [pc EXCEPT ![w] = "idle"]
    /\ tx' = [tx EXCEPT ![w] = "none"]
    /\ loose' = IF tx[w] = "pending"
                THEN loose \union {<<step[w], HolderOf[w]>>} ELSE loose
    /\ UNCHANGED <<step, facts>>

GoesTo(w, place) ==
    /\ pc' = [pc EXCEPT ![w] = place]
    /\ UNCHANGED <<step, tx, verdict, chainState>>

Fact(w) == <<step[w], HolderOf[w]>> \in facts

(* Mutant: a probe whose read fails is taken for a positive answer. *)
ProbeCollapses(w) ==
    /\ pc[w] = "probe"
    /\ \/ (ReadsYes(Fact(w)) \/ ReadFails) /\ Answer(w, "already")
       \/ ReadsNo(Fact(w)) /\ GoesTo(w, "execute")
    /\ UNCHANGED <<wiring, foreign>>

(* Mutant: a deployment is submitted without looking at the factory first.  *)
ProbeSkippedByDeploy(w) ==
    /\ pc[w] = "probe"
    /\ \/ step[w] # "deploy" /\ ReadsYes(Fact(w))
            /\ Answer(w, IF step[w] = "trust" THEN "noop" ELSE "already")
       \/ step[w] = "deploy" /\ NoFault /\ GoesTo(w, "execute")
       \/ step[w] # "deploy" /\ ReadsNo(Fact(w)) /\ GoesTo(w, "execute")
       \/ ReadFails /\ IF step[w] = "trust" THEN GoesTo(w, "execute") ELSE Answer(w, "ambiguous")
    /\ UNCHANGED <<wiring, foreign>>

(* The read before a write: getFactoryIdentity, lookupIdentityKeyPurpose,   *)
(* getOnchainId, isTrustedIssuer.  What is there already is not submitted   *)
(* again; a failed read stops the call, except that isTrustedIssuer answers *)
(* no then.                                                                 *)
Probe(w) ==
    /\ pc[w] = "probe"
    /\ \/ ReadsYes(Fact(w)) /\ Answer(w, IF step[w] = "trust" THEN "noop" ELSE "already")
       \/ ReadsNo(Fact(w)) /\ GoesTo(w, "execute")
       \/ ReadFails /\ IF step[w] = "trust" THEN GoesTo(w, "execute") ELSE Answer(w, "ambiguous")
    /\ UNCHANGED <<wiring, foreign>>

Submit(w) ==
    /\ pc[w] = "execute"
    /\ tx' = [tx EXCEPT ![w] = "pending"]
    /\ pc' = [pc EXCEPT ![w] = "executing"]
    /\ UNCHANGED <<step, verdict, chainState, wiring, foreign, faults>>

(* The executor throws, before the transaction is sent or after (a relayer  *)
(* poll that fails or times out): runCapabilityWrite maps either to the     *)
(* same IdentityOperationFailed.                                            *)
ExecutorThrows(w) ==
    /\ pc[w] \in {"execute", "executing"}
    /\ Fault
    /\ Answer(w, "failed")
    /\ UNCHANGED <<wiring, foreign>>

(* Mutant: grant answers without asserting that the key is there. *)
ExecutorReturnsUnasserted(w) ==
    /\ pc[w] = "executing"
    /\ LET completion == Resolve(wiring) IN
        CASE completion = "disagreement" -> Answer(w, "disagreement")
          [] completion # "disagreement" /\ step[w] \in {"trust", "attach", "register"} ->
                 Answer(w, "ok")
          [] completion = "submitted" /\ step[w] \in {"deploy", "grant"} -> Answer(w, "submitted")
          [] completion = "confirmed" /\ step[w] = "deploy" -> GoesTo(w, "wait")
          [] completion = "confirmed" /\ step[w] = "grant" -> Answer(w, "confirmed")
    /\ UNCHANGED <<wiring, foreign, faults>>

(* adaptSignAndBroadcast and the operation's code after it.  The executor   *)
(* may return as soon as the transaction is sent.  Only deploy and grant    *)
(* look at the completion.                                                  *)
ExecutorReturns(w) ==
    /\ pc[w] = "executing"
    /\ LET completion == Resolve(wiring) IN
        CASE completion = "disagreement" -> Answer(w, "disagreement")
          [] completion # "disagreement" /\ step[w] \in {"trust", "attach", "register"} ->
                 Answer(w, "ok")
          [] completion = "submitted" /\ step[w] \in {"deploy", "grant"} -> Answer(w, "submitted")
          [] completion = "confirmed" /\ step[w] = "deploy" -> GoesTo(w, "wait")
          [] completion = "confirmed" /\ step[w] = "grant" -> GoesTo(w, "assert")
    /\ UNCHANGED <<wiring, foreign, faults>>

-----------------------------------------------------------------------------
(* What deploy and grant do to confirm *)

(* Mutant: the receipt's status is not looked at before its logs. *)
ReceiptArrivesUnchecked(w) ==
    /\ pc[w] = "wait"
    /\ \/ tx[w] = "reverted" /\ NoFault /\ Answer(w, "unresolved")
       \/ tx[w] = "success" /\ NoFault /\ GoesTo(w, "assert")
       \/ tx[w] = "success" /\ Fault /\ Answer(w, "unresolved")
    /\ UNCHANGED <<wiring, foreign>>

(* deployOnchainId has a receipt: reverted, or with an identity in its logs *)
(* or, oddly, without.                                                      *)
ReceiptArrives(w) ==
    /\ pc[w] = "wait"
    /\ \/ tx[w] = "reverted" /\ NoFault /\ Answer(w, "reverted")
       \/ tx[w] = "success" /\ NoFault /\ GoesTo(w, "assert")
       \/ tx[w] = "success" /\ Fault /\ Answer(w, "unresolved")
    /\ UNCHANGED <<wiring, foreign>>

(* The bounded wait ends, by its timeout or an error of the client, with    *)
(* the transaction in any state.                                            *)
WaitEnds(w) ==
    /\ pc[w] = "wait"
    /\ IF tx[w] = "dropped" THEN NoFault ELSE Fault
    /\ Answer(w, "indeterminate")
    /\ UNCHANGED <<wiring, foreign>>

(* assertIdentityKeyHasPurpose: of the operator after deploy, of the holder *)
(* after grant.                                                             *)
AssertKey(w) ==
    /\ pc[w] = "assert"
    /\ LET fact == Fact(w) /\ (step[w] = "deploy" => HolderOf[w] \notin foreign) IN
        \/ ReadsYes(fact) /\ Answer(w, "confirmed")
        \/ ReadsNo(fact) /\ Answer(w, "lacking")
        \/ ReadFails /\ Answer(w, "unverified")
    /\ UNCHANGED <<wiring, foreign>>

-----------------------------------------------------------------------------
(* The worker *)

(* Calls the write of its step, again if it has to; attachClaim has no      *)
(* probe.                                                                   *)
Call(w) ==
    /\ pc[w] = "idle"
    /\ step[w] # "done"
    /\ pc' = [pc EXCEPT ![w] = IF step[w] = "attach" THEN "execute" ELSE "probe"]
    /\ verdict' = [verdict EXCEPT ![w] = "none"]
    /\ UNCHANGED <<step, tx, chainState, wiring, foreign, faults>>

(* The answers on which the saga goes on.  A submitted grant is no proof of *)
(* the key, nor a registration that was sent one of the registration.       *)
Proceeds(op) ==
    CASE op = "trust"    -> {"noop", "ok"}
      [] op = "deploy"   -> {"already", "confirmed", "unverified"}
      [] op = "grant"    -> {"already", "confirmed"}
      [] op = "attach"   -> {"ok"}
      [] op = "register" -> {"already"}

Following(op) ==
    CASE op = "trust"    -> "deploy"
      [] op = "deploy"   -> "grant"
      [] op = "grant"    -> "attach"
      [] op = "attach"   -> "register"
      [] op = "register" -> "done"

GoesOn(w) ==
    /\ step' = [step EXCEPT ![w] = Following(step[w])]
    /\ verdict' = [verdict EXCEPT ![w] = "none"]
    /\ UNCHANGED <<pc, tx, chainState, wiring, foreign, faults>>

Advance(w) ==
    /\ pc[w] = "idle"
    /\ step[w] # "done"
    /\ verdict[w] \in Proceeds(step[w])
    /\ GoesOn(w)

(* Instead of calling again the worker reads the chain itself, with         *)
(* getFactoryIdentity, hasIdentityKeyPurpose or getOnchainId.               *)
Resume(w) ==
    /\ pc[w] = "idle"
    /\ step[w] \in {"deploy", "grant", "register"}
    /\ Fact(w)
    /\ GoesOn(w)

CallSteps(w) ==
    Probe(w) \/ Submit(w) \/ ExecutorThrows(w) \/ ExecutorReturns(w)
      \/ ReceiptArrives(w) \/ WaitEnds(w) \/ AssertKey(w)

Next ==
    \/ \E w \in Workers : CallSteps(w)
    \/ \E w \in Workers : Call(w) \/ Advance(w) \/ Resume(w)
    \/ \E w \in Workers : Mine(w) \/ Drop(w)
    \/ \E op \in Ops, h \in Holders : MineLoose(op, h)

(* A call in progress goes on (every read and wait of it is bounded); the   *)
(* chain mines what is not lost; a worker goes on when it may and otherwise *)
(* calls again.                                                             *)
Fairness ==
    /\ \A w \in Workers : WF_vars(CallSteps(w)) /\ WF_vars(Mine(w)) /\ WF_vars(Call(w))
    /\ \A w \in Workers : SF_vars(Advance(w))
    /\ \A op \in Ops, h \in Holders : WF_vars(MineLoose(op, h))

SafetySpec == Init /\ [][Next]_vars

Spec == SafetySpec /\ Fairness

-----------------------------------------------------------------------------
(* Properties *)

(* The variables keep their types, and only a call that has submitted has a *)
(* transaction.                                                             *)
TypeOK ==
    /\ step \in [Workers -> Ops \union {"done"}]
    /\ pc \in [Workers -> {"idle", "probe", "execute", "executing", "wait", "assert"}]
    /\ tx \in [Workers -> {"none", "pending", "success", "reverted", "dropped"}]
    /\ verdict \in [Workers -> Verdicts \union {"none"}]
    /\ wiring \in Wirings
    /\ facts \subseteq Ops \X Holders
    /\ foreign \subseteq Holders
    /\ loose \subseteq Ops \X Holders
    /\ faults \in 0 .. MaxFaults
    /\ \A w \in Workers : tx[w] # "none" => pc[w] \in {"executing", "wait", "assert"}

(* A call that reports success is right about the chain, whoever else is at *)
(* work on the holder and however its reads are answered: a confirmed       *)
(* deployment exists and its operator manages it, a confirmed grant gave    *)
(* the holder the key; and where an error says an identity exists or is     *)
(* likely to, it does.                                                      *)
SuccessIsOnChain ==
    \A w \in Workers :
        /\ verdict[w] \in {"confirmed", "unresolved"} => Fact(w)
        /\ verdict[w] = "unverified" /\ step[w] = "deploy" => Fact(w)
        /\ verdict[w] = "confirmed" => HolderOf[w] \notin foreign

(* "Already registered" and the no-op are never a guess: what was not       *)
(* submitted again is on chain.                                             *)
AlreadyIsOnChain == \A w \in Workers : verdict[w] \in {"already", "noop"} => Fact(w)

(* A holder never has a claim on an identity it cannot manage: if           *)
(* onboarding breaks off after a claim was attached, the holder can rescue  *)
(* its own identity.                                                        *)
RescueKeyFirst ==
    \A h \in Holders : <<"attach", h>> \in facts => <<"grant", h>> \in facts

(* A deployment that lands after its call gave up, or that another worker   *)
(* made first, orphans nobody: re-driving the writes completes the saga,    *)
(* unless another operator manages the identity or the completion signals   *)
(* are wired in disagreement.                                               *)
Onboarded ==
    \A w \in Workers :
        (HolderOf[w] \notin foreign /\ Resolve(wiring) # "disagreement") ~> step[w] = "done"

=============================================================================
