---------------------- MODULE IdentityOnboardingProofs ----------------------
(***************************************************************************)
(* That the answers of the identity writes can be believed, for any number  *)
(* of workers, holders and faults: SafetySpec satisfies TypeOK,             *)
(* SuccessIsOnChain, AlreadyIsOnChain and RescueKeyFirst.                   *)
(*                                                                         *)
(* Facts on chain are never undone, so it is enough that each step that     *)
(* gives an answer has the fact before it.  What the answers rest on - a    *)
(* receipt of success, the place a call has got to, the step a worker has   *)
(* reached, an attachClaim in flight - is the inductive invariant.          *)
(***************************************************************************)
EXTENDS IdentityOnboarding, TLAPS

(* A receipt of success, and the assert that only follows one in deploy.    *)
ReceiptsTrue ==
    \A w \in Workers :
        /\ tx[w] = "success" => Fact(w)
        /\ pc[w] = "assert" /\ step[w] = "deploy" => Fact(w)

(* Only a grant that is proved to be on chain leads to attachClaim, and     *)
(* nobody grants a key on an identity another operator manages.             *)
PastGrant ==
    /\ \A h \in Holders : <<"grant", h>> \in facts => h \notin foreign
    /\ \A w \in Workers :
        step[w] \in {"attach", "register", "done"} => <<"grant", HolderOf[w]>> \in facts
    /\ \A h \in Holders : <<"attach", h>> \in loose => <<"grant", h>> \in facts

(* Only deploy waits, only deploy and grant assert.                         *)
Places ==
    \A w \in Workers :
        /\ pc[w] \in {"wait", "assert"} => step[w] \in {"deploy", "grant"}
        /\ pc[w] = "wait" => step[w] = "deploy"
        /\ verdict[w] # "none" => pc[w] = "idle" /\ step[w] # "done"
        /\ pc[w] # "idle" => step[w] # "done"

IInv ==
    /\ TypeOK
    /\ SuccessIsOnChain
    /\ AlreadyIsOnChain
    /\ RescueKeyFirst
    /\ ReceiptsTrue
    /\ PastGrant
    /\ Places

(* The initial states, in which no claim and no transaction exists.         *)
LEMMA InitIInv == Init => IInv
<1> SUFFICES ASSUME Init PROVE IInv
    OBVIOUS
<1> USE DEF Init
<1>1. TypeOK
    <2>1. facts \subseteq Ops \X Holders
        BY DEF Ops
    <2>2. faults \in 0 .. MaxFaults
        BY FaultAssumption
    <2>3. step \in [Workers -> Ops \union {"done"}]
        BY DEF Ops
    <2> QED
        BY <2>1, <2>2, <2>3 DEF TypeOK
<1>2. SuccessIsOnChain /\ AlreadyIsOnChain
    BY DEF SuccessIsOnChain, AlreadyIsOnChain
<1>3. RescueKeyFirst /\ PastGrant
    BY DEF RescueKeyFirst, PastGrant
<1>4. ReceiptsTrue /\ Places
    BY DEF ReceiptsTrue, Places
<1> QED
    BY <1>1, <1>2, <1>3, <1>4 DEF IInv

(* Whether or not a step is charged a fault, the count stays in its bound.  *)
LEMMA FaultsBounded ==
    ASSUME TypeOK, Fault \/ NoFault
    PROVE  faults' \in 0 .. MaxFaults
BY FaultAssumption DEF TypeOK, Fault, NoFault

(* An answer that is true of the chain preserves the invariant: the         *)
(* transaction it leaves in flight is an attachClaim only where the step    *)
(* is past the grant.                                                       *)
LEMMA AnswerIInv ==
    ASSUME IInv, NEW w \in Workers, NEW v \in Verdicts,
           Answer(w, v), UNCHANGED <<wiring, foreign>>, Fault \/ NoFault,
           pc[w] # "idle",
           v \in {"confirmed", "unresolved", "already", "noop"} => Fact(w),
           v = "unverified" /\ step[w] = "deploy" => Fact(w),
           v = "confirmed" => HolderOf[w] \notin foreign
    PROVE  IInv'
<1> USE DEF IInv, Answer
<1>1. step[w] \in Ops /\ HolderOf[w] \in Holders
    BY HolderAssumption DEF TypeOK, Places
<1>2. TypeOK'
    BY <1>1, FaultsBounded DEF TypeOK
<1>3. SuccessIsOnChain'
    BY DEF SuccessIsOnChain, TypeOK, Fact
<1>4. AlreadyIsOnChain'
    BY DEF AlreadyIsOnChain, TypeOK, Fact
<1>5. RescueKeyFirst'
    BY DEF RescueKeyFirst
<1>6. ReceiptsTrue'
    BY DEF ReceiptsTrue, TypeOK, Fact
<1>7. PastGrant'
    BY <1>1 DEF PastGrant, TypeOK
<1>8. Places'
    BY <1>1 DEF Places, TypeOK, Ops
<1> QED
    BY <1>2, <1>3, <1>4, <1>5, <1>6, <1>7, <1>8

(* A call that goes on keeps the invariant if it goes to a place its step   *)
(* has, with the fact in place when deploy gets to its assert.              *)
LEMMA GoesToIInv ==
    ASSUME IInv, NEW w \in Workers, NEW place \in {"execute", "wait", "assert"},
           GoesTo(w, place), UNCHANGED <<wiring, foreign>>, Fault \/ NoFault,
           pc[w] # "idle",
           place = "execute" => pc[w] = "probe",
           place = "wait" => pc[w] = "executing" /\ step[w] = "deploy",
           place = "assert" => pc[w] \in {"executing", "wait"} /\ step[w] \in {"deploy", "grant"},
           place = "assert" /\ step[w] = "deploy" => Fact(w)
    PROVE  IInv'
<1> USE DEF IInv, GoesTo, chainState
<1>1. TypeOK'
    BY FaultsBounded DEF TypeOK
<1>2. SuccessIsOnChain' /\ AlreadyIsOnChain'
    BY DEF SuccessIsOnChain, AlreadyIsOnChain, Fact
<1>3. RescueKeyFirst' /\ PastGrant'
    BY DEF RescueKeyFirst, PastGrant
<1>4. ReceiptsTrue'
    BY DEF ReceiptsTrue, TypeOK, Fact
<1>5. Places'
    BY DEF Places, TypeOK
<1> QED
    BY <1>1, <1>2, <1>3, <1>4, <1>5

(* Every step of a call answers or goes on, with what the two lemmas ask.   *)
LEMMA CallIInv ==
    ASSUME IInv, NEW w \in Workers, CallSteps(w)
    PROVE  IInv'
<1> USE DEF IInv
<1>1. CASE Probe(w)
    <2> USE <1>1 DEF Probe, ReadsYes, ReadsNo, ReadFails
    <2>1. CASE ReadsYes(Fact(w)) /\ Answer(w, IF step[w] = "trust" THEN "noop" ELSE "already")
        BY <2>1, AnswerIInv DEF Verdicts
    <2>2. CASE ReadsNo(Fact(w)) /\ GoesTo(w, "execute")
        BY <2>2, GoesToIInv
    <2>3. CASE ReadFails /\ step[w] = "trust" /\ GoesTo(w, "execute")
        BY <2>3, GoesToIInv
    <2>4. CASE ReadFails /\ Answer(w, "ambiguous")
        BY <2>4, AnswerIInv DEF Verdicts
    <2> QED
        BY <2>1, <2>2, <2>3, <2>4
<1>2. CASE Submit(w)
    <2> USE <1>2 DEF Submit, chainState
    <2>1. TypeOK'
        BY DEF TypeOK
    <2>2. SuccessIsOnChain' /\ AlreadyIsOnChain'
        BY DEF SuccessIsOnChain, AlreadyIsOnChain, Fact
    <2>3. RescueKeyFirst' /\ PastGrant'
        BY DEF RescueKeyFirst, PastGrant
    <2>4. ReceiptsTrue'
        BY DEF ReceiptsTrue, TypeOK, Fact
    <2>5. Places'
        BY DEF Places, TypeOK
    <2> QED
        BY <2>1, <2>2, <2>3, <2>4, <2>5
<1>3. CASE ExecutorThrows(w)
    BY <1>3, AnswerIInv DEF ExecutorThrows, Verdicts
<1>4. CASE ExecutorReturns(w)
    <2> USE <1>4 DEF ExecutorReturns
    <2>1. CASE \E v \in {"disagreement", "ok", "submitted"} : Answer(w, v)
        BY <2>1, AnswerIInv DEF Verdicts, NoFault
    <2>2. CASE step[w] = "deploy" /\ GoesTo(w, "wait")
        BY <2>2, GoesToIInv DEF NoFault
    <2>3. CASE step[w] = "grant" /\ GoesTo(w, "assert")
        BY <2>3, GoesToIInv DEF NoFault
    <2>4. Resolve(wiring) \in {"disagreement", "submitted", "confirmed"}
        BY WiringAssumption DEF TypeOK, Resolve, Signal
    <2>5. step[w] \in Ops
        BY DEF TypeOK, Places
    <2> QED
        BY <2>1, <2>2, <2>3, <2>4, <2>5 DEF Ops
<1>5. CASE ReceiptArrives(w)
    <2> USE <1>5 DEF ReceiptArrives
    <2>1. CASE Answer(w, "reverted") /\ NoFault
        BY <2>1, AnswerIInv DEF Verdicts
    <2>2. CASE tx[w] = "success" /\ GoesTo(w, "assert") /\ NoFault
        BY <2>2, GoesToIInv DEF ReceiptsTrue, Places
    <2>3. CASE tx[w] = "success" /\ Answer(w, "unresolved") /\ Fault
        BY <2>3, AnswerIInv DEF Verdicts, ReceiptsTrue
    <2> QED
        BY <2>1, <2>2, <2>3
<1>6. CASE WaitEnds(w)
    BY <1>6, AnswerIInv DEF WaitEnds, Verdicts
<1>7. CASE AssertKey(w)
    <2> USE <1>7 DEF AssertKey, ReadsYes, ReadsNo, ReadFails
    <2> DEFINE fact == Fact(w) /\ (step[w] = "deploy" => HolderOf[w] \notin foreign)
    <2>1. CASE ReadsYes(fact) /\ Answer(w, "confirmed")
        <3>1. HolderOf[w] \notin foreign
            BY <2>1, HolderAssumption DEF Places, PastGrant, Fact
        <3> QED
            BY <2>1, <3>1, AnswerIInv DEF Verdicts
    <2>2. CASE ReadsNo(fact) /\ Answer(w, "lacking")
        BY <2>2, AnswerIInv DEF Verdicts
    <2>3. CASE ReadFails /\ Answer(w, "unverified")
        BY <2>3, AnswerIInv DEF Verdicts, ReceiptsTrue
    <2> QED
        BY <2>1, <2>2, <2>3
<1> QED
    BY <1>1, <1>2, <1>3, <1>4, <1>5, <1>6, <1>7 DEF CallSteps

(* The worker leaves a step only with the fact of the step in hand.         *)
LEMMA WorkerIInv ==
    ASSUME IInv, NEW w \in Workers, Call(w) \/ Advance(w) \/ Resume(w)
    PROVE  IInv'
<1> USE DEF IInv
<1>1. CASE Call(w)
    <2> USE <1>1 DEF Call, chainState
    <2>1. TypeOK'
        BY DEF TypeOK
    <2>2. SuccessIsOnChain' /\ AlreadyIsOnChain'
        BY DEF SuccessIsOnChain, AlreadyIsOnChain, Fact, TypeOK
    <2>3. RescueKeyFirst' /\ PastGrant'
        BY DEF RescueKeyFirst, PastGrant
    <2>4. ReceiptsTrue'
        BY DEF ReceiptsTrue, TypeOK, Fact
    <2>5. Places'
        BY DEF Places, TypeOK
    <2> QED
        BY <2>1, <2>2, <2>3, <2>4, <2>5
<1>2. CASE Advance(w) \/ Resume(w)
    <2> USE DEF GoesOn, chainState
    <2>1. GoesOn(w) /\ pc[w] = "idle" /\ step[w] \in Ops
        BY <1>2 DEF Advance, Resume, TypeOK, Ops
    <2>2. step[w] = "grant" => Fact(w)
        BY <1>2 DEF Advance, Resume, Proceeds, SuccessIsOnChain, AlreadyIsOnChain
    <2>3. Following(step[w]) \in Ops \union {"done"}
        BY <2>1 DEF Following, Ops
    <2>4. TypeOK'
        BY <2>1, <2>3 DEF TypeOK
    <2>5. tx[w] = "none"
        BY <2>1 DEF TypeOK
    <2>6. SuccessIsOnChain' /\ AlreadyIsOnChain'
        BY <2>1 DEF SuccessIsOnChain, AlreadyIsOnChain, Fact, TypeOK
    <2>7. RescueKeyFirst'
        BY <2>1 DEF RescueKeyFirst
    <2>8. ReceiptsTrue'
        BY <2>1, <2>5 DEF ReceiptsTrue, TypeOK, Fact
    <2>9. PastGrant'
        <3>1. Following(step[w]) \in {"attach", "register", "done"}
                => step[w] \in {"grant", "attach", "register"}
            BY <2>1 DEF Following, Ops
        <3>2. step[w] \in {"grant", "attach", "register"} => <<"grant", HolderOf[w]>> \in facts
            BY <2>2 DEF PastGrant, Fact
        <3> QED
            BY <2>1, <3>1, <3>2 DEF PastGrant, TypeOK
    <2>10. Places'
        BY <2>1 DEF Places, TypeOK
    <2> QED
        BY <2>4, <2>6, <2>7, <2>8, <2>9, <2>10
<1> QED
    BY <1>1, <1>2

(* More facts on chain only make more answers true; the chain accepts a     *)
(* grant only from the identity's own operator.                             *)
LEMMA MoreFacts ==
    ASSUME IInv, NEW op \in Ops, NEW h \in Holders, Accepts(op, h),
           op = "attach" => <<"grant", h>> \in facts,
           facts' = facts \union {<<op, h>>},
           UNCHANGED <<step, pc, verdict, wiring, foreign>>,
           loose' \subseteq loose
    PROVE  SuccessIsOnChain' /\ AlreadyIsOnChain' /\ RescueKeyFirst' /\ PastGrant' /\ Places'
<1> USE DEF IInv
<1>1. SuccessIsOnChain' /\ AlreadyIsOnChain'
    BY DEF SuccessIsOnChain, AlreadyIsOnChain, Fact
<1>2. RescueKeyFirst'
    BY DEF RescueKeyFirst
<1>3. PastGrant'
    BY DEF PastGrant, Accepts
<1>4. Places'
    BY DEF Places
<1> QED
    BY <1>1, <1>2, <1>3, <1>4

(* A transaction is mined, reverted or lost.                                *)
LEMMA MiningIInv ==
    ASSUME IInv,
           \/ \E w \in Workers : Mine(w) \/ Drop(w)
           \/ \E op \in Ops, h \in Holders : MineLoose(op, h)
    PROVE  IInv'
<1> USE DEF IInv
<1>1. ASSUME NEW w \in Workers, Mine(w), facts' # facts
      PROVE  IInv'
    <2>1. /\ Accepts(step[w], HolderOf[w])
          /\ facts' = facts \union {<<step[w], HolderOf[w]>>}
          /\ tx' = [tx EXCEPT ![w] = "success"]
          /\ UNCHANGED <<step, pc, verdict, loose, wiring, foreign, faults>>
          /\ tx[w] = "pending"
        BY <1>1 DEF Mine, NoFault
    <2>2. step[w] \in Ops /\ HolderOf[w] \in Holders /\ pc[w] # "idle"
        BY <2>1, HolderAssumption DEF TypeOK, Places
    <2>3. TypeOK'
        BY <2>1, <2>2 DEF TypeOK
    <2>4. step[w] = "attach" => <<"grant", HolderOf[w]>> \in facts
        BY DEF PastGrant
    <2>5. SuccessIsOnChain' /\ AlreadyIsOnChain' /\ RescueKeyFirst' /\ PastGrant' /\ Places'
        BY <2>1, <2>2, <2>4, MoreFacts
    <2>6. ReceiptsTrue'
        BY <2>1 DEF ReceiptsTrue, TypeOK, Fact
    <2> QED
        BY <2>3, <2>5, <2>6
<1>2. ASSUME NEW w \in Workers, Mine(w) \/ Drop(w), facts' = facts
      PROVE  IInv'
    <2>1. /\ \E o \in {"success", "reverted", "dropped"} :
                tx' = [tx EXCEPT ![w] = o] /\ (o = "success" => Fact(w))
          /\ UNCHANGED <<step, pc, verdict, loose, wiring, foreign>>
          /\ tx[w] = "pending"
          /\ Fault \/ NoFault
        BY <1>2 DEF Mine, Drop, chainState, Fact
    <2>2. TypeOK'
        BY <1>2, <2>1, FaultsBounded DEF TypeOK
    <2>3. ReceiptsTrue'
        BY <1>2, <2>1 DEF ReceiptsTrue, TypeOK, Fact
    <2>4. SuccessIsOnChain' /\ AlreadyIsOnChain' /\ RescueKeyFirst' /\ PastGrant' /\ Places'
        BY <1>2, <2>1 DEF SuccessIsOnChain, AlreadyIsOnChain, RescueKeyFirst, PastGrant, Places, Fact
    <2> QED
        BY <2>2, <2>3, <2>4
<1>3. ASSUME NEW op \in Ops, NEW h \in Holders, MineLoose(op, h)
      PROVE  IInv'
    <2>1. /\ loose' \subseteq loose
          /\ UNCHANGED <<step, pc, tx, verdict, wiring, foreign>>
          /\ Fault \/ NoFault
          /\ op = "attach" => <<"grant", h>> \in facts
        BY <1>3 DEF MineLoose, callState, PastGrant
    <2>2. CASE Accepts(op, h) /\ facts' = facts \union {<<op, h>>}
        <3>1. SuccessIsOnChain' /\ AlreadyIsOnChain' /\ RescueKeyFirst' /\ PastGrant' /\ Places'
            BY <2>1, <2>2, MoreFacts
        <3>2. TypeOK'
            BY <2>1, <2>2, FaultsBounded DEF TypeOK
        <3>3. ReceiptsTrue'
            BY <2>1, <2>2 DEF ReceiptsTrue, Fact
        <3> QED
            BY <3>1, <3>2, <3>3
    <2>3. CASE facts' = facts
        <3>1. TypeOK'
            BY <2>1, <2>3, FaultsBounded DEF TypeOK
        <3>2. SuccessIsOnChain' /\ AlreadyIsOnChain' /\ RescueKeyFirst' /\ PastGrant' /\ Places'
            BY <2>1, <2>3
            DEF SuccessIsOnChain, AlreadyIsOnChain, RescueKeyFirst, PastGrant, Places, Fact
        <3>3. ReceiptsTrue'
            BY <2>1, <2>3 DEF ReceiptsTrue, Fact
        <3> QED
            BY <3>1, <3>2, <3>3
    <2> QED
        BY <1>3, <2>2, <2>3 DEF MineLoose
<1>4. ASSUME NEW w \in Workers, Drop(w)
      PROVE  facts' = facts
    BY <1>4 DEF Drop, chainState
<1> QED
    BY <1>1, <1>2, <1>3, <1>4

-----------------------------------------------------------------------------
(* IInv holds in every reachable state of the saga.                         *)
THEOREM Invariance == SafetySpec => []IInv
<1>1. IInv /\ [Next]_vars => IInv'
    <2> SUFFICES ASSUME IInv, [Next]_vars PROVE IInv'
        OBVIOUS
    <2>1. CASE Next
        BY <2>1, CallIInv, WorkerIInv, MiningIInv DEF Next
    <2>2. CASE UNCHANGED vars
        BY <2>2 DEF vars, callState, chainState, IInv, TypeOK, SuccessIsOnChain, AlreadyIsOnChain,
                    RescueKeyFirst, ReceiptsTrue, PastGrant, Places, Fact
    <2> QED
        BY <2>1, <2>2
<1> QED
    BY <1>1, InitIInv, PTL DEF SafetySpec

(* The variables keep their types, whatever the number of workers.          *)
THEOREM TypeCorrect == SafetySpec => []TypeOK
BY Invariance, PTL DEF IInv

(* deployOnchainId and grantHolderManagementKey never report a success, or  *)
(* an identity that is likely to exist, that the chain does not have.       *)
THEOREM SuccessIsTrue == SafetySpec => []SuccessIsOnChain
BY Invariance, PTL DEF IInv

(* IdentityAlreadyRegistered and the trusted-issuer no-op are never thrown  *)
(* or returned on a guess.                                                  *)
THEOREM AlreadyIsTrue == SafetySpec => []AlreadyIsOnChain
BY Invariance, PTL DEF IInv

(* grantHolderManagementKey comes before attachClaim on the chain as well   *)
(* as in the saga, in both completion modes.                                *)
THEOREM HoldersCanRescue == SafetySpec => []RescueKeyFirst
BY Invariance, PTL DEF IInv
=============================================================================
