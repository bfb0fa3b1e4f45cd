------------------------ MODULE MidnightExecutionProofs ------------------------
(***************************************************************************)
(* Proofs about MidnightExecution: a secret does not outlive its call.      *)
(* Writes share the private state, so of each call IInv says what it may    *)
(* leave to the others (WriteFits): the private state it has is what was    *)
(* there at first but for its own name.                                     *)
(***************************************************************************)
EXTENDS MidnightExecution, TLAPS

WriteCalls ==
    [pc : {"idle", "formatted", "wallet", "providers", "circuit", "submit", "proved", "persist", "done"},
     own : Artifacts, runs : Artifacts, name : Names, given : BOOLEAN, state : SUBSET Names,
     answer : {NoOne, "hash", "local", "thrown"}]
QueryCalls ==
    [pc : {"idle", "import", "fetch", "decode", "done"}, module : OrNone(Contracts),
     answer : {NoOne, "value", "thrown"}]

\* A write has no secret but its own that was not persisted at first, and its own only
\* if it was given one.
WriteFits(call, first) ==
    /\ call.state \ {call.name} \subseteq first
    /\ call.pc \in {"idle", "formatted", "wallet", "providers", "circuit"} => call.state = {}
    /\ call.name \in call.state => call.given

Kept == store \subseteq legacy
WritesFit == \A w \in Writes : WriteFits(write[w], legacy)

IInv == TypeOK /\ Kept /\ WritesFit

LEMMA Types ==
    TypeOK <=> /\ artifacts \in Artifacts
               /\ keys \in OrNone(Contracts)
               /\ loading \subseteq Contracts /\ loads \in 0 .. MaxLoads
               /\ store \subseteq Names /\ legacy \subseteq Names
               /\ write \in [Writes -> WriteCalls]
               /\ query \in [Queries -> QueryCalls]
BY DEF TypeOK, WriteCalls, QueryCalls

LEMMA InitHolds == ASSUME MaxLoads \in Nat, Names # {}, Init PROVE IInv
<1>1. Nothing \in Artifacts /\ NoOne \in OrNone(Contracts)
  BY DEF Nothing, Artifacts, OrNone
<1>2. (CHOOSE name \in Names : TRUE) \in Names
  OBVIOUS
<1>3. PICK n0 \in Names : n0 = CHOOSE name \in Names : TRUE
  BY <1>2
<1>4. write \in [Writes -> WriteCalls]
  <2>1. [pc |-> "idle", own |-> Nothing, runs |-> Nothing, name |-> n0, given |-> FALSE,
         state |-> {}, answer |-> NoOne] \in WriteCalls
    BY <1>1 DEF WriteCalls
  <2> QED BY <1>3, <2>1 DEF Init
<1>5. query \in [Queries -> QueryCalls]
  BY <1>1 DEF Init, QueryCalls
<1>6. TypeOK
  <2>1. 0 \in 0 .. MaxLoads
    OBVIOUS
  <2> QED BY <1>1, <1>4, <1>5, <2>1, Types DEF Init
<1>7. WritesFit
  <2>1. \A w \in Writes : write[w].pc = "idle" /\ write[w].state = {}
    BY DEF Init
  <2> QED BY <2>1 DEF WritesFit, WriteFits
<1> QED BY <1>6, <1>7 DEF Init, IInv, Kept

-----------------------------------------------------------------------------
(* Loads *)

LEMMA LoadContractStep == ASSUME MaxLoads \in Nat, IInv, NEW c \in Contracts, LoadContract(c) PROVE IInv'
<1>1. UNCHANGED <<artifacts, keys, store, legacy, write, query>>
  BY DEF LoadContract, persisted
<1>2. loading' \subseteq Contracts /\ loads' \in 0 .. MaxLoads
  BY DEF IInv, TypeOK, LoadContract
<1> QED BY <1>1, <1>2, Types DEF IInv, TypeOK, Kept, WritesFit

LEMMA LoadEndsStep == ASSUME IInv, NEW c \in Contracts, LoadEnds(c) PROVE IInv'
<1>1. UNCHANGED <<loads, store, legacy, write, query>> /\ loading' \subseteq Contracts
  BY Types DEF LoadEnds, persisted, IInv
<1>2. keys' \in OrNone(Contracts)
  BY Types DEF IInv, LoadEnds, ArchiveLoaded, ObjectLoaded, OrNone
<1>3. artifacts' \in Artifacts
  <2>1. \A module, witness \in {NoOne, c} :
          [of |-> c, module |-> module, witness |-> witness] \in Artifacts
    BY DEF Artifacts, OrNone
  <2> QED BY <2>1, Types DEF IInv, LoadEnds, ArchiveLoaded, ObjectLoaded, SetArtifacts
<1>4. TypeOK'
  BY <1>1, <1>2, <1>3 DEF IInv, TypeOK, WriteCalls, QueryCalls
<1> QED BY <1>1, <1>3, <1>4 DEF IInv, Kept, WritesFit

-----------------------------------------------------------------------------
(* Writes and queries *)

\* A step of a write, whatever it makes of the private state.
LEMMA WriteGoes ==
    ASSUME IInv, NEW w \in Writes, NEW call \in WriteCalls, WriteFits(call, legacy), Goes(w, call),
           UNCHANGED <<loaded, legacy, query>>, store' \subseteq legacy
    PROVE  IInv'
<1>1. write \in [Writes -> WriteCalls] /\ legacy \subseteq Names
  BY Types DEF IInv
<1>2. write' \in [Writes -> WriteCalls]
      /\ \A v \in Writes : write'[v] = (IF v = w THEN call ELSE write[v])
  BY <1>1 DEF Goes
<1>3. TypeOK'
  BY <1>1, <1>2 DEF IInv, TypeOK, WriteCalls, QueryCalls, loaded
<1>4. WritesFit'
  BY <1>2 DEF IInv, WritesFit
<1> QED BY <1>3, <1>4 DEF IInv, Kept

LEMMA WriteThrows ==
    ASSUME IInv, NEW w \in Writes, Threw(w), UNCHANGED <<loaded, legacy, query>>, UNCHANGED store
    PROVE  IInv'
<1>1. write[w] \in WriteCalls /\ WriteFits(write[w], legacy)
  BY Types DEF IInv, WritesFit
<1>2. PICK call : call = [write[w] EXCEPT !.pc = "done", !.answer = "thrown"]
  OBVIOUS
<1>3. /\ call \in WriteCalls /\ call.pc = "done" /\ call.state = write[w].state
      /\ call.name = write[w].name /\ call.given = write[w].given
  BY <1>1, <1>2 DEF WriteCalls
<1>4. WriteFits(call, legacy)
  BY <1>1, <1>3 DEF WriteFits
<1> QED BY <1>2, <1>3, <1>4, WriteGoes DEF Threw, IInv, Kept

\* A call that goes on with what it has.
LEMMA WriteGoesOn ==
    ASSUME IInv, NEW w \in Writes, NEW pc \in {"providers", "circuit", "proved"},
           pc = "proved" => write[w].pc = "submit", pc = "circuit" => write[w].pc = "providers",
           pc = "providers" => write[w].pc = "wallet",
           Goes(w, [write[w] EXCEPT !.pc = pc]), UNCHANGED <<loaded, persisted, query>>
    PROVE  IInv'
<1>1. write[w] \in WriteCalls /\ WriteFits(write[w], legacy)
  BY Types DEF IInv, WritesFit
<1>2. PICK call : call = [write[w] EXCEPT !.pc = pc]
  OBVIOUS
<1>3. /\ call \in WriteCalls /\ call.pc = pc /\ call.state = write[w].state
      /\ call.name = write[w].name /\ call.given = write[w].given
  BY <1>1, <1>2 DEF WriteCalls
<1>4. WriteFits(call, legacy)
  BY <1>1, <1>3 DEF WriteFits
<1> QED BY <1>2, <1>3, <1>4, WriteGoes DEF IInv, Kept, persisted

LEMMA FormatStep == ASSUME IInv, NEW w \in Writes, Format(w) PROVE IInv'
<1>1. /\ write[w] \in WriteCalls /\ WriteFits(write[w], legacy) /\ write[w].pc = "idle"
      /\ artifacts \in Artifacts
  BY Types DEF IInv, WritesFit, Format
<1>0. PICK name \in Names, given \in BOOLEAN :
        Goes(w, [write[w] EXCEPT !.pc = "formatted", !.own = artifacts, !.name = name, !.given = given])
  BY DEF Format
<1>2. PICK call : call = [write[w] EXCEPT !.pc = "formatted", !.own = artifacts, !.name = name, !.given = given]
  OBVIOUS
<1>3. /\ call \in WriteCalls /\ call.pc = "formatted" /\ call.state = write[w].state
  BY <1>1, <1>2 DEF WriteCalls
<1>4. WriteFits(call, legacy)
  BY <1>1, <1>3 DEF WriteFits
<1> QED BY <1>0, <1>2, <1>3, <1>4, WriteGoes DEF Format, WriteSteps, IInv, Kept, persisted

LEMMA SignStep == ASSUME IInv, NEW w \in Writes, Sign(w) PROVE IInv'
<1>1. /\ write[w] \in WriteCalls /\ WriteFits(write[w], legacy) /\ write[w].pc = "formatted"
      /\ artifacts \in Artifacts /\ write[w].own \in Artifacts
      /\ UNCHANGED <<loaded, legacy, query>> /\ UNCHANGED store /\ store \subseteq legacy
  BY Types DEF IInv, WritesFit, Sign, WriteSteps, persisted, Kept, WriteCalls
<1>2. CASE Threw(w)
  BY <1>1, <1>2, WriteThrows
<1>3. CASE Goes(w, [write[w] EXCEPT !.pc = "done", !.runs = artifacts, !.answer = "local"])
  <2>1. PICK call : call = [write[w] EXCEPT !.pc = "done", !.runs = artifacts, !.answer = "local"]
    OBVIOUS
  <2>2. call \in WriteCalls /\ call.pc = "done" /\ call.state = write[w].state
    BY <1>1, <2>1 DEF WriteCalls
  <2>3. WriteFits(call, legacy)
    BY <1>1, <2>2 DEF WriteFits
  <2> QED BY <1>1, <1>3, <2>1, <2>2, <2>3, WriteGoes
<1>4. ASSUME NEW merged, merged = MergeArtifacts(write[w].own, artifacts),
             Goes(w, [write[w] EXCEPT !.pc = "wallet", !.runs = merged])
      PROVE  IInv'
  <2>1. PICK call : call = [write[w] EXCEPT !.pc = "wallet", !.runs = merged]
    OBVIOUS
  <2>2. merged \in Artifacts
    BY <1>1, <1>4 DEF MergeArtifacts, Or, Artifacts
  <2>3. /\ call \in WriteCalls /\ call.pc = "wallet" /\ call.state = write[w].state
    BY <1>1, <2>1, <2>2 DEF WriteCalls
  <2>4. WriteFits(call, legacy)
    BY <1>1, <2>2, <2>3 DEF WriteFits
  <2> QED BY <1>1, <1>4, <2>1, <2>3, <2>4, WriteGoes
<1> QED BY <1>2, <1>3, <1>4 DEF Sign, ExecuteLocally

LEMMA CallCircuitStep == ASSUME IInv, NEW w \in Writes, CallCircuit(w) PROVE IInv'
<1>1. /\ write[w] \in WriteCalls /\ WriteFits(write[w], legacy) /\ write[w].pc = "circuit"
      /\ store \subseteq legacy /\ legacy \subseteq Names /\ write[w].name \in Names
  BY Types DEF IInv, WritesFit, CallCircuit, Kept, WriteCalls
<1>0. PICK base \in {store, {}} :
        Goes(w, [write[w] EXCEPT !.pc = "submit", !.state = OverlayGet(write[w], base)])
  BY DEF CallCircuit
<1>2. PICK call : call = [write[w] EXCEPT !.pc = "submit", !.state = OverlayGet(write[w], base)]
  OBVIOUS
<1>3. /\ OverlayGet(write[w], base) \ {write[w].name} \subseteq legacy
      /\ write[w].name \in OverlayGet(write[w], base) => write[w].given
      /\ OverlayGet(write[w], base) \subseteq Names
  BY <1>1 DEF OverlayGet
<1>4. /\ call \in WriteCalls /\ call.pc = "submit" /\ call.state = OverlayGet(write[w], base)
      /\ call.name = write[w].name /\ call.given = write[w].given
  BY <1>1, <1>2, <1>3 DEF WriteCalls
<1>5. WriteFits(call, legacy)
  BY <1>1, <1>3, <1>4 DEF WriteFits
<1> QED BY <1>0, <1>1, <1>2, <1>4, <1>5, WriteGoes DEF CallCircuit, WriteSteps, persisted

\* What is persisted lacks the call's secret, so it was there at first.
LEMMA PersistSteps == ASSUME IInv, NEW w \in Writes, SdkPersists(w) \/ Persist(w) PROVE IInv'
<1>1. /\ write[w] \in WriteCalls /\ WriteFits(write[w], legacy) /\ write[w].pc \in {"proved", "persist"}
      /\ UNCHANGED <<loaded, legacy, query>> /\ store \subseteq legacy
  BY Types DEF IInv, WritesFit, SdkPersists, Persist, Kept
<1>2. store' \subseteq legacy
  BY <1>1 DEF SdkPersists, Persist, OverlaySet, WriteFits
<1>3. CASE Threw(w) /\ UNCHANGED store
  BY <1>1, <1>3, WriteThrows
<1>4. CASE Goes(w, [write[w] EXCEPT !.pc = "persist"]) /\ write[w].pc = "proved"
  <2>1. PICK call : call = [write[w] EXCEPT !.pc = "persist"]
    OBVIOUS
  <2>2. /\ call \in WriteCalls /\ call.pc = "persist" /\ call.state = write[w].state
        /\ call.name = write[w].name /\ call.given = write[w].given
    BY <1>1, <2>1 DEF WriteCalls
  <2>3. WriteFits(call, legacy)
    BY <1>1, <1>4, <2>2 DEF WriteFits
  <2> QED BY <1>1, <1>2, <1>4, <2>1, <2>2, <2>3, WriteGoes
<1>5. CASE Goes(w, [write[w] EXCEPT !.pc = "done", !.answer = "hash"])
  <2>1. PICK call : call = [write[w] EXCEPT !.pc = "done", !.answer = "hash"]
    OBVIOUS
  <2>2. /\ call \in WriteCalls /\ call.pc = "done" /\ call.state = write[w].state
        /\ call.name = write[w].name /\ call.given = write[w].given
    BY <1>1, <2>1 DEF WriteCalls
  <2>3. WriteFits(call, legacy)
    BY <1>1, <2>2 DEF WriteFits
  <2> QED BY <1>1, <1>2, <1>5, <2>1, <2>2, <2>3, WriteGoes
<1> QED BY <1>3, <1>4, <1>5 DEF SdkPersists, Persist

LEMMA WritingStep == ASSUME IInv, NEW w \in Writes, Writing(w) PROVE IInv'
<1>1. CASE WalletAnswers(w)
  BY <1>1, WriteThrows, WriteGoesOn DEF WalletAnswers, WriteSteps, persisted
<1>2. CASE CreateTransactionProviders(w)
  BY <1>2, WriteThrows, WriteGoesOn DEF CreateTransactionProviders, WriteSteps, persisted
<1>3. CASE SubmitCallTx(w)
  BY <1>3, WriteThrows, WriteGoesOn DEF SubmitCallTx, WriteSteps, persisted
<1> QED BY <1>1, <1>2, <1>3, FormatStep, SignStep, CallCircuitStep, PersistSteps DEF Writing

\* A step of a query.
LEMMA QueryGoesOn ==
    ASSUME IInv, NEW q \in Queries, NEW call \in QueryCalls, QueryGoes(q, call), QuerySteps
    PROVE  IInv'
<1>1. query' \in [Queries -> QueryCalls]
  BY Types DEF IInv, QueryGoes
<1>2. TypeOK'
  BY <1>1 DEF IInv, TypeOK, WriteCalls, QueryCalls, QuerySteps, loaded, persisted
<1> QED BY <1>2 DEF IInv, Kept, WritesFit, QuerySteps, persisted

LEMMA QueryingStep == ASSUME IInv, NEW q \in Queries, Querying(q) PROVE IInv'
<1>1. query[q] \in QueryCalls /\ artifacts.module \in OrNone(Contracts) /\ QuerySteps
  BY Types DEF IInv, Artifacts, Querying, Ask, TakeModule, FetchContractState, Decode
<1>2. ASSUME NEW call \in {[query[q] EXCEPT !.pc = "done", !.answer = "thrown"],
                          [query[q] EXCEPT !.pc = "import"],
                          [query[q] EXCEPT !.pc = "fetch", !.module = artifacts.module],
                          [query[q] EXCEPT !.pc = "decode"],
                          [query[q] EXCEPT !.pc = "done", !.answer = "value"]},
             QueryGoes(q, call)
      PROVE  IInv'
  <2>1. call \in QueryCalls
    BY <1>1, <1>2 DEF QueryCalls
  <2> QED BY <1>1, <1>2, <2>1, QueryGoesOn
<1> QED BY <1>2 DEF Querying, Ask, TakeModule, FetchContractState, Decode, QueryThrew

-----------------------------------------------------------------------------
(* The theorems *)

LEMMA NextHolds == ASSUME MaxLoads \in Nat, IInv, [Next]_vars PROVE IInv'
<1>1. CASE UNCHANGED vars
  BY <1>1 DEF vars, loaded, persisted, IInv, TypeOK, Kept, WritesFit
<1> QED BY <1>1, LoadContractStep, LoadEndsStep, WritingStep, QueryingStep DEF Next

LEMMA InvariantImplies == ASSUME IInv PROVE SecretOnlyInCall
BY DEF IInv, Kept, WritesFit, WriteFits, SecretOnlyInCall

LEMMA Invariance == ASSUME MaxLoads \in Nat, Names # {} PROVE Spec => []IInv
<1>1. Init => IInv
  BY InitHolds
<1>2. IInv /\ [Next]_vars => IInv'
  BY NextHolds
<1> QED BY <1>1, <1>2, PTL DEF Spec

(* No identity secret is persisted that was not persisted at first, and a
   circuit sees one under the name of its call only if its call was given it,
   however many calls of however many names run at once (private-state overlay
   of transaction/).                                                        *)
THEOREM SecretsStayInCalls ==
    ASSUME MaxLoads \in Nat, Names # {} PROVE Spec => []SecretOnlyInCall
<1>1. IInv => SecretOnlyInCall
  BY InvariantImplies
<1> QED BY <1>1, Invariance, PTL
===============================================================================
