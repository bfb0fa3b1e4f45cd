--------------------------- MODULE MidnightExecution ---------------------------
(***************************************************************************)
(* Writes and queries of the Midnight adapter (adapter-midnight/src): the   *)
(* artifacts of the contract loaded last, which all calls share            *)
(* (capabilities/artifact-context.ts, utils/artifacts.ts), the keys of the *)
(* circuits, which all contracts share (embedded-zk-config-provider.ts), a *)
(* write from its formatting to the SDK and back (transaction), with the   *)
(* private state under it, and a query (query).  Contracts are loaded      *)
(* while calls are under way.                                              *)
(*                                                                         *)
(* An artifact is named by the contract it is of, and the private state by *)
(* the properties it has that hold a secret.  All contracts have a circuit *)
(* of the name that is called.                                             *)
(***************************************************************************)
EXTENDS Naturals

CONSTANTS
    Contracts,
    Pure,           \* those whose circuit of the name is pure
    Writes,         \* calls of formatTransactionData and signAndBroadcast
    Queries,        \* calls of queryViewFunction
    Names,          \* names the secret may have in the private state
    MaxLoads        \* bound on the loads

VARIABLES
    artifacts,      \* the MidnightArtifactContext
    keys,           \* the contract whose keys the global ZK provider has
    loading,        \* contracts whose archives are being read
    loads,          \* loads begun
    store,          \* the secrets in the private state that is persisted
    legacy,         \* history: those there at first
    write, query    \* the calls

vars == <<artifacts, keys, loading, loads, store, legacy, write, query>>
loaded == <<artifacts, keys, loading, loads>>
persisted == <<store, legacy>>

NoOne == "none"
OrNone(S) == S \cup {NoOne}

Artifacts == [of : OrNone(Contracts), module : OrNone(Contracts), witness : OrNone(Contracts)]
Nothing == [of |-> NoOne, module |-> NoOne, witness |-> NoOne]

TypeOK ==
    /\ artifacts \in Artifacts
    /\ keys \in OrNone(Contracts)
    /\ loading \subseteq Contracts /\ loads \in 0 .. MaxLoads
    /\ store \subseteq Names /\ legacy \subseteq Names
    /\ write \in [Writes ->
         [pc : {"idle", "formatted", "wallet", "providers", "circuit", "submit", "proved", "persist", "done"},
          own : Artifacts,                              \* those that go with the data
          runs : Artifacts,                             \* those the call uses
          name : Names, given : BOOLEAN,                \* the secret's name, and whether there is one
          state : SUBSET Names,                         \* the private state the circuit has
          answer : {NoOne, "hash", "local", "thrown"}]]
    /\ query \in [Queries ->
         [pc : {"idle", "import", "fetch", "decode", "done"}, module : OrNone(Contracts),
          answer : {NoOne, "value", "thrown"}]]

-----------------------------------------------------------------------------
(* Loading: validateAndConvertMidnightArtifacts and loadContract.           *)

LoadContract(c) ==
    /\ c \notin loading /\ loads < MaxLoads
    /\ loading' = loading \cup {c} /\ loads' = loads + 1
    /\ UNCHANGED <<artifacts, keys, persisted, write, query>>

\* setArtifacts, after whatever is awaited; the load that ends last wins.
SetArtifacts(next) == artifacts' = next

\* An archive: it must have a module, and its keys are registered before the address
\* and the private state id are asked for, without which it fails.
ArchiveLoaded(c) ==
    /\ keys' \in {keys, c}
    /\ \/ \E witness \in {NoOne, c} : SetArtifacts([of |-> c, module |-> c, witness |-> witness])
       \/ UNCHANGED artifacts

\* An object that has the artifacts itself: no keys, and perhaps no module.
ObjectLoaded(c) ==
    /\ \E module, witness \in {NoOne, c} :
         SetArtifacts([of |-> c, module |-> module, witness |-> witness])
    /\ UNCHANGED keys

LoadEnds(c) ==
    /\ c \in loading /\ loading' = loading \ {c}
    /\ \/ ArchiveLoaded(c) \/ ObjectLoaded(c)
       \/ UNCHANGED <<artifacts, keys>>
    /\ UNCHANGED <<loads, persisted, write, query>>

-----------------------------------------------------------------------------
(* A write.                                                                *)

Goes(w, call) == write' = [write EXCEPT ![w] = call]
Threw(w) == Goes(w, [write[w] EXCEPT !.pc = "done", !.answer = "thrown"])
WriteSteps == UNCHANGED <<loaded, persisted, query>>

\* formatMidnightTransactionData: the artifacts go with the data, the name of the
\* secret comes from the form's fields.
Format(w) ==
    /\ write[w].pc = "idle"
    /\ \E name \in Names, given \in BOOLEAN :
         Goes(w, [write[w] EXCEPT !.pc = "formatted", !.own = artifacts, !.name = name, !.given = given])
    /\ WriteSteps

Or(piece, other) == IF piece # NoOne THEN piece ELSE other

\* mergeArtifacts: each piece from the data if it is there, else from the adapter.
MergeArtifacts(own, adapter) ==
    [of |-> own.of, module |-> Or(own.module, adapter.module), witness |-> Or(own.witness, adapter.witness)]

\* executeLocallyIfPossible: whether the circuit is pure is read in the adapter's
\* artifacts, and so is its code, whatever goes with the data.  The circuit may fail.
ExecuteLocally(w) ==
    /\ artifacts.of \in Pure
    /\ \/ Threw(w)
       \/ artifacts.module # NoOne
          /\ Goes(w, [write[w] EXCEPT !.pc = "done", !.runs = artifacts, !.answer = "local"])

\* signAndBroadcast, up to the wallet's first answer.
Sign(w) ==
    /\ write[w].pc = "formatted"
    /\ \/ ExecuteLocally(w)
       \/ /\ artifacts.of \notin Pure
          /\ LET merged == MergeArtifacts(write[w].own, artifacts)
             IN  IF merged.module = NoOne THEN Threw(w)
                 ELSE Goes(w, [write[w] EXCEPT !.pc = "wallet", !.runs = merged])
    /\ WriteSteps

\* execute of the EOA strategy: no API, no address or an unknown network is the end.
WalletAnswers(w) ==
    /\ write[w].pc = "wallet"
    /\ Threw(w) \/ Goes(w, [write[w] EXCEPT !.pc = "providers"])
    /\ WriteSteps

\* createTransactionProviders and the evaluation of the contract; without the wallet's
\* keys, an indexer or a proof server it fails.
CreateTransactionProviders(w) ==
    /\ write[w].pc = "providers"
    /\ Threw(w) \/ Goes(w, [write[w] EXCEPT !.pc = "circuit"])
    /\ WriteSteps

\* The mutant of OverlayGet: a secret that was persisted is not removed.
GetUnsanitized(call, base) == IF call.given THEN base \cup {call.name} ELSE base

\* get of the overlay: the persisted state without the secret, and the secret given.
OverlayGet(call, base) ==
    IF call.given THEN (base \ {call.name}) \cup {call.name} ELSE base \ {call.name}

\* set of the overlay: the state without the secret is persisted.
OverlaySet(call) == store' = call.state \ {call.name}

\* callCircuit, up to submitCallTx: the SDK (external) reads the private state through
\* the overlay and runs the circuit on it.  A read that fails is taken for no state.
CallCircuit(w) ==
    /\ write[w].pc = "circuit"
    /\ \E base \in {store, {}} :
         Goes(w, [write[w] EXCEPT !.pc = "submit", !.state = OverlayGet(write[w], base)])
    /\ WriteSteps

\* The keys, the proof, the wallet's signature and the network (external): each may
\* fail, and the error is passed on in the adapter's words.
SubmitCallTx(w) ==
    /\ write[w].pc = "submit"
    /\ \/ Threw(w)
       \/ keys # NoOne /\ Goes(w, [write[w] EXCEPT !.pc = "proved"])
    /\ WriteSteps

\* The SDK persists the next private state, if there is one, once the transaction is
\* final; when that fails so does the call.
SdkPersists(w) ==
    /\ write[w].pc = "proved"
    /\ \/ /\ OverlaySet(write[w]) \/ UNCHANGED store
          /\ Goes(w, [write[w] EXCEPT !.pc = "persist"])
       \/ UNCHANGED store /\ Threw(w)
    /\ UNCHANGED <<loaded, legacy, query>>

\* callCircuit persists it again if there is one, and answers whether that worked or not.
Persist(w) ==
    /\ write[w].pc = "persist"
    /\ OverlaySet(write[w]) \/ UNCHANGED store
    /\ Goes(w, [write[w] EXCEPT !.pc = "done", !.answer = "hash"])
    /\ UNCHANGED <<loaded, legacy, query>>

-----------------------------------------------------------------------------
(* A query.                                                                *)

QueryGoes(q, call) == query' = [query EXCEPT ![q] = call]
QueryThrew(q) == QueryGoes(q, [query[q] EXCEPT !.pc = "done", !.answer = "thrown"])
QuerySteps == UNCHANGED <<loaded, persisted, write>>

\* queryViewFunction: the handler is imported before the artifacts are asked for.
Ask(q) ==
    /\ query[q].pc = "idle"
    /\ QueryGoes(q, [query[q] EXCEPT !.pc = "import"])
    /\ QuerySteps

\* queryMidnightViewFunction: a network, schema, address or function that will not do
\* is refused.
TakeModule(q) ==
    /\ query[q].pc = "import"
    /\ QueryThrew(q) \/ QueryGoes(q, [query[q] EXCEPT !.pc = "fetch", !.module = artifacts.module])
    /\ QuerySteps

\* getProvidersForQuery and fetchContractState: no endpoint, no answer in time or no
\* such contract.
FetchContractState(q) ==
    /\ query[q].pc = "fetch"
    /\ QueryThrew(q) \/ QueryGoes(q, [query[q] EXCEPT !.pc = "decode"])
    /\ QuerySteps

\* executeQuery from the state on: ledger() of the module, then the field or method.
\* Without a module there is no ledger(); state, module or field may not fit.
Decode(q) ==
    /\ query[q].pc = "decode"
    /\ \/ QueryThrew(q)
       \/ /\ query[q].module # NoOne
          /\ QueryGoes(q, [query[q] EXCEPT !.pc = "done", !.answer = "value"])
    /\ QuerySteps

-----------------------------------------------------------------------------

Init ==
    /\ artifacts = Nothing /\ keys = NoOne /\ loading = {} /\ loads = 0
    /\ store \in SUBSET Names /\ legacy = store
    /\ write = [w \in Writes |-> [pc |-> "idle", own |-> Nothing, runs |-> Nothing,
                                  name |-> CHOOSE name \in Names : TRUE, given |-> FALSE, state |-> {},
                                  answer |-> NoOne]]
    /\ query = [q \in Queries |-> [pc |-> "idle", module |-> NoOne, answer |-> NoOne]]

Writing(w) ==
    \/ Format(w) \/ Sign(w) \/ WalletAnswers(w) \/ CreateTransactionProviders(w) \/ CallCircuit(w)
    \/ SubmitCallTx(w) \/ SdkPersists(w) \/ Persist(w)

Querying(q) == Ask(q) \/ TakeModule(q) \/ FetchContractState(q) \/ Decode(q)

Next ==
    \/ \E c \in Contracts : LoadContract(c) \/ LoadEnds(c)
    \/ \E w \in Writes : Writing(w)
    \/ \E q \in Queries : Querying(q)

Spec == Init /\ [][Next]_vars

-----------------------------------------------------------------------------

\* The identity secret of a call lives in the call only: none is persisted that was not
\* there before, whatever calls with other names for it persist in between, and a circuit
\* sees a secret under the name of its call only if the call was given one.  A secret that
\* was persisted before, under another name, is not the call's: no call removes it, and
\* every circuit has it (createPrivateStateOverlay, callCircuit).
SecretOnlyInCall ==
    /\ store \subseteq legacy
    /\ \A w \in Writes : write[w].name \in write[w].state => write[w].given
=============================================================================
