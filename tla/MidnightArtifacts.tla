-------------------------- MODULE MidnightArtifacts --------------------------
(***************************************************************************)
(* What the Midnight adapter makes of an uploaded archive: the extraction  *)
(* of module, definition, witness code and ZK keys (utils/zip-extractor.ts),*)
(* the functions and decorations read from them (utils/schema-parser.ts,    *)
(* utils/circuit-type-utils.ts, analysis/), and the archive trimmed to one *)
(* function that a saved form and an exported application are loaded from  *)
(* (utils/zip-slimmer.ts, export/bootstrap.ts).  One contract address; a   *)
(* builder uploads archives, asks for decorations, saves and exports.       *)
(***************************************************************************)
EXTENDS Naturals, Sequences, FiniteSets, SequencesExt

CONSTANTS
    MaxFiles,           \* bound of resolveReExports (20 in the code)
    MaxDepth            \* bound of callsIdentityWitness (6 in the code)

VARIABLES
    loaded,             \* the artifacts of the builder, or None
    seen,               \* all that were loaded
    analysis,           \* the artifacts under analysis, or None
    cache,              \* FunctionDecorationsService.cache
    shown               \* the decorations given last, and for what, or None

vars == <<loaded, seen, analysis, cache, shown>>

None == [none |-> TRUE]

\* The circuits of the contract, and the helper methods of its module.
Impure == {"set", "reset"}
PureNames == {"hash"}
Circuits == Impure \cup PureNames
Helpers == {"h1", "h2", "h3"}

\* String.endsWith.
EndsWith(name, end) == name = end \/ <<name, end>> = <<"reset", "set">>

PrivateStateIds == {1, 2}

-----------------------------------------------------------------------------
(* Archives: .cjs files, definition files, witness files and key files, each *)
(* in the order of the archive, and what the module's code does.             *)

\* A .cjs file: how it is named, and whether "contract" is in its path.
Cjs(as, in, of) == [as |-> as, in |-> in, of |-> of]
Main(as) == Cjs(as, TRUE, "contract")
MainNames == {"index", "contract", "other"}
Witnesses(in) == Cjs("other", in, "witnesses")

\* A .d.ts file: its name, the types it declares and the files it re-exports.
Types == {"Circuits", "ImpureCircuits", "PureCircuits", "Ledger"}
Definition(name, as, declares, exports) ==
    [name |-> name, as |-> as, declares |-> declares, exports |-> exports]

\* Four files that re-export each other, with the types in the first and the last.
Definitions(as, first, last, x, y, z) ==
    <<Definition("main", as, first, x), Definition("a", "other", {}, y),
      Definition("b", "other", {}, z), Definition("c", "other", last, <<>>)>>

\* A .prover, .verifier, .bzkir or .zkir file.
Keys(circuit, kinds) ==
    SelectSeq(<<[kind |-> "bzkir", of |-> circuit], [kind |-> "prover", of |-> circuit],
                [kind |-> "verifier", of |-> circuit], [kind |-> "zkir", of |-> circuit]>>,
              LAMBDA file : file.kind \in kinds)
AllKinds == {"prover", "verifier", "bzkir", "zkir"}

\* The code: which helpers a circuit or helper calls, in order, and which of them call an
\* identity witness themselves; whether the contract object has its pure circuits too.
Code(set, reset, h1, h2, direct) ==
    [calls |-> [f \in Circuits \cup Helpers |->
                   CASE f = "set" -> set [] f = "reset" -> reset
                     [] f = "h1" -> h1 [] f = "h2" -> h2 [] OTHER -> <<>>],
     direct |-> direct, instancePure |-> FALSE]

Plain == [cjs |-> <<Main("index")>>,
          definitions |-> Definitions("contractIndex", {"Circuits", "ImpureCircuits", "PureCircuits"},
                                      {"Ledger"}, <<>>, <<>>, <<>>),
          witnesses |-> <<"js">>,
          keys |-> Keys("reset", AllKinds) \o Keys("set", AllKinds),
          code |-> Code(<<>>, <<>>, <<>>, <<>>, {})]

Archives ==
    \* module and witness files
    {[Plain EXCEPT !.cjs = <<Main(as)>>, !.witnesses = witnesses] :
        as \in MainNames, witnesses \in {<<>>, <<"ts">>, <<"dts", "ts">>, <<"dts", "js">>}}
    \cup {[Plain EXCEPT !.cjs = cjs, !.witnesses = <<"dts", "ts", "cjs">>] :
        cjs \in {<<>>} \cup {<<Main(as), Witnesses(in)>> : as \in MainNames, in \in BOOLEAN}
                      \cup {<<Witnesses(TRUE), Main(as)>> : as \in MainNames}}
    \* definitions
    \cup {[Plain EXCEPT !.definitions = Definitions(as, types[1], types[2], x, y, z),
                        !.code.instancePure = Len(x) = 1] :
        as \in {"contractIndex", "index", "other"},
        types \in {<<{}, {"Circuits", "ImpureCircuits", "PureCircuits"}>>, <<{"Circuits"}, {}>>,
                   <<{"Ledger"}, {"Circuits", "PureCircuits"}>>, <<{"ImpureCircuits"}, {"PureCircuits"}>>},
        x \in {<<>>, <<"a">>, <<"a", "b">>}, y \in {<<>>, <<"b">>, <<"c">>},
        z \in {<<>>, <<"main">>, <<"c">>}}
    \cup {[Plain EXCEPT !.definitions = <<>>]}
    \* keys
    \cup {[Plain EXCEPT !.keys = keys] :
        keys \in {Keys(c[1], k) \o Keys(c[2], l) :
                     c \in {<<"set", "reset">>, <<"reset", "set">>, <<"hash", "set">>},
                     k \in {AllKinds, AllKinds \ {"verifier"}, {}},
                     l \in {AllKinds, AllKinds \ {"bzkir"}, {"prover", "verifier"}, {"verifier"}}}}
    \* code
    \cup {[Plain EXCEPT !.code = Code(set, reset, h1, h2, direct)] :
        set \in {<<>>, <<"h1">>, <<"h1", "h2">>}, reset \in {<<>>, <<"h2">>},
        h1 \in {<<>>, <<"h2">>}, h2 \in {<<>>, <<"h3">>, <<"h1">>},
        direct \in {{}, {"set"}, {"h1"}, {"h2"}, {"h3"}}}

\* The archives of a second upload, and those that it may follow.
Rebuilt == {[Plain EXCEPT !.code.direct = direct] : direct \in {{}, {"set"}, {"reset"}}}

-----------------------------------------------------------------------------
(* extractMidnightContractZip.                                              *)

FirstOf(s, test(_)) == LET found == SelectSeq(s, test) IN IF found = <<>> THEN None ELSE Head(found)

\* The first of the preferred kinds that is there.
Preferred(s, kinds) ==
    FirstOf([i \in DOMAIN kinds |-> FirstOf(s, LAMBDA file : file.as = kinds[i])], LAMBDA file : file # None)

FindContractModuleFile(zip) ==
    Preferred(SelectSeq(zip.cjs, LAMBDA file : file.in), <<"index", "contract", "other">>)

\* findBestDefinitionFile: by name, else by score, the first of the best.
Score(file) == (IF "Circuits" \in file.declares THEN 2 ELSE 0) + (IF "Ledger" \in file.declares THEN 1 ELSE 0)

FindBestDefinitionFile(zip) ==
    LET named == Preferred(zip.definitions, <<"contractIndex", "index">>)
        Best(file) == \A i \in DOMAIN zip.definitions : Score(zip.definitions[i]) <= Score(file)
    IN IF named # None THEN named ELSE FirstOf(zip.definitions, Best)

\* resolveReExports: breadth first, each file once, up to MaxFiles.
ResolveReExports(zip, file) ==
    LET File(name) == FirstOf(zip.definitions, LAMBDA d : d.name = name)
        Visit(walk) ==
            LET next == Head(walk.queue)
            IN IF next \in ToSet(walk.files) THEN [walk EXCEPT !.queue = Tail(@)]
               ELSE [queue |-> Tail(walk.queue) \o File(next).exports, files |-> Append(walk.files, next)]
        Walk[n \in Nat] ==
            LET walk == IF n = 0 THEN [queue |-> <<file.name>>, files |-> <<>>] ELSE Walk[n - 1]
            IN IF n = 0 \/ walk.queue = <<>> \/ Len(walk.files) >= MaxFiles THEN walk ELSE Visit(walk)
    IN Walk[10].files

\* The types that the resolved definition declares.
Declared(zip, names) ==
    UNION {zip.definitions[i].declares : i \in {i \in DOMAIN zip.definitions :
                                                  zip.definitions[i].name \in ToSet(names)}}

\* extractWitnessCode: .d.ts files are .ts files.
WitnessPriority(file) == CASE file = "cjs" -> 0 [] file = "js" -> 1 [] OTHER -> 2
ExtractWitnessCode(zip) ==
    LET First(file) == \A i \in DOMAIN zip.witnesses :
                          WitnessPriority(file) <= WitnessPriority(zip.witnesses[i])
    IN IF zip.witnesses = <<>> THEN "none" ELSE Head(SelectSeq(zip.witnesses, First))

\* extractCircuitArtifacts and extractZkArtifacts: a circuit without verifier is left out.
KeyOf(zip, kind, circuit) == FirstOf(zip.keys, LAMBDA file : file.kind = kind /\ EndsWith(file.of, circuit))

ExtractCircuit(zip, circuit) ==
    LET b == KeyOf(zip, "bzkir", circuit)
    IN [prover |-> circuit, verifier |-> KeyOf(zip, "verifier", circuit),
        zkir |-> IF b # None THEN b ELSE KeyOf(zip, "zkir", circuit)]

ExtractZk(zip) ==
    [circuit \in {c \in Circuits : /\ \E i \in DOMAIN zip.keys : zip.keys[i] = [kind |-> "prover", of |-> c]
                                   /\ KeyOf(zip, "verifier", c) # None}
        |-> ExtractCircuit(zip, circuit)]

\* validateRequiredArtifacts.
Extractable(zip) == FindContractModuleFile(zip) # None /\ FindBestDefinitionFile(zip) # None

Extract(zip) ==
    LET files == ResolveReExports(zip, FindBestDefinitionFile(zip))
    IN [module |-> FindContractModuleFile(zip), files |-> files, types |-> Declared(zip, files),
        witness |-> ExtractWitnessCode(zip), zk |-> ExtractZk(zip)]

\* The mutant of StripZipForFunction: only the textual zkir is kept.
StripBinaryZkir(zip, f) ==
    [zip EXCEPT !.keys = SelectSeq(@, LAMBDA file : EndsWith(file.of, f) /\ file.kind # "bzkir"),
                !.witnesses = SelectSeq(@, LAMBDA file : file # "ts")]

\* stripZipForFunction: witness code in TypeScript is not kept, its declarations are.
StripZipForFunction(zip, f) ==
    [zip EXCEPT !.keys = SelectSeq(@, LAMBDA file : EndsWith(file.of, f)),
                !.witnesses = SelectSeq(@, LAMBDA file : file # "ts"),
                !.cjs = SelectSeq(@, LAMBDA file : file.in \/ file.of = "witnesses")]

-----------------------------------------------------------------------------
(* The functions of a definition, and where they run.                       *)

\* extractCircuits, with extractImpureCircuits and extractPureCircuits.
PureFunctions(artifacts) == IF "PureCircuits" \in artifacts.types THEN PureNames ELSE {}
ImpureFunctions(artifacts) ==
    CASE "ImpureCircuits" \in artifacts.types -> Impure
      [] artifacts.types \cap {"ImpureCircuits", "PureCircuits"} = {} /\ "Circuits" \in artifacts.types -> Circuits
      [] OTHER -> {}

\* executeLocallyIfPossible and executePureCircuit: the module exports its pure circuits.
ExecutePureCircuit(artifacts, f) == f \in PureFunctions(artifacts) /\ artifacts.module.of = "contract"
RunsLocally(artifacts, f) == f \in PureFunctions(artifacts) /\ ExecutePureCircuit(artifacts, f)

-----------------------------------------------------------------------------
(* FunctionDecorationsService.                                              *)

\* evaluateWitnessCode and evaluateContractModule: TypeScript and its declarations do
\* not evaluate, nor does witness code taken for the contract.
EvaluatesWitness(artifacts) == artifacts.witness \in {"none", "cjs", "js"}
EvaluatesContract(artifacts) == artifacts.module.of = "contract"
Evaluates(artifacts) == EvaluatesWitness(artifacts) /\ EvaluatesContract(artifacts)

\* callsIdentityWitness: depth first, the visited helpers shared by all branches.
CallsIdentityWitness(code, circuit) ==
    LET Scan[f \in Circuits \cup Helpers, visited \in SUBSET Helpers, depth \in 0 .. MaxDepth] ==
            LET Helper(sofar, helper) ==
                    IF sofar.found \/ helper \in sofar.visited THEN sofar
                    ELSE Scan[helper, sofar.visited \cup {helper}, depth + 1]
                none == [found |-> FALSE, visited |-> visited]
            IN CASE f \in code.direct -> [none EXCEPT !.found = TRUE]
                 [] f \notin code.direct /\ depth < MaxDepth -> FoldLeft(Helper, none, code.calls[f])
                 [] OTHER -> none
    IN Scan[circuit, {}, 0].found

\* detectOrganizerOnlyBySource; a witness that is called is one that is there.
DetectOrganizerOnly(zip) == {c \in Impure : CallsIdentityWitness(zip.code, c)}

\* detectPureCircuits: the contract object is asked only if the definition has none.
DetectPure(zip, artifacts) ==
    CASE PureFunctions(artifacts) # {} -> PureFunctions(artifacts)
      [] PureFunctions(artifacts) = {} /\ zip.code.instancePure -> PureNames
      [] OTHER -> {}

\* The mutant of CacheKey: the private state is no part of it.
CacheKeyOfAddress(artifacts) == 1

\* generateCacheKey: the first 32 characters of the JSON are the start of the address.
CacheKey(artifacts) == artifacts.id

\* analyzeFunctionDecorations, up to its first await: what is cached is given at once.
Analyze ==
    /\ loaded # None /\ analysis = None
    /\ IF cache[CacheKey(loaded)] # None
       THEN /\ shown' = [for |-> loaded, decorations |-> cache[CacheKey(loaded)]]
            /\ UNCHANGED analysis
       ELSE analysis' = loaded /\ UNCHANGED shown
    /\ UNCHANGED <<loaded, seen, cache>>

\* Its end: a failure is neither cached nor given.
AnalysisEnds ==
    /\ analysis # None
    /\ LET artifacts == Extract(analysis.zip)
           found == [secret |-> DetectOrganizerOnly(analysis.zip), pure |-> DetectPure(analysis.zip, artifacts)]
       IN IF Evaluates(artifacts)
          THEN /\ cache' = [cache EXCEPT ![CacheKey(analysis)] = found]
               /\ shown' = [for |-> analysis, decorations |-> found]
          ELSE UNCHANGED <<cache, shown>>
    /\ analysis' = None
    /\ UNCHANGED <<loaded, seen>>

-----------------------------------------------------------------------------
(* The builder and the exported application.                                *)

Load(artifacts) == loaded' = artifacts /\ seen' = seen \cup {artifacts}

\* validateAndConvertMidnightArtifacts, of an archive; it throws if a part is missing.
Upload(zip, id) ==
    /\ Extractable(zip)
    /\ Load([zip |-> zip, id |-> id, trimmed |-> "no"])
    /\ UNCHANGED <<analysis, cache, shown>>

\* prepareArtifactsForFunction, of an archive that was uploaded; the form is saved, and
\* later loaded from its trimmed archive, in a new session.
SaveAndReload(f) ==
    /\ loaded # None /\ loaded.trimmed = "no" /\ analysis = None
    /\ LET trimmed == [loaded EXCEPT !.zip = StripZipForFunction(@, f), !.trimmed = f]
       IN loaded' = trimmed /\ seen' = {trimmed}
    /\ cache' = [id \in PrivateStateIds |-> None] /\ shown' = None
    /\ UNCHANGED analysis

\* getMidnightExportBootstrapFiles: the archive that the exported application of a
\* function loads by URL.
Exported(artifacts, f) == StripZipForFunction(artifacts.zip, f)

Init ==
    /\ loaded = None /\ seen = {} /\ analysis = None /\ shown = None
    /\ cache = [id \in PrivateStateIds |-> None]

Next ==
    \/ seen = {} /\ \E zip \in Archives : Upload(zip, 1)
    \/ /\ Cardinality(seen) = 1 /\ loaded.zip \in Rebuilt
       /\ \E zip \in Rebuilt, id \in PrivateStateIds : Upload(zip, id)
    \/ \E f \in Circuits : SaveAndReload(f)
    \/ Analyze
    \/ AnalysisEnds

Spec == Init /\ [][Next]_vars

-----------------------------------------------------------------------------
(* Properties.                                                              *)

Decorations == [secret : SUBSET Impure, pure : SUBSET PureNames]
Artifacts == [zip : Archives \cup Rebuilt \cup {StripZipForFunction(zip, f) : zip \in Archives \cup Rebuilt, f \in Circuits},
              id : PrivateStateIds, trimmed : {"no"} \cup Circuits]

TypeOK ==
    /\ loaded \in Artifacts \cup {None} /\ analysis \in Artifacts \cup {None}
    /\ seen \subseteq Artifacts
    /\ cache \in [PrivateStateIds -> Decorations \cup {None}]
    /\ shown = None \/ shown.decorations \in Decorations

\* No circuit of the archive has a name that ends in the circuit's.
Distinct(zip, circuit) == \A i \in DOMAIN zip.keys : EndsWith(zip.keys[i].of, circuit) => zip.keys[i].of = circuit

\* The files that the definition file reaches by re-exports.
Reached(zip, name) ==
    LET Step(names) == names \cup UNION {ToSet(zip.definitions[i].exports) :
                           i \in {i \in DOMAIN zip.definitions : zip.definitions[i].name \in names}}
    IN Step(Step(Step({name})))

\* What is extracted belongs together: a circuit's verifier and zkir are its own (unless its
\* name ends another's, which endsWith does not tell apart); the definition has every file it
\* re-exports once, or as many as it may; the module is the contract's (if its file is
\* named index.cjs or contract.cjs).  And the application exported for a function has what
\* its builder has, except for witness code in TypeScript.
ArtifactsTogether ==
    /\ loaded # None =>
         LET artifacts == Extract(loaded.zip)
             reached == Reached(loaded.zip, FindBestDefinitionFile(loaded.zip).name)
         IN /\ \A c \in DOMAIN artifacts.zk :
                 Distinct(loaded.zip, c) => /\ artifacts.zk[c].verifier.of = c
                                            /\ artifacts.zk[c].zkir # None => artifacts.zk[c].zkir.of = c
            /\ IsInjective(artifacts.files)
            /\ IF Cardinality(reached) <= MaxFiles THEN ToSet(artifacts.files) = reached
               ELSE ToSet(artifacts.files) \subseteq reached /\ Len(artifacts.files) = MaxFiles
            /\ artifacts.module.as # "other" => artifacts.module.of = "contract"
    /\ loaded # None =>
         LET here == Extract(loaded.zip)
         IN \A f \in Circuits :
            LET there == Extract(Exported(loaded, f))
            IN /\ Extractable(Exported(loaded, f))
               /\ there.module = here.module /\ there.types = here.types
               /\ here.witness # "ts" => there.witness = here.witness
               /\ f \in DOMAIN here.zk => f \in DOMAIN there.zk /\ there.zk[f] = here.zk[f]

\* The helpers a circuit calls, by the length of the chain.
Chain(code, circuit) ==
    LET C[n \in 0 .. MaxDepth + 1] ==
            IF n = 0 THEN {circuit} ELSE UNION {ToSet(code.calls[f]) : f \in C[n - 1]}
    IN C

\* The user is asked for a secret where one is needed: if no other artifacts were loaded
\* under the same private state id, the circuits shown as identity-restricted are those
\* whose code reaches an identity witness, for circuits whose call chains all end within the
\* depth that is scanned; and a circuit shown as pure by the definition runs locally.
SecretsAsked ==
    shown # None /\ (\A other \in seen : other.id = shown.for.id => other = shown.for) =>
        LET code == shown.for.zip.code
            artifacts == Extract(shown.for.zip)
        IN /\ \A c \in Impure :
                LET chain == Chain(code, c)
                IN chain[MaxDepth + 1] = {} =>
                     (c \in shown.decorations.secret
                        <=> \E n \in 0 .. MaxDepth : chain[n] \cap code.direct # {})
           /\ "PureCircuits" \in artifacts.types =>
                \A f \in shown.decorations.pure : RunsLocally(artifacts, f)
=============================================================================
