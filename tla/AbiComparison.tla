---------------------------- MODULE AbiComparison ----------------------------
(***************************************************************************)
(* AbiComparisonService (adapter-evm-core/src/abi/comparison.ts): what an  *)
(* application is told when the ABI it stored and the one that a provider  *)
(* gives today differ.  Both are validated, normalised and hashed; when    *)
(* the hashes differ the items are matched by key, each difference gets an *)
(* impact, and the impacts the severity.  One comparison of any two ABIs   *)
(* made of Items, at most MaxItems each.                                   *)
(***************************************************************************)
EXTENDS Naturals, Sequences, FiniteSets, SequencesExt

CONSTANT MaxItems           \* bound on the items of an ABI

VARIABLES
    stored, fresh,          \* the two ABIs
    verdict                 \* the result of compareAbis, or NoVerdict

vars == <<stored, fresh, verdict>>

\* Names are numbers, in the order of localeCompare; 0 is no name.
Param == [name : 0 .. 2, type : {"uint", "address"}]
Uint(n) == [name |-> n, type |-> "uint"]
Address(n) == [name |-> n, type |-> "address"]

\* An item; payable stands for its stateMutability, and it is flawed when validateAbi has
\* an error for it.
Item(kind, name, inputs, payable) ==
    [kind |-> kind, name |-> name, inputs |-> inputs, payable |-> payable, flawed |-> FALSE]

\* The kinds a contract has one of, which have no name.
Singles == {"constructor", "fallback", "receive"}

\* Overloads, parameters swapped and renamed, and items of the other kinds.
Items ==
    {Item("function", 1, inputs, FALSE) :
        inputs \in {<<Uint(1)>>, <<Address(1)>>, <<Uint(2)>>, <<Uint(1), Address(2)>>,
                    <<Address(2), Uint(1)>>, <<Address(1), Uint(2)>>}}
      \cup {Item(kind, 1, <<Uint(1)>>, FALSE) : kind \in {"event", "error"}}
      \cup {Item("fallback", 0, <<>>, payable) : payable \in BOOLEAN}
      \cup {Item("function", 2, <<>>, FALSE), Item("receive", 0, <<>>, TRUE),
            Item("constructor", 0, <<>>, FALSE), Item("constructor", 0, <<Uint(1)>>, FALSE),
            [Item("function", 0, <<>>, FALSE) EXCEPT !.flawed = TRUE]}

\* Solidity has one item of a single kind and no two functions of a selector.
Selector(item) ==
    <<item.kind, item.name,
      IF item.kind \in Singles THEN <<>>
      ELSE [i \in DOMAIN item.inputs |-> item.inputs[i].type]>>
Compiles(abi) == \A i, j \in DOMAIN abi : Selector(abi[i]) = Selector(abi[j]) => i = j

Abis == {abi \in UNION {[1 .. n -> Items] : n \in 0 .. MaxItems} : Compiles(abi)}

Changes == {"removed", "added", "modified"}
Severities == {"none", "minor", "major", "breaking"}
NoVerdict == [identical |-> FALSE, differences |-> {}, severity |-> "none", done |-> FALSE]

TypeOK ==
    /\ stored \in Abis /\ fresh \in Abis
    /\ verdict \in [identical : BOOLEAN, severity : Severities, done : BOOLEAN,
                    differences : SUBSET [change : Changes, kind : {i.kind : i \in Items},
                                          name : 0 .. 2, impact : {"low", "medium", "high"}]]

-----------------------------------------------------------------------------
(* validateAbi and normalizeAbi.                                           *)

ValidateAbi(abi) == abi # <<>> /\ \A i \in DOMAIN abi : ~abi[i].flawed

\* Array.sort is stable: equals stay in their order.  The place of an element is one more
\* than the number of those before it.
Before(ranks, i) ==
    {j \in DOMAIN ranks : ranks[j] < ranks[i] \/ (ranks[j] = ranks[i] /\ j < i)}
Place(ranks, i) == Cardinality(Before(ranks, i)) + 1
StableSort(s, ranks) ==
    [k \in DOMAIN s |-> s[CHOOSE i \in DOMAIN s : Place(ranks, i) = k]]

Kinds == <<"constructor", "fallback", "receive", "function", "event", "error">>
KindOrder(kind) == CHOOSE i \in DOMAIN Kinds : Kinds[i] = kind

ParamRanks(inputs) == [i \in DOMAIN inputs |-> inputs[i].name]
ItemRanks(abi) == [i \in DOMAIN abi |-> 10 * KindOrder(abi[i].kind) + abi[i].name]

\* The parameters of every item by name, and the items by kind and name.
NormalizeItem(item) == [item EXCEPT !.inputs = StableSort(@, ParamRanks(@))]
NormalizeAbi(abi) == StableSort([i \in DOMAIN abi |-> NormalizeItem(abi[i])], ItemRanks(abi))

-----------------------------------------------------------------------------
(* findDifferences and calculateSeverity, of normalised ABIs.              *)

\* The mutant of ItemKey: overloads share a key.
ItemKeyByName(item) == <<item.kind, item.name>>

\* generateItemKey.
ItemKey(item) == Selector(item)

\* createAbiMap: a later item of a key replaces an earlier one.
AbiMap(abi) ==
    [key \in {ItemKey(abi[i]) : i \in DOMAIN abi} |->
        abi[CHOOSE i \in DOMAIN abi : ItemKey(abi[i]) = key
                /\ \A j \in DOMAIN abi : ItemKey(abi[j]) = key => j <= i]]

CalculateImpact(kind, change) ==
    CASE kind \in Singles -> IF change = "modified" THEN "high" ELSE "medium"
      [] kind = "function" -> CASE change = "removed" -> "high"
                                [] change = "modified" -> "medium"
                                [] OTHER -> "low"
      [] OTHER -> "low"

Difference(item, change) ==
    [change |-> change, kind |-> item.kind, name |-> item.name,
     impact |-> CalculateImpact(item.kind, change)]

FindDifferences(abi1, abi2) ==
    LET map1 == AbiMap(abi1)
        map2 == AbiMap(abi2)
    IN {Difference(map1[k], "removed") : k \in DOMAIN map1 \ DOMAIN map2}
         \cup {Difference(map2[k], "added") : k \in DOMAIN map2 \ DOMAIN map1}
         \cup {Difference(map1[k], "modified") :
                 k \in {k \in DOMAIN map1 \cap DOMAIN map2 : map1[k] # map2[k]}}

CalculateSeverity(differences) ==
    LET impacts == {d.impact : d \in differences}
    IN CASE "high" \in impacts -> "breaking"
         [] "high" \notin impacts /\ "medium" \in impacts -> "major"
         [] impacts = {"low"} -> "minor"
         [] OTHER -> "none"

-----------------------------------------------------------------------------
(* compareAbis, compareContractDefinitions.                                *)

Verdict(identical, differences, severity) ==
    [identical |-> identical, differences |-> differences, severity |-> severity, done |-> TRUE]

CompareAbis(abi1, abi2) ==
    LET n1 == NormalizeAbi(abi1)
        n2 == NormalizeAbi(abi2)
        differences == FindDifferences(n1, n2)
    IN CASE ~ValidateAbi(abi1) \/ ~ValidateAbi(abi2) -> Verdict(FALSE, {}, "breaking")
         [] ValidateAbi(abi1) /\ ValidateAbi(abi2) /\ n1 = n2 -> Verdict(TRUE, {}, "none")
         [] OTHER -> Verdict(FALSE, differences, CalculateSeverity(differences))

Init == stored \in Abis /\ fresh \in Abis /\ verdict = NoVerdict

Compare ==
    /\ ~verdict.done
    /\ verdict' = CompareAbis(stored, fresh)
    /\ UNCHANGED <<stored, fresh>>

Next == Compare

Spec == Init /\ [][Next]_vars

-----------------------------------------------------------------------------
(* Properties.                                                             *)

\* The parameters of every item are declared in the order of their names.
Named(abi) == \A i \in DOMAIN abi, p, q \in 1 .. 2 :
                 {p, q} \subseteq DOMAIN abi[i].inputs /\ p < q
                     => abi[i].inputs[p].name <= abi[i].inputs[q].name

\* A function is gone with all its overloads; one that can be called by its selector, the
\* types in the order of the declaration, is gone.
Gone == \E i \in DOMAIN stored :
            /\ stored[i].kind = "function"
            /\ \A j \in DOMAIN fresh : <<fresh[j].kind, fresh[j].name>> # <<"function", stored[i].name>>
Lost == \E i \in DOMAIN stored : /\ stored[i].kind = "function"
                                 /\ \A j \in DOMAIN fresh : Selector(fresh[j]) # Selector(stored[i])

SingleChanged == \E i \in DOMAIN stored, j \in DOMAIN fresh :
    stored[i].kind \in Singles /\ fresh[j].kind = stored[i].kind /\ stored[i] # fresh[j]

\* The comparison is breaking whenever an ABI is invalid or a function of the stored ABI is
\* gone by name.  Where the parameters are declared in the order of their names it is
\* breaking exactly when an ABI is invalid, a function is gone by selector, or constructor,
\* fallback or receive are there in another form; and it is without severity exactly when
\* the two have the same items in any order.  Where they are not, neither "exactly" holds:
\* normalizeAbi sorts the parameters before keys and hashes are made, so that parameters
\* that changed places go unseen, and names that changed make another function of it.
SeverityIsRight ==
    verdict.done =>
        LET valid == ValidateAbi(stored) /\ ValidateAbi(fresh)
        IN /\ ~valid \/ Gone => verdict.severity = "breaking"
           /\ Named(stored) /\ Named(fresh) =>
                /\ verdict.severity = "breaking" <=> (~valid \/ Lost \/ SingleChanged)
                /\ verdict.severity = "none" <=> (valid /\ ToSet(stored) = ToSet(fresh))
=============================================================================
