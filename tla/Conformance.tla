------------------------------ MODULE Conformance ------------------------------
(***************************************************************************)
(* The conformance kit for name resolution                                  *)
(* (adapter-runtime-utils/src/conformance): checkConformance asks a fresh   *)
(* capability for every vector, twice, grades what it gets and reports it.  *)
(* The capability may do anything: throw, refuse, answer out of shape, have *)
(* getters that throw, or answer differently the second time.               *)
(***************************************************************************)
EXTENDS Naturals, Sequences, SequencesExt, FiniteSets

CONSTANTS
    Labels,         \* labels of vectors
    MaxVectors      \* bound on the vectors of a run

VARIABLES
    config,         \* ConformanceConfig
    harness,        \* where checkConformance is: pc, the vector, the methods detected
    first,          \* the answer to the first call for the vector
    rows,           \* the results so far, each with the vector it is about
    report,         \* the report, when there is one
    defects         \* which invariant was violated for which vector, as the contract has it

vars == <<config, harness, first, rows, report, defects>>

-----------------------------------------------------------------------------
(* What a capability returns: primitives, arrays, plain objects, other      *)
(* objects (or parts that are cyclic or nested deeper than 64), which are   *)
(* compared by identity, undefined, and properties that throw when read.    *)

P(v) == [p |-> v]
Arr(seq) == [a |-> seq]
Obj(fields) == [o |-> fields]
Ref(v) == [ref |-> v]
Undefined == [undefined |-> TRUE]
Hostile == [hostile |-> TRUE]

IsObject(t) == "o" \in DOMAIN t

With(fields, key, t) == [k \in DOMAIN fields \cup {key} |-> IF k = key THEN t ELSE fields[k]]
Without(fields, key) == [k \in DOMAIN fields \ {key} |-> fields[k]]

\* A ResolvedName or ResolvedAddress, and ones with something wrong or unusual.
Good == [name |-> P("n"), forwardVerified |-> P("boolean"), avatarUrl |-> P("x"),
         provenance |-> Obj([label |-> P("safe")]), via |-> Arr(<<P("ens"), P("ccip")>>)]
Values ==
    {Good, Without(Good, "forwardVerified"), With(Good, "forwardVerified", P("string")),
     With(Good, "forwardVerified", Hostile), With(Good, "provenance", Obj([label |-> P("unsafe")])),
     With(Good, "provenance", Obj([label |-> Hostile])), Without(Good, "provenance"),
     With(Good, "scopedTo", Undefined), With(Good, "expires", Ref("one"))}

UnionCodes == {"NAME_NOT_FOUND", "ADDRESS_NOT_FOUND"}       \* two of seven
Errors ==
    {Obj([code |-> P(c), cause |-> Ref("one")]) : c \in UnionCodes \cup {"FABRICATED"}}
    \cup {P("null"), Hostile, Obj([code |-> Hostile])}

\* Outcomes of invoke: a throw, a value that is no {ok: boolean}, or a result.
Threw(disposed) == [k |-> "threw", disposed |-> disposed]
Malformed == [k |-> "malformed"]
Success(value) == [k |-> "ok", of |-> value]
Failure(error) == [k |-> "err", of |-> error]

FirstAnswers ==
    {Threw(TRUE), Threw(FALSE), Malformed, Success(P("null")), Success(Hostile)}
    \cup {Success(Obj(v)) : v \in Values} \cup {Failure(e) : e \in Errors}

\* What the second call may answer after the first.
Variants(v) ==
    {With(v, "avatarUrl", P("y")), Without(v, "avatarUrl"), With(v, "scopedTo", Undefined),
     With(v, "name", P("m")), With(v, "name", Hostile), With(v, "provenance", Obj([via |-> Undefined])),
     With(v, "via", Arr(<<P("ens")>>)), With(v, "expires", Ref("two")),
     With(v, "provenance", Obj([label |-> P("safe"), cached |-> Undefined]))}
SecondAnswers(a) ==
    {a, Threw(TRUE), Threw(FALSE), Malformed, Success(Obj(Good)), Failure(P("null"))}
    \cup (IF a.k = "ok" /\ IsObject(a.of) THEN {Success(Obj(v)) : v \in Variants(a.of.o)} ELSE {})
    \cup (IF a.k = "err" /\ IsObject(a.of)
          THEN {Failure(Obj(With(a.of.o, "cause", Ref("two")))), Failure(Obj(Without(a.of.o, "cause"))),
                Failure(Obj(With(a.of.o, "code", P("NAME_NOT_FOUND"))))}
          ELSE {})

-----------------------------------------------------------------------------
(* The graders.                                                            *)

\* Whether reading all of it throws, which safeGrade makes a FAIL.
RECURSIVE Throws(_)
Throws(t) ==
    \/ t = Hostile
    \/ "a" \in DOMAIN t /\ \E i \in DOMAIN t.a : Throws(t.a[i])
    \/ IsObject(t) /\ \E k \in DOMAIN t.o : Throws(t.o[k])

RECURSIVE DropUndefinedDeep(_)
DropUndefinedDeep(t) ==
    IF "a" \in DOMAIN t THEN Arr([i \in DOMAIN t.a |-> DropUndefinedDeep(t.a[i])])
    ELSE IF IsObject(t)
         THEN Obj([k \in {k \in DOMAIN t.o : t.o[k] # Undefined} |-> DropUndefinedDeep(t.o[k])])
         ELSE t

\* The spread {...x} of a primitive has no properties.
Spread(t) == IF IsObject(t) THEN t.o ELSE [k \in {} |-> Undefined]

\* Mutant: the cause of an error takes part in the comparison.
CauseCompared(a, includeAvatar) ==
    LET fields == Spread(a.of)
        kept == IF a.k = "err" \/ includeAvatar THEN fields ELSE Without(fields, "avatarUrl")
    IN  [ok |-> a.k = "ok", of |-> DropUndefinedDeep(Obj(kept))]

NormalizeResolutionResult(a, includeAvatar) ==
    LET fields == Spread(a.of)
        kept == IF a.k = "err" THEN Without(fields, "cause")
                ELSE IF includeAvatar THEN fields ELSE Without(fields, "avatarUrl")
    IN  [ok |-> a.k = "ok", of |-> DropUndefinedDeep(Obj(kept))]

RECURSIVE StructuralEqual(_, _)
StructuralEqual(s, t) ==
    \/ "p" \in DOMAIN s \cap DOMAIN t /\ s.p = t.p
    \/ "ref" \in DOMAIN s \cap DOMAIN t /\ s.ref = t.ref
    \/ /\ "a" \in DOMAIN s \cap DOMAIN t /\ Len(s.a) = Len(t.a)
       /\ \A i \in DOMAIN s.a : StructuralEqual(s.a[i], t.a[i])
    \/ /\ "o" \in DOMAIN s \cap DOMAIN t
       /\ Cardinality(DOMAIN s.o) = Cardinality(DOMAIN t.o)
       /\ \A k \in DOMAIN s.o : k \in DOMAIN t.o /\ StructuralEqual(s.o[k], t.o[k])

\* An unread undefined value is read as no value.
Read(fields, key) == IF key \in DOMAIN fields THEN fields[key] ELSE Undefined

Verdict(passes) == IF passes THEN "PASS" ELSE "FAIL"

CheckForwardVerified(fields) == Verdict(Read(fields, "forwardVerified") = P("boolean"))

\* checkLabel and isUserSafeLabel; "unsafe" stands for what the policy refuses.
CheckLabel(fields) ==
    LET provenance == Read(fields, "provenance")
    IN  Verdict(IsObject(provenance) /\ Read(provenance.o, "label") = P("safe"))

CheckDeterminism(a, b) ==
    LET m == NormalizeResolutionResult(a, config.avatar)
        n == NormalizeResolutionResult(b, config.avatar)
        hostile == Throws(a.of) \/ Throws(b.of)
    IN  Verdict(~hostile /\ m.ok = n.ok /\ StructuralEqual(m.of, n.of))

ClassifyExpectedFailure(a) ==
    Verdict(a.k = "err" /\ IsObject(a.of) /\ Read(a.of.o, "code") \in {P(c) : c \in UnionCodes})

-----------------------------------------------------------------------------
(* The checker.  A vector expects a success or a failure with a code; it    *)
(* has a label, which with the code is all that its keys are made of.        *)

Vectors == [direction : {"forward", "reverse"}, ok : BOOLEAN, label : Labels]

Code == "NAME_NOT_FOUND"

Row(v, inv, status) ==
    [inv |-> inv, status |-> status, of |-> harness.at,
     key |-> CASE inv = "INV-8" -> <<inv, v.direction, IF v.ok THEN v.label ELSE Code>>
               [] inv = "INV-6" -> <<inv, v.label>>
               [] OTHER -> <<inv, v.direction, v.label>>]

\* The checks of a value, and that of determinism, when they cannot be made.
Skipped(v, checks) == [i \in DOMAIN checks |-> Row(v, checks[i], "SKIPPED")]
ValueChecks(v) ==
    IF ~v.ok THEN <<>> ELSE IF v.direction = "reverse" THEN <<"INV-6", "INV-16">> ELSE <<"INV-16">>

AbsentMethodResults(v) ==
    Skipped(v, IF v.ok THEN ValueChecks(v) \o <<"INV-12">> ELSE <<"INV-8", "INV-12">>)
FailedForThrow(v) == <<Row(v, "INV-8", "FAIL")>> \o Skipped(v, ValueChecks(v) \o <<"INV-12">>)
SkippedForFailedCall(v) == Skipped(v, <<"INV-8">> \o ValueChecks(v) \o <<"INV-12">>)
FailedForMalformedResult(v) == FailedForThrow(v)

AfterThrow(v, a) == IF a.disposed THEN SkippedForFailedCall(v) ELSE FailedForThrow(v)

DeterminismResult(v, a, b) ==
    Row(v, "INV-12", CASE b.k = "threw" -> IF b.disposed THEN "SKIPPED" ELSE "FAIL"
                       [] b.k = "malformed" -> "FAIL"
                       [] OTHER -> CheckDeterminism(a, b))

\* The rows of a vector both of whose calls returned or threw, from the first's result.
Graded(v, a, b) ==
    CASE a.k = "malformed" -> FailedForMalformedResult(v)
      [] a.k # "malformed" /\ ~v.ok ->
            <<Row(v, "INV-8", ClassifyExpectedFailure(a)), DeterminismResult(v, a, b)>>
      [] v.ok /\ a.k = "err" ->
            <<Row(v, "EXPECT", "FAIL")>> \o Skipped(v, ValueChecks(v) \o <<"INV-12">>)
      [] v.ok /\ a.k = "ok" /\ ~IsObject(a.of) ->
            [i \in DOMAIN ValueChecks(v) |-> Row(v, ValueChecks(v)[i], "FAIL")]
            \o Skipped(v, <<"INV-12">>)
      [] v.ok /\ a.k = "ok" /\ IsObject(a.of) ->
            (IF v.direction = "reverse"
             THEN <<Row(v, "INV-6", CheckForwardVerified(a.of.o))>> ELSE <<>>)
            \o <<Row(v, "INV-16", CheckLabel(a.of.o)), DeterminismResult(v, a, b)>>

-----------------------------------------------------------------------------
(* The contract: which invariants the answers to a vector's calls violate.  *)

\* What is there in a tree, each with the way to it; what is undefined is not.
RECURSIVE Leaves(_)
Leaves(t) ==
    CASE "a" \in DOMAIN t -> {<< <<"length">>, P(ToString(Len(t.a)))>>} \cup
            UNION {{<< <<ToString(i)>> \o l[1], l[2]>> : l \in Leaves(t.a[i])} : i \in DOMAIN t.a}
      [] IsObject(t) -> {<< <<>>, P("object")>>} \cup
            UNION {{<< <<k>> \o l[1], l[2]>> : l \in Leaves(t.o[k])} : k \in DOMAIN t.o}
      [] t = Undefined -> {}
      [] OTHER -> {<< <<>>, t>>}

\* Answers that say the same, but for the cause of an error, and but for the avatar
\* unless it is to be stable.
SaySame(a, b) ==
    LET ignored == {<<"cause">>} \cup (IF config.avatar THEN {} ELSE {<<"avatarUrl">>})
        said(x) == IF IsObject(x.of) THEN {l \in Leaves(x.of) : l[1] \notin ignored} ELSE {}
    IN  a.k = b.k /\ said(a) = said(b) /\ ~Throws(a.of) /\ ~Throws(b.of)

UserSafe(a) == << <<"provenance", "label">>, P("safe")>> \in Leaves(a.of)
Concrete(a) == << <<"forwardVerified">>, P("boolean")>> \in Leaves(a.of)
Typed(a) == \E c \in UnionCodes : << <<"code">>, P(c)>> \in Leaves(a.of)

\* Of the first answer.  One of a disposed capability violates nothing.
DefectsOfFirst(v, a) ==
    {inv \in {"INV-6", "INV-8", "INV-16", "EXPECT"} :
        CASE inv = "INV-8" -> \/ a.k = "threw" /\ ~a.disposed
                              \/ a.k = "malformed"
                              \/ ~v.ok /\ (a.k = "ok" \/ (a.k = "err" /\ ~Typed(a)))
          [] inv = "EXPECT" -> v.ok /\ a.k = "err"
          [] inv = "INV-6" -> v.ok /\ v.direction = "reverse" /\ a.k = "ok" /\ ~Concrete(a)
          [] inv = "INV-16" -> v.ok /\ a.k = "ok" /\ ~UserSafe(a)}

\* Of the second, when the first was of the kind expected and had something to compare.
DefectsOfSecond(v, a, b) ==
    IF /\ a.k \in {"ok", "err"} /\ (v.ok => a.k = "ok" /\ IsObject(a.of))
       /\ \/ b.k = "threw" /\ ~b.disposed
          \/ b.k = "malformed"
          \/ b.k \in {"ok", "err"} /\ ~SaySame(a, b)
    THEN {"INV-12"} ELSE {}

-----------------------------------------------------------------------------
(* A run.                                                                  *)

Vector == config.vectors[harness.at]
NoReport == [made |-> FALSE]

\* runVector's result is added, and the next vector is taken.
Add(new, invs) ==
    /\ rows' = rows \o new
    /\ defects' = defects \cup {<<harness.at, inv>> : inv \in invs}
    /\ harness' = [harness EXCEPT !.at = @ + 1, !.pc = "vector"]
    /\ first' = Malformed
    /\ UNCHANGED <<config, report>>

\* validateConfig, validateVectors and validatePolicy: a factory, vectors with an input and
\* an expectation, a policy with its pattern, limit and rules; checked before any call.
ValidConfig == config.valid

\* validateConfig, then the probe, whose methods are taken to be there if it fails.
Validate ==
    /\ harness.pc = "start"
    /\ IF ValidConfig
       THEN \E found \in SUBSET {"forward", "reverse"} :
               harness' = [harness EXCEPT !.pc = "vector", !.detected = found]
       ELSE harness' = [harness EXCEPT !.pc = "threw"]
    /\ UNCHANGED <<config, first, rows, report, defects>>

AtVector == harness.pc = "vector" /\ harness.at <= Len(config.vectors)

\* The method was not detected, or the instance made for the vector lacks it.
MethodAbsent == AtVector /\ Add(AbsentMethodResults(Vector), {})

\* makeCapability throws, or makes no object.
ConstructionThrows ==
    /\ AtVector /\ Vector.direction \in harness.detected
    /\ \E disposed \in BOOLEAN :
          Add(AfterThrow(Vector, Threw(disposed)), DefectsOfFirst(Vector, Threw(disposed)))

FirstCall ==
    /\ AtVector /\ Vector.direction \in harness.detected
    /\ \E a \in FirstAnswers :
          IF a.k = "threw" THEN Add(AfterThrow(Vector, a), DefectsOfFirst(Vector, a))
          ELSE /\ first' = a /\ harness' = [harness EXCEPT !.pc = "second"]
               /\ UNCHANGED <<config, rows, report, defects>>

SecondCall ==
    /\ harness.pc = "second"
    /\ \E b \in SecondAnswers(first) :
          Add(Graded(Vector, first, b),
              DefectsOfFirst(Vector, first) \cup DefectsOfSecond(Vector, first, b))

\* checkLifecycle: no dispose, a dispose or construction that throws, or the call after it.
LifecycleOutcomes == {"absent", "throws", "returns", "disposed"}
CheckLifecycle(outcome) ==
    IF outcome = "absent" THEN "SKIPPED" ELSE Verdict(outcome = "disposed")

Finished == harness.pc = "vector" /\ harness.at > Len(config.vectors)

Lifecycle ==
    /\ Finished /\ config.lifecycle
    /\ \E outcome \in LifecycleOutcomes :
          /\ rows' = Append(rows, [inv |-> "INV-26", status |-> CheckLifecycle(outcome),
                                   of |-> harness.at, key |-> <<"INV-26">>])
          /\ defects' = defects \cup (IF outcome \in {"throws", "returns"}
                                      THEN {<<harness.at, "INV-26">>} ELSE {})
    /\ harness' = [harness EXCEPT !.pc = "probed"]
    /\ UNCHANGED <<config, first, report>>

\* makeKeyDeduper
Dedupe(i) == Cardinality({j \in 1 .. i : rows[j].key = rows[i].key})

\* The report, and what describeConformance makes of each result.
Report ==
    /\ harness.pc = "probed" \/ (Finished /\ ~config.lifecycle)
    /\ report' = [made |-> TRUE,
                  keys |-> [i \in DOMAIN rows |-> <<rows[i].key, Dedupe(i)>>],
                  passed |-> \A i \in DOMAIN rows : rows[i].status # "FAIL",
                  failing |-> {i \in DOMAIN rows : rows[i].status = "FAIL"}]
    /\ harness' = [harness EXCEPT !.pc = "done"]
    /\ UNCHANGED <<config, first, rows, defects>>

\* The vectors of a config: those of the forward direction come first.
Ordered(vectors) ==
    \A i, j \in DOMAIN vectors : i < j => vectors[i].direction = "forward" \/ vectors[j].direction = "reverse"

Init ==
    /\ config \in [valid : BOOLEAN, avatar : BOOLEAN, lifecycle : BOOLEAN,
                   vectors : {s \in BoundedSeq(Vectors, MaxVectors) : Ordered(s)}]
    /\ harness = [pc |-> "start", at |-> 1, detected |-> {}]
    /\ first = Malformed
    /\ rows = <<>> /\ report = NoReport /\ defects = {}

Next ==
    \/ Validate \/ MethodAbsent \/ ConstructionThrows \/ FirstCall \/ SecondCall
    \/ Lifecycle \/ Report

Spec == Init /\ [][Next]_vars

-----------------------------------------------------------------------------

\* What the kit calls a violation is one, and it misses none: whatever the capability
\* does, a row fails exactly for an invariant that the answers violate, for that vector,
\* and the report passes exactly when none was violated.
VerdictIsRight ==
    /\ {<<rows[i].of, rows[i].inv>> : i \in {i \in DOMAIN rows : rows[i].status = "FAIL"}} = defects
    /\ report.made => report.passed = (defects = {})

\* Nothing is dropped: each vector that was run has one row for each check that it is
\* for, however early its calls failed, and each row is a test under a name of its own.
NothingDropped ==
    /\ \A n \in 1 .. harness.at - 1 :
          LET v == config.vectors[n]
              about == SelectSeq(rows, LAMBDA row : row.of = n)
              checks == ToSet(ValueChecks(v)) \cup {"INV-12"} \cup (IF v.ok THEN {} ELSE {"INV-8"})
          IN  /\ checks \subseteq {about[i].inv : i \in DOMAIN about}
              /\ IsInjective([i \in DOMAIN about |-> about[i].inv])
    /\ report.made => IsInjective(report.keys)
=============================================================================
