----------------------------- MODULE StellarValues -----------------------------
(***************************************************************************)
(* What a Stellar contract is sent for what the user enters: the types of  *)
(* a contract's spec, the forms made for them (src/mapping), the values    *)
(* the forms yield, how transaction/formatter.ts and transform/parsers     *)
(* read them, and the ScVals they become in a transaction (valueToScVal)   *)
(* (by the wallet or by transaction/relayer.ts) and in a view query         *)
(* (query/handler.ts).  One parameter of one function.                      *)
(*                                                                         *)
(* A type is a record whose k is its kind: a type of the spec, "struct",   *)
(* "tstruct" (a struct whose fields are numbered), "union" (cases with     *)
(* payloads) or "enum" (cases with numbers).  The value a user has in mind *)
(* is a number for a primitive, and is otherwise built like its type.      *)
(***************************************************************************)
EXTENDS Naturals, Sequences, SequencesExt

VARIABLES
    function,       \* the parameter's type, and what a call of the function changes
    schema,         \* "none" until the contract is loaded, then what the function is taken for
    input,          \* what the user wants to send, if anything: <<>> or <<value>>
    sent            \* the last call: by which path, and the argument's ScVal; or Nothing

vars == <<function, schema, input, sent>>

Nothing == [by |-> "nobody"]

-----------------------------------------------------------------------------
(* Types.                                                                  *)

Vec(T) == [k |-> "Vec", of |-> T]
Option(T) == [k |-> "Option", of |-> T]
Map(K, V) == [k |-> "Map", key |-> K, val |-> V]
Tuple(types) == [k |-> "Tuple", of |-> types]
Struct(types) == [k |-> "struct", of |-> types]
TupleStruct(types) == [k |-> "tstruct", of |-> types]
\* likely: its name is one that isLikelyEnumType knows (AssetStatus, TokenType).
Union(likely, cases) == [k |-> "union", likely |-> likely, of |-> cases]
Enum(likely, n) == [k |-> "enum", likely |-> likely, n |-> n]

U32 == [k |-> "U32"]
U128 == [k |-> "U128"]
Bool == [k |-> "Bool"]
Bytes == [k |-> "Bytes"]
BytesN == [k |-> "BytesN"]        \* BytesN<32>
Address == [k |-> "Address"]
ScString == [k |-> "ScString"]
ScSymbol == [k |-> "ScSymbol"]

\* PRIMITIVE_STELLAR_TYPES: BytesN<32> is not among them.
Primitives == {"U32", "U128", "Bool", "Bytes", "Address", "ScString", "ScSymbol"}

IsEnum(T) == T.k \in {"union", "enum"}
IsStruct(T) == T.k \in {"struct", "tstruct"}
\* isLikelyEnumType
Likely(T) == IsEnum(T) /\ T.likely
\* isUnitOnly of extractEnumVariants
UnitOnly(T) == T.k = "enum" \/ \A i \in DOMAIN T.of : T.of[i] = <<>>

Status == Union(TRUE, << <<>>, <<>> >>)
Color == Union(FALSE, << <<>>, <<>> >>)
Level == Enum(TRUE, 2)
Pair == Struct(<<U128, Bool>>)

\* The types tried; the last four get forms without the fields they need.
Types ==
  <<U32, U128, Bool, Bytes, BytesN, Address, ScString, ScSymbol,
    Vec(U32), Vec(Bytes), Vec(BytesN), Vec(Address), Vec(Status), Vec(Level), Vec(Pair),
    Option(U32), Option(ScString), Option(Bytes), Map(ScSymbol, U128), Map(U32, Bytes),
    Enum(FALSE, 2), Level, Status, Color,
    Union(TRUE, << <<>>, <<U32>>, <<Address, Bool>> >>), Union(FALSE, << <<>>, <<ScString>> >>),
    Union(FALSE, << <<Tuple(<<Address, U128>>)>>, <<Pair>> >>),
    Union(FALSE, << <<U32, Tuple(<<Address, U128>>)>> >>), Union(TRUE, << <<Bytes>>, <<BytesN>> >>),
    Tuple(<<U32, Bool>>), Tuple(<<Address, Status>>), Tuple(<<U32, Level>>), Tuple(<<Bytes, U32>>),
    Tuple(<<Pair, Tuple(<<ScSymbol, U32>>)>>), Tuple(<<Color, U32>>), Tuple(<<Option(U32), Bool>>),
    Tuple(<<Map(ScSymbol, U32), Bool>>), Tuple(<<BytesN, Vec(U32)>>),
    Struct(<<U128, Vec(U32), Status>>), Struct(<<Address, Union(TRUE, << <<>>, <<U32>> >>)>>),
    Struct(<<Bool, Vec(Status)>>), Struct(<<Bytes, U32>>), Struct(<<Pair, U32>>),
    Struct(<<Vec(Pair)>>), Struct(<<Option(U32), U32>>), Struct(<<Map(ScSymbol, U32), U32>>),
    Struct(<<Level, U32>>), Struct(<<Color, U32>>), Struct(<<Tuple(<<U32, Bool>>), U32>>),
    TupleStruct(<<U32, ScSymbol>>), TupleStruct(<<Address, Status>>), TupleStruct(<<Pair, Bool>>),
    Vec(Color), Vec(Tuple(<<U32, Bool>>)), Map(U32, Pair), Option(Pair)>>

\* The values of a type: two of a primitive, at most two elements or entries (these in
\* the order in which the user adds them), a case with its payload.
RECURSIVE ValuesOf(_), Rows(_)
Rows(types) ==
    IF types = <<>> THEN {<<>>}
    ELSE {<<v>> \o row : v \in ValuesOf(Head(types)), row \in Rows(Tail(types))}
ValuesOf(T) ==
    CASE T.k = "Vec" -> UNION {Rows([i \in 1 .. n |-> T.of]) : n \in 0 .. 2}
      [] T.k = "Option" -> UNION {Rows([i \in 1 .. n |-> T.of]) : n \in 0 .. 1}
      [] T.k = "Map" ->
            {<<>>} \cup {<< <<k, v>> >> : k \in {1, 2}, v \in ValuesOf(T.val)}
                   \cup {<< <<k, v>>, <<3 - k, w>> >> : k \in {1, 2}, v, w \in ValuesOf(T.val)}
      [] T.k \in {"Tuple", "struct", "tstruct"} -> Rows(T.of)
      [] T.k = "union" -> UNION {{<<i, row>> : row \in Rows(T.of[i])} : i \in DOMAIN T.of}
      [] T.k = "enum" -> 1 .. T.n
      [] OTHER -> {1, 2}

-----------------------------------------------------------------------------
(* JavaScript values (j is what typeof or the like says of one) and ScVals, *)
(* which are a kind and a value.                                           *)

Fails == [j |-> "throws"]
Number(v) == [j |-> "number", v |-> v]
String(as, v) == [j |-> "string", as |-> as, v |-> v]
Boolean(v) == [j |-> "boolean", v |-> v]
ByteArray(v) == [j |-> "Uint8Array", v |-> v]
Null == [j |-> "null"]
\* An array; a plain object, by its fields; the entries {key, value} of a map field.
Array(seq) == [j |-> "array", v |-> seq]
Object(seq) == [j |-> "object", v |-> seq]
Entries(seq) == [j |-> "entries", v |-> seq]
\* {0: {value, type}, 1: {value, type}}, the Stellar SDK's form of an entry.
Pairs(seq) == [j |-> "pairs", v |-> seq]
\* {tag, values}, and {type, value}
EnumValue(tag, values) == [j |-> "enum", tag |-> tag, v |-> values]
Wrapper(T, js) == [j |-> "wrapper", of |-> T, v |-> js]

Throws == <<"throws">>
Void == <<"void">>
\* A map whose keys are strings, which no contract type is: what nativeToScVal makes
\* of an object without hints.
Junk == <<"junk">>
Sc(kind, v) == <<kind, v>>
Symbol(v) == Sc("symbol", v)

Threw(parts) == \E i \in DOMAIN parts : parts[i] = Throws
VecOf(parts) == IF Threw(parts) THEN Throws ELSE Sc("vec", parts)
FieldsOf(parts) == IF Threw(parts) THEN Throws ELSE Sc("fields", parts)

\* Applied to each of a sequence with its index, or to each.
Each(Op(_), seq) == [i \in DOMAIN seq |-> Op(seq[i])]

-----------------------------------------------------------------------------
(* Forms.                                                                  *)

\* A Tuple among the payload's types stands for its components (flattenPayloadType).
Flat(payload) ==
    FoldLeft(LAMBDA types, T : types \o (IF T.k = "Tuple" THEN T.of ELSE <<T>>), <<>>, payload)
FlatRow(payload, row) ==
    FoldLeft(LAMBDA vs, i : vs \o (IF payload[i].k = "Tuple" THEN row[i] ELSE <<row[i]>>),
             <<>>, [i \in DOMAIN payload |-> i])
\* isSingleTuplePayload
SingleTuple(payload) == Len(payload) = 1 /\ payload[1].k = "Tuple"

\* mapStellarParameterTypeToFieldType, where a Vec of structs and one of enums are
\* arrays too.
RECURSIVE FieldType(_)
FieldType(T) ==
    CASE T.k = "Vec" -> "array"
      [] T.k = "Map" -> "map"
      [] T.k = "Option" -> FieldType(T.of)
      [] T.k = "U32" -> "number"
      [] T.k = "U128" -> "bigint"
      [] T.k = "Bool" -> "checkbox"
      [] T.k \in {"Bytes", "BytesN"} -> "bytes"
      [] T.k = "Address" -> "blockchain-address"
      [] T.k \in {"ScString", "ScSymbol"} -> "text"
      [] Likely(T) -> "select"
      [] OTHER -> "object"

\* generateStellarDefaultField: the spec says better than the name what is an enum.
FieldOf(T) == IF IsEnum(T) THEN IF UnitOnly(T) THEN "select" ELSE "enum" ELSE FieldType(T)

\* A primitive, for the parser (isPrimitiveType).
Simple(T) == T.k \in Primitives \cup {"BytesN"}

\* Its form has all the fields it needs: an element of an array gets those of its struct
\* or of an enum named like one, the value of a map and that of an Option none of them.
RECURSIVE Fillable(_)
FillableElement(T) ==
    Simple(T) \/ (T.k = "Option" /\ Simple(T.of)) \/ Likely(T) \/ (IsStruct(T) /\ Fillable(T))
Fillable(T) ==
    CASE T.k = "Vec" -> FillableElement(T.of)
      [] T.k = "Map" -> Simple(T.key) /\ Simple(T.val)
      [] T.k = "Option" -> Simple(T.of)
      [] T.k \in {"Tuple", "struct", "tstruct"} -> \A i \in DOMAIN T.of : Fillable(T.of[i])
      [] OTHER -> TRUE

\* What the fields yield for a value: a number field a number, strings those for larger
\* numbers, an object field what its fields yield (an array if they are numbered), a
\* select the name of a case or the number of an integer enum's, an enum field both.
RECURSIVE Entered(_, _)
Entered(T, v) ==
    LET field == FieldOf(T)
    IN  CASE T.k = "Option" -> IF v = <<>> THEN String("empty", 0) ELSE Entered(T.of, v[1])
          [] field = "number" -> Number(v)
          [] field = "bigint" -> String("numeric", v)
          [] field = "checkbox" -> Boolean(v)
          [] field = "bytes" -> String("hex", v)
          [] field = "blockchain-address" -> String("address", v)
          [] field = "text" -> String("text", v)
          [] field = "array" -> Array(Each(LAMBDA e : Entered(T.of, e), v))
          [] field = "map" -> Entries(Each(LAMBDA e : <<Entered(T.key, e[1]), Entered(T.val, e[2])>>, v))
          [] field = "object" ->
                LET fields == [i \in DOMAIN v |-> Entered(T.of[i], v[i])]
                IN  IF T.k = "tstruct" THEN Array(fields) ELSE Object(fields)
          [] field = "select" -> IF T.k = "enum" THEN String("numeric", v) ELSE String("name", v[1])
          [] OTHER -> LET payload == T.of[v[1]]
                          row == FlatRow(payload, v[2])
                      IN  EnumValue(v[1], [i \in DOMAIN row |-> Entered(Flat(payload)[i], row[i])])

-----------------------------------------------------------------------------
(* The Stellar SDK (external).                                             *)

\* nativeToScVal with a type hint, or "none".
RECURSIVE Native(_, _)
Native(js, hint) ==
    CASE js.j = "throws" -> Throws
      [] js.j = "null" -> Void
      [] js.j = "boolean" -> Sc("bool", js.v)
      [] js.j = "number" ->
            IF hint = "none" THEN Sc("u64", js.v)
            ELSE IF hint \in {"u32", "u128"} THEN Sc(hint, js.v) ELSE Throws
      [] js.j = "string" ->
            CASE hint \in {"none", "string"} -> Sc("string", js.v)
              [] hint = "symbol" -> Symbol(js.v)
              [] hint = "address" /\ js.as = "address" -> Sc("address", js.v)
              [] hint \in {"u32", "u128"} /\ js.as = "numeric" -> Sc(hint, js.v)
              [] OTHER -> Throws
      [] js.j = "Uint8Array" -> IF hint \in {"none", "bytes"} THEN Sc("bytes", js.v) ELSE Throws
      [] js.j = "array" -> VecOf(Each(LAMBDA e : Native(e, hint), js.v))
      [] OTHER -> Junk

-----------------------------------------------------------------------------
(* Reading the form.                                                       *)

\* parsePrimitive
ParsePrimitive(js, T) ==
    CASE js.j = "null" -> js
      [] T.k = "Bool" -> IF js.j = "boolean" THEN js ELSE Fails
      [] T.k \in {"Bytes", "BytesN"} -> IF js.j = "string" THEN ByteArray(js.v) ELSE Fails
      [] T.k = "Address" -> IF js.j = "string" /\ js.as = "address" THEN js ELSE Fails
      [] T.k \in {"ScString", "ScSymbol"} -> IF js.j = "string" THEN js ELSE Fails
      [] OTHER -> IF js.j = "number" THEN String("numeric", js.v)
                  ELSE IF js.j = "string" /\ js.as = "numeric" THEN js ELSE Fails

RECURSIVE ParseInput(_, _)

\* parseGeneric: of a Vec or an Option what is inside is parsed too, of a Map nothing is.
ParseGeneric(js, T) ==
    CASE T.k = "Vec" ->
            IF js.j # "array" THEN Fails
            ELSE LET parsed == Each(LAMBDA e : ParseInput(e, T.of), js.v)
                 IN  IF \E i \in DOMAIN parsed : parsed[i].j = "throws" THEN Fails ELSE Array(parsed)
      [] T.k = "Map" -> IF js.j = "entries" THEN Pairs(js.v) ELSE Fails
      [] OTHER -> IF js.j = "string" /\ js.as = "empty" THEN Null ELSE ParseInput(js, T.of)

\* parseStellarInput, for which a Tuple is no generic type: what is no primitive, Vec,
\* Map or Option passes as it is.
ParseInput(js, T) ==
    CASE js.j = "null" -> js
      [] Simple(T) -> ParsePrimitive(js, T)
      [] T.k \in {"Vec", "Map", "Option"} -> ParseGeneric(js, T)
      [] OTHER -> IF js.j \in {"boolean", "Uint8Array"} THEN Fails ELSE js

\* What formatStellarTransactionData makes of the payload of an enum parameter, before
\* the parameter is parsed as a whole.
Format(js, T) ==
    LET Payload(i) ==
            LET F == Flat(T.of[js.tag])[i]
                parsed == ParseInput(js.v[i], F)
            IN  IF Simple(F) THEN Wrapper(F, parsed) ELSE parsed
        values == [i \in DOMAIN js.v |-> Payload(i)]
        failed == \E i \in DOMAIN values :
                      "throws" \in {values[i].j, IF values[i].j = "wrapper" THEN values[i].v.j ELSE ""}
    IN  IF js.j # "enum" THEN ParseInput(js, T)
        ELSE IF failed THEN Fails ELSE ParseInput(EnumValue(js.tag, values), T)

-----------------------------------------------------------------------------
(* ScVals.                                                                 *)

\* convertStellarTypeToScValType
RECURSIVE Hint(_)
Hint(T) ==
    CASE T.k \in {"Vec", "Option"} -> Hint(T.of)
      [] T.k = "U32" -> "u32"
      [] T.k = "U128" -> "u128"
      [] T.k = "Bool" -> "bool"
      [] T.k \in {"Bytes", "BytesN"} -> "bytes"
      [] T.k = "Address" -> "address"
      [] T.k = "ScString" -> "string"
      [] T.k = "ScSymbol" -> "symbol"
      [] OTHER -> "other"

\* What is known of a parameter beside its type: comps, the components of a struct or a
\* tuple; meta, the variants of an enum; rich, whether those of nested enums were added
\* (enrichParameterWithEnumMetadata).
Bare == [comps |-> FALSE, meta |-> FALSE, rich |-> FALSE]

\* That of a parameter, from loading the contract, from its field and from the spec.
ParameterSchema(T) ==
    [comps |-> IsStruct(T) \/ T.k = "Tuple" \/ (T.k = "Vec" /\ IsStruct(T.of)),
     meta |-> IsEnum(T) \/ (T.k = "Vec" /\ Likely(T.of)),
     rich |-> TRUE]

\* That of T's component of type F (extractStructFields, buildTupleComponents).
ComponentSchema(T, F, s) ==
    [comps |-> IsStruct(F) \/ (T.k = "Tuple" /\ F.k = "Tuple"),
     meta |-> s.rich /\ (Likely(F) \/ (F.k = "Vec" /\ Likely(F.of))),
     rich |-> s.rich]

\* A string for a type named like an enum becomes {tag}.  A number in it is no tag.
Tagged(js, T) ==
    IF js.j = "string" /\ Likely(T)
    THEN IF js.as = "name" THEN EnumValue(js.v, <<>>) ELSE [EnumValue(0, <<>>) EXCEPT !.tag = js]
    ELSE js

\* convertEnumToScVal, and its getScValFromArg for the payload.
RECURSIVE FromArg(_)
FromArg(js) ==
    IF js.j = "wrapper" THEN Native(js.v, Hint(js.of))
    ELSE IF js.j = "array" /\ js.v # <<>> THEN VecOf(Each(FromArg, js.v))
    ELSE Native(js, "none")
ConvertEnum(js) == VecOf(<<Symbol(js.tag)>> \o Each(FromArg, js.v))

\* Mutant: the entries of a map are sent in the order in which they were added.
EntriesAsAdded(entries) == entries

\* compareScValsByXdr orders keys as their values are ordered here.
SortedEntries(entries) == SortSeq(entries, LAMBDA e, f : e[1][2] < f[1][2])

MapOf(entries) ==
    IF \E i \in DOMAIN entries : Throws \in {entries[i][1], entries[i][2]} THEN Throws
    ELSE Sc("map", SortedEntries(entries))

\* valueToScVal and convertStructToScVal.  eoa.ts and relayer.ts pass no function that
\* parses inner values: those are taken as the form yields them.
RECURSIVE ToScVal(_, _, _)

\* A field of a struct.
FieldToScVal(js, F, s) ==
    LET p == Tagged(js, F)
    IN  CASE F.k = "Map" /\ js.j = "entries" ->
                IF js.v = <<>> THEN Sc("map", <<>>) ELSE Throws
          [] F.k = "Vec" \/ p.j = "enum" -> ToScVal(p, F, s)
          [] OTHER -> Native(p, Hint(F))

StructToScVal(js, T, s) ==
    CASE ~s.comps -> IF js.v = <<>> THEN FieldsOf(<<>>) ELSE Throws
      [] T.k = "tstruct" ->
            VecOf([i \in DOMAIN T.of |->
                      ToScVal(Tagged(js.v[i], T.of[i]), T.of[i], ComponentSchema(T, T.of[i], s))])
      [] OTHER ->
            FieldsOf([i \in DOMAIN T.of |->
                         FieldToScVal(js.v[i], T.of[i], ComponentSchema(T, T.of[i], s))])

UnionToScVal(js, T, s) ==
    LET payload == Flat(T.of[js.tag])
        parts == [i \in DOMAIN payload |->
                     ToScVal(js.v[i], payload[i], [Bare EXCEPT !.comps = IsStruct(payload[i])])]
    IN  IF js.v = <<>> THEN VecOf(<<Symbol(js.tag)>>)
        ELSE IF ~s.meta THEN ConvertEnum(js)
        ELSE IF SingleTuple(T.of[js.tag]) THEN VecOf(<<Symbol(js.tag), VecOf(parts)>>)
        ELSE VecOf(<<Symbol(js.tag)>> \o parts)

\* The number of an integer enum, from its name (which no form yields), a numeric
\* string or a number.
IntegerEnumToScVal(js) ==
    IF js.j = "number" \/ (js.j = "string" /\ js.as = "numeric") THEN Sc("u32", js.v) ELSE Throws

MapToScVal(js, T) ==
    CASE js.j = "pairs" ->
            MapOf(Each(LAMBDA e : <<Native(ParsePrimitive(e[1], T.key), Hint(T.key)),
                                    Native(ParsePrimitive(e[2], T.val), Hint(T.val))>>, js.v))
      [] js.j = "entries" -> IF js.v = <<>> THEN Sc("map", <<>>) ELSE Throws
      [] OTHER -> Native(js, "none")

VecToScVal(js, T, s) ==
    LET element == [comps |-> s.comps /\ ~s.meta, meta |-> s.meta, rich |-> s.rich /\ ~s.meta]
    IN  IF js.j = "array" THEN VecOf(Each(LAMBDA e : ToScVal(e, T.of, element), js.v))
        ELSE Native(js, "none")

TupleToScVal(js, T, s) ==
    IF ~s.comps THEN Throws
    ELSE VecOf([i \in DOMAIN T.of |->
                   ToScVal(Tagged(js.v[i], T.of[i]), T.of[i], ComponentSchema(T, T.of[i], s))])

\* The rest has no parts.
PrimitiveToScVal(js, T) == Native(js, IF T.k \in {"Bool", "Bytes"} THEN "none" ELSE Hint(T))

OptionToScVal(js, T, s) == IF js.j = "null" THEN Void ELSE ToScVal(js, T.of, s)

\* A wrapper is parsed once more.
WrapperToScVal(js) == Native(ParsePrimitive(js.v, js.of), Hint(js.of))

ToScVal(js, T, s) ==
    LET e == IF js.j = "string" /\ js.as = "name" /\ s.meta THEN EnumValue(js.v, <<>>) ELSE Tagged(js, T)
    IN  CASE js.j = "throws" -> Throws
          [] T.k = "Vec" -> VecToScVal(js, T, s)
          [] T.k = "Map" -> MapToScVal(js, T)
          [] T.k = "Tuple" -> TupleToScVal(js, T, s)
          [] T.k = "Option" -> OptionToScVal(js, T, s)
          [] T.k = "BytesN" -> Native(js, "bytes")
          [] s.meta /\ T.k = "enum" -> IntegerEnumToScVal(js)
          [] js.j = "wrapper" -> WrapperToScVal(js)
          [] e.j = "enum" -> IF T.k = "union" THEN UnionToScVal(e, T, s) ELSE Junk
          [] (e.j = "array" /\ s.comps) \/ e.j = "object" -> StructToScVal(e, T, s)
          [] OTHER -> PrimitiveToScVal(js, T)

\* The argument of a transaction, and that of a view query.
Argument(js, T) == ToScVal(Format(js, T), T, ParameterSchema(T))
QueryArgument(js, T) ==
    Native(ParseInput(js, T), IF T.k \in {"Bool", "Bytes", "BytesN"} THEN "none" ELSE Hint(T))

\* stellarScValToRelayerScVal: the JSON in which the relayer takes a ScVal, as the ScVal
\* that it stands for.  The relayer's JSON has no void.  (2 is the Bool false.)
RECURSIVE RelayerScVal(_)
RelayerScVal(sc) ==
    CASE sc = Void -> Sc("bool", 2)
      [] sc[1] \in {"vec", "fields"} -> Sc(sc[1], Each(RelayerScVal, sc[2]))
      [] sc[1] = "map" -> Sc("map", Each(LAMBDA e : Each(RelayerScVal, e), sc[2]))
      [] OTHER -> sc

-----------------------------------------------------------------------------
(* A function is loaded, filled in and called.                             *)

Changes == {"nothing", "instance", "storage"}

\* checkStellarFunctionStateMutability calls the function with dummies: real ones for
\* some types and null for the others, which only an Option takes.
DummyFits(T) == T.k \in {"U32", "U128", "Bool", "Bytes", "Address", "Option"}

Init ==
    /\ \E i \in DOMAIN Types, changes \in Changes : function = [type |-> Types[i], changes |-> changes]
    /\ schema = "none"
    /\ input = <<>>
    /\ sent = Nothing


\* A call that fails, or that changes more than the entries of the contract's code and
\* instance, is of a function that modifies state; any call may fail.
Found(f) == {TRUE} \cup (IF DummyFits(f.type) THEN {f.changes = "storage"} ELSE {})

\* extractFunctionsFromSpec
LoadContract ==
    /\ schema = "none"
    /\ \E modifies \in Found(function) : schema' = IF modifies THEN "modifies" ELSE "view"
    /\ UNCHANGED <<function, input, sent>>

\* isStellarViewFunction
IsView == schema = "view"

FillIn ==
    /\ schema # "none" /\ input = <<>> /\ Fillable(function.type)
    /\ \E v \in ValuesOf(function.type) : input' = <<v>>
    /\ UNCHANGED <<function, schema, sent>>

\* formatStellarTransactionData, signAndBroadcast
Execute ==
    /\ input # <<>> /\ sent = Nothing
    /\ sent' = [by |-> "transaction",
                arg |-> Argument(Entered(function.type, input[1]), function.type)]
    /\ UNCHANGED <<function, schema, input>>

\* sendTransactionViaRelayer in the operations mode
Relay ==
    /\ input # <<>> /\ sent = Nothing
    /\ sent' = [by |-> "relayer",
                arg |-> RelayerScVal(Argument(Entered(function.type, input[1]), function.type))]
    /\ UNCHANGED <<function, schema, input>>

\* queryStellarViewFunction
Query ==
    /\ input # <<>> /\ sent = Nothing /\ IsView
    /\ sent' = [by |-> "query",
                arg |-> QueryArgument(Entered(function.type, input[1]), function.type)]
    /\ UNCHANGED <<function, schema, input>>

Next == LoadContract \/ FillIn \/ Execute \/ Relay \/ Query

Spec == Init /\ [][Next]_vars

-----------------------------------------------------------------------------

\* The ScVal that a contract takes for the value, by its type.
RECURSIVE Meant(_, _)
Meant(T, v) ==
    CASE T.k = "Vec" -> VecOf(Each(LAMBDA e : Meant(T.of, e), v))
      [] T.k = "Option" -> IF v = <<>> THEN Void ELSE Meant(T.of, v[1])
      [] T.k = "Map" ->
            Sc("map", SetToSortSeq({<<Meant(T.key, v[i][1]), Meant(T.val, v[i][2])>> : i \in DOMAIN v},
                                   LAMBDA e, f : e[1][2] < f[1][2]))
      [] T.k = "struct" -> FieldsOf([i \in DOMAIN v |-> Meant(T.of[i], v[i])])
      [] T.k \in {"Tuple", "tstruct"} -> VecOf([i \in DOMAIN v |-> Meant(T.of[i], v[i])])
      [] T.k = "union" ->
            VecOf(<<Symbol(v[1])>> \o [i \in DOMAIN v[2] |-> Meant(T.of[v[1]][i], v[2][i])])
      [] T.k = "enum" -> Sc("u32", v)
      [] OTHER -> Sc(Hint(T), v)

\* The types whose every value arrives (Handled is exact for Types).  Of the others, bytes
\* inside tuples, unions and structs, and Maps, Options, integer enums, structs and tuples
\* inside structs, are not converted from what the form yields.
Plain(T) == T.k \in Primitives \ {"Bytes"}
AllOf(Is(_), types) == \A i \in DOMAIN types : Is(types[i])
PlainUnion(T) == T.k = "union" /\ AllOf(LAMBDA payload : AllOf(Plain, payload), T.of)
PlainOrNamed(T) == Plain(T) \/ (Likely(T) /\ PlainUnion(T))
InStruct(T) == PlainOrNamed(T) \/ (T.k = "Vec" /\ PlainOrNamed(T.of))
PlainStruct(T) == T.k = "struct" /\ AllOf(InStruct, T.of)
InTuple(T) == InStruct(T) \/ PlainStruct(T)
Payload(T) == Plain(T) \/ (T.k = "struct" /\ AllOf(Plain, T.of))
Handled(T) ==
    \/ Simple(T) \/ T.k = "enum" \/ PlainStruct(T)
    \/ T.k \in {"Vec", "Option"} /\ Simple(T.of)
    \/ T.k = "Vec" /\ (PlainStruct(T.of) \/ (Likely(T.of) /\ (T.of.k = "enum" \/ PlainUnion(T.of))))
    \/ T.k = "Map" /\ Simple(T.key) /\ Simple(T.val)
    \/ T.k = "tstruct" /\ AllOf(InTuple, T.of)
    \/ T.k = "Tuple" /\ AllOf(LAMBDA F : InTuple(F) \/ (F.k = "Tuple" /\ AllOf(InTuple, F.of)), T.of)
    \/ T.k = "union" /\ AllOf(LAMBDA payload : \/ AllOf(Payload, payload)
                                               \/ SingleTuple(payload) /\ AllOf(Plain, payload[1].of), T.of)
HandledByQuery(T) == Simple(T) \/ (T.k \in {"Vec", "Option"} /\ Simple(T.of))

\* A contract is sent the value entered, as a value of the parameter's type: whatever
\* the user enters for a type that the adapter handles goes through field, form, parser
\* and conversion (each of which looks at the type by itself) and is neither refused nor
\* sent as something else, and the entries of a map in the order that Soroban requires.
\* So it does through the relayer, except for an Option's none.  A query does so too, for
\* fewer types, and is of no function that writes to storage.
ValuesRight ==
    LET T == function.type
        none == T.k = "Option" /\ input = << <<>> >>
    IN  /\ sent.by = "transaction" /\ Handled(T) => sent.arg = Meant(T, input[1])
        /\ sent.by = "relayer" /\ Handled(T) /\ ~none => sent.arg = Meant(T, input[1])
        /\ sent.by = "query" =>
              /\ HandledByQuery(T) => sent.arg = Meant(T, input[1])
              /\ function.changes # "storage"

=============================================================================
