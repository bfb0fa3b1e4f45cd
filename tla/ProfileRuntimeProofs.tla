------------------------- MODULE ProfileRuntimeProofs -------------------------
(***************************************************************************)
(* Proofs about ProfileRuntime: no capability of a lazily composed runtime  *)
(* exists twice, and dispose() leaves no capability object alive.  Of an    *)
(* object that is alive IInv says who will dispose it (Owned); that needs   *)
(* the order of composition, in which whatever a capability asks for stands *)
(* before it (Composed, OnDemand), and that an instance held privately is   *)
(* nobody else's (Numbered).                                                *)
(***************************************************************************)
EXTENDS ProfileRuntime, TLAPS

(* The variables' types: those the argument uses,                           *)
Shapes ==
    /\ adapter \in Adapters
    /\ style \in {"lazy", "static"}
    /\ profile \in DOMAIN Requirements
    /\ phase \in {"new", "building", "ready", "disposing", "disposed", "unsupported", "failed"}
    /\ pos \in 1 .. Len(BuildOrder) + 1
    /\ shared \in [Keys -> Nat]
    /\ lazy \in [Keys -> Nat]
    /\ built \in [Keys -> Nat]
    /\ alive \subseteq Disposable \X Nat
    /\ private \in [Keys -> SUBSET (Keys \X Nat)]

(* and the rest.                                                            *)
Rest ==
    /\ rpcOk \in BOOLEAN
    /\ method \in [Services -> {"service", "lifecycle"}]
    /\ torn \subseteq Services
    /\ uses \in 0 .. MaxUses

(* The runtime's cache holds what composition has passed and the profile    *)
(* includes.                                                                *)
Composed ==
    /\ phase = "new" => pos = 1 /\ \A k \in Keys : shared[k] = 0
    /\ phase = "building" =>
         \A i \in DOMAIN BuildOrder :
            shared[BuildOrder[i]] # 0 <=> i < pos /\ Included(BuildOrder[i])
    /\ phase \in {"ready", "disposing", "disposed"} =>
         \A k \in Keys : shared[k] # 0 <=> Included(k)

(* A lazily built capability is in both caches and is the only one. *)
OnDemand ==
    style = "lazy" => \A k \in Keys :
        lazy[k] = shared[k] /\ built[k] = shared[k] /\ shared[k] <= 1 /\ private[k] = {}

(* Instances are numbered as they are built, and what one capability holds  *)
(* privately is not in the runtime's cache.                                 *)
Numbered ==
    /\ \A k \in Keys : shared[k] <= built[k]
    /\ \A k \in Keys : \A x \in private[k] : x[2] <= built[x[1]] /\ x[2] # shared[x[1]]

(* Whatever is alive is in the runtime's cache, or held by one that is and  *)
(* that is alive itself.                                                    *)
Owned ==
    \A x \in alive : \E k \in Keys :
        /\ shared[k] # 0
        /\ x = <<k, shared[k]>> \/ (Live(k) /\ x \in private[k])

(* What the disposal loop has passed is gone. *)
Passed ==
    /\ phase = "ready" => pos = 1
    /\ phase = "disposing" =>
         \A i \in DOMAIN DisposeOrder : i < pos => ~(shared[DisposeOrder[i]] # 0 /\ Live(DisposeOrder[i]))
    /\ phase = "disposed" => alive = {}

IInv == Shapes /\ Composed /\ OnDemand /\ Numbered /\ Owned /\ Passed

-----------------------------------------------------------------------------
(* The tables *)

LEMMA BuildTable ==
    /\ Len(BuildOrder) = 14 /\ DOMAIN BuildOrder = 1..14
    /\ \A i \in 1..14 : BuildOrder[i] \in Keys
    /\ \A k \in Keys : \E i \in 1..14 : k = BuildOrder[i]
    /\ \A i, j \in 1..14 : BuildOrder[i] = BuildOrder[j] => i = j
    /\ BuildOrder[5] = "contractLoading" /\ BuildOrder[8] = "query"
    /\ BuildOrder[9] = "execution" /\ BuildOrder[13] = "accessControl"
BY DEF BuildOrder, Keys

LEMMA DisposeTable ==
    /\ Len(DisposeOrder) = 10 /\ DOMAIN DisposeOrder = 1..10
    /\ \A i \in 1..10 : DisposeOrder[i] \in Disposable
    /\ \A k \in Disposable : \E i \in 1..10 : k = DisposeOrder[i]
BY DEF DisposeOrder, Disposable

LEMMA DisposableKeys == Disposable \subseteq Keys
BY BuildTable, DisposeTable DEF BuildOrder, DisposeOrder, Disposable, Keys

(* What a capability asks for is in every profile that the capability is in. *)
LEMMA NeedsAreIncluded ==
    ASSUME profile \in DOMAIN Requirements, NEW k \in Keys, Included(k)
    PROVE  /\ NeedsToBuild(k) \subseteq Keys /\ NeedsToRun(k) \subseteq Keys
           /\ \A j \in NeedsToBuild(k) \cup NeedsToRun(k) : Included(j)
<1>1. /\ "query" \in Requirements[profile] => "contractLoading" \in Requirements[profile]
      /\ "accessControl" \in Requirements[profile] => "execution" \in Requirements[profile]
  BY DEF Requirements, Tier1, Reading
<1>2. {"execution", "contractLoading"} \subseteq Keys
  BY BuildTable
<1>3. CASE k = "query"
  <2>1. NeedsToBuild(k) = {} /\ NeedsToRun(k) = {"contractLoading"}
    BY <1>3 DEF NeedsToBuild, NeedsToRun
  <2> QED BY <1>1, <1>2, <1>3, <2>1 DEF Included
<1>4. CASE k = "accessControl"
  <2>1. NeedsToBuild(k) \subseteq {"execution"} /\ NeedsToRun(k) \subseteq {"execution"}
    BY <1>4 DEF NeedsToBuild, NeedsToRun
  <2> QED BY <1>1, <1>2, <1>4, <2>1 DEF Included
<1>5. CASE k # "query" /\ k # "accessControl"
  <2>1. NeedsToBuild(k) = {} /\ NeedsToRun(k) = {}
    BY <1>5 DEF NeedsToBuild, NeedsToRun
  <2> QED BY <2>1
<1> QED BY <1>3, <1>4, <1>5

(* What a capability asks for while it is built stands before it. *)
LEMMA NeedsStandBefore ==
    ASSUME NEW i \in 1..14, NEW j \in NeedsToBuild(BuildOrder[i])
    PROVE  \E h \in 1..14 : h < i /\ BuildOrder[h] = j
<1>1. BuildOrder[i] = "accessControl" /\ j = "execution"
  BY DEF NeedsToBuild
<1>2. i = 13
  BY <1>1, BuildTable
<1> QED BY <1>1, <1>2, BuildTable

LEMMA PrivateKeys ==
    ASSUME NEW k \in Keys
    PROVE  PrivateOf(k) \subseteq Disposable /\ PrivateOf(k) \subseteq Keys /\ k \notin PrivateOf(k)
<1>1. {"execution", "contractLoading"} \subseteq Disposable
  BY DisposeTable DEF DisposeOrder
<1>2. \/ PrivateOf(k) = {}
      \/ k = "query" /\ PrivateOf(k) = {"contractLoading"}
      \/ k = "accessControl" /\ PrivateOf(k) = {"execution"}
  BY DEF PrivateOf
<1> QED BY <1>1, <1>2, DisposableKeys

-----------------------------------------------------------------------------
(* The initial state, and the steps *)

LEMMA InitHolds == ASSUME Init PROVE IInv
<1>1. Shapes
  BY BuildTable DEF Init, Shapes
<1>2. Composed /\ OnDemand /\ Numbered /\ Owned /\ Passed
  BY DEF Init, Composed, OnDemand, Numbered, Owned, Passed
<1> QED BY <1>1, <1>2 DEF IInv

(* Steps that move the loops only. *)
LEMMA CreateRuntimeStep == ASSUME IInv, CreateRuntime PROVE IInv'
<1>1. Shapes' /\ OnDemand' /\ Numbered' /\ Owned' /\ Passed'
  BY DEF CreateRuntime, IInv, input, Shapes, OnDemand, Numbered, Owned, Passed, Live
<1>2. Composed'
  BY BuildTable DEF CreateRuntime, IInv, input, Composed, Included
<1> QED BY <1>1, <1>2 DEF IInv

LEMMA SkipCapabilityStep == ASSUME IInv, NEW k \in Keys, SkipCapability(k) PROVE IInv'
<1>0. pos + 1 \in 1 .. Len(BuildOrder) + 1 /\ phase = "building"
  BY BuildTable DEF SkipCapability, AtKey, IInv, Shapes
<1>1. Shapes' /\ OnDemand' /\ Numbered' /\ Owned' /\ Passed'
  BY <1>0 DEF SkipCapability, IInv, input, Shapes, OnDemand, Numbered, Owned, Passed, Live
<1>2. Composed'
  <2>1. pos \in 1..14 /\ BuildOrder[pos] = k /\ phase = "building" /\ phase' = phase /\ pos' = pos + 1
    BY BuildTable DEF SkipCapability, AtKey, IInv, Shapes
  <2>2. UNCHANGED <<shared, profile, adapter>> /\ ~Included(k)
    BY DEF SkipCapability, input
  <2>3. ASSUME NEW i \in 1..14
        PROVE  shared[BuildOrder[i]] # 0 <=> i < pos + 1 /\ Included(BuildOrder[i])
    <3>1. shared[BuildOrder[i]] # 0 <=> i < pos /\ Included(BuildOrder[i])
      BY <2>1, BuildTable DEF IInv, Composed
    <3> QED BY <2>1, <2>2, <3>1
  <2> QED BY <2>1, <2>2, <2>3, BuildTable DEF Composed, Included
<1> QED BY <1>1, <1>2 DEF IInv

LEMMA ComposeFailsStep == ASSUME IInv, NEW k \in Keys, ComposeFails(k) PROVE IInv'
<1>1. Shapes' /\ OnDemand' /\ Numbered' /\ Owned' /\ Passed'
  BY DEF ComposeFails, IInv, input, Shapes, OnDemand, Numbered, Owned, Passed, Live
<1>2. Composed'
  BY DEF ComposeFails, Composed
<1> QED BY <1>1, <1>2 DEF IInv

LEMMA RuntimeReadyStep == ASSUME IInv, RuntimeReady PROVE IInv'
<1>0. 1 \in 1 .. Len(BuildOrder) + 1
  BY BuildTable
<1>1. Shapes' /\ OnDemand' /\ Numbered' /\ Owned' /\ Passed'
  BY <1>0 DEF RuntimeReady, IInv, input, Shapes, OnDemand, Numbered, Owned, Passed, Live
<1>2. Composed'
  <2>1. phase = "building" /\ pos > 14 /\ phase' = "ready" /\ UNCHANGED <<shared, profile, adapter>>
    BY BuildTable DEF RuntimeReady, input
  <2>2. ASSUME NEW k \in Keys PROVE shared[k] # 0 <=> Included(k)
    <3>1. PICK i \in 1..14 : k = BuildOrder[i]
      BY BuildTable
    <3>2. pos \in Nat
      BY BuildTable DEF IInv, Shapes
    <3> QED BY <2>1, <3>1, <3>2, BuildTable DEF IInv, Composed
  <2> QED BY <2>1, <2>2 DEF Composed, Included
<1> QED BY <1>1, <1>2 DEF IInv

LEMMA DisposeRuntimeStep == ASSUME IInv, DisposeRuntime PROVE IInv'
<1>0. pos = 1
  BY DEF DisposeRuntime, IInv, Passed
<1>1. Shapes' /\ OnDemand' /\ Numbered' /\ Owned'
  BY DEF DisposeRuntime, IInv, input, Shapes, OnDemand, Numbered, Owned, Live
<1>2. Composed'
  BY DEF DisposeRuntime, IInv, input, Composed, Included
<1>3. Passed'
  BY <1>0, DisposeTable DEF DisposeRuntime, Passed
<1> QED BY <1>1, <1>2, <1>3 DEF IInv

LEMMA RuntimeDisposedStep == ASSUME IInv, RuntimeDisposed PROVE IInv'
<1>1. Shapes' /\ OnDemand' /\ Numbered' /\ Owned'
  BY DEF RuntimeDisposed, IInv, input, Shapes, OnDemand, Numbered, Owned, Live
<1>2. Composed'
  BY DEF RuntimeDisposed, IInv, input, Composed, Included
<1>3. alive = {}
  <2>1. SUFFICES ASSUME NEW x \in alive PROVE FALSE
    OBVIOUS
  <2>2. PICK k \in Keys : shared[k] # 0 /\ Live(k)
    BY DEF IInv, Owned, Live
  <2>3. k \in Disposable
    BY <2>2 DEF IInv, Shapes, Live
  <2>4. PICK i \in 1..10 : k = DisposeOrder[i]
    BY <2>3, DisposeTable
  <2>5. i < pos
    BY DisposeTable DEF RuntimeDisposed, IInv, Shapes
  <2> QED BY <2>2, <2>4, <2>5, DisposeTable DEF RuntimeDisposed, IInv, Passed
<1>4. Passed'
  BY <1>3 DEF RuntimeDisposed, Passed
<1> QED BY <1>1, <1>2, <1>4 DEF IInv

(* A capability that is composed was in no cache, and its place is passed.  *)
LEMMA ComposedNext ==
    ASSUME IInv, NEW k \in Keys, AtKey(k), Included(k), NEW n \in Nat \ {0},
           shared' = [shared EXCEPT ![k] = n], pos' = pos + 1,
           UNCHANGED <<phase, profile, adapter>>
    PROVE  shared[k] = 0 /\ pos' \in 1 .. Len(BuildOrder) + 1 /\ Composed'
<1>1. pos \in 1..14 /\ BuildOrder[pos] = k /\ phase = "building"
  BY BuildTable DEF AtKey, IInv, Shapes
<1>2. shared \in [Keys -> Nat] /\ \A i \in 1..14 : shared[BuildOrder[i]] # 0 <=> i < pos /\ Included(BuildOrder[i])
  BY <1>1, BuildTable DEF IInv, Shapes, Composed
<1>3. shared[k] = 0
  BY <1>1, <1>2
<1>4. pos' \in 1 .. Len(BuildOrder) + 1
  BY <1>1, BuildTable
<1>5. ASSUME NEW i \in 1..14
      PROVE  shared'[BuildOrder[i]] # 0 <=> i < pos + 1 /\ Included(BuildOrder[i])
  <2>1. BuildOrder[i] \in Keys /\ (i # pos => BuildOrder[i] # k)
    BY <1>1, BuildTable
  <2>2. CASE i = pos
    BY <1>1, <1>2, <2>2
  <2>3. CASE i # pos
    BY <1>1, <1>2, <2>1, <2>3
  <2> QED BY <2>2, <2>3
<1>6. Composed'
  BY <1>1, <1>5, BuildTable DEF Composed, Included
<1> QED BY <1>3, <1>4, <1>6

LEMMA ComposeLazyStep == ASSUME IInv, NEW k \in Keys, ComposeLazy(k) PROVE IInv'
<1>1. /\ AtKey(k) /\ style = "lazy" /\ Included(k) /\ phase = "building" /\ pos' = pos + 1
      /\ UNCHANGED <<phase, profile, adapter, style, private>>
  BY DEF ComposeLazy, AtKey, input
<1>2. shared[k] = 0
  BY <1>1, BuildTable DEF AtKey, IInv, Shapes, Composed
<1>3. /\ \A j \in Keys : lazy[j] = shared[j] /\ built[j] = shared[j] /\ shared[j] <= 1 /\ private[j] = {}
      /\ shared \in [Keys -> Nat] /\ lazy \in [Keys -> Nat] /\ built \in [Keys -> Nat]
      /\ alive \subseteq Disposable \X Nat
  BY <1>1 DEF IInv, OnDemand, Shapes
<1>4. ASSUME NEW j \in NeedsToBuild(k) PROVE j \in Keys /\ lazy[j] # 0
  <2>1. pos \in 1..14 /\ BuildOrder[pos] = k
    BY <1>1, BuildTable DEF AtKey, IInv, Shapes
  <2>2. PICK h \in 1..14 : h < pos /\ BuildOrder[h] = j
    BY <2>1, NeedsStandBefore
  <2>3. Included(j) /\ j \in Keys
    BY <1>1, NeedsAreIncluded DEF IInv, Shapes
  <2>4. shared[j] # 0
    BY <1>1, <2>2, <2>3, BuildTable DEF IInv, Composed
  <2> QED BY <1>3, <2>3, <2>4
<1>5. Missing({k} \union NeedsToBuild(k)) = {k}
  BY <1>2, <1>3, <1>4 DEF Missing
<1>6. /\ lazy' = [j \in Keys |-> IF j = k THEN 1 ELSE lazy[j]]
      /\ built' = [j \in Keys |-> IF j = k THEN 1 ELSE built[j]]
      /\ alive' = alive \union {<<j, built[j] + 1>> : j \in {k} \intersect Disposable}
      /\ shared' = [shared EXCEPT ![k] = lazy'[k]]
  <2>1. built[k] + 1 = 1
    BY <1>2, <1>3
  <2>2. BuildLazily({k} \union NeedsToBuild(k)) /\ shared' = [shared EXCEPT ![k] = lazy'[k]]
    BY DEF ComposeLazy
  <2>3. /\ lazy' = [j \in Keys |-> IF j \in {k} THEN built[j] + 1 ELSE lazy[j]]
        /\ built' = [j \in Keys |-> IF j \in {k} THEN built[j] + 1 ELSE built[j]]
        /\ alive' = alive \union {<<j, built[j] + 1>> : j \in {k} \intersect Disposable}
    BY <1>5, <2>2 DEF BuildLazily
  <2> QED BY <2>1, <2>2, <2>3
<1>7. shared' = [shared EXCEPT ![k] = 1] /\ lazy'[k] = 1
  BY <1>6
<1>8. pos' \in 1 .. Len(BuildOrder) + 1 /\ Composed'
  <2>1. PICK n \in Nat \ {0} : n = 1
    OBVIOUS
  <2>2. shared' = [shared EXCEPT ![k] = n]
    BY <1>7, <2>1
  <2> QED BY <1>1, <2>2, ComposedNext
<1>9. \A j \in Keys : shared'[j] = IF j = k THEN 1 ELSE shared[j]
  BY <1>3, <1>7
<1>10. OnDemand'
  BY <1>1, <1>3, <1>6, <1>9 DEF OnDemand
<1>11. Numbered'
  BY <1>1, <1>3, <1>6, <1>9 DEF Numbered
<1>12. \A x \in alive' : x \in alive \/ (x = <<k, 1>> /\ k \in Disposable)
  BY <1>2, <1>3, <1>6
<1>13. Shapes'
  <2>1. alive' \subseteq Disposable \X Nat
    BY <1>3, <1>12
  <2>2. shared' \in [Keys -> Nat] /\ lazy' \in [Keys -> Nat] /\ built' \in [Keys -> Nat]
    BY <1>3, <1>6, <1>7
  <2> QED BY <2>1, <2>2, <1>1, <1>8 DEF IInv, Shapes
<1>14. Owned'
  <2>1. SUFFICES ASSUME NEW x \in alive'
                 PROVE  \E j \in Keys : shared'[j] # 0 /\ x = <<j, shared'[j]>>
    BY DEF Owned
  <2>2. CASE x \in alive
    <3>1. PICK j \in Keys : shared[j] # 0 /\ x = <<j, shared[j]>>
      BY <1>3, <2>2 DEF IInv, Owned
    <3> QED BY <1>2, <1>9, <3>1
  <2>3. CASE x = <<k, 1>>
    BY <1>9, <2>3
  <2> QED BY <1>12, <2>2, <2>3
<1>15. Passed'
  BY <1>1 DEF Passed
<1> QED BY <1>8, <1>10, <1>11, <1>13, <1>14, <1>15 DEF IInv

LEMMA ComposeStaticStep == ASSUME IInv, NEW k \in Keys, ComposeStatic(k) PROVE IInv'
<1>1. /\ AtKey(k) /\ style = "static" /\ Included(k) /\ phase = "building" /\ pos' = pos + 1
      /\ UNCHANGED <<phase, profile, adapter, style, lazy>>
  BY DEF ComposeStatic, AtKey, input
<1>2. PICK P : P = PrivateOf(k)
  OBVIOUS
<1>3. P \subseteq Keys /\ P \subseteq Disposable /\ k \notin P
  BY <1>2, PrivateKeys
<1>4. /\ built' = [j \in Keys |-> IF j \in {k} \union P THEN built[j] + 1 ELSE built[j]]
      /\ alive' = alive \union {<<j, built[j] + 1>> : j \in ({k} \union P) \intersect Disposable}
      /\ private' = [private EXCEPT ![k] = {<<j, built[j] + 1>> : j \in P}]
      /\ shared' = [shared EXCEPT ![k] = built[k] + 1]
  BY <1>2 DEF ComposeStatic
<1>5. /\ shared \in [Keys -> Nat] /\ lazy \in [Keys -> Nat] /\ built \in [Keys -> Nat]
      /\ alive \subseteq Disposable \X Nat
      /\ private \in [Keys -> SUBSET (Keys \X Nat)]
      /\ \A j \in Keys : shared[j] <= built[j]
      /\ \A j \in Keys : \A x \in private[j] : x[2] <= built[x[1]] /\ x[2] # shared[x[1]]
  BY DEF IInv, Shapes, Numbered
<1>6. built[k] + 1 \in Nat \ {0}
  BY <1>5
<1>7. shared[k] = 0 /\ pos' \in 1 .. Len(BuildOrder) + 1 /\ Composed'
  BY <1>1, <1>4, <1>6, ComposedNext
<1>8. /\ \A j \in Keys : shared'[j] = IF j = k THEN built[k] + 1 ELSE shared[j]
      /\ \A j \in Keys : built'[j] = IF j \in {k} \union P THEN built[j] + 1 ELSE built[j]
      /\ \A j \in Keys : private'[j] = IF j = k THEN {<<i, built[i] + 1>> : i \in P} ELSE private[j]
  BY <1>4, <1>5
<1>9. OnDemand'
  BY <1>1 DEF OnDemand
<1>10. Numbered'
  <2>1. \A j \in Keys : shared'[j] <= built'[j]
    BY <1>5, <1>8
  <2>2. ASSUME NEW j \in Keys, NEW x \in private'[j]
        PROVE  x[2] <= built'[x[1]] /\ x[2] # shared'[x[1]]
    <3>1. CASE j = k
      <4>0. private'[k] = {<<i, built[i] + 1>> : i \in P}
        BY <1>8
      <4>1. PICK i \in P : x = <<i, built[i] + 1>>
        BY <3>1, <4>0
      <4>2. i \in Keys /\ i # k
        BY <1>3
      <4>3. built'[i] = built[i] + 1 /\ shared'[i] = shared[i] /\ shared[i] <= built[i]
        BY <1>5, <1>8, <4>2
      <4> QED BY <1>5, <4>1, <4>2, <4>3
    <3>2. CASE j # k
      <4>1. x \in private[j] /\ x \in Keys \X Nat
        BY <1>5, <1>8, <3>2
      <4>2. PICK i \in Keys, n \in Nat : x = <<i, n>>
        BY <4>1
      <4>3. n <= built[i] /\ n # shared[i]
        BY <1>5, <4>1, <4>2
      <4>4. built[i] \in Nat /\ (built'[i] = built[i] \/ built'[i] = built[i] + 1)
            /\ (shared'[i] = shared[i] \/ shared'[i] = built[i] + 1)
        BY <1>5, <1>8
      <4> QED BY <4>2, <4>3, <4>4
    <3> QED BY <3>1, <3>2
  <2> QED BY <2>1, <2>2 DEF Numbered
<1>11. \A x \in alive' : x \in alive \/ (\E j \in ({k} \union P) \intersect Disposable : x = <<j, built[j] + 1>>)
  BY <1>4
<1>12. Shapes'
  <2>1. alive' \subseteq Disposable \X Nat
    BY <1>5, <1>11, DisposableKeys
  <2>2. shared' \in [Keys -> Nat] /\ built' \in [Keys -> Nat]
    BY <1>4, <1>5
  <2>3. {<<i, built[i] + 1>> : i \in P} \in SUBSET (Keys \X Nat)
    BY <1>3, <1>5
  <2>4. private' \in [Keys -> SUBSET (Keys \X Nat)]
    BY <1>4, <1>5, <2>3
  <2> QED BY <2>1, <2>2, <2>4, <1>1, <1>5, <1>7 DEF IInv, Shapes
<1>13. Owned'
  <2>1. SUFFICES ASSUME NEW x \in alive'
                 PROVE  \E j \in Keys : /\ shared'[j] # 0
                                        /\ x = <<j, shared'[j]>> \/ (<<j, shared'[j]>> \in alive' /\ x \in private'[j])
    BY DEF Owned, Live
  <2>2. CASE x \in alive
    <3>1. PICK j \in Keys : /\ shared[j] # 0
                            /\ x = <<j, shared[j]>> \/ (<<j, shared[j]>> \in alive /\ x \in private[j])
      BY <2>2 DEF IInv, Owned, Live
    <3>2. j # k /\ shared'[j] = shared[j] /\ private'[j] = private[j]
      BY <1>7, <1>8, <3>1
    <3>3. alive \subseteq alive'
      BY <1>4
    <3> QED BY <3>1, <3>2, <3>3
  <2>3. CASE \E j \in ({k} \union P) \intersect Disposable : x = <<j, built[j] + 1>>
    <3>1. PICK j \in ({k} \union P) \intersect Disposable : x = <<j, built[j] + 1>>
      BY <2>3
    <3>2. shared'[k] = built[k] + 1 /\ shared'[k] # 0
      BY <1>6, <1>8
    <3>3. CASE j = k
      BY <3>1, <3>2, <3>3
    <3>4. CASE j \in P
      <4>1. x \in private'[k]
        BY <1>8, <3>1, <3>4
      <4>2. k \in Disposable
        <5>1. k = "query" \/ k = "accessControl"
          BY <1>2, <3>4 DEF PrivateOf
        <5> QED BY <5>1, DisposeTable DEF DisposeOrder
      <4>3. <<k, shared'[k]>> \in alive'
        BY <1>4, <3>2, <4>2
      <4> QED BY <3>2, <4>1, <4>3
    <3> QED BY <3>1, <3>3, <3>4
  <2> QED BY <1>11, <2>2, <2>3
<1>14. Passed'
  BY <1>1 DEF Passed
<1> QED BY <1>7, <1>9, <1>10, <1>12, <1>13, <1>14 DEF IInv

LEMMA UseCapabilityStep == ASSUME IInv, NEW k \in Keys, UseCapability(k) PROVE IInv'
<1>1. /\ phase \in {"ready", "disposed"} /\ shared[k] # 0
      /\ UNCHANGED <<adapter, style, profile, phase, pos, shared, private>>
  BY DEF UseCapability, input
<1>2. UNCHANGED <<lazy, built, alive>>
  <2>1. CASE style = "lazy"
    <3>1. Included(k)
      BY <1>1 DEF IInv, Composed
    <3>2. ASSUME NEW j \in NeedsToRun(k) PROVE lazy[j] # 0
      <4>1. j \in Keys /\ Included(j)
        BY <3>1, NeedsAreIncluded DEF IInv, Shapes
      <4>2. shared[j] # 0
        BY <1>1, <4>1 DEF IInv, Composed
      <4> QED BY <2>1, <4>1, <4>2 DEF IInv, OnDemand
    <3>3. Missing(NeedsToRun(k)) = {}
      BY <3>2 DEF Missing
    <3>4. BuildLazily(NeedsToRun(k))
      BY <2>1 DEF UseCapability
    <3>5. /\ lazy' = [j \in Keys |-> lazy[j]]
          /\ built' = [j \in Keys |-> built[j]]
          /\ alive' = alive
      BY <3>3, <3>4 DEF BuildLazily
    <3> QED BY <3>5 DEF IInv, Shapes
  <2>2. CASE style # "lazy"
    BY <2>2 DEF UseCapability
  <2> QED BY <2>1, <2>2
<1> QED BY <1>1, <1>2 DEF IInv, Shapes, Composed, Included, OnDemand, Numbered, Owned, Live, Passed

(* Disposing an instance in the cache leaves every other with its owner.    *)
LEMMA DisposedInstance ==
    ASSUME IInv, NEW k \in Keys, shared[k] # 0, DisposeInstance(k),
           UNCHANGED <<shared, private>>
    PROVE  Owned' /\ alive' \subseteq alive /\ <<k, shared[k]>> \notin alive'
<1>1. alive' = alive \ ({<<k, shared[k]>>} \union private[k])
  BY DEF DisposeInstance
<1>2. ASSUME NEW j \in Keys, j # k, <<j, shared[j]>> \in alive
      PROVE  <<j, shared[j]>> \in alive'
  <2>1. <<j, shared[j]>> \notin private[k]
    BY DEF IInv, Numbered
  <2> QED BY <1>1, <1>2, <2>1
<1>3. ASSUME NEW x \in alive'
      PROVE  \E j \in Keys : /\ shared[j] # 0
                             /\ x = <<j, shared[j]>> \/ (<<j, shared[j]>> \in alive' /\ x \in private[j])
  <2>1. PICK j \in Keys : /\ shared[j] # 0
                          /\ x = <<j, shared[j]>> \/ (<<j, shared[j]>> \in alive /\ x \in private[j])
    BY <1>1, <1>3 DEF IInv, Owned, Live
  <2>2. j # k
    BY <1>1, <1>3, <2>1
  <2> QED BY <1>2, <2>1, <2>2
<1> QED BY <1>1, <1>3 DEF Owned, Live

LEMMA DisposeCapabilityStep == ASSUME IInv, NEW k \in Keys, DisposeCapability(k) PROVE IInv'
<1>1. /\ phase = "ready" /\ shared[k] # 0 /\ DisposeInstance(k)
      /\ UNCHANGED <<adapter, style, profile, phase, pos, shared, lazy, built, private>>
  BY DEF DisposeCapability, input
<1>2. Owned' /\ alive' \subseteq alive
  BY <1>1, DisposedInstance
<1>3. Shapes' /\ Composed' /\ OnDemand' /\ Numbered' /\ Passed'
  BY <1>1, <1>2 DEF IInv, Shapes, Composed, Included, OnDemand, Numbered, Passed
<1> QED BY <1>2, <1>3 DEF IInv

LEMMA DisposeNextStep == ASSUME IInv, DisposeNext PROVE IInv'
<1>1. /\ phase = "disposing" /\ pos \in 1..10 /\ pos' = pos + 1
      /\ UNCHANGED <<adapter, style, profile, phase, shared, lazy, built, private>>
  BY DisposeTable DEF DisposeNext, input, IInv, Shapes
<1>2. PICK k \in Keys : k = DisposeOrder[pos]
  BY <1>1, DisposeTable, DisposableKeys
<1>3. Owned' /\ alive' \subseteq alive /\ ~(shared[k] # 0 /\ <<k, shared[k]>> \in alive')
  <2>1. CASE shared[k] # 0 /\ Live(k)
    <3>1. DisposeInstance(k)
      BY <1>2, <2>1 DEF DisposeNext
    <3> QED BY <1>1, <2>1, <3>1, DisposedInstance
  <2>2. CASE ~(shared[k] # 0 /\ Live(k))
    <3>1. UNCHANGED alive
      BY <1>2, <2>2 DEF DisposeNext
    <3> QED BY <1>1, <2>2, <3>1 DEF IInv, Owned, Live
  <2> QED BY <2>1, <2>2
<1>4. pos' \in 1 .. Len(BuildOrder) + 1
  BY <1>1, BuildTable
<1>5. Shapes' /\ Composed' /\ OnDemand' /\ Numbered'
  BY <1>1, <1>3, <1>4 DEF IInv, Shapes, Composed, Included, OnDemand, Numbered
<1>6. Passed'
  <2>1. ASSUME NEW i \in 1..10, i < pos + 1
        PROVE  ~(shared[DisposeOrder[i]] # 0 /\ <<DisposeOrder[i], shared[DisposeOrder[i]]>> \in alive')
    <3>1. CASE i = pos
      BY <1>2, <1>3, <3>1
    <3>2. CASE i < pos
      BY <1>1, <1>3, <3>2, DisposeTable DEF IInv, Passed, Live
    <3> QED BY <1>1, <2>1, <3>1, <3>2
  <2> QED BY <1>1, <2>1, DisposeTable DEF Passed, Live
<1> QED BY <1>3, <1>5, <1>6 DEF IInv

LEMMA NextHolds == ASSUME IInv, [Next]_vars PROVE IInv'
<1>1. ASSUME NEW k \in Keys,
             SkipCapability(k) \/ ComposeLazy(k) \/ ComposeStatic(k) \/ ComposeFails(k)
      PROVE  IInv'
  BY <1>1, SkipCapabilityStep, ComposeLazyStep, ComposeStaticStep, ComposeFailsStep
<1>2. ASSUME NEW k \in Keys, UseCapability(k) \/ DisposeCapability(k) PROVE IInv'
  BY <1>2, UseCapabilityStep, DisposeCapabilityStep
<1>3. CASE UNCHANGED vars
  BY <1>3 DEF vars, IInv, Shapes, Composed, Included, OnDemand, Numbered, Owned, Live, Passed
<1> QED BY <1>1, <1>2, <1>3, CreateRuntimeStep, RuntimeReadyStep, DisposeRuntimeStep,
           DisposeNextStep, RuntimeDisposedStep DEF Next

-----------------------------------------------------------------------------
(* The theorems *)

(* IInv holds from createRuntime to dispose(). *)
THEOREM Invariance == Spec => []IInv
<1>1. Init => IInv
  BY InitHolds
<1>2. IInv /\ [Next]_vars => IInv'
  BY NextHolds
<1> QED BY <1>1, <1>2, PTL DEF Spec

(* What the runs state of a runtime follows. *)
LEMMA InvariantImplies == ASSUME IInv PROVE OneInstance /\ AllReleased
BY DEF IInv, OnDemand, Passed, OneInstance, AllReleased, Shapes

(* Every variable keeps its type, whatever the bound on uses.               *)
THEOREM TypeCorrect == ASSUME MaxUses \in Nat PROVE Spec => []TypeOK
<1>1. Init => Rest
  BY DEF Init, Rest
<1>2. Rest /\ [Next]_vars => Rest'
  <2>1. SUFFICES ASSUME Rest, [Next]_vars PROVE Rest'
    OBVIOUS
  <2>2. CASE \E k \in Keys : ComposeLazy(k) \/ ComposeStatic(k)
    BY <2>1, <2>2 DEF Rest, ComposeLazy, ComposeStatic, Guard, input
  <2>3. CASE \E k \in Keys : UseCapability(k)
    BY <2>1, <2>3 DEF Rest, UseCapability, input
  <2>4. CASE (\E k \in Keys : DisposeCapability(k)) \/ DisposeNext
    BY <2>1, <2>4 DEF Rest, DisposeCapability, DisposeNext, DisposeInstance, input
  <2>5. CASE \/ CreateRuntime \/ RuntimeReady \/ DisposeRuntime \/ RuntimeDisposed
             \/ \E k \in Keys : SkipCapability(k) \/ ComposeFails(k)
             \/ UNCHANGED vars
    BY <2>1, <2>5 DEF Rest, CreateRuntime, RuntimeReady, DisposeRuntime, RuntimeDisposed,
                      SkipCapability, ComposeFails, input, vars
  <2> QED BY <2>1, <2>2, <2>3, <2>4, <2>5 DEF Next
<1>3. IInv /\ Rest => TypeOK
  BY DEF IInv, Shapes, Rest, TypeOK
<1> QED BY <1>1, <1>2, <1>3, Invariance, PTL DEF Spec

(* dispose() of a runtime reaches every capability object the runtime or its
   factories built, by whichever way they were asked for it
   (profile-runtime.ts, runtime-factories.ts).                              *)
THEOREM EverythingReleased == Spec => []AllReleased
<1>1. IInv => AllReleased
  BY InvariantImplies
<1> QED BY <1>1, Invariance, PTL

(* With createRuntime no capability is built twice (runtime-factories.ts).  *)
THEOREM BuiltOnce == Spec => []OneInstance
<1>1. IInv => OneInstance
  BY InvariantImplies
<1> QED BY <1>1, Invariance, PTL

===============================================================================
