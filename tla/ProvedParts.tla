------------------------------ MODULE ProvedParts ------------------------------
(***************************************************************************)
(* Those of the parts of AdapterParts that are proved about: a Stellar      *)
(* write (StellarExecution), names (NameResolution), the loading of an ABI  *)
(* (AbiLoading), the pending transfers of contracts (EvmTransfers,          *)
(* StellarTransfers), the EVM connect dialog (WagmiDialog), the             *)
(* subscription to wagmi's account (WagmiWatching), the connecting of a     *)
(* Stellar wallet (StellarConnecting), the Midnight wallet (MidnightWallet),*)
(* Stellar roles (StellarRoles) and their grants (StellarGrants), relayers  *)
(* and what they are sent (Relayers), the history of a contract             *)
(* (AccessHistory), two ABIs compared (AbiComparison), a runtime            *)
(* (ProfileRuntime), and Midnight calls (MidnightExecution), while          *)
(* contracts are loaded and with secrets of several names.  A behaviour is  *)
(* of one part, chosen at the start, so that the parts can use the same     *)
(* variables.                                                               *)
(*                                                                         *)
(* For each of them there is an inductive invariant, which holds at its     *)
(* start and is kept by its steps, for every value of the constants: of a   *)
(* runtime and of Midnight calls it is proved in the modules of their       *)
(* proofs, of the others here.  The end of the module puts them together.   *)
(***************************************************************************)
EXTENDS Naturals, Sequences, SequenceTheorems, FiniteSetTheorems, Selecting, TLAPS

CONSTANTS Wallets, MaxKits, MaxAttempts                         \* a Stellar write
CONSTANT Calls                                                  \* names
CONSTANT MaxUpgrades                                            \* ABIs
CONSTANTS Accounts, MaxStarts, MaxMoves                         \* EVM transfers
CONSTANTS Addresses, MaxLedger, MaxEvents                       \* Stellar transfers
CONSTANT MaxUses                                                \* a runtime
CONSTANTS Contracts, Pure, Writes, Queries, Names, MaxLoads     \* Midnight calls
CONSTANT Writers                                                \* Midnight writes alone
CONSTANTS MaxConfigs, MaxWatchers                               \* wagmi's subscription
CONSTANTS LaceAccounts, MaxClicks, MaxPolls                     \* the Midnight wallet
CONSTANTS Readers, KnownIds, Emitted, MaxSettings, MaxContexts, MaxTurns     \* Stellar roles
CONSTANTS Ids, PageSize, MaxChanges                             \* relayers
CONSTANTS LogSize, OfAnyKind, MaxBlock, MaxLimit, MaxLag        \* the history of a contract
CONSTANT MaxItems                                               \* two ABIs

ASSUME BoundsAssumption ==
    {MaxKits, MaxAttempts, MaxUpgrades, MaxStarts, MaxMoves, MaxLedger, MaxEvents,
     MaxUses, MaxLoads} \subseteq Nat
ASSUME WalletBoundsAssumption == {MaxConfigs, MaxWatchers, MaxClicks, MaxPolls} \subseteq Nat
ASSUME RoleBoundsAssumption == {MaxSettings, MaxContexts, MaxTurns} \subseteq Nat
ASSUME ChangesAssumption == MaxChanges \in Nat
ASSUME ItemsAssumption == MaxItems \in Nat
ASSUME LogAssumption == {LogSize, OfAnyKind, MaxBlock, MaxLimit, MaxLag} \subseteq Nat

\* The members of a role can be counted.
ASSUME AccountsAssumption == IsFiniteSet(Accounts)

\* A service's relayers can be counted, and a page of them holds some.
ASSUME SizesAssumption == IsFiniteSet(Ids) /\ PageSize \in Nat \ {0}

\* No wallet is called what no wallet is.
ASSUME WalletsAssumption == "none" \notin Wallets

\* A secret has a name.
ASSUME NamesAssumption == Names # {}

VARIABLES
    part,                                       \* the part that moves
    s1, s2, s3, s4, s5, s6, s7,                 \* its state
    s8, s9, s10, s11, s12, s13, s14

Write == INSTANCE StellarExecution
           WITH kits <- s1, wallet <- s2, asking <- s3, write <- s4, network <- s5, relay <- s6
Ens == INSTANCE NameResolution WITH config <- s1, call <- s2
Abis == INSTANCE AbiLoading
          WITH setup <- s1, chain <- s2, load <- s3, late <- s4, heard <- s5
Evm == INSTANCE EvmTransfers
         WITH kind <- s1, chain <- s2, starts <- s3, indexed <- s4, sent <- s5, call <- s6
Stellar == INSTANCE StellarTransfers
             WITH kind <- s1, chain <- s2, events <- s3, indexed <- s4, call <- s5

--------------------
(* A Stellar write: s1 is kits, s2 wallet, s3 asking, s4 write, s5 network, *)
(* s6 relay.                                                               *)

LEMMA WriteInit == ASSUME Write!Init PROVE Write!TypeOK /\ Write!WriteFits
<1>1. 0 \in Write!Kits /\ 0 \in 0 .. MaxAttempts
  BY BoundsAssumption DEF Write!Kits
<1>2. Write!TypeOK
  BY <1>1 DEF Write!Init, Write!TypeOK, Write!OrNone, Write!NoOne, Write!Operations, Write!Methods, Write!Whys
<1>3. Write!WriteFits
  BY DEF Write!Init, Write!WriteFits, Write!NoOne, Write!HashIsEarned
<1> QED BY <1>2, <1>3

(* The user's steps leave the write alone. *)
LEMMA WriteUser ==
    ASSUME Write!TypeOK, Write!WriteFits, Write!User
    PROVE  Write!TypeOK' /\ Write!WriteFits'
<1>1. UNCHANGED <<s4, s5, s6>>
  BY DEF Write!User, Write!Connect, Write!Connected, Write!ButtonConnects, Write!Disconnect,
         Write!ButtonDisconnects, Write!Configure, Write!ShowButton, Write!outside
<1>2. Write!WriteFits'
  BY <1>1 DEF Write!WriteFits, Write!HashIsEarned
<1>3. s1' \in [selected : [Write!Kits -> Write!OrNone(Wallets)], active : Write!Kits,
               made : Write!Kits, button : Write!Kits]
  <2>1. CASE \E w \in Wallets : Write!Connect(w) \/ Write!ButtonConnects(w)
    BY <2>1 DEF Write!TypeOK, Write!Connect, Write!ButtonConnects, Write!OrNone, Write!KitToUse
  <2>2. CASE Write!Configure
    <3>1. 0 \in Write!Kits /\ (s1.made < MaxKits => s1.made + 1 \in Write!Kits)
      BY BoundsAssumption DEF Write!TypeOK, Write!Kits
    <3> QED BY <2>2, <3>1 DEF Write!TypeOK, Write!Configure
  <2>3. CASE Write!ShowButton
    BY <2>3 DEF Write!TypeOK, Write!ShowButton
  <2>4. CASE (\E w \in Wallets : Write!Connected(w)) \/ Write!Disconnect \/ Write!ButtonDisconnects
    BY <2>4 DEF Write!TypeOK, Write!Connected, Write!Disconnect, Write!ButtonDisconnects
  <2> QED BY <2>1, <2>2, <2>3, <2>4 DEF Write!User
<1>4. s2' \in [address : Write!OrNone(Wallets), id : Write!OrNone(Wallets), connecting : BOOLEAN]
  <2>0. /\ s2 \in [address : Write!OrNone(Wallets), id : Write!OrNone(Wallets), connecting : BOOLEAN]
        /\ Write!NoOne \in Write!OrNone(Wallets)
        /\ \A w \in Wallets : w \in Write!OrNone(Wallets)
        /\ TRUE \in BOOLEAN /\ FALSE \in BOOLEAN
    BY DEF Write!TypeOK, Write!OrNone
  <2>1. CASE s2' = [s2 EXCEPT !.connecting = TRUE] \/ s2' = [s2 EXCEPT !.connecting = FALSE]
    BY <2>0, <2>1
  <2>2. CASE \E w \in Wallets : s2' = [address |-> w, id |-> w, connecting |-> FALSE]
    BY <2>0, <2>2
  <2>3. CASE s2' = [address |-> Write!NoOne, id |-> Write!NoOne, connecting |-> FALSE]
    BY <2>0, <2>3
  <2>4. CASE \E w \in Wallets \cup {Write!NoOne} : s2' = [s2 EXCEPT !.address = w, !.id = Write!NoOne]
    BY <2>0, <2>4
  <2>5. CASE UNCHANGED s2
    BY <2>0, <2>5
  <2>6. ASSUME NEW w \in Wallets, Write!Connect(w) \/ Write!Connected(w) \/ Write!ButtonConnects(w)
        PROVE  s2' \in [address : Write!OrNone(Wallets), id : Write!OrNone(Wallets), connecting : BOOLEAN]
    BY <2>1, <2>2, <2>4, <2>6 DEF Write!Connect, Write!Connected, Write!ButtonConnects
  <2>7. CASE Write!Disconnect \/ Write!ButtonDisconnects
    BY <2>3, <2>4, <2>7 DEF Write!Disconnect, Write!ButtonDisconnects
  <2>8. CASE Write!Configure \/ Write!ShowButton
    BY <2>5, <2>8 DEF Write!Configure, Write!ShowButton
  <2> QED BY <2>6, <2>7, <2>8 DEF Write!User
<1>5. s3' \subseteq Wallets
  BY DEF Write!TypeOK, Write!User, Write!Connect, Write!Connected, Write!ButtonConnects,
         Write!Disconnect, Write!ButtonDisconnects, Write!Configure, Write!ShowButton
<1> QED BY <1>1, <1>2, <1>3, <1>4, <1>5 DEF Write!TypeOK

(* The steps of the write itself. *)
WriteRecord ==
    [pc : {"idle", "begun", "sign", "hand", "confirm", "poll", "done"},
     op : Write!Operations, method : Write!Methods, source : Write!OrNone(Wallets),
     caller : Write!OrNone(Wallets \cup {Write!Placeholder}), signer : Write!OrNone(Wallets),
     attempts : 0 .. MaxAttempts, answer : {Write!NoOne, "hash", "thrown"}, why : Write!Whys]

(* A write that throws, and one that is answered a hash, keep their shape.  *)
LEMMA WriteEnds ==
    ASSUME NEW why \in Write!Whys, s4 \in WriteRecord
    PROVE  /\ Write!Threw(why) =>
                /\ s4' \in WriteRecord
                /\ s4'.pc = "done" /\ s4'.answer = "thrown" /\ s4'.why = why
                /\ s4'.method = s4.method
           /\ Write!HashReturned =>
                /\ s4' \in WriteRecord
                /\ s4'.pc = "done" /\ s4'.answer = "hash" /\ s4'.method = s4.method
BY DEF Write!Threw, Write!HashReturned, WriteRecord

(* One that reads again keeps all but its attempts. *)
LEMMA WriteReadsOn ==
    ASSUME s4 \in WriteRecord, s4.attempts < MaxAttempts, s4' = [s4 EXCEPT !.attempts = @ + 1]
    PROVE  /\ s4' \in WriteRecord
           /\ s4'.pc = s4.pc /\ s4'.answer = s4.answer /\ s4'.why = s4.why /\ s4'.method = s4.method
<1>1. s4.attempts + 1 \in 0 .. MaxAttempts
  BY BoundsAssumption DEF WriteRecord
<1> QED BY <1>1 DEF WriteRecord

LEMMA WriteWriting ==
    ASSUME Write!TypeOK, Write!WriteFits, Write!Writing
    PROVE  Write!TypeOK' /\ Write!WriteFits'
<1>1. /\ s4 \in WriteRecord
      /\ s5 \in {Write!NoOne, "submitted", "mined", "failed"}
      /\ s6 \in {Write!NoOne, "pending", "sent", "mined", "confirmed", "failed", "canceled", "expired"}
  BY DEF Write!TypeOK, WriteRecord
<1>2. UNCHANGED <<s1, s2, s3>>
  BY DEF Write!Writing, Write!grantRole, Write!revokeRole, Write!transferOwnership,
         Write!acceptOwnership, Write!transferAdminRole, Write!acceptAdminTransfer, Write!Writer,
         Write!Begin, Write!Refuse, Write!TakeSource, Write!Prepare, Write!PrepareOperations,
         Write!Sign, Write!Send, Write!SendViaRelayer, Write!Confirm, Write!Poll, Write!userVars
<1>3. SUFFICES /\ s4' \in WriteRecord
               /\ s5' \in {Write!NoOne, "submitted", "mined", "failed"}
               /\ s6' \in {Write!NoOne, "pending", "sent", "mined", "confirmed", "failed",
                           "canceled", "expired"}
               /\ Write!WriteFits'
  BY <1>2 DEF Write!TypeOK, WriteRecord
<1>4. ASSUME NEW op \in Write!Operations, NEW method \in Write!Methods, Write!Writer(op, method)
      PROVE  s4' \in WriteRecord /\ UNCHANGED <<s5, s6>> /\ Write!WriteFits'
  <2>1. UNCHANGED <<s5, s6>> /\ s4.pc = "idle"
    BY <1>4 DEF Write!Writer, Write!Begin, Write!Refuse, Write!outside
  <2>2. CASE Write!Begin(op, method)
    <3>1. /\ s4' \in WriteRecord /\ s4'.pc = "begun" /\ s4'.answer = s4.answer
          /\ s4'.method = method
      BY <1>1, <2>2 DEF Write!Begin, WriteRecord
    <3> QED BY <2>1, <3>1 DEF Write!WriteFits, Write!HashIsEarned, Write!NoOne
  <2>3. CASE Write!Refuse(op, method)
    <3>1. /\ s4' \in WriteRecord /\ s4'.pc = "done" /\ s4'.answer = "thrown"
          /\ s4'.method = method /\ s4'.why = "refused"
      BY <1>1, <2>3 DEF Write!Refuse, WriteRecord, Write!Whys
    <3> QED BY <2>1, <3>1 DEF Write!WriteFits, Write!HashIsEarned, Write!NoOne
  <2> QED BY <1>4, <2>2, <2>3 DEF Write!Writer
<1>5. CASE Write!TakeSource \/ Write!Prepare \/ Write!PrepareOperations \/ Write!Sign
  <2>1. UNCHANGED <<s5, s6>> /\ s4.pc \in {"begun", "sign"}
    BY <1>5 DEF Write!TakeSource, Write!Prepare, Write!PrepareOperations, Write!Sign, Write!outside
  <2>2. \/ \E why \in Write!Whys : Write!Threw(why)
        \/ /\ s4' \in WriteRecord /\ s4'.pc \in {"begun", "sign", "hand"}
           /\ s4'.answer = s4.answer /\ s4'.method = s4.method
    <3>1. CASE Write!TakeSource
      BY <1>1, <3>1 DEF Write!TakeSource, Write!TypeOK, WriteRecord, Write!Whys, Write!OrNone
    <3>2. CASE Write!Prepare
      BY <1>1, <3>2 DEF Write!Prepare, WriteRecord, Write!Whys, Write!OrNone, Write!ResolveCaller
    <3>3. CASE Write!PrepareOperations
      <4>1. ASSUME NEW caller \in {Write!Placeholder, Write!NoOne},
                   s4' = [s4 EXCEPT !.pc = "hand", !.caller = caller]
            PROVE  /\ s4' \in WriteRecord /\ s4'.pc = "hand"
                   /\ s4'.answer = s4.answer /\ s4'.method = s4.method
        BY <1>1, <4>1 DEF WriteRecord, Write!OrNone
      <4>2. \/ Write!Threw("args")
            \/ \E caller \in {Write!Placeholder, Write!NoOne} : s4' = [s4 EXCEPT !.pc = "hand", !.caller = caller]
        BY <3>3 DEF Write!PrepareOperations
      <4> QED BY <4>1, <4>2 DEF Write!Whys
    <3>4. CASE Write!Sign
      <4>1. s1.selected[Write!KitToUse] \in Write!OrNone(Wallets)
        BY DEF Write!TypeOK, Write!KitToUse
      <4>2. Write!Threw("sign") \/ s4' = [s4 EXCEPT !.pc = "hand", !.signer = s1.selected[Write!KitToUse]]
        BY <3>4 DEF Write!Sign
      <4> HIDE DEF Write!KitToUse
      <4>3. CASE s4' = [s4 EXCEPT !.pc = "hand", !.signer = s1.selected[Write!KitToUse]]
        BY <1>1, <4>1, <4>3 DEF WriteRecord
      <4> QED BY <4>2, <4>3 DEF Write!Whys
    <3> QED BY <1>5, <3>1, <3>2, <3>3, <3>4
  <2>3. CASE \E why \in Write!Whys : Write!Threw(why)
    BY <1>1, <2>1, <2>3, WriteEnds DEF Write!WriteFits, Write!HashIsEarned, Write!NoOne
  <2>4. CASE s4' \in WriteRecord /\ s4'.pc \in {"begun", "sign", "hand"}
             /\ s4'.answer = s4.answer /\ s4'.method = s4.method
    BY <1>1, <2>1, <2>4 DEF Write!WriteFits, Write!HashIsEarned, Write!NoOne
  <2> QED BY <1>1, <2>1, <2>2, <2>3, <2>4, WriteEnds
<1>6. CASE Write!Send
  <2>1. s4.pc = "hand" /\ s4.method = "eoa" /\ UNCHANGED s6
    BY <1>6 DEF Write!Send
  <2>2. CASE s4' = [s4 EXCEPT !.pc = "confirm"] /\ s5' = "submitted"
    <3>1. s4' \in WriteRecord /\ s4'.pc = "confirm" /\ s4'.answer = s4.answer /\ s4'.method = "eoa"
      BY <1>1, <2>1, <2>2 DEF WriteRecord
    <3> QED BY <1>1, <2>1, <2>2, <3>1 DEF Write!WriteFits, Write!HashIsEarned, Write!NoOne
  <2>3. CASE Write!Threw("notAccepted") /\ UNCHANGED s5
    <3>1. "notAccepted" \in Write!Whys
      BY DEF Write!Whys
    <3> QED BY <1>1, <2>1, <2>3, <3>1, WriteEnds DEF Write!WriteFits, Write!HashIsEarned, Write!NoOne
  <2>4. CASE Write!Threw("sendLost") /\ s5' \in {s5, "submitted"}
    <3>1. "sendLost" \in Write!Whys /\ "sendLost" \in Write!Unsettled
      BY DEF Write!Whys, Write!Unsettled
    <3> QED BY <1>1, <2>1, <2>4, <3>1, WriteEnds DEF Write!WriteFits, Write!HashIsEarned, Write!NoOne
  <2> QED BY <1>6, <2>2, <2>3, <2>4 DEF Write!Send
<1>7. CASE Write!SendViaRelayer
  <2>1. s4.pc = "hand" /\ s4.method # "eoa" /\ UNCHANGED s5
    BY <1>7 DEF Write!SendViaRelayer
  <2>2. CASE s4' = [s4 EXCEPT !.pc = "poll"] /\ s6' = "pending"
    <3>1. s4' \in WriteRecord /\ s4'.pc = "poll" /\ s4'.answer = s4.answer /\ s4'.method = s4.method
      BY <1>1, <2>1, <2>2 DEF WriteRecord
    <3> QED BY <1>1, <2>1, <2>2, <3>1 DEF Write!WriteFits, Write!HashIsEarned, Write!NoOne
  <2>3. CASE Write!Threw("notAccepted") /\ UNCHANGED s6
    <3>1. "notAccepted" \in Write!Whys
      BY DEF Write!Whys
    <3> QED BY <1>1, <2>1, <2>3, <3>1, WriteEnds DEF Write!WriteFits, Write!HashIsEarned, Write!NoOne
  <2>4. CASE Write!Threw("sendLost") /\ s6' \in {s6, "pending"}
    <3>1. "sendLost" \in Write!Whys /\ "sendLost" \in Write!Unsettled
      BY DEF Write!Whys, Write!Unsettled
    <3> QED BY <1>1, <2>1, <2>4, <3>1, WriteEnds DEF Write!WriteFits, Write!HashIsEarned, Write!NoOne
  <2> QED BY <1>7, <2>2, <2>3, <2>4 DEF Write!SendViaRelayer
<1>8. CASE Write!Confirm
  <2>1. s4.pc = "confirm" /\ UNCHANGED <<s5, s6>>
    BY <1>8 DEF Write!Confirm, Write!outside
  <2>2. Write!HashReturned \/ (s4.attempts < MaxAttempts /\ s4' = [s4 EXCEPT !.attempts = @ + 1])
    BY <1>8 DEF Write!Confirm, Write!GiveUpConfirming
  <2>3. "refused" \in Write!Whys
    BY DEF Write!Whys
  <2>4. CASE Write!HashReturned
    BY <1>1, <2>1, <2>3, <2>4, WriteEnds DEF Write!WriteFits, Write!HashIsEarned, Write!NoOne
  <2>5. CASE s4.attempts < MaxAttempts /\ s4' = [s4 EXCEPT !.attempts = @ + 1]
    BY <1>1, <2>1, <2>5, WriteReadsOn DEF Write!WriteFits, Write!HashIsEarned, Write!NoOne
  <2> QED BY <2>2, <2>4, <2>5
<1>9. CASE Write!Poll
  <2>1. s4.pc = "poll" /\ UNCHANGED <<s5, s6>>
    BY <1>9 DEF Write!Poll, Write!outside
  <2>2. {"pollFailed", "noHash", "rejected", "pollTimeout"} \subseteq Write!Whys
        /\ {"pollFailed", "noHash", "pollTimeout"} \subseteq Write!Unsettled
    BY DEF Write!Whys, Write!Unsettled
  <2>3. CASE \E why \in {"pollFailed", "noHash", "pollTimeout"} : Write!Threw(why)
    BY <1>1, <2>1, <2>2, <2>3, WriteEnds DEF Write!WriteFits, Write!HashIsEarned, Write!NoOne
  <2>4. CASE Write!Final(s6) /\ Write!HashReturned
    BY <1>1, <2>1, <2>2, <2>4, WriteEnds DEF Write!WriteFits, Write!HashIsEarned, Write!NoOne, Write!Final
  <2>5. CASE s6 \in {"failed", "canceled", "expired"} /\ Write!Threw("rejected")
    BY <1>1, <2>1, <2>2, <2>5, WriteEnds DEF Write!WriteFits, Write!HashIsEarned, Write!NoOne
  <2>6. CASE s4.attempts < MaxAttempts /\ s4' = [s4 EXCEPT !.attempts = @ + 1]
    BY <1>1, <2>1, <2>6, WriteReadsOn DEF Write!WriteFits, Write!HashIsEarned, Write!NoOne
  <2> QED BY <1>9, <2>3, <2>4, <2>5, <2>6 DEF Write!Poll
<1>10. {"role", "transfer"} \subseteq Write!Operations
  BY DEF Write!Operations
<1> QED BY <1>1, <1>4, <1>5, <1>6, <1>7, <1>8, <1>9, <1>10
        DEF Write!Writing, Write!grantRole, Write!revokeRole, Write!transferOwnership,
            Write!acceptOwnership, Write!transferAdminRole, Write!acceptAdminTransfer

(* The network and the relayer go on. *)
LEMMA WriteOutside ==
    ASSUME Write!TypeOK, Write!WriteFits, Write!Close \/ Write!Relay
    PROVE  Write!TypeOK' /\ Write!WriteFits'
<1>1. UNCHANGED <<s1, s2, s3, s4>>
  BY DEF Write!Close, Write!Relay, Write!userVars
<1>2. s5' \in {Write!NoOne, "submitted", "mined", "failed"}
  BY DEF Write!TypeOK, Write!Close, Write!Relay
<1>3. s6' \in {Write!NoOne, "pending", "sent", "mined", "confirmed", "failed", "canceled", "expired"}
  BY DEF Write!TypeOK, Write!Close, Write!Relay
<1>4. Write!WriteFits'
  BY <1>1 DEF Write!TypeOK, Write!WriteFits, Write!HashIsEarned, Write!NoOne, Write!Close, Write!Relay
<1> QED BY <1>1, <1>2, <1>3, <1>4 DEF Write!TypeOK

LEMMA WriteNext ==
    ASSUME Write!TypeOK, Write!WriteFits, [Write!Next]_(Write!vars)
    PROVE  Write!TypeOK' /\ Write!WriteFits'
<1>1. CASE UNCHANGED Write!vars
  BY <1>1 DEF Write!vars, Write!TypeOK, Write!WriteFits, Write!HashIsEarned
<1> QED BY <1>1, WriteUser, WriteWriting, WriteOutside DEF Write!Next

--------------------
(* Names.  Of one call NameFits says what is so while it asks (of which      *)
(* registries, and what the first one answered) and what it ended with.      *)

NameCalls ==
    [pc : {"idle", "asking", "avatar", "done"}, op : {"forward", "reverse"},
     tier : Ens!Tiers, coin : Ens!Coins, saw : BOOLEAN, attempts : Seq(Ens!Attempt), result : Ens!Result]

\* What the bound network said before L1 is asked behind it.
Missed(op) == Ens!Misses \cup (IF op = "forward" THEN {"invalid"} ELSE {"mismatch", "noProfile"})

\* L1 behind the bound network is asked after it only.
AskedBehind(k) ==
    \E b \in Ens!Attempt : /\ b.tier = "bound" /\ b.what \in Missed(k.op)
                           /\ k.attempts = <<b>>

NameAsks(k) ==
    /\ Ens!SupportsEns \/ k.tier = "l1"
    /\ IF k.tier = "l1" /\ Ens!SupportsEns THEN Ens!MayConsultL1 /\ AskedBehind(k)
       ELSE k.attempts = <<>>

\* A call that asked ended with the attempt a, of a registry behind another or not.
NameEnded(k) ==
    \E a \in Ens!Attempt :
      /\ a.tier = k.tier
      /\ IF k.tier = "l1" /\ Ens!SupportsEns
         THEN Ens!MayConsultL1 /\ \E b \in Ens!Attempt :
                b.tier = "bound" /\ b.what \in Missed(k.op) /\ k.attempts = <<b, a>>
         ELSE k.attempts = <<a>>
      /\ k.result.code \in {"NAME_NOT_FOUND", "ADDRESS_NOT_FOUND"} =>
           /\ a.what \in Ens!Answers \ {"value"}
           /\ Ens!MayConsultL1 => k.tier = "l1"
      /\ k.result.code = "EXTERNAL_GATEWAY_ERROR" => a.saw \/ a.what \in Ens!GatewayFailures
      /\ k.result.code = "RESOLUTION_TIMEOUT" => a.what = "timeout" /\ ~a.saw
      /\ a.saw /\ a.what \in {"timeout", "http"} => k.result.code = "EXTERNAL_GATEWAY_ERROR"

NameFits(k) ==
    /\ k \in NameCalls
    /\ k.pc = "idle" => k.attempts = <<>> /\ k.tier = "bound"
    /\ k.pc = "asking" => NameAsks(k)
    /\ k.pc = "avatar" => NameEnded(k) /\ k.result.code = "OK"
    /\ k.pc = "done" => NameEnded(k) \/ (k.attempts = <<>> /\ k.tier = "bound")

NamesFit == s1 \in Ens!Config /\ s2 \in [Calls -> {k \in NameCalls : NameFits(k)}]

LEMMA NameInit == ASSUME Ens!Init PROVE NamesFit
<1>1. Ens!Idle \in NameCalls /\ Ens!Idle.pc = "idle" /\ Ens!Idle.attempts = <<>> /\ Ens!Idle.tier = "bound"
  BY DEF Ens!Idle, Ens!Pending, Ens!Error, Ens!Result, Ens!Codes, NameCalls, Ens!Tiers, Ens!Coins
<1>2. NameFits(Ens!Idle)
  BY <1>1 DEF NameFits
<1> QED BY <1>1, <1>2 DEF NamesFit, Ens!Init

\* What the operators on a call's record make of it.
LEMMA NameRecords ==
    ASSUME NEW k \in NameCalls
    PROVE  /\ \A r \in Ens!Result :
                /\ Ens!Ended(k, r) \in NameCalls /\ Ens!Ended(k, r).pc = "done"
                /\ Ens!Ended(k, r).result = r /\ Ens!Ended(k, r).attempts = k.attempts
                /\ Ens!Ended(k, r).tier = k.tier /\ Ens!Ended(k, r).op = k.op
           /\ \A op \in {"forward", "reverse"}, tier \in Ens!Tiers, coin \in Ens!Coins :
                /\ Ens!Asking(k, op, tier, coin) \in NameCalls
                /\ Ens!Asking(k, op, tier, coin).pc = "asking"
                /\ Ens!Asking(k, op, tier, coin).tier = tier
                /\ Ens!Asking(k, op, tier, coin).op = op
                /\ Ens!Asking(k, op, tier, coin).attempts = k.attempts
<1>1. ASSUME NEW r \in Ens!Result
      PROVE  /\ Ens!Ended(k, r) \in NameCalls /\ Ens!Ended(k, r).pc = "done"
             /\ Ens!Ended(k, r).result = r /\ Ens!Ended(k, r).attempts = k.attempts
             /\ Ens!Ended(k, r).tier = k.tier /\ Ens!Ended(k, r).op = k.op
  BY DEF NameCalls, Ens!Ended
<1>2. ASSUME NEW op \in {"forward", "reverse"}, NEW tier \in Ens!Tiers, NEW coin \in Ens!Coins
      PROVE  /\ Ens!Asking(k, op, tier, coin) \in NameCalls
             /\ Ens!Asking(k, op, tier, coin).pc = "asking"
             /\ Ens!Asking(k, op, tier, coin).tier = tier
             /\ Ens!Asking(k, op, tier, coin).op = op
             /\ Ens!Asking(k, op, tier, coin).attempts = k.attempts
  BY DEF NameCalls, Ens!Asking
<1> QED BY <1>1, <1>2

LEMMA NameResults ==
    /\ \A code \in Ens!Codes : Ens!Error(code) \in Ens!Result /\ Ens!Error(code).code = code
    /\ \A tier \in Ens!Tiers, coin \in Ens!Coins, external \in BOOLEAN :
         /\ Ens!EnsValue(tier, coin, external) \in Ens!Result
         /\ Ens!EnsValue(tier, coin, external).code = "OK"
<1>1. \A code \in Ens!Codes : Ens!Error(code) \in Ens!Result /\ Ens!Error(code).code = code
  BY DEF Ens!Error, Ens!Result
<1>2. ASSUME NEW tier \in Ens!Tiers, NEW coin \in Ens!Coins, NEW external \in BOOLEAN
      PROVE  /\ Ens!EnsValue(tier, coin, external) \in Ens!Result
             /\ Ens!EnsValue(tier, coin, external).code = "OK"
  <2>1. <<tier, coin>> \in Ens!Tiers \X Ens!Coins
    OBVIOUS
  <2>2. PICK scoped \in BOOLEAN : scoped = (coin # "eth")
    OBVIOUS
  <2> QED BY <2>1, <2>2 DEF Ens!EnsValue, Ens!Pending, Ens!Error, Ens!Result, Ens!Codes
<1> QED BY <1>1, <1>2

LEMMA NameReverseValue ==
    ASSUME s1 \in Ens!Config, NEW tier \in Ens!Tiers, NEW external \in BOOLEAN
    PROVE  Ens!ReverseValue(tier, external) \in Ens!Result /\ Ens!ReverseValue(tier, external).code = "OK"
<1>1. CASE tier = "l1"
  BY <1>1, NameResults DEF Ens!ReverseValue, Ens!Coins
<1>2. CASE tier # "l1"
  <2>1. PICK r \in Ens!Result : r = Ens!EnsValue("bound", "eth", FALSE) /\ r.code = "OK"
    BY NameResults DEF Ens!Tiers, Ens!Coins
  <2>2. PICK scoped \in BOOLEAN : scoped = ~Ens!IsMainnetBound
    BY DEF Ens!IsMainnetBound, Ens!Config
  <2> QED BY <1>2, <2>1, <2>2 DEF Ens!ReverseValue, Ens!Result
<1> QED BY <1>1, <1>2

LEMMA NameFallback ==
    ASSUME s1 \in Ens!Config, NEW k \in NameCalls, NEW r \in Ens!Result
    PROVE  Ens!WithFallback(k, r) \in Ens!Result /\ Ens!WithFallback(k, r).code = r.code
<1>1. PICK fallback \in BOOLEAN : fallback = (k.tier = "l1" /\ Ens!SupportsEns)
  BY DEF Ens!SupportsEns, Ens!Config
<1> QED BY <1>1 DEF Ens!WithFallback, Ens!Result
\* The call's record after any of its steps.
LEMMA NameGoes ==
    ASSUME NamesFit, NEW c \in Calls, NEW k, NameFits(k), Ens!Steps(c, k) PROVE NamesFit'
<1>1. k \in NameCalls
  BY DEF NameFits
<1>2. s2' = [s2 EXCEPT ![c] = k] /\ s1' = s1
  BY DEF Ens!Steps
<1>3. \A x \in {y \in NameCalls : NameFits(y)} : NameFits(x)'
  BY <1>2 DEF NameFits, NameAsks, NameEnded, AskedBehind, Ens!MayConsultL1, Ens!SupportsEns,
              Ens!HasL1Client, Ens!IsMainnetBound
<1>4. s2' \in [Calls -> {y \in NameCalls : NameFits(y)}]
  BY <1>1, <1>2 DEF NamesFit
<1>5. {y \in NameCalls : NameFits(y)} \subseteq {y \in NameCalls : NameFits(y)'}
  BY <1>3
<1> QED BY <1>2, <1>4, <1>5 DEF NamesFit

LEMMA NameStarts ==
    ASSUME NamesFit, NEW c \in Calls, Ens!ResolveName(c) \/ Ens!ResolveAddress(c) PROVE NamesFit'
<1>1. /\ s2[c] \in NameCalls /\ NameFits(s2[c]) /\ s2[c].pc = "idle"
      /\ s2[c].attempts = <<>> /\ s2[c].tier = "bound"
  BY DEF NamesFit, NameFits, Ens!ResolveName, Ens!ResolveAddress
<1>2. ASSUME NEW k \in NameCalls, k.attempts = <<>>, k.tier = "bound",
             NEW code \in {"UNSUPPORTED_NETWORK", "UNSUPPORTED_NAME", "ADDRESS_NOT_FOUND"}
      PROVE  NameFits(Ens!Ended(k, Ens!Error(code)))
  <2>1. Ens!Error(code) \in Ens!Result
    BY NameResults DEF Ens!Codes
  <2> QED BY <1>2, <2>1, NameRecords DEF NameFits
<1>3. ASSUME NEW k \in NameCalls, k.attempts = <<>>, NEW op \in {"forward", "reverse"},
             NEW tier \in Ens!Tiers, NEW coin \in Ens!Coins, tier = "l1" <=> ~Ens!SupportsEns
      PROVE  NameFits(Ens!Asking(k, op, tier, coin))
  BY <1>3, NameRecords DEF NameFits, NameAsks
<1>4. {"eth", Ens!BoundCoin} \subseteq Ens!Coins /\ {"bound", "l1"} \subseteq Ens!Tiers
  BY DEF Ens!BoundCoin, Ens!Coins, Ens!Tiers
<1>5. ASSUME Ens!ResolveName(c) PROVE NamesFit'
  <2>1. PICK wellFormed \in BOOLEAN :
          Ens!Steps(c, Ens!ForwardStart([s2[c] EXCEPT !.op = "forward"], wellFormed))
    BY <1>5 DEF Ens!ResolveName
  <2>2. PICK k : k = [s2[c] EXCEPT !.op = "forward"]
    OBVIOUS
  <2>3. k \in NameCalls /\ k.attempts = <<>> /\ k.tier = "bound"
    BY <1>1, <2>2 DEF NameCalls
  <2>4. NameFits(Ens!ForwardStart(k, wellFormed))
    BY <1>2, <1>3, <1>4, <2>3 DEF Ens!ForwardStart
  <2> QED BY <2>1, <2>2, <2>4, NameGoes
<1>6. ASSUME Ens!ResolveAddress(c) PROVE NamesFit'
  <2>1. PICK wellFormed \in BOOLEAN :
          Ens!Steps(c, Ens!ReverseStart([s2[c] EXCEPT !.op = "reverse"], wellFormed))
    BY <1>6 DEF Ens!ResolveAddress
  <2>2. PICK k : k = [s2[c] EXCEPT !.op = "reverse"]
    OBVIOUS
  <2>3. k \in NameCalls /\ k.attempts = <<>> /\ k.tier = "bound"
    BY <1>1, <2>2 DEF NameCalls
  <2>4. NameFits(Ens!ReverseStart(k, wellFormed))
    BY <1>2, <1>3, <1>4, <2>3 DEF Ens!ReverseStart
  <2> QED BY <2>1, <2>2, <2>4, NameGoes
<1> QED BY <1>5, <1>6

LEMMA NameFollows == ASSUME NamesFit, NEW c \in Calls, Ens!FollowOffchain(c) PROVE NamesFit'
<1>1. NameFits(s2[c]) /\ s2[c].pc = "asking"
  BY DEF NamesFit, Ens!FollowOffchain
<1>2. PICK k : k = [s2[c] EXCEPT !.saw = TRUE]
  OBVIOUS
<1>3. /\ k \in NameCalls /\ k.pc = "asking" /\ k.attempts = s2[c].attempts
      /\ k.tier = s2[c].tier /\ k.op = s2[c].op
  BY <1>1, <1>2 DEF NameFits, NameCalls
<1>4. NameFits(k)
  BY <1>1, <1>3 DEF NameFits, NameAsks, AskedBehind
<1> QED BY <1>2, <1>4, NameGoes DEF Ens!FollowOffchain

\* What a call knows when its request has come to something.
HasAttempt(k, a) ==
    /\ k \in NameCalls /\ a \in Ens!Attempt /\ a.tier = k.tier
    /\ Ens!SupportsEns \/ k.tier = "l1"
    /\ IF k.tier = "l1" /\ Ens!SupportsEns
       THEN Ens!MayConsultL1 /\ \E b \in Ens!Attempt :
              b.tier = "bound" /\ b.what \in Missed(k.op) /\ k.attempts = <<b, a>>
       ELSE k.attempts = <<a>>

LEMMA Appended == ASSUME NEW a, NEW b PROVE Append(<<>>, a) = <<a>> /\ Append(<<b>>, a) = <<b, a>>
<1> DEFINE S == {a, b}
<1>1. <<>> \in Seq(S) /\ <<b>> \in Seq(S) /\ a \in S /\ <<a>> \in Seq(S) /\ <<b, a>> \in Seq(S)
  OBVIOUS
<1>2. Len(<<>>) = 0 /\ Len(<<b>>) = 1 /\ Len(<<a>>) = 1 /\ Len(<<b, a>>) = 2
      /\ <<b>>[1] = b /\ <<a>>[1] = a /\ <<b, a>>[1] = b /\ <<b, a>>[2] = a
  OBVIOUS
<1> HIDE DEF S
<1>3. Append(<<>>, a) = <<a>>
  <2>1. Append(<<>>, a) \in Seq(S) /\ Len(Append(<<>>, a)) = 1 /\ Append(<<>>, a)[1] = a
    BY <1>1, <1>2
  <2> QED BY <1>1, <1>2, <2>1
<1>4. Append(<<b>>, a) = <<b, a>>
  <2>1. Append(<<b>>, a) \in Seq(S) /\ Len(Append(<<b>>, a)) = 2
        /\ Append(<<b>>, a)[1] = b /\ Append(<<b>>, a)[2] = a
    BY <1>1, <1>2
  <2>2. \A i \in 1 .. 2 : Append(<<b>>, a)[i] = <<b, a>>[i]
    BY <1>2, <2>1
  <2> QED BY <1>1, <1>2, <2>1, <2>2, SeqEqual
<1> QED BY <1>3, <1>4

LEMMA Tuples ==
    ASSUME NEW a, NEW b
    PROVE  /\ Len(<<a>>) = 1 /\ DOMAIN <<a>> = {1} /\ <<a>>[1] = a
           /\ Len(<<a, b>>) = 2 /\ DOMAIN <<a, b>> = {1, 2} /\ <<a, b>>[1] = a /\ <<a, b>>[2] = b
  OBVIOUS

LEMMA NameAttempt ==
    ASSUME NEW k0, NameFits(k0), k0.pc = "asking", NEW what \in Ens!Answers \cup Ens!Failures,
           NEW a, a = [tier |-> k0.tier, coin |-> k0.coin, saw |-> k0.saw, what |-> what],
           NEW k, k = [k0 EXCEPT !.attempts = Append(@, a)]
    PROVE  HasAttempt(k, a) /\ k.op = k0.op /\ k.saw = a.saw
<1>1. k0 \in NameCalls /\ NameAsks(k0)
  BY DEF NameFits
<1>2. a \in Ens!Attempt
  BY <1>1 DEF NameCalls, Ens!Attempt
<1>3. /\ k \in NameCalls /\ k.attempts = Append(k0.attempts, a) /\ k.tier = k0.tier
      /\ k.op = k0.op /\ k.saw = k0.saw
  <2>1. PICK q \in Seq(Ens!Attempt) : q = Append(k0.attempts, a)
    BY <1>1, <1>2 DEF NameCalls
  <2>2. k = [k0 EXCEPT !.attempts = q]
    BY <2>1
  <2> QED BY <1>1, <2>1, <2>2 DEF NameCalls
<1>4. a.tier = k0.tier /\ a.saw = k0.saw
  OBVIOUS
<1>5. CASE k0.tier = "l1" /\ Ens!SupportsEns
  <2>1. PICK b \in Ens!Attempt : b.tier = "bound" /\ b.what \in Missed(k0.op) /\ k0.attempts = <<b>>
    BY <1>1, <1>5 DEF NameAsks, AskedBehind
  <2>2. k.attempts = <<b, a>>
    BY <1>3, <2>1, Appended
  <2> QED BY <1>1, <1>2, <1>3, <1>4, <1>5, <2>1, <2>2 DEF HasAttempt, NameAsks
<1>6. CASE ~(k0.tier = "l1" /\ Ens!SupportsEns)
  <2>1. k.attempts = <<a>>
    BY <1>1, <1>3, <1>6, Appended DEF NameAsks
  <2>2. Ens!SupportsEns \/ k0.tier = "l1"
    BY <1>1 DEF NameAsks
  <2> QED BY <1>2, <1>3, <1>4, <1>6, <2>1, <2>2 DEF HasAttempt
<1> QED BY <1>5, <1>6

\* It ends with a code that tells the attempt.
CodeTells(code, a, asked) ==
    /\ code \in {"NAME_NOT_FOUND", "ADDRESS_NOT_FOUND"} => a.what \in Ens!Answers \ {"value"} /\ asked
    /\ code = "EXTERNAL_GATEWAY_ERROR" => a.saw \/ a.what \in Ens!GatewayFailures
    /\ code = "RESOLUTION_TIMEOUT" => a.what = "timeout" /\ ~a.saw
    /\ a.saw /\ a.what \in {"timeout", "http"} => code = "EXTERNAL_GATEWAY_ERROR"

LEMMA NameEndsWith ==
    ASSUME NEW k, NEW a, HasAttempt(k, a), NEW r \in Ens!Result,
           CodeTells(r.code, a, Ens!MayConsultL1 => k.tier = "l1")
    PROVE  NameFits(Ens!Ended(k, r))
<1>1. k \in NameCalls
  BY DEF HasAttempt
<1>2. PICK e : e = Ens!Ended(k, r)
  OBVIOUS
<1>3. /\ e \in NameCalls /\ e.pc = "done" /\ e.result = r /\ e.attempts = k.attempts
      /\ e.tier = k.tier /\ e.op = k.op
  BY <1>1, <1>2, NameRecords
<1>4. NameEnded(e)
  BY <1>3 DEF NameEnded, HasAttempt, CodeTells
<1> QED BY <1>2, <1>3, <1>4 DEF NameFits

LEMMA NameRequestEnds == ASSUME NamesFit, NEW c \in Calls, Ens!RequestEnds(c) PROVE NamesFit'
<1>1. NameFits(s2[c]) /\ s2[c].pc = "asking" /\ s2[c] \in NameCalls /\ s1 \in Ens!Config
  BY DEF NamesFit, Ens!RequestEnds
<1>2. PICK what \in Ens!Answers \cup Ens!Failures :
        LET k == [s2[c] EXCEPT !.attempts = Append(@,
                    [tier |-> s2[c].tier, coin |-> s2[c].coin, saw |-> s2[c].saw, what |-> what])]
        IN  Ens!Steps(c, IF k.op = "forward" THEN Ens!ForwardEnds(c, k, what)
                         ELSE Ens!ReverseEnds(c, k, what))
  BY DEF Ens!RequestEnds
<1>3. PICK a : a = [tier |-> s2[c].tier, coin |-> s2[c].coin, saw |-> s2[c].saw, what |-> what]
  OBVIOUS
<1>4. PICK k : k = [s2[c] EXCEPT !.attempts = Append(@, a)]
  OBVIOUS
<1>5. HasAttempt(k, a) /\ k.saw = a.saw /\ a.what = what
  BY <1>1, <1>3, <1>4, NameAttempt
<1>6. Ens!Steps(c, IF k.op = "forward" THEN Ens!ForwardEnds(c, k, what)
                   ELSE Ens!ReverseEnds(c, k, what))
  BY <1>2, <1>3, <1>4
<1>7. /\ k \in NameCalls /\ a \in Ens!Attempt /\ a.tier = k.tier /\ Ens!SawOffchain(c) = a.saw
      /\ k.op \in {"forward", "reverse"} /\ k.tier \in Ens!Tiers /\ k.coin \in Ens!Coins
      /\ a.saw \in BOOLEAN
  BY <1>1, <1>3, <1>5 DEF HasAttempt, NameCalls, Ens!Attempt, Ens!SawOffchain
\* Asking L1 behind the bound network.
<1>8. ASSUME k.tier = "bound", Ens!SupportsEns, Ens!MayConsultL1, what \in Missed(k.op)
      PROVE  NameFits(Ens!Asking(k, k.op, "l1", "eth"))
  <2>1. PICK e : e = Ens!Asking(k, k.op, "l1", "eth")
    OBVIOUS
  <2>2. /\ e \in NameCalls /\ e.pc = "asking" /\ e.tier = "l1" /\ e.op = k.op
        /\ e.attempts = k.attempts
    BY <1>7, <2>1, NameRecords DEF Ens!Tiers, Ens!Coins
  <2>3. AskedBehind(e)
    BY <1>5, <1>7, <1>8, <2>2 DEF HasAttempt, AskedBehind, Missed
  <2> QED BY <1>8, <2>1, <2>2, <2>3 DEF NameFits, NameAsks
<1>9. CASE k.op = "forward"
  <2>1. PICK code : code = Ens!ForwardCode(what, a.saw)
    OBVIOUS
  <2>2. /\ code \in Ens!Codes
        /\ code = "OK" => what = "value"
        /\ code = "NAME_NOT_FOUND" => what \in Missed(k.op)
        /\ CodeTells(code, a, TRUE)
    BY <1>5, <1>7, <1>9, <2>1 DEF Ens!ForwardCode, Ens!MapError, Ens!Codes, CodeTells, Missed,
         Ens!Misses, Ens!Answers, Ens!Failures, Ens!GatewayFailures
  <2>3. CASE code = "OK"
    <3>1. PICK r \in Ens!Result :
            r = Ens!WithFallback(k, Ens!EnsValue(k.tier, k.coin, a.saw)) /\ r.code = "OK"
      BY <1>1, <1>7, NameFallback, NameResults
    <3>2. CodeTells(r.code, a, Ens!MayConsultL1 => k.tier = "l1")
      BY <1>5, <2>2, <2>3, <3>1 DEF CodeTells
    <3> QED BY <1>5, <1>6, <1>7, <1>9, <2>1, <2>3, <3>1, <3>2, NameEndsWith, NameGoes DEF Ens!ForwardEnds
  <2>4. CASE code # "OK" /\ Ens!EligibleForL1(k, code)
    <3>1. NameFits(Ens!Asking(k, k.op, "l1", "eth"))
      BY <1>8, <2>2, <2>4 DEF Ens!EligibleForL1
    <3> QED BY <1>6, <1>7, <1>9, <2>1, <2>4, <3>1, NameGoes DEF Ens!ForwardEnds
  <2>5. CASE code # "OK" /\ ~Ens!EligibleForL1(k, code)
    <3>1. Ens!Error(code) \in Ens!Result /\ Ens!Error(code).code = code
      BY <2>2, NameResults
    <3>2. code = "NAME_NOT_FOUND" => (Ens!MayConsultL1 => k.tier = "l1")
      BY <1>5, <1>7, <2>5 DEF HasAttempt, Ens!EligibleForL1, Ens!Tiers
    <3>3. code # "ADDRESS_NOT_FOUND"
      BY <2>1 DEF Ens!ForwardCode, Ens!MapError
    <3>4. CodeTells(code, a, Ens!MayConsultL1 => k.tier = "l1")
      BY <2>2, <3>2, <3>3 DEF CodeTells
    <3> QED BY <1>5, <1>6, <1>7, <1>9, <2>1, <2>5, <3>1, <3>4, NameEndsWith, NameGoes DEF Ens!ForwardEnds
  <2> QED BY <2>3, <2>4, <2>5
<1>10. CASE k.op = "reverse"
  <2>1. Ens!Steps(c, Ens!ReverseEnds(c, k, what))
    BY <1>6, <1>10
  <2>2. CASE Ens!ReverseKind(what) = "success"
    <3>1. what = "value"
      BY <2>2 DEF Ens!ReverseKind
    <3>2. PICK r \in Ens!Result :
            r = Ens!WithFallback(k, Ens!ReverseValue(k.tier, a.saw)) /\ r.code = "OK"
      BY <1>1, <1>7, NameFallback, NameReverseValue
    <3>3. PICK e : e = [k EXCEPT !.pc = "avatar", !.result = r]
      OBVIOUS
    <3>4. /\ e \in NameCalls /\ e.pc = "avatar" /\ e.result = r /\ e.attempts = k.attempts
          /\ e.tier = k.tier /\ e.op = k.op
      BY <1>7, <3>3 DEF NameCalls
    <3>5. NameEnded(e)
      BY <1>5, <3>1, <3>2, <3>4 DEF NameEnded, HasAttempt
    <3>6. NameFits(e)
      BY <3>2, <3>4, <3>5 DEF NameFits
    <3>7. Ens!Steps(c, e)
      BY <1>7, <2>1, <2>2, <3>2, <3>3 DEF Ens!ReverseEnds
    <3> QED BY <3>6, <3>7, NameGoes
  <2>3. CASE Ens!ReverseKind(what) = "failure"
    <3>1. PICK code : code = Ens!MapError(what, a.saw)
      OBVIOUS
    <3>2. code \in Ens!Codes /\ CodeTells(code, a, Ens!MayConsultL1 => k.tier = "l1")
      BY <1>5, <1>7, <2>3, <3>1 DEF Ens!MapError, Ens!Codes, CodeTells, Ens!ReverseKind,
           Ens!Misses, Ens!Answers, Ens!Failures, Ens!GatewayFailures
    <3>3. Ens!Error(code) \in Ens!Result /\ Ens!Error(code).code = code
      BY <3>2, NameResults
    <3>4. Ens!Steps(c, Ens!Ended(k, Ens!Error(code)))
      BY <1>7, <2>1, <2>3, <3>1 DEF Ens!ReverseEnds
    <3> QED BY <1>5, <3>2, <3>3, <3>4, NameEndsWith, NameGoes
  <2>4. CASE Ens!ReverseKind(what) = "empty"
    <3>1. what \in Ens!Misses \cup {"mismatch", "noProfile"}
      BY <2>4 DEF Ens!ReverseKind
    <3>2. what \in Missed(k.op) /\ what \in Ens!Answers \ {"value"} /\ what \notin {"timeout", "http"}
      BY <1>10, <3>1 DEF Missed, Ens!Misses, Ens!Answers
    <3>3. CASE k.tier = "bound" /\ Ens!MayConsultL1
      <4>1. Ens!SupportsEns
        BY <1>5, <3>3 DEF HasAttempt
      <4>2. Ens!Steps(c, Ens!Asking(k, k.op, "l1", "eth"))
        BY <1>10, <2>1, <2>4, <3>3 DEF Ens!ReverseEnds
      <4> QED BY <1>8, <3>2, <3>3, <4>1, <4>2, NameGoes
    <3>4. CASE ~(k.tier = "bound" /\ Ens!MayConsultL1)
      <4>1. CodeTells("ADDRESS_NOT_FOUND", a, Ens!MayConsultL1 => k.tier = "l1")
        BY <1>5, <1>7, <3>2, <3>4 DEF CodeTells, Ens!Tiers
      <4>2. /\ Ens!Error("ADDRESS_NOT_FOUND") \in Ens!Result
            /\ Ens!Error("ADDRESS_NOT_FOUND").code = "ADDRESS_NOT_FOUND"
        BY NameResults DEF Ens!Codes
      <4>3. Ens!Steps(c, Ens!Ended(k, Ens!Error("ADDRESS_NOT_FOUND")))
        BY <2>1, <2>4, <3>4 DEF Ens!ReverseEnds
      <4> QED BY <1>5, <4>1, <4>2, <4>3, NameEndsWith, NameGoes
    <3> QED BY <3>3, <3>4
  <2> QED BY <2>2, <2>3, <2>4 DEF Ens!ReverseKind
<1> QED BY <1>7, <1>9, <1>10

LEMMA NameAvatar == ASSUME NamesFit, NEW c \in Calls, Ens!AvatarEnds(c) PROVE NamesFit'
<1>1. /\ NameFits(s2[c]) /\ s2[c].pc = "avatar" /\ s2[c] \in NameCalls
      /\ NameEnded(s2[c]) /\ s2[c].result.code = "OK" /\ s2[c].result \in Ens!Result
  BY DEF NamesFit, NameFits, NameCalls, Ens!AvatarEnds
<1>2. PICK found \in BOOLEAN :
        Ens!Steps(c, Ens!Ended(s2[c], [s2[c].result EXCEPT !.avatar = found]))
  BY DEF Ens!AvatarEnds
<1>0. PICK q \in Ens!Result : q = s2[c].result /\ q.code = "OK"
  BY <1>1
<1>3. PICK r \in Ens!Result : r = [s2[c].result EXCEPT !.avatar = found] /\ r.code = "OK"
  <2>1. [q EXCEPT !.avatar = found] \in Ens!Result /\ [q EXCEPT !.avatar = found].code = "OK"
    BY <1>0 DEF Ens!Result
  <2> QED BY <1>0, <2>1
<1>4. PICK k \in NameCalls : k = s2[c] /\ NameEnded(k) /\ k.result.code = "OK"
  BY <1>1
<1>5. PICK e : e = Ens!Ended(k, r)
  OBVIOUS
<1>6. /\ e \in NameCalls /\ e.pc = "done" /\ e.result = r /\ e.attempts = k.attempts
      /\ e.tier = k.tier /\ e.op = k.op
  BY <1>5, NameRecords
<1>7. NameFits(e)
  <2>1. NameEnded(e)
    BY <1>3, <1>4, <1>6 DEF NameEnded
  <2> QED BY <1>6, <2>1 DEF NameFits
<1>8. Ens!Steps(c, e)
  BY <1>2, <1>3, <1>4, <1>5
<1> QED BY <1>7, <1>8, NameGoes

LEMMA NameNext == ASSUME NamesFit, [Ens!Next]_(Ens!vars) PROVE NamesFit'
<1>1. CASE UNCHANGED Ens!vars
  <2>1. UNCHANGED <<s1, s2>>
    BY <1>1 DEF Ens!vars
  <2>2. \A x : NameFits(x) => NameFits(x)'
    BY <2>1 DEF NameFits, NameAsks, NameEnded, AskedBehind, Ens!MayConsultL1, Ens!SupportsEns,
                Ens!HasL1Client, Ens!IsMainnetBound
  <2>3. {y \in NameCalls : NameFits(y)} \subseteq {y \in NameCalls : NameFits(y)'}
    BY <2>2
  <2> QED BY <2>1, <2>3 DEF NamesFit
<1> QED BY <1>1, NameStarts, NameFollows, NameRequestEnds, NameAvatar DEF Ens!Next

\* What the invariant says of one call.
LEMMA NameTold ==
    ASSUME NEW k, NameFits(k)
    PROVE  /\ k.pc = "done" /\ k.attempts # <<>> =>
                LET last == k.attempts[Len(k.attempts)] IN
                /\ k.result.code \in {"NAME_NOT_FOUND", "ADDRESS_NOT_FOUND"} =>
                     /\ \A i \in DOMAIN k.attempts : k.attempts[i].what \in Ens!Answers \ {"value"}
                     /\ Ens!MayConsultL1 => last.tier = "l1"
                /\ k.result.code = "EXTERNAL_GATEWAY_ERROR" => last.saw \/ last.what \in Ens!GatewayFailures
                /\ k.result.code = "RESOLUTION_TIMEOUT" => last.what = "timeout" /\ ~last.saw
                /\ last.saw /\ last.what \in {"timeout", "http"} =>
                     k.result.code = "EXTERNAL_GATEWAY_ERROR"
           /\ Ens!SupportsEns /\ k.tier = "l1" =>
                /\ s1.optIn /\ ~s1.mainnet
                /\ k.attempts # <<>> /\ k.attempts[1].tier = "bound"
                /\ k.attempts[1].what \in Missed(k.op)
<1>1. k \in NameCalls /\ Missed(k.op) \subseteq Ens!Answers \ {"value"}
  BY DEF NameFits, Missed, Ens!Answers, Ens!Misses
<1>2. ASSUME NameEnded(k)
      PROVE \E a \in Ens!Attempt :
              /\ k.attempts[Len(k.attempts)] = a /\ a.tier = k.tier
              /\ \A i \in DOMAIN k.attempts : k.attempts[i] = a \/ k.attempts[i].what \in Missed(k.op)
              /\ Ens!SupportsEns /\ k.tier = "l1" =>
                   /\ Ens!MayConsultL1 /\ k.attempts # <<>> /\ k.attempts[1].tier = "bound"
                   /\ k.attempts[1].what \in Missed(k.op)
              /\ k.result.code \in {"NAME_NOT_FOUND", "ADDRESS_NOT_FOUND"} =>
                   /\ a.what \in Ens!Answers \ {"value"}
                   /\ Ens!MayConsultL1 => k.tier = "l1"
              /\ k.result.code = "EXTERNAL_GATEWAY_ERROR" => a.saw \/ a.what \in Ens!GatewayFailures
              /\ k.result.code = "RESOLUTION_TIMEOUT" => a.what = "timeout" /\ ~a.saw
              /\ a.saw /\ a.what \in {"timeout", "http"} => k.result.code = "EXTERNAL_GATEWAY_ERROR"
  <2>1. PICK a \in Ens!Attempt :
          /\ a.tier = k.tier
          /\ IF k.tier = "l1" /\ Ens!SupportsEns
             THEN Ens!MayConsultL1 /\ \E b \in Ens!Attempt :
                    b.tier = "bound" /\ b.what \in Missed(k.op) /\ k.attempts = <<b, a>>
             ELSE k.attempts = <<a>>
          /\ k.result.code \in {"NAME_NOT_FOUND", "ADDRESS_NOT_FOUND"} =>
               /\ a.what \in Ens!Answers \ {"value"}
               /\ Ens!MayConsultL1 => k.tier = "l1"
          /\ k.result.code = "EXTERNAL_GATEWAY_ERROR" => a.saw \/ a.what \in Ens!GatewayFailures
          /\ k.result.code = "RESOLUTION_TIMEOUT" => a.what = "timeout" /\ ~a.saw
          /\ a.saw /\ a.what \in {"timeout", "http"} => k.result.code = "EXTERNAL_GATEWAY_ERROR"
    BY <1>2 DEF NameEnded
  <2>2. CASE k.tier = "l1" /\ Ens!SupportsEns
    <3>1. PICK b \in Ens!Attempt :
            b.tier = "bound" /\ b.what \in Missed(k.op) /\ k.attempts = <<b, a>>
      BY <2>1, <2>2
    <3>2. /\ k.attempts[Len(k.attempts)] = a /\ k.attempts[1] = b /\ k.attempts # <<>>
          /\ \A i \in DOMAIN k.attempts : k.attempts[i] = a \/ k.attempts[i] = b
      BY <3>1
    <3> QED BY <2>1, <2>2, <3>1, <3>2
  <2>3. CASE ~(k.tier = "l1" /\ Ens!SupportsEns)
    <3>1. k.attempts[Len(k.attempts)] = a /\ \A i \in DOMAIN k.attempts : k.attempts[i] = a
      BY <2>1, <2>3
    <3> QED BY <2>1, <2>3, <3>1
  <2> QED BY <2>2, <2>3
<1>3. CASE k.pc = "idle"
  BY <1>3 DEF NameFits
<1>4. CASE k.pc = "asking"
  BY <1>4 DEF NameFits, NameAsks, AskedBehind, Ens!MayConsultL1, Ens!IsMainnetBound
<1>5. CASE k.pc \in {"avatar", "done"}
  <2>1. CASE NameEnded(k)
    BY <1>1, <1>2, <2>1 DEF Ens!MayConsultL1, Ens!IsMainnetBound
  <2>2. CASE k.attempts = <<>> /\ k.tier = "bound"
    BY <2>2
  <2> QED BY <1>5, <2>1, <2>2 DEF NameFits
<1> QED BY <1>1, <1>3, <1>4, <1>5 DEF NameCalls

LEMMA NamesTold == ASSUME NamesFit PROVE Ens!FailureIsNoMiss /\ Ens!BlameFitsRequest
<1>1. \A c \in Calls : NameFits(s2[c])
  BY DEF NamesFit
<1>2. Ens!FailureIsNoMiss
  BY <1>1, NameTold DEF Ens!FailureIsNoMiss, Ens!Done, Ens!Asked, Ens!Code, Ens!Last, Missed
<1>3. Ens!BlameFitsRequest
  BY <1>1, NameTold DEF Ens!BlameFitsRequest, Ens!Done, Ens!Asked, Ens!Code, Ens!Last
<1> QED BY <1>2, <1>3

--------------------
(* A load of an ABI: s1 is setup, s2 chain, s3 load, s4 late, s5 heard.  At  *)
(* most two providers are asked, so that what was heard says where it is.    *)

SomeProvider == {"etherscan", "sourcify", "none"}
SomeProxy == Abis!ProxyTypes \cup {"none"}
SomeError == Abis!Error \cup {"none"}
LoadResult ==
    [ok : BOOLEAN, error : SomeError, schema : Nat, from : SomeProvider, proxy : SomeProxy, impl : Nat,
     admin : BOOLEAN]
LoadRecord ==
    [pc : {"idle", "asking", "probing", "admin", "fetching", "done"}, queue : Seq(Abis!Providers),
     used : SomeProvider, proxy : SomeProxy, places : Seq(Abis!Homes), impl : Nat, admin : BOOLEAN,
     failed : BOOLEAN, result : LoadResult]

Said(provider, what) == [provider |-> provider, what |-> what]

\* The one provider or the two.
Order(a, b) == IF b = Abis!None THEN <<a>> ELSE <<a, b>>

\* What a provider that gave no ABI may have said.
Refused(provider, what) ==
    what \in Abis!ProviderErrors /\ (what = "unverified" => provider = "etherscan")

AllRefused(a, b, heard) ==
    \E x, y \in Abis!ProviderErrors :
      /\ Refused(a, x) /\ (b # Abis!None => Refused(b, y))
      /\ heard = IF b = Abis!None THEN <<Said(a, x)>> ELSE <<Said(a, x), Said(b, y)>>

\* An ABI came from the provider, the last one that was heard.
CameFrom(provider, heard) ==
    \/ heard = <<Said(provider, "abi")>>
    \/ \E a \in Abis!Providers, x \in Abis!ProviderErrors : heard = <<Said(a, x), Said(provider, "abi")>>

LoadGoes(a, b) ==
    \/ /\ s3.pc = "idle" /\ s5 = <<>> /\ ~s3.result.ok
    \/ /\ s3.pc = "asking" /\ s1.input = "fetch"
       /\ \/ s5 = <<>> /\ s3.queue = Order(a, b)
          \/ /\ b # Abis!None /\ s3.queue = <<b>>
             /\ \E x \in Abis!ProviderErrors : Refused(a, x) /\ s5 = <<Said(a, x)>>
    \/ /\ s3.pc \in {"probing", "fetching"} /\ s1.input = "fetch"
       /\ s3.used \in Abis!Providers /\ CameFrom(s3.used, s5)
       /\ s3.pc = "fetching" => s3.impl # 0
    \/ /\ s3.pc = "done" /\ s1.input # "fetch" /\ s5 = <<>>
    \/ /\ s3.pc = "done" /\ s1.input = "fetch" /\ ~s3.result.ok
       /\ AllRefused(a, b, s5)
       /\ s3.result.error = "unverifiedMessage" =>
            \E i \in DOMAIN s5 : s5[i] = Said("etherscan", "unverified")
    \/ /\ s3.pc = "done" /\ s1.input = "fetch" /\ s3.result.ok
       /\ \E p \in Abis!Providers : CameFrom(p, s5) /\ (s3.result.schema = 0 => s3.result.from = p)
       /\ s3.result.schema # 0 => s3.result.from = "etherscan" /\ s3.result.schema = s3.result.impl

\* The settings that come before others leave those empty.
LoadSetups ==
    {setup \in Abis!Setup : /\ setup.forced # Abis!None => setup.uiDefault = Abis!None /\ setup.appDefault = Abis!None
                            /\ setup.uiDefault # Abis!None => setup.appDefault = Abis!None}

LoadFits ==
    /\ s1 \in LoadSetups /\ s2 \in [home : Abis!Homes, impl : Nat] /\ s3 \in LoadRecord
    /\ \E a \in Abis!Providers, b \in Abis!Providers \cup {Abis!None} :
         Abis!ProviderOrder = Order(a, b) /\ LoadGoes(a, b)

LEMMA ProvidersOrdered ==
    ASSUME s1 \in LoadSetups
    PROVE  \E a \in Abis!Providers, b \in Abis!Providers \cup {Abis!None} : Abis!ProviderOrder = Order(a, b)
<1>1. \A p \in Abis!Providers : Abis!Other(p) \in Abis!Providers /\ p # Abis!None
  BY DEF Abis!Other, Abis!Providers, Abis!None
<1>2. "etherscan" \in Abis!Providers /\ "sourcify" \in Abis!Providers /\ "sourcify" # Abis!None
  BY DEF Abis!Providers, Abis!None
<1>3. /\ s1.forced \in Abis!Providers \cup {Abis!None} /\ s1.uiDefault \in Abis!Providers \cup {Abis!None}
      /\ s1.appDefault \in Abis!Providers \cup {Abis!None}
  BY DEF LoadSetups, Abis!Setup, Abis!OrNone
<1>4. CASE s1.forced # Abis!None
  <2>1. Abis!ProviderOrder = Order(s1.forced, Abis!None)
    BY <1>4 DEF LoadSetups, Abis!ProviderOrder, Order
  <2> QED BY <1>3, <1>4, <2>1
<1>5. CASE s1.forced = Abis!None /\ s1.uiDefault # Abis!None
  BY <1>1, <1>3, <1>5 DEF LoadSetups, Abis!ProviderOrder, Order
<1>6. CASE s1.forced = Abis!None /\ s1.uiDefault = Abis!None /\ s1.appDefault # Abis!None
  BY <1>1, <1>3, <1>6 DEF Abis!ProviderOrder, Order
<1>7. CASE s1.forced = Abis!None /\ s1.uiDefault = Abis!None /\ s1.appDefault = Abis!None
  BY <1>2, <1>7 DEF Abis!ProviderOrder, Order
<1> QED BY <1>4, <1>5, <1>6, <1>7

LEMMA LoadInit == ASSUME Abis!Init PROVE LoadFits
<1>1. s1 \in LoadSetups
  BY DEF Abis!Init, LoadSetups, Abis!Setup
<1>2. s2 \in [home : Abis!Homes, impl : Nat]
  <2>1. s2 \in [home : Abis!Homes, impl : {1}]
    BY DEF Abis!Init
  <2> QED BY <2>1
<1>3. s3 \in LoadRecord /\ s3.pc = "idle" /\ ~s3.result.ok
  BY DEF Abis!Init, LoadRecord, LoadResult, Abis!NoResult, Abis!None, SomeProvider, SomeProxy, SomeError
<1>4. s5 = <<>>
  BY DEF Abis!Init
<1> QED BY <1>1, <1>2, <1>3, <1>4, ProvidersOrdered DEF LoadFits, LoadGoes

\* A load that ends.
LEMMA LoadFails ==
    ASSUME NEW k \in LoadRecord, NEW error \in SomeError, NEW next, next = Abis!Failed(k, error)
    PROVE  next \in LoadRecord /\ next.pc = "done" /\ ~next.result.ok /\ next.result.error = error
<1> DEFINE r == [Abis!NoResult EXCEPT !.error = error]
<1>1. /\ r \in LoadResult
      /\ ~r.ok /\ r.error = error
  BY DEF Abis!NoResult, Abis!None, LoadResult, SomeProvider, SomeProxy
<1>2. next = [k EXCEPT !.pc = "done", !.result = r]
  BY DEF Abis!Failed
<1> HIDE DEF r
<1> QED BY <1>1, <1>2 DEF LoadRecord

LEMMA LoadLoads ==
    ASSUME NEW k \in LoadRecord, NEW schema \in Nat, NEW from \in SomeProvider, NEW next,
           next = Abis!Loaded(k, schema, from)
    PROVE  /\ next \in LoadRecord /\ next.pc = "done" /\ next.result.ok
           /\ next.result.schema = schema /\ next.result.from = from /\ next.result.impl = k.impl
<1> DEFINE r == [ok |-> TRUE, error |-> Abis!None, schema |-> schema, from |-> from,
                 proxy |-> k.proxy, impl |-> k.impl, admin |-> k.admin /\ k.impl # 0]
<1>1. /\ r \in LoadResult
      /\ r.ok /\ r.schema = schema /\ r.from = from /\ r.impl = k.impl
  <2>1. k.proxy \in SomeProxy /\ k.impl \in Nat
    BY DEF LoadRecord
  <2>2. (k.admin /\ k.impl # 0) \in BOOLEAN
    OBVIOUS
  <2> QED BY <2>1, <2>2 DEF Abis!None, LoadResult, SomeError
<1>2. next = [k EXCEPT !.pc = "done", !.result = r]
  BY DEF Abis!Loaded
<1> HIDE DEF r
<1> QED BY <1>1, <1>2 DEF LoadRecord

LEMMA LoadBegins == ASSUME LoadFits, Abis!Begin PROVE LoadFits'
<1>1. PICK a \in Abis!Providers, b \in Abis!Providers \cup {Abis!None} :
        Abis!ProviderOrder = Order(a, b) /\ LoadGoes(a, b)
  BY DEF LoadFits
<1>2. s1 \in LoadSetups /\ s2 \in [home : Abis!Homes, impl : Nat] /\ s3 \in LoadRecord
      /\ s3.pc = "idle" /\ s5 = <<>> /\ UNCHANGED <<s1, s2, s4, s5>>
  BY <1>1 DEF LoadFits, LoadGoes, Abis!Begin
<1>3. (Abis!ProviderOrder = Order(a, b))'
  BY <1>1, <1>2 DEF Abis!ProviderOrder
<1>4. CASE s1.input \in {"badAddress", "badManual"}
  <2>1. s3' = Abis!Failed(s3, "address") \/ s3' = Abis!Failed(s3, "abi")
    BY <1>4 DEF Abis!Begin
  <2>2. s3' \in LoadRecord /\ s3'.pc = "done"
    BY <1>2, <2>1, LoadFails DEF SomeError, Abis!Error
  <2> QED BY <1>2, <1>3, <1>4, <2>2 DEF LoadFits, LoadGoes
<1>5. CASE s1.input = "manual"
  <2>1. s3' = Abis!Loaded(s3, 0, Abis!None)
    BY <1>5 DEF Abis!Begin
  <2>2. Abis!None \in SomeProvider /\ 0 \in Nat
    BY DEF Abis!None, SomeProvider
  <2>3. s3' \in LoadRecord /\ s3'.pc = "done"
    BY <1>2, <2>1, <2>2, LoadLoads
  <2> QED BY <1>2, <1>3, <1>5, <2>3 DEF LoadFits, LoadGoes
<1>6. CASE s1.input = "fetch"
  <2>1. s3' = [s3 EXCEPT !.pc = "asking", !.queue = Abis!ProviderOrder]
    BY <1>6 DEF Abis!Begin
  <2>2. Order(a, b) \in Seq(Abis!Providers)
    BY DEF Order
  <2>3. s3' \in LoadRecord /\ s3'.pc = "asking" /\ s3'.queue = Order(a, b)
    BY <1>1, <1>2, <2>1, <2>2 DEF LoadRecord
  <2> QED BY <1>2, <1>3, <1>6, <2>3 DEF LoadFits, LoadGoes
<1> QED BY <1>2, <1>4, <1>5, <1>6 DEF LoadSetups, Abis!Setup

\* A provider gave none: the next one is asked, if there is one.
LEMMA LoadRefused ==
    ASSUME LoadFits, s3.pc = "asking", NEW error \in Abis!ProviderErrors,
           Refused(Head(s3.queue), error),
           s3' = Abis!NextProvider(s3, error), s5' = Append(s5, Said(Head(s3.queue), error)),
           UNCHANGED <<s1, s2>>
    PROVE  LoadFits'
<1>1. PICK a \in Abis!Providers, b \in Abis!Providers \cup {Abis!None} :
        Abis!ProviderOrder = Order(a, b) /\ LoadGoes(a, b)
  BY DEF LoadFits
<1>2. s1 \in LoadSetups /\ s2 \in [home : Abis!Homes, impl : Nat] /\ s3 \in LoadRecord /\ s1.input = "fetch"
  BY <1>1 DEF LoadFits, LoadGoes
<1>3. (Abis!ProviderOrder = Order(a, b))'
  BY <1>1 DEF Abis!ProviderOrder
<1>4. SUFFICES s3' \in LoadRecord /\ LoadGoes(a, b)'
  BY <1>2, <1>3 DEF LoadFits
\* The last one refused.
<1>5. ASSUME Tail(s3.queue) = <<>>, AllRefused(a, b, s5'),
             error = "unverified" => \E i \in DOMAIN s5' : s5'[i] = Said("etherscan", "unverified")
      PROVE  s3' \in LoadRecord /\ LoadGoes(a, b)'
  <2>1. PICK told \in SomeError :
          s3' = Abis!Failed(s3, told) /\ (told = "unverifiedMessage" => error = "unverified")
    BY <1>5 DEF Abis!NextProvider, Abis!GiveUp, Abis!ProviderErrors, SomeError, Abis!Error
  <2>2. s3' \in LoadRecord /\ s3'.pc = "done" /\ ~s3'.result.ok /\ s3'.result.error = told
    BY <1>2, <2>1, LoadFails
  <2> QED BY <1>2, <1>5, <2>1, <2>2 DEF LoadGoes
<1>6. CASE s5 = <<>> /\ s3.queue = Order(a, b) /\ b # Abis!None
  <2>1. Head(s3.queue) = a /\ Tail(s3.queue) = <<b>>
    BY <1>6 DEF Order
  <2>2. s3' = [s3 EXCEPT !.queue = <<b>>]
    <3>1. Tail(s3.queue) # <<>>
      BY <2>1
    <3> QED BY <2>1, <3>1 DEF Abis!NextProvider
  <2>3. s3' \in LoadRecord /\ s3'.pc = "asking" /\ s3'.queue = <<b>>
    <3>1. <<b>> \in Seq(Abis!Providers)
      BY <1>6
    <3> QED BY <1>2, <2>2, <3>1 DEF LoadRecord
  <2>4. s5' = <<Said(a, error)>>
    BY <1>6, <2>1, Appended
  <2> QED BY <1>2, <1>6, <2>1, <2>3, <2>4 DEF LoadGoes
<1>7. CASE s5 = <<>> /\ s3.queue = Order(a, b) /\ b = Abis!None
  <2>1. Head(s3.queue) = a /\ Tail(s3.queue) = <<>>
    BY <1>7 DEF Order
  <2>2. s5' = <<Said(a, error)>>
    BY <1>7, <2>1, Appended
  <2>3. AllRefused(a, b, s5')
    BY <1>7, <2>1, <2>2 DEF AllRefused
  <2>4. error = "unverified" => s5'[1] = Said("etherscan", "unverified") /\ 1 \in DOMAIN s5'
    BY <2>1, <2>2 DEF Refused
  <2> QED BY <1>5, <2>1, <2>3, <2>4
<1>8. ASSUME b # Abis!None, s3.queue = <<b>>,
             NEW x \in Abis!ProviderErrors, Refused(a, x), s5 = <<Said(a, x)>>
      PROVE  s3' \in LoadRecord /\ LoadGoes(a, b)'
  <2>1. Head(s3.queue) = b /\ Tail(s3.queue) = <<>>
    BY <1>8
  <2>2. s5' = <<Said(a, x), Said(b, error)>>
    BY <1>8, <2>1, Appended
  <2>3. AllRefused(a, b, s5')
    BY <1>8, <2>1, <2>2 DEF AllRefused
  <2>4. s5'[2] = Said(b, error) /\ 2 \in DOMAIN s5'
    <3>1. PICK heard : heard = s5'
      OBVIOUS
    <3>2. heard = <<Said(a, x), Said(b, error)>>
      BY <2>2, <3>1
    <3>3. DOMAIN heard = {1, 2} /\ heard[2] = Said(b, error)
      BY <3>2, Tuples
    <3> QED BY <3>1, <3>3
  <2>5. error = "unverified" => b = "etherscan"
    BY <2>1 DEF Refused
  <2> QED BY <1>5, <2>1, <2>3, <2>4, <2>5
<1> QED BY <1>1, <1>6, <1>7, <1>8 DEF LoadGoes

LEMMA LoadDelivered == ASSUME LoadFits, Abis!ProviderDelivers PROVE LoadFits'
<1>1. PICK a \in Abis!Providers, b \in Abis!Providers \cup {Abis!None} :
        Abis!ProviderOrder = Order(a, b) /\ LoadGoes(a, b)
  BY DEF LoadFits
<1>2. /\ s1 \in LoadSetups /\ s2 \in [home : Abis!Homes, impl : Nat] /\ s3 \in LoadRecord
      /\ s1.input = "fetch" /\ s3.pc = "asking" /\ UNCHANGED <<s1, s2, s4>>
  BY <1>1 DEF LoadFits, LoadGoes, Abis!ProviderDelivers
<1>3. (Abis!ProviderOrder = Order(a, b))'
  BY <1>1, <1>2 DEF Abis!ProviderOrder
<1> DEFINE p == Head(s3.queue)
<1>4. p \in Abis!Providers /\ CameFrom(p, s5')
  <2>1. s5' = Append(s5, Said(p, "abi"))
    BY DEF Abis!ProviderDelivers, Abis!Hear, Said
  <2>2. CASE s5 = <<>> /\ s3.queue = Order(a, b)
    <3>1. p = a
      BY <2>2 DEF Order
    <3> QED BY <2>1, <2>2, <3>1, Appended DEF CameFrom
  <2>3. CASE b # Abis!None /\ s3.queue = <<b>> /\ \E x \in Abis!ProviderErrors : Refused(a, x) /\ s5 = <<Said(a, x)>>
    <3>1. p = b
      BY <2>3
    <3>2. PICK x \in Abis!ProviderErrors : s5 = <<Said(a, x)>>
      BY <2>3
    <3>3. s5' = <<Said(a, x), Said(p, "abi")>>
      BY <2>1, <3>2, Appended
    <3> QED BY <2>3, <3>1, <3>3 DEF CameFrom
  <2> QED BY <1>1, <1>2, <2>2, <2>3 DEF LoadGoes
<1> HIDE DEF p
<1>5. PICK abi \in Abis!Abi : s3' = Abis!WithInitialAbi(s3, p, abi)
  BY DEF Abis!ProviderDelivers, p
<1> DEFINE got == [s3 EXCEPT !.used = p, !.queue = <<>>]
<1>6. got \in LoadRecord /\ got.used = p /\ p \in SomeProvider
  <2>1. p \in SomeProvider /\ <<>> \in Seq(Abis!Providers)
    BY <1>4 DEF SomeProvider, Abis!Providers
  <2> QED BY <1>2, <2>1 DEF LoadRecord
<1>7. CASE s3' = Abis!Loaded(got, 0, p)
  <2>1. s3' \in LoadRecord /\ s3'.pc = "done" /\ s3'.result.ok /\ s3'.result.schema = 0 /\ s3'.result.from = p
    <3> HIDE DEF got
    <3> QED BY <1>6, <1>7, LoadLoads
  <2> QED BY <1>2, <1>3, <1>4, <2>1 DEF LoadFits, LoadGoes
<1>8. CASE \E proxy \in SomeProxy, places \in Seq(Abis!Homes) :
             s3' = [got EXCEPT !.pc = "probing", !.proxy = proxy, !.places = places]
  <2>1. s3' \in LoadRecord /\ s3'.pc = "probing" /\ s3'.used = p
    <3> HIDE DEF got
    <3> QED BY <1>6, <1>8 DEF LoadRecord
  <2> QED BY <1>2, <1>3, <1>4, <2>1 DEF LoadFits, LoadGoes
<1>9. Abis!ProxyTypeOf(abi) \in SomeProxy /\ \A proxy : Abis!PlacesFor(proxy) \in Seq(Abis!Homes)
  <2>1. Abis!ProxyTypeOf(abi) \in SomeProxy
    BY DEF Abis!ProxyTypeOf, Abis!None, SomeProxy, Abis!ProxyTypes
  <2>2. ASSUME NEW proxy PROVE Abis!PlacesFor(proxy) \in Seq(Abis!Homes)
    <3>1. /\ <<"eip1967", "legacy">> \in Seq(Abis!Homes) /\ <<"beacon">> \in Seq(Abis!Homes)
          /\ <<"bytecode">> \in Seq(Abis!Homes) /\ <<>> \in Seq(Abis!Homes)
          /\ <<"method", "eip1967">> \in Seq(Abis!Homes)
      BY DEF Abis!Homes
    <3>2. Abis!PlacesFor(proxy) \in {<<"eip1967", "legacy">>, <<"beacon">>, <<"bytecode">>, <<>>,
                                     <<"method", "eip1967">>}
      BY DEF Abis!PlacesFor
    <3> QED BY <3>1, <3>2
  <2> QED BY <2>1, <2>2
<1> QED BY <1>5, <1>7, <1>8, <1>9 DEF Abis!WithInitialAbi

LEMMA LoadOfProxy ==
    ASSUME LoadFits, Abis!Probe \/ Abis!ReadAdmin \/ Abis!FetchImplementation
    PROVE  LoadFits'
<1>1. PICK a \in Abis!Providers, b \in Abis!Providers \cup {Abis!None} :
        Abis!ProviderOrder = Order(a, b) /\ LoadGoes(a, b)
  BY DEF LoadFits
<1>2. /\ s1 \in LoadSetups /\ s2 \in [home : Abis!Homes, impl : Nat] /\ s3 \in LoadRecord
      /\ s1.input = "fetch" /\ s3.pc \in {"probing", "fetching"} /\ UNCHANGED <<s1, s2, s4, s5>>
      /\ CameFrom(s3.used, s5) /\ (s3.pc = "fetching" => s3.impl # 0)
  BY <1>1 DEF LoadFits, LoadGoes, Abis!Probe, Abis!ReadAdmin, Abis!FetchImplementation
<1>3. (Abis!ProviderOrder = Order(a, b))'
  BY <1>1, <1>2 DEF Abis!ProviderOrder
<1>4. s3.used \in SomeProvider /\ s3.impl \in Nat /\ s3.places \in Seq(Abis!Homes)
  BY <1>2 DEF LoadRecord
<1>5. s3.used \in Abis!Providers
  BY <1>1, <1>2 DEF LoadGoes
<1>6. ASSUME NEW k \in LoadRecord, NEW schema \in Nat, NEW from \in SomeProvider,
             s3' = Abis!Loaded(k, schema, from),
             schema = 0 => from = s3.used,
             schema # 0 => from = "etherscan" /\ schema = k.impl
      PROVE  LoadFits'
  <2>1. /\ s3' \in LoadRecord /\ s3'.pc = "done" /\ s3'.result.ok
        /\ s3'.result.schema = schema /\ s3'.result.from = from /\ s3'.result.impl = k.impl
    <3>1. PICK next : next = s3'
      OBVIOUS
    <3>2. next = Abis!Loaded(k, schema, from)
      BY <1>6, <3>1
    <3> QED BY ONLY <3>1, <3>2, LoadLoads
  <2> QED BY <1>2, <1>3, <1>5, <1>6, <2>1 DEF LoadFits, LoadGoes
<1>7. ASSUME s3' \in LoadRecord, s3'.pc \in {"probing", "fetching"}, s3'.used = s3.used,
             s3'.pc = "fetching" => s3'.impl # 0
      PROVE  LoadFits'
  BY <1>2, <1>3, <1>5, <1>7 DEF LoadFits, LoadGoes
<1>8. CASE Abis!Probe
  <2>1. PICK fails \in BOOLEAN, found \in Nat, places \in Seq(Abis!Homes) :
          s3' = [s3 EXCEPT !.places = places, !.impl = found, !.failed = s3.failed \/ fails]
    <3>1. PICK fails \in BOOLEAN :
            LET found == IF fails THEN 0 ELSE Abis!ValueAt(Head(s3.places))
            IN s3' = [s3 EXCEPT !.places = IF found # 0 THEN <<>> ELSE Tail(@),
                                !.impl = found, !.failed = @ \/ fails]
      BY <1>8 DEF Abis!Probe
    <3>2. Abis!ValueAt(Head(s3.places)) \in Nat
      BY <1>2 DEF Abis!ValueAt, Abis!CallContractFunction
    <3>3. Tail(s3.places) \in Seq(Abis!Homes) /\ <<>> \in Seq(Abis!Homes)
      <4>1. s3.places # <<>>
        BY <1>8 DEF Abis!Probe
      <4> QED BY <1>4, <4>1, HeadTailProperties, EmptySeq
    <3> QED BY <3>1, <3>2, <3>3
  <2>2. (s3.failed \/ fails) \in BOOLEAN
    OBVIOUS
  <2>3. s3' \in LoadRecord /\ s3'.pc = s3.pc /\ s3'.used = s3.used
    BY <1>2, <2>1, <2>2 DEF LoadRecord
  <2>4. s3.pc = "probing"
    BY <1>8 DEF Abis!Probe
  <2> QED BY <1>7, <2>3, <2>4
<1>9. CASE Abis!ReadAdmin
  <2>1. PICK admin \in BOOLEAN :
          LET k == [s3 EXCEPT !.admin = admin]
          IN s3' = IF k.impl = 0 THEN Abis!Loaded(k, 0, k.used) ELSE [k EXCEPT !.pc = "fetching"]
    BY <1>9 DEF Abis!ReadAdmin
  <2>2. PICK k : k = [s3 EXCEPT !.admin = admin]
    OBVIOUS
  <2>3. k \in LoadRecord /\ k.impl = s3.impl /\ k.used = s3.used
    BY <1>2, <2>2 DEF LoadRecord
  <2>4. s3' = IF k.impl = 0 THEN Abis!Loaded(k, 0, k.used) ELSE [k EXCEPT !.pc = "fetching"]
    BY <2>1, <2>2
  <2>5. CASE k.impl = 0
    BY <1>4, <1>6, <2>3, <2>4, <2>5
  <2>6. CASE k.impl # 0
    <3>1. s3' = [k EXCEPT !.pc = "fetching"]
      BY <2>4, <2>6
    <3>2. s3' \in LoadRecord /\ s3'.pc = "fetching" /\ s3'.impl = k.impl /\ s3'.used = k.used
      BY <2>3, <3>1 DEF LoadRecord
    <3> QED BY <1>7, <2>3, <2>6, <3>2
  <2> QED BY <2>5, <2>6
<1>10. CASE Abis!FetchImplementation
  <2>1. s3' = Abis!Loaded(s3, s3.impl, "etherscan") \/ s3' = Abis!Loaded(s3, 0, s3.used)
    BY <1>10 DEF Abis!FetchImplementation, Abis!Wanted, Abis!WithoutImplementationAbi
  <2>2. s3.impl # 0 /\ "etherscan" \in SomeProvider
    BY <1>2, <1>10 DEF Abis!FetchImplementation, SomeProvider
  <2> QED BY <1>2, <1>4, <1>6, <2>1, <2>2
<1> QED BY <1>8, <1>9, <1>10

LEMMA LoadNext == ASSUME LoadFits, [Abis!Next]_(Abis!vars) PROVE LoadFits'
<1>1. CASE UNCHANGED <<s1, s3, s5>> /\ s2' \in [home : Abis!Homes, impl : Nat]
  BY <1>1 DEF LoadFits, LoadGoes, Abis!ProviderOrder
<1>2. CASE UNCHANGED Abis!vars \/ \E p \in Abis!Providers : Abis!AnswersLate(p)
  BY <1>1, <1>2 DEF Abis!vars, LoadFits, Abis!AnswersLate, Abis!LateAnswer
<1>3. CASE Abis!Upgrade
  <2>1. s2' \in [home : Abis!Homes, impl : Nat]
    <3>1. PICK n \in Nat : n = s2.impl + 1
      BY DEF LoadFits
    <3> QED BY <1>3, <3>1 DEF LoadFits, Abis!Upgrade
  <2> QED BY <1>1, <1>3, <2>1 DEF Abis!Upgrade
<1>4. CASE Abis!ProviderFails
  <2>1. PICK error \in Abis!ProviderErrors :
          /\ Refused(Head(s3.queue), error)
          /\ s3' = Abis!NextProvider(s3, error) /\ s5' = Append(s5, Said(Head(s3.queue), error))
    BY <1>4 DEF Abis!ProviderFails, Abis!Hear, Refused, Said
  <2> QED BY <1>4, <2>1, LoadRefused DEF Abis!ProviderFails
<1>5. CASE Abis!ProviderTimesOut
  <2>1. /\ Refused(Head(s3.queue), "timeout") /\ "timeout" \in Abis!ProviderErrors
        /\ s3' = Abis!NextProvider(s3, "timeout") /\ s5' = Append(s5, Said(Head(s3.queue), "timeout"))
    BY <1>5 DEF Abis!ProviderTimesOut, Abis!Hear, Refused, Said, Abis!ProviderErrors
  <2> QED BY <1>5, <2>1, LoadRefused DEF Abis!ProviderTimesOut
<1> QED BY <1>2, <1>3, <1>4, <1>5, LoadBegins, LoadDelivered, LoadOfProxy DEF Abis!Next

LEMMA LoadTold == ASSUME LoadFits PROVE Abis!SourceIsTold /\ Abis!FailureWasEarned
<1>1. PICK a \in Abis!Providers, b \in Abis!Providers \cup {Abis!None} :
        Abis!ProviderOrder = Order(a, b) /\ LoadGoes(a, b)
  BY DEF LoadFits
<1>2. SUFFICES ASSUME s3.pc = "done" PROVE Abis!SourceIsTold /\ Abis!FailureWasEarned
  BY DEF Abis!SourceIsTold, Abis!FailureWasEarned, Abis!FetchedIsKept, Abis!ProvidersExhausted, Abis!Done
<1>3. CASE s1.input # "fetch" /\ s5 = <<>>
  <2>1. ~Abis!Delivered
    BY <1>3 DEF Abis!Delivered
  <2> QED BY <1>3, <2>1 DEF Abis!SourceIsTold, Abis!FailureWasEarned, Abis!FetchedIsKept, Abis!ProvidersExhausted
<1>4. CASE s1.input = "fetch" /\ ~s3.result.ok
  <2>1. PICK x, y \in Abis!ProviderErrors :
          s5 = IF b = Abis!None THEN <<Said(a, x)>> ELSE <<Said(a, x), Said(b, y)>>
    BY <1>1, <1>2, <1>4 DEF LoadGoes, AllRefused
  <2>2. x # "abi" /\ y # "abi"
    BY DEF Abis!ProviderErrors
  <2>3. ~Abis!Delivered /\ Abis!Asked = Order(a, b)
    <3>1. CASE b = Abis!None
      <4>1. s5 = <<Said(a, x)>> /\ DOMAIN s5 = {1} /\ s5[1] = Said(a, x)
        BY <2>1, <3>1, Tuples
      <4>2. Abis!Asked = [i \in {1} |-> s5[i].provider]
        BY <4>1 DEF Abis!Asked
      <4>3. Abis!Asked = <<a>>
        BY <4>1, <4>2, SMTT(30) DEF Said
      <4> QED BY <2>2, <3>1, <4>1, <4>3 DEF Abis!Delivered, Order, Said
    <3>2. CASE b # Abis!None
      <4>1. /\ s5 = <<Said(a, x), Said(b, y)>> /\ DOMAIN s5 = {1, 2}
            /\ s5[1] = Said(a, x) /\ s5[2] = Said(b, y)
        BY <2>1, <3>2, Tuples
      <4>2. Abis!Asked = [i \in {1, 2} |-> s5[i].provider]
        BY <4>1 DEF Abis!Asked
      <4>3. Abis!Asked = <<a, b>>
        BY <4>1, <4>2, SMTT(30) DEF Said
      <4> QED BY <2>2, <3>2, <4>1, <4>3 DEF Abis!Delivered, Order, Said
    <3> QED BY <3>1, <3>2
  <2>4. s3.result.error = "unverifiedMessage" => \E i \in DOMAIN s5 : s5[i] = Said("etherscan", "unverified")
    BY <1>1, <1>2, <1>4 DEF LoadGoes
  <2> QED BY <1>1, <1>4, <2>3, <2>4 DEF Abis!SourceIsTold, Abis!FailureWasEarned, Abis!FetchedIsKept,
                                       Abis!ProvidersExhausted, Said
<1>5. CASE s1.input = "fetch" /\ s3.result.ok
  <2>1. /\ s3.result.schema # 0 => s3.result.from = "etherscan" /\ s3.result.schema = s3.result.impl
        /\ \E p \in Abis!Providers : CameFrom(p, s5) /\ (s3.result.schema = 0 => s3.result.from = p)
    BY <1>1, <1>2, <1>5 DEF LoadGoes
  <2>2. ASSUME NEW p \in Abis!Providers, CameFrom(p, s5) PROVE s5[Len(s5)] = Said(p, "abi")
    BY <2>2, Tuples DEF CameFrom
  <2> QED BY <1>5, <2>1, <2>2 DEF Abis!SourceIsTold, Abis!FailureWasEarned, Abis!FetchedIsKept,
                                  Abis!ProvidersExhausted, Said
<1> QED BY <1>1, <1>2, <1>3, <1>4, <1>5 DEF LoadGoes

--------------------
(* Pending transfers of EVM contracts.  A contract without a holder has no   *)
(* pending transfer, so that it stays without, and one is told only of it.   *)

EvmChains == [holder : Accounts \cup {Evm!NoOne}, pending : Nat, moves : Nat]
EvmCalls ==
    [pc : {"idle", "holder", "pending", "available", "query", "done"},
     holder : Accounts \cup {Evm!NoOne}, pending : Accounts \cup {Evm!NoOne}, initiation : Nat,
     state : {"none", "thrown", "renounced", "held", "pending"}]

EvmFits ==
    /\ s2 \in EvmChains /\ s3 \in Seq(Accounts) /\ s2.pending \in 0 .. Len(s3)
    /\ s4 \in 0 .. Len(s3)
    /\ s5 \in Evm!Operations \cup {Evm!Nothing}
    /\ s6 \in EvmCalls
    /\ s2.holder = Evm!NoOne => s2.pending = 0
    /\ s6.pc = "pending" /\ s6.holder = Evm!NoOne => s2.holder = Evm!NoOne
    /\ s6.state = "renounced" => s2.holder = Evm!NoOne

LEMMA EvmInit == ASSUME Evm!Init PROVE EvmFits
<1>1. s2 \in EvmChains /\ s2.pending = 0
  <2>1. s2 \in [holder : Accounts, pending : {0}, moves : {0}]
    BY DEF Evm!Init
  <2> QED BY <2>1 DEF EvmChains
<1>2. s3 = <<>> /\ s3 \in Seq(Accounts) /\ Len(s3) = 0
  BY DEF Evm!Init
<1>3. s6 \in EvmCalls /\ s6.pc = "idle" /\ s6.state = "none"
  BY DEF Evm!Init, EvmCalls
<1> QED BY <1>1, <1>2, <1>3 DEF EvmFits, Evm!Init

\* Whoever executes an operation, a contract without a holder stays without.
LEMMA EvmExecutes ==
    ASSUME EvmFits, NEW o \in Evm!Operations, Evm!Execute(o)
    PROVE  /\ s2' \in EvmChains /\ s3' \in Seq(Accounts) /\ s2'.pending \in 0 .. Len(s3')
           /\ Len(s3) <= Len(s3')
           /\ s2'.holder = Evm!NoOne => s2'.pending = 0
           /\ s2.holder = Evm!NoOne => s2'.holder = Evm!NoOne
<1>1. /\ s2 \in EvmChains /\ s3 \in Seq(Accounts) /\ Len(s3) \in Nat /\ s2.moves + 1 \in Nat
      /\ s2.holder \in Accounts \cup {Evm!NoOne} /\ s2.pending \in 0 .. Len(s3)
      /\ s2.holder = Evm!NoOne => s2.pending = 0
  BY DEF EvmFits, EvmChains
<1>2. ASSUME NEW holder \in Accounts \cup {Evm!NoOne}, NEW pending \in Nat, Evm!Becomes(holder, pending)
      PROVE  s2' \in EvmChains /\ s2'.holder = holder /\ s2'.pending = pending
  BY <1>1, <1>2 DEF Evm!Becomes, EvmChains
<1>3. CASE o.op = "start" /\ Evm!Start(o.to)
  <2>1. o.to \in Accounts
    BY <1>3 DEF Evm!Operations
  <2>2. s3' = Append(s3, o.to) /\ s2.holder # Evm!NoOne /\ Evm!Becomes(s2.holder, Len(s3) + 1)
    BY <1>3 DEF Evm!Start
  <2>3. s3' \in Seq(Accounts) /\ Len(s3') = Len(s3) + 1
    BY <1>1, <2>1, <2>2
  <2> QED BY <1>1, <1>2, <2>2, <2>3
<1>4. CASE Evm!Accept
  <2>1. s2.pending # 0 /\ s3[s2.pending] \in Accounts /\ Evm!Becomes(s3[s2.pending], 0) /\ s3' = s3
    BY <1>1, <1>4 DEF Evm!Accept
  <2> QED BY <1>1, <1>2, <2>1
<1>5. CASE Evm!Cancel
  <2>1. s2.pending # 0 /\ Evm!Becomes(s2.holder, 0) /\ s3' = s3
    BY <1>5 DEF Evm!Cancel
  <2> QED BY <1>1, <1>2, <2>1
<1>6. CASE Evm!Renounce
  <2>1. Evm!Becomes(Evm!NoOne, 0) /\ s3' = s3
    BY <1>6 DEF Evm!Renounce
  <2> QED BY <1>1, <1>2, <2>1
<1> QED BY <1>3, <1>4, <1>5, <1>6 DEF Evm!Execute

LEMMA EvmMoves == ASSUME EvmFits, Evm!SomeoneElse \/ Evm!Mined \/ Evm!Lost \/ Evm!Index PROVE EvmFits'
<1>1. ASSUME NEW o \in Evm!Operations, Evm!Execute(o), UNCHANGED <<s4, s6>>,
             s5' \in Evm!Operations \cup {Evm!Nothing}
      PROVE  EvmFits'
  <2>1. s4' \in 0 .. Len(s3')
    BY <1>1, EvmExecutes DEF EvmFits
  <2> QED BY <1>1, <2>1, EvmExecutes DEF EvmFits
<1>2. CASE Evm!SomeoneElse
  BY <1>1, <1>2 DEF Evm!SomeoneElse, EvmFits
<1>3. CASE Evm!Mined
  <2>1. s5 \in Evm!Operations
    BY <1>3 DEF Evm!Mined, EvmFits
  <2> QED BY <1>1, <1>3, <2>1 DEF Evm!Mined
<1>4. CASE Evm!Lost
  BY <1>4 DEF Evm!Lost, EvmFits
<1>5. CASE Evm!Index
  <2>1. s4' \in 0 .. Len(s3)
    BY <1>5 DEF Evm!Index, EvmFits
  <2> QED BY <1>5, <2>1 DEF Evm!Index, EvmFits
<1> QED BY <1>2, <1>3, <1>4, <1>5

LEMMA EvmSends ==
    ASSUME EvmFits, NEW op, NEW to, [op |-> op, to |-> to] \in Evm!Operations, Evm!executeAction(op, to)
    PROVE  EvmFits'
BY DEF Evm!executeAction, EvmFits

LEMMA EvmCallSteps ==
    ASSUME EvmFits,
           Evm!Begin \/ Evm!ReadHolder \/ Evm!ReadPending \/ Evm!CheckAvailability \/ Evm!Query
    PROVE  EvmFits'
<1>1. /\ UNCHANGED <<s2, s3, s4, s5>> /\ s6 \in EvmCalls /\ s2 \in EvmChains /\ s3 \in Seq(Accounts)
      /\ s2.pending \in 0 .. Len(s3) /\ s4 \in Nat
  BY DEF EvmFits, Evm!Begin, Evm!ReadHolder, Evm!ReadPending, Evm!CheckAvailability, Evm!Query
<1>2. SUFFICES /\ s6' \in EvmCalls
               /\ s6'.pc = "pending" /\ s6'.holder = Evm!NoOne => s2.holder = Evm!NoOne
               /\ s6'.state = "renounced" => s2.holder = Evm!NoOne
  BY <1>1 DEF EvmFits
<1>3. CASE Evm!Begin
  BY <1>1, <1>3 DEF Evm!Begin, Evm!Answered, EvmCalls, EvmFits
<1>4. CASE Evm!ReadHolder
  BY <1>1, <1>4 DEF Evm!ReadHolder, Evm!HolderUnread, Evm!Answered, EvmCalls, EvmChains, EvmFits
<1>5. CASE Evm!ReadPending
  <2>1. PICK pending \in {0, s2.pending} :
          LET read == [s6 EXCEPT !.pending = IF pending = 0 THEN Evm!NoOne ELSE s3[pending]]
          IN  s6' = IF s6.holder = Evm!NoOne THEN Evm!Answered(read, "renounced")
                    ELSE IF pending = 0 THEN Evm!Answered(read, "held")
                    ELSE [read EXCEPT !.pc = "available"]
    BY <1>5 DEF Evm!ReadPending
  <2>2. PICK to \in Accounts \cup {Evm!NoOne} : to = IF pending = 0 THEN Evm!NoOne ELSE s3[pending]
    BY <1>1
  <2>3. PICK read \in EvmCalls : /\ read = [s6 EXCEPT !.pending = to]
                                 /\ read.holder = s6.holder /\ read.state = s6.state
    <3>1. /\ [s6 EXCEPT !.pending = to] \in EvmCalls
          /\ [s6 EXCEPT !.pending = to].holder = s6.holder
          /\ [s6 EXCEPT !.pending = to].state = s6.state
      BY <1>1, <2>2 DEF EvmCalls
    <3> QED BY <3>1
  <2>4. \/ s6.holder = Evm!NoOne /\ s6' = [read EXCEPT !.pc = "done", !.state = "renounced"]
        \/ s6.holder # Evm!NoOne /\ s6' = [read EXCEPT !.pc = "done", !.state = "held"]
        \/ s6.holder # Evm!NoOne /\ s6' = [read EXCEPT !.pc = "available"]
    BY <2>1, <2>2, <2>3 DEF Evm!Answered
  <2>5. s6.pc = "pending"
    BY <1>5 DEF Evm!ReadPending
  <2> QED BY <2>3, <2>4, <2>5 DEF EvmCalls, EvmFits
<1>6. CASE Evm!CheckAvailability
  BY <1>1, <1>6 DEF Evm!CheckAvailability, Evm!Answered, EvmCalls, EvmFits
<1>7. CASE Evm!Query
  <2>1. PICK initiation \in Nat : s6' = [[s6 EXCEPT !.pc = "done", !.state = "pending"]
                                           EXCEPT !.initiation = initiation]
    BY <1>1, <1>7 DEF Evm!Query, Evm!Newest, Evm!Answered
  <2> QED BY <1>1, <2>1 DEF EvmCalls
<1> QED BY <1>3, <1>4, <1>5, <1>6, <1>7

LEMMA EvmNext == ASSUME EvmFits, [Evm!Next]_(Evm!vars) PROVE EvmFits'
<1>1. CASE UNCHANGED Evm!vars
  BY <1>1 DEF Evm!vars, EvmFits
<1>2. ASSUME NEW account \in Accounts, Evm!transferOwnership(account) \/ Evm!transferAdminRole(account)
      PROVE  EvmFits'
  <2>1. [op |-> "start", to |-> account] \in Evm!Operations
    BY DEF Evm!Operations
  <2>2. Evm!executeAction("start", account)
    BY <1>2 DEF Evm!transferOwnership, Evm!transferAdminRole
  <2> QED BY <2>1, <2>2, EvmSends
<1>3. CASE Evm!acceptOwnership \/ Evm!acceptAdminTransfer \/ Evm!cancelAdminTransfer \/ Evm!renounceOwnership
  <2>1. PICK op \in {"accept", "cancel", "renounce"} : Evm!executeAction(op, Evm!NoOne)
    BY <1>3 DEF Evm!acceptOwnership, Evm!acceptAdminTransfer, Evm!cancelAdminTransfer, Evm!renounceOwnership
  <2>2. [op |-> op, to |-> Evm!NoOne] \in Evm!Operations
    BY DEF Evm!Operations
  <2> QED BY <2>1, <2>2, EvmSends
<1> QED BY <1>1, <1>2, <1>3, EvmMoves, EvmCallSteps DEF Evm!Next

--------------------
(* Pending transfers of Stellar contracts.  The events are in the order of   *)
(* their ledgers, and a completion is of a start that had not expired; a     *)
(* call keeps the start it took for the latest, and what it saw after it.    *)

StellarEvents ==
    [type : {"started", "completed"}, to : Addresses, until : Nat, ledger : Nat, of : Nat]
StellarCalls ==
    [pc : {"idle", "holder", "available", "started", "completed", "ledger", "done"},
     holder : Addresses \cup {Stellar!NoOne}, transfer : Nat, state : Stellar!States,
     clean : BOOLEAN, first : Nat, second : Nat, read : Nat]

EventsFit(events, ledger) ==
    /\ events \in Seq(StellarEvents)
    /\ \A i \in 1 .. Len(events) : events[i].ledger <= ledger
    /\ \A i, j \in 1 .. Len(events) : i <= j => events[i].ledger <= events[j].ledger
    /\ \A i \in 1 .. Len(events) : events[i].type = "started" => events[i].of = i
    /\ \A i \in 1 .. Len(events) : events[i].type = "completed" =>
         /\ events[i].of \in 1 .. Len(events)
         /\ events[i].ledger <= events[events[i].of].until

PendingFits(pending, events) ==
    pending \in 0 .. Len(events) /\ (pending # 0 => events[pending].type = "started")

\* Nothing but events of one ledger is added.
Grows(old, new, ledger) ==
    /\ Len(old) <= Len(new)
    /\ \A i \in 1 .. Len(old) : new[i] = old[i]
    /\ \A i \in Len(old) + 1 .. Len(new) : new[i].ledger = ledger

\* The start that was the latest, at the first query, and what had been completed at
\* the second.
LatestStart(call, events) ==
    /\ call.first <= Len(events) /\ call.transfer \in 1 .. call.first
    /\ events[call.transfer].type = "started"
    /\ \A i \in 1 .. call.first :
         events[i].type = "started" => events[i].ledger <= events[call.transfer].ledger

NotCompleted(call, events) ==
    /\ call.first <= call.second /\ call.second <= Len(events)
    /\ \A i \in 1 .. call.second :
         events[i].type = "completed" => events[i].ledger <= events[call.transfer].ledger

NoLoneStart(call, events) ==
    /\ call.first <= call.second /\ call.second <= Len(events)
    /\ ~ \E i \in 1 .. call.first :
           events[i].type = "started" /\ \A j \in i + 1 .. call.second : events[j].type = "started"

HasExpired(call, events, ledger) ==
    /\ call.read <= Len(events) /\ events[call.transfer].until <= ledger
    /\ \A i \in call.read + 1 .. Len(events) : events[i].ledger > events[call.transfer].until

CallFits(call, events, indexed, ledger) ==
    /\ call \in StellarCalls
    /\ call.pc # "done" => call.state = "none"
    /\ call.pc = "completed" => LatestStart(call, events) /\ call.first <= indexed
    /\ call.pc = "ledger" \/ call.state \in {"pending", "expired"} =>
         LatestStart(call, events) /\ NotCompleted(call, events)
    /\ call.state = "held" /\ call.clean => NoLoneStart(call, events)
    /\ call.state = "expired" => HasExpired(call, events, ledger)

\* A holder that is gone does not come back.
RenouncedFits(call, holder) ==
    call.state = "renounced" /\ (s1 = "ownership" \/ call.clean) => holder = Stellar!NoOne

StellarFits ==
    /\ s1 \in {"ownership", "admin"}
    /\ s2 \in [ledger : Nat, holder : Addresses \cup {Stellar!NoOne}, pending : Nat]
    /\ EventsFit(s3, s2.ledger) /\ PendingFits(s2.pending, s3)
    /\ s4 \in 0 .. Len(s3)
    /\ CallFits(s5, s3, s4, s2.ledger) /\ RenouncedFits(s5, s2.holder)

LEMMA StellarInit == ASSUME Stellar!Init PROVE StellarFits
<1>1. s2 \in [ledger : Nat, holder : Addresses \cup {Stellar!NoOne}, pending : Nat] /\ s2.pending = 0
  <2>1. s2 \in [ledger : {0}, holder : Addresses, pending : {0}]
    BY DEF Stellar!Init
  <2> QED BY <2>1
<1>2. s3 = <<>> /\ s3 \in Seq(StellarEvents) /\ Len(s3) = 0
  BY DEF Stellar!Init
<1>3. s5 \in StellarCalls /\ s5.pc = "idle" /\ s5.state = "none"
  BY DEF Stellar!Init, Stellar!NoCall, StellarCalls, Stellar!States
<1> QED BY <1>1, <1>2, <1>3 DEF StellarFits, EventsFit, PendingFits, CallFits, RenouncedFits, Stellar!Init

--------------------
(* A ledger closes *)

TransferContracts == [holder : Addresses \cup {Stellar!NoOne}, pending : Nat, events : Seq(StellarEvents)]

ContractFits(c, ledger) ==
    c \in TransferContracts /\ EventsFit(c.events, ledger) /\ PendingFits(c.pending, c.events)

LEMMA EventTypes ==
    ASSUME NEW events \in Seq(StellarEvents), NEW i \in 1 .. Len(events)
    PROVE  /\ events[i] \in StellarEvents
           /\ events[i].ledger \in Nat /\ events[i].until \in Nat /\ events[i].of \in Nat
<1>1. events[i] \in StellarEvents
  OBVIOUS
<1> QED BY <1>1 DEF StellarEvents

LEMMA EventAdded ==
    ASSUME NEW events, NEW ledger \in Nat, EventsFit(events, ledger),
           NEW e \in StellarEvents, e.ledger = ledger,
           e.type = "started" => e.of = Len(events) + 1,
           e.type = "completed" => e.of \in 1 .. Len(events) /\ ledger <= events[e.of].until
    PROVE  /\ EventsFit(Append(events, e), ledger) /\ Grows(events, Append(events, e), ledger)
           /\ Len(Append(events, e)) = Len(events) + 1 /\ Append(events, e)[Len(events) + 1] = e
<1> DEFINE new == Append(events, e)
           n == Len(events)
<1>1. events \in Seq(StellarEvents)
  BY DEF EventsFit
<1>2. /\ new \in Seq(StellarEvents) /\ Len(new) = n + 1 /\ n \in Nat /\ new[n + 1] = e
      /\ \A i \in 1 .. n : new[i] = events[i]
  BY <1>1
<1> HIDE DEF new
<1>3. \A i \in 1 .. n : events[i] \in StellarEvents /\ events[i].ledger \in Nat
  BY <1>1, EventTypes
<1> HIDE DEF n
<1>4. \A i \in 1 .. n + 1 : i \in 1 .. n \/ i = n + 1
  BY <1>2
<1>5. EventsFit(events, ledger) <=>
        /\ events \in Seq(StellarEvents)
        /\ \A i \in 1 .. n : events[i].ledger <= ledger
        /\ \A i, j \in 1 .. n : i <= j => events[i].ledger <= events[j].ledger
        /\ \A i \in 1 .. n : events[i].type = "started" => events[i].of = i
        /\ \A i \in 1 .. n : events[i].type = "completed" =>
             events[i].of \in 1 .. n /\ events[i].ledger <= events[events[i].of].until
  BY DEF EventsFit, n
<1>6. \A i \in 1 .. n + 1 : new[i].ledger <= ledger
  BY <1>2, <1>4, <1>5
<1>7. \A i, j \in 1 .. n + 1 : i <= j => new[i].ledger <= new[j].ledger
  BY <1>2, <1>4, <1>5
<1>8. \A i \in 1 .. n + 1 : new[i].type = "started" => new[i].of = i
  BY <1>2, <1>4, <1>5 DEF n
<1>9. ASSUME NEW i \in 1 .. n + 1, new[i].type = "completed"
      PROVE  new[i].of \in 1 .. n + 1 /\ new[i].ledger <= new[new[i].of].until
  <2>1. CASE i \in 1 .. n
    <3>1. events[i].of \in 1 .. n /\ new[i] = events[i] /\ new[events[i].of] = events[events[i].of]
      BY <1>2, <1>5, <1>9, <2>1
    <3> QED BY <1>2, <1>5, <1>9, <2>1, <3>1
  <2>2. CASE i = n + 1
    <3>1. e.of \in 1 .. n /\ ledger <= events[e.of].until
      BY <1>2, <1>9, <2>2 DEF n
    <3> QED BY <1>2, <2>2, <3>1
  <2> QED BY <1>4, <2>1, <2>2
<1>10. EventsFit(new, ledger)
  BY <1>2, <1>6, <1>7, <1>8, <1>9 DEF EventsFit
<1>11. Grows(events, new, ledger)
  BY <1>2 DEF Grows, n
<1> QED BY <1>2, <1>10, <1>11 DEF new, n

LEMMA GrowsTwice ==
    ASSUME NEW x \in Seq(StellarEvents), NEW y \in Seq(StellarEvents), NEW z \in Seq(StellarEvents),
           NEW ledger, Grows(x, y, ledger), Grows(y, z, ledger)
    PROVE  Grows(x, z, ledger)
<1>1. Len(x) \in Nat /\ Len(y) \in Nat /\ Len(z) \in Nat
  OBVIOUS
<1>2. \A i \in 1 .. Len(x) : i \in 1 .. Len(y) /\ z[i] = x[i]
  BY <1>1 DEF Grows
<1>3. ASSUME NEW i \in Len(x) + 1 .. Len(z) PROVE z[i].ledger = ledger
  <2>1. CASE i \in 1 .. Len(y)
    <3>1. z[i] = y[i] /\ i \in Len(x) + 1 .. Len(y)
      BY <1>1, <2>1 DEF Grows
    <3> QED BY <3>1 DEF Grows
  <2>2. CASE i \in Len(y) + 1 .. Len(z)
    BY <2>2 DEF Grows
  <2> QED BY <1>1, <2>1, <2>2
<1>4. Len(x) <= Len(z)
  BY <1>1 DEF Grows
<1> QED BY <1>2, <1>3, <1>4 DEF Grows

LEMMA OperationFits ==
    ASSUME NEW ledger \in Nat, NEW c, ContractFits(c, ledger), NEW d \in Stellar!AfterOperation(c, ledger),
           MaxLedger \in Nat
    PROVE  ContractFits(d, ledger) /\ Grows(c.events, d.events, ledger)
<1>1. /\ c \in TransferContracts /\ EventsFit(c.events, ledger) /\ PendingFits(c.pending, c.events)
      /\ c.events \in Seq(StellarEvents) /\ Len(c.events) \in Nat
  BY DEF ContractFits, TransferContracts
<1>2. CASE d = c
  BY <1>1, <1>2 DEF Grows
<1>3. ASSUME NEW to \in Addresses, NEW until \in ledger .. MaxLedger + 1,
             d = Stellar!Start(c, ledger, to, until)
      PROVE  ContractFits(d, ledger) /\ Grows(c.events, d.events, ledger)
  <2>1. PICK e : e = [type |-> "started", to |-> to, until |-> until, ledger |-> ledger,
                      of |-> Len(c.events) + 1]
    OBVIOUS
  <2>2. /\ e \in StellarEvents /\ e.ledger = ledger /\ e.type = "started"
        /\ e.of = Len(c.events) + 1
    BY <1>1, <2>1 DEF StellarEvents
  <2>3. PICK events \in Seq(StellarEvents) :
          /\ events = Append(c.events, e) /\ Len(events) = Len(c.events) + 1
          /\ events[Len(c.events) + 1] = e
          /\ EventsFit(events, ledger) /\ Grows(c.events, events, ledger)
    <3>1. e.type # "completed"
      BY <2>2
    <3>2. /\ EventsFit(Append(c.events, e), ledger) /\ Grows(c.events, Append(c.events, e), ledger)
          /\ Len(Append(c.events, e)) = Len(c.events) + 1
          /\ Append(c.events, e)[Len(c.events) + 1] = e
      BY <1>1, <2>2, <3>1, EventAdded
    <3>3. Append(c.events, e) \in Seq(StellarEvents)
      BY <3>2 DEF EventsFit
    <3> QED BY <3>2, <3>3
  <2>4. d = [c EXCEPT !.pending = Len(c.events) + 1, !.events = events]
    BY <1>1, <1>3, <2>1, <2>3 DEF Stellar!Start, TransferContracts
  <2>5. d \in TransferContracts /\ d.pending = Len(c.events) + 1 /\ d.events = events
    <3>1. PICK n \in Nat : n = Len(c.events) + 1
      BY <1>1
    <3> QED BY <1>1, <2>3, <2>4, <3>1 DEF TransferContracts
  <2>6. PendingFits(d.pending, d.events)
    BY <1>1, <2>2, <2>3, <2>5 DEF PendingFits
  <2> QED BY <2>3, <2>5, <2>6 DEF ContractFits
<1>4. ASSUME Stellar!Live(c, ledger), d = Stellar!Accept(c, ledger)
      PROVE  ContractFits(d, ledger) /\ Grows(c.events, d.events, ledger)
  <2>1. PICK p \in 1 .. Len(c.events) : /\ p = c.pending /\ ledger <= c.events[p].until
                                        /\ c.events[p].type = "started"
    BY <1>1, <1>4 DEF Stellar!Live, PendingFits
  <2>2. c.events[p] \in StellarEvents /\ c.events[p].of = p
    BY <1>1, <2>1 DEF EventsFit
  <2>3. PICK s \in StellarEvents : s = c.events[p]
    BY <2>2
  <2>4. PICK e : e = [s EXCEPT !.type = "completed", !.ledger = ledger]
    OBVIOUS
  <2>5. e \in StellarEvents /\ e.ledger = ledger /\ e.type = "completed" /\ e.of = p
    BY <2>2, <2>3, <2>4 DEF StellarEvents
  <2>6. PICK events \in Seq(StellarEvents) :
          /\ events = Append(c.events, e)
          /\ EventsFit(events, ledger) /\ Grows(c.events, events, ledger)
    <3>1. e.type # "started" /\ e.of \in 1 .. Len(c.events) /\ ledger <= c.events[e.of].until
      BY <2>1, <2>5
    <3>2. EventsFit(Append(c.events, e), ledger) /\ Grows(c.events, Append(c.events, e), ledger)
      BY <1>1, <2>5, <3>1, EventAdded
    <3>3. Append(c.events, e) \in Seq(StellarEvents)
      BY <3>2 DEF EventsFit
    <3> QED BY <3>2, <3>3
  <2>7. d = [c EXCEPT !.holder = s.to, !.pending = 0, !.events = events]
    BY <1>1, <1>4, <2>1, <2>3, <2>4, <2>6 DEF Stellar!Accept, TransferContracts
  <2>8. d \in TransferContracts /\ d.pending = 0 /\ d.events = events
    BY <1>1, <2>6, <2>7 DEF TransferContracts, StellarEvents
  <2>9. Len(events) \in Nat
    BY <2>6
  <2> QED BY <2>6, <2>8, <2>9 DEF ContractFits, PendingFits
<1>5. CASE d = [c EXCEPT !.holder = Stellar!NoOne, !.pending = 0]
  <2>1. d \in TransferContracts /\ d.pending = 0 /\ d.events = c.events
    BY <1>1, <1>5 DEF TransferContracts
  <2> QED BY <1>1, <2>1 DEF ContractFits, PendingFits, Grows
<1> QED BY <1>2, <1>3, <1>4, <1>5 DEF Stellar!AfterOperation

\* What a call knows does not change with the events that are added.
LEMMA CallKept ==
    ASSUME NEW call, NEW old \in Seq(StellarEvents), NEW new \in Seq(StellarEvents),
           NEW indexed, NEW ledger \in Nat, CallFits(call, old, indexed, ledger),
           Grows(old, new, ledger + 1)
    PROVE  CallFits(call, new, indexed, ledger + 1)
<1>1. /\ call \in StellarCalls /\ call.transfer \in Nat /\ call.first \in Nat /\ call.second \in Nat
      /\ call.read \in Nat /\ Len(old) \in Nat /\ Len(new) \in Nat
  BY DEF CallFits, StellarCalls
<1>2. LatestStart(call, old) => LatestStart(call, new)
  <2> SUFFICES ASSUME LatestStart(call, old) PROVE LatestStart(call, new)
    OBVIOUS
  <2>1. /\ call.first <= Len(old) /\ call.transfer \in 1 .. call.first
        /\ \A i \in 1 .. call.first : i \in 1 .. Len(old) /\ new[i] = old[i]
    BY <1>1 DEF LatestStart, Grows
  <2>2. call.first <= Len(new)
    BY <1>1, <2>1 DEF Grows
  <2> QED BY <2>1, <2>2 DEF LatestStart
<1>3. LatestStart(call, old) /\ NotCompleted(call, old) => NotCompleted(call, new)
  <2> SUFFICES ASSUME LatestStart(call, old), NotCompleted(call, old) PROVE NotCompleted(call, new)
    OBVIOUS
  <2>1. new[call.transfer] = old[call.transfer]
    BY <1>1 DEF LatestStart, Grows
  <2>2. /\ call.second <= Len(old)
        /\ \A i \in 1 .. call.second : i \in 1 .. Len(old) /\ new[i] = old[i]
    BY <1>1 DEF NotCompleted, Grows
  <2>3. call.second <= Len(new)
    BY <1>1, <2>2 DEF Grows
  <2> QED BY <2>1, <2>2, <2>3 DEF NotCompleted
<1>4. NoLoneStart(call, old) => NoLoneStart(call, new)
  <2> SUFFICES ASSUME NoLoneStart(call, old), NEW i \in 1 .. call.first, new[i].type = "started",
                      \A j \in i + 1 .. call.second : new[j].type = "started"
               PROVE  FALSE
    BY <1>1 DEF NoLoneStart, Grows
  <2>1. /\ i \in Nat /\ call.first <= call.second /\ call.second <= Len(old)
        /\ old[i].type = "started"
    BY <1>1 DEF NoLoneStart, Grows
  <2>2. \A j \in i + 1 .. call.second : old[j].type = "started"
    BY <1>1, <2>1 DEF Grows
  <2> QED BY <2>1, <2>2 DEF NoLoneStart
<1>5. LatestStart(call, old) /\ HasExpired(call, old, ledger) => HasExpired(call, new, ledger + 1)
  <2> SUFFICES ASSUME LatestStart(call, old), HasExpired(call, old, ledger)
               PROVE  HasExpired(call, new, ledger + 1)
    OBVIOUS
  <2>1. /\ new[call.transfer] = old[call.transfer] /\ call.transfer \in 1 .. Len(old)
        /\ old[call.transfer].until \in Nat
    <3>1. call.transfer \in 1 .. Len(old)
      BY <1>1 DEF LatestStart
    <3> QED BY <3>1, EventTypes DEF Grows
  <2>2. ASSUME NEW i \in call.read + 1 .. Len(new) PROVE new[i].ledger > old[call.transfer].until
    <3>1. CASE i <= Len(old)
      BY <1>1, <3>1 DEF HasExpired, Grows
    <3>2. CASE i > Len(old)
      <4>1. new[i].ledger = ledger + 1
        BY <1>1, <3>2 DEF Grows
      <4>2. old[call.transfer].until <= ledger
        BY DEF HasExpired
      <4> QED BY <2>1, <4>1, <4>2
    <3> QED BY <1>1, <3>1, <3>2
  <2> QED BY <1>1, <2>1, <2>2 DEF HasExpired, Grows
<1> QED BY <1>1, <1>2, <1>3, <1>4, <1>5 DEF CallFits

LEMMA StellarCloses == ASSUME StellarFits, MaxLedger \in Nat, Stellar!CloseLedger PROVE StellarFits'
<1>1. PICK ledger \in Nat : ledger = s2.ledger
  BY DEF StellarFits
<1>2. PICK now : now = [holder |-> s2.holder, pending |-> s2.pending, events |-> s3]
  OBVIOUS
<1>3. PICK once \in Stellar!AfterOperation(now, ledger + 1) :
        \E twice \in Stellar!AfterOperation(once, ledger + 1) :
          /\ s2' = [ledger |-> ledger + 1, holder |-> twice.holder, pending |-> twice.pending]
          /\ s3' = twice.events
  BY <1>1, <1>2 DEF Stellar!CloseLedger
<1>4. PICK twice \in Stellar!AfterOperation(once, ledger + 1) :
          /\ s2' = [ledger |-> ledger + 1, holder |-> twice.holder, pending |-> twice.pending]
          /\ s3' = twice.events
  BY <1>3
<1>5. UNCHANGED <<s1, s4, s5>> /\ ledger + 1 \in Nat
  BY <1>1 DEF Stellar!CloseLedger
<1>6. ContractFits(now, ledger + 1)
  <2>1. now \in TransferContracts /\ now.events = s3 /\ now.pending = s2.pending
    BY <1>2 DEF StellarFits, EventsFit, TransferContracts
  <2>2. EventsFit(s3, ledger + 1)
    <3>1. \A i \in 1 .. Len(s3) : s3[i].ledger \in Nat
      BY EventTypes DEF StellarFits, EventsFit
    <3>2. EventsFit(s3, ledger)
      BY <1>1 DEF StellarFits
    <3>3. \A i \in 1 .. Len(s3) : s3[i].ledger <= ledger + 1
      BY <1>1, <3>1, <3>2 DEF EventsFit
    <3> QED BY <3>2, <3>3 DEF EventsFit
  <2> QED BY <2>1, <2>2 DEF ContractFits, StellarFits
<1>7. ContractFits(once, ledger + 1) /\ Grows(now.events, once.events, ledger + 1)
  BY <1>5, <1>6, OperationFits
<1>8. ContractFits(twice, ledger + 1) /\ Grows(once.events, twice.events, ledger + 1)
  BY <1>5, <1>7, OperationFits
<1>9. /\ now.events \in Seq(StellarEvents) /\ once.events \in Seq(StellarEvents)
      /\ twice.events \in Seq(StellarEvents) /\ now.events = s3
  BY <1>2, <1>6, <1>7, <1>8 DEF ContractFits, TransferContracts
<1>10. Grows(s3, s3', ledger + 1)
  BY <1>4, <1>7, <1>8, <1>9, GrowsTwice
<1>11. CallFits(s5, s3', s4, ledger + 1)
  BY <1>1, <1>4, <1>9, <1>10, CallKept DEF StellarFits
<1>12. s4 \in 0 .. Len(s3')
  <2>1. Len(s3) \in Nat /\ Len(s3') \in Nat /\ Len(s3) <= Len(s3') /\ s4 \in 0 .. Len(s3)
    BY <1>4, <1>9, <1>10 DEF StellarFits, Grows
  <2> QED BY <2>1
<1>13. /\ s2' \in [ledger : Nat, holder : Addresses \cup {Stellar!NoOne}, pending : Nat]
       /\ s2'.ledger = ledger + 1 /\ s2'.pending = twice.pending
  BY <1>4, <1>5, <1>8 DEF ContractFits, TransferContracts
<1>14. RenouncedFits(s5, s2.holder)'
  <2>1. CASE s2.holder = Stellar!NoOne
    <3>1. once = now /\ twice = once /\ s2'.holder = Stellar!NoOne
      BY <1>2, <1>3, <1>4, <2>1 DEF Stellar!AfterOperation
    <3> QED BY <3>1 DEF RenouncedFits
  <2>2. CASE s2.holder # Stellar!NoOne
    BY <1>5, <2>2 DEF StellarFits, RenouncedFits
  <2> QED BY <2>1, <2>2
<1> QED BY <1>4, <1>5, <1>8, <1>11, <1>12, <1>13, <1>14 DEF StellarFits, ContractFits
--------------------
(* A call *)

\* Answers that say nothing of the transfer's events, or not without a failed read.
LEMMA StellarAnswers ==
    ASSUME NEW call \in StellarCalls, NEW events, NEW indexed, NEW ledger,
           NEW state \in {"thrown", "renounced", "held"}, NEW clean \in BOOLEAN,
           state = "held" => ~clean,
           NEW next, next = [call EXCEPT !.pc = "done", !.state = state, !.clean = clean]
    PROVE  CallFits(next, events, indexed, ledger)
<1>1. next \in StellarCalls /\ next.pc = "done" /\ next.state = state /\ next.clean = clean
  BY DEF StellarCalls, Stellar!States
<1> QED BY <1>1 DEF CallFits

LEMMA StellarCallSteps ==
    ASSUME StellarFits,
           \/ Stellar!Begin \/ Stellar!ReadHolder \/ Stellar!CheckAvailability
           \/ Stellar!QueryStarted \/ Stellar!QueryCompleted \/ Stellar!ReadLedger
    PROVE  StellarFits'
<1>1. /\ UNCHANGED <<s1, s2, s3, s4>> /\ s5 \in StellarCalls /\ CallFits(s5, s3, s4, s2.ledger)
      /\ s5.state = "none" /\ s5.clean \in BOOLEAN /\ s2.ledger \in Nat
  BY DEF StellarFits, CallFits, StellarCalls, Stellar!Begin, Stellar!ReadHolder,
         Stellar!CheckAvailability, Stellar!QueryStarted, Stellar!QueryCompleted, Stellar!ReadLedger
<1>2. SUFFICES CallFits(s5', s3, s4, s2.ledger)
  <2>1. RenouncedFits(s5, s2.holder)'
    BY <1>1 DEF RenouncedFits, StellarCalls, Stellar!Begin, Stellar!ReadHolder,
         Stellar!CheckAvailability, Stellar!QueryStarted, Stellar!QueryCompleted, Stellar!ReadLedger,
         Stellar!Answered, Stellar!Degraded, Stellar!FailedHolderRead
  <2> QED BY <1>1, <2>1 DEF StellarFits
<1>3. /\ s3 \in Seq(StellarEvents) /\ Len(s3) \in Nat /\ s4 \in Nat /\ s4 <= Len(s3)
      /\ \A i \in 1 .. Len(s3) : s3[i] \in StellarEvents /\ s3[i].ledger \in Nat
      /\ \A i, j \in 1 .. Len(s3) : i <= j => s3[i].ledger <= s3[j].ledger
      /\ s2.holder \in Addresses \cup {Stellar!NoOne}
  <2>1. EventsFit(s3, s2.ledger) /\ s4 \in 0 .. Len(s3) /\ s2.holder \in Addresses \cup {Stellar!NoOne}
    BY DEF StellarFits
  <2>2. s3 \in Seq(StellarEvents) /\ \A i, j \in 1 .. Len(s3) : i <= j => s3[i].ledger <= s3[j].ledger
    BY <2>1 DEF EventsFit
  <2>3. Len(s3) \in Nat /\ s4 \in Nat /\ s4 <= Len(s3)
    BY <2>1, <2>2
  <2>4. \A i \in 1 .. Len(s3) : s3[i] \in StellarEvents /\ s3[i].ledger \in Nat
    BY <2>2, EventTypes
  <2> QED BY <2>1, <2>2, <2>3, <2>4
<1>4. ASSUME NEW state \in {"thrown", "renounced", "held"}, s5' = Stellar!Degraded(state)
      PROVE  CallFits(s5', s3, s4, s2.ledger)
  <2>1. s5' = [s5 EXCEPT !.pc = "done", !.state = state, !.clean = FALSE]
    BY <1>4 DEF Stellar!Degraded
  <2> QED BY <1>1, <2>1, StellarAnswers
<1>5. ASSUME NEW pc \in {"holder", "available", "started"}, NEW holder \in Addresses \cup {Stellar!NoOne},
             s5' = [s5 EXCEPT !.pc = pc, !.holder = holder]
      PROVE  CallFits(s5', s3, s4, s2.ledger)
  <2>1. s5' \in StellarCalls /\ s5'.pc = pc /\ s5'.state = "none"
    BY <1>1, <1>5 DEF StellarCalls
  <2> QED BY <2>1 DEF CallFits
<1>6. CASE Stellar!Begin
  <2>1. s5' = [s5 EXCEPT !.pc = "holder"] => s5' = [s5 EXCEPT !.pc = "holder", !.holder = s5.holder]
    BY <1>1 DEF StellarCalls
  <2> QED BY <1>1, <1>4, <1>5, <1>6, <2>1 DEF Stellar!Begin, StellarCalls
<1>7. CASE Stellar!ReadHolder
  <2>1. CASE s5' = Stellar!Degraded(Stellar!FailedHolderRead)
    BY <1>4, <2>1 DEF Stellar!FailedHolderRead
  <2>2. CASE s5' = Stellar!Answered("renounced")
    <3>1. s5' = [s5 EXCEPT !.pc = "done", !.state = "renounced", !.clean = s5.clean]
      BY <1>1, <2>2 DEF Stellar!Answered, StellarCalls
    <3> QED BY <1>1, <3>1, StellarAnswers
  <2>3. CASE s5' = [s5 EXCEPT !.pc = "available", !.holder = s2.holder]
    BY <1>3, <1>5, <2>3
  <2> QED BY <1>7, <2>1, <2>2, <2>3 DEF Stellar!ReadHolder
<1>8. CASE Stellar!CheckAvailability
  <2>1. s5' = [s5 EXCEPT !.pc = "started"] => s5' = [s5 EXCEPT !.pc = "started", !.holder = s5.holder]
    BY <1>1 DEF StellarCalls
  <2> QED BY <1>1, <1>4, <1>5, <1>8, <2>1 DEF Stellar!CheckAvailability, StellarCalls
<1>9. CASE Stellar!QueryStarted
  <2>1. CASE /\ Stellar!Indexed("started") = {}
             /\ s5' = [Stellar!Answered("held") EXCEPT !.first = s4, !.second = s4]
    <3>1. s5' = [[s5 EXCEPT !.pc = "done", !.state = "held"] EXCEPT !.first = s4, !.second = s4]
      BY <2>1 DEF Stellar!Answered
    <3>2. /\ s5' \in StellarCalls /\ s5'.pc = "done" /\ s5'.state = "held"
          /\ s5'.first = s4 /\ s5'.second = s4
      BY <1>1, <1>3, <3>1 DEF StellarCalls, Stellar!States
    <3>3. \A i \in 1 .. s4 : s3[i].type # "started"
      BY <2>1 DEF Stellar!Indexed
    <3>4. NoLoneStart(s5', s3)
      BY <1>3, <3>2, <3>3 DEF NoLoneStart
    <3> QED BY <3>2, <3>4 DEF CallFits
  <2>2. ASSUME NEW start \in Stellar!Latest(Stellar!Indexed("started")),
               s5' = [s5 EXCEPT !.pc = "completed", !.transfer = start, !.first = s4]
        PROVE  CallFits(s5', s3, s4, s2.ledger)
    <3>1. /\ start \in 1 .. s4 /\ s3[start].type = "started"
          /\ \A i \in 1 .. s4 : s3[i].type = "started" => s3[i].ledger <= s3[start].ledger
      BY DEF Stellar!Latest, Stellar!Indexed
    <3>2. /\ s5' \in StellarCalls /\ s5'.pc = "completed" /\ s5'.state = "none"
          /\ s5'.transfer = start /\ s5'.first = s4
      <4>1. PICK n \in Nat, m \in Nat : n = start /\ m = s4
        BY <1>3, <3>1
      <4> QED BY <1>1, <2>2, <4>1 DEF StellarCalls
    <3>3. LatestStart(s5', s3)
      BY <1>3, <3>1, <3>2 DEF LatestStart
    <3> QED BY <1>3, <3>2, <3>3 DEF CallFits
  <2> QED BY <1>4, <1>9, <2>1, <2>2 DEF Stellar!QueryStarted
<1>10. CASE Stellar!QueryCompleted
  <2>1. LatestStart(s5, s3) /\ s5.first <= s4 /\ s5.first \in Nat /\ s5.transfer \in Nat
    BY <1>1, <1>10 DEF CallFits, Stellar!QueryCompleted, StellarCalls
  <2>2. CASE /\ Stellar!CompletedAfter(s5.transfer) # {}
             /\ s5' = [Stellar!Answered("held") EXCEPT !.second = s4]
    <3>1. s5' = [[s5 EXCEPT !.pc = "done", !.state = "held"] EXCEPT !.second = s4]
      BY <2>2 DEF Stellar!Answered
    <3>2. /\ s5' \in StellarCalls /\ s5'.pc = "done" /\ s5'.state = "held"
          /\ s5'.first = s5.first /\ s5'.second = s4
      BY <1>1, <1>3, <3>1 DEF StellarCalls, Stellar!States
    <3>3. PICK k \in 1 .. s4 : s3[k].type = "completed" /\ s3[k].ledger > s3[s5.transfer].ledger
      BY <2>2 DEF Stellar!CompletedAfter, Stellar!Indexed
    <3>4. ASSUME NEW i \in 1 .. s5.first, s3[i].type = "started",
                 \A j \in i + 1 .. s4 : s3[j].type = "started"
          PROVE  FALSE
      <4>1. k \notin i + 1 .. s4 /\ k \in 1 .. Len(s3) /\ i \in 1 .. Len(s3) /\ s5.transfer \in 1 .. Len(s3)
        BY <1>3, <2>1, <3>3, <3>4 DEF LatestStart
      <4>2. k <= i
        BY <1>3, <3>3, <4>1
      <4>3. s3[k].ledger <= s3[i].ledger /\ s3[i].ledger <= s3[s5.transfer].ledger
        BY <1>3, <2>1, <3>4, <4>1, <4>2 DEF LatestStart
      <4>4. s3[k].ledger \in Nat /\ s3[i].ledger \in Nat /\ s3[s5.transfer].ledger \in Nat
        BY <1>3, <4>1
      <4> QED BY <3>3, <4>3, <4>4
    <3>5. NoLoneStart(s5', s3)
      BY <1>3, <2>1, <3>2, <3>4 DEF NoLoneStart
    <3> QED BY <3>2, <3>5 DEF CallFits
  <2>3. CASE /\ Stellar!CompletedAfter(s5.transfer) = {}
             /\ s5' = [s5 EXCEPT !.pc = "ledger", !.second = s4]
    <3>1. /\ s5' \in StellarCalls /\ s5'.pc = "ledger" /\ s5'.state = "none"
          /\ s5'.first = s5.first /\ s5'.second = s4 /\ s5'.transfer = s5.transfer
      BY <1>1, <1>3, <2>3 DEF StellarCalls
    <3>2. \A i \in 1 .. s4 : s3[i].type = "completed" => ~(s3[i].ledger > s3[s5.transfer].ledger)
      BY <2>3 DEF Stellar!CompletedAfter, Stellar!Indexed
    <3>3. s5.transfer \in 1 .. Len(s3)
      BY <1>3, <2>1 DEF LatestStart
    <3>4. NotCompleted(s5', s3)
      BY <1>3, <2>1, <3>1, <3>2, <3>3 DEF NotCompleted
    <3>5. LatestStart(s5', s3)
      BY <2>1, <3>1 DEF LatestStart
    <3> QED BY <3>1, <3>4, <3>5 DEF CallFits
  <2> QED BY <1>4, <1>10, <2>2, <2>3 DEF Stellar!QueryCompleted
<1>11. CASE Stellar!ReadLedger
  <2>1. LatestStart(s5, s3) /\ NotCompleted(s5, s3)
    BY <1>1, <1>11 DEF CallFits, Stellar!ReadLedger
  <2>2. ASSUME NEW state \in {"expired", "pending"},
               state = "expired" => Stellar!Expired(s5.transfer, s2.ledger),
               s5' = [Stellar!Answered(state) EXCEPT !.read = Len(s3)]
        PROVE  CallFits(s5', s3, s4, s2.ledger)
    <3>1. s5' = [[s5 EXCEPT !.pc = "done", !.state = state] EXCEPT !.read = Len(s3)]
      BY <2>2 DEF Stellar!Answered
    <3>2. /\ s5' \in StellarCalls /\ s5'.pc = "done" /\ s5'.state = state /\ s5'.read = Len(s3)
          /\ s5'.first = s5.first /\ s5'.second = s5.second /\ s5'.transfer = s5.transfer
      BY <1>1, <1>3, <3>1 DEF StellarCalls, Stellar!States
    <3>3. LatestStart(s5', s3) /\ NotCompleted(s5', s3)
      BY <2>1, <3>2 DEF LatestStart, NotCompleted
    <3>4. s5.transfer \in 1 .. Len(s3)
      BY <1>1, <1>3, <2>1 DEF LatestStart, StellarCalls
    <3>5. state = "expired" => HasExpired(s5', s3, s2.ledger)
      BY <1>1, <1>3, <2>2, <3>2, <3>4, EventTypes DEF HasExpired, Stellar!Expired
    <3> QED BY <3>2, <3>3, <3>5 DEF CallFits
  <2> QED BY <1>4, <1>11, <2>2 DEF Stellar!ReadLedger
<1> QED BY <1>6, <1>7, <1>8, <1>9, <1>10, <1>11

LEMMA StellarIndexes == ASSUME StellarFits, Stellar!Index PROVE StellarFits'
<1>1. PICK n \in s4 + 1 .. Len(s3) : s4' = n
  BY DEF Stellar!Index
<1>2. s3 \in Seq(StellarEvents) /\ Len(s3) \in Nat /\ s4 \in 0 .. Len(s3) /\ UNCHANGED <<s1, s2, s3, s5>>
  BY DEF StellarFits, EventsFit, Stellar!Index
<1>3. s4' \in 0 .. Len(s3) /\ s4 <= s4'
  BY <1>1, <1>2
<1>4. CallFits(s5, s3, s4', s2.ledger)
  <2>1. s5.first \in Nat /\ CallFits(s5, s3, s4, s2.ledger)
    BY DEF StellarFits, CallFits, StellarCalls
  <2> QED BY <1>2, <1>3, <2>1 DEF CallFits
<1> QED BY <1>2, <1>3, <1>4 DEF StellarFits, RenouncedFits

LEMMA StellarNext == ASSUME StellarFits, MaxLedger \in Nat, [Stellar!Next]_(Stellar!vars) PROVE StellarFits'
<1>1. CASE UNCHANGED Stellar!vars
  BY <1>1 DEF Stellar!vars, StellarFits, RenouncedFits
<1> QED BY <1>1, StellarCloses, StellarIndexes, StellarCallSteps DEF Stellar!Next

LEMMA StellarTold ==
    ASSUME StellarFits
    PROVE  Stellar!RenouncedIsReal /\ Stellar!PendingAgrees /\ Stellar!ExpiredIsFinal
<1>1. /\ s3 \in Seq(StellarEvents) /\ Len(s3) \in Nat /\ s5.first \in Nat /\ s5.second \in Nat
      /\ s5.read \in Nat /\ s5.transfer \in Nat
      /\ CallFits(s5, s3, s4, s2.ledger) /\ EventsFit(s3, s2.ledger)
  BY DEF StellarFits, EventsFit, CallFits, StellarCalls
<1>2. \A i \in 1 .. Len(s3) : /\ s3[i].ledger \in Nat /\ s3[i].until \in Nat
                              /\ s3[i].type \in {"started", "completed"}
  BY <1>1, EventTypes DEF StellarEvents
<1>3. ASSUME s5.state = "pending", NEW i \in s5.transfer + 1 .. s5.first
      PROVE  s3[i].ledger = s3[s5.transfer].ledger
  <2>1. LatestStart(s5, s3) /\ NotCompleted(s5, s3)
    BY <1>1, <1>3 DEF CallFits
  <2>2. /\ i \in 1 .. s5.first /\ i \in 1 .. s5.second /\ i \in 1 .. Len(s3)
        /\ s5.transfer \in 1 .. Len(s3) /\ s5.transfer <= i
    BY <1>1, <2>1 DEF LatestStart, NotCompleted
  <2>3. s3[i].ledger <= s3[s5.transfer].ledger
    BY <1>2, <2>1, <2>2 DEF LatestStart, NotCompleted
  <2>4. s3[s5.transfer].ledger <= s3[i].ledger
    BY <1>1, <2>2 DEF EventsFit
  <2> QED BY <1>2, <2>2, <2>3, <2>4
<1>4. ASSUME s5.state = "expired", NEW i \in s5.read + 1 .. Len(s3), s3[i].type = "completed",
             s3[i].of = s5.transfer
      PROVE  FALSE
  <2>1. HasExpired(s5, s3, s2.ledger) /\ LatestStart(s5, s3)
    BY <1>1, <1>4 DEF CallFits
  <2>2. i \in 1 .. Len(s3) /\ s5.transfer \in 1 .. Len(s3)
    BY <1>1, <2>1 DEF LatestStart
  <2>3. s3[i].ledger <= s3[s5.transfer].until
    BY <1>1, <1>4, <2>2 DEF EventsFit
  <2>4. s3[i].ledger > s3[s5.transfer].until
    BY <2>1 DEF HasExpired
  <2> QED BY <1>2, <2>2, <2>3, <2>4
<1>5. s5.state = "held" /\ s5.clean =>
         ~ \E i \in 1 .. s5.first :
             s3[i].type = "started" /\ \A j \in i + 1 .. s5.second : s3[j].type = "started"
  BY <1>1 DEF CallFits, NoLoneStart
<1>6. Stellar!RenouncedIsReal
  BY DEF StellarFits, RenouncedFits, Stellar!RenouncedIsReal
<1> QED BY <1>3, <1>4, <1>5, <1>6 DEF Stellar!PendingAgrees, Stellar!ExpiredIsFinal

--------------------
(* Induction over numbers, for what is built step by step. *)

\* A set of numbers has a least one: the intervals up to them are finite sets, which
\* are well-founded.
LEMMA Least ==
  ASSUME NEW T \in SUBSET Nat, T # {}
  PROVE  \E x \in T : \A y \in T : x <= y
<1> DEFINE R == StrictSubsetOrdering(Nat)
           F == {0 .. x : x \in T}
<1>1. IsWellFoundedOn(R, FiniteSubsetsOf(Nat))
  BY FS_StrictSubsetOrderingWellFounded
<1>2. F \subseteq FiniteSubsetsOf(Nat) /\ F # {}
  <2>1. ASSUME NEW x \in T PROVE 0 .. x \in SUBSET Nat /\ IsFiniteSet(0 .. x)
    <3>1. x \in Int /\ 0 \in Int /\ 0 .. x \in SUBSET Nat
      OBVIOUS
    <3> QED BY <3>1, FS_Interval
  <2>2. \A x \in T : 0 .. x \in FiniteSubsetsOf(Nat)
    BY <2>1 DEF FiniteSubsetsOf
  <2> QED BY <2>2
<1>3. PICK s \in F : \A t \in F : ~(<<t, s>> \in R)
  <2> HIDE DEF R, F
  <2> QED BY <1>1, <1>2, WFMin
<1>4. PICK x \in T : s = 0 .. x
  OBVIOUS
<1>5. ASSUME NEW y \in T, y < x PROVE FALSE
  <2>1. 0 .. y \subseteq 0 .. x /\ x \in 0 .. x /\ x \notin 0 .. y /\ 0 .. y \subseteq Nat /\ 0 .. x \subseteq Nat
    BY <1>5
  <2>2. <<0 .. y, 0 .. x>> \in R
    BY <2>1 DEF StrictSubsetOrdering
  <2> QED BY <2>2, <1>3, <1>4
<1> QED BY <1>5

\* Induction up to n, over a set instead of a predicate.
LEMMA Upto ==
  ASSUME NEW n \in Nat, NEW T, 0 \in T, \A i \in 1 .. n : i - 1 \in T => i \in T
  PROVE  \A i \in 0 .. n : i \in T
<1>1. SUFFICES ASSUME NEW k \in 0 .. n, k \notin T PROVE FALSE
  OBVIOUS
<1> DEFINE M == {i \in 0 .. n : i \notin T}
<1>2. PICK x \in M : \A y \in M : x <= y
  <2>1. M \subseteq Nat /\ k \in M
    BY <1>1
  <2> HIDE DEF M
  <2> QED BY <2>1, Least
<1>3. x \in 0 .. n /\ x # 0
  OBVIOUS
<1>4. x - 1 \in 0 .. n /\ ~(x <= x - 1) /\ x \in 1 .. n
  BY <1>3
<1> QED BY <1>2, <1>4

\* A function that is defined step by step on 0 .. n, and it is there.
StepsTo(g, n, X, base, step) ==
  g \in [0 .. n -> X] /\ g[0] = base /\ \A i \in 1 .. n : g[i] = step[i][g[i - 1]]

LEMMA Stepwise ==
  ASSUME NEW n \in Nat, NEW X, NEW base \in X, NEW step \in [1 .. n -> [X -> X]]
  PROVE  \E g : StepsTo(g, n, X, base, step)
<1> DEFINE T == {m \in 0 .. n : \E g : StepsTo(g, m, X, base, step)}
<1>1. 0 \in T
  <2> DEFINE g == [i \in 0 .. 0 |-> base]
  <2>1. g \in [0 .. 0 -> X] /\ g[0] = base /\ 1 .. 0 = {}
    OBVIOUS
  <2> HIDE DEF g
  <2>2. StepsTo(g, 0, X, base, step)
    BY <2>1 DEF StepsTo
  <2> QED BY <2>2
<1>2. ASSUME NEW m \in 1 .. n, m - 1 \in T PROVE m \in T
  <2>1. PICK g : StepsTo(g, m - 1, X, base, step)
    BY <1>2
  <2>2. m - 1 \in 0 .. m - 1 /\ g[m - 1] \in X /\ step[m][g[m - 1]] \in X
    BY <2>1 DEF StepsTo
  <2> DEFINE h == [i \in 0 .. m |-> IF i = m THEN step[m][g[m - 1]] ELSE g[i]]
  <2>3. h \in [0 .. m -> X]
    BY <2>1, <2>2 DEF StepsTo
  <2>4. h[0] = base
    BY <2>1 DEF StepsTo
  <2>5. ASSUME NEW i \in 1 .. m PROVE h[i] = step[i][h[i - 1]]
    <3>1. i - 1 \in 0 .. m /\ i - 1 # m /\ i \in 0 .. m
      OBVIOUS
    <3>2. h[i - 1] = g[i - 1]
      BY <3>1
    <3>3. CASE i = m
      BY <3>1, <3>2, <3>3
    <3>4. CASE i # m
      <4>1. i \in 1 .. m - 1 /\ h[i] = g[i]
        BY <3>4
      <4> QED BY <2>1, <3>2, <4>1 DEF StepsTo
    <3> QED BY <3>3, <3>4
  <2> HIDE DEF h
  <2>6. StepsTo(h, m, X, base, step)
    BY <2>3, <2>4, <2>5 DEF StepsTo
  <2> QED BY <2>6
<1> HIDE DEF T
<1>3. \A m \in 0 .. n : m \in T
  BY <1>1, <1>2, Upto
<1> QED BY <1>3 DEF T

--------------------
(* Filtered lists. *)

\* How a list is filtered: upto[i] is what is selected of its first i elements.
Selects(upto, s, wanted) ==
  /\ upto[0] = <<>>
  /\ \A i \in 1 .. Len(s) :
        upto[i] = IF s[i] \in wanted THEN Append(upto[i - 1], s[i]) ELSE upto[i - 1]

LEMMA SelectedStepwise ==
  ASSUME NEW E, NEW s \in Seq(E), NEW wanted
  PROVE  \E upto \in [0 .. Len(s) -> Seq(E)] :
            Selects(upto, s, wanted) /\ Selected(s, wanted) = upto[Len(s)]
<1> DEFINE n == Len(s)
           X == Seq(E)
           next(p, i) == IF s[i] \in wanted THEN Append(p, s[i]) ELSE p
           step == [i \in 1 .. n |-> [p \in X |-> next(p, i)]]
           Goes(f) == f = [i \in 0 .. n |-> IF i = 0 THEN <<>>
                                            ELSE IF s[i] \in wanted THEN Append(f[i - 1], s[i]) ELSE f[i - 1]]
           upto == CHOOSE f : Goes(f)
<1>n. n \in Nat /\ \A i \in 1 .. n : s[i] \in E
  OBVIOUS
<1>1. step \in [1 .. n -> [X -> X]]
  <2>1. \A i \in 1 .. n, p \in X : next(p, i) \in X
    BY <1>n
  <2> HIDE DEF n, X, next
  <2> QED BY <2>1
<1>2. <<>> \in X
  OBVIOUS
<1>3. \E g : Goes(g) /\ g \in [0 .. n -> X]
  <2>1. PICK g : StepsTo(g, n, X, <<>>, step)
    <3> HIDE DEF step, n, X
    <3> QED BY <1>1, <1>2, <1>n, Stepwise
  <2>2. g \in [0 .. n -> X] /\ g[0] = <<>> /\ \A i \in 1 .. n : g[i] = step[i][g[i - 1]]
    <3> HIDE DEF step, n, X
    <3> QED BY <2>1 DEF StepsTo
  <2>3. \A i \in 1 .. n : g[i - 1] \in X
    <3>1. \A i \in 1 .. n : i - 1 \in 0 .. n
      BY <1>n
    <3> HIDE DEF step, n, X
    <3> QED BY <2>2, <3>1
  <2>4. \A i \in 1 .. n : g[i] = next(g[i - 1], i)
    <3> HIDE DEF n, X, next
    <3> QED BY <2>2, <2>3
  <2>5. \A i \in 0 .. n : i = 0 \/ (i # 0 /\ i \in 1 .. n)
    BY <1>n
  <2>6. \A i \in 0 .. n : g[i] = IF i = 0 THEN <<>>
                                 ELSE IF s[i] \in wanted THEN Append(g[i - 1], s[i]) ELSE g[i - 1]
    <3> HIDE DEF n, X
    <3> QED BY <2>2, <2>4, <2>5
  <2>7. Goes(g)
    <3> HIDE DEF n, X
    <3> QED BY <2>2, <2>6
  <2> HIDE DEF Goes, n, X
  <2> QED BY <2>2, <2>7
<1>4. Goes(upto)
  <2> HIDE DEF Goes
  <2> QED BY <1>3
<1>5. Selected(s, wanted) = upto[n]
  BY DEF Selected
<1> HIDE DEF upto
<1>6. upto[0] = <<>> /\ \A i \in 1 .. n : upto[i] = next(upto[i - 1], i)
  <2>1. 0 \in 0 .. n /\ \A i \in 1 .. n : i \in 0 .. n /\ i # 0
    BY <1>n
  <2> HIDE DEF n
  <2> QED BY <1>4, <2>1
<1>7. \A i \in 0 .. n : upto[i] \in X
  <2> DEFINE T == {i \in 0 .. n : upto[i] \in X}
  <2>1. 0 \in T
    <3>1. 0 \in 0 .. n
      BY <1>n
    <3> HIDE DEF n, X, next, Goes, step
    <3> QED BY <3>1, <1>2, <1>6
  <2>2. ASSUME NEW i \in 1 .. n, i - 1 \in T PROVE i \in T
    <3>1. i \in 0 .. n /\ upto[i - 1] \in X
      BY <1>n, <2>2
    <3>2. next(upto[i - 1], i) \in X
      BY <3>1, <1>n
    <3>3. upto[i] = next(upto[i - 1], i)
      BY <1>6
    <3> HIDE DEF n, X, next, Goes, step
    <3> QED BY <3>1, <3>2, <3>3
  <2> HIDE DEF T, n
  <2>3. \A i \in 0 .. n : i \in T
    BY <1>n, <2>1, <2>2, Upto
  <2> QED BY <2>3 DEF T
<1>8. upto = [i \in 0 .. n |-> upto[i]]
  <2> HIDE DEF n
  <2> QED BY <1>4
<1>9. upto \in [0 .. n -> X]
  <2> HIDE DEF n, X
  <2> QED BY <1>7, <1>8
<1> QED BY <1>5, <1>6, <1>9 DEF Selects

\* What is selected of the beginning of a list is the beginning of what is selected.
LEMMA SelectedOfPrefix ==
  ASSUME NEW E, NEW s \in Seq(E), NEW t \in Seq(E), NEW wanted, NEW also,
         Len(s) <= Len(t), \A i \in 1 .. Len(s) : t[i] = s[i] /\ (s[i] \in wanted <=> s[i] \in also)
  PROVE  /\ Selected(s, wanted) \in Seq(E) /\ Selected(t, also) \in Seq(E)
         /\ Len(Selected(s, wanted)) <= Len(Selected(t, also))
         /\ \A k \in 1 .. Len(Selected(s, wanted)) : Selected(t, also)[k] = Selected(s, wanted)[k]
<1>1. PICK f \in [0 .. Len(s) -> Seq(E)] : Selects(f, s, wanted) /\ Selected(s, wanted) = f[Len(s)]
  BY SelectedStepwise
<1>2. PICK g \in [0 .. Len(t) -> Seq(E)] : Selects(g, t, also) /\ Selected(t, also) = g[Len(t)]
  BY SelectedStepwise
<1>3. Len(s) \in Nat /\ Len(t) \in Nat
  OBVIOUS
<1> DEFINE p == f[Len(s)]
           S == {i \in 0 .. Len(s) : f[i] = g[i]}
           T == {i \in 0 .. Len(t) : i >= Len(s) => Len(p) <= Len(g[i]) /\ \A k \in 1 .. Len(p) : g[i][k] = p[k]}
<1>4. p \in Seq(E) /\ Len(p) \in Nat
  BY <1>1, <1>3
<1>5. \A i \in 0 .. Len(s) : i \in S
  <2>1. 0 \in S
    BY <1>1, <1>2, <1>3 DEF Selects
  <2>2. ASSUME NEW i \in 1 .. Len(s), i - 1 \in S PROVE i \in S
    <3>1. i \in 0 .. Len(s) /\ i \in 1 .. Len(t) /\ f[i - 1] = g[i - 1]
      BY <1>3, <2>2
    <3>2. t[i] = s[i] /\ (s[i] \in wanted <=> t[i] \in also)
      OBVIOUS
    <3>3. /\ f[i] = IF s[i] \in wanted THEN Append(f[i - 1], s[i]) ELSE f[i - 1]
          /\ g[i] = IF t[i] \in also THEN Append(g[i - 1], t[i]) ELSE g[i - 1]
      BY <1>1, <1>2, <3>1 DEF Selects
    <3> QED BY <3>1, <3>2, <3>3
  <2> HIDE DEF S
  <2> QED BY <1>3, <2>1, <2>2, Upto
<1>6. \A i \in 0 .. Len(t) : i \in T
  <2>0. f[Len(s)] = g[Len(s)]
    BY <1>3, <1>5
  <2>1. 0 \in T
    BY <1>3, <1>4, <2>0
  <2>2. ASSUME NEW i \in 1 .. Len(t), i - 1 \in T PROVE i \in T
    <3>1. i \in 0 .. Len(t) /\ i - 1 \in 0 .. Len(t)
      BY <1>3
    <3>2. g[i] = IF t[i] \in also THEN Append(g[i - 1], t[i]) ELSE g[i - 1]
      BY <1>2 DEF Selects
    <3>3. CASE i <= Len(s)
      BY <3>1, <3>3, <1>3, <1>4, <2>0
    <3>4. CASE i > Len(s)
      <4>1. i - 1 >= Len(s) /\ g[i - 1] \in Seq(E) /\ t[i] \in E
        BY <3>1, <3>4, <1>3
      <4>2. Len(p) <= Len(g[i - 1]) /\ \A k \in 1 .. Len(p) : g[i - 1][k] = p[k]
        BY <4>1, <2>2
      <4> DEFINE h == g[i - 1]
      <4>3. /\ Len(Append(h, t[i])) = Len(h) + 1 /\ Len(h) \in Nat
            /\ \A k \in 1 .. Len(h) : Append(h, t[i])[k] = h[k]
        BY <4>1
      <4> HIDE DEF h, p
      <4>4. Len(p) <= Len(g[i]) /\ \A k \in 1 .. Len(p) : g[i][k] = p[k]
        BY <3>2, <4>2, <4>3, <1>4 DEF h
      <4> QED BY <3>1, <4>4
    <3> QED BY <3>3, <3>4, <1>3
  <2> HIDE DEF T
  <2> QED BY <1>3, <2>1, <2>2, Upto
<1>7. Len(t) \in T
  BY <1>3, <1>6
<1> QED BY <1>1, <1>2, <1>3, <1>4, <1>7

--------------------
(* The EVM connect dialog: its own properties are inductive. *)

Dialog == INSTANCE WagmiDialog
            WITH session <- s1, provider <- s2, failed <- s3, button <- s4, dialog <- s5, attempt <- s6

DialogFits == Dialog!TypeOK /\ Dialog!DialogIsUsable /\ Dialog!NamesItsChoice

LEMMA DialogInit == ASSUME Dialog!Init PROVE DialogFits
<1>1. PICK hide \in BOOLEAN :
         s4 = [hide |-> hide, open |-> FALSE, connected |-> FALSE, connecting |-> FALSE]
  BY DEF Dialog!Init
<1> QED BY <1>1 DEF Dialog!Init, DialogFits, Dialog!TypeOK, Dialog!DialogIsUsable, Dialog!NamesItsChoice,
       Dialog!Rendered, Dialog!Ready, Dialog!CanSelectConnector, Dialog!NoWallet

\* Whatever the effects are run for, they leave the dialog usable.
LEMMA DialogSettles ==
  ASSUME NEW p \in BOOLEAN, NEW f \in BOOLEAN,
         NEW b \in [hide : BOOLEAN, open : BOOLEAN, connected : BOOLEAN, connecting : BOOLEAN],
         NEW d \in Wallets \cup {Dialog!NoWallet},
         NEW a \in {"none", "pending", "connected", "error", "already"},
         d # Dialog!NoWallet => a # "none",
         s1' \in BOOLEAN, Dialog!Settle(p, f, b, d, a)
  PROVE  DialogFits'
<1> USE DEF Dialog!NoWallet
<1>1. Dialog!TypeOK'
  BY DEF Dialog!Settle, Dialog!TypeOK
<1>2. Dialog!DialogIsUsable'
  BY DEF Dialog!Settle, Dialog!DialogIsUsable, Dialog!Rendered, Dialog!Ready, Dialog!CanSelectConnector
<1>3. Dialog!NamesItsChoice'
  BY DEF Dialog!Settle, Dialog!NamesItsChoice, Dialog!Rendered, Dialog!Ready
<1> QED BY <1>1, <1>2, <1>3 DEF DialogFits

LEMMA DialogNext == ASSUME DialogFits, [Dialog!Next]_(Dialog!vars) PROVE DialogFits'
<1> USE DEF DialogFits, Dialog!TypeOK
<1>t. s4 \in [hide : BOOLEAN, open : BOOLEAN, connected : BOOLEAN, connecting : BOOLEAN] /\ s1 \in BOOLEAN
  OBVIOUS
<1>1. s5 # Dialog!NoWallet => s6 # "none"
  BY DEF Dialog!NamesItsChoice
<1>2. CASE Dialog!SessionChanges
  BY <1>2 DEF Dialog!SessionChanges, Dialog!DialogIsUsable, Dialog!NamesItsChoice,
              Dialog!Rendered, Dialog!Ready, Dialog!CanSelectConnector
<1>3. CASE Dialog!Render
  <2>1. PICK c \in BOOLEAN :
           Dialog!Settle(s2, s3, [s4 EXCEPT !.connected = s1, !.connecting = c], s5, s6)
    BY <1>3 DEF Dialog!Render
  <2>2. [s4 EXCEPT !.connected = s1, !.connecting = c]
           \in [hide : BOOLEAN, open : BOOLEAN, connected : BOOLEAN, connecting : BOOLEAN]
    BY <1>t
  <2> DEFINE b == [s4 EXCEPT !.connected = s1, !.connecting = c]
  <2>3. s1' \in BOOLEAN
    BY <1>3 DEF Dialog!Render
  <2>4. Dialog!Settle(s2, s3, b, s5, s6) /\ b \in [hide : BOOLEAN, open : BOOLEAN, connected : BOOLEAN, connecting : BOOLEAN]
    BY <2>1, <2>2
  <2> HIDE DEF b
  <2> QED BY <1>1, <2>3, <2>4, DialogSettles
<1>4. CASE Dialog!ProviderChanges
  BY <1>1, <1>4, DialogSettles DEF Dialog!ProviderChanges
<1>5. CASE Dialog!HandleError
  BY <1>1, <1>5, DialogSettles DEF Dialog!HandleError
<1>6. CASE Dialog!HandleConnectClick \/ Dialog!OnOpenChange
  <2>1. \A o \in BOOLEAN :
           [s4 EXCEPT !.open = o] \in [hide : BOOLEAN, open : BOOLEAN, connected : BOOLEAN, connecting : BOOLEAN]
    BY <1>t
  <2>2. PICK o \in BOOLEAN : Dialog!Settle(s2, s3, [s4 EXCEPT !.open = o], s5, s6) /\ s1' = s1
    BY <1>6 DEF Dialog!HandleConnectClick, Dialog!OnOpenChange
  <2> QED BY <1>1, <2>1, <2>2, DialogSettles
<1>7. ASSUME NEW w \in Wallets, Dialog!HandleConnectorSelect(w) PROVE DialogFits'
  BY <1>7, DialogSettles DEF Dialog!HandleConnectorSelect
<1>8. CASE Dialog!ConnectEnds
  BY <1>8, DialogSettles DEF Dialog!ConnectEnds
<1>9. CASE UNCHANGED Dialog!vars
  BY <1>9 DEF Dialog!vars, Dialog!DialogIsUsable, Dialog!NamesItsChoice,
              Dialog!Rendered, Dialog!Ready, Dialog!CanSelectConnector
<1> QED BY <1>2, <1>3, <1>4, <1>5, <1>6, <1>7, <1>8, <1>9 DEF Dialog!Next

--------------------
(* The subscription to wagmi's account. *)

Watching == INSTANCE WagmiWatching
              WITH facade <- s1, impl <- s2, connected <- s3, watchers <- s4

LEMMA WalletBounds ==
    /\ MaxKits \in Nat /\ MaxClicks \in Nat /\ MaxPolls \in Nat
    /\ MaxConfigs \in Nat /\ MaxWatchers \in Nat
BY BoundsAssumption, WalletBoundsAssumption

\* What becomes of a subscription, and of the implementation.
AWatcher == [config : Nat, live : BOOLEAN, ended : BOOLEAN, told : BOOLEAN, moved : BOOLEAN]
AnImplementation == [made : BOOLEAN, default : Nat, active : Nat, slot : Nat]

\* The slot holds the newest subscription that found a wallet, the only one that may be served.
SlotIsNewest ==
  /\ s2.slot <= Len(s4)
  /\ \A i \in 1 .. Len(s4) :
       /\ i # s2.slot => ~s4[i].live
       /\ i > s2.slot => s4[i].config = 0
       /\ i = s2.slot => s4[i].config # 0 /\ (s4[i].live <=> ~s4[i].ended)

\* Who is served was told of its config, and that is the one in use unless it is moved.
ServedIsTold ==
  \A i \in 1 .. Len(s4) :
     s4[i].live =>
        /\ s4[i].config \in 1 .. Len(s3) /\ s4[i].told = s3[s4[i].config]
        /\ ~s4[i].moved => Watching!Reached /\ s4[i].config = Watching!ConfigToUse(s2)

WatchingFits ==
  /\ s1 \in {"evm", "polkadot"} /\ s2 \in AnImplementation
  /\ s3 \in Seq(BOOLEAN) /\ s4 \in Seq(AWatcher)
  /\ s2.default <= Len(s3) /\ s2.active <= Len(s3)
  /\ SlotIsNewest /\ ServedIsTold

LEMMA WatchingInit == ASSUME Watching!Init PROVE WatchingFits
BY DEF Watching!Init, WatchingFits, AnImplementation, AWatcher, SlotIsNewest, ServedIsTold

\* A function on 1 .. n is a sequence.
LEMMA FunctionIsSeq ==
  ASSUME NEW S, NEW n \in Nat, NEW f \in [1 .. n -> S]
  PROVE  f \in Seq(S) /\ Len(f) = n
OBVIOUS

\* The implementation changes and the configs may grow, while each subscription is left as it
\* is or moved: what is kept if the config in use stays for who is not moved.
LEMMA WatchingReconfigured ==
  ASSUME WatchingFits,
         s1' = s1, s2' \in AnImplementation, s2'.slot = s2.slot,
         s3' \in Seq(BOOLEAN), Len(s3) <= Len(s3'), \A c \in 1 .. Len(s3) : s3'[c] = s3[c],
         s2'.default <= Len(s3'), s2'.active <= Len(s3'),
         \/ s4' = Watching!Moved
         \/ /\ s4' = s4
            /\ Watching!Reached /\ Watching!ConfigToUse(s2) # 0 =>
                 Watching!Reached' /\ Watching!ConfigToUse(s2') = Watching!ConfigToUse(s2)
  PROVE  WatchingFits'
<1>t. /\ s4 \in Seq(AWatcher) /\ DOMAIN s4 = 1 .. Len(s4) /\ Len(s4) \in Nat
      /\ \A i \in 1 .. Len(s4) : s4[i] \in AWatcher
  BY DEF WatchingFits
<1>1. CASE s4' = Watching!Moved
  <2>1. s4' = [i \in 1 .. Len(s4) |-> [s4[i] EXCEPT !.moved = TRUE]]
    BY <1>1, <1>t DEF Watching!Moved
  <2>2. \A i \in 1 .. Len(s4) : [s4[i] EXCEPT !.moved = TRUE] \in AWatcher
    BY <1>t DEF AWatcher
  <2>3. s4' \in [1 .. Len(s4) -> AWatcher]
    BY <2>1, <2>2
  <2>4. s4' \in Seq(AWatcher) /\ Len(s4') = Len(s4)
    BY <2>3, <1>t, FunctionIsSeq
  <2>5. \A i \in 1 .. Len(s4) :
        /\ s4'[i].config = s4[i].config /\ s4'[i].live = s4[i].live /\ s4'[i].ended = s4[i].ended
        /\ s4'[i].told = s4[i].told /\ s4'[i].moved
    <3> TAKE i \in 1 .. Len(s4)
    <3>1. s4'[i] = [s4[i] EXCEPT !.moved = TRUE] /\ s4[i] \in AWatcher
      BY <2>1, <1>t
    <3> DEFINE v == s4'[i]
    <3> HIDE DEF v
    <3>2. v = [s4[i] EXCEPT !.moved = TRUE]
      BY <3>1 DEF v
    <3>3. v.config = s4[i].config /\ v.live = s4[i].live /\ v.ended = s4[i].ended
          /\ v.told = s4[i].told /\ v.moved
      BY <3>1, <3>2 DEF AWatcher
    <3> QED BY <3>3 DEF v
  <2>6. SlotIsNewest'
    BY <2>4, <2>5 DEF WatchingFits, SlotIsNewest
  <2>7. ServedIsTold'
    BY <2>4, <2>5 DEF WatchingFits, ServedIsTold
  <2> QED BY <2>4, <2>6, <2>7 DEF WatchingFits
<1>2. CASE s4' = s4 /\ (Watching!Reached /\ Watching!ConfigToUse(s2) # 0 =>
                 Watching!Reached' /\ Watching!ConfigToUse(s2') = Watching!ConfigToUse(s2))
  <2>6. SlotIsNewest'
    BY <1>2 DEF WatchingFits, SlotIsNewest
  <2>7. ServedIsTold'
    BY <1>2 DEF WatchingFits, ServedIsTold
  <2> QED BY <1>2, <2>6, <2>7 DEF WatchingFits
<1> QED BY <1>1, <1>2

LEMMA ConfigsGrow ==
  ASSUME s3 \in Seq(BOOLEAN), Watching!ConfigMade
  PROVE  s3' \in Seq(BOOLEAN) /\ Len(s3') = Len(s3) + 1 /\ \A c \in 1 .. Len(s3) : s3'[c] = s3[c]
BY DEF Watching!ConfigMade

\* A use of the implementation leaves a config to use.
LEMMA UseMakesReady ==
  ASSUME WatchingFits, NEW i \in AnImplementation, i.default = s2.default, i.active = s2.active,
         i.made = s2.made, Watching!ReadyForUse(i)
  PROVE  /\ s2' \in AnImplementation /\ s2'.slot = i.slot /\ s2'.made = i.made
         /\ s3' \in Seq(BOOLEAN) /\ Len(s3) <= Len(s3') /\ \A c \in 1 .. Len(s3) : s3'[c] = s3[c]
         /\ s2'.default <= Len(s3') /\ s2'.active <= Len(s3')
         /\ s2'.active = s2.active
         /\ Watching!ConfigToUse(s2') \in 1 .. Len(s3')
         /\ Watching!ConfigToUse(s2) # 0 => Watching!ConfigToUse(s2') = Watching!ConfigToUse(s2)
<1>1. s3 \in Seq(BOOLEAN) /\ s2 \in AnImplementation /\ s2.default <= Len(s3) /\ s2.active <= Len(s3)
  BY DEF WatchingFits
<1>2. CASE i.active # 0 \/ i.default # 0
  BY <1>1, <1>2 DEF Watching!ReadyForUse, Watching!WithDefault, Watching!ConfigToUse, AnImplementation
<1>3. CASE i.active = 0 /\ i.default = 0
  <2>1. Watching!ConfigMade /\ s2' = [i EXCEPT !.default = Len(s3')]
    BY <1>3 DEF Watching!ReadyForUse, Watching!WithDefault
  <2> QED BY <1>1, <1>3, <2>1, ConfigsGrow DEF Watching!ConfigToUse, AnImplementation
<1> QED BY <1>2, <1>3

LEMMA WatchingSubscribes == ASSUME WatchingFits, Watching!OnWalletConnectionChange PROVE WatchingFits'
<1> DEFINE n == Len(s4)
<1>t. /\ s4 \in Seq(AWatcher) /\ s2 \in AnImplementation /\ s1' = s1 /\ s1 \in {"evm", "polkadot"}
      /\ s3 \in Seq(BOOLEAN) /\ n \in Nat /\ \A i \in 1 .. n : s4[i] \in AWatcher
  BY DEF WatchingFits, Watching!OnWalletConnectionChange
<1>1. CASE Watching!Reached
  <2> DEFINE i == [s2 EXCEPT !.slot = n + 1]
             w == [config |-> Watching!ConfigToUse(s2'), live |-> TRUE, ended |-> FALSE, moved |-> FALSE,
                   told |-> s3'[Watching!ConfigToUse(s2')]]
  <2>1. Watching!ReadyForUse(i) /\ s4' = Append(Watching!Ended(s4), w)
    BY <1>1 DEF Watching!OnWalletConnectionChange
  <2>2. i \in AnImplementation /\ i.default = s2.default /\ i.active = s2.active /\ i.made = s2.made
        /\ i.slot = n + 1
    BY <1>t DEF AnImplementation
  <2>3. /\ s2' \in AnImplementation /\ s2'.slot = n + 1 /\ s2'.made = s2.made
        /\ s3' \in Seq(BOOLEAN) /\ s2'.default <= Len(s3') /\ s2'.active <= Len(s3')
        /\ s2'.active = s2.active /\ Watching!ConfigToUse(s2') \in 1 .. Len(s3')
    <3> HIDE DEF i
    <3> QED BY <2>1, <2>2, UseMakesReady
  <2>4. w \in AWatcher
    BY <2>3 DEF AWatcher
  <2>5. /\ Watching!Ended(s4) \in Seq(AWatcher) /\ Len(Watching!Ended(s4)) = n
        /\ \A k \in 1 .. n : ~Watching!Ended(s4)[k].live
    <3>1. CASE s2.slot = 0
      BY <1>t, <3>1 DEF Watching!Ended, WatchingFits, SlotIsNewest
    <3>2. CASE s2.slot # 0
      <4>1. s2.slot \in 1 .. n
        BY <1>t, <3>2 DEF WatchingFits, SlotIsNewest, AnImplementation
      <4> DEFINE v == [s4[s2.slot] EXCEPT !.live = FALSE]
      <4>2. v \in AWatcher /\ ~v.live
        BY <1>t, <4>1 DEF AWatcher
      <4>3. Watching!Ended(s4) = [s4 EXCEPT ![s2.slot] = v]
        BY <3>2 DEF Watching!Ended
      <4> HIDE DEF v
      <4>4. \A k \in 1 .. n : k # s2.slot => ~s4[k].live
        BY DEF WatchingFits, SlotIsNewest
      <4> QED BY <4>1, <4>2, <4>3, <4>4, <1>t
    <3> QED BY <3>1, <3>2
  <2>6. /\ s4' \in Seq(AWatcher) /\ Len(s4') = n + 1 /\ s4'[n + 1] = w
        /\ \A k \in 1 .. n : ~s4'[k].live
    <3> HIDE DEF w
    <3> QED BY <2>1, <2>4, <2>5
  <2>7. SlotIsNewest'
    BY <2>3, <2>6, <1>t DEF SlotIsNewest
  <2>8. Watching!Reached'
    BY <1>1, <1>t, <2>3 DEF Watching!Reached
  <2>9. ServedIsTold'
    BY <2>3, <2>6, <2>8, <1>t DEF ServedIsTold
  <2> QED BY <1>t, <2>3, <2>6, <2>7, <2>9 DEF WatchingFits
<1>2. CASE ~Watching!Reached
  <2> DEFINE w == [config |-> 0, live |-> FALSE, ended |-> FALSE, moved |-> FALSE, told |-> FALSE]
  <2>1. s2' = s2 /\ s3' = s3 /\ s4' = Append(s4, w)
    BY <1>2 DEF Watching!OnWalletConnectionChange
  <2>2. w \in AWatcher /\ w.config = 0 /\ ~w.live
    BY DEF AWatcher
  <2> HIDE DEF w
  <2>3. s4' \in Seq(AWatcher) /\ Len(s4') = n + 1 /\ s4'[n + 1] = w /\ \A k \in 1 .. n : s4'[k] = s4[k]
    BY <2>1, <2>2, <1>t
  <2>4. SlotIsNewest'
    BY <2>1, <2>2, <2>3, <1>t DEF WatchingFits, SlotIsNewest, AnImplementation
  <2>5. ServedIsTold'
    BY <2>1, <2>2, <2>3, <1>t DEF WatchingFits, ServedIsTold, Watching!Reached
  <2> QED BY <2>1, <2>3, <2>4, <2>5, <1>t DEF WatchingFits
<1> QED BY <1>1, <1>2

LEMMA WatchingNext == ASSUME WatchingFits, [Watching!Next]_(Watching!vars) PROVE WatchingFits'
<1>t. /\ s4 \in Seq(AWatcher) /\ s2 \in AnImplementation /\ s1 \in {"evm", "polkadot"}
      /\ s3 \in Seq(BOOLEAN) /\ s2.default <= Len(s3) /\ s2.active <= Len(s3)
      /\ \A k \in 1 .. Len(s4) : s4[k] \in AWatcher
  BY DEF WatchingFits
<1>1. CASE Watching!GetImplementation
  <2>1. /\ s2' \in AnImplementation /\ s2'.slot = s2.slot /\ s2'.active = s2.active
        /\ s2'.default = s2.default /\ s2'.made /\ UNCHANGED <<s1, s3, s4>>
    BY <1>1, <1>t DEF Watching!GetImplementation, AnImplementation
  <2>2. Watching!ConfigToUse(s2') = Watching!ConfigToUse(s2) /\ (Watching!Reached => Watching!Reached')
    BY <2>1 DEF Watching!ConfigToUse, Watching!Reached
  <2> QED BY <2>1, <2>2, <1>t, WatchingReconfigured
<1>2. CASE Watching!ActivateDefault
  <2>1. CASE s2.default # 0
    <3>1. /\ s2' = [s2 EXCEPT !.active = s2.default] /\ s2.made /\ UNCHANGED <<s1, s3>>
          /\ s4' = IF Watching!OwnConfig THEN Watching!Moved ELSE s4
      BY <1>2, <2>1 DEF Watching!ActivateDefault
    <3>2. /\ s2' \in AnImplementation /\ s2'.slot = s2.slot /\ s2'.active = s2.default
          /\ s2'.default = s2.default /\ s2'.made
      BY <3>1, <1>t DEF AnImplementation
    <3>3. Watching!OwnConfig \/ Watching!ConfigToUse(s2') = Watching!ConfigToUse(s2)
      BY <2>1, <3>2 DEF Watching!ConfigToUse, Watching!OwnConfig
    <3>4. Watching!Reached'
      BY <2>1, <3>2 DEF Watching!Reached
    <3> QED BY <3>1, <3>2, <3>3, <3>4, <1>t, WatchingReconfigured
  <2>2. CASE s2.default = 0
    <3>1. Watching!ConfigMade /\ s2' = [s2 EXCEPT !.default = Len(s3'), !.active = Len(s3')]
          /\ s4' = (IF Watching!OwnConfig THEN Watching!Moved ELSE s4) /\ s1' = s1 /\ s2.made
      BY <1>2, <2>2 DEF Watching!ActivateDefault
    <3>2. s3' \in Seq(BOOLEAN) /\ Len(s3') = Len(s3) + 1 /\ \A c \in 1 .. Len(s3) : s3'[c] = s3[c]
      BY <3>1, <1>t, ConfigsGrow
    <3>3. s2' \in AnImplementation /\ s2'.slot = s2.slot /\ s2'.default = Len(s3') /\ s2'.active = Len(s3') /\ s2'.made
      <4>1. Len(s3') \in Nat
        BY <3>2
      <4> QED BY <3>1, <4>1, <1>t DEF AnImplementation
    <3>4. Watching!OwnConfig \/ Watching!ConfigToUse(s2) = 0
      BY <2>2 DEF Watching!OwnConfig, Watching!ConfigToUse
    <3>5. Len(s3) <= Len(s3') /\ s2'.default <= Len(s3') /\ s2'.active <= Len(s3')
      BY <3>2, <3>3, <1>t
    <3> QED BY <3>1, <3>2, <3>3, <3>4, <3>5, <1>t, WatchingReconfigured
  <2> QED BY <2>1, <2>2
<1>3. CASE Watching!ActivateRainbowKit
  <2>1. s3' \in Seq(BOOLEAN) /\ Len(s3') = Len(s3) + 1 /\ \A c \in 1 .. Len(s3) : s3'[c] = s3[c]
    BY <1>3, <1>t, ConfigsGrow DEF Watching!ActivateRainbowKit
  <2>2. s2' = [s2 EXCEPT !.active = Len(s3')] /\ s4' = Watching!Moved /\ s1' = s1 /\ s2.made
    BY <1>3 DEF Watching!ActivateRainbowKit
  <2>3. Len(s3') \in Nat
    BY <2>1
  <2>4. s2' \in AnImplementation /\ s2'.slot = s2.slot /\ s2'.active = Len(s3') /\ s2'.default = s2.default /\ s2'.made
    BY <2>2, <2>3, <1>t DEF AnImplementation
  <2>5. Len(s3) <= Len(s3') /\ s2'.default <= Len(s3') /\ s2'.active <= Len(s3')
    BY <2>1, <2>4, <1>t DEF AnImplementation
  <2> QED BY <2>1, <2>2, <2>4, <2>5, <1>t, WatchingReconfigured
<1>4. CASE Watching!Deactivate
  <2>1. /\ s2' \in AnImplementation /\ s2'.slot = s2.slot /\ s2'.active = 0 /\ s2'.default = s2.default
        /\ s2'.made = s2.made /\ s2.active # 0
    BY <1>4, <1>t DEF Watching!Deactivate, AnImplementation
  <2>2. /\ s4' = (IF Watching!OwnConfig \/ s1 = "polkadot" THEN Watching!Moved ELSE s4)
        /\ UNCHANGED <<s1, s3>>
    BY <1>4 DEF Watching!Deactivate
  <2>3. \/ Watching!OwnConfig \/ s1 = "polkadot"
        \/ /\ Watching!ConfigToUse(s2') = Watching!ConfigToUse(s2)
           /\ Watching!Reached => Watching!Reached'
    BY <2>1, <2>2, <1>t DEF Watching!Reached, Watching!ConfigToUse, Watching!OwnConfig
  <2>4. s2'.active <= Len(s3') /\ s2'.default <= Len(s3') /\ Len(s3) <= Len(s3')
    BY <2>1, <2>2, <1>t
  <2> QED BY <2>1, <2>2, <2>3, <2>4, <1>t, WatchingReconfigured
<1>5. CASE Watching!RpcConfigChanged
  <2>1. /\ s2' \in AnImplementation /\ s2'.slot = s2.slot /\ s2'.active = s2.active /\ s2'.default = 0
        /\ s4' = Watching!Moved /\ UNCHANGED <<s1, s3>>
    BY <1>5, <1>t DEF Watching!RpcConfigChanged, AnImplementation
  <2>4. s2'.active <= Len(s3') /\ s2'.default <= Len(s3') /\ Len(s3) <= Len(s3')
    BY <2>1, <1>t
  <2> QED BY <2>1, <2>4, <1>t, WatchingReconfigured
<1>6. CASE Watching!GetWalletConnectionStatus
  <2>1. Watching!ReadyForUse(s2) /\ s1' = s1 /\ s4' = s4 /\ Watching!Reached
    BY <1>6 DEF Watching!GetWalletConnectionStatus
  <2>2. /\ s2' \in AnImplementation /\ s2'.slot = s2.slot /\ s2'.made = s2.made
        /\ s3' \in Seq(BOOLEAN) /\ Len(s3) <= Len(s3') /\ \A c \in 1 .. Len(s3) : s3'[c] = s3[c]
        /\ s2'.default <= Len(s3') /\ s2'.active <= Len(s3') /\ s2'.active = s2.active
        /\ Watching!ConfigToUse(s2) # 0 => Watching!ConfigToUse(s2') = Watching!ConfigToUse(s2)
    BY <2>1, <1>t, UseMakesReady
  <2>3. Watching!Reached'
    BY <2>1, <2>2 DEF Watching!Reached
  <2> QED BY <2>1, <2>2, <2>3, WatchingReconfigured
<1>7. CASE Watching!OnWalletConnectionChange
  BY <1>7, WatchingSubscribes
<1>8. ASSUME NEW i \in DOMAIN s4, Watching!Unsubscribe(i) PROVE WatchingFits'
  <2>1. /\ s1' = s1 /\ s2' = s2 /\ s3' = s3 /\ s4' \in Seq(AWatcher) /\ Len(s4') = Len(s4)
        /\ \A k \in 1 .. Len(s4) : k # i => s4'[k] = s4[k]
        /\ s4'[i].config = s4[i].config /\ ~s4'[i].live /\ s4'[i].ended
    <3> DEFINE v == [s4[i] EXCEPT !.ended = TRUE, !.live = FALSE]
    <3>1. v \in AWatcher /\ v.config = s4[i].config /\ ~v.live /\ v.ended
      <4>1. v = [s4[i] EXCEPT !.ended = TRUE, !.live = FALSE] /\ s4[i] \in AWatcher
        BY <1>t
      <4> HIDE DEF v
      <4> QED BY <4>1 DEF AWatcher
    <3>2. s4' = [s4 EXCEPT ![i] = v] /\ UNCHANGED <<s1, s2, s3>>
      BY <1>8 DEF Watching!Unsubscribe
    <3> HIDE DEF v
    <3> QED BY <3>1, <3>2, <1>t
  <2>2. i \in 1 .. Len(s4)
    BY <1>t
  <2>3. SlotIsNewest'
    BY <2>1, <2>2 DEF WatchingFits, SlotIsNewest
  <2>4. ServedIsTold'
    BY <2>1, <2>2 DEF WatchingFits, ServedIsTold, Watching!Reached
  <2> QED BY <2>1, <2>3, <2>4 DEF WatchingFits
<1>9. ASSUME NEW c \in DOMAIN s3, Watching!AccountChanges(c) PROVE WatchingFits'
  <2>1. /\ s1' = s1 /\ s2' = s2 /\ s3' \in Seq(BOOLEAN) /\ Len(s3') = Len(s3)
        /\ \A d \in 1 .. Len(s3) : d # c => s3'[d] = s3[d]
    BY <1>9, <1>t DEF Watching!AccountChanges
  <2>2. s4' = [i \in 1 .. Len(s4) |-> IF s4[i].live /\ s4[i].config = c
                      THEN [s4[i] EXCEPT !.told = s3'[c]] ELSE s4[i]]
    BY <1>9, <1>t DEF Watching!AccountChanges
  <2>3. s3'[c] \in BOOLEAN /\ c \in 1 .. Len(s3)
    BY <1>t, <2>1
  <2>4. /\ s4' \in Seq(AWatcher) /\ Len(s4') = Len(s4)
        /\ \A i \in 1 .. Len(s4) :
              /\ s4'[i].config = s4[i].config /\ s4'[i].live = s4[i].live /\ s4'[i].ended = s4[i].ended
              /\ s4'[i].moved = s4[i].moved
              /\ s4'[i].told = IF s4[i].live /\ s4[i].config = c THEN s3'[c] ELSE s4[i].told
    <3> DEFINE v(i) == IF s4[i].live /\ s4[i].config = c THEN [s4[i] EXCEPT !.told = s3'[c]] ELSE s4[i]
    <3>1. ASSUME NEW i \in 1 .. Len(s4)
          PROVE  /\ v(i) \in AWatcher
                 /\ v(i).config = s4[i].config /\ v(i).live = s4[i].live /\ v(i).ended = s4[i].ended
                 /\ v(i).moved = s4[i].moved
                 /\ v(i).told = IF s4[i].live /\ s4[i].config = c THEN s3'[c] ELSE s4[i].told
      <4>1. CASE s4[i].live /\ s4[i].config = c
        <5>1. v(i) = [s4[i] EXCEPT !.told = s3'[c]] /\ s4[i] \in AWatcher
          BY <1>t, <4>1
        <5> HIDE DEF v
        <5> QED BY <4>1, <5>1, <2>3 DEF AWatcher
      <4>2. CASE ~(s4[i].live /\ s4[i].config = c)
        BY <1>t, <4>2
      <4> QED BY <4>1, <4>2
    <3>2. s4' = [i \in 1 .. Len(s4) |-> v(i)]
      BY <2>2
    <3> HIDE DEF v
    <3>3. s4' \in [1 .. Len(s4) -> AWatcher] /\ \A i \in 1 .. Len(s4) : s4'[i] = v(i)
      BY <3>1, <3>2
    <3>4. s4' \in Seq(AWatcher) /\ Len(s4') = Len(s4)
      <4>1. Len(s4) \in Nat
        BY <1>t
      <4> QED BY <4>1, <3>3, FunctionIsSeq
    <3> QED BY <3>1, <3>3, <3>4
  <2>5. SlotIsNewest'
    BY <2>1, <2>4 DEF WatchingFits, SlotIsNewest
  <2>6. ServedIsTold'
    <3>1. ASSUME NEW i \in 1 .. Len(s4), s4'[i].live
          PROVE  /\ s4'[i].config \in 1 .. Len(s3) /\ s4'[i].told = s3'[s4'[i].config]
                 /\ ~s4'[i].moved => Watching!Reached /\ s4'[i].config = Watching!ConfigToUse(s2)
      <4>1. /\ s4[i].config \in 1 .. Len(s3) /\ s4[i].told = s3[s4[i].config]
            /\ ~s4[i].moved => Watching!Reached /\ s4[i].config = Watching!ConfigToUse(s2)
        BY <2>4, <3>1 DEF WatchingFits, ServedIsTold
      <4>2. CASE s4[i].config = c
        BY <2>4, <3>1, <4>1, <4>2
      <4>3. CASE s4[i].config # c
        BY <2>1, <2>4, <4>1, <4>3
      <4> QED BY <4>2, <4>3
    <3>2. Watching!Reached' = Watching!Reached /\ Watching!ConfigToUse(s2') = Watching!ConfigToUse(s2)
      BY <2>1 DEF Watching!Reached
    <3> QED BY <2>1, <2>4, <3>1, <3>2 DEF ServedIsTold
  <2> QED BY <2>1, <2>4, <2>5, <2>6 DEF WatchingFits
<1>10. CASE UNCHANGED Watching!vars
  BY <1>10 DEF Watching!vars, WatchingFits, SlotIsNewest, ServedIsTold, Watching!Reached
<1> QED BY <1>1, <1>2, <1>3, <1>4, <1>5, <1>6, <1>7, <1>8, <1>9, <1>10 DEF Watching!Next

LEMMA WatchingTold == ASSUME WatchingFits PROVE Watching!LatestIsServed /\ Watching!ToldIsStatus
<1>1. DOMAIN s4 = 1 .. Len(s4) /\ \A i \in 1 .. Len(s4) : s4[i] \in AWatcher
  BY DEF WatchingFits
<1>2. Watching!LatestIsServed
  BY <1>1 DEF WatchingFits, SlotIsNewest, Watching!LatestIsServed, AnImplementation
<1>3. Watching!ToldIsStatus
  BY <1>1 DEF WatchingFits, ServedIsTold, Watching!ToldIsStatus, Watching!Status
<1> QED BY <1>2, <1>3

--------------------
(* The connecting of a Stellar wallet: s1 is the UI-kit manager, s2 the kits *)
(* being wired, s3 the implementation, s4 the prompts, s5 the wallet root,   *)
(* s6 its dialog and button.                                               *)

StellarUi == INSTANCE StellarConnecting
               WITH MaxKits <- MaxKits + 1, MaxPrompts <- MaxClicks,
                    manager <- s1, wiring <- s2, impl <- s3, prompts <- s4, root <- s5, ui <- s6

UiManagers == [kitName : StellarUi!OrNone(StellarUi!KitNames), provider : Nat, made : Nat,
               initializing : BOOLEAN, configured : BOOLEAN, failed : BOOLEAN, overtaken : BOOLEAN]
UiWires == [kit : Nat, creates : BOOLEAN]
UiImpls == [made : BOOLEAN, kit : Nat, address : StellarUi!OrNone(Wallets), connecting : BOOLEAN]
UiPrompts == [wallet : Wallets, by : {"dialog", "gone", "other"}, pending : BOOLEAN]
UiRoots == [mounted : BOOLEAN, listening : BOOLEAN, shown : StellarUi!OrNone(Wallets), refused : BOOLEAN]
UiDialogs == [hide : BOOLEAN, open : BOOLEAN, manual : BOOLEAN,
              choosing : StellarUi!OrNone(Wallets), late : BOOLEAN]

\* Kits wait for an implementation that is there; the last of them is the manager's, or it
\* was overtaken.
WiringFits ==
  /\ s1 \in UiManagers /\ s2 \in Seq(UiWires) /\ s3 \in UiImpls
  /\ s2 # <<>> => s3.made
  /\ ~s3.made /\ s1.kitName # StellarUi!None => s1.failed
  /\ s2 = <<>> => ~s1.initializing /\ (~s1.overtaken => s3.kit = s1.provider)
  /\ s2 # <<>> /\ ~s1.overtaken => s2[Len(s2)].kit = s1.provider

\* What a root shows, of the implementation it listens to.
RootFits(root, impl) ==
  /\ root \in UiRoots
  /\ root.listening => root.mounted /\ root.shown = impl.address
  /\ ~root.listening => root.shown = StellarUi!None /\ (root.mounted => root.refused)

\* A dialog is the root's, and one that is open over a connection waits for nothing.
UiFits(ui, root) ==
  /\ ui \in UiDialogs
  /\ ~root.mounted => ~ui.open /\ ui.choosing = StellarUi!None
  /\ ui.manual => ui.open
  /\ ui.open /\ root.shown # StellarUi!None => ~ui.hide /\ ui.choosing = StellarUi!None /\ ui.late

\* Who waits for a wallet waits for one that was asked.
PromptsFit(prompts, impl, root, ui) ==
  /\ prompts \in Seq(UiPrompts)
  /\ impl.connecting => \E i \in 1 .. Len(prompts) : prompts[i].pending
  /\ root.listening /\ ui.choosing # StellarUi!None =>
       \E i \in 1 .. Len(prompts) : prompts[i].pending /\ prompts[i].by = "dialog"

ConnectingFits ==
  WiringFits /\ RootFits(s5, s3) /\ UiFits(s6, s5) /\ PromptsFit(s4, s3, s5, s6)

LEMMA ConnectingInit == ASSUME StellarUi!Init PROVE ConnectingFits
<1> USE DEF StellarUi!None, StellarUi!OrNone
<1>1. WiringFits
  BY DEF StellarUi!Init, WiringFits, UiManagers, UiImpls
<1>2. RootFits(s5, s3)
  BY DEF StellarUi!Init, StellarUi!NoRoot, RootFits, UiRoots
<1>3. UiFits(s6, s5)
  BY DEF StellarUi!Init, StellarUi!NoRoot, UiFits, UiDialogs
<1>4. PromptsFit(s4, s3, s5, s6)
  BY DEF StellarUi!Init, StellarUi!NoRoot, PromptsFit
<1> QED BY <1>1, <1>2, <1>3, <1>4 DEF ConnectingFits

\* configure() leaves what the root shows, and an implementation or a failure.
LEMMA ConnectingConfigures ==
  ASSUME WiringFits, NEW name \in StellarUi!KitNames, StellarUi!Configure(name)
  PROVE  /\ WiringFits' /\ s3'.address = s3.address /\ s3'.connecting = s3.connecting
         /\ s3'.made \/ s1'.failed
<1>1. s1 \in UiManagers /\ s2 \in Seq(UiWires) /\ s3 \in UiImpls /\ s1.made + 1 \in Nat
  BY DEF WiringFits, UiManagers
<1>2. CASE name \in StellarUi!KnownKits
  <2>1. PICK kit \in Nat :
          /\ s1' = [s1 EXCEPT !.kitName = name, !.provider = kit, !.made = @ + 1, !.initializing = TRUE]
          /\ s2' = Append(s2, [kit |-> kit, creates |-> ~s3.made])
          /\ s3' = [s3 EXCEPT !.made = TRUE]
    BY <1>1, <1>2 DEF StellarUi!Configure, StellarUi!Made
  <2>2. s1' \in UiManagers /\ s1'.provider = kit /\ s1'.overtaken = s1.overtaken
    BY <1>1, <2>1 DEF UiManagers, StellarUi!OrNone
  <2>3. s3' \in UiImpls /\ s3'.made /\ s3'.address = s3.address /\ s3'.connecting = s3.connecting
    BY <1>1, <2>1 DEF UiImpls
  <2>4. PICK w \in UiWires : w.kit = kit /\ s2' = Append(s2, w)
    <3> DEFINE w == [kit |-> kit, creates |-> ~s3.made]
    <3>1. w \in UiWires /\ w.kit = kit
      BY DEF UiWires
    <3> QED BY <2>1, <3>1
  <2>5. s2' \in Seq(UiWires) /\ s2' # <<>> /\ s2'[Len(s2')].kit = kit
    BY <2>4, <1>1
  <2> QED BY <2>2, <2>3, <2>5 DEF WiringFits
<1>3. CASE name \notin StellarUi!KnownKits
  <2>1. /\ s1' = [s1 EXCEPT !.kitName = name, !.made = @ + 1, !.initializing = FALSE,
                            !.configured = FALSE, !.failed = TRUE]
        /\ s2' = s2 /\ s3' = s3
    BY <1>3 DEF StellarUi!Configure
  <2>2. /\ s1' \in UiManagers /\ s1'.provider = s1.provider /\ s1'.overtaken = s1.overtaken
        /\ s1'.failed /\ ~s1'.initializing
    BY <1>1, <2>1 DEF UiManagers, StellarUi!OrNone
  <2> QED BY <2>1, <2>2 DEF WiringFits
<1> QED BY <1>2, <1>3

LEMMA ConnectingWired == ASSUME ConnectingFits, StellarUi!ActiveKitSet PROVE ConnectingFits'
<1>1. PICK i \in DOMAIN s2 :
        /\ i = 1 \/ (i = 2 /\ s2[1].creates)
        /\ s3' = [s3 EXCEPT !.kit = s2[i].kit]
        /\ s2' = StellarUi!RemoveAt(s2, i)
        /\ s1' = [s1 EXCEPT !.initializing = FALSE, !.configured = TRUE, !.failed = FALSE,
                            !.overtaken = @ \/ (i = 2)]
        /\ UNCHANGED <<s4, s5, s6>>
  BY DEF StellarUi!ActiveKitSet
<1>2. s1 \in UiManagers /\ s2 \in Seq(UiWires) /\ s3 \in UiImpls
  BY DEF ConnectingFits, WiringFits
<1>3. i \in 1 .. Len(s2) /\ Len(s2) \in Nat /\ s2[i] \in UiWires /\ s2[i].kit \in Nat /\ s3.made
      /\ s2 # <<>> /\ (i = 1 \/ i = 2)
  <2>1. i \in 1 .. Len(s2) /\ Len(s2) \in Nat /\ s2[i] \in UiWires
    BY <1>1, <1>2
  <2>2. s2 # <<>>
    BY <2>1
  <2> QED BY <1>1, <2>1, <2>2 DEF ConnectingFits, WiringFits, UiWires
<1>4. /\ s1' \in UiManagers /\ s1'.provider = s1.provider /\ ~s1'.initializing
      /\ s1'.overtaken = (s1.overtaken \/ i = 2)
  BY <1>1, <1>2 DEF UiManagers
<1>5. /\ s3' \in UiImpls /\ s3'.kit = s2[i].kit /\ s3'.made /\ s3'.address = s3.address
      /\ s3'.connecting = s3.connecting
  BY <1>1, <1>2, <1>3 DEF UiImpls
<1>6. /\ s2' \in Seq(UiWires) /\ Len(s2') = Len(s2) - 1
      /\ i = 1 => \A k \in 1 .. Len(s2') : s2'[k] = s2[k + 1]
  <2>1. s2' = SubSeq(s2, 1, i - 1) \o SubSeq(s2, i + 1, Len(s2))
    BY <1>1 DEF StellarUi!RemoveAt
  <2>2. /\ SubSeq(s2, 1, i - 1) \in Seq(UiWires) /\ Len(SubSeq(s2, 1, i - 1)) = i - 1
        /\ SubSeq(s2, i + 1, Len(s2)) \in Seq(UiWires) /\ Len(SubSeq(s2, i + 1, Len(s2))) = Len(s2) - i
        /\ \A k \in 1 .. Len(s2) - i : SubSeq(s2, i + 1, Len(s2))[k] = s2[i + k]
    BY <1>2, <1>3, SubSeqProperties
  <2> DEFINE a == SubSeq(s2, 1, i - 1)  b == SubSeq(s2, i + 1, Len(s2))
  <2>3. s2' = a \o b /\ a \in Seq(UiWires) /\ Len(a) = i - 1 /\ b \in Seq(UiWires)
        /\ Len(b) = Len(s2) - i /\ \A k \in 1 .. Len(s2) - i : b[k] = s2[i + k]
    BY <2>1, <2>2
  <2> HIDE DEF a, b
  <2>4. s2' \in Seq(UiWires) /\ Len(s2') = Len(a) + Len(b)
        /\ \A k \in 1 .. Len(a) + Len(b) : s2'[k] = IF k <= Len(a) THEN a[k] ELSE b[k - Len(a)]
    BY <2>3, ConcatProperties
  <2>5. Len(s2') = Len(s2) - 1
    BY <1>3, <2>3, <2>4
  <2>6. ASSUME i = 1, NEW k \in 1 .. Len(s2') PROVE s2'[k] = s2[k + 1]
    <3>1. Len(a) = 0 /\ k \in 1 .. Len(s2) - i /\ k \in 1 .. Len(a) + Len(b)
      BY <1>3, <2>3, <2>5, <2>6
    <3>2. k - Len(a) = k /\ ~(k <= Len(a)) /\ i + k = k + 1
      BY <3>1, <2>6
    <3> QED BY <2>3, <2>4, <3>1, <3>2
  <2> QED BY <2>4, <2>5, <2>6
<1>7. WiringFits'
  <2>1. ASSUME s2' = <<>>, ~s1'.overtaken PROVE s3'.kit = s1'.provider
    <3>1. Len(s2') = 0
      BY <2>1
    <3>2. Len(s2) = 1 /\ i = 1 /\ ~s1.overtaken /\ s2 # <<>>
      <4>1. Len(s2) = 1
        BY <1>3, <1>6, <3>1
      <4>2. i = 1 /\ ~s1.overtaken
        BY <1>3, <1>4, <2>1
      <4> QED BY <1>3, <4>1, <4>2
    <3> QED BY <1>4, <1>5, <3>2 DEF WiringFits, ConnectingFits
  <2>2. ASSUME s2' # <<>>, ~s1'.overtaken PROVE s2'[Len(s2')].kit = s1'.provider
    <3>1. Len(s2') \in Nat /\ Len(s2') # 0
      BY <1>6, <2>2
    <3>2. i = 1 /\ ~s1.overtaken /\ s2 # <<>> /\ Len(s2') \in 1 .. Len(s2') /\ Len(s2') + 1 = Len(s2)
      <4>1. i = 1 /\ ~s1.overtaken
        BY <1>3, <1>4, <2>2
      <4> QED BY <1>3, <1>6, <3>1, <4>1
    <3> QED BY <1>4, <1>6, <3>2 DEF WiringFits, ConnectingFits
  <2> QED BY <1>4, <1>5, <1>6, <2>1, <2>2 DEF WiringFits
<1>8. RootFits(s5, s3)' /\ UiFits(s6, s5)' /\ PromptsFit(s4, s3, s5, s6)'
  BY <1>1, <1>5 DEF ConnectingFits, RootFits, UiFits, PromptsFit
<1> QED BY <1>7, <1>8 DEF ConnectingFits
LEMMA ConnectingMounts == ASSUME ConnectingFits, StellarUi!Mount PROVE ConnectingFits'
<1> USE DEF StellarUi!None
<1>1. /\ WiringFits' /\ s3'.address = s3.address /\ s3'.connecting = s3.connecting
      /\ s3'.made \/ s1'.failed
  <2>1. CASE \E name \in StellarUi!KitNames : StellarUi!Configure(name)
    BY <2>1, ConnectingConfigures DEF ConnectingFits
  <2>2. CASE StellarUi!Configure("custom")
    <3>1. "custom" \in StellarUi!KitNames
      BY DEF StellarUi!KitNames, StellarUi!KnownKits
    <3> QED BY <2>2, <3>1, ConnectingConfigures DEF ConnectingFits
  <2>3. CASE s1.kitName # StellarUi!None /\ UNCHANGED <<s1, s2, s3>>
    BY <2>3 DEF ConnectingFits, WiringFits
  <2> QED BY <2>1, <2>2, <2>3 DEF StellarUi!Mount
<1>2. s3' \in UiImpls /\ s1' \in UiManagers
  BY <1>1 DEF WiringFits
<1>3. /\ s5' = [mounted |-> TRUE, listening |-> s3'.made, refused |-> s1'.failed,
                shown |-> IF s3'.made THEN s3'.address ELSE StellarUi!None]
      /\ s4' = s4 /\ s6' = s6 /\ ~s5.mounted
  BY DEF StellarUi!Mount
<1>4. RootFits(s5, s3)'
  BY <1>1, <1>2, <1>3 DEF RootFits, UiRoots, UiImpls, UiManagers, StellarUi!OrNone
<1>5. UiFits(s6, s5)' /\ s6.choosing = StellarUi!None
  BY <1>3 DEF ConnectingFits, UiFits
<1>6. PromptsFit(s4, s3, s5, s6)'
  BY <1>1, <1>3, <1>5 DEF ConnectingFits, PromptsFit
<1> QED BY <1>1, <1>4, <1>5, <1>6 DEF ConnectingFits

\* The implementation tells the root, which shows what it is told.
LEMMA RootTold ==
  ASSUME NEW root, NEW impl, RootFits(root, impl), NEW new \in UiImpls
  PROVE  LET told == StellarUi!Told(root, new.address) IN
         /\ RootFits(told, new) /\ told.mounted = root.mounted /\ told.listening = root.listening
         /\ new.address = impl.address => told = root
BY DEF StellarUi!Told, RootFits, UiRoots, UiImpls, StellarUi!None

\* The dialog is left by the effects as it has to be.
LEMMA UiSettles ==
  ASSUME NEW ui \in UiDialogs, NEW root \in UiRoots, NEW u, u = StellarUi!Settled(ui, root),
         ~root.mounted => ~ui.open /\ ui.choosing = StellarUi!None /\ root.shown = StellarUi!None,
         ui.manual => ui.open,
         ui.open /\ root.shown # StellarUi!None => ui.choosing # StellarUi!None \/ ui.late
  PROVE  /\ UiFits(u, root) /\ u.choosing \in {ui.choosing, StellarUi!None}
         /\ root.mounted /\ root.shown # StellarUi!None => u.choosing = StellarUi!None
<1> USE DEF StellarUi!None
<1>1. CASE root.mounted /\ root.shown # StellarUi!None /\ ui.hide
  <2>1. u = [ui EXCEPT !.open = FALSE, !.manual = FALSE, !.choosing = StellarUi!None, !.late = FALSE]
    BY <1>1 DEF StellarUi!Settled, StellarUi!Connected, StellarUi!NoDialog
  <2> QED BY <1>1, <2>1 DEF UiFits, UiDialogs, StellarUi!OrNone
<1>2. CASE root.mounted /\ root.shown # StellarUi!None /\ ~ui.hide /\ ui.choosing # StellarUi!None
  <2>1. u = [ui EXCEPT !.open = FALSE, !.manual = FALSE, !.choosing = StellarUi!None]
    BY <1>2 DEF StellarUi!Settled, StellarUi!DialogSettled, StellarUi!Connected
  <2> QED BY <1>2, <2>1 DEF UiFits, UiDialogs, StellarUi!OrNone
<1>3. CASE ~(root.mounted /\ root.shown # StellarUi!None /\ (ui.hide \/ ui.choosing # StellarUi!None))
  <2>1. u = ui
    BY <1>3 DEF StellarUi!Settled, StellarUi!DialogSettled, StellarUi!Connected
  <2> QED BY <1>3, <2>1 DEF UiFits
<1> QED BY <1>1, <1>2, <1>3

SamePending(kept, prompts) ==
  Len(kept) = Len(prompts) /\ \A i \in 1 .. Len(prompts) : kept[i].pending = prompts[i].pending

\* Prompts that are kept are those there were, by the dialog unless it is taken away.
LEMMA PromptsKept ==
  ASSUME NEW prompts \in Seq(UiPrompts), NEW root, NEW kept, kept = StellarUi!Kept(prompts, root)
  PROVE  /\ kept \in Seq(UiPrompts) /\ SamePending(kept, prompts)
         /\ root.mounted /\ ~(root.shown # StellarUi!None /\ s6.hide) => kept = prompts
<1>1. /\ DOMAIN prompts = 1 .. Len(prompts) /\ Len(prompts) \in Nat
      /\ \A i \in 1 .. Len(prompts) : prompts[i] \in UiPrompts
  OBVIOUS
<1>2. CASE root.mounted /\ ~(StellarUi!Connected(root) /\ s6.hide)
  BY <1>1, <1>2 DEF StellarUi!Kept, StellarUi!Connected, SamePending
<1>3. CASE ~(root.mounted /\ ~(StellarUi!Connected(root) /\ s6.hide))
  <2> DEFINE v(i) == IF prompts[i].by = "dialog" THEN [prompts[i] EXCEPT !.by = "gone"] ELSE prompts[i]
  <2>1. kept = [i \in 1 .. Len(prompts) |-> v(i)]
    BY <1>1, <1>3 DEF StellarUi!Kept
  <2>2. \A i \in 1 .. Len(prompts) : v(i) \in UiPrompts /\ v(i).pending = prompts[i].pending
    BY <1>1 DEF UiPrompts
  <2> HIDE DEF v
  <2>3. kept \in Seq(UiPrompts) /\ Len(kept) = Len(prompts) /\ \A i \in 1 .. Len(prompts) : kept[i] = v(i)
    BY <1>1, <2>1, <2>2
  <2> QED BY <1>3, <2>2, <2>3 DEF StellarUi!Connected, SamePending
<1> QED BY <1>2, <1>3 DEF StellarUi!Connected, SamePending

\* A wallet that connects or is disconnected leaves the kits alone.
LEMMA WiringStays ==
  ASSUME WiringFits, s1' = s1, s2' = s2, s3' \in UiImpls, s3'.kit = s3.kit, s3.made => s3'.made
  PROVE  WiringFits'
BY DEF WiringFits

LEMMA ConnectingUnmounts == ASSUME ConnectingFits, StellarUi!Unmount PROVE ConnectingFits'
<1> USE DEF StellarUi!None
<1>1. /\ UNCHANGED <<s1, s2, s3>> /\ s5' = StellarUi!NoRoot /\ s4' = StellarUi!Kept(s4, s5')
      /\ s6' = [s6 EXCEPT !.open = FALSE, !.manual = FALSE, !.choosing = StellarUi!None, !.late = FALSE]
  BY DEF StellarUi!Unmount, StellarUi!NoDialog
<1>2. WiringFits'
  BY <1>1 DEF ConnectingFits, WiringFits
<1>3. RootFits(s5, s3)'
  BY <1>1 DEF RootFits, StellarUi!NoRoot, UiRoots, StellarUi!OrNone
<1>4. UiFits(s6, s5)'
  BY <1>1 DEF ConnectingFits, UiFits, UiDialogs, StellarUi!OrNone
<1>5. s4' \in Seq(UiPrompts) /\ SamePending(s4', s4)
  <2>1. s4 \in Seq(UiPrompts)
    BY DEF ConnectingFits, PromptsFit
  <2>2. s4' = StellarUi!Kept(s4, s5')
    BY <1>1
  <2> QED BY <2>1, <2>2, PromptsKept
<1>6. PromptsFit(s4, s3, s5, s6)'
  BY <1>1, <1>5 DEF ConnectingFits, PromptsFit, StellarUi!NoRoot, SamePending
<1> QED BY <1>2, <1>3, <1>4, <1>6 DEF ConnectingFits

LEMMA ConnectingShown ==
  ASSUME ConnectingFits, StellarUi!HandleConnectClick \/ StellarUi!OnOpenChange PROVE ConnectingFits'
<1> USE DEF StellarUi!None
<1>1. UNCHANGED <<s1, s2, s3, s4, s5>> /\ s6 \in UiDialogs
  BY DEF StellarUi!HandleConnectClick, StellarUi!OnOpenChange, ConnectingFits, UiFits
<1>2. UiFits(s6, s5)' /\ s6'.choosing = s6.choosing
  <2>1. CASE StellarUi!HandleConnectClick
    <3>1. /\ s6' = [s6 EXCEPT !.manual = TRUE, !.open = TRUE, !.late = FALSE] /\ s5.mounted
          /\ s5.shown = StellarUi!None
      BY <2>1 DEF StellarUi!HandleConnectClick, StellarUi!CanStartManualConnect, StellarUi!Connected
    <3> QED BY <1>1, <3>1 DEF ConnectingFits, UiFits, UiDialogs
  <2>2. CASE StellarUi!OnOpenChange
    <3>1. s6' = [s6 EXCEPT !.open = FALSE, !.manual = FALSE]
      BY <2>2 DEF StellarUi!OnOpenChange
    <3> QED BY <1>1, <3>1 DEF ConnectingFits, UiFits, UiDialogs
  <2> QED BY <2>1, <2>2
<1>3. WiringFits' /\ RootFits(s5, s3)' /\ PromptsFit(s4, s3, s5, s6)'
  BY <1>1, <1>2 DEF ConnectingFits, WiringFits, RootFits, PromptsFit
<1> QED BY <1>2, <1>3 DEF ConnectingFits

\* Any call of connect() asks its wallet, and what the root shows stays.
LEMMA ConnectAsks ==
  ASSUME ConnectingFits, NEW w \in Wallets, NEW by \in {"dialog", "other"}, StellarUi!Connect(w, by)
  PROVE  /\ s4' \in Seq(UiPrompts) /\ Len(s4') = Len(s4) + 1 /\ s5' = s5
         /\ s4'[Len(s4')].pending /\ s4'[Len(s4')].by = by
         /\ \A i \in 1 .. Len(s4) : s4'[i] = s4[i]
         /\ s3' \in UiImpls /\ s3'.kit = s3.kit /\ s3'.made /\ s3'.address = s3.address
<1>1. s3 \in UiImpls /\ s4 \in Seq(UiPrompts) /\ RootFits(s5, s3)
  BY DEF ConnectingFits, WiringFits, PromptsFit
<1>2. s3' = [[s3 EXCEPT !.made = TRUE] EXCEPT !.connecting = TRUE] /\ s5' = StellarUi!Told(s5, s3.address)
  BY DEF StellarUi!Connect, StellarUi!Made
<1>3. s3' \in UiImpls /\ s3'.kit = s3.kit /\ s3'.made /\ s3'.address = s3.address
  BY <1>1, <1>2 DEF UiImpls
<1>4. s5' = s5
  BY <1>1, <1>2, RootTold
<1> DEFINE p == [wallet |-> w, by |-> by, pending |-> TRUE]
<1>5. p \in UiPrompts /\ p.pending /\ p.by = by
  BY DEF UiPrompts
<1>6. s4' = Append(s4, p)
  BY DEF StellarUi!Connect
<1> HIDE DEF p
<1>7. s4' \in Seq(UiPrompts) /\ Len(s4') = Len(s4) + 1 /\ s4'[Len(s4')] = p
      /\ \A i \in 1 .. Len(s4) : s4'[i] = s4[i]
  BY <1>1, <1>5, <1>6
<1> QED BY <1>3, <1>4, <1>5, <1>7

LEMMA ConnectingAsks ==
  ASSUME ConnectingFits, NEW w \in Wallets, StellarUi!HandleConnectorSelect(w) \/ StellarUi!ConnectWallet(w)
  PROVE  ConnectingFits'
<1> USE DEF StellarUi!None
<1>1. PICK by \in {"dialog", "other"} :
        /\ StellarUi!Connect(w, by) /\ UNCHANGED <<s1, s2>>
        /\ \/ by = "other" /\ s6' = s6
           \/ /\ by = "dialog" /\ s6.open
              /\ s6' = StellarUi!Settled([s6 EXCEPT !.choosing = w], s5')
  BY DEF StellarUi!HandleConnectorSelect, StellarUi!ConnectWallet
<1>2. /\ s4' \in Seq(UiPrompts) /\ Len(s4') = Len(s4) + 1 /\ s5' = s5
      /\ s4'[Len(s4')].pending /\ s4'[Len(s4')].by = by
      /\ \A i \in 1 .. Len(s4) : s4'[i] = s4[i]
      /\ s3' \in UiImpls /\ s3'.kit = s3.kit /\ s3'.made /\ s3'.address = s3.address
  BY <1>1, ConnectAsks
<1>3. Len(s4) \in Nat /\ Len(s4') \in 1 .. Len(s4') /\ s6 \in UiDialogs /\ s5 \in UiRoots
      /\ \A i \in 1 .. Len(s4) : i \in 1 .. Len(s4')
  BY <1>2 DEF ConnectingFits, PromptsFit, UiFits, RootFits
<1>4. WiringFits'
  BY <1>1, <1>2, WiringStays DEF ConnectingFits
<1>5. RootFits(s5, s3)'
  BY <1>2 DEF ConnectingFits, RootFits
<1>6. CASE by = "other" /\ s6' = s6
  BY <1>2, <1>3, <1>4, <1>5, <1>6 DEF ConnectingFits, UiFits, PromptsFit
<1>7. CASE by = "dialog" /\ s6.open /\ s6' = StellarUi!Settled([s6 EXCEPT !.choosing = w], s5')
  <2>1. PICK v \in UiDialogs : /\ v = [s6 EXCEPT !.choosing = w] /\ v.choosing = w /\ v.open = s6.open
                               /\ v.manual = s6.manual
    <3> DEFINE v == [s6 EXCEPT !.choosing = w]
    <3>1. v \in UiDialogs /\ v.choosing = w /\ v.open = s6.open /\ v.manual = s6.manual
      BY <1>3 DEF UiDialogs, StellarUi!OrNone
    <3> QED BY <3>1
  <2>2. s5.mounted /\ w # StellarUi!None
    BY <1>7, WalletsAssumption DEF ConnectingFits, UiFits
  <2>3. UiFits(s6, s5)'
    BY <1>2, <1>3, <1>7, <2>1, <2>2, UiSettles
  <2>4. PromptsFit(s4, s3, s5, s6)'
    BY <1>2, <1>3, <1>7 DEF PromptsFit
  <2> QED BY <1>4, <1>5, <2>3, <2>4 DEF ConnectingFits
<1> QED BY <1>1, <1>6, <1>7

\* A prompt that is answered, and the others.
LEMMA PromptAnswers ==
  ASSUME NEW i \in DOMAIN s4, s4 \in Seq(UiPrompts)
  PROVE  /\ StellarUi!Answered(i) \in Seq(UiPrompts) /\ Len(StellarUi!Answered(i)) = Len(s4)
         /\ i \in 1 .. Len(s4) /\ s4[i].wallet \in Wallets
         /\ \A k \in 1 .. Len(s4) : k # i => StellarUi!Answered(i)[k] = s4[k]
<1>1. i \in 1 .. Len(s4) /\ s4[i] \in UiPrompts
  OBVIOUS
<1> DEFINE p == [s4[i] EXCEPT !.pending = FALSE]
<1>2. p \in UiPrompts /\ StellarUi!Answered(i) = [s4 EXCEPT ![i] = p]
  BY <1>1 DEF UiPrompts, StellarUi!Answered
<1> HIDE DEF p
<1> QED BY <1>1, <1>2 DEF UiPrompts

LEMMA ConnectingGiven == ASSUME ConnectingFits, NEW i \in DOMAIN s4, StellarUi!AddressGiven(i) PROVE ConnectingFits'
<1> USE DEF StellarUi!None
<1>1. /\ s3 \in UiImpls /\ s4 \in Seq(UiPrompts) /\ RootFits(s5, s3) /\ s6 \in UiDialogs /\ s5 \in UiRoots
  BY DEF ConnectingFits, WiringFits, PromptsFit, RootFits, UiFits
<1>2. /\ StellarUi!Answered(i) \in Seq(UiPrompts) /\ s4[i].wallet \in Wallets
  BY <1>1, PromptAnswers
<1>3. /\ s3' \in UiImpls /\ s3'.kit = s3.kit /\ s3'.made = s3.made /\ ~s3'.connecting
      /\ s3'.address \in Wallets
  BY <1>1, <1>2 DEF StellarUi!AddressGiven, UiImpls, StellarUi!OrNone
<1>4. WiringFits'
  BY <1>3, WiringStays DEF ConnectingFits, StellarUi!AddressGiven
<1>5. s5' = StellarUi!Told(s5, s3'.address)
  BY DEF StellarUi!AddressGiven
<1>6. RootFits(s5', s3') /\ s5'.mounted = s5.mounted /\ s5'.listening = s5.listening
  BY <1>1, <1>3, <1>5, RootTold
<1> DEFINE v == [s6 EXCEPT !.late = @ \/ (s6.open /\ s6.choosing = StellarUi!None)]
<1>7. /\ v \in UiDialogs /\ v.open = s6.open /\ v.manual = s6.manual /\ v.choosing = s6.choosing
      /\ s6.open => v.choosing # StellarUi!None \/ v.late
  BY <1>1 DEF UiDialogs
<1>8. s6' = StellarUi!Settled(v, s5')
  BY DEF StellarUi!AddressGiven
<1> HIDE DEF v
<1>9. /\ s5' \in UiRoots
      /\ ~s5'.mounted => ~v.open /\ v.choosing = StellarUi!None /\ s5'.shown = StellarUi!None
      /\ v.manual => v.open
  BY <1>6, <1>7 DEF ConnectingFits, RootFits, UiFits
<1>10. /\ UiFits(s6, s5)'
       /\ s5'.mounted /\ s5'.shown # StellarUi!None => s6'.choosing = StellarUi!None
  BY <1>7, <1>8, <1>9, UiSettles
<1>11. s4' = StellarUi!Kept(StellarUi!Answered(i), s5')
  BY DEF StellarUi!AddressGiven
<1>12. s4' \in Seq(UiPrompts)
  BY <1>2, <1>11, PromptsKept
<1>13. s5'.listening => s6'.choosing = StellarUi!None
  BY <1>3, <1>6, <1>10, WalletsAssumption DEF RootFits
<1>14. PromptsFit(s4, s3, s5, s6)'
  BY <1>3, <1>12, <1>13 DEF PromptsFit
<1> QED BY <1>4, <1>6, <1>10, <1>14 DEF ConnectingFits

LEMMA ConnectingDenied == ASSUME ConnectingFits, NEW i \in DOMAIN s4, StellarUi!AddressDenied(i) PROVE ConnectingFits'
<1> USE DEF StellarUi!None
<1>1. /\ s3 \in UiImpls /\ s4 \in Seq(UiPrompts) /\ RootFits(s5, s3) /\ s6 \in UiDialogs /\ s5 \in UiRoots
  BY DEF ConnectingFits, WiringFits, PromptsFit, RootFits, UiFits
<1>2. /\ s4' \in Seq(UiPrompts) /\ Len(s4') = Len(s4) /\ i \in 1 .. Len(s4)
      /\ \A k \in 1 .. Len(s4) : k # i => s4'[k] = s4[k]
  BY <1>1, PromptAnswers DEF StellarUi!AddressDenied
<1>3. /\ s3' \in UiImpls /\ s3'.kit = s3.kit /\ s3'.made = s3.made /\ ~s3'.connecting
      /\ s3'.address = s3.address
  BY <1>1 DEF StellarUi!AddressDenied, UiImpls
<1>4. WiringFits'
  BY <1>3, WiringStays DEF ConnectingFits, StellarUi!AddressDenied
<1>5. s5' = s5
  BY <1>1, RootTold DEF StellarUi!AddressDenied
<1>6. RootFits(s5, s3)'
  BY <1>1, <1>3, <1>5 DEF RootFits
<1>7. \/ s4[i].by = "dialog" /\ s6' = [s6 EXCEPT !.choosing = StellarUi!None]
      \/ s4[i].by # "dialog" /\ s6' = s6
  BY DEF StellarUi!AddressDenied
<1>8. UiFits(s6, s5)' /\ (s6' = s6 \/ s6'.choosing = StellarUi!None)
  BY <1>1, <1>5, <1>7 DEF ConnectingFits, UiFits, UiDialogs, StellarUi!OrNone
<1>9. PromptsFit(s4, s3, s5, s6)'
  <2>1. ASSUME s5'.listening, s6'.choosing # StellarUi!None
        PROVE  \E k \in 1 .. Len(s4') : s4'[k].pending /\ s4'[k].by = "dialog"
    <3>1. s6' = s6 /\ s4[i].by # "dialog"
      BY <1>1, <1>7, <2>1 DEF UiDialogs
    <3>2. PICK k \in 1 .. Len(s4) : s4[k].pending /\ s4[k].by = "dialog"
      BY <1>5, <2>1, <3>1 DEF ConnectingFits, PromptsFit
    <3> QED BY <1>2, <3>1, <3>2
  <2> QED BY <1>2, <1>3, <2>1 DEF PromptsFit
<1> QED BY <1>4, <1>6, <1>8, <1>9 DEF ConnectingFits

LEMMA ConnectingEndsIt == ASSUME ConnectingFits, StellarUi!Disconnect PROVE ConnectingFits'
<1> USE DEF StellarUi!None
<1>1. s3 \in UiImpls /\ RootFits(s5, s3) /\ UNCHANGED <<s1, s2, s4, s6>>
  BY DEF ConnectingFits, WiringFits, StellarUi!Disconnect
<1>2. /\ s3' \in UiImpls /\ s3'.kit = s3.kit /\ s3'.made = s3.made /\ ~s3'.connecting
      /\ s3'.address = StellarUi!None
  BY <1>1 DEF StellarUi!Disconnect, UiImpls, StellarUi!OrNone
<1>3. s5' = StellarUi!Told(s5, s3'.address)
  BY <1>2 DEF StellarUi!Disconnect
<1>4. RootFits(s5', s3') /\ s5'.mounted = s5.mounted /\ s5'.listening = s5.listening
  BY <1>1, <1>2, <1>3, RootTold
<1>5. s5'.shown = StellarUi!None
  BY <1>2, <1>4 DEF RootFits
<1>6. WiringFits'
  BY <1>1, <1>2, WiringStays DEF ConnectingFits
<1>7. UiFits(s6, s5)' /\ PromptsFit(s4, s3, s5, s6)'
  BY <1>1, <1>2, <1>4, <1>5 DEF ConnectingFits, UiFits, PromptsFit
<1> QED BY <1>4, <1>6, <1>7 DEF ConnectingFits

LEMMA ConnectingNext == ASSUME ConnectingFits, [StellarUi!Next]_(StellarUi!vars) PROVE ConnectingFits'
<1>1. CASE StellarUi!ConfigureUiKit
  <2>1. /\ UNCHANGED <<s4, s5, s6>> /\ WiringFits' /\ s3'.address = s3.address
        /\ s3'.connecting = s3.connecting
    BY <1>1, ConnectingConfigures DEF StellarUi!ConfigureUiKit, ConnectingFits
  <2> QED BY <2>1 DEF ConnectingFits, RootFits, UiFits, PromptsFit
<1>2. CASE UNCHANGED StellarUi!vars
  BY <1>2 DEF StellarUi!vars, ConnectingFits, WiringFits, RootFits, UiFits, PromptsFit
<1> QED BY <1>1, <1>2, ConnectingWired, ConnectingMounts, ConnectingUnmounts, ConnectingShown, ConnectingAsks,
           ConnectingGiven, ConnectingDenied, ConnectingEndsIt DEF StellarUi!Next

LEMMA ConnectingTold ==
  ASSUME ConnectingFits
  PROVE  /\ StellarUi!RootFollowsWallet /\ StellarUi!OneKit
         /\ StellarUi!CanAlwaysConnect /\ StellarUi!ConnectingIsTrue
<1>1. StellarUi!RootFollowsWallet
  BY DEF ConnectingFits, RootFits, StellarUi!RootFollowsWallet
<1>2. StellarUi!OneKit
  BY DEF ConnectingFits, WiringFits, StellarUi!OneKit, StellarUi!Quiet
<1>3. StellarUi!CanAlwaysConnect
  BY DEF ConnectingFits, UiFits, RootFits, UiDialogs, StellarUi!CanAlwaysConnect,
         StellarUi!CanStartManualConnect, StellarUi!Connected
<1>4. DOMAIN s4 = 1 .. Len(s4)
  BY DEF ConnectingFits, PromptsFit
<1>5. StellarUi!ConnectingIsTrue
  BY <1>4 DEF ConnectingFits, PromptsFit, StellarUi!ConnectingIsTrue
<1> QED BY <1>1, <1>2, <1>3, <1>5

--------------------
(* The Midnight wallet: s1 is the LaceWalletImplementation, s2 the prompts, *)
(* s3 the root, s4 the flows that connect.                                  *)

Lace == INSTANCE MidnightWallet
          WITH Accounts <- LaceAccounts, lace <- s1, prompts <- s2, root <- s3, flows <- s4

Has(ls, l) == \E i \in 1 .. Len(ls) : ls[i] = l

\* Who is taken from the listeners is gone, and the others remain.
LEMMA WithoutKeeps ==
  ASSUME NEW S, NEW ls \in Seq(S), NEW l
  PROVE  /\ Lace!Without(ls, l) \in Seq(S)
         /\ ls = <<>> => Lace!Without(ls, l) = <<>>
         /\ \A k : k # l /\ Has(ls, k) => Has(Lace!Without(ls, l), k)
<1> DEFINE n == Len(ls)
           Next(i, q) == IF ls[i] = l THEN q ELSE Append(q, ls[i])
           step == [i \in 1 .. n |-> [q \in Seq(S) |-> Next(i, q)]]
           Goes(f) == f = [i \in 0 .. n |-> IF i = 0 THEN <<>> ELSE IF ls[i] = l THEN f[i - 1] ELSE Append(f[i - 1], ls[i])]
           left == CHOOSE f : Goes(f)
<1>n. n \in Nat /\ <<>> \in Seq(S) /\ \A i \in 1 .. n : ls[i] \in S
  OBVIOUS
<1>1. \A i \in 1 .. n, q \in Seq(S) : Next(i, q) \in Seq(S) /\ step[i][q] = Next(i, q)
  BY <1>n
<1>1x. \A i \in 1 .. n, q \in Seq(S) : Next(i, q) \in Seq(S)
  BY <1>1
<1>2. step \in [1 .. n -> [Seq(S) -> Seq(S)]]
  <2> HIDE DEF Next, n
  <2> QED BY <1>1x
<1>3. \E g : Goes(g)
  <2>0. PICK g : StepsTo(g, n, Seq(S), <<>>, step)
    <3>1. n \in Nat /\ <<>> \in Seq(S)
      BY <1>n
    <3> HIDE DEF step, n
    <3> QED BY <1>2, <3>1, Stepwise
  <2>1. g \in [0 .. n -> Seq(S)] /\ g[0] = <<>> /\ \A i \in 1 .. n : g[i] = step[i][g[i - 1]]
    <3> HIDE DEF step, n
    <3> QED BY <2>0 DEF StepsTo
  <2>2. \A i \in 1 .. n : g[i - 1] \in Seq(S)
    <3> HIDE DEF step, n
    <3>1. \A i \in 1 .. n : i - 1 \in 0 .. n
      BY <1>n
    <3> QED BY <3>1, <2>1
  <2>3. \A i \in 1 .. n : g[i] = Next(i, g[i - 1])
    <3> HIDE DEF step, n, Next
    <3> QED BY <1>1, <2>1, <2>2
  <2>4. \A i \in 0 .. n : i = 0 \/ (i # 0 /\ i \in 1 .. n)
    BY <1>n
  <2>5. \A i \in 0 .. n : g[i] = IF i = 0 THEN <<>> ELSE IF ls[i] = l THEN g[i - 1] ELSE Append(g[i - 1], ls[i])
    BY <2>1, <2>3, <2>4
  <2>6. Goes(g)
    <3> HIDE DEF n
    <3> QED BY <2>1, <2>5
  <2> QED BY <2>6
<1>4. Goes(left)
  <2> HIDE DEF Goes
  <2> QED BY <1>3
<1>5. Lace!Without(ls, l) = left[n]
  BY DEF Lace!Without
<1> HIDE DEF left
<1>6. left[0] = <<>> /\ \A i \in 1 .. n : left[i] = Next(i, left[i - 1])
  <2>1. left = [i \in 0 .. n |-> IF i = 0 THEN <<>> ELSE IF ls[i] = l THEN left[i - 1] ELSE Append(left[i - 1], ls[i])]
    BY <1>4
  <2>2. 0 \in 0 .. n /\ \A i \in 1 .. n : i \in 0 .. n /\ i # 0
    BY <1>n
  <2> HIDE DEF n
  <2> QED BY <2>1, <2>2
<1> DEFINE Holds(i, q) == q \in Seq(S) /\ \A j \in 1 .. i : ls[j] # l => Has(q, ls[j])
           T == {i \in 0 .. n : Holds(i, left[i])}
<1>7. 0 \in T
  <2>1. Holds(0, left[0])
    BY <1>6, <1>n
  <2>2. 0 \in 0 .. n
    BY <1>n
  <2> HIDE DEF Holds, n
  <2> QED BY <2>1, <2>2
<1>8. ASSUME NEW i \in 1 .. n, i - 1 \in T PROVE i \in T
  <2> DEFINE q == left[i - 1]
  <2>1. q \in Seq(S) /\ left[i] = Next(i, q) /\ \A j \in 1 .. i - 1 : ls[j] # l => Has(q, ls[j])
    BY <1>6, <1>8
  <2> HIDE DEF q
  <2>2. left[i] \in Seq(S)
    BY <2>1, <1>n
  <2>3. ASSUME NEW j \in 1 .. i, ls[j] # l PROVE Has(left[i], ls[j])
    <3>1. CASE ls[i] = l
      <4>1. j \in 1 .. i - 1
        BY <2>3, <3>1
      <4> QED BY <2>1, <2>3, <3>1, <4>1
    <3>2. CASE ls[i] # l
      <4>1. left[i] = Append(q, ls[i]) /\ ls[i] \in S
        BY <2>1, <3>2, <1>n
      <4>2. /\ Len(left[i]) = Len(q) + 1 /\ left[i][Len(q) + 1] = ls[i] /\ Len(q) \in Nat
            /\ \A k \in 1 .. Len(q) : left[i][k] = q[k]
        BY <2>1, <4>1
      <4>3. CASE j = i
        BY <4>2, <4>3 DEF Has
      <4>4. CASE j # i
        <5>1. j \in 1 .. i - 1
          BY <4>4
        <5> QED BY <2>1, <2>3, <4>2, <5>1 DEF Has
      <4> QED BY <4>3, <4>4
    <3> QED BY <3>1, <3>2
  <2>4. Holds(i, left[i]) /\ i \in 0 .. n
    BY <2>2, <2>3
  <2> HIDE DEF Holds
  <2> QED BY <2>4
<1>9. n \in T
  <2>1. n \in 0 .. n
    BY <1>n
  <2> HIDE DEF T, n
  <2> QED BY <1>7, <1>8, <1>n, <2>1, Upto
<1>10. Holds(n, left[n])
  BY <1>9
<1>11. ls = <<>> => left[n] = <<>>
  BY <1>6
<1>12. ASSUME NEW k, k # l, Has(ls, k) PROVE Has(left[n], k)
  <2>1. PICK j \in 1 .. n : ls[j] = k
    BY <1>12 DEF Has
  <2> QED BY <1>10, <1>12, <2>1
<1> QED BY <1>5, <1>10, <1>11, <1>12

LaceImpls == [api : Nat, promise : Nat, opened : Nat, listeners : Seq(Nat), timer : BOOLEAN,
              polls : Nat, address : Lace!OrNone(LaceAccounts)]
LaceRoots == [api : Nat, address : Lace!OrNone(LaceAccounts), connecting : BOOLEAN,
              initializing : BOOLEAN, awaiting : BOOLEAN, active : Nat, fallback : BOOLEAN, synced : Nat]
LaceFlow == [pc : {"idle", "checking", "enabling", "resume", "done", "thrown"}, promise : Nat, api : Nat]

\* The API objects that were given.
GivenApis(opened, prompts) ==
  {a \in Nat : a = Lace!NoApi \/ a = Lace!Earlier \/ (a <= opened /\ a \notin prompts)}

\* A page whose API objects were given, and where an API that is synced has its listener.
PageFits(page, apis, opened) ==
  /\ page.lace \in LaceImpls /\ page.root \in LaceRoots
  /\ page.lace.opened = opened
  /\ page.lace.api \in apis /\ page.root.api \in apis /\ page.root.synced \in apis
  /\ page.root.active # Lace!Sync
  /\ page.root.synced # Lace!NoApi => Has(page.lace.listeners, Lace!Sync)

LacePages(apis, opened) == {page \in [lace : LaceImpls, root : LaceRoots] : PageFits(page, apis, opened)}

\* An API with listeners, and neither a timer nor a poll.
Unserved(impl) ==
  impl.api # Lace!NoApi /\ impl.listeners # <<>> /\ ~impl.timer /\ impl.polls = 0

LEMMA LaceUnsubscribes ==
  ASSUME NEW impl \in LaceImpls, NEW l, NEW left, left = Lace!Unsubscribe(impl, l)
  PROVE  /\ left \in LaceImpls
         /\ left.opened = impl.opened /\ left.api = impl.api /\ left.polls = impl.polls
         /\ left.address = impl.address
         /\ \A k : k # l /\ Has(impl.listeners, k) => Has(left.listeners, k)
         /\ Unserved(left) => Unserved(impl)
<1> DEFINE rest == Lace!Without(impl.listeners, l)
<1>1. impl.listeners \in Seq(Nat)
  BY DEF LaceImpls
<1>2. /\ rest \in Seq(Nat) /\ (impl.listeners = <<>> => rest = <<>>)
      /\ \A k : k # l /\ Has(impl.listeners, k) => Has(rest, k)
  BY <1>1, WithoutKeeps
<1>3. left = [impl EXCEPT !.listeners = rest, !.timer = impl.timer /\ rest # <<>>]
  BY DEF Lace!Unsubscribe
<1> HIDE DEF rest
<1>4. /\ left \in LaceImpls
      /\ left.opened = impl.opened /\ left.api = impl.api /\ left.polls = impl.polls
      /\ left.address = impl.address /\ left.listeners = rest /\ left.timer = (impl.timer /\ rest # <<>>)
  BY <1>2, <1>3 DEF LaceImpls
<1> QED BY <1>2, <1>4 DEF Unserved

LEMMA LaceTells ==
  ASSUME NEW apis, NEW opened, NEW page \in LacePages(apis, opened), NEW l,
         NEW apiOf, \A f \in Lace!Clicks : apiOf[f] \in apis, apis \subseteq Nat,
         NEW told, told = Lace!Tell(page, l, apiOf)
  PROVE  told \in LacePages(apis, opened)
<1> DEFINE address == page.lace.address
<1>0. /\ Lace!Sync \notin Lace!Clicks /\ Lace!Attempt \notin Lace!Clicks /\ Lace!Sync # Lace!Attempt
      /\ Lace!NoListener # Lace!Sync /\ Lace!NoListener \in Nat
  BY WalletBounds DEF Lace!Sync, Lace!Clicks, Lace!Attempt, Lace!NoListener
<1>1. /\ page \in [lace : LaceImpls, root : LaceRoots] /\ PageFits(page, apis, opened)
      /\ page.lace \in LaceImpls /\ page.root \in LaceRoots /\ address \in Lace!OrNone(LaceAccounts)
  BY DEF LacePages, LaceImpls
<1>2. ASSUME NEW p \in LacePages(apis, opened), NEW r \in LaceRoots, r.api \in apis, r.synced = p.root.synced,
             r.active # Lace!Sync
      PROVE  [p EXCEPT !.root = r] \in LacePages(apis, opened)
  <2> DEFINE q == [p EXCEPT !.root = r]
  <2>1. q \in [lace : LaceImpls, root : LaceRoots] /\ q.lace = p.lace /\ q.root = r
    BY <1>2 DEF LacePages
  <2> HIDE DEF q
  <2>2. q \in LacePages(apis, opened)
    BY <1>2, <2>1 DEF LacePages, PageFits
  <2> QED BY <2>2 DEF q
<1>3. CASE l = Lace!Sync
  <2>1. told = [page EXCEPT !.root = [page.root EXCEPT !.address = address]]
    BY <1>0, <1>3 DEF Lace!Tell
  <2> DEFINE r == [page.root EXCEPT !.address = address]
  <2>2. r \in LaceRoots /\ r.api = page.root.api /\ r.synced = page.root.synced /\ r.active = page.root.active
    BY <1>1 DEF LaceRoots
  <2> HIDE DEF r
  <2>3. told = [page EXCEPT !.root = r]
    BY <2>1 DEF r
  <2> QED BY <1>1, <1>2, <2>2, <2>3 DEF PageFits
<1>4. CASE l \in Lace!Clicks /\ address # Lace!NoOne /\ l # Lace!Sync
  <2> DEFINE r == Lace!FlowEnded(Lace!ShowConnected(page.root, apiOf[l], address))
  <2>1. told = [page EXCEPT !.root = r]
    BY <1>0, <1>4 DEF Lace!Tell
  <2>2. r \in LaceRoots /\ r.api = apiOf[l] /\ r.synced = page.root.synced /\ r.active = Lace!NoListener
    BY <1>0, <1>1, <1>4 DEF LaceRoots, Lace!FlowEnded, Lace!ShowConnected
  <2> HIDE DEF r
  <2> QED BY <1>0, <1>2, <1>4, <2>1, <2>2
<1>5. CASE l = Lace!Attempt /\ address # Lace!NoOne /\ l \notin Lace!Clicks /\ l # Lace!Sync
  <2> DEFINE r == Lace!ShowConnected(page.root, Lace!ApiNow(page), address)
             p == [page EXCEPT !.root = r]
  <2>1. Lace!ApiNow(page) \in apis /\ Lace!ApiNow(page) \in Nat
    BY <1>1 DEF Lace!ApiNow, PageFits
  <2>2. /\ r \in LaceRoots /\ r.api = Lace!ApiNow(page) /\ r.synced = page.root.synced
        /\ r.active = page.root.active
    BY <1>1, <2>1 DEF LaceRoots, Lace!ShowConnected
  <2>3. r.active # Lace!Sync
    BY <1>1, <2>2 DEF PageFits
  <2>4. p \in LacePages(apis, opened)
    <3> HIDE DEF r
    <3> QED BY <1>2, <2>1, <2>2, <2>3
  <2>5. CASE s4[Lace!Attempt].pc = "thrown"
    BY <1>5, <2>4, <2>5 DEF Lace!Tell
  <2>6. CASE s4[Lace!Attempt].pc # "thrown"
    <3> DEFINE ended == Lace!FlowEnded(r)
               left == Lace!Unsubscribe(page.lace, Lace!Attempt)
    <3>1. told = [[p EXCEPT !.root = Lace!FlowEnded(p.root)] EXCEPT !.lace = Lace!Unsubscribe(p.lace, Lace!Attempt)]
      BY <1>5, <2>6 DEF Lace!Tell
    <3>2. p.root = r /\ p.lace = page.lace
      BY <1>1
    <3>3. told = [[p EXCEPT !.root = ended] EXCEPT !.lace = left]
      BY <3>1, <3>2
    <3>4. ended \in LaceRoots /\ ended.api = r.api /\ ended.synced = r.synced /\ ended.active = Lace!NoListener
      <4> HIDE DEF r
      <4> QED BY <1>0, <2>2 DEF LaceRoots, Lace!FlowEnded
    <3>5. /\ left \in LaceImpls /\ left.opened = page.lace.opened /\ left.api = page.lace.api
          /\ \A k : k # Lace!Attempt /\ Has(page.lace.listeners, k) => Has(left.listeners, k)
      BY <1>1, LaceUnsubscribes
    <3> HIDE DEF ended, left, p, r
    <3>6. told \in [lace : LaceImpls, root : LaceRoots] /\ told.lace = left /\ told.root = ended
      BY <2>4, <3>3, <3>4, <3>5 DEF LacePages
    <3> QED BY <1>1, <2>1, <2>2, <3>4, <3>5, <3>6, <1>0 DEF LacePages, PageFits
  <2> QED BY <2>5, <2>6
<1>6. CASE ~(l = Lace!Sync) /\ ~(l \in Lace!Clicks /\ address # Lace!NoOne)
           /\ ~(l = Lace!Attempt /\ address # Lace!NoOne)
  BY <1>6 DEF Lace!Tell
<1> QED BY <1>3, <1>4, <1>5, <1>6

\* Whoever emit tells, the page fits.
LEMMA LaceEmits ==
  ASSUME NEW apis \in SUBSET Nat, NEW opened, NEW page \in LacePages(apis, opened),
         \A f \in Lace!Flows : s4[f].api \in apis
  PROVE  Lace!Emit(page) \in LacePages(apis, opened)
<1> DEFINE ls == page.lace.listeners
           n == Len(ls)
           X == LacePages(apis, opened)
           step == [i \in 1 .. n |-> [p \in X |-> Lace!Tell(p, ls[i], Lace!ApiOf)]]
           Goes(f) == f = [i \in 0 .. n |-> IF i = 0 THEN page ELSE Lace!Tell(f[i - 1], ls[i], Lace!ApiOf)]
           told == CHOOSE f : Goes(f)
<1>n. n \in Nat
  BY DEF LacePages, LaceImpls
<1>0. \A f \in Lace!Clicks : Lace!ApiOf[f] \in apis
  BY DEF Lace!ApiOf, Lace!Flows
<1>1. \A i \in 1 .. n, p \in X : Lace!Tell(p, ls[i], Lace!ApiOf) \in X
  <2> TAKE i \in 1 .. n, p \in X
  <2>1. p \in LacePages(apis, opened) /\ apis \subseteq Nat
    OBVIOUS
  <2> HIDE DEF X
  <2>2. Lace!Tell(p, ls[i], Lace!ApiOf) \in LacePages(apis, opened)
    BY <1>0, <2>1, LaceTells
  <2> QED BY <2>2 DEF X
<1>2. page \in X
  OBVIOUS
<1> HIDE DEF X
<1>3. step \in [1 .. n -> [X -> X]]
  <2> HIDE DEF n
  <2> QED BY <1>1
<1>4. \E g : Goes(g)
  <2>1. PICK g : StepsTo(g, n, X, page, step)
    <3> HIDE DEF step, n
    <3> QED BY <1>2, <1>3, <1>n, Stepwise
  <2>2. g \in [0 .. n -> X] /\ g[0] = page /\ \A i \in 1 .. n : g[i] = step[i][g[i - 1]]
    <3> HIDE DEF step, n
    <3> QED BY <2>1 DEF StepsTo
  <2>3. \A i \in 1 .. n : g[i - 1] \in X
    <3>1. \A i \in 1 .. n : i - 1 \in 0 .. n
      BY <1>n
    <3> HIDE DEF step, n
    <3> QED BY <2>2, <3>1
  <2>4. \A i \in 1 .. n : g[i] = Lace!Tell(g[i - 1], ls[i], Lace!ApiOf)
    <3> HIDE DEF n
    <3> QED BY <2>2, <2>3
  <2>5. \A i \in 0 .. n : i = 0 \/ (i # 0 /\ i \in 1 .. n)
    BY <1>n
  <2>6. \A i \in 0 .. n : g[i] = IF i = 0 THEN page ELSE Lace!Tell(g[i - 1], ls[i], Lace!ApiOf)
    BY <2>2, <2>4, <2>5
  <2>7. Goes(g)
    <3> HIDE DEF n
    <3> QED BY <2>2, <2>6
  <2> QED BY <2>7
<1>5. Goes(told)
  <2> HIDE DEF Goes
  <2> QED BY <1>4
<1>6. Lace!Emit(page) = told[n]
  BY DEF Lace!Emit
<1> HIDE DEF told
<1>7. told[0] = page /\ \A i \in 1 .. n : told[i] = Lace!Tell(told[i - 1], ls[i], Lace!ApiOf)
  <2>1. 0 \in 0 .. n /\ \A i \in 1 .. n : i \in 0 .. n /\ i # 0
    BY <1>n
  <2> HIDE DEF n
  <2> QED BY <1>5, <2>1
<1> DEFINE T == {i \in 0 .. n : told[i] \in X}
<1>8. 0 \in T
  <2>1. 0 \in 0 .. n
    BY <1>n
  <2> HIDE DEF n
  <2> QED BY <1>2, <1>7, <2>1
<1>9. ASSUME NEW i \in 1 .. n, i - 1 \in T PROVE i \in T
  <2>1. i \in 0 .. n
    BY <1>n
  <2>2. told[i - 1] \in X
    BY <1>9
  <2> HIDE DEF n
  <2> QED BY <1>1, <1>7, <2>1, <2>2
<1>10. n \in T
  <2>1. n \in 0 .. n
    BY <1>n
  <2> HIDE DEF T, n
  <2> QED BY <1>8, <1>9, <1>n, <2>1, Upto
<1> QED BY <1>6, <1>10 DEF X

\* Whoever subscribes is served if there is an API.
LEMMA LaceSubscribes ==
  ASSUME NEW apis \in SUBSET Nat, NEW opened, NEW page, NEW l,
         NEW added, added = [page EXCEPT !.lace = Lace!Added(@, l)], added \in LacePages(apis, opened),
         page.lace \in LaceImpls,
         NEW apiOf, \A f \in Lace!Clicks : apiOf[f] \in apis,
         NEW sub, sub = Lace!Subscribe(page, l, apiOf)
  PROVE  sub \in LacePages(apis, opened) /\ ~Unserved(sub.lace)
<1> DEFINE told == IF page.lace.address # Lace!NoOne THEN Lace!Tell(added, l, apiOf) ELSE added
           impl == Lace!StartPolling(told.lace)
<1>1. told \in LacePages(apis, opened)
  BY LaceTells
<1>2. sub = [told EXCEPT !.lace = Lace!StartPolling(told.lace)]
  BY DEF Lace!Subscribe
<1> HIDE DEF told
<1>3. /\ impl \in LaceImpls /\ impl.listeners = told.lace.listeners /\ impl.api = told.lace.api
      /\ impl.opened = told.lace.opened /\ ~Unserved(impl)
  BY <1>1 DEF LacePages, LaceImpls, Lace!StartPolling, Unserved
<1>4. sub = [told EXCEPT !.lace = impl]
  BY <1>2
<1> HIDE DEF impl
<1>5. sub \in [lace : LaceImpls, root : LaceRoots] /\ sub.lace = impl /\ sub.root = told.root
  BY <1>1, <1>3, <1>4 DEF LacePages
<1> QED BY <1>1, <1>3, <1>5 DEF LacePages, PageFits

Given == GivenApis(s1.opened, s2)

\* Every prompt is of a flow of its own, which still waits for it.
PromptsCounted(opened, flows) ==
  \E n \in 0 .. MaxClicks :
     /\ \A g \in Lace!Clicks : flows[g].pc = "idle" <=> g > n
     /\ opened <= n + IF flows[Lace!Attempt].pc = "checking" THEN 0 ELSE 1
PromptsAwaited(prompts, flows) ==
  \A p \in prompts : \E f \in Lace!Flows : flows[f].pc = "enabling" /\ flows[f].promise = p

\* Who is not served has an API that the root knows, or hears of at once, and has yet to sync.
SyncWillServe ==
  Unserved(s1) => s3.synced # s1.api /\ (Lace!Quiet => s3.api = s1.api)

LaceFits ==
  /\ s1 \in LaceImpls /\ s3 \in LaceRoots /\ s4 \in [Lace!Flows -> LaceFlow]
  /\ PageFits(Lace!Page, Given, s1.opened)
  /\ \A f \in Lace!Flows : s4[f].api \in Given
  /\ s2 \subseteq 1 .. s1.opened
  /\ PromptsCounted(s1.opened, s4) /\ PromptsAwaited(s2, s4)
  /\ SyncWillServe

LEMMA LaceInit == ASSUME Lace!Init PROVE LaceFits
<1> USE DEF Lace!NoApi, Lace!NoOne, Lace!Earlier, Lace!Sync, Lace!NoListener, Lace!Attempt
<1>1. s2 = {}
  BY DEF Lace!Init
<1>2. /\ s1 \in LaceImpls /\ s1.opened = 0 /\ s1.api \in {0, MaxClicks + 2}
      /\ s1.listeners # <<>> => s1.timer
  <2>1. <<>> \in Seq(Nat) /\ <<MaxClicks + 2>> \in Seq(Nat) /\ 0 \in Nat /\ MaxClicks + 2 \in Nat
    BY WalletBounds
  <2>2. CASE s1 = Lace!Fresh
    BY <2>1, <2>2 DEF Lace!Fresh, LaceImpls, Lace!OrNone
  <2>3. ASSUME NEW address \in Lace!OrNone(LaceAccounts), NEW timer \in BOOLEAN,
               NEW listeners \in {<<>>, <<Lace!Earlier>>},
               s1 = [Lace!Fresh EXCEPT !.api = Lace!Earlier, !.address = address, !.timer = timer,
                                       !.listeners = listeners],
               listeners # <<>> => timer
        PROVE  /\ s1 \in LaceImpls /\ s1.opened = 0 /\ s1.api \in {0, MaxClicks + 2}
               /\ s1.listeners # <<>> => s1.timer
    BY <2>1, <2>3 DEF Lace!Fresh, LaceImpls, Lace!OrNone
  <2> QED BY <2>2, <2>3 DEF Lace!Init, Lace!Left
<1>3. PICK declined \in BOOLEAN :
         /\ s3 = [api |-> 0, address |-> Lace!NoOne, connecting |-> FALSE, initializing |-> ~declined,
                  awaiting |-> FALSE, active |-> Lace!NoListener, fallback |-> FALSE, synced |-> 0]
         /\ s4 = [f \in Lace!Flows |->
                    [pc |-> IF f # 0 THEN "idle" ELSE IF declined THEN "done" ELSE "checking",
                     promise |-> 0, api |-> 0]]
  BY DEF Lace!Init
<1>4. s3 \in LaceRoots /\ s3.api = 0 /\ s3.synced = 0 /\ s3.active # Lace!Sync
  BY <1>3, WalletBounds DEF LaceRoots, Lace!OrNone
<1>5. s4 \in [Lace!Flows -> LaceFlow] /\ \A f \in Lace!Flows : s4[f].api = 0
  BY <1>3 DEF LaceFlow
<1>6. 0 \in Given /\ MaxClicks + 2 \in Given
  BY WalletBounds DEF Given, GivenApis
<1>7. PageFits(Lace!Page, Given, s1.opened)
  BY <1>2, <1>4, <1>6 DEF PageFits, Lace!Page
<1>8. PromptsCounted(s1.opened, s4)
  <2>1. 0 \in 0 .. MaxClicks /\ 0 \in Lace!Flows
    BY WalletBounds DEF Lace!Flows
  <2>2. \A g \in Lace!Clicks : g > 0 /\ g \in Lace!Flows /\ g # 0
    BY WalletBounds DEF Lace!Flows, Lace!Clicks
  <2>3. \A g \in Lace!Clicks : s4[g].pc = "idle" <=> g > 0
    BY <1>3, <2>2
  <2>4. s1.opened <= 0 + IF s4[Lace!Attempt].pc = "checking" THEN 0 ELSE 1
    BY <1>2
  <2> QED BY <2>1, <2>3, <2>4 DEF PromptsCounted
<1>9. SyncWillServe
  BY <1>2 DEF SyncWillServe, Unserved
<1> QED BY <1>1, <1>2, <1>4, <1>5, <1>6, <1>7, <1>8, <1>9 DEF LaceFits, PromptsAwaited

\* A step of the page alone.
LEMMA LaceStays ==
  ASSUME LaceFits, UNCHANGED <<s2, s4>>,
         NEW page \in LacePages(Given, s1.opened), Lace!Becomes(page),
         Unserved(page.lace) => page.root.synced # page.lace.api /\ (Lace!Quiet => page.root.api = page.lace.api)
  PROVE  LaceFits'
<1>1. /\ page \in [lace : LaceImpls, root : LaceRoots] /\ PageFits(page, Given, s1.opened)
      /\ s1' = page.lace /\ s3' = page.root
  BY DEF LacePages, Lace!Becomes
<1>2. s1'.opened = s1.opened /\ Given' = Given /\ Lace!Page' = page
  BY <1>1 DEF PageFits, Given, Lace!Page
<1>3. PageFits(Lace!Page, Given, s1.opened)'
  BY <1>1, <1>2 DEF PageFits
<1>4. SyncWillServe'
  BY <1>1 DEF SyncWillServe, Lace!Quiet
<1> QED BY <1>1, <1>2, <1>3, <1>4 DEF LaceFits

\* The page as it is.
LEMMA LacePageFits ==
  ASSUME LaceFits
  PROVE  /\ Lace!Page \in LacePages(Given, s1.opened) /\ Given \in SUBSET Nat
         /\ Lace!Page.lace = s1 /\ Lace!Page.root = s3
BY DEF LaceFits, LacePages, Lace!Page, Given, GivenApis

\* Another implementation of the same connection, or a root of the same APIs.
LEMMA LacePagesOf ==
  ASSUME LaceFits, NEW impl \in LaceImpls, NEW root \in LaceRoots,
         impl.opened = s1.opened, impl.api \in Given, root.api \in Given, root.synced \in Given,
         root.active # Lace!Sync, root.synced # Lace!NoApi => Has(impl.listeners, Lace!Sync)
  PROVE  [lace |-> impl, root |-> root] \in LacePages(Given, s1.opened)
BY DEF LacePages, PageFits

LEMMA LacePolls ==
  ASSUME LaceFits,
         \/ Lace!PollFires \/ Lace!PollFails
         \/ \E address \in Lace!OrNone(LaceAccounts) : Lace!PollAnswers(address)
  PROVE  LaceFits'
<1>t. /\ s1 \in LaceImpls /\ s3 \in LaceRoots /\ PageFits(Lace!Page, Given, s1.opened)
      /\ Lace!Page.lace = s1 /\ Lace!Page.root = s3 /\ Given \in SUBSET Nat
      /\ Lace!Page = [lace |-> s1, root |-> s3]
  BY LacePageFits DEF LaceFits, Lace!Page
<1>1. CASE Lace!PollFires \/ Lace!PollFails
  <2> DEFINE page == [lace |-> s1', root |-> s3]
  <2>1. /\ s1' \in LaceImpls /\ s1'.opened = s1.opened /\ s1'.api = s1.api /\ s1'.listeners = s1.listeners
        /\ ~Unserved(s1') /\ s3' = s3 /\ UNCHANGED <<s2, s4>>
    <3>1. CASE Lace!PollFires
      <4>1. s1' = [s1 EXCEPT !.timer = FALSE, !.polls = @ + 1] /\ UNCHANGED <<s2, s3, s4>>
        BY <3>1 DEF Lace!PollFires
      <4>2. s1.polls + 1 \in Nat /\ s1.polls + 1 # 0
        BY <1>t DEF LaceImpls
      <4> QED BY <1>t, <4>1, <4>2 DEF LaceImpls, Unserved
    <3>2. CASE Lace!PollFails
      <4>1. s1.polls - 1 \in Nat
        BY <1>t, <3>2 DEF Lace!PollFails, LaceImpls
      <4> QED BY <1>t, <3>2, <4>1 DEF Lace!PollFails, Lace!Rescheduled, LaceImpls, Unserved
    <3> QED BY <1>1, <3>1, <3>2
  <2>2. page \in LacePages(Given, s1.opened)
    BY <1>t, <2>1 DEF LacePages, PageFits
  <2>3. Lace!Becomes(page) /\ page.lace = s1'
    BY <2>1 DEF Lace!Becomes
  <2> HIDE DEF page
  <2> QED BY <2>1, <2>2, <2>3, LaceStays
<1>2. ASSUME NEW address \in Lace!OrNone(LaceAccounts), Lace!PollAnswers(address) PROVE LaceFits'
  <2> DEFINE impl == [s1 EXCEPT !.polls = @ - 1, !.address = address]
             read == [lace |-> impl, root |-> s3]
             told == IF address # s1.address THEN Lace!Emit(read) ELSE read
             page == [told EXCEPT !.lace = Lace!Rescheduled(told.lace)]
  <2>1. /\ impl \in LaceImpls /\ impl.opened = s1.opened /\ impl.api = s1.api
        /\ impl.listeners = s1.listeners
    <3>1. s1.polls - 1 \in Nat
      <4>1. s1.polls > 0
        BY <1>2 DEF Lace!PollAnswers
      <4> QED BY <1>t, <4>1 DEF LaceImpls
    <3> QED BY <1>t, <3>1 DEF LaceImpls
  <2>2. Lace!Becomes(page) /\ UNCHANGED <<s2, s4>>
    BY <1>2 DEF Lace!PollAnswers
  <2> HIDE DEF impl
  <2>3. read \in LacePages(Given, s1.opened)
    BY <1>t, <2>1 DEF LacePages, PageFits
  <2> HIDE DEF read
  <2>4. told \in LacePages(Given, s1.opened)
    BY <1>t, <2>3, LaceEmits DEF LaceFits
  <2> HIDE DEF told
  <2> DEFINE last == Lace!Rescheduled(told.lace)
  <2>5. /\ last \in LaceImpls /\ last.opened = told.lace.opened /\ last.api = told.lace.api
        /\ last.listeners = told.lace.listeners /\ ~Unserved(last)
    BY <2>4 DEF Lace!Rescheduled, LacePages, LaceImpls, Unserved
  <2>6. page = [told EXCEPT !.lace = last]
    OBVIOUS
  <2> HIDE DEF last
  <2>7. page \in [lace : LaceImpls, root : LaceRoots] /\ page.lace = last /\ page.root = told.root
    BY <2>4, <2>5, <2>6 DEF LacePages
  <2> HIDE DEF page
  <2>8. page \in LacePages(Given, s1.opened)
    BY <2>4, <2>5, <2>7 DEF LacePages, PageFits
  <2> QED BY <2>2, <2>5, <2>7, <2>8, LaceStays
<1> QED BY <1>1, <1>2

LEMMA LaceLetsGo ==
  ASSUME LaceFits,
         \/ Lace!Focus \/ Lace!FallbackFires \/ Lace!Disconnect \/ Lace!RootDisconnect
  PROVE  LaceFits'
<1>t. /\ s1 \in LaceImpls /\ s3 \in LaceRoots /\ PageFits(Lace!Page, Given, s1.opened)
      /\ Lace!Page.lace = s1 /\ Lace!Page.root = s3 /\ UNCHANGED <<s2, s4>>
  BY LacePageFits DEF LaceFits, Lace!Focus, Lace!FallbackFires, Lace!Disconnect, Lace!RootDisconnect
<1>0. /\ Lace!NoListener # Lace!Sync /\ Lace!NoListener \in Nat /\ 0 \in Given
  BY WalletBounds DEF Lace!Sync, Lace!NoListener, Given, GivenApis, Lace!NoApi
<1>1. CASE Lace!Focus \/ Lace!FallbackFires
  <2> DEFINE impl == Lace!LetGo(s1, s3.active)
             r == Lace!GiveUp(s3)
             page == [lace |-> impl, root |-> r]
  <2>1. Lace!Becomes(page) /\ Lace!Quiet
    BY <1>1 DEF Lace!Focus, Lace!FallbackFires
  <2>2. r \in LaceRoots /\ r.api = s3.api /\ r.synced = s3.synced /\ r.active = Lace!NoListener
    BY <1>t, <1>0 DEF Lace!GiveUp, LaceRoots
  <2>3. /\ impl \in LaceImpls /\ impl.opened = s1.opened /\ impl.api = s1.api
        /\ \A k : k # s3.active /\ Has(s1.listeners, k) => Has(impl.listeners, k)
        /\ Unserved(impl) => Unserved(s1)
    <3>1. CASE s3.active = Lace!NoListener
      BY <1>t, <3>1 DEF Lace!LetGo
    <3>2. CASE s3.active # Lace!NoListener
      <4>1. impl = Lace!Unsubscribe(s1, s3.active)
        BY <3>2 DEF Lace!LetGo
      <4> HIDE DEF impl
      <4> QED BY <1>t, <4>1, LaceUnsubscribes
    <3> QED BY <3>1, <3>2
  <2>4. s3.active # Lace!Sync
    BY <1>t DEF PageFits
  <2> HIDE DEF impl, r
  <2>5. page \in LacePages(Given, s1.opened)
    BY <1>t, <1>0, <2>2, <2>3, <2>4, LacePagesOf DEF PageFits
  <2>6. Unserved(page.lace) => page.root.synced # page.lace.api /\ (Lace!Quiet => page.root.api = page.lace.api)
    BY <2>2, <2>3 DEF LaceFits, SyncWillServe
  <2> HIDE DEF page
  <2> QED BY <1>t, <2>1, <2>5, <2>6, LaceStays
<1>2. CASE Lace!Disconnect \/ Lace!RootDisconnect
  <2> DEFINE impl == Lace!Disconnected(s1)
  <2>1. /\ impl \in LaceImpls /\ impl.opened = s1.opened /\ impl.api = 0 /\ ~Unserved(impl)
        /\ impl.listeners = s1.listeners
    BY <1>t DEF Lace!Disconnected, LaceImpls, Lace!NoApi, Lace!OrNone, Unserved
  <2>2. PICK r \in LaceRoots : /\ r.api \in {s3.api, 0} /\ r.synced = s3.synced /\ r.active = s3.active
                              /\ s1' = impl /\ s3' = r
    <3>1. CASE Lace!Disconnect
      BY <1>t, <3>1 DEF Lace!Disconnect
    <3>2. CASE Lace!RootDisconnect
      <4> DEFINE r == [s3 EXCEPT !.api = Lace!NoApi, !.address = Lace!NoOne]
      <4>1. r \in LaceRoots /\ r.api = 0 /\ r.synced = s3.synced /\ r.active = s3.active
        BY <1>t DEF LaceRoots, Lace!NoApi, Lace!OrNone
      <4> QED BY <3>2, <4>1 DEF Lace!RootDisconnect
    <3> QED BY <1>2, <3>1, <3>2
  <2> DEFINE page == [lace |-> impl, root |-> r]
  <2> HIDE DEF impl
  <2>3. page \in LacePages(Given, s1.opened)
    BY <1>t, <1>0, <2>1, <2>2, LacePagesOf DEF PageFits
  <2>4. Lace!Becomes(page) /\ page.lace = impl
    BY <2>2 DEF Lace!Becomes
  <2> HIDE DEF page
  <2> QED BY <1>t, <2>1, <2>3, <2>4, LaceStays
<1> QED BY <1>1, <1>2

LEMMA LaceSyncs == ASSUME LaceFits, Lace!SyncEffect PROVE LaceFits'
<1>t. /\ s1 \in LaceImpls /\ s3 \in LaceRoots /\ PageFits(Lace!Page, Given, s1.opened)
      /\ Lace!Page.lace = s1 /\ Lace!Page.root = s3 /\ UNCHANGED <<s2, s4>> /\ Lace!Quiet
      /\ Given \in SUBSET Nat
  BY LacePageFits DEF LaceFits, Lace!SyncEffect
<1> DEFINE impl == IF s3.synced = Lace!NoApi THEN s1 ELSE Lace!Unsubscribe(s1, Lace!Sync)
           r == [s3 EXCEPT !.fallback = FALSE, !.synced = s3.api]
           cleaned == [lace |-> impl, root |-> r]
<1>1. Lace!Becomes(IF s3.api = Lace!NoApi THEN cleaned ELSE Lace!Subscribe(cleaned, Lace!Sync, Lace!ApiOf))
  BY DEF Lace!SyncEffect
<1>2. r \in LaceRoots /\ r.api = s3.api /\ r.synced = s3.api /\ r.active = s3.active
  BY <1>t DEF LaceRoots
<1>3. /\ impl \in LaceImpls /\ impl.opened = s1.opened /\ impl.api = s1.api
      /\ Unserved(impl) => Unserved(s1)
  BY <1>t, LaceUnsubscribes
<1> HIDE DEF impl, r
<1>4. CASE s3.api = Lace!NoApi
  <2>1. cleaned \in LacePages(Given, s1.opened)
    BY <1>t, <1>2, <1>3, <1>4, LacePagesOf DEF PageFits
  <2>2. Unserved(impl) => s3.api = s1.api
    BY <1>t, <1>3 DEF LaceFits, SyncWillServe
  <2>3. ~Unserved(cleaned.lace)
    BY <1>3, <1>4, <2>2 DEF Unserved
  <2>4. Lace!Becomes(cleaned)
    BY <1>1, <1>4
  <2> HIDE DEF cleaned
  <2> QED BY <1>t, <2>1, <2>3, <2>4, LaceStays
<1>5. CASE s3.api # Lace!NoApi
  <2> DEFINE more == [impl EXCEPT !.listeners = Append(impl.listeners, Lace!Sync)]
             added == [lace |-> more, root |-> r]
             sub == Lace!Subscribe(cleaned, Lace!Sync, Lace!ApiOf)
  <2>0. Lace!Sync \in Nat
    BY WalletBounds DEF Lace!Sync
  <2>1. /\ more \in LaceImpls /\ more.opened = impl.opened /\ more.api = impl.api
        /\ Has(more.listeners, Lace!Sync)
    <3> DEFINE ls == Append(impl.listeners, Lace!Sync)
    <3>1. ls \in Seq(Nat) /\ Len(ls) \in 1 .. Len(ls) /\ ls[Len(ls)] = Lace!Sync
      BY <1>3, <2>0 DEF LaceImpls
    <3> HIDE DEF ls
    <3>2. more = [impl EXCEPT !.listeners = ls]
      BY DEF ls
    <3> QED BY <1>3, <3>1, <3>2 DEF LaceImpls, Has
  <2>2. [cleaned EXCEPT !.lace = Lace!Added(@, Lace!Sync)] = added
    <3>1. more = Lace!Added(impl, Lace!Sync) /\ cleaned.lace = impl
      BY DEF Lace!Added
    <3>2. [cleaned EXCEPT !.lace = Lace!Added(@, Lace!Sync)] = [cleaned EXCEPT !.lace = more]
      BY <3>1
    <3> HIDE DEF more
    <3>3. [cleaned EXCEPT !.lace = more] = added
      OBVIOUS
    <3> QED BY <3>2, <3>3
  <2> HIDE DEF more
  <2>3. added \in LacePages(Given, s1.opened)
    BY <1>t, <1>2, <1>3, <2>1, LacePagesOf DEF PageFits
  <2>4. cleaned.lace \in LaceImpls
    BY <1>3
  <2>5. \A f \in Lace!Clicks : Lace!ApiOf[f] \in Given
    BY DEF LaceFits, Lace!ApiOf, Lace!Flows
  <2>6. Lace!Becomes(sub)
    BY <1>1, <1>5
  <2> HIDE DEF cleaned, added
  <2>7. sub \in LacePages(Given, s1.opened) /\ ~Unserved(sub.lace)
    BY <1>t, <2>2, <2>3, <2>4, <2>5, LaceSubscribes
  <2> HIDE DEF sub
  <2> QED BY <1>t, <2>6, <2>7, LaceStays
<1> QED BY <1>4, <1>5

\* connect() of a flow is its own.
LEMMA ConnectGoes ==
  ASSUME s1 \in LaceImpls, s4 \in [Lace!Flows -> LaceFlow], NEW f \in Lace!Flows, Lace!Connect(f)
  PROVE  s4'[f].pc \in {"resume", "enabling"} /\ \A g \in Lace!Flows : g # f => s4'[g].pc = s4[g].pc
<1>1. s1.opened + 1 \in Nat /\ 0 \in Nat /\ s1.promise \in Nat
  BY DEF LaceImpls
<1>2. PICK pc \in {"resume", "enabling"}, promise \in Nat :
         s4' = [s4 EXCEPT ![f].pc = pc, ![f].promise = promise]
  BY <1>1 DEF Lace!Connect, Lace!NoApi
<1> QED BY <1>2 DEF LaceFlow

\* connect() of a flow that has not asked yet; the root's APIs are left alone.
LEMMA LaceConnects ==
  ASSUME LaceFits, Lace!Quiet, NEW f \in Lace!Flows, s4[f].pc \in {"idle", "checking"}, Lace!Connect(f),
         s3' \in LaceRoots, s3'.api = s3.api, s3'.synced = s3.synced, s3'.active = s3.active,
         PromptsCounted(s1.opened + 1, s4')
  PROVE  LaceFits'
<1>t. /\ s1 \in LaceImpls /\ s3 \in LaceRoots /\ s4 \in [Lace!Flows -> LaceFlow]
      /\ PageFits(Lace!Page, Given, s1.opened) /\ Lace!Page.lace = s1 /\ Lace!Page.root = s3
      /\ s1.opened \in Nat /\ s1.promise \in Nat
  BY LacePageFits DEF LaceFits, LaceImpls
<1>1. PICK pc \in {"resume", "enabling"}, promise \in Nat :
        s4' = [s4 EXCEPT ![f].pc = pc, ![f].promise = promise]
        /\ \/ s1' = s1 /\ s2' = s2
           \/ /\ s1' = [s1 EXCEPT !.promise = s1.opened + 1, !.opened = s1.opened + 1]
              /\ s2' = s2 \cup {s1.opened + 1} /\ pc = "enabling" /\ promise = s1.opened + 1
  <2>1. s1.opened + 1 \in Nat /\ 0 \in Nat
    BY <1>t
  <2> QED BY <1>t, <2>1 DEF Lace!Connect, Lace!NoApi
<1>2. /\ s4' \in [Lace!Flows -> LaceFlow]
      /\ \A g \in Lace!Flows : s4'[g].api = s4[g].api /\ (g # f => s4'[g] = s4[g])
      /\ s4'[f].pc = pc /\ s4'[f].promise = promise
  BY <1>t, <1>1 DEF LaceFlow
<1>3. PICK opened \in {s1.opened, s1.opened + 1} :
        /\ s1' \in LaceImpls /\ s1'.opened = opened /\ s1'.api = s1.api /\ s1'.listeners = s1.listeners
        /\ Unserved(s1') => Unserved(s1)
  <2>1. CASE s1' = s1
    BY <1>t, <2>1
  <2>2. CASE s1' = [s1 EXCEPT !.promise = s1.opened + 1, !.opened = s1.opened + 1]
    <3>1. s1.opened + 1 \in Nat
      BY <1>t
    <3> QED BY <1>t, <2>2, <3>1 DEF LaceImpls, Unserved
  <2> QED BY <1>1, <2>1, <2>2
<1>4. s2' \subseteq 1 .. s1'.opened /\ Given \subseteq Given'
  <2>1. CASE s1' = s1 /\ s2' = s2
    BY <2>1 DEF LaceFits, Given
  <2>2. CASE s1' = [s1 EXCEPT !.promise = s1.opened + 1, !.opened = s1.opened + 1]
             /\ s2' = s2 \cup {s1.opened + 1}
    <3>1. s1'.opened = s1.opened + 1
      BY <1>t, <2>2 DEF LaceImpls
    <3> QED BY <1>t, <2>2, <3>1 DEF LaceFits, Given, GivenApis
  <2> QED BY <1>1, <2>1, <2>2
<1>5. PageFits(Lace!Page, Given, s1.opened)'
  <2>1. Lace!Page' = [lace |-> s1', root |-> s3']
    BY DEF Lace!Page
  <2> QED BY <1>t, <1>3, <1>4, <2>1 DEF PageFits
<1>6. PromptsAwaited(s2, s4)'
  <2>1. ASSUME NEW p \in s2' PROVE \E g \in Lace!Flows : s4'[g].pc = "enabling" /\ s4'[g].promise = p
    <3>1. CASE p \in s2
      <4>1. PICK g \in Lace!Flows : s4[g].pc = "enabling" /\ s4[g].promise = p
        BY <3>1 DEF LaceFits, PromptsAwaited
      <4>2. g # f
        BY <4>1
      <4> QED BY <1>2, <4>1, <4>2
    <3>2. CASE p \notin s2
      BY <1>1, <1>2, <3>2
    <3> QED BY <3>1, <3>2
  <2> QED BY <2>1 DEF PromptsAwaited
<1>7. PromptsCounted(s1.opened, s4)'
  <2>1. PICK n \in 0 .. MaxClicks :
          /\ \A g \in Lace!Clicks : s4'[g].pc = "idle" <=> g > n
          /\ s1.opened + 1 <= n + IF s4'[Lace!Attempt].pc = "checking" THEN 0 ELSE 1
    BY DEF PromptsCounted
  <2>2. s1'.opened <= n + IF s4'[Lace!Attempt].pc = "checking" THEN 0 ELSE 1
    BY <1>t, <1>3, <2>1, WalletBounds
  <2> QED BY <2>1, <2>2 DEF PromptsCounted
<1>8. SyncWillServe'
  BY <1>3 DEF LaceFits, SyncWillServe
<1>9. \A g \in Lace!Flows : s4'[g].api \in Given'
  BY <1>2, <1>4 DEF LaceFits
<1> QED BY <1>2, <1>3, <1>4, <1>5, <1>6, <1>7, <1>8, <1>9 DEF LaceFits

LEMMA LaceAsks ==
  ASSUME LaceFits,
         \/ \E enabled \in BOOLEAN : Lace!EnabledAnswered(enabled)
         \/ \E f \in Lace!Clicks : Lace!Click(f)
  PROVE  LaceFits'
<1>t. /\ s1 \in LaceImpls /\ s3 \in LaceRoots /\ s4 \in [Lace!Flows -> LaceFlow] /\ s1.opened \in Nat
      /\ 0 \in Lace!Flows /\ Lace!Clicks \subseteq Lace!Flows /\ 0 \notin Lace!Clicks
      /\ Lace!Attempt = 0 /\ Lace!Clicks = 1 .. MaxClicks
  BY DEF LaceFits, LaceImpls, Lace!Flows, Lace!Attempt, Lace!Clicks
<1>n. PICK n \in 0 .. MaxClicks :
        /\ \A g \in Lace!Clicks : s4[g].pc = "idle" <=> g > n
        /\ s1.opened <= n + IF s4[0].pc = "checking" THEN 0 ELSE 1
  BY <1>t DEF LaceFits, PromptsCounted
<1>1. CASE Lace!EnabledAnswered(TRUE)
  <2>1. /\ Lace!Quiet /\ s4[0].pc = "checking" /\ Lace!Connect(0)
        /\ s3' = [s3 EXCEPT !.connecting = TRUE]
    BY <1>1, <1>t DEF Lace!EnabledAnswered
  <2>2. s3' \in LaceRoots /\ s3'.api = s3.api /\ s3'.synced = s3.synced /\ s3'.active = s3.active
    BY <1>t, <2>1 DEF LaceRoots
  <2>3. /\ \A g \in Lace!Clicks : s4'[g].pc = s4[g].pc
        /\ s4'[0].pc # "checking"
    BY <1>t, <2>1, ConnectGoes
  <2>4. s1.opened + 1 <= n + IF s4'[0].pc = "checking" THEN 0 ELSE 1
    BY <1>t, <1>n, <2>1, <2>3
  <2>5. PromptsCounted(s1.opened + 1, s4')
    BY <1>t, <1>n, <2>3, <2>4 DEF PromptsCounted
  <2> QED BY <1>t, <2>1, <2>2, <2>5, LaceConnects
<1>2. CASE Lace!EnabledAnswered(FALSE)
  <2>1. /\ Lace!Quiet /\ s4[0].pc = "checking" /\ s4' = [s4 EXCEPT ![0].pc = "done"]
        /\ s3' = [s3 EXCEPT !.initializing = FALSE] /\ UNCHANGED <<s1, s2>>
    BY <1>2, <1>t DEF Lace!EnabledAnswered
  <2>2. s3' \in LaceRoots /\ s3'.api = s3.api /\ s3'.synced = s3.synced /\ s3'.active = s3.active
    BY <1>t, <2>1 DEF LaceRoots
  <2>3. /\ s4' \in [Lace!Flows -> LaceFlow] /\ \A g \in Lace!Flows : g # 0 => s4'[g] = s4[g]
        /\ s4'[0].pc = "done" /\ s4'[0].api = s4[0].api
    BY <1>t, <2>1 DEF LaceFlow
  <2>4. s1'.opened <= n + IF s4'[0].pc = "checking" THEN 0 ELSE 1
    BY <1>t, <1>n, <2>1, <2>3
  <2>5. \A g \in Lace!Clicks : s4'[g].pc = "idle" <=> g > n
    BY <1>t, <1>n, <2>3
  <2>6. PromptsCounted(s1.opened, s4)'
    BY <1>t, <2>4, <2>5 DEF PromptsCounted
  <2>7. PageFits(Lace!Page, Given, s1.opened)'
    BY <2>1, <2>2 DEF LaceFits, PageFits, Lace!Page, Given
  <2>8. SyncWillServe'
    BY <2>1, <2>2 DEF LaceFits, SyncWillServe
  <2>9. PromptsAwaited(s2, s4)'
    BY <2>1, <2>3 DEF LaceFits, PromptsAwaited
  <2>10. \A g \in Lace!Flows : s4'[g].api \in Given'
    BY <2>1, <2>3 DEF LaceFits, Given
  <2> QED BY <2>1, <2>2, <2>3, <2>6, <2>7, <2>8, <2>9, <2>10 DEF LaceFits
<1>3. ASSUME NEW f \in Lace!Clicks, Lace!Click(f) PROVE LaceFits'
  <2>1. /\ Lace!Quiet /\ s4[f].pc = "idle" /\ \A g \in Lace!Clicks : g < f => s4[g].pc # "idle"
        /\ Lace!Connect(f) /\ s3' = [s3 EXCEPT !.connecting = TRUE]
    BY <1>3 DEF Lace!Click
  <2>2. s3' \in LaceRoots /\ s3'.api = s3.api /\ s3'.synced = s3.synced /\ s3'.active = s3.active
    BY <1>t, <2>1 DEF LaceRoots
  <2>3. /\ \A g \in Lace!Flows : g # f => s4'[g].pc = s4[g].pc
        /\ s4'[f].pc # "idle"
    BY <1>t, <2>1, ConnectGoes
  <2>4. f = n + 1
    <3>1. f > n /\ f \in 1 .. MaxClicks
      BY <1>t, <1>n, <2>1
    <3>2. CASE f > n + 1
      <4>1. n \in Nat /\ f \in 1 .. MaxClicks /\ n + 1 < f
        BY <3>1, <3>2, WalletBounds
      <4>2. n + 1 \in 1 .. MaxClicks /\ n + 1 > n
        BY <4>1, WalletBounds
      <4> QED BY <1>t, <1>n, <2>1, <4>1, <4>2
    <3> QED BY <1>n, <3>1, <3>2
  <2>5. s1.opened + 1 <= (n + 1) + IF s4'[0].pc = "checking" THEN 0 ELSE 1
    BY <1>t, <1>n, <2>3, <1>3
  <2>6. \A g \in Lace!Clicks : s4'[g].pc = "idle" <=> g > n + 1
    <3> TAKE g \in Lace!Clicks
    <3>1. CASE g = f
      BY <1>t, <2>3, <2>4, <3>1
    <3>2. CASE g # f
      <4>1. s4'[g].pc = s4[g].pc /\ g \in 1 .. MaxClicks
        BY <1>t, <2>3, <3>2
      <4>2. g > n <=> g > n + 1
        BY <1>n, <2>4, <3>2, <4>1
      <4> QED BY <1>n, <4>1, <4>2
    <3> QED BY <3>1, <3>2
  <2>7. n + 1 \in 0 .. MaxClicks
    BY <1>t, <1>n, <2>4, <1>3
  <2>8. PromptsCounted(s1.opened + 1, s4')
    BY <1>t, <2>5, <2>6, <2>7 DEF PromptsCounted
  <2> QED BY <1>t, <2>1, <2>2, <2>8, LaceConnects
<1> QED BY <1>1, <1>2, <1>3

LEMMA LaceAnswered ==
  ASSUME LaceFits, NEW p \in Lace!Prompts, NEW granted \in BOOLEAN, Lace!PromptAnswered(p, granted)
  PROVE  LaceFits'
<1>t. /\ s1 \in LaceImpls /\ s3 \in LaceRoots /\ s4 \in [Lace!Flows -> LaceFlow] /\ s1.opened \in Nat
      /\ PageFits(Lace!Page, Given, s1.opened) /\ Lace!Page.lace = s1 /\ Lace!Page.root = s3
      /\ Lace!Quiet /\ p \in s2 /\ s2' = s2 \ {p} /\ s3' = s3 /\ p \in Nat /\ s2 \subseteq 1 .. s1.opened
  BY LacePageFits DEF LaceFits, LaceImpls, Lace!PromptAnswered
<1> DEFINE api == IF granted THEN p ELSE s1.api
           v(f) == IF s4[f].pc = "enabling" /\ s4[f].promise = p
                   THEN [s4[f] EXCEPT !.pc = "resume"] ELSE s4[f]
<1>1. s1' = [s1 EXCEPT !.promise = Lace!NoApi, !.api = api]
  BY <1>t DEF Lace!PromptAnswered
<1>2. /\ s1' \in LaceImpls /\ s1'.opened = s1.opened /\ s1'.api = api /\ s1'.listeners = s1.listeners
      /\ s1'.timer = s1.timer /\ s1'.polls = s1.polls
  <2>1. api \in Nat /\ Lace!NoApi \in Nat
    BY <1>t DEF LaceImpls, Lace!NoApi
  <2> HIDE DEF api
  <2> QED BY <1>t, <1>1, <2>1 DEF LaceImpls
<1>3. s4' = [f \in Lace!Flows |-> v(f)]
  BY DEF Lace!PromptAnswered
<1>4. \A f \in Lace!Flows :
        /\ v(f) \in LaceFlow /\ v(f).api = s4[f].api
        /\ \/ v(f) = s4[f] /\ ~(s4[f].pc = "enabling" /\ s4[f].promise = p)
           \/ s4[f].pc = "enabling" /\ s4[f].promise = p /\ v(f).pc = "resume"
  BY <1>t DEF LaceFlow
<1> HIDE DEF v
<1>5. s4' \in [Lace!Flows -> LaceFlow] /\ \A f \in Lace!Flows : s4'[f] = v(f)
  BY <1>3, <1>4
<1>6. /\ Given \subseteq Given' /\ p \in Given' /\ s2' \subseteq 1 .. s1'.opened
  BY <1>t, <1>2 DEF Given, GivenApis
<1>7. PageFits(Lace!Page, Given, s1.opened)'
  <2>1. Lace!Page' = [lace |-> s1', root |-> s3'] /\ api \in Given'
    BY <1>t, <1>6 DEF Lace!Page, PageFits
  <2> HIDE DEF api
  <2> QED BY <1>t, <1>2, <1>6, <2>1 DEF PageFits
<1>8. \A f \in Lace!Flows : s4'[f].api \in Given'
  BY <1>4, <1>5, <1>6 DEF LaceFits
<1>9. PICK n \in 0 .. MaxClicks :
        /\ \A g \in Lace!Clicks : s4[g].pc = "idle" <=> g > n
        /\ s1.opened <= n + IF s4[Lace!Attempt].pc = "checking" THEN 0 ELSE 1
  BY DEF LaceFits, PromptsCounted
<1>10. PromptsCounted(s1.opened, s4)'
  <2>1. \A f \in Lace!Flows : s4'[f].pc \in {"idle", "checking"} \/ s4[f].pc \in {"idle", "checking"}
           => s4'[f].pc = s4[f].pc
    BY <1>4, <1>5
  <2>2. \A g \in Lace!Clicks : g \in Lace!Flows
    BY DEF Lace!Flows
  <2>3. Lace!Attempt \in Lace!Flows
    BY DEF Lace!Flows
  <2>4. \A g \in Lace!Clicks : s4'[g].pc = "idle" <=> g > n
    BY <1>9, <2>1, <2>2
  <2>5. s4'[Lace!Attempt].pc = "checking" <=> s4[Lace!Attempt].pc = "checking"
    BY <2>1, <2>3
  <2>6. s1'.opened <= n + IF s4'[Lace!Attempt].pc = "checking" THEN 0 ELSE 1
    BY <1>2, <1>9, <2>5
  <2> QED BY <2>4, <2>6 DEF PromptsCounted
<1>11. PromptsAwaited(s2, s4)'
  <2>1. ASSUME NEW q \in s2' PROVE \E g \in Lace!Flows : s4'[g].pc = "enabling" /\ s4'[g].promise = q
    <3>1. PICK g \in Lace!Flows : s4[g].pc = "enabling" /\ s4[g].promise = q
      BY <1>t, <2>1 DEF LaceFits, PromptsAwaited
    <3>2. q # p
      BY <1>t, <2>1
    <3> QED BY <1>4, <1>5, <3>1, <3>2
  <2> QED BY <2>1 DEF PromptsAwaited
<1>12. SyncWillServe'
  <2>1. CASE granted
    <3>1. PICK g \in Lace!Flows : s4[g].pc = "enabling" /\ s4[g].promise = p
      BY <1>t DEF LaceFits, PromptsAwaited
    <3>2. ~Lace!Quiet'
      BY <1>4, <1>5, <3>1 DEF Lace!Quiet
    <3>3. s1.opened <= MaxClicks + 1
      BY <1>t, <1>9, WalletBounds
    <3>4. p # 0 /\ p # MaxClicks + 2
      BY <1>t, <3>3, WalletBounds
    <3>5. s3.synced # p
      BY <1>t, <3>4 DEF PageFits, Given, GivenApis, Lace!NoApi, Lace!Earlier
    <3> QED BY <1>t, <1>2, <2>1, <3>2, <3>5 DEF SyncWillServe
  <2>2. CASE ~granted
    <3>1. s1'.api = s1.api
      BY <1>2, <2>2
    <3>2. Unserved(s1') => Unserved(s1)
      BY <1>2, <3>1 DEF Unserved
    <3> QED BY <1>t, <3>1, <3>2 DEF LaceFits, SyncWillServe
  <2> QED BY <2>1, <2>2
<1> QED BY <1>2, <1>t, <1>5, <1>6, <1>7, <1>8, <1>10, <1>11, <1>12 DEF LaceFits

\* A flow that waited for connect() ends.
LEMMA LaceResumes ==
  ASSUME LaceFits, s2' = s2, NEW f \in Lace!Flows, s4[f].pc = "resume",
         NEW pc \in {"done", "thrown"}, NEW api \in Given,
         s4' = [s4 EXCEPT ![f].pc = pc, ![f].api = api],
         NEW page \in LacePages(Given, s1.opened), Lace!Becomes(page),
         Unserved(page.lace) => page.root.synced # page.lace.api /\ page.root.api = page.lace.api
  PROVE  LaceFits'
<1>1. /\ page \in [lace : LaceImpls, root : LaceRoots] /\ PageFits(page, Given, s1.opened)
      /\ s1' = page.lace /\ s3' = page.root
  BY DEF LacePages, Lace!Becomes
<1>2. s1'.opened = s1.opened /\ Given' = Given /\ Lace!Page' = page
  BY <1>1 DEF PageFits, Given, Lace!Page
<1>3. PageFits(Lace!Page, Given, s1.opened)'
  BY <1>1, <1>2 DEF PageFits
<1>4. SyncWillServe'
  BY <1>1 DEF SyncWillServe
<1>5. s4 \in [Lace!Flows -> LaceFlow] /\ api \in Nat
  BY DEF LaceFits, Given, GivenApis
<1>6. /\ s4' \in [Lace!Flows -> LaceFlow] /\ \A g \in Lace!Flows : g # f => s4'[g] = s4[g]
      /\ s4'[f].pc = pc /\ s4'[f].api = api
  BY <1>5 DEF LaceFlow
<1>7. \A g \in Lace!Flows : s4'[g].api \in Given'
  BY <1>2, <1>6 DEF LaceFits
<1>8. PICK n \in 0 .. MaxClicks :
        /\ \A g \in Lace!Clicks : s4[g].pc = "idle" <=> g > n
        /\ s1.opened <= n + IF s4[Lace!Attempt].pc = "checking" THEN 0 ELSE 1
  BY DEF LaceFits, PromptsCounted
<1>9. PromptsCounted(s1.opened, s4)'
  <2>1. \A g \in Lace!Flows : s4'[g].pc = s4[g].pc \/ (s4[g].pc = "resume" /\ s4'[g].pc \in {"done", "thrown"})
    BY <1>6
  <2>2. Lace!Attempt \in Lace!Flows /\ \A g \in Lace!Clicks : g \in Lace!Flows
    BY DEF Lace!Flows
  <2>3. \A g \in Lace!Clicks : s4'[g].pc = "idle" <=> g > n
    BY <1>8, <2>1, <2>2
  <2>4. s4'[Lace!Attempt].pc = "checking" <=> s4[Lace!Attempt].pc = "checking"
    BY <2>1, <2>2
  <2>5. s1'.opened <= n + IF s4'[Lace!Attempt].pc = "checking" THEN 0 ELSE 1
    BY <1>2, <1>8, <2>4
  <2> QED BY <2>3, <2>5 DEF PromptsCounted
<1>10. PromptsAwaited(s2, s4)'
  <2>1. ASSUME NEW q \in s2' PROVE \E g \in Lace!Flows : s4'[g].pc = "enabling" /\ s4'[g].promise = q
    <3>1. PICK g \in Lace!Flows : s4[g].pc = "enabling" /\ s4[g].promise = q
      BY <2>1 DEF LaceFits, PromptsAwaited
    <3>2. g # f
      BY <3>1
    <3> QED BY <1>6, <3>1, <3>2
  <2> QED BY <2>1 DEF PromptsAwaited
<1> QED BY <1>1, <1>2, <1>3, <1>4, <1>6, <1>7, <1>9, <1>10 DEF LaceFits

\* The page with one listener more.
LEMMA LaceAdds ==
  ASSUME LaceFits, NEW l \in Nat
  PROVE  /\ Lace!Added(s1, l) \in LaceImpls
         /\ Lace!Added(s1, l).opened = s1.opened /\ Lace!Added(s1, l).api = s1.api
         /\ Lace!Added(s1, l).timer = s1.timer /\ Lace!Added(s1, l).polls = s1.polls
         /\ \A k : Has(s1.listeners, k) => Has(Lace!Added(s1, l).listeners, k)
         /\ [Lace!Page EXCEPT !.lace = Lace!Added(@, l)] \in LacePages(Given, s1.opened)
<1> DEFINE ls == Append(s1.listeners, l)
           impl == [s1 EXCEPT !.listeners = ls]
<1>t. s1 \in LaceImpls /\ s3 \in LaceRoots /\ s1.listeners \in Seq(Nat)
  BY DEF LaceFits, LaceImpls
<1>1. impl = Lace!Added(s1, l)
  BY DEF Lace!Added
<1>2. ls \in Seq(Nat) /\ Len(ls) = Len(s1.listeners) + 1 /\ \A i \in 1 .. Len(s1.listeners) : ls[i] = s1.listeners[i]
  BY <1>t
<1>3. \A k : Has(s1.listeners, k) => Has(ls, k)
  <2>1. Len(s1.listeners) \in Nat
    BY <1>t
  <2> HIDE DEF ls
  <2>2. ASSUME NEW k, Has(s1.listeners, k) PROVE Has(ls, k)
    <3>1. PICK i \in 1 .. Len(s1.listeners) : s1.listeners[i] = k
      BY <2>2 DEF Has
    <3>2. i \in 1 .. Len(ls) /\ ls[i] = k
      BY <1>2, <2>1, <3>1
    <3> QED BY <3>2 DEF Has
  <2> QED BY <2>2
<1> HIDE DEF ls
<1>4. /\ impl \in LaceImpls /\ impl.opened = s1.opened /\ impl.api = s1.api
      /\ impl.timer = s1.timer /\ impl.polls = s1.polls /\ impl.listeners = ls
  BY <1>t, <1>2 DEF LaceImpls
<1> HIDE DEF impl
<1>5. [Lace!Page EXCEPT !.lace = Lace!Added(@, l)] = [lace |-> impl, root |-> s3]
  BY <1>1 DEF Lace!Page
<1>6. [lace |-> impl, root |-> s3] \in LacePages(Given, s1.opened)
  BY <1>t, <1>3, <1>4, LacePagesOf DEF LaceFits, PageFits, Lace!Page
<1> QED BY <1>1, <1>3, <1>4, <1>5, <1>6

\* A page whose root alone changed.
LEMMA LaceShows ==
  ASSUME NEW apis, NEW opened, NEW page \in LacePages(apis, opened), NEW r \in LaceRoots,
         r.api \in apis, r.synced = page.root.synced, r.active # Lace!Sync,
         NEW shown, shown = [page EXCEPT !.root = r]
  PROVE  shown \in LacePages(apis, opened) /\ shown.lace = page.lace /\ shown.root = r
<1>1. shown \in [lace : LaceImpls, root : LaceRoots] /\ shown.lace = page.lace /\ shown.root = r
  BY DEF LacePages
<1> QED BY <1>1 DEF LacePages, PageFits

LEMMA LaceAttemptEnds == ASSUME LaceFits, Lace!AttemptResumes PROVE LaceFits'
<1>t. /\ s1 \in LaceImpls /\ s3 \in LaceRoots /\ s4 \in [Lace!Flows -> LaceFlow]
      /\ PageFits(Lace!Page, Given, s1.opened) /\ Lace!Page.lace = s1 /\ Lace!Page.root = s3
      /\ Lace!Page \in LacePages(Given, s1.opened) /\ Given \in SUBSET Nat
      /\ s2' = s2 /\ s4[Lace!Attempt].pc = "resume" /\ Lace!Attempt \in Lace!Flows /\ Lace!Attempt \in Nat
  BY LacePageFits DEF LaceFits, Lace!AttemptResumes, Lace!Flows, Lace!Attempt
<1>0. /\ s1.api # Lace!NoApi /\ s3.synced = s1.api => Has(s1.listeners, Lace!Sync)
      /\ Lace!Attempt # Lace!Sync /\ s4[Lace!Attempt].api \in Given
  BY <1>t, WalletBounds DEF PageFits, Lace!Attempt, Lace!Sync, LaceFits
<1>1. CASE s1.address # Lace!NoOne
  <2> DEFINE impl == Lace!Added(s1, Lace!Attempt)
             r == [Lace!ShowConnected(s3, Lace!ApiNow(Lace!Page), s1.address) EXCEPT !.initializing = FALSE]
             page == [lace |-> impl, root |-> r]
  <2>1. Lace!Becomes(page)
    <3>1. Lace!Becomes([[lace |-> impl, root |-> Lace!ShowConnected(s3, Lace!ApiNow(Lace!Page), s1.address)]
                          EXCEPT !.root.initializing = FALSE])
      BY <1>1 DEF Lace!AttemptResumes
    <3> HIDE DEF impl
    <3> QED BY <3>1 DEF Lace!Becomes
  <2>2. s4' = [s4 EXCEPT ![Lace!Attempt].pc = "thrown", ![Lace!Attempt].api = s4[Lace!Attempt].api]
    <3>1. s4' = [s4 EXCEPT ![Lace!Attempt].pc = "thrown"]
      BY <1>1 DEF Lace!AttemptResumes
    <3> QED BY <1>t, <3>1 DEF LaceFlow
  <2>3. /\ r \in LaceRoots /\ r.api = Lace!ApiNow(Lace!Page) /\ r.synced = s3.synced /\ r.active = s3.active
        /\ r.api \in Given /\ (s1.api # Lace!NoApi => r.api = s1.api)
    <3>1. /\ Lace!ApiNow(Lace!Page) \in Given /\ Lace!ApiNow(Lace!Page) \in Nat
          /\ (s1.api # Lace!NoApi => Lace!ApiNow(Lace!Page) = s1.api)
      BY <1>t DEF Lace!ApiNow, PageFits
    <3> QED BY <1>t, <3>1 DEF LaceRoots, Lace!ShowConnected, LaceImpls
  <2>4. /\ impl \in LaceImpls /\ impl.opened = s1.opened /\ impl.api = s1.api
        /\ impl.timer = s1.timer /\ impl.polls = s1.polls
        /\ \A k : Has(s1.listeners, k) => Has(impl.listeners, k)
    BY <1>t, LaceAdds
  <2> HIDE DEF impl, r
  <2>5. page \in LacePages(Given, s1.opened)
    BY <1>t, <2>3, <2>4, LacePagesOf DEF PageFits
  <2>6. ASSUME Unserved(impl) PROVE r.synced # impl.api /\ r.api = impl.api
    <3>1. s1.api # Lace!NoApi /\ ~s1.timer /\ s1.polls = 0
      BY <2>4, <2>6 DEF Unserved
    <3>2. CASE s1.listeners = <<>>
      <4>1. ~Has(s1.listeners, Lace!Sync)
        BY <3>2 DEF Has
      <4> QED BY <1>0, <2>3, <2>4, <3>1, <4>1
    <3>3. CASE s1.listeners # <<>>
      BY <2>3, <2>4, <3>1, <3>3 DEF LaceFits, SyncWillServe, Unserved
    <3> QED BY <3>2, <3>3
  <2>7. page.lace = impl /\ page.root = r
    OBVIOUS
  <2> HIDE DEF page
  <2> QED BY <1>t, <1>0, <2>1, <2>2, <2>5, <2>6, <2>7, LaceResumes
<1>2. CASE s1.address = Lace!NoOne
  <2> DEFINE sub == Lace!Subscribe(Lace!Page, Lace!Attempt, Lace!ApiOf)
             r == [Lace!Awaiting(sub.root, Lace!Attempt) EXCEPT !.initializing = FALSE]
             page == [sub EXCEPT !.root = r]
  <2>1. sub \in LacePages(Given, s1.opened) /\ ~Unserved(sub.lace)
    <3>1. [Lace!Page EXCEPT !.lace = Lace!Added(@, Lace!Attempt)] \in LacePages(Given, s1.opened)
      BY <1>t, LaceAdds
    <3>2. \A f \in Lace!Clicks : Lace!ApiOf[f] \in Given
      BY DEF LaceFits, Lace!ApiOf, Lace!Flows
    <3>3. /\ sub = Lace!Subscribe(Lace!Page, Lace!Attempt, Lace!ApiOf) /\ Lace!Page.lace \in LaceImpls
          /\ Given \in SUBSET Nat
      BY <1>t
    <3> HIDE DEF sub
    <3> QED BY <3>1, <3>2, <3>3, LaceSubscribes
  <2>2. Lace!Becomes([[sub EXCEPT !.root = Lace!Awaiting(@, Lace!Attempt)] EXCEPT !.root.initializing = FALSE])
    BY <1>2 DEF Lace!AttemptResumes
  <2> HIDE DEF sub
  <2>3. sub.root \in LaceRoots /\ sub.root.api \in Given /\ sub \in [lace : LaceImpls, root : LaceRoots]
    BY <2>1 DEF LacePages, PageFits
  <2>4. Lace!Becomes(page)
    <3>1. [[sub EXCEPT !.root = Lace!Awaiting(@, Lace!Attempt)] EXCEPT !.root.initializing = FALSE] = page
      BY <2>3
    <3> QED BY <2>2, <3>1
  <2>5. /\ r \in LaceRoots /\ r.api = sub.root.api /\ r.synced = sub.root.synced
        /\ r.active = Lace!Attempt
    BY <1>t, <2>3 DEF LaceRoots, Lace!Awaiting
  <2> HIDE DEF r
  <2>6. page \in LacePages(Given, s1.opened) /\ page.lace = sub.lace
    BY <1>0, <2>1, <2>3, <2>5, LaceShows
  <2> HIDE DEF page
  <2>7. s4' = [s4 EXCEPT ![Lace!Attempt].pc = "done", ![Lace!Attempt].api = s4[Lace!Attempt].api]
    <3>1. s4' = [s4 EXCEPT ![Lace!Attempt].pc = "done"]
      BY <1>2 DEF Lace!AttemptResumes
    <3> QED BY <1>t, <3>1 DEF LaceFlow
  <2> QED BY <1>t, <1>0, <2>1, <2>4, <2>6, <2>7, LaceResumes
<1> QED BY <1>1, <1>2

LEMMA LaceClickEnds ==
  ASSUME LaceFits, NEW f \in Lace!Clicks, Lace!ClickResumes(f) PROVE LaceFits'
<1>t. /\ s1 \in LaceImpls /\ s3 \in LaceRoots /\ s4 \in [Lace!Flows -> LaceFlow]
      /\ PageFits(Lace!Page, Given, s1.opened) /\ Lace!Page.lace = s1 /\ Lace!Page.root = s3
      /\ Lace!Page \in LacePages(Given, s1.opened) /\ Given \in SUBSET Nat
      /\ s2' = s2 /\ s4[f].pc = "resume" /\ f \in Lace!Flows /\ f \in Nat /\ f # Lace!Sync
      /\ s1.api \in Given
      /\ s4' = [s4 EXCEPT ![f].pc = "done", ![f].api = s1.api]
  BY LacePageFits, WalletBounds DEF LaceFits, PageFits, Lace!ClickResumes, Lace!Flows, Lace!Clicks, Lace!Sync
<1> DEFINE given == [Lace!ApiOf EXCEPT ![f] = s1.api]
           sub == Lace!Subscribe(Lace!Page, f, given)
<1>1. CASE s1.api = Lace!NoApi
  <2> DEFINE r == [s3 EXCEPT !.connecting = FALSE]
             page == [lace |-> s1, root |-> r]
  <2>1. Lace!Becomes(page)
    BY <1>1 DEF Lace!ClickResumes, Lace!Page, Lace!Becomes
  <2>2. r \in LaceRoots /\ r.api = s3.api /\ r.synced = s3.synced /\ r.active = s3.active
    BY <1>t DEF LaceRoots
  <2> HIDE DEF r
  <2>3. page \in LacePages(Given, s1.opened)
    BY <1>t, <2>2, LacePagesOf DEF PageFits
  <2>4. ~Unserved(page.lace)
    BY <1>1 DEF Unserved
  <2> HIDE DEF page
  <2> QED BY <1>t, <2>1, <2>3, <2>4, LaceResumes
<1>2. CASE s1.api # Lace!NoApi
  <2>1. sub \in LacePages(Given, s1.opened) /\ ~Unserved(sub.lace)
    <3>1. [Lace!Page EXCEPT !.lace = Lace!Added(@, f)] \in LacePages(Given, s1.opened)
      BY <1>t, LaceAdds
    <3>2. \A g \in Lace!Clicks : given[g] \in Given
      BY <1>t DEF LaceFits, Lace!ApiOf, Lace!Flows
    <3>3. sub = Lace!Subscribe(Lace!Page, f, given) /\ Lace!Page.lace \in LaceImpls /\ Given \in SUBSET Nat
      BY <1>t
    <3> HIDE DEF given, sub
    <3> QED BY <3>1, <3>2, <3>3, LaceSubscribes
  <2>2. Lace!Becomes([sub EXCEPT !.root = Lace!Awaiting(@, f)])
    BY <1>2 DEF Lace!ClickResumes
  <2> HIDE DEF sub
  <2> DEFINE r == Lace!Awaiting(sub.root, f)
             page == [sub EXCEPT !.root = r]
  <2>3. sub.root \in LaceRoots /\ sub.root.api \in Given
    BY <2>1 DEF LacePages, PageFits
  <2>4. Lace!Becomes(page)
    BY <2>2
  <2>5. r \in LaceRoots /\ r.api = sub.root.api /\ r.synced = sub.root.synced /\ r.active = f
    BY <1>t, <2>3 DEF LaceRoots, Lace!Awaiting
  <2> HIDE DEF r
  <2>6. page \in LacePages(Given, s1.opened) /\ page.lace = sub.lace
    BY <1>t, <2>1, <2>3, <2>5, LaceShows
  <2> HIDE DEF page
  <2> QED BY <1>t, <2>1, <2>4, <2>6, LaceResumes
<1> QED BY <1>1, <1>2

LEMMA LaceNext == LaceFits /\ [Lace!Next]_Lace!vars => LaceFits'
<1> SUFFICES ASSUME LaceFits, [Lace!Next]_Lace!vars PROVE LaceFits'
  OBVIOUS
<1>1. CASE UNCHANGED Lace!vars
  BY <1>1 DEF Lace!vars, LaceFits, PageFits, Given, SyncWillServe, Lace!Page, Lace!Quiet
<1>2. CASE Lace!Next
  BY <1>2, LacePolls, LaceAnswered, LaceAsks, LaceAttemptEnds, LaceClickEnds, LaceLetsGo, LaceSyncs
     DEF Lace!Next, Lace!Resume
<1> QED BY <1>1, <1>2

LEMMA LaceServes == LaceFits => Lace!ListenersServed
<1> SUFFICES ASSUME LaceFits, Lace!Quiet, s3.synced = s3.api, s1.api # Lace!NoApi, s1.listeners # <<>>
             PROVE  s1.timer \/ s1.polls > 0
  BY DEF Lace!ListenersServed
<1>1. s1.polls \in Nat /\ s1.timer \in BOOLEAN
  BY DEF LaceFits, LaceImpls
<1> QED BY <1>1 DEF LaceFits, SyncWillServe, Unserved

--------------------
(* Stellar roles: s1 is context, s2 client, s3 members, s4 turns, s5 calls. *)

Roles == INSTANCE StellarRoles
           WITH context <- s1, client <- s2, members <- s3, turns <- s4, calls <- s5

RoleContexts == [nr : Nat, known : Roles!MaybeIds, discovered : Roles!MaybeIds, attempted : BOOLEAN,
                 offered : SUBSET KnownIds]
RoleCalls == [pc : {"idle", "check", "asked", "query", "count", "reading", "done"},
              nr : Nat, ids : SUBSET Roles!Roles,
              base : Seq(Accounts), todo : SUBSET Nat, shown : [Accounts -> Nat], steady : BOOLEAN]

Distinct(s) == \A i, j \in 1 .. Len(s) : i # j => s[i] # s[j]

\* Ids that were given are known.
ContextFits(context) ==
  /\ context \in RoleContexts
  /\ ~context.known.given => context.known.ids = {}
  /\ context.offered \subseteq context.known.ids
MembersFit(members) == members \in Seq(Accounts) /\ Distinct(members)

\* The accounts read of a list, when the places left to read are todo.
ReadOf(base, todo, a) == IF \E i \in 1 .. Len(base) : i \notin todo /\ base[i] = a THEN 1 ELSE 0

\* A call shows what it read of the members it counted, which stay the first ones while
\* none leaves.
ReadingFits(call, members) ==
  /\ call \in RoleCalls
  /\ call.pc \notin {"reading", "done"} => call.base = <<>> /\ \A a \in Accounts : call.shown[a] = 0
  /\ call.pc = "reading" /\ call.steady =>
       /\ Len(call.base) <= Len(members) /\ \A i \in 1 .. Len(call.base) : call.base[i] = members[i]
       /\ Distinct(call.base) /\ call.todo \subseteq 1 .. Len(call.base)
       /\ \A a \in Accounts : call.shown[a] = ReadOf(call.base, call.todo, a)
  /\ call.pc = "done" /\ call.steady =>
       \A a \in Accounts : call.shown[a] = ReadOf(call.base, {}, a)

CallsFit(calls, members) ==
  /\ calls \in [Calls -> RoleCalls]
  /\ \A c \in Calls : ReadingFits(calls[c], members)

RolesFit == ContextFits(s1) /\ MembersFit(s3) /\ CallsFit(s5, s3)

LEMMA RolesInit == ASSUME Roles!Init PROVE RolesFit
<1> USE DEF Roles!Undefined, Roles!MaybeIds
<1>1. ContextFits(s1)
  BY DEF Roles!Init, ContextFits, RoleContexts
<1>3. MembersFit(s3)
  <2>1. Roles!Cardinality(Accounts) \in Nat
    <3>1. Roles!Cardinality(Accounts) = Cardinality(Accounts)
      BY DEF Roles!Cardinality, Cardinality
    <3> QED BY <3>1, AccountsAssumption, FS_CardinalityType
  <2>2. PICK n \in 0 .. Roles!Cardinality(Accounts) :
          s3 \in [1 .. n -> Accounts] /\ \A i, j \in DOMAIN s3 : i # j => s3[i] # s3[j]
    <3>1. s3 \in {s \in UNION {[1 .. n -> Accounts] : n \in 0 .. Roles!Cardinality(Accounts)} :
                     \A i, j \in DOMAIN s : i # j => s[i] # s[j]}
      BY Zenon DEF Roles!Init
    <3>2. /\ s3 \in UNION {[1 .. n -> Accounts] : n \in 0 .. Roles!Cardinality(Accounts)}
          /\ \A i, j \in DOMAIN s3 : i # j => s3[i] # s3[j]
      BY <3>1, Zenon
    <3>3. \E n \in 0 .. Roles!Cardinality(Accounts) : s3 \in [1 .. n -> Accounts]
      BY <3>2, Zenon
    <3> QED BY <3>2, <3>3
  <2>3. n \in Nat
    BY <2>1
  <2>4. s3 \in Seq(Accounts) /\ Len(s3) = n
    BY <2>2, <2>3, SeqDef, LenProperties
  <2> QED BY <2>2, <2>4 DEF MembersFit, Distinct
<1>4. Roles!NoCall \in RoleCalls /\ ReadingFits(Roles!NoCall, s3)
  BY DEF ReadingFits, RoleCalls, Roles!NoCall
<1>5. s5 \in [Calls -> RoleCalls] /\ \A c \in Calls : s5[c] = Roles!NoCall
  BY <1>4 DEF Roles!Init
<1>6. CallsFit(s5, s3)
  BY <1>4, <1>5 DEF CallsFit
<1> QED BY <1>1, <1>3, <1>6 DEF RolesFit

\* One call goes on.
LEMMA RoleGoes ==
  ASSUME RolesFit, NEW c \in Calls, NEW call, ReadingFits(call, s3), Roles!Goes(c, call)
  PROVE  CallsFit(s5', s3)
<1>1. s5' = [s5 EXCEPT ![c] = call] /\ s5 \in [Calls -> RoleCalls] /\ call \in RoleCalls
  BY DEF Roles!Goes, RolesFit, CallsFit, ReadingFits
<1>2. s5' \in [Calls -> RoleCalls] /\ s5'[c] = call /\ \A d \in Calls : d # c => s5'[d] = s5[d]
  BY <1>1
<1> QED BY <1>2 DEF RolesFit, CallsFit

\* The ids of a call.
LEMMA RoleHasIds ==
  ASSUME NEW c, NEW call \in RoleCalls, NEW ids \in SUBSET Roles!Roles,
         call.base = <<>>, \A a \in Accounts : call.shown[a] = 0, NEW members
  PROVE  ReadingFits(Roles!HasIds(c, call, ids), members)
<1> DEFINE pc == IF c \in Readers /\ ids # {} THEN "count" ELSE "done"
           has == [call EXCEPT !.ids = ids, !.pc = pc]
<1>0. pc \in {"count", "done"}
  OBVIOUS
<1> HIDE DEF pc
<1>1. /\ has \in RoleCalls /\ has.pc = pc
      /\ has.base = <<>> /\ has.shown = call.shown /\ has.steady = call.steady
  BY <1>0 DEF RoleCalls
<1> HIDE DEF has
<1>2. ReadingFits(has, members)
  BY <1>0, <1>1 DEF ReadingFits, ReadOf
<1>3. Roles!HasIds(c, call, ids) = has
  BY DEF Roles!HasIds, has, pc
<1> QED BY <1>0, <1>1, <1>2, <1>3

\* An attempt, with what it found.
LEMMA RoleAttempt ==
  ASSUME RolesFit, NEW call \in RoleCalls, NEW discovered \in Roles!MaybeIds
  PROVE  ContextFits(Roles!Attempted(call, discovered))
<1>1. s1 \in RoleContexts /\ s1.known \in Roles!MaybeIds
  BY DEF RolesFit, ContextFits, RoleContexts
<1> DEFINE d == IF discovered.given THEN discovered ELSE s1.discovered
           after == [s1 EXCEPT !.attempted = TRUE, !.discovered = d]
<1>2. d \in Roles!MaybeIds
  BY <1>1 DEF RoleContexts, Roles!MaybeIds
<1>5. Roles!Attempted(call, discovered) = IF call.nr # s1.nr THEN s1 ELSE after
  BY DEF Roles!Attempted
<1> HIDE DEF d
<1>6. after \in RoleContexts /\ after.known = s1.known /\ after.offered = s1.offered
  BY <1>1, <1>2 DEF RoleContexts
<1> HIDE DEF after
<1>7. ContextFits(after)
  BY <1>6 DEF RolesFit, ContextFits, Roles!MaybeIds
<1> QED BY <1>5, <1>7 DEF RolesFit

\* The application's own steps.
LEMMA RolesGiven ==
  ASSUME RolesFit,
         \/ \E ids \in SUBSET KnownIds : Roles!registerContract(Roles!Given(ids)) \/ Roles!addKnownRoleIds(ids)
         \/ Roles!registerContract(Roles!Undefined)
         \/ Roles!ChangeSettings
  PROVE  RolesFit'
<1>1. ASSUME NEW ids \in Roles!MaybeIds, Roles!registerContract(ids), ids.ids \subseteq KnownIds,
             ~ids.given => ids.ids = {}
      PROVE  RolesFit'
  <2>1. s1.nr + 1 \in Nat
    BY DEF RolesFit, ContextFits, RoleContexts
  <2>2. /\ s1' = [nr |-> s1.nr + 1, known |-> ids, discovered |-> Roles!Undefined,
                  attempted |-> FALSE, offered |-> ids.ids]
        /\ UNCHANGED <<s2, s3, s4, s5>>
    BY <1>1 DEF Roles!registerContract
  <2>3. ContextFits(s1')
    BY <1>1, <2>1, <2>2 DEF ContextFits, RoleContexts, Roles!Undefined, Roles!MaybeIds
  <2> QED BY <2>2, <2>3 DEF RolesFit
<1>2. ASSUME NEW ids \in SUBSET KnownIds, Roles!addKnownRoleIds(ids) PROVE RolesFit'
  <2> DEFINE known == Roles!Given(Roles!Existing \cup ids)
             offered == s1.offered \cup ids
  <2>0. s1 \in RoleContexts /\ s1.known \in Roles!MaybeIds /\ s1.discovered \in Roles!MaybeIds
    BY DEF RolesFit, ContextFits, RoleContexts
  <2>1. known \in Roles!MaybeIds /\ known.given /\ known.ids = Roles!Existing \cup ids
    BY <2>0 DEF Roles!MaybeIds, Roles!Given, Roles!Existing, Roles!Roles
  <2>2. offered \in SUBSET KnownIds
    BY <2>0 DEF RoleContexts
  <2>3. s1' = [s1 EXCEPT !.known = known, !.offered = offered] /\ UNCHANGED <<s2, s3, s4, s5>>
    BY <1>2 DEF Roles!addKnownRoleIds
  <2>4. offered \subseteq known.ids
    BY <2>1 DEF RolesFit, ContextFits, Roles!Existing
  <2> HIDE DEF known, offered
  <2>6. ContextFits(s1')
    BY <2>0, <2>1, <2>2, <2>3, <2>4 DEF ContextFits, RoleContexts
  <2> QED BY <2>3, <2>6 DEF RolesFit
<1>3. CASE Roles!ChangeSettings
  BY <1>3 DEF Roles!ChangeSettings, RolesFit
<1>4. ASSUME NEW ids \in SUBSET KnownIds
      PROVE  /\ Roles!Given(ids) \in Roles!MaybeIds /\ Roles!Given(ids).ids = ids /\ Roles!Given(ids).given
             /\ Roles!Undefined \in Roles!MaybeIds /\ Roles!Undefined.ids = {}
  BY DEF Roles!MaybeIds, Roles!Given, Roles!Undefined, Roles!Roles
<1>5. ASSUME NEW ids \in SUBSET KnownIds, Roles!registerContract(Roles!Given(ids)) PROVE RolesFit'
  BY <1>1, <1>4, <1>5
<1>6. CASE Roles!registerContract(Roles!Undefined)
  <2>1. Roles!Undefined \in Roles!MaybeIds /\ Roles!Undefined.ids = {}
    BY <1>4
  <2> QED BY <1>1, <1>6, <2>1
<1> QED BY <1>2, <1>3, <1>5, <1>6

\* A call that waits for the indexer.
LEMMA RoleWaits ==
  ASSUME NEW call \in RoleCalls, call.pc \in {"check", "asked", "query"}, call.base = <<>>,
         \A a \in Accounts : call.shown[a] = 0, NEW members
  PROVE  ReadingFits(call, members)
BY DEF ReadingFits

\* The calls' own steps, up to the members.
LEMMA RoleIdsFound ==
  ASSUME RolesFit, NEW c \in Calls,
         Roles!Begin(c) \/ Roles!CheckAvailability(c) \/ Roles!AvailabilityAnswered(c) \/ Roles!Discover(c)
  PROVE  RolesFit'
<1>t. /\ s1 \in RoleContexts /\ s1.nr \in Nat /\ s1.known \in Roles!MaybeIds /\ s1.discovered \in Roles!MaybeIds
      /\ s1.offered \subseteq s1.known.ids /\ s1.offered \subseteq KnownIds
      /\ s5 \in [Calls -> RoleCalls]
      /\ ReadingFits(s5[c], s3) /\ s5[c] \in RoleCalls /\ UNCHANGED <<s3, s4>>
      /\ Roles!Undefined \in Roles!MaybeIds
  BY DEF RolesFit, ContextFits, RoleContexts, CallsFit, Roles!Undefined, Roles!MaybeIds,
         Roles!Begin, Roles!CheckAvailability, Roles!AvailabilityAnswered, Roles!Discover
<1>1. CASE Roles!Begin(c)
  <2> DEFINE call == [Roles!NoCall EXCEPT !.nr = s1.nr]
  <2>1. /\ call \in RoleCalls /\ call.base = <<>>
        /\ (\A a \in Accounts : call.shown[a] = 0)
    <3>1. Roles!NoCall \in RoleCalls /\ Roles!NoCall.base = <<>> /\ \A a \in Accounts : Roles!NoCall.shown[a] = 0
      BY DEF Roles!NoCall, RoleCalls
    <3> QED BY <1>t, <3>1 DEF RoleCalls
  <2>2. UNCHANGED <<s1, s2>>
    BY <1>1 DEF Roles!Begin
  <2>3. Roles!Goes(c, IF s1.known.ids # {} THEN Roles!HasIds(c, call, s1.known.ids)
                    ELSE IF s1.discovered.given THEN Roles!HasIds(c, call, s1.discovered.ids)
                    ELSE IF s1.attempted THEN Roles!HasIds(c, call, {})
                    ELSE [call EXCEPT !.pc = "check"])
    BY <1>1 DEF Roles!Begin
  <2> HIDE DEF call
  <2>4. PICK next : ReadingFits(next, s3) /\ Roles!Goes(c, next)
    <3>1. CASE s1.known.ids # {}
      <4>1. s1.known.ids \in SUBSET Roles!Roles
        BY <1>t DEF Roles!MaybeIds
      <4> QED BY <1>t, <2>1, <2>3, <3>1, <4>1, RoleHasIds
    <3>2. CASE s1.known.ids = {}
      <4>1. {} \in SUBSET Roles!Roles /\ s1.discovered.ids \in SUBSET Roles!Roles
        BY <1>t, <2>1, <3>2 DEF Roles!MaybeIds
      <4>2. CASE s1.discovered.given
        BY <2>1, <2>3, <3>2, <4>1, <4>2, RoleHasIds
      <4>3. CASE ~s1.discovered.given /\ s1.attempted
        BY <2>1, <2>3, <3>2, <4>1, <4>3, RoleHasIds
      <4>4. CASE ~s1.discovered.given /\ ~s1.attempted
        <5> DEFINE next == [call EXCEPT !.pc = "check"]
        <5>1. /\ next \in RoleCalls /\ next.pc = "check" /\ next.base = <<>>
              /\ \A a \in Accounts : next.shown[a] = 0
          BY <2>1, <4>1 DEF RoleCalls
        <5>2. ReadingFits(next, s3) /\ next.pc = "check"
          <6> HIDE DEF next
          <6> QED BY <5>1, RoleWaits
        <5>3. Roles!Goes(c, next)
          BY <2>3, <3>2, <4>4
        <5> HIDE DEF next
        <5> QED BY <5>2, <5>3
      <4> QED BY <4>2, <4>3, <4>4
    <3> QED BY <3>1, <3>2
  <2>5. CallsFit(s5', s3)
    BY <2>4, RoleGoes
  <2> QED BY <1>t, <2>2, <2>5 DEF RolesFit
<1>s. ASSUME s5[c].pc \in {"check", "asked", "query"}
      PROVE  s5[c].base = <<>> /\ \A a \in Accounts : s5[c].shown[a] = 0
  BY <1>t, <1>s DEF ReadingFits, RoleCalls
<1>q. ASSUME s5[c].pc \in {"check", "asked"}
      PROVE  LET next == [s5[c] EXCEPT !.pc = "query"] IN ReadingFits(next, s3)
  <2> DEFINE next == [s5[c] EXCEPT !.pc = "query"]
  <2>1. /\ next \in RoleCalls /\ next.pc = "query" /\ next.base = <<>>
        /\ \A a \in Accounts : next.shown[a] = 0
    BY <1>t, <1>s, <1>q DEF RoleCalls
  <2> HIDE DEF next
  <2>2. ReadingFits(next, s3) /\ next.pc = "query"
    BY <2>1, RoleWaits
  <2> QED BY <2>2 DEF next
<1>n. ASSUME s5[c].pc \in {"check", "asked", "query"}, NEW ids \in SUBSET Roles!Roles
      PROVE  ReadingFits(Roles!HasIds(c, s5[c], ids), s3)
  BY <1>t, <1>s, <1>n, RoleHasIds
<1>a. ASSUME NEW next, ReadingFits(next, s3), Roles!Goes(c, next)
      PROVE  CallsFit(s5', s3)
  BY <1>a, RoleGoes
<1>v. ASSUME s5[c].pc \in {"check", "asked", "query"}, Roles!NotAvailable(c)
      PROVE  CallsFit(s5', s3) /\ ContextFits(s1')
  <2>1. Roles!Goes(c, Roles!HasIds(c, s5[c], {})) /\ s1' = Roles!Attempted(s5[c], Roles!Undefined)
    BY <1>v DEF Roles!NotAvailable
  <2>2. ContextFits(s1')
    BY <1>t, <2>1, RoleAttempt
  <2>3. ReadingFits(Roles!HasIds(c, s5[c], {}), s3)
    BY <1>n, <1>v
  <2> QED BY <1>a, <1>v, <2>1, <2>2, <2>3
<1>2. CASE Roles!CheckAvailability(c)
  <2>0. s5[c].pc = "check"
    BY <1>2 DEF Roles!CheckAvailability
  <2>1. CASE s2.checked
    <3>1. CASE s2.available
      <4>1. Roles!Goes(c, [s5[c] EXCEPT !.pc = "query"]) /\ UNCHANGED <<s1, s2>>
        BY <1>2, <2>1, <3>1 DEF Roles!CheckAvailability
      <4>2. CallsFit(s5', s3)
        BY <1>a, <1>q, <2>0, <4>1
      <4> QED BY <1>t, <4>1, <4>2 DEF RolesFit
    <3>2. CASE ~s2.available
      <4>1. Roles!NotAvailable(c) /\ UNCHANGED s2
        BY <1>2, <2>1, <3>2 DEF Roles!CheckAvailability
      <4>2. CallsFit(s5', s3) /\ ContextFits(s1')
        BY <1>v, <2>0, <4>1
      <4> QED BY <1>t, <4>1, <4>2 DEF RolesFit
    <3> QED BY <3>1, <3>2
  <2>2. CASE ~s2.checked /\ ~s2.endpoint
    <3>1. Roles!NotAvailable(c)
      BY <1>2, <2>2 DEF Roles!CheckAvailability
    <3> QED BY <1>t, <1>v, <2>0, <3>1 DEF RolesFit
  <2>3. CASE ~s2.checked /\ s2.endpoint
    <3> DEFINE next == [s5[c] EXCEPT !.pc = "asked"]
    <3>1. Roles!Goes(c, next) /\ UNCHANGED <<s1, s2>>
      BY <1>2, <2>3 DEF Roles!CheckAvailability
    <3>2. /\ next \in RoleCalls /\ next.pc = "asked" /\ next.base = <<>>
          /\ (\A a \in Accounts : next.shown[a] = 0)
      BY <1>t, <1>s, <2>0 DEF RoleCalls
    <3> HIDE DEF next
    <3>4. ReadingFits(next, s3)
      BY <3>2, RoleWaits
    <3>3. CallsFit(s5', s3)
      BY <3>1, <3>2, <3>4, RoleGoes
    <3> QED BY <1>t, <3>1, <3>3 DEF RolesFit
  <2> QED BY <2>1, <2>2, <2>3
<1>3. CASE Roles!AvailabilityAnswered(c)
  <2>1. \/ Roles!Goes(c, [s5[c] EXCEPT !.pc = "query"]) /\ UNCHANGED s1
        \/ Roles!NotAvailable(c)
    BY <1>3 DEF Roles!AvailabilityAnswered
  <2>2. s5[c].pc = "asked"
    BY <1>3 DEF Roles!AvailabilityAnswered
  <2>3. CASE Roles!Goes(c, [s5[c] EXCEPT !.pc = "query"]) /\ UNCHANGED s1
    <3>1. CallsFit(s5', s3)
      BY <1>a, <1>q, <2>2, <2>3
    <3> QED BY <1>t, <2>3, <3>1 DEF RolesFit
  <2>4. CASE Roles!NotAvailable(c)
    BY <1>t, <1>v, <2>2, <2>4 DEF RolesFit
  <2> QED BY <2>1, <2>3, <2>4
<1>4. CASE Roles!Discover(c)
  <2>0. s5[c].pc = "query" /\ UNCHANGED s2
    BY <1>4 DEF Roles!Discover
  <2>1. CASE Roles!NotAvailable(c)
    <3>1. CallsFit(s5', s3) /\ ContextFits(s1')
      BY <1>v, <2>0, <2>1
    <3> QED BY <1>t, <2>0, <3>1 DEF RolesFit
  <2>2. ASSUME NEW ids \in SUBSET Emitted, Roles!Goes(c, Roles!HasIds(c, s5[c], ids)),
               s1' = Roles!Attempted(s5[c], Roles!Given(ids))
        PROVE  RolesFit'
    <3>1. ids \in SUBSET Roles!Roles /\ Roles!Given(ids) \in Roles!MaybeIds
      BY DEF Roles!Roles, Roles!Given, Roles!MaybeIds
    <3>2. ContextFits(s1')
      BY <1>t, <2>2, <3>1, RoleAttempt
    <3>3. CallsFit(s5', s3)
      BY <1>a, <1>n, <2>0, <2>2, <3>1
    <3> QED BY <1>t, <2>0, <3>2, <3>3 DEF RolesFit
  <2> QED BY <1>4, <2>1, <2>2 DEF Roles!Discover, Roles!StoreDiscovered
<1> QED BY <1>1, <1>2, <1>3, <1>4

\* The members of a role that are read.
LEMMA RoleMembersRead ==
  ASSUME RolesFit, NEW c \in Calls,
         Roles!Count(c) \/ Roles!AllRead(c) \/ \E i \in s5[c].todo : Roles!ReadMember(c, i)
  PROVE  RolesFit'
<1>t. /\ ReadingFits(s5[c], s3) /\ s5[c] \in RoleCalls /\ UNCHANGED <<s1, s2, s3, s4>>
      /\ s3 \in Seq(Accounts) /\ Distinct(s3)
      /\ s5[c].base \in Seq(Accounts) /\ Len(s5[c].base) \in Nat /\ s5[c].todo \subseteq Nat
      /\ s5[c].shown \in [Accounts -> Nat]
  <2>1. UNCHANGED <<s1, s2, s3, s4>>
    BY DEF Roles!Count, Roles!AllRead, Roles!ReadMember
  <2>2. ReadingFits(s5[c], s3) /\ s5[c] \in RoleCalls /\ s3 \in Seq(Accounts) /\ Distinct(s3)
    BY DEF RolesFit, CallsFit, MembersFit
  <2>3. /\ s5[c].base \in Seq(Accounts) /\ s5[c].todo \subseteq Nat /\ s5[c].shown \in [Accounts -> Nat]
    BY <2>2 DEF RoleCalls
  <2> QED BY <2>1, <2>2, <2>3
<1>a. ASSUME NEW next, ReadingFits(next, s3), Roles!Goes(c, next) PROVE RolesFit'
  <2>1. CallsFit(s5', s3)
    BY <1>a, RoleGoes
  <2> QED BY <1>t, <2>1 DEF RolesFit
<1>1. CASE Roles!Count(c)
  <2> DEFINE todo == 1 .. Len(s3)
             counted == [s5[c] EXCEPT !.pc = "reading", !.base = s3, !.todo = todo]
             failed == [s5[c] EXCEPT !.pc = "done", !.steady = FALSE]
  <2>1. Roles!Goes(c, counted) \/ Roles!Goes(c, failed)
    BY <1>1 DEF Roles!Count, Roles!Indices
  <2>2. ReadingFits(counted, s3)
    <3>0. /\ todo \in SUBSET Nat /\ Len(s3) \in Nat /\ (\A i \in 1 .. Len(s3) : i \in todo)
          /\ todo \subseteq 1 .. Len(s3)
      BY <1>t
    <3> HIDE DEF todo
    <3>1. /\ counted \in RoleCalls /\ counted.pc = "reading" /\ counted.base = s3 /\ counted.todo = todo
          /\ counted.shown = s5[c].shown
      BY <1>t, <3>0 DEF RoleCalls
    <3>2. \A a \in Accounts : s5[c].shown[a] = 0
      BY <1>t, <1>1 DEF Roles!Count, ReadingFits
    <3> HIDE DEF counted
    <3> QED BY <1>t, <3>0, <3>1, <3>2 DEF ReadingFits, ReadOf
  <2>3. ReadingFits(failed, s3)
    <3>1. failed \in RoleCalls /\ failed.pc = "done" /\ ~failed.steady
      BY <1>t DEF RoleCalls
    <3> HIDE DEF failed
    <3> QED BY <3>1 DEF ReadingFits
  <2> HIDE DEF counted, failed
  <2> QED BY <1>a, <2>1, <2>2, <2>3
<1>2. CASE Roles!AllRead(c)
  <2> DEFINE next == [s5[c] EXCEPT !.pc = "done"]
  <2>1. s5[c].pc = "reading" /\ s5[c].todo = {} /\ Roles!Goes(c, next)
    BY <1>2 DEF Roles!AllRead
  <2>2. /\ next \in RoleCalls /\ next.pc = "done" /\ next.base = s5[c].base /\ next.steady = s5[c].steady
        /\ next.shown = s5[c].shown
    BY <1>t DEF RoleCalls
  <2> HIDE DEF next
  <2>3. ReadingFits(next, s3)
    BY <1>t, <2>1, <2>2 DEF ReadingFits
  <2> QED BY <1>a, <2>1, <2>2, <2>3
<1>3. ASSUME NEW i \in s5[c].todo, Roles!ReadMember(c, i) PROVE RolesFit'
  <2> DEFINE rest == [s5[c] EXCEPT !.todo = @ \ {i}]
             shown == [s5[c].shown EXCEPT ![s3[i]] = s5[c].shown[s3[i]] + 1]
             read == [s5[c] EXCEPT !.todo = s5[c].todo \ {i}, !.shown = shown]
             failed == [s5[c] EXCEPT !.todo = s5[c].todo \ {i}, !.steady = FALSE]
  <2>0. s5[c].pc = "reading" /\ i \in Nat
    BY <1>t, <1>3 DEF Roles!ReadMember, ReadingFits
  <2>1. \/ i \in 1 .. Len(s3) /\ Roles!Goes(c, [rest EXCEPT !.shown[s3[i]] = @ + 1])
        \/ Roles!Goes(c, [rest EXCEPT !.steady = FALSE])
    <3>1. DOMAIN s3 = 1 .. Len(s3)
      BY <1>t
    <3>2. \/ i \in DOMAIN s3 /\ Roles!Goes(c, [rest EXCEPT !.shown[s3[i]] = @ + 1])
          \/ Roles!Goes(c, [rest EXCEPT !.steady = FALSE])
      BY <1>3, Zenon DEF Roles!ReadMember
    <3> HIDE DEF rest
    <3> QED BY <3>1, <3>2
  <2>2. CASE i \in 1 .. Len(s3) /\ Roles!Goes(c, [rest EXCEPT !.shown[s3[i]] = @ + 1])
    <3>0. [rest EXCEPT !.shown[s3[i]] = @ + 1] = read
      BY <1>t DEF RoleCalls
    <3>1. s3[i] \in Accounts /\ s5[c].shown[s3[i]] + 1 \in Nat
      BY <1>t, <2>2
    <3>2. /\ shown \in [Accounts -> Nat] /\ shown[s3[i]] = s5[c].shown[s3[i]] + 1
          /\ \A a \in Accounts : a # s3[i] => shown[a] = s5[c].shown[a]
      BY <1>t, <3>1
    <3> HIDE DEF shown
    <3>3. /\ read \in RoleCalls /\ read.pc = "reading" /\ read.base = s5[c].base /\ read.steady = s5[c].steady
          /\ read.shown = shown /\ read.todo = s5[c].todo \ {i}
      BY <1>t, <2>0, <3>2 DEF RoleCalls
    <3> HIDE DEF read
    <3>4. ASSUME s5[c].steady
          PROVE  \A a \in Accounts : shown[a] = ReadOf(s5[c].base, s5[c].todo \ {i}, a)
      <4>1. /\ Len(s5[c].base) <= Len(s3) /\ \A k \in 1 .. Len(s5[c].base) : s5[c].base[k] = s3[k]
            /\ \A a \in Accounts : s5[c].shown[a] = ReadOf(s5[c].base, s5[c].todo, a)
            /\ Distinct(s5[c].base)
        BY <1>t, <2>0, <3>4 DEF ReadingFits
      <4>2. i \in 1 .. Len(s5[c].base) /\ s5[c].base[i] = s3[i]
        BY <1>t, <2>0, <3>4, <4>1 DEF ReadingFits
      <4>3. ASSUME NEW a \in Accounts, a = s3[i] PROVE shown[a] = ReadOf(s5[c].base, s5[c].todo \ {i}, a)
        <5>1. s5[c].shown[a] = 0
          BY <4>1, <4>2, <4>3 DEF ReadOf, Distinct
        <5>2. \E k \in 1 .. Len(s5[c].base) : k \notin s5[c].todo \ {i} /\ s5[c].base[k] = a
          BY <4>2, <4>3
        <5> QED BY <3>2, <4>3, <5>1, <5>2 DEF ReadOf
      <4>4. ASSUME NEW a \in Accounts, a # s3[i] PROVE shown[a] = ReadOf(s5[c].base, s5[c].todo \ {i}, a)
        BY <3>2, <4>1, <4>2, <4>4 DEF ReadOf
      <4> QED BY <4>3, <4>4
    <3>5. ReadingFits(read, s3)
      BY <1>t, <2>0, <3>3, <3>4 DEF ReadingFits
    <3> QED BY <1>a, <2>0, <2>2, <3>0, <3>3, <3>5
  <2>3. CASE Roles!Goes(c, [rest EXCEPT !.steady = FALSE])
    <3>0. [rest EXCEPT !.steady = FALSE] = failed
      BY <1>t DEF RoleCalls
    <3>1. failed \in RoleCalls /\ failed.pc = "reading" /\ ~failed.steady
      BY <1>t, <2>0 DEF RoleCalls
    <3> HIDE DEF failed, rest
    <3>2. ReadingFits(failed, s3)
      BY <2>0, <3>1 DEF ReadingFits
    <3> QED BY <1>a, <2>3, <3>0, <3>1, <3>2
  <2> QED BY <2>1, <2>2, <2>3
<1> QED BY <1>1, <1>2, <1>3

\* The chain: a grant is one more, and a revocation ends what calls can say of all members.
LEMMA RoleMembersChange ==
  ASSUME RolesFit,
         (\E account \in Accounts : Roles!Grant(account)) \/ \E i \in DOMAIN s3 : Roles!Revoke(i)
  PROVE  RolesFit'
<1>t. /\ UNCHANGED <<s1, s2>> /\ s3 \in Seq(Accounts) /\ Distinct(s3) /\ Len(s3) \in Nat
      /\ DOMAIN s3 = 1 .. Len(s3) /\ s5 \in [Calls -> RoleCalls]
      /\ \A c \in Calls : ReadingFits(s5[c], s3) /\ s5[c] \in RoleCalls
  <2>1. UNCHANGED <<s1, s2>>
    BY DEF Roles!Grant, Roles!Revoke
  <2>2. s3 \in Seq(Accounts) /\ Distinct(s3) /\ s5 \in [Calls -> RoleCalls] /\ \A c \in Calls : ReadingFits(s5[c], s3)
    BY DEF RolesFit, CallsFit, MembersFit
  <2> QED BY <2>1, <2>2
<1>1. ASSUME NEW account \in Accounts, Roles!Grant(account) PROVE RolesFit'
  <2>1. s3' = Append(s3, account) /\ s5' = s5 /\ \A i \in 1 .. Len(s3) : s3[i] # account
    BY <1>t, <1>1 DEF Roles!Grant, Roles!Range
  <2>2. /\ s3' \in Seq(Accounts) /\ Len(s3') = Len(s3) + 1 /\ s3'[Len(s3) + 1] = account
        /\ \A i \in 1 .. Len(s3) : s3'[i] = s3[i]
    BY <1>t, <2>1
  <2>3. Distinct(s3')
    BY <1>t, <2>1, <2>2 DEF Distinct
  <2>4. ASSUME NEW c \in Calls PROVE ReadingFits(s5[c], s3')
    <3>1. CASE s5[c].pc = "reading" /\ s5[c].steady
      <4>1. s5[c].base \in Seq(Accounts) /\ Len(s5[c].base) \in Nat /\ Len(s5[c].base) <= Len(s3)
        BY <1>t, <3>1 DEF ReadingFits, RoleCalls
      <4> QED BY <1>t, <2>2, <3>1, <4>1 DEF ReadingFits
    <3>2. CASE ~(s5[c].pc = "reading" /\ s5[c].steady)
      BY <1>t, <3>2 DEF ReadingFits
    <3> QED BY <3>1, <3>2
  <2>5. CallsFit(s5', s3')
    BY <1>t, <2>1, <2>4 DEF CallsFit
  <2> QED BY <1>t, <2>1, <2>2, <2>3, <2>5 DEF RolesFit, MembersFit
<1>2. ASSUME NEW i \in DOMAIN s3, Roles!Revoke(i) PROVE RolesFit'
  <2> DEFINE n == Len(s3)
             moved == [s3 EXCEPT ![i] = s3[n]]
  <2>1. s3' = SubSeq(moved, 1, n - 1)
    BY <1>2 DEF Roles!Revoke
  <2>2. moved \in Seq(Accounts) /\ Len(moved) = n /\ \A k \in 1 .. n : moved[k] = IF k = i THEN s3[n] ELSE s3[k]
    BY <1>t
  <2> HIDE DEF moved
  <2>3. n - 1 \in Nat /\ i \in 1 .. n /\ n \in Nat
    BY <1>t
  <2>4. s3' \in Seq(Accounts) /\ Len(s3') = n - 1 /\ \A k \in 1 .. n - 1 : s3'[k] = moved[k]
    BY <2>1, <2>2, <2>3
  <2>5. Distinct(s3')
    <3> SUFFICES ASSUME NEW k \in 1 .. n - 1, NEW l \in 1 .. n - 1, k # l PROVE s3'[k] # s3'[l]
      BY <2>4 DEF Distinct
    <3>1. k \in 1 .. n /\ l \in 1 .. n /\ k # n /\ l # n /\ n \in 1 .. n
      BY <2>3
    <3>2. /\ s3'[k] = IF k = i THEN s3[n] ELSE s3[k]
          /\ s3'[l] = IF l = i THEN s3[n] ELSE s3[l]
      BY <2>2, <2>4, <3>1
    <3>3. \A p, q \in 1 .. n : p # q => s3[p] # s3[q]
      BY <1>t DEF Distinct
    <3> HIDE DEF n
    <3> QED BY <3>1, <3>2, <3>3
  <2> DEFINE v(c) == IF s5[c].pc = "reading" THEN [s5[c] EXCEPT !.steady = FALSE] ELSE s5[c]
  <2>6. s5' = [c \in Calls |-> v(c)]
    BY <1>2 DEF Roles!Revoke
  <2>7. ASSUME NEW c \in Calls
        PROVE  ReadingFits(v(c), s3') /\ v(c) \in RoleCalls
    <3>1. CASE s5[c].pc = "reading"
      <4>1. v(c) \in RoleCalls /\ v(c).pc = "reading" /\ ~v(c).steady
        BY <1>t, <3>1 DEF RoleCalls
      <4> HIDE DEF v
      <4> QED BY <3>1, <4>1 DEF ReadingFits
    <3>2. CASE s5[c].pc # "reading"
      BY <1>t, <3>2 DEF ReadingFits
    <3> QED BY <3>1, <3>2
  <2> HIDE DEF v
  <2>8. s5' \in [Calls -> RoleCalls] /\ \A c \in Calls : s5'[c] = v(c)
    BY <2>6, <2>7
  <2>9. CallsFit(s5', s3')
    BY <2>7, <2>8 DEF CallsFit
  <2> QED BY <1>t, <2>4, <2>5, <2>9 DEF RolesFit, MembersFit
<1> QED BY <1>1, <1>2

LEMMA RolesNext == ASSUME RolesFit, [Roles!Next]_(Roles!vars) PROVE RolesFit'
<1>1. CASE Roles!Next
  BY <1>1, RolesGiven, RoleIdsFound, RoleMembersRead, RoleMembersChange DEF Roles!Next
<1>2. CASE UNCHANGED Roles!vars
  BY <1>2 DEF Roles!vars, RolesFit
<1> QED BY <1>1, <1>2

LEMMA RolesKeep ==
  ASSUME RolesFit
  PROVE  Roles!GivenIdsKept /\ Roles!SteadyMembersShown
<1>2. Roles!GivenIdsKept
  BY DEF RolesFit, ContextFits, Roles!GivenIdsKept
<1>3. Roles!SteadyMembersShown
  <2> SUFFICES ASSUME NEW c \in Calls, s5[c].pc = "done", s5[c].steady, NEW a \in Accounts
               PROVE  s5[c].shown[a] = IF a \in Roles!Range(s5[c].base) THEN 1 ELSE 0
    BY DEF Roles!SteadyMembersShown
  <2>1. s5[c].shown[a] = ReadOf(s5[c].base, {}, a) /\ s5[c].base \in Seq(Accounts)
    BY DEF RolesFit, CallsFit, ReadingFits, RoleCalls
  <2>2. DOMAIN s5[c].base = 1 .. Len(s5[c].base)
    BY <2>1
  <2> QED BY <2>1, <2>2 DEF ReadOf, Roles!Range
<1> QED BY <1>2, <1>3

--------------------
(* The grants of Stellar roles: s1 is log, s2 indexed, s3 call. *)

Grants == INSTANCE StellarGrants
            WITH RoleSets <- {KnownIds, KnownIds \cup Emitted}, MaxEvents <- MaxEvents + 2, PageLimit <- 2,
                 log <- s1, indexed <- s2, call <- s3

GrantEvents == [granted : BOOLEAN, role : KnownIds \cup Emitted, account : Accounts, ledger : Nat]
GrantsShown == UNION {[members -> Nat] : members \in SUBSET Accounts}
GrantRows == [pc : {"none", "read", "shown"}, members : SUBSET Accounts, grant : GrantsShown,
              had : Nat, failed : BOOLEAN]

\* What GrantIsLatest says of one member of a role.
GrantTold(log, r, a, had, shown, failed) ==
  LET grants == {i \in 1 .. had : log[i].granted /\ log[i].role = r /\ log[i].account = a}
  IN  /\ shown # Grants!NotShown =>
            /\ shown \in grants
            /\ \A i \in grants : log[i].ledger <= log[shown].ledger
      /\ shown = Grants!NotShown /\ grants # {} =>
            \/ failed
            \/ \E full \in SUBSET (1 .. had) :
                  /\ Grants!Cardinality(full) = 2
                  /\ \A i \in full : log[i].granted /\ log[i].role = r /\ log[i].account # a

\* A row that is shown says what the log had when its query was answered, which is a
\* beginning of the log now.
RowFits(log, r, row) ==
  /\ row \in GrantRows
  /\ row.had <= Len(log)
  /\ row.pc = "shown" =>
       \A a \in row.members : GrantTold(log, r, a, row.had, row.grant[a], row.failed)

EnrichedFits(log, call, roles) ==
  /\ call \in [pc : {"idle", "reading", "asking", "done"}, ids : SUBSET roles, rows : [roles -> GrantRows]]
  /\ \A r \in roles : RowFits(log, r, call.rows[r])
  /\ call.pc = "done" => \A r \in call.ids : call.rows[r].pc = "shown"

GrantsFit ==
  /\ s1 \in Seq(GrantEvents)
  /\ s2 \in Nat /\ s2 <= Len(s1)
  /\ \E roles \in SUBSET (KnownIds \cup Emitted) : EnrichedFits(s1, s3, roles)

\* What was told stays true while the log grows.
LEMMA ToldStays ==
  ASSUME NEW log, NEW next, NEW r, NEW a, NEW had \in Nat, NEW shown, NEW failed,
         \A i \in 1 .. had : next[i] = log[i],
         GrantTold(log, r, a, had, shown, failed)
  PROVE  GrantTold(next, r, a, had, shown, failed)
<1> DEFINE In(l) == {i \in 1 .. had : l[i].granted /\ l[i].role = r /\ l[i].account = a}
<1>1. In(next) = In(log)
  OBVIOUS
<1>2. ASSUME shown # Grants!NotShown
      PROVE  shown \in In(next) /\ \A i \in In(next) : next[i].ledger <= next[shown].ledger
  <2>1. shown \in In(log) /\ \A i \in In(log) : log[i].ledger <= log[shown].ledger
    BY <1>2 DEF GrantTold
  <2> QED BY <2>1, <1>1
<1>3. ASSUME shown = Grants!NotShown, In(next) # {}, ~failed
      PROVE  \E full \in SUBSET (1 .. had) :
               /\ Grants!Cardinality(full) = 2
               /\ \A i \in full : next[i].granted /\ next[i].role = r /\ next[i].account # a
  <2>1. PICK full \in SUBSET (1 .. had) :
               /\ Grants!Cardinality(full) = 2
               /\ \A i \in full : log[i].granted /\ log[i].role = r /\ log[i].account # a
    BY <1>3, <1>1 DEF GrantTold
  <2>2. \A i \in full : next[i].granted /\ next[i].role = r /\ next[i].account # a
    BY <2>1
  <2> QED BY <2>1, <2>2
<1> QED BY <1>2, <1>3 DEF GrantTold

LEMMA RowStays ==
  ASSUME NEW log \in Seq(GrantEvents), NEW e \in GrantEvents, NEW r, NEW row, RowFits(log, r, row)
  PROVE  RowFits(Append(log, e), r, row)
<1>1. row \in GrantRows /\ row.had \in Nat /\ row.had <= Len(log)
  BY DEF RowFits, GrantRows
<1>2. \A i \in 1 .. row.had : Append(log, e)[i] = log[i]
  BY <1>1
<1>3. row.had <= Len(Append(log, e))
  BY <1>1
<1>4. ASSUME row.pc = "shown", NEW a \in row.members
      PROVE  GrantTold(Append(log, e), r, a, row.had, row.grant[a], row.failed)
  <2>1. GrantTold(log, r, a, row.had, row.grant[a], row.failed)
    BY <1>4 DEF RowFits
  <2> QED BY <2>1, <1>1, <1>2, ToldStays
<1> QED BY <1>1, <1>3, <1>4 DEF RowFits

\* A set is listed by the sequences that have each of its elements once.
LEMMA SetIsListed ==
  ASSUME NEW S, IsFiniteSet(S), NEW s \in Grants!SetToSeqs(S)
  PROVE  /\ s \in Seq(S) /\ Len(s) = Cardinality(S)
         /\ \A i, j \in 1 .. Len(s) : i # j => s[i] # s[j]
         /\ \A x \in S : \E k \in 1 .. Len(s) : s[k] = x
<1> DEFINE n == Cardinality(S)
<1>1. n \in Nat /\ IsFiniteSet(1 .. n) /\ Cardinality(1 .. n) = n
  <2>1. n \in Nat
    BY FS_CardinalityType
  <2>2. n \in Int /\ 1 \in Int
    BY <2>1
  <2> QED BY <2>1, <2>2, FS_Interval
<1>2. Grants!Cardinality(S) = n
  BY DEF Grants!Cardinality, Cardinality
<1>3. s \in [1 .. n -> S] /\ \A i, j \in 1 .. n : i # j => s[i] # s[j]
  BY <1>2 DEF Grants!SetToSeqs
<1> HIDE DEF n
<1>4. s \in Seq(S) /\ Len(s) = n
  BY <1>1, <1>3
<1>5. s \in Injection(1 .. n, S)
  BY <1>3 DEF Injection, IsInjective
<1>6. s \in Surjection(1 .. n, S)
  BY <1>5, <1>1, FS_Injection DEF n
<1> QED BY <1>3, <1>4, <1>6 DEF Surjection, n

\* Two things are two.
LEMMA PairHasTwo == ASSUME NEW x, NEW y, x # y PROVE Cardinality({x, y}) = 2
<1>1. IsFiniteSet({x}) /\ Cardinality({x}) = 1
  BY FS_Singleton
<1>2. Cardinality({x} \cup {y}) = Cardinality({x}) + 1
  BY <1>1, FS_AddElement
<1>3. {x} \cup {y} = {x, y}
  OBVIOUS
<1>4. Cardinality({x, y}) = Cardinality({x}) + 1
  BY <1>2, <1>3, Zenon
<1> QED BY <1>1, <1>4

\* The first of an account's events in an answer is told rightly.
LEMMA FirstIsTold ==
  ASSUME s1 \in Seq(GrantEvents), s2 \in Nat, s2 <= Len(s1),
         NEW r, s3.rows[r].members \in SUBSET Accounts, NEW a \in s3.rows[r].members,
         NEW nodes \in Grants!Nodes(r), NEW failed
  PROVE  /\ Grants!FirstPerAccount(nodes, a) \in Nat
         /\ GrantTold(s1, r, a, s2, Grants!FirstPerAccount(nodes, a), failed)
<1> DEFINE asked == {i \in 1 .. s2 :
                       s1[i].granted /\ s1[i].role = r /\ s1[i].account \in s3.rows[r].members}
           m(s) == IF Len(s) < 2 THEN Len(s) ELSE 2
<1>1. PICK s \in Grants!SetToSeqs(asked) :
         /\ \A i, j \in DOMAIN s : i < j => s1[s[i]].ledger >= s1[s[j]].ledger
         /\ nodes = SubSeq(s, 1, m(s))
  BY Zenon DEF Grants!Nodes
<1>2. IsFiniteSet(asked)
  <2>1. 1 \in Int /\ s2 \in Int /\ asked \in SUBSET (1 .. s2)
    OBVIOUS
  <2> HIDE DEF asked
  <2>2. IsFiniteSet(1 .. s2)
    BY <2>1, FS_Interval
  <2> QED BY <2>1, <2>2, FS_Subset
<1>3. \A i \in asked : i \in 1 .. s2 /\ s1[i].ledger \in Nat
  <2>1. \A i \in 1 .. s2 : s1[i] \in GrantEvents
    OBVIOUS
  <2> QED BY <2>1 DEF GrantEvents
<1>4. \A i \in 1 .. s2 : s1[i].granted /\ s1[i].role = r /\ s1[i].account = a => i \in asked
  OBVIOUS
<1>5. \A i \in asked : s1[i].granted /\ s1[i].role = r
  OBVIOUS
<1> HIDE DEF asked
<1>6. /\ s \in Seq(asked)
      /\ \A i, j \in 1 .. Len(s) : i # j => s[i] # s[j]
      /\ \A x \in asked : \E k \in 1 .. Len(s) : s[k] = x
  BY <1>2, SetIsListed
<1>7. DOMAIN s = 1 .. Len(s) /\ Len(s) \in Nat
  BY <1>6
<1>8. /\ DOMAIN nodes = 1 .. m(s)
      /\ \A k \in 1 .. m(s) : nodes[k] = s[k] /\ k \in 1 .. Len(s) /\ s[k] \in asked
  BY <1>1, <1>6, <1>7
<1> DEFINE places == Grants!Occurrences(nodes, a)
<1>9. places = {k \in 1 .. m(s) : s1[s[k]].account = a}
  BY <1>8 DEF Grants!Occurrences
<1> HIDE DEF places
<1>10. CASE places = {}
  <2>1. Grants!FirstPerAccount(nodes, a) = Grants!NotShown /\ Grants!NotShown = 0
    BY <1>10 DEF Grants!FirstPerAccount, Grants!NotShown, places
  <2>2. ASSUME NEW i \in 1 .. s2, s1[i].granted, s1[i].role = r, s1[i].account = a
        PROVE  \E full \in SUBSET (1 .. s2) :
                 /\ Grants!Cardinality(full) = 2
                 /\ \A j \in full : s1[j].granted /\ s1[j].role = r /\ s1[j].account # a
    <3>1. PICK k \in 1 .. Len(s) : s[k] = i
      BY <2>2, <1>4, <1>6
    <3>2. k \notin 1 .. m(s)
      BY <3>1, <2>2, <1>9, <1>10
    <3>3. m(s) = 2 /\ 1 \in 1 .. Len(s) /\ 2 \in 1 .. Len(s) /\ 1 \in 1 .. m(s) /\ 2 \in 1 .. m(s)
      BY <3>2, <1>7
    <3>4. s[1] # s[2] /\ s[1] \in asked /\ s[2] \in asked /\ s1[s[1]].account # a /\ s1[s[2]].account # a
      <4>1. s[1] # s[2]
        BY <3>3, <1>6
      <4>2. s[1] \in asked /\ s[2] \in asked
        BY <3>3, <1>8
      <4>3. \A l \in 1 .. m(s) : s1[s[l]].account # a
        BY <1>9, <1>10
      <4> QED BY <4>1, <4>2, <4>3, <3>3
    <3>5. Cardinality({s[1], s[2]}) = 2
      BY <3>4, PairHasTwo
    <3>6. Grants!Cardinality({s[1], s[2]}) = 2
      <4>1. Grants!Cardinality({s[1], s[2]}) = Cardinality({s[1], s[2]})
        BY DEF Grants!Cardinality, Cardinality
      <4> QED BY <4>1, <3>5
    <3>7. {s[1], s[2]} \in SUBSET (1 .. s2)
      BY <3>4, <1>3
    <3> QED BY <3>4, <3>6, <3>7, <1>5
  <2> QED BY <2>1, <2>2 DEF GrantTold
<1>11. CASE places # {}
  <2>1. places \in SUBSET Nat
    BY <1>9, <1>7
  <2>2. \E k \in places : \A l \in places : k <= l
    BY <2>1, <1>11, Least
  <2> DEFINE k == CHOOSE k \in places : \A l \in places : k <= l
  <2>3. k \in places /\ \A l \in places : k <= l
    BY <2>2
  <2>4. Grants!FirstPerAccount(nodes, a) = nodes[k]
    BY <1>11 DEF Grants!FirstPerAccount, places
  <2> HIDE DEF k
  <2>5. k \in 1 .. m(s) /\ nodes[k] = s[k] /\ s[k] \in asked /\ s1[s[k]].account = a /\ k \in 1 .. Len(s)
    BY <2>3, <1>8, <1>9
  <2>6. s[k] \in 1 .. s2 /\ s[k] \in Nat /\ s[k] # Grants!NotShown
    BY <2>5, <1>3 DEF Grants!NotShown
  <2>7. ASSUME NEW i \in 1 .. s2, s1[i].granted, s1[i].role = r, s1[i].account = a
        PROVE  s1[i].ledger <= s1[s[k]].ledger
    <3>1. PICK l \in 1 .. Len(s) : s[l] = i
      BY <2>7, <1>4, <1>6
    <3>2. k <= l
      <4>1. CASE l \in 1 .. m(s)
        BY <4>1, <3>1, <2>7, <2>3, <1>9
      <4>2. CASE l \notin 1 .. m(s)
        BY <4>2, <2>5, <1>7
      <4> QED BY <4>1, <4>2
    <3>3. s1[s[l]].ledger \in Nat /\ s1[s[k]].ledger \in Nat
      <4>1. s[l] \in asked /\ s[k] \in asked
        BY <1>6, <2>5
      <4> QED BY <4>1, <1>3
    <3>4. CASE k = l
      BY <3>4, <3>1, <3>3
    <3>5. CASE k # l
      <4>1. k < l /\ k \in DOMAIN s /\ l \in DOMAIN s
        BY <3>5, <3>2, <2>5, <1>7
      <4> QED BY <4>1, <3>1, <3>3, <1>1
    <3> QED BY <3>4, <3>5
  <2>8. GrantTold(s1, r, a, s2, s[k], failed)
    BY <2>5, <2>6, <2>7, <1>5 DEF GrantTold
  <2> QED BY <2>4, <2>5, <2>6, <2>8
<1> QED BY <1>10, <1>11

\* A row is fit that has no times, or was only read.
LEMMA RowWithoutTimes ==
  ASSUME NEW log \in Seq(GrantEvents), NEW r, NEW row \in GrantRows, row.had <= Len(log)
  PROVE  RowFits(log, r, Grants!WithoutTimestamps(row)) /\ Grants!WithoutTimestamps(row).pc = "shown"
<1> DEFINE none == [a \in row.members |-> Grants!NotShown]
           new == [row EXCEPT !.pc = "shown", !.grant = none, !.failed = TRUE]
<1>1. none \in GrantsShown
  <2>1. row.members \in SUBSET Accounts
    BY DEF GrantRows
  <2>2. none \in [row.members -> Nat]
    BY DEF Grants!NotShown
  <2> HIDE DEF none
  <2> QED BY <2>1, <2>2, Zenon DEF GrantsShown
<1>2. \A a \in row.members : none[a] = Grants!NotShown
  OBVIOUS
<1>3. new = Grants!WithoutTimestamps(row)
  BY DEF Grants!WithoutTimestamps
<1> HIDE DEF none
<1>4. new \in GrantRows
  BY <1>1 DEF GrantRows
<1>5. new.had = row.had /\ new.grant = none /\ new.failed = TRUE /\ new.members = row.members /\ new.pc = "shown"
  BY DEF GrantRows
<1> HIDE DEF new
<1>6. \A a \in new.members : GrantTold(log, r, a, new.had, new.grant[a], new.failed)
  BY <1>2, <1>5 DEF GrantTold
<1> QED BY <1>3, <1>4, <1>5, <1>6 DEF RowFits

LEMMA GrantsInit == ASSUME Grants!Init PROVE GrantsFit
<1>1. PICK roles \in {KnownIds, KnownIds \cup Emitted} :
         s3 = [pc |-> "idle", ids |-> {}, rows |-> [r \in roles |-> Grants!NoRow]]
  BY DEF Grants!Init
<1>2. s1 = <<>> /\ s2 = 0
  BY DEF Grants!Init
<1>3. [a \in {} |-> Grants!NotShown] \in GrantsShown
  <2>1. [a \in {} |-> Grants!NotShown] \in [{} -> Nat] /\ {} \in SUBSET Accounts
    OBVIOUS
  <2> QED BY <2>1, Zenon DEF GrantsShown
<1>4. Grants!NoRow \in GrantRows /\ Grants!NoRow.had = 0 /\ Grants!NoRow.pc = "none"
  BY <1>3 DEF Grants!NoRow, GrantRows
<1>5. s1 \in Seq(GrantEvents) /\ Len(s1) = 0
  BY <1>2
<1>6. \A r : RowFits(s1, r, Grants!NoRow)
  BY <1>4, <1>5 DEF RowFits
<1>7. EnrichedFits(s1, s3, roles)
  BY <1>1, <1>4, <1>6 DEF EnrichedFits
<1>8. roles \in SUBSET (KnownIds \cup Emitted)
  OBVIOUS
<1> QED BY <1>2, <1>5, <1>7, <1>8 DEF GrantsFit

\* The call goes on with one of its rows, or with none.
LEMMA CallGoes ==
  ASSUME NEW log, NEW roles, NEW call, EnrichedFits(log, call, roles),
         NEW pc \in {"idle", "reading", "asking", "done"}, NEW ids \in SUBSET roles,
         pc = "done" => \A r \in ids : call.rows[r].pc = "shown"
  PROVE  EnrichedFits(log, [call EXCEPT !.pc = pc, !.ids = ids], roles)
BY DEF EnrichedFits

LEMMA RowGoes ==
  ASSUME NEW log, NEW roles, NEW call, EnrichedFits(log, call, roles), NEW r \in roles, NEW row,
         RowFits(log, r, row), call.pc # "done"
  PROVE  EnrichedFits(log, [call EXCEPT !.rows = [@ EXCEPT ![r] = row]], roles)
<1> DEFINE rows == [call.rows EXCEPT ![r] = row]
           new == [call EXCEPT !.rows = [@ EXCEPT ![r] = row]]
<1>1. /\ rows \in [roles -> GrantRows]
      /\ \A q \in roles : rows[q] = IF q = r THEN row ELSE call.rows[q]
  BY DEF EnrichedFits, RowFits
<1>2. new \in [pc : {"idle", "reading", "asking", "done"}, ids : SUBSET roles, rows : [roles -> GrantRows]]
  BY <1>1 DEF EnrichedFits
<1>3. new.rows = rows /\ new.pc = call.pc
  BY DEF EnrichedFits
<1> HIDE DEF new, rows
<1>4. \A q \in roles : RowFits(log, q, rows[q])
  BY <1>1 DEF EnrichedFits
<1>5. EnrichedFits(log, new, roles)
  BY <1>2, <1>3, <1>4 DEF EnrichedFits
<1> QED BY <1>5 DEF new

LEMMA GrantsNext == ASSUME GrantsFit, [Grants!Next]_(Grants!vars) PROVE GrantsFit'
<1>1. PICK roles \in SUBSET (KnownIds \cup Emitted) : EnrichedFits(s1, s3, roles)
  BY DEF GrantsFit
<1>2. /\ s3 \in [pc : {"idle", "reading", "asking", "done"}, ids : SUBSET roles, rows : [roles -> GrantRows]]
      /\ \A r \in roles : RowFits(s1, r, s3.rows[r])
      /\ Grants!RoleIds = roles
  BY <1>1 DEF EnrichedFits, Grants!RoleIds
<1>3. s1 \in Seq(GrantEvents) /\ s2 \in Nat /\ s2 <= Len(s1) /\ Len(s1) \in Nat
  BY DEF GrantsFit
<1>4. \A r \in roles : /\ s3.rows[r] \in GrantRows /\ s3.rows[r].had \in Nat /\ s3.rows[r].had <= Len(s1)
                       /\ s3.rows[r].members \in SUBSET Accounts
  BY <1>2 DEF RowFits, GrantRows
<1>5. ASSUME UNCHANGED <<s1, s2>>, EnrichedFits(s1, s3', roles) PROVE GrantsFit'
  BY <1>5, <1>3 DEF GrantsFit
<1>6. CASE Grants!Happens
  <2>1. PICK r \in roles, a \in Accounts, later \in {0, 1} :
          s1' = Append(s1, [granted |-> a \notin Grants!Holders(r, Len(s1)), role |-> r, account |-> a,
                            ledger |-> Grants!Ledger + later])
    BY <1>6, <1>2 DEF Grants!Happens
  <2> DEFINE e == [granted |-> a \notin Grants!Holders(r, Len(s1)), role |-> r, account |-> a,
                   ledger |-> Grants!Ledger + later]
  <2>2. Grants!Ledger \in Nat
    <3>1. CASE s1 = <<>>
      BY <3>1 DEF Grants!Ledger
    <3>2. CASE s1 # <<>>
      <4>1. Len(s1) \in 1 .. Len(s1)
        BY <3>2, <1>3
      <4>2. s1[Len(s1)] \in GrantEvents
        BY <4>1, <1>3
      <4> QED BY <3>2, <4>2 DEF Grants!Ledger, Grants!Last, GrantEvents
    <3> QED BY <3>1, <3>2
  <2>3. (a \notin Grants!Holders(r, Len(s1))) \in BOOLEAN
    OBVIOUS
  <2>4. Grants!Ledger + later \in Nat
    BY <2>2
  <2>5. e \in GrantEvents
    BY <2>3, <2>4 DEF GrantEvents
  <2>6. s1' = Append(s1, e) /\ s2' = s2 /\ s3' = s3
    BY <1>6, <2>1 DEF Grants!Happens
  <2> HIDE DEF e
  <2>7. \A q \in roles : RowFits(s1', q, s3.rows[q])
    BY <1>2, <1>3, <2>5, <2>6, RowStays
  <2>8. s1' \in Seq(GrantEvents) /\ Len(s1') = Len(s1) + 1 /\ s2' <= Len(s1')
    BY <1>3, <2>5, <2>6
  <2>9. EnrichedFits(s1', s3', roles)
    BY <1>1, <2>6, <2>7 DEF EnrichedFits
  <2> QED BY <1>3, <2>6, <2>8, <2>9 DEF GrantsFit
<1>7. CASE Grants!Index
  BY <1>1, <1>3, <1>7 DEF Grants!Index, GrantsFit
<1>8. CASE Grants!Begin
  <2>1. PICK ids \in SUBSET roles :
          s3' = [s3 EXCEPT !.pc = IF ids = {} THEN "done" ELSE "reading", !.ids = ids]
    BY <1>8, <1>2 DEF Grants!Begin
  <2> DEFINE pc == IF ids = {} THEN "done" ELSE "reading"
  <2>2. pc \in {"idle", "reading", "asking", "done"} /\ (pc = "done" => \A r \in ids : s3.rows[r].pc = "shown")
    OBVIOUS
  <2>3. s3' = [s3 EXCEPT !.pc = pc, !.ids = ids]
    BY <2>1
  <2> HIDE DEF pc
  <2>4. EnrichedFits(s1, s3', roles)
    BY <1>1, <2>2, <2>3, CallGoes
  <2> QED BY <2>4, <1>5, <1>8 DEF Grants!Begin
<1>9. ASSUME NEW r \in roles, Grants!ReadRole(r) PROVE GrantsFit'
  <2>1. PICK members \in {Grants!Holders(r, Len(s1)), {}} :
          s3' = [s3 EXCEPT !.rows[r].pc = "read", !.rows[r].members = members]
    BY <1>9 DEF Grants!ReadRole
  <2> DEFINE row == [s3.rows[r] EXCEPT !.pc = "read", !.members = members]
  <2>2. members \in SUBSET Accounts
    BY DEF Grants!Holders
  <2>3. row \in GrantRows /\ row.had = s3.rows[r].had /\ row.pc = "read"
    BY <1>4, <2>2 DEF GrantRows
  <2>4. s3' = [s3 EXCEPT !.rows = [@ EXCEPT ![r] = row]]
    BY <1>2, <1>4, <2>1 DEF GrantRows
  <2> HIDE DEF row
  <2>5. RowFits(s1, r, row)
    BY <1>4, <2>3 DEF RowFits
  <2>6. s3.pc # "done"
    BY <1>9 DEF Grants!ReadRole
  <2>7. EnrichedFits(s1, s3', roles)
    BY <1>1, <2>4, <2>5, <2>6, RowGoes
  <2> QED BY <2>7, <1>5, <1>9 DEF Grants!ReadRole
<1>10. CASE Grants!CheckAvailability
  <2>1. CASE s3' = [s3 EXCEPT !.pc = "asking"]
    <3>1. s3' = [s3 EXCEPT !.pc = "asking", !.ids = s3.ids]
      BY <1>2, <2>1
    <3>2. EnrichedFits(s1, s3', roles)
      BY <1>1, <1>2, <3>1, CallGoes
    <3> QED BY <3>2, <1>5, <1>10 DEF Grants!CheckAvailability
  <2>2. CASE s3' = [s3 EXCEPT !.pc = "done",
                       !.rows = [r \in Grants!RoleIds |-> IF r \in s3.ids THEN Grants!WithoutTimestamps(@[r])
                                                                      ELSE @[r]]]
    <3> DEFINE rows == [r \in roles |-> IF r \in s3.ids THEN Grants!WithoutTimestamps(s3.rows[r]) ELSE s3.rows[r]]
    <3>1. \A r \in roles : /\ RowFits(s1, r, rows[r])
                           /\ r \in s3.ids => rows[r].pc = "shown"
      BY <1>2, <1>3, <1>4, RowWithoutTimes
    <3>2. rows \in [roles -> GrantRows]
      BY <3>1 DEF RowFits
    <3>3. s3' = [s3 EXCEPT !.pc = "done", !.rows = rows]
      BY <2>2, <1>2
    <3> HIDE DEF rows
    <3>4. EnrichedFits(s1, s3', roles)
      BY <1>2, <3>1, <3>2, <3>3 DEF EnrichedFits
    <3> QED BY <3>4, <1>5, <1>10 DEF Grants!CheckAvailability
  <2> QED BY <2>1, <2>2, <1>10 DEF Grants!CheckAvailability
<1>11. ASSUME NEW r \in roles, Grants!EnrichMembersWithGrantInfo(r) PROVE GrantsFit'
  <2> DEFINE old == s3.rows[r]
  <2>1. s3.pc # "done"
    BY <1>11 DEF Grants!EnrichMembersWithGrantInfo
  <2>2. CASE s3' = [s3 EXCEPT !.rows[r] = Grants!WithoutTimestamps(@)]
    <3> DEFINE row == Grants!WithoutTimestamps(old)
    <3>1. RowFits(s1, r, row)
      BY <1>3, <1>4, RowWithoutTimes
    <3>2. s3' = [s3 EXCEPT !.rows = [@ EXCEPT ![r] = row]]
      BY <2>2, <1>2
    <3> HIDE DEF row
    <3>3. EnrichedFits(s1, s3', roles)
      BY <1>1, <2>1, <3>1, <3>2, RowGoes
    <3> QED BY <3>3, <1>5, <1>11 DEF Grants!EnrichMembersWithGrantInfo
  <2>3. CASE \E grant \in Grants!QueryLatestGrants(r) :
               s3' = [s3 EXCEPT !.rows[r].pc = "shown", !.rows[r].had = s2, !.rows[r].grant = grant]
    <3>1. PICK grant \in Grants!QueryLatestGrants(r) :
               s3' = [s3 EXCEPT !.rows[r].pc = "shown", !.rows[r].had = s2, !.rows[r].grant = grant]
      BY <2>3
    <3>2. PICK nodes \in Grants!Nodes(r) : grant = [a \in old.members |-> Grants!FirstPerAccount(nodes, a)]
      BY Zenon DEF Grants!QueryLatestGrants
    <3>3. ASSUME NEW a \in old.members
          PROVE  grant[a] \in Nat /\ GrantTold(s1, r, a, s2, grant[a], old.failed)
      BY <1>3, <1>4, <3>2, FirstIsTold
    <3>4. grant \in [old.members -> Nat]
      BY <3>2, <3>3
    <3>5. grant \in GrantsShown
      BY <1>4, <3>4, Zenon DEF GrantsShown
    <3> DEFINE row == [old EXCEPT !.pc = "shown", !.had = s2, !.grant = grant]
    <3>6. s3' = [s3 EXCEPT !.rows = [@ EXCEPT ![r] = row]]
      BY <1>2, <1>4, <3>1 DEF GrantRows
    <3>7. /\ row \in GrantRows /\ row.had = s2 /\ row.grant = grant /\ row.failed = old.failed
          /\ row.members = old.members
      BY <1>3, <1>4, <3>5 DEF GrantRows
    <3> HIDE DEF row
    <3>8. RowFits(s1, r, row)
      BY <1>3, <3>3, <3>7 DEF RowFits
    <3>9. EnrichedFits(s1, s3', roles)
      BY <1>1, <2>1, <3>6, <3>8, RowGoes
    <3> QED BY <3>9, <1>5, <1>11 DEF Grants!EnrichMembersWithGrantInfo
  <2> QED BY <2>2, <2>3, <1>11 DEF Grants!EnrichMembersWithGrantInfo
<1>12. CASE Grants!Enriched
  <2>1. s3' = [s3 EXCEPT !.pc = "done", !.ids = s3.ids] /\ \A r \in s3.ids : s3.rows[r].pc = "shown"
    BY <1>2, <1>12 DEF Grants!Enriched
  <2>2. EnrichedFits(s1, s3', roles)
    BY <1>1, <1>2, <2>1, CallGoes
  <2> QED BY <2>2, <1>5, <1>12 DEF Grants!Enriched
<1>13. CASE UNCHANGED Grants!vars
  BY <1>1, <1>3, <1>13 DEF Grants!vars, GrantsFit
<1> QED BY <1>2, <1>6, <1>7, <1>8, <1>9, <1>10, <1>11, <1>12, <1>13 DEF Grants!Next

LEMMA GrantsKeep == ASSUME GrantsFit PROVE Grants!GrantIsLatest
<1>1. PICK roles \in SUBSET (KnownIds \cup Emitted) : EnrichedFits(s1, s3, roles)
  BY DEF GrantsFit
<1>2. ASSUME s3.pc = "done", NEW r \in s3.ids, NEW a \in s3.rows[r].members
      PROVE  GrantTold(s1, r, a, s3.rows[r].had, s3.rows[r].grant[a], s3.rows[r].failed)
  <2>1. r \in roles /\ s3.rows[r].pc = "shown" /\ RowFits(s1, r, s3.rows[r])
    BY <1>1, <1>2 DEF EnrichedFits
  <2> QED BY <1>2, <2>1 DEF RowFits
<1> QED BY <1>2 DEF Grants!GrantIsLatest, GrantTold

--------------------
(* Relayers: s1 is adapter, s2 service, s3 changes, s4 listing, s5 detail,  *)
(* s6 form, s7 timer, s8 options, s9 sent.                                 *)

Relaying == INSTANCE Relayers
              WITH MaxEdited <- 1, adapter <- s1, service <- s2, changes <- s3, listing <- s4,
                   detail <- s5, form <- s6, timer <- s7, options <- s8, sent <- s9

RelayersListed == [id : Ids, fits : BOOLEAN]
Listings == [pc : {"idle", "asking", "done", "threw", "failed"}, page : Nat, found : Seq(RelayersListed),
             shown : Seq(RelayersListed), start : Seq(RelayersListed), shrunk : BOOLEAN]

OneEach(list) == \A i, j \in 1 .. Len(list) : list[i].id = list[j].id => i = j

\* The beginning of one list is another.
Begins(list, start) == Len(start) <= Len(list) /\ \A i \in 1 .. Len(start) : list[i] = start[i]

\* While pages are asked for, those before were full, and what was found and is still there
\* is where it was or further ahead, so that no page that follows has it again; and while
\* none went, what was found is the beginning of the list, and so is what there was first.
PagesFit(list, n, listing) ==
  /\ list \in Seq(RelayersListed) /\ OneEach(list) /\ n \in Nat
  /\ listing \in Listings /\ OneEach(listing.found)
  /\ listing.pc = "idle" => listing.page = 0
  /\ listing.page # 0 => (listing.page - 1) * PageSize <= Len(listing.start) + n
  /\ listing.pc = "asking" =>
       /\ listing.page # 0 /\ Len(list) <= Len(listing.start) + n
       /\ Len(listing.found) = (listing.page - 1) * PageSize
       /\ \A i \in 1 .. Len(listing.found), j \in 1 .. Len(list) :
             listing.found[i].id = list[j].id => j <= Len(listing.found)
       /\ ~listing.shrunk => Begins(list, listing.start) /\ Begins(list, listing.found)
  /\ listing.pc = "done" /\ ~listing.shrunk => Relaying!IsPrefix(Relaying!Fitting(listing.start), listing.shown)

\* What was true of a product of the page size.
LEMMA PagesBound ==
  ASSUME NEW page \in Nat, page # 0, NEW x \in Nat, (page - 1) * PageSize <= x
  PROVE  page <= (x \div PageSize) + 1
<1> DEFINE q == x \div PageSize
<1>1. PageSize \in Nat \ {0}
  BY SizesAssumption
<1>2. x < q * PageSize + PageSize /\ q \in Nat
  BY <1>1
<1> HIDE DEF q
<1>3. (q + 1) * PageSize = q * PageSize + PageSize /\ q + 1 \in Nat /\ page - 1 \in Nat
  BY <1>1, <1>2
<1>4. \A a, b \in Nat : a >= b => a * PageSize >= b * PageSize
  <2> TAKE a \in Nat, b \in Nat
  <2> QED BY <1>1
<1>5. page - 1 < q + 1
  <2> SUFFICES ASSUME page - 1 >= q + 1 PROVE FALSE
    BY <1>3, <1>2
  <2>1. (page - 1) * PageSize >= (q + 1) * PageSize
    BY <1>3, <1>4
  <2>2. (page - 1) * PageSize \in Nat /\ q * PageSize \in Nat
    BY <1>1, <1>2, <1>3
  <2> QED BY <2>1, <2>2, <1>1, <1>2, <1>3
<1> QED BY <1>2, <1>5 DEF q

\* The relayers shown of a list are, at its beginning, those of its beginning.
LEMMA FittingOfPrefix ==
  ASSUME NEW s \in Seq(RelayersListed), NEW t \in Seq(RelayersListed), Begins(t, s)
  PROVE  /\ Relaying!Fitting(t) \in Seq(RelayersListed)
         /\ Relaying!IsPrefix(Relaying!Fitting(s), Relaying!Fitting(t))
<1> DEFINE wanted(l) == {r \in Relaying!ToSet(l) : Relaying!Fits(r)}
           fs == Selected(s, wanted(s))
           ft == Selected(t, wanted(t))
<1>1. \A i \in 1 .. Len(s) : t[i] = s[i] /\ (s[i] \in wanted(s) <=> s[i] \in wanted(t))
  <2> TAKE i \in 1 .. Len(s)
  <2>1. i \in DOMAIN s /\ i \in DOMAIN t /\ t[i] = s[i]
    BY DEF Begins
  <2>2. s[i] \in Relaying!ToSet(s) /\ s[i] \in Relaying!ToSet(t)
    BY <2>1 DEF Relaying!ToSet
  <2> QED BY <2>1, <2>2
<1>2. Len(s) <= Len(t)
  BY DEF Begins
<1>3. fs = Relaying!Fitting(s) /\ ft = Relaying!Fitting(t)
  BY DEF Relaying!Fitting, Relaying!Selected, Selected
<1> HIDE DEF wanted
<1>4. /\ fs \in Seq(RelayersListed) /\ ft \in Seq(RelayersListed) /\ Len(fs) <= Len(ft)
      /\ \A k \in 1 .. Len(fs) : ft[k] = fs[k]
  BY <1>1, <1>2, SelectedOfPrefix
<1> HIDE DEF fs, ft
<1>5. SubSeq(fs, 1, Len(fs)) = SubSeq(ft, 1, Len(fs))
  BY <1>4
<1> QED BY <1>3, <1>4, <1>5 DEF Relaying!IsPrefix

LEMMA RelayersInit == ASSUME Relaying!Init PROVE PagesFit(s2, s3, s4)
<1>1. PICK n \in 0 .. Relaying!Cardinality(Ids) : \E fits \in [1 .. n -> BOOLEAN] :
        s2 = [i \in 1 .. n |-> [id |-> Relaying!SetToSeq(Ids)[i], fits |-> fits[i]]]
  BY DEF Relaying!Init
<1>2. PICK fits \in [1 .. n -> BOOLEAN] :
        s2 = [i \in 1 .. n |-> [id |-> Relaying!SetToSeq(Ids)[i], fits |-> fits[i]]]
  BY <1>1
<1> DEFINE f == Relaying!SetToSeq(Ids)
           m == Cardinality(Ids)
<1>3. Relaying!Cardinality(Ids) = m /\ m \in Nat /\ ExistsBijection(1 .. m, Ids)
  <2>1. Relaying!Cardinality(Ids) = m
    BY DEF Relaying!Cardinality, Cardinality
  <2>2. IsFiniteSet(Ids)
    BY SizesAssumption
  <2> QED BY <2>1, <2>2, FS_CardinalityType
<1>4. f \in [1 .. m -> Ids] /\ \A i, j \in 1 .. m : f[i] = f[j] => i = j
  <2>1. PICK g : g \in Bijection(1 .. m, Ids)
    BY <1>3 DEF ExistsBijection
  <2>2. g \in [1 .. m -> Ids] /\ \A i, j \in 1 .. m : g[i] = g[j] => i = j
    BY <2>1 DEF Bijection, Injection, IsInjective
  <2>3. f = CHOOSE h \in [1 .. m -> Ids] : Relaying!IsInjective(h)
    BY <1>3 DEF Relaying!SetToSeq
  <2>4. Relaying!IsInjective(g)
    BY <2>2 DEF Relaying!IsInjective
  <2> HIDE DEF f, m
  <2>5. f \in [1 .. m -> Ids] /\ Relaying!IsInjective(f)
    BY <2>2, <2>3, <2>4
  <2> QED BY <2>5 DEF Relaying!IsInjective
<1> HIDE DEF f, m
<1>5. n \in Nat /\ n <= m /\ s2 = [i \in 1 .. n |-> [id |-> f[i], fits |-> fits[i]]]
  BY <1>2, <1>3 DEF f
<1>6. \A i \in 1 .. n : f[i] \in Ids /\ [id |-> f[i], fits |-> fits[i]] \in RelayersListed
  BY <1>3, <1>4, <1>5 DEF RelayersListed
<1>7. s2 \in Seq(RelayersListed) /\ Len(s2) = n /\ \A i \in 1 .. n : s2[i].id = f[i]
  BY <1>5, <1>6
<1>8. OneEach(s2)
  BY <1>3, <1>4, <1>5, <1>7 DEF OneEach
<1>9. Relaying!NotReading \in Listings /\ OneEach(Relaying!NotReading.found)
      /\ Relaying!NotReading.pc = "idle" /\ Relaying!NotReading.page = 0
  BY DEF Relaying!NotReading, Listings, OneEach
<1>10. s3 = 0 /\ s4 = Relaying!NotReading
  BY DEF Relaying!Init
<1> QED BY <1>7, <1>8, <1>9, <1>10 DEF PagesFit

LEMMA RelayersListedFirst == ASSUME PagesFit(s2, s3, s4), Relaying!List PROVE PagesFit(s2, s3, s4')
<1> DEFINE new == [Relaying!NotReading EXCEPT !.pc = "asking", !.page = 1, !.start = s2]
<1>1. s2 \in Seq(RelayersListed) /\ s3 \in Nat /\ Len(s2) \in Nat
  BY DEF PagesFit
<1>2. /\ new \in Listings /\ new.pc = "asking" /\ new.page = 1 /\ new.found = <<>> /\ new.start = s2
      /\ new.shrunk = FALSE
  <2>1. Relaying!NotReading \in Listings /\ Relaying!NotReading.found = <<>>
        /\ Relaying!NotReading.shrunk = FALSE
    BY DEF Listings, Relaying!NotReading
  <2> QED BY <1>1, <2>1 DEF Listings
<1>3. s4' = new
  BY DEF Relaying!List
<1> HIDE DEF new
<1>4. (1 - 1) * PageSize = 0
  BY SizesAssumption
<1>5. OneEach(new.found) /\ Begins(s2, new.start) /\ Begins(s2, new.found) /\ Len(new.found) = 0
  BY <1>1, <1>2 DEF OneEach, Begins
<1> QED BY <1>1, <1>2, <1>3, <1>4, <1>5 DEF PagesFit

\* A page that is read begins where the last one ended.
LEMMA PageFollows ==
  ASSUME PagesFit(s2, s3, s4), s4.pc = "asking"
  PROVE  LET found == s4.found \o Relaying!Page(s4.page)
         IN  /\ found \in Seq(RelayersListed) /\ OneEach(found)
             /\ Len(found) < Len(s2) => Len(found) = s4.page * PageSize
             /\ \A i \in 1 .. Len(found), j \in 1 .. Len(s2) : found[i].id = s2[j].id => j <= Len(found)
             /\ ~s4.shrunk /\ Len(found) <= Len(s2) => Begins(s2, found)
             /\ ~s4.shrunk /\ Len(found) >= Len(s2) => Begins(found, s4.start)
<1> DEFINE n == s4.page
           old == s4.found
           top == IF n * PageSize < Len(s2) THEN n * PageSize ELSE Len(s2)
           page == SubSeq(s2, (n - 1) * PageSize + 1, top)
           found == old \o page
<1>1. /\ s2 \in Seq(RelayersListed) /\ OneEach(s2) /\ s3 \in Nat /\ Len(s2) \in Nat
      /\ s4 \in Listings /\ OneEach(old) /\ n \in Nat /\ n # 0
      /\ old \in Seq(RelayersListed) /\ Len(old) \in Nat /\ Len(old) = (n - 1) * PageSize
      /\ \A i \in 1 .. Len(old), j \in 1 .. Len(s2) : old[i].id = s2[j].id => j <= Len(old)
      /\ ~s4.shrunk => Begins(s2, s4.start) /\ Begins(s2, old)
      /\ s4.start \in Seq(RelayersListed) /\ Len(s4.start) \in Nat
  BY DEF PagesFit, Listings
<1>2. PageSize \in Nat \ {0} /\ n * PageSize \in Nat /\ (n - 1) * PageSize + PageSize = n * PageSize
  BY <1>1, SizesAssumption
<1>3. Relaying!Page(s4.page) = page
  BY DEF Relaying!Page
<1>4. top \in Nat /\ top <= Len(s2) /\ (top < Len(s2) => top = n * PageSize)
  BY <1>1, <1>2
<1> HIDE DEF top, n
<1> DEFINE b == Len(old)
           size == IF b < top THEN top - b ELSE 0
<1>5. page = SubSeq(s2, b + 1, top)
  BY <1>1
<1> HIDE DEF page
<1>6. /\ page \in Seq(RelayersListed) /\ Len(page) = size
      /\ \A k \in 1 .. size : page[k] = s2[b + k] /\ b + k \in 1 .. Len(s2)
  <2>1. CASE b < top
    <3>1. b + 1 \in 1 .. Len(s2) + 1 /\ top \in 0 .. Len(s2) /\ size = top - b
      BY <1>1, <1>4, <2>1
    <3>2. page \in Seq(RelayersListed)
      BY <1>1, <1>4, <1>5, <2>1
    <3>3. Len(page) = size
      BY <1>1, <1>4, <1>5, <2>1
    <3>4. \A k \in 1 .. size : page[k] = s2[b + k] /\ b + k \in 1 .. Len(s2)
      BY <1>1, <1>4, <1>5, <2>1
    <3> QED BY <3>2, <3>3, <3>4
  <2>2. CASE ~(b < top)
    <3>1. page = <<>>
      BY <1>1, <1>4, <1>5, <2>2
    <3> QED BY <3>1, <2>2
  <2> QED BY <2>1, <2>2
<1>7. size \in Nat /\ b \in Nat
  BY <1>1, <1>4
<1> HIDE DEF size, b
<1>8. /\ found \in Seq(RelayersListed) /\ Len(found) = b + size
      /\ \A i \in 1 .. b : found[i] = old[i]
      /\ \A i \in 1 .. Len(found) : i > b => found[i] = s2[i] /\ i \in 1 .. Len(s2)
  <2>a. old \in Seq(RelayersListed) /\ page \in Seq(RelayersListed)
    BY <1>1, <1>6
  <2>0. /\ found \in Seq(RelayersListed) /\ Len(found) = Len(old) + Len(page)
        /\ \A i \in 1 .. Len(found) : found[i] = IF i <= Len(old) THEN old[i] ELSE page[i - Len(old)]
    <3> HIDE DEF old
    <3>1. /\ old \o page \in Seq(RelayersListed) /\ Len(old \o page) = Len(old) + Len(page)
          /\ \A i \in 1 .. Len(old) + Len(page) :
                (old \o page)[i] = IF i <= Len(old) THEN old[i] ELSE page[i - Len(old)]
      BY <2>a, ConcatProperties
    <3> QED BY <3>1
  <2>b. Len(old) = b /\ Len(page) = size
    BY <1>6 DEF b
  <2> HIDE DEF found, old
  <2>1. found \in Seq(RelayersListed) /\ Len(found) = b + size
    BY <2>0, <2>b
  <2>2. \A i \in 1 .. b : found[i] = old[i]
    BY <2>0, <2>b, <1>7
  <2>3. ASSUME NEW i \in 1 .. Len(found), i > b PROVE found[i] = s2[i] /\ i \in 1 .. Len(s2)
    <3>1. i - b \in 1 .. size /\ b + (i - b) = i
      BY <2>1, <2>3, <1>7
    <3>2. found[i] = page[i - b]
      BY <1>7, <2>0, <2>b, <2>3
    <3> QED BY <3>1, <3>2, <1>6
  <2> QED BY <2>1, <2>2, <2>3
<1> HIDE DEF found
<1>9. /\ \A i \in 1 .. b, j \in 1 .. Len(s2) : old[i].id = s2[j].id => j <= b
      /\ \A i, j \in 1 .. b : old[i].id = old[j].id => i = j
      /\ \A i, j \in 1 .. Len(s2) : s2[i].id = s2[j].id => i = j
  BY <1>1 DEF b, OneEach
<1>10. Len(found) \in Nat
  BY <1>7, <1>8
<1>11. OneEach(found)
  <2> SUFFICES ASSUME NEW i \in 1 .. Len(found), NEW j \in 1 .. Len(found), found[i].id = found[j].id
               PROVE  i = j
    BY DEF OneEach
  <2>1. CASE i <= b /\ j <= b
    <3>1. i \in 1 .. b /\ j \in 1 .. b
      BY <2>1, <1>7, <1>10
    <3> QED BY <3>1, <1>8, <1>9
  <2>2. CASE i > b /\ j > b
    BY <2>2, <1>8, <1>9
  <2>3. CASE i <= b /\ j > b
    <3>1. i \in 1 .. b
      BY <2>3, <1>7, <1>10
    <3> QED BY <3>1, <2>3, <1>7, <1>8, <1>9
  <2>4. CASE i > b /\ j <= b
    <3>1. j \in 1 .. b
      BY <2>4, <1>7, <1>10
    <3> QED BY <3>1, <2>4, <1>7, <1>8, <1>9
  <2> QED BY <2>1, <2>2, <2>3, <2>4, <1>7
<1>12. ASSUME Len(found) < Len(s2) PROVE Len(found) = n * PageSize
  <2>1. top < Len(s2)
    BY <1>12, <1>4, <1>7, <1>8 DEF size
  <2>2. b <= top
    BY <2>1, <1>1, <1>2, <1>4 DEF b
  <2> QED BY <2>1, <2>2, <1>4, <1>7, <1>8 DEF size
<1>13. ASSUME NEW i \in 1 .. Len(found), NEW j \in 1 .. Len(s2), found[i].id = s2[j].id
       PROVE  j <= Len(found)
  <2>1. CASE i <= b
    <3>1. i \in 1 .. b
      BY <2>1, <1>7, <1>10
    <3> QED BY <3>1, <1>7, <1>8, <1>9, <1>13
  <2>2. CASE i > b
    BY <2>2, <1>8, <1>9, <1>13
  <2> QED BY <2>1, <2>2, <1>7
<1>14. ASSUME ~s4.shrunk PROVE \A i \in 1 .. Len(found) : found[i] = s2[i]
  <2> TAKE i \in 1 .. Len(found)
  <2>1. CASE i <= b
    <3>1. i \in 1 .. b
      BY <2>1, <1>7, <1>10
    <3> QED BY <3>1, <1>1, <1>8, <1>14 DEF Begins, b
  <2>2. CASE i > b
    BY <2>2, <1>8
  <2> QED BY <2>1, <2>2, <1>7
<1>15. ASSUME ~s4.shrunk, Len(found) <= Len(s2) PROVE Begins(s2, found)
  BY <1>14, <1>15 DEF Begins
<1>16. ASSUME ~s4.shrunk, Len(found) >= Len(s2) PROVE Begins(found, s4.start)
  <2>1. Len(s4.start) <= Len(s2) /\ \A i \in 1 .. Len(s4.start) : s2[i] = s4.start[i]
    BY <1>1, <1>16 DEF Begins
  <2>2. \A i \in 1 .. Len(s4.start) : i \in 1 .. Len(found)
    BY <2>1, <1>1, <1>10, <1>16
  <2> QED BY <2>1, <2>2, <1>1, <1>10, <1>14, <1>16 DEF Begins
<1>17. found = s4.found \o Relaying!Page(s4.page)
  BY <1>3 DEF found
<1> QED BY <1>8, <1>11, <1>12, <1>13, <1>15, <1>16, <1>17 DEF n

LEMMA RelayersPageRead == ASSUME PagesFit(s2, s3, s4), Relaying!PageRead PROVE PagesFit(s2, s3, s4')
<1> DEFINE found == s4.found \o Relaying!Page(s4.page)
           ended == [s4 EXCEPT !.pc = "done", !.found = found, !.shown = Relaying!Fitting(found)]
           goes == [s4 EXCEPT !.page = @ + 1, !.found = found]
<1>0. s4.pc = "asking" /\ s4' = IF Len(found) >= Len(s2) THEN ended ELSE goes
  BY DEF Relaying!PageRead
<1>1. /\ found \in Seq(RelayersListed) /\ OneEach(found)
      /\ Len(found) < Len(s2) => Len(found) = s4.page * PageSize
      /\ \A i \in 1 .. Len(found), j \in 1 .. Len(s2) : found[i].id = s2[j].id => j <= Len(found)
      /\ ~s4.shrunk /\ Len(found) <= Len(s2) => Begins(s2, found)
      /\ ~s4.shrunk /\ Len(found) >= Len(s2) => Begins(found, s4.start)
  BY <1>0, PageFollows
<1>2. /\ s4 \in Listings /\ s4.page \in Nat /\ s4.page # 0 /\ s4.page + 1 \in Nat
      /\ s4.start \in Seq(RelayersListed) /\ Len(s4.start) \in Nat /\ s3 \in Nat /\ Len(s2) \in Nat
      /\ (s4.page - 1) * PageSize <= Len(s4.start) + s3 /\ Len(s2) <= Len(s4.start) + s3
      /\ ~s4.shrunk => Begins(s2, s4.start)
  BY <1>0 DEF PagesFit, Listings
<1> HIDE DEF found
<1>3. Len(found) \in Nat
  BY <1>1
<1>4. CASE Len(found) >= Len(s2)
  <2>1. Begins(found, found)
    BY <1>3 DEF Begins
  <2>2. Relaying!Fitting(found) \in Seq(RelayersListed)
    BY <1>1, <2>1, FittingOfPrefix
  <2>3. ~s4.shrunk => Relaying!IsPrefix(Relaying!Fitting(s4.start), Relaying!Fitting(found))
    BY <1>1, <1>2, <1>4, FittingOfPrefix
  <2>4. ended \in Listings
    BY <1>1, <1>2, <2>2 DEF Listings
  <2>5. /\ ended.pc = "done" /\ ended.found = found /\ ended.shown = Relaying!Fitting(found)
        /\ ended.page = s4.page /\ ended.start = s4.start /\ ended.shrunk = s4.shrunk
    BY <1>2 DEF Listings
  <2>6. s4' = ended
    BY <1>0, <1>4
  <2> HIDE DEF ended
  <2> QED BY <1>1, <1>2, <2>3, <2>4, <2>5, <2>6 DEF PagesFit
<1>5. CASE ~(Len(found) >= Len(s2))
  <2>1. goes \in Listings
    BY <1>1, <1>2 DEF Listings
  <2>2. /\ goes.pc = "asking" /\ goes.found = found /\ goes.page = s4.page + 1
        /\ goes.start = s4.start /\ goes.shrunk = s4.shrunk
    BY <1>0, <1>2 DEF Listings
  <2>3. s4' = goes
    BY <1>0, <1>5
  <2> HIDE DEF goes
  <2>4. Len(found) < Len(s2) /\ goes.page - 1 = s4.page /\ goes.page # 0
    BY <1>2, <1>3, <1>5, <2>2
  <2>5. Len(found) = (goes.page - 1) * PageSize /\ Len(found) <= Len(s4.start) + s3
    BY <1>1, <1>2, <1>3, <2>4
  <2>6. (goes.page - 1) * PageSize <= Len(goes.start) + s3
    BY <2>2, <2>5
  <2>7. ~goes.shrunk => Begins(s2, goes.start) /\ Begins(s2, goes.found)
    BY <1>1, <1>2, <1>3, <2>2, <2>4
  <2>8. /\ s2 \in Seq(RelayersListed) /\ OneEach(s2)
        /\ Len(s2) <= Len(goes.start) + s3
    BY <1>2, <2>2 DEF PagesFit
  <2> QED BY <1>1, <1>2, <2>1, <2>2, <2>3, <2>4, <2>5, <2>6, <2>7, <2>8 DEF PagesFit
<1> QED BY <1>4, <1>5

LEMMA RelayersPageFailed == ASSUME PagesFit(s2, s3, s4), Relaying!PageFailed PROVE PagesFit(s2, s3, s4')
<1> DEFINE new == [s4 EXCEPT !.pc = IF s1 = "evm" THEN "threw" ELSE "failed"]
<1>1. s4' = new /\ s4 \in Listings
  BY DEF Relaying!PageFailed, PagesFit
<1>2. /\ new \in Listings /\ new.pc \in {"threw", "failed"} /\ new.found = s4.found /\ new.page = s4.page
      /\ new.start = s4.start
  BY <1>1 DEF Listings
<1> HIDE DEF new
<1> QED BY <1>1, <1>2 DEF PagesFit

LEMMA RelayersEnlist == ASSUME PagesFit(s2, s3, s4), Relaying!Enlist PROVE PagesFit(s2', s3', s4')
<1>1. PICK id \in Ids \ (Relaying!IdsOf(s2) \cup Relaying!IdsOf(s4.start) \cup Relaying!IdsOf(s4.found)),
           fits \in BOOLEAN : s2' = Append(s2, [id |-> id, fits |-> fits])
  BY DEF Relaying!Enlist
<1> DEFINE r == [id |-> id, fits |-> fits]
           new == Append(s2, r)
<1>2. s2' = new /\ s3' = s3 + 1 /\ s4' = s4
  BY <1>1 DEF Relaying!Enlist
<1>3. /\ s2 \in Seq(RelayersListed) /\ OneEach(s2) /\ s3 \in Nat /\ Len(s2) \in Nat /\ s4 \in Listings
      /\ s4.found \in Seq(RelayersListed) /\ s4.start \in Seq(RelayersListed)
      /\ Len(s4.found) \in Nat /\ Len(s4.start) \in Nat
  BY DEF PagesFit, Listings
<1>4. r \in RelayersListed /\ r.id = id
  BY DEF RelayersListed
<1> HIDE DEF r
<1>5. /\ new \in Seq(RelayersListed) /\ Len(new) = Len(s2) + 1
      /\ \A i \in 1 .. Len(s2) : new[i] = s2[i]
      /\ new[Len(s2) + 1] = r
  BY <1>3, <1>4
<1> HIDE DEF new
<1>6. /\ \A i \in 1 .. Len(s2) : s2[i].id # id
      /\ \A i \in 1 .. Len(s4.found) : s4.found[i].id # id
  <2>1. \A i \in DOMAIN s2 : s2[i].id # id
    BY <1>1 DEF Relaying!IdsOf
  <2>2. \A i \in DOMAIN s4.found : s4.found[i].id # id
    BY <1>1 DEF Relaying!IdsOf
  <2> QED BY <2>1, <2>2, <1>3
<1>7. OneEach(new)
  <2> SUFFICES ASSUME NEW i \in 1 .. Len(new), NEW j \in 1 .. Len(new), new[i].id = new[j].id PROVE i = j
    BY DEF OneEach
  <2>1. \A k \in 1 .. Len(new) : k \in 1 .. Len(s2) \/ k = Len(s2) + 1
    BY <1>3, <1>5
  <2>2. \A k, l \in 1 .. Len(s2) : s2[k].id = s2[l].id => k = l
    BY <1>3 DEF OneEach
  <2> QED BY <2>1, <2>2, <1>3, <1>4, <1>5, <1>6
<1>8. \A list : Begins(s2, list) /\ Len(list) \in Nat => Begins(new, list)
  BY <1>3, <1>5 DEF Begins
<1>9. s4.page # 0 => (s4.page - 1) * PageSize <= Len(s4.start) + (s3 + 1)
  <2>1. s4.page \in Nat
    BY <1>3 DEF Listings
  <2> DEFINE x == (s4.page - 1) * PageSize
  <2>2. ASSUME s4.page # 0 PROVE x \in Nat
    BY <2>1, <2>2, SizesAssumption
  <2>3. s4.page # 0 => x <= Len(s4.start) + s3
    BY DEF PagesFit
  <2> HIDE DEF x
  <2>4. s4.page # 0 => x <= Len(s4.start) + (s3 + 1)
    <3>1. s3 \in Nat /\ Len(s4.start) \in Nat
      BY <1>3
    <3>2. \A a, b, c \in Nat : a <= b + c => a <= b + (c + 1)
      OBVIOUS
    <3> QED BY <2>2, <2>3, <3>1, <3>2
  <2> QED BY <2>4 DEF x
<1>10. ASSUME s4.pc = "asking", NEW i \in 1 .. Len(s4.found), NEW j \in 1 .. Len(new), s4.found[i].id = new[j].id
       PROVE  j <= Len(s4.found)
  <2>1. j \in 1 .. Len(s2)
    BY <1>3, <1>4, <1>5, <1>6, <1>10
  <2>2. new[j] = s2[j]
    BY <2>1, <1>5
  <2> QED BY <2>1, <2>2, <1>10 DEF PagesFit
<1>11. s3 + 1 \in Nat /\ (s4.pc = "asking" => Len(new) <= Len(s4.start) + (s3 + 1))
  <2>1. s4.pc = "asking" => Len(s2) <= Len(s4.start) + s3
    BY DEF PagesFit
  <2>2. \A a, b, c \in Nat : a <= b + c => a + 1 <= b + (c + 1)
    OBVIOUS
  <2>3. s3 + 1 \in Nat /\ Len(s2) \in Nat /\ Len(s4.start) \in Nat /\ Len(new) = Len(s2) + 1
    BY <1>3, <1>5
  <2>4. s4.pc = "asking" => Len(s2) + 1 <= Len(s4.start) + (s3 + 1)
    BY <2>1, <2>2, <2>3, <1>3
  <2> QED BY <2>3, <2>4
<1>12. PagesFit(new, s3 + 1, s4)
  BY <1>3, <1>5, <1>7, <1>8, <1>9, <1>10, <1>11 DEF PagesFit
<1> QED BY <1>2, <1>12

LEMMA RelayersDrop == ASSUME PagesFit(s2, s3, s4), Relaying!Drop PROVE PagesFit(s2', s3', s4')
<1>1. PICK k \in DOMAIN s2 : s2' = Relaying!RemoveAt(s2, k)
  BY DEF Relaying!Drop
<1> DEFINE new == Relaying!RemoveAt(s2, k)
           shorter == [s4 EXCEPT !.shrunk = TRUE]
<1>2. s2' = new /\ s3' = s3 + 1 /\ s4' = IF s4.pc = "asking" THEN shorter ELSE s4
  BY <1>1 DEF Relaying!Drop
<1>3. /\ s2 \in Seq(RelayersListed) /\ OneEach(s2) /\ s3 \in Nat /\ Len(s2) \in Nat /\ s4 \in Listings
      /\ s4.found \in Seq(RelayersListed) /\ s4.start \in Seq(RelayersListed)
      /\ Len(s4.found) \in Nat /\ Len(s4.start) \in Nat /\ k \in 1 .. Len(s2)
  BY DEF PagesFit, Listings
<1>4. /\ new \in Seq(RelayersListed) /\ Len(new) = Len(s2) - 1
      /\ \A i \in 1 .. Len(new) : new[i] = IF i < k THEN s2[i] ELSE s2[i + 1]
  <2> DEFINE a == SubSeq(s2, 1, k - 1)
             b == SubSeq(s2, k + 1, Len(s2))
  <2>1. a \in Seq(RelayersListed) /\ Len(a) = k - 1 /\ \A i \in 1 .. k - 1 : a[i] = s2[i]
    BY <1>3
  <2>2. /\ b \in Seq(RelayersListed) /\ Len(b) = Len(s2) - k
        /\ \A i \in 1 .. Len(s2) - k : b[i] = s2[k + i]
    BY <1>3
  <2>3. new = a \o b
    BY DEF Relaying!RemoveAt
  <2> HIDE DEF a, b, new
  <2>4. /\ new \in Seq(RelayersListed) /\ Len(new) = Len(a) + Len(b)
        /\ \A i \in 1 .. Len(a) + Len(b) : new[i] = IF i <= Len(a) THEN a[i] ELSE b[i - Len(a)]
    BY <2>1, <2>2, <2>3, ConcatProperties
  <2>5. Len(new) = Len(s2) - 1
    BY <2>1, <2>2, <2>4, <1>3
  <2>6. ASSUME NEW i \in 1 .. Len(new) PROVE new[i] = IF i < k THEN s2[i] ELSE s2[i + 1]
    <3>1. CASE i < k
      BY <3>1, <2>1, <2>4, <2>5, <1>3
    <3>2. CASE ~(i < k)
      <4>1. i - (k - 1) \in 1 .. Len(s2) - k /\ k + (i - (k - 1)) = i + 1 /\ ~(i <= Len(a))
        BY <3>2, <2>1, <2>5, <1>3
      <4>2. new[i] = b[i - (k - 1)]
        BY <4>1, <2>1, <2>2, <2>4, <2>5, <1>3
      <4> QED BY <3>2, <4>1, <4>2, <2>2
    <3> QED BY <3>1, <3>2
  <2> QED BY <2>4, <2>5, <2>6
<1> HIDE DEF new
<1>5. \A i \in 1 .. Len(new) : \E j \in 1 .. Len(s2) : new[i] = s2[j] /\ i <= j /\ j = IF i < k THEN i ELSE i + 1
  <2> TAKE i \in 1 .. Len(new)
  <2>1. CASE i < k
    <3> WITNESS i \in 1 .. Len(s2)
    <3> QED BY <2>1, <1>3, <1>4
  <2>2. CASE ~(i < k)
    <3>1. i + 1 \in 1 .. Len(s2)
      BY <1>3, <1>4
    <3> WITNESS i + 1 \in 1 .. Len(s2)
    <3> QED BY <2>2, <3>1, <1>3, <1>4
  <2> QED BY <2>1, <2>2
<1>6. OneEach(new)
  <2> SUFFICES ASSUME NEW i \in 1 .. Len(new), NEW j \in 1 .. Len(new), new[i].id = new[j].id PROVE i = j
    BY DEF OneEach
  <2>1. PICK x \in 1 .. Len(s2) : new[i] = s2[x] /\ x = IF i < k THEN i ELSE i + 1
    BY <1>5
  <2>2. PICK y \in 1 .. Len(s2) : new[j] = s2[y] /\ y = IF j < k THEN j ELSE j + 1
    BY <1>5
  <2>3. x = y
    BY <2>1, <2>2, <1>3 DEF OneEach
  <2> QED BY <2>1, <2>2, <2>3, <1>3
<1>7. s4.page # 0 => (s4.page - 1) * PageSize <= Len(s4.start) + (s3 + 1)
  <2>1. s4.page \in Nat
    BY <1>3 DEF Listings
  <2> DEFINE x == (s4.page - 1) * PageSize
  <2>2. ASSUME s4.page # 0 PROVE x \in Nat
    BY <2>1, <2>2, SizesAssumption
  <2>3. s4.page # 0 => x <= Len(s4.start) + s3
    BY DEF PagesFit
  <2> HIDE DEF x
  <2>4. s4.page # 0 => x <= Len(s4.start) + (s3 + 1)
    <3>1. s3 \in Nat /\ Len(s4.start) \in Nat
      BY <1>3
    <3>2. \A a, b, c \in Nat : a <= b + c => a <= b + (c + 1)
      OBVIOUS
    <3> QED BY <2>2, <2>3, <3>1, <3>2
  <2> QED BY <2>4 DEF x
<1>8. CASE s4.pc # "asking"
  <2>1. s4' = s4
    BY <1>2, <1>8
  <2>2. s3 + 1 \in Nat
    BY <1>3
  <2> QED BY <1>2, <1>3, <1>4, <1>6, <1>7, <1>8, <2>1, <2>2 DEF PagesFit
<1>9. CASE s4.pc = "asking"
  <2>1. /\ shorter \in Listings /\ shorter.pc = "asking" /\ shorter.found = s4.found /\ shorter.page = s4.page
        /\ shorter.start = s4.start /\ shorter.shrunk = TRUE
    BY <1>3, <1>9 DEF Listings
  <2>2. s4' = shorter
    BY <1>2, <1>9
  <2> HIDE DEF shorter
  <2>3. ASSUME NEW i \in 1 .. Len(s4.found), NEW j \in 1 .. Len(new), s4.found[i].id = new[j].id
        PROVE  j <= Len(s4.found)
    <3>1. PICK y \in 1 .. Len(s2) : new[j] = s2[y] /\ j <= y
      BY <1>5
    <3>2. y <= Len(s4.found)
      BY <2>3, <3>1, <1>9 DEF PagesFit
    <3> QED BY <3>1, <3>2, <1>3
  <2>4. s3 + 1 \in Nat /\ Len(new) <= Len(s4.start) + (s3 + 1)
    <3>1. Len(s2) <= Len(s4.start) + s3
      BY <1>9 DEF PagesFit
    <3>2. s3 \in Nat /\ Len(s4.start) \in Nat /\ Len(s2) \in Nat /\ Len(new) = Len(s2) - 1
      BY <1>3, <1>4
    <3>3. \A a, b, c \in Nat : a <= b + c => a - 1 <= b + (c + 1)
      OBVIOUS
    <3>4. s3 + 1 \in Nat
      BY <3>2
    <3>5. Len(s2) - 1 <= Len(s4.start) + (s3 + 1)
      BY <3>1, <3>2, <3>3
    <3> QED BY <3>2, <3>4, <3>5
  <2> QED BY <1>2, <1>3, <1>4, <1>6, <1>7, <1>9, <2>1, <2>2, <2>3, <2>4 DEF PagesFit
<1> QED BY <1>8, <1>9

\* What the forms of the two ecosystems and the options hold: no speed with fees, and fees
\* of one strategy; and of Stellar, what the advanced tab alone shows only there.
EvmOptionSets ==
  {o \in [speed : {Relaying!None} \cup Relaying!Speeds, fees : SUBSET Relaying!Fees, gasLimit : BOOLEAN] :
     /\ o.speed = Relaying!None \/ o.fees = {}
     /\ o.fees \subseteq Relaying!Eip1559 \/ o.fees = {"gasPrice"}}
EvmForms ==
  {f \in [open : {TRUE}, speed : {Relaying!None} \cup Relaying!Speeds, fees : SUBSET Relaying!Fees,
          gasLimit : BOOLEAN, showGasLimit : BOOLEAN] :
     /\ f.speed = Relaying!None \/ f.fees = {}
     /\ f.fees \subseteq Relaying!Eip1559 \/ f.fees = {"gasPrice"}}
StellarOptionSets == [maxFee : BOOLEAN, validUntil : BOOLEAN, feeBump : {"unset", "on", "off"}]
StellarForms ==
  {f \in [open : {TRUE}, maxFee : BOOLEAN, validUntil : BOOLEAN, feeBump : {"unset", "on", "off"},
          mode : {"basic", "advanced"}] :
     f.mode = "basic" => ~f.validUntil /\ f.feeBump # "on"}

\* The options are those the form tells, unless its timer runs.
FormFits ==
  /\ s1 \in {"evm", "stellar"} /\ s7 \in BOOLEAN
  /\ s8 \in (IF s1 = "evm" THEN EvmOptionSets ELSE StellarOptionSets)
  /\ s6.open = FALSE \/ s6 \in (IF s1 = "evm" THEN EvmForms ELSE StellarForms)
  /\ s7 => s6.open
  /\ s6.open /\ ~s7 => s8 = Relaying!Told(s6)

SentFits ==
  /\ s9 # Relaying!NotSent => s5.pc = "shown"
  /\ Relaying!RequestIsShown

RelayersFit == PagesFit(s2, s3, s4) /\ FormFits /\ SentFits

\* A form that is mounted shows the options there are, and tells them soon.
LEMMA FormMounts ==
  ASSUME FormFits, Relaying!Mount, s1' = s1
  PROVE  FormFits'
<1> USE DEF Relaying!None, Relaying!Speeds, Relaying!Fees, Relaying!Eip1559
<1>1. CASE s1 = "evm"
  <2>1. /\ s8 \in [speed : {"none"} \cup {"fast", "average"},
                   fees : SUBSET {"gasPrice", "maxFeePerGas", "maxPriorityFeePerGas"}, gasLimit : BOOLEAN]
        /\ s8.speed = "none" \/ s8.fees = {}
        /\ s8.fees \subseteq Relaying!Eip1559 \/ s8.fees = {"gasPrice"}
    BY <1>1 DEF FormFits, EvmOptionSets
  <2>2. s6' = Relaying!EvmForm /\ s7' = TRUE
    BY <1>1 DEF Relaying!Mount
  <2>3. Relaying!EvmForm \in EvmForms /\ Relaying!EvmForm.open
    BY <2>1 DEF Relaying!EvmForm, EvmForms
  <2>4. s8' \in EvmOptionSets
    <3>1. CASE s8.speed = "none" /\ s8.fees = {}
      <4>1. s8' = [Relaying!EvmOptions(Relaying!EvmForm) EXCEPT !.fees = {}]
        BY <1>1, <3>1 DEF Relaying!Mount
      <4> QED BY <2>1, <3>1, <4>1 DEF Relaying!EvmOptions, Relaying!EvmForm, EvmOptionSets
    <3>2. CASE ~(s8.speed = "none" /\ s8.fees = {})
      BY <1>1, <2>1, <3>2 DEF Relaying!Mount, EvmOptionSets
    <3> QED BY <3>1, <3>2
  <2> QED BY <1>1, <2>2, <2>3, <2>4 DEF FormFits
<1>2. CASE s1 = "stellar"
  <2>1. s8 \in StellarOptionSets
    BY <1>2 DEF FormFits
  <2>2. s6' = Relaying!StellarForm /\ s7' = TRUE /\ s8' = s8
    BY <1>2 DEF Relaying!Mount
  <2>3. Relaying!StellarForm \in StellarForms /\ Relaying!StellarForm.open
    BY <2>1 DEF Relaying!StellarForm, StellarForms, StellarOptionSets
  <2> QED BY <1>2, <2>1, <2>2, <2>3 DEF FormFits
<1> QED BY <1>1, <1>2 DEF FormFits

\* The form is changed to a fit one.
LEMMA FormChanges ==
  ASSUME FormFits, NEW changed \in (IF s1 = "evm" THEN EvmForms ELSE StellarForms), Relaying!Edit(changed)
  PROVE  FormFits'
<1>1. s1' = s1 /\ s8' = s8 /\ s6' = changed /\ s6.open /\ s7' = (s7 \/ Relaying!Told(changed) # Relaying!Told(s6))
  BY DEF Relaying!Edit
<1>2. changed.open
  BY DEF FormFits, EvmForms, StellarForms
<1>3. ASSUME ~s7' PROVE s8 = Relaying!Told(changed)
  BY <1>1, <1>3 DEF FormFits
<1>4. Relaying!Told(changed)' = Relaying!Told(changed)
  BY <1>1 DEF Relaying!Told, Relaying!EvmOptions, Relaying!StellarOptions
<1>5. (Relaying!Told(s6))' = Relaying!Told(changed)
  BY <1>1 DEF Relaying!Told, Relaying!EvmOptions, Relaying!StellarOptions
<1>6. s7' \in BOOLEAN
  BY <1>1
<1> QED BY <1>1, <1>2, <1>3, <1>5, <1>6 DEF FormFits

LEMMA EvmFormEdited == ASSUME FormFits, Relaying!EvmEdits PROVE FormFits' /\ s9 = Relaying!NotSent /\ UNCHANGED <<s2, s3, s4, s5, s9>>
<1> USE DEF Relaying!None, Relaying!Speeds, Relaying!Fees, Relaying!Eip1559
<1>1. s1 = "evm" /\ s6.open /\ s6 \in EvmForms
  BY DEF Relaying!EvmEdits, FormFits
<1>2. \E changed \in EvmForms : Relaying!Edit(changed)
  <2>1. CASE Relaying!HandleSpeedChange
    <3>1. PICK speed \in Relaying!Speeds : Relaying!Edit(Relaying!ToSpeed(speed))
      BY <2>1 DEF Relaying!HandleSpeedChange
    <3>2. Relaying!ToSpeed(speed) \in EvmForms
      BY <1>1 DEF Relaying!ToSpeed, EvmForms
    <3> QED BY <3>1, <3>2
  <2>2. CASE Relaying!HandleModeChange
    <3>1. Relaying!ToSpeed("fast") \in EvmForms
      BY <1>1 DEF Relaying!ToSpeed, EvmForms
    <3>2. ASSUME Relaying!ConfigMode = "speed"
          PROVE  [s6 EXCEPT !.speed = "none", !.fees = @ \cup Relaying!Eip1559] \in EvmForms
      BY <1>1, <3>2 DEF Relaying!ConfigMode, EvmForms
    <3> QED BY <2>2, <3>1, <3>2 DEF Relaying!HandleModeChange
  <2>3. CASE Relaying!CustomGasParameters
    <3>1. s6.speed = "none" /\ s6.fees # {}
      BY <1>1, <2>3 DEF Relaying!CustomGasParameters, Relaying!ConfigMode, EvmForms
    <3>2. Relaying!ToLegacy \in EvmForms /\ Relaying!ToEip1559 \in EvmForms
      BY <1>1, <3>1 DEF Relaying!ToLegacy, Relaying!ToEip1559, EvmForms
    <3>3. ASSUME NEW field \in Relaying!FieldsShown
          PROVE  [s6 EXCEPT !.fees = IF field \in @ THEN @ \ {field} ELSE @ \cup {field}] \in EvmForms
      BY <1>1, <3>1, <3>3 DEF Relaying!FieldsShown, Relaying!GasType, EvmForms
    <3>4. [s6 EXCEPT !.showGasLimit = ~@] \in EvmForms /\ [s6 EXCEPT !.gasLimit = ~@] \in EvmForms
      BY <1>1 DEF EvmForms
    <3> QED BY <2>3, <3>2, <3>3, <3>4 DEF Relaying!CustomGasParameters, Relaying!HandleGasTypeSwitch
  <2> QED BY <2>1, <2>2, <2>3 DEF Relaying!EvmEdits
<1>3. PICK changed \in EvmForms : Relaying!Edit(changed)
  BY <1>2
<1>4. FormFits'
  BY <1>1, <1>3, FormChanges
<1> QED BY <1>3, <1>4 DEF Relaying!Edit

LEMMA StellarFormEdited == ASSUME FormFits, Relaying!StellarEdits PROVE FormFits' /\ s9 = Relaying!NotSent /\ UNCHANGED <<s2, s3, s4, s5, s9>>
<1>1. s1 = "stellar" /\ s6.open /\ s6 \in StellarForms
  BY DEF Relaying!StellarEdits, FormFits
<1>2. \E changed \in StellarForms : Relaying!Edit(changed)
  <2>1. CASE Relaying!HandleTabChange
    <3>1. [s6 EXCEPT !.mode = "basic", !.validUntil = FALSE, !.feeBump = "unset"] \in StellarForms
      BY <1>1 DEF StellarForms
    <3>2. [s6 EXCEPT !.mode = "advanced", !.feeBump = IF @ = "on" THEN "on" ELSE "off"] \in StellarForms
      BY <1>1 DEF StellarForms
    <3> QED BY <2>1, <3>1, <3>2 DEF Relaying!HandleTabChange
  <2>2. CASE Relaying!StellarFields
    <3>1. [s6 EXCEPT !.maxFee = ~@] \in StellarForms
      BY <1>1 DEF StellarForms
    <3>2. ASSUME s6.mode = "advanced"
          PROVE  /\ [s6 EXCEPT !.feeBump = IF @ = "on" THEN "off" ELSE "on"] \in StellarForms
                 /\ [s6 EXCEPT !.validUntil = ~@] \in StellarForms
      BY <1>1, <3>2 DEF StellarForms
    <3> QED BY <2>2, <3>1, <3>2 DEF Relaying!StellarFields
  <2> QED BY <2>1, <2>2 DEF Relaying!StellarEdits
<1>3. PICK changed \in StellarForms : Relaying!Edit(changed)
  BY <1>2
<1>4. FormFits'
  BY <1>1, <1>3, FormChanges
<1> QED BY <1>3, <1>4 DEF Relaying!Edit

\* What is sent is what the form shows.
LEMMA RequestShown ==
  ASSUME FormFits, Relaying!Send
  PROVE  FormFits' /\ SentFits'
<1> USE DEF Relaying!None, Relaying!Speeds, Relaying!Fees, Relaying!Eip1559
<1>1. /\ s5.pc = "shown" /\ UNCHANGED <<s1, s5, s6, s7, s8>>
      /\ s9' = IF s1 = "evm" THEN Relaying!EvmRequest ELSE Relaying!StellarRequest
  BY DEF Relaying!Send
<1>2. FormFits'
  BY <1>1 DEF FormFits, Relaying!Told, Relaying!EvmOptions, Relaying!StellarOptions
<1>3. CASE s1 = "evm"
  <2>1. /\ s9'.speed = s8.speed /\ s9'.fees = s8.fees
    BY <1>1, <1>3 DEF Relaying!EvmRequest
  <2>2. s8 \in EvmOptionSets
    BY <1>3 DEF FormFits
  <2>3. (s9.speed = "none" \/ s9.fees = {})' /\ (s9.fees \subseteq Relaying!Eip1559 \/ s9.fees = {"gasPrice"})'
    BY <2>1, <2>2 DEF EvmOptionSets
  <2>4. ASSUME s6.open, ~s7, Relaying!Priced(s6)
        PROVE  IF Relaying!ConfigMode = "speed"
               THEN s8.speed = Relaying!SpeedShown /\ Relaying!Priced(s8)
               ELSE s8.fees = Relaying!FieldsShown
    <3>1. s8 = Relaying!Told(s6) /\ s6 \in EvmForms
      BY <1>3, <2>4 DEF FormFits
    <3>2. s8.speed = s6.speed /\ s8.fees = s6.fees
      BY <1>3, <3>1 DEF Relaying!Told, Relaying!EvmOptions
    <3> QED BY <2>4, <3>1, <3>2 DEF Relaying!ConfigMode, Relaying!SpeedShown, Relaying!Priced,
               Relaying!FieldsShown, Relaying!GasType, EvmForms
  <2>5. Relaying!RequestIsShown'
    BY <1>1, <1>3, <2>1, <2>3, <2>4 DEF Relaying!RequestIsShown, Relaying!ConfigMode, Relaying!SpeedShown,
       Relaying!Priced, Relaying!FieldsShown, Relaying!GasType
  <2> QED BY <1>1, <1>2, <2>5 DEF SentFits
<1>4. CASE s1 = "stellar"
  <2>1. /\ s9'.bump = (s8.feeBump = "on") /\ s9'.maxFee = s8.maxFee /\ s9'.validUntil = s8.validUntil
    BY <1>1, <1>4 DEF Relaying!StellarRequest
  <2>2. ASSUME s6.open, ~s7
        PROVE  /\ s8.maxFee = s6.maxFee /\ s8.feeBump = s6.feeBump /\ s8.validUntil = s6.validUntil
               /\ s6 \in StellarForms
    <3>1. s8 = Relaying!Told(s6) /\ s6 \in StellarForms
      BY <1>4, <2>2 DEF FormFits
    <3> QED BY <1>4, <3>1 DEF Relaying!Told, Relaying!StellarOptions
  <2>3. Relaying!RequestIsShown'
    BY <1>1, <1>4, <2>1, <2>2 DEF Relaying!RequestIsShown, StellarForms
  <2> QED BY <1>1, <1>2, <2>3 DEF SentFits
<1> QED BY <1>3, <1>4 DEF FormFits

LEMMA RelayersBegin == ASSUME Relaying!Init PROVE RelayersFit
<1> USE DEF Relaying!None, Relaying!Speeds, Relaying!Fees, Relaying!Eip1559
<1>1. /\ s1 \in {"evm", "stellar"} /\ s6 = Relaying!Closed /\ s7 = FALSE /\ s8 = Relaying!NoOptions
      /\ s9 = Relaying!NotSent
  BY DEF Relaying!Init
<1>2. s6.open = FALSE
  BY <1>1 DEF Relaying!Closed
<1>3. s1 = "evm" => s8 \in EvmOptionSets
  BY <1>1 DEF Relaying!NoOptions, EvmOptionSets
<1>4. s1 = "stellar" => s8 \in StellarOptionSets
  BY <1>1 DEF Relaying!NoOptions, StellarOptionSets
<1>5. FormFits
  BY <1>1, <1>2, <1>3, <1>4 DEF FormFits
<1>6. SentFits
  BY <1>1 DEF SentFits, Relaying!RequestIsShown
<1> QED BY <1>5, <1>6, RelayersInit DEF RelayersFit

\* Before the request is made there is nothing to show of it.
LEMMA NothingSent ==
  ASSUME s9 = Relaying!NotSent, s9' = s9
  PROVE  SentFits'
<1>1. s9' = Relaying!NotSent
  OBVIOUS
<1> QED BY <1>1 DEF SentFits, Relaying!RequestIsShown

\* What the list is read for leaves the form and the request alone.
LEMMA FormAndRequestKept ==
  ASSUME FormFits, SentFits, UNCHANGED <<s1, s5, s6, s7, s8, s9>>
  PROVE  FormFits' /\ SentFits'
<1>1. FormFits'
  BY DEF FormFits, Relaying!Told, Relaying!EvmOptions, Relaying!StellarOptions
<1>2. SentFits'
  BY DEF SentFits, Relaying!RequestIsShown, Relaying!ConfigMode, Relaying!SpeedShown,
     Relaying!Priced, Relaying!FieldsShown, Relaying!GasType
<1> QED BY <1>1, <1>2

LEMMA RelayersNext ==
  ASSUME RelayersFit, [Relaying!Next]_(Relaying!vars)
  PROVE  RelayersFit'
<1>0. PagesFit(s2, s3, s4) /\ FormFits /\ SentFits
  BY DEF RelayersFit
<1>a. ASSUME UNCHANGED <<s2, s3, s4>> PROVE PagesFit(s2', s3', s4')
  BY <1>0, <1>a
<1>b. ASSUME PagesFit(s2', s3', s4'), FormFits', SentFits' PROVE RelayersFit'
  <2>1. PagesFit(s2, s3, s4)'
    BY <1>b DEF PagesFit, Relaying!Fitting, Relaying!Selected
  <2> QED BY <1>b, <2>1 DEF RelayersFit
<1>1. CASE Relaying!List
  <2>1. UNCHANGED <<s1, s2, s3, s5, s6, s7, s8, s9>>
    BY <1>1 DEF Relaying!List
  <2>2. PagesFit(s2, s3, s4')
    BY <1>0, <1>1, RelayersListedFirst
  <2>3. FormFits' /\ SentFits'
    BY <1>0, <2>1, FormAndRequestKept
  <2> QED BY <1>b, <2>1, <2>2, <2>3
<1>2. CASE Relaying!PageRead
  <2>1. UNCHANGED <<s1, s2, s3, s5, s6, s7, s8, s9>>
    BY <1>2 DEF Relaying!PageRead
  <2>2. PagesFit(s2, s3, s4')
    BY <1>0, <1>2, RelayersPageRead
  <2>3. FormFits' /\ SentFits'
    BY <1>0, <2>1, FormAndRequestKept
  <2> QED BY <1>b, <2>1, <2>2, <2>3
<1>3. CASE Relaying!PageFailed
  <2>1. UNCHANGED <<s1, s2, s3, s5, s6, s7, s8, s9>>
    BY <1>3 DEF Relaying!PageFailed
  <2>2. PagesFit(s2, s3, s4')
    BY <1>0, <1>3, RelayersPageFailed
  <2>3. FormFits' /\ SentFits'
    BY <1>0, <2>1, FormAndRequestKept
  <2> QED BY <1>b, <2>1, <2>2, <2>3
<1>4. CASE Relaying!Enlist
  <2>1. UNCHANGED <<s1, s4, s5, s6, s7, s8, s9>>
    BY <1>4 DEF Relaying!Enlist
  <2>2. PagesFit(s2', s3', s4')
    BY <1>0, <1>4, <2>1, RelayersEnlist
  <2>3. FormFits' /\ SentFits'
    BY <1>0, <2>1, FormAndRequestKept
  <2> QED BY <1>b, <2>2, <2>3
<1>5. CASE Relaying!Drop
  <2>1. UNCHANGED <<s1, s5, s6, s7, s8, s9>>
    BY <1>5 DEF Relaying!Drop
  <2>2. PagesFit(s2', s3', s4')
    BY <1>0, <1>5, RelayersDrop
  <2>3. FormFits' /\ SentFits'
    BY <1>0, <2>1, FormAndRequestKept
  <2> QED BY <1>b, <2>2, <2>3
<1>6. CASE Relaying!Choose
  <2>1. UNCHANGED <<s1, s2, s3, s4, s9>> /\ s5 = Relaying!NotAsked
    BY <1>6 DEF Relaying!Choose
  <2>2. s9 = Relaying!NotSent
    BY <1>0, <2>1 DEF SentFits, Relaying!NotAsked
  <2>3. FormFits'
    <3>1. CASE s5'.pc = "shown"
      <4>1. Relaying!Mount
        BY <1>6, <3>1 DEF Relaying!Choose
      <4> QED BY <1>0, <2>1, <4>1, FormMounts
    <3>2. CASE s5'.pc # "shown"
      <4>1. UNCHANGED <<s6, s7, s8>>
        BY <1>6, <3>2 DEF Relaying!Choose
      <4> QED BY <1>0, <2>1, <4>1 DEF FormFits, Relaying!Told, Relaying!EvmOptions, Relaying!StellarOptions
    <3> QED BY <3>1, <3>2
  <2> QED BY <1>a, <1>b, <2>1, <2>2, <2>3, NothingSent
<1>7. CASE Relaying!Unmount
  <2>1. UNCHANGED <<s1, s2, s3, s4, s8, s9>> /\ s9 = Relaying!NotSent /\ s6' = Relaying!Closed /\ s7' = FALSE
    BY <1>7 DEF Relaying!Unmount
  <2>2. FormFits'
    <3>1. s6'.open = FALSE
      BY <2>1 DEF Relaying!Closed
    <3> QED BY <1>0, <2>1, <3>1 DEF FormFits
  <2> QED BY <1>a, <1>b, <2>1, <2>2, NothingSent
<1>8. CASE Relaying!Remount
  <2>1. UNCHANGED <<s1, s2, s3, s4, s9>> /\ s9 = Relaying!NotSent /\ Relaying!Mount
    BY <1>8 DEF Relaying!Remount
  <2>2. FormFits'
    BY <1>0, <2>1, FormMounts
  <2> QED BY <1>a, <1>b, <2>1, <2>2, NothingSent
<1>9. CASE Relaying!TimerFires
  <2>1. /\ UNCHANGED <<s1, s2, s3, s4, s6, s9>> /\ s9 = Relaying!NotSent
        /\ s7 /\ s7' = FALSE /\ s8' = Relaying!Told(s6)
    BY <1>9 DEF Relaying!TimerFires
  <2>2. s6 \in (IF s1 = "evm" THEN EvmForms ELSE StellarForms) /\ s1 \in {"evm", "stellar"} /\ s6.open
    BY <1>0, <2>1 DEF FormFits
  <2>3. Relaying!Told(s6) \in (IF s1 = "evm" THEN EvmOptionSets ELSE StellarOptionSets)
    <3>1. CASE s1 = "evm"
      BY <2>2, <3>1 DEF Relaying!Told, Relaying!EvmOptions, EvmForms, EvmOptionSets
    <3>2. CASE s1 = "stellar"
      BY <2>2, <3>2 DEF Relaying!Told, Relaying!StellarOptions, StellarForms, StellarOptionSets
    <3> QED BY <2>2, <3>1, <3>2
  <2>4. Relaying!Told(s6)' = Relaying!Told(s6)
    BY <2>1 DEF Relaying!Told, Relaying!EvmOptions, Relaying!StellarOptions
  <2>5. FormFits'
    BY <2>1, <2>2, <2>3, <2>4 DEF FormFits
  <2> QED BY <1>a, <1>b, <2>1, <2>5, NothingSent
<1>10. CASE Relaying!EvmEdits
  BY <1>0, <1>10, <1>a, <1>b, EvmFormEdited, NothingSent
<1>11. CASE Relaying!StellarEdits
  BY <1>0, <1>11, <1>a, <1>b, StellarFormEdited, NothingSent
<1>12. CASE Relaying!Send
  <2>1. UNCHANGED <<s2, s3, s4>>
    BY <1>12 DEF Relaying!Send
  <2>2. FormFits' /\ SentFits'
    BY <1>0, <1>12, RequestShown
  <2> QED BY <1>a, <1>b, <2>1, <2>2
<1>13. CASE UNCHANGED Relaying!vars
  <2>1. UNCHANGED <<s1, s2, s3, s4, s5, s6, s7, s8, s9>>
    BY <1>13 DEF Relaying!vars
  <2>2. FormFits' /\ SentFits'
    BY <1>0, <2>1, FormAndRequestKept
  <2> QED BY <1>a, <1>b, <2>1, <2>2
<1> QED BY <1>1, <1>2, <1>3, <1>4, <1>5, <1>6, <1>7, <1>8, <1>9, <1>10, <1>11, <1>12, <1>13 DEF Relaying!Next

LEMMA RelayersKeep == RelayersFit => Relaying!ListIsWhole /\ Relaying!RequestIsShown
<1> SUFFICES ASSUME RelayersFit PROVE Relaying!ListIsWhole /\ Relaying!RequestIsShown
  OBVIOUS
<1>1. /\ s3 \in Nat /\ s4.page \in Nat /\ s4.found \in Seq(RelayersListed)
      /\ s4.start \in Seq(RelayersListed) /\ Len(s4.start) + s3 \in Nat
  BY DEF RelayersFit, PagesFit, Listings
<1>2. \A i, j \in DOMAIN s4.found : s4.found[i].id = s4.found[j].id => i = j
  <2>1. OneEach(s4.found)
    BY DEF RelayersFit, PagesFit
  <2>2. DOMAIN s4.found = 1 .. Len(s4.found)
    BY <1>1
  <2> QED BY <2>1, <2>2 DEF OneEach
<1>3. s4.page <= ((Len(s4.start) + s3) \div PageSize) + 1
  <2> DEFINE x == Len(s4.start) + s3
  <2>1. CASE s4.page # 0
    <3>1. (s4.page - 1) * PageSize <= x
      BY <2>1 DEF RelayersFit, PagesFit
    <3> QED BY <1>1, <2>1, <3>1, PagesBound
  <2>2. CASE s4.page = 0
    <3>1. PageSize \in Nat \ {0} /\ x \in Nat
      BY <1>1, SizesAssumption
    <3> HIDE DEF x
    <3>2. x \div PageSize >= 0
      BY <3>1
    <3> QED BY <2>2, <3>1, <3>2 DEF x
  <2> QED BY <2>1, <2>2
<1>4. Relaying!ListIsWhole
  BY <1>2, <1>3 DEF RelayersFit, PagesFit, Relaying!ListIsWhole
<1> QED BY <1>4 DEF RelayersFit, SentFits

--------------------
(* The history of a contract: s1 is adapter, s2 log, s3 indexed, s4 client, *)
(* s5 paging.                                                              *)

History == INSTANCE AccessHistory
             WITH adapter <- s1, log <- s2, indexed <- s3, client <- s4, paging <- s5

\* Events, newest first, and those that are among them.
Falling(events) == \A j, k \in 1 .. Len(events) : j < k => events[j] > events[k]
Among(x, events) == \E k \in 1 .. Len(events) : events[k] = x

\* The indexer's order is of those asked for, each once.
LEMMA NewestFall ==
  ASSUME NEW n \in Nat, DOMAIN s2 = 1 .. n, Len(s2) = n, NEW events \in SUBSET (1 .. n)
  PROVE  LET newest == History!Newest(events)
         IN  /\ newest \in Seq(1 .. n) /\ Falling(newest)
             /\ \A x \in 1 .. n : Among(x, newest) <=> x \in events
<1> DEFINE order == [k \in 1 .. n |-> n + 1 - k]
<1>1. order \in Seq(1 .. n) /\ Len(order) = n /\ \A k \in 1 .. n : order[k] = n + 1 - k
  <2>1. \A k \in 1 .. n : n + 1 - k \in 1 .. n
    OBVIOUS
  <2> QED BY <2>1
<1>2. History!Newest(events) = Selected(order, events)
  BY DEF History!Newest, History!Selected, Selected
<1> HIDE DEF order
<1>3. PICK upto \in [0 .. n -> Seq(1 .. n)] :
         Selects(upto, order, events) /\ Selected(order, events) = upto[n]
  <2>1. \E upto \in [0 .. Len(order) -> Seq(1 .. n)] :
           Selects(upto, order, events) /\ Selected(order, events) = upto[Len(order)]
    BY <1>1, SelectedStepwise
  <2> QED BY <2>1, <1>1
<1>4. upto[0] = <<>> /\ \A i \in 1 .. n :
         upto[i] = IF n + 1 - i \in events THEN Append(upto[i - 1], n + 1 - i) ELSE upto[i - 1]
  BY <1>1, <1>3 DEF Selects
<1> DEFINE Goes(i) == /\ Falling(upto[i])
                      /\ \A x \in 1 .. n : Among(x, upto[i]) <=> x \in events /\ x > n - i
           T == {i \in 0 .. n : Goes(i)}
<1>5. 0 \in T
  <2>1. Len(upto[0]) = 0
    BY <1>4
  <2> QED BY <2>1 DEF Falling, Among
<1>6. ASSUME NEW i \in 1 .. n, i - 1 \in T PROVE i \in T
  <2> DEFINE p == upto[i - 1]
             r == n + 1 - i
  <2>1. i - 1 \in 0 .. n /\ p \in Seq(1 .. n) /\ Len(p) \in Nat /\ r \in 1 .. n
    BY <1>3
  <2>2. Falling(p) /\ \A x \in 1 .. n : Among(x, p) <=> x \in events /\ x >= r + 1
    BY <1>6, <2>1
  <2>3. upto[i] = IF r \in events THEN Append(p, r) ELSE p
    BY <1>4
  <2>4. n - i = r - 1
    BY <2>1
  <2> SUFFICES Goes(i)
    BY <1>6
  <2>5. CASE r \notin events
    <3>1. upto[i] = p
      BY <2>3, <2>5
    <3>2. \A x \in 1 .. n : x \in events => (x >= r + 1 <=> x > n - i)
      <4> HIDE DEF p, r
      <4>1. \A x \in 1 .. n : x \in events => x # r
        BY <2>5
      <4>2. \A x \in 1 .. n : x # r => (x >= r + 1 <=> x > r - 1)
        <5>1. r \in 1 .. n
          BY <2>1
        <5> QED BY <5>1
      <4> QED BY <4>1, <4>2, <2>4
    <3> HIDE DEF p, r
    <3> QED BY <2>2, <3>1, <3>2
  <2>6. CASE r \in events
    <3> DEFINE q == Append(p, r)
    <3> HIDE DEF p, r
    <3>1. /\ Len(q) = Len(p) + 1 /\ \A k \in 1 .. Len(p) : q[k] = p[k]
          /\ q[Len(p) + 1] = r
      BY <2>1
    <3>2. upto[i] = q
      BY <2>3, <2>6
    <3> HIDE DEF q
    <3>3. \A k \in 1 .. Len(q) : k \in 1 .. Len(p) \/ k = Len(p) + 1
      <4>1. \A m \in Nat : \A k \in 1 .. m + 1 : k \in 1 .. m \/ k = m + 1
        OBVIOUS
      <4>2. Len(p) \in Nat /\ Len(q) = Len(p) + 1
        BY <2>1, <3>1
      <4> HIDE DEF q
      <4> QED BY <4>1, <4>2
    <3>4. \A k \in 1 .. Len(p) : p[k] \in 1 .. n /\ p[k] >= r + 1
      <4> TAKE k \in 1 .. Len(p)
      <4>1. p[k] \in 1 .. n /\ Among(p[k], p)
        BY <2>1 DEF Among
      <4> QED BY <4>1, <2>2
    <3>5. Falling(q)
      <4> SUFFICES ASSUME NEW j \in 1 .. Len(q), NEW k \in 1 .. Len(q), j < k PROVE q[j] > q[k]
        BY DEF Falling
      <4>1. j \in 1 .. Len(p)
        BY <3>1, <3>3, <2>1
      <4>2. CASE k \in 1 .. Len(p)
        BY <4>1, <4>2, <3>1, <2>2 DEF Falling
      <4>3. CASE k = Len(p) + 1
        <5>1. q[k] = r /\ q[j] = p[j] /\ p[j] \in 1 .. n /\ p[j] >= r + 1 /\ r \in 1 .. n
          BY <4>1, <4>3, <3>1, <3>4, <2>1
        <5> QED BY <5>1
      <4> QED BY <4>2, <4>3, <3>3
    <3>6. ASSUME NEW x \in 1 .. n PROVE Among(x, q) <=> x \in events /\ x > n - i
      <4>1. Among(x, q) <=> Among(x, p) \/ x = r
        <5>1. Len(p) + 1 \in 1 .. Len(q) /\ \A k \in 1 .. Len(p) : k \in 1 .. Len(q)
          BY <2>1, <3>1
        <5> QED BY <5>1, <3>1, <3>3 DEF Among
      <4>2. x > n - i <=> x >= r + 1 \/ x = r
        BY <2>1, <2>4
      <4> QED BY <4>1, <4>2, <2>2, <2>6
    <3> QED BY <3>2, <3>5, <3>6
  <2> QED BY <2>5, <2>6
<1>7. n \in T
  <2> HIDE DEF T
  <2>1. \A i \in 0 .. n : i \in T
    BY <1>5, <1>6, Upto
  <2> QED BY <2>1
<1>8. Goes(n)
  BY <1>7
<1>9. upto[n] \in Seq(1 .. n)
  BY <1>3
<1> HIDE DEF T
<1>10. \A x \in 1 .. n : x > n - n
  OBVIOUS
<1> QED BY <1>2, <1>3, <1>8, <1>9, <1>10

\* Two lists of events, newest first, of which one has those of the other from some event on.
FromOn(n, s, t, c) ==
  /\ n \in Nat /\ s \in Seq(1 .. n) /\ t \in Seq(1 .. n) /\ c \in Nat /\ Falling(s) /\ Falling(t)
  /\ \A x \in 1 .. n : Among(x, s) <=> Among(x, t) /\ x >= c

\* The other begins with the one then.
LEMMA OlderFollow ==
  ASSUME NEW n, NEW s, NEW t, NEW c, FromOn(n, s, t, c)
  PROVE  /\ Len(s) <= Len(t) /\ \A k \in 1 .. Len(s) : s[k] = t[k]
         /\ c <= 1 => s = t
<1> USE DEF FromOn
<1> DEFINE T == {i \in 0 .. Len(s) : i <= Len(t) /\ \A k \in 1 .. i : s[k] = t[k]}
<1>1. /\ Len(s) \in Nat /\ Len(t) \in Nat
      /\ \A k \in 1 .. Len(s) : s[k] \in 1 .. n /\ Among(s[k], s)
      /\ \A k \in 1 .. Len(t) : t[k] \in 1 .. n /\ Among(t[k], t)
  BY DEF Among
<1>2. 0 \in T
  BY <1>1
<1>3. ASSUME NEW i \in 1 .. Len(s), i - 1 \in T PROVE i \in T
  <2>1. i - 1 <= Len(t) /\ \A k \in 1 .. i - 1 : s[k] = t[k]
    BY <1>3
  <2>2. PICK m \in 1 .. Len(t) : t[m] = s[i]
    BY <1>1 DEF Among
  <2>3. m >= i
    <3> SUFFICES ASSUME m < i PROVE FALSE
      BY <2>2, <1>1
    <3>1. m \in 1 .. i - 1 /\ m \in 1 .. Len(s)
      BY <2>2, <1>1
    <3>2. s[m] = s[i] /\ s[m] > s[i]
      BY <2>1, <2>2, <3>1, <1>1 DEF Falling
    <3> QED BY <3>1, <3>2, <1>1
  <2>4. i \in 1 .. Len(t) /\ t[i] >= s[i]
    <3>1. i \in 1 .. Len(t)
      BY <2>2, <2>3, <1>1
    <3>2. t[i] >= t[m]
      BY <2>2, <2>3, <3>1, <1>1 DEF Falling
    <3> QED BY <2>2, <3>1, <3>2
  <2>5. t[i] = s[i]
    <3>1. s[i] >= c /\ s[i] \in 1 .. n /\ t[i] \in 1 .. n
      BY <1>1, <2>4
    <3>2. t[i] >= c
      BY <3>1, <2>4
    <3>3. PICK l \in 1 .. Len(s) : s[l] = t[i]
      BY <1>1, <2>4, <3>1, <3>2 DEF Among
    <3>4. ~(l < i)
      <4> SUFFICES ASSUME l < i PROVE FALSE
        OBVIOUS
      <4>1. l \in 1 .. i - 1 /\ l \in 1 .. Len(t)
        BY <3>3, <2>4, <1>1
      <4>2. t[l] = t[i] /\ t[l] > t[i]
        BY <2>1, <3>3, <4>1, <2>4 DEF Falling
      <4> QED BY <4>2, <3>1
    <3>5. s[i] >= s[l]
      BY <3>3, <3>4, <1>1 DEF Falling
    <3> QED BY <3>1, <3>3, <3>5, <2>4
  <2>6. \A k \in 1 .. i : k \in 1 .. i - 1 \/ k = i
    BY <1>1
  <2>7. i \in 0 .. Len(s) /\ i <= Len(t)
    BY <2>4, <1>1
  <2>8. \A k \in 1 .. i : s[k] = t[k]
    BY <2>1, <2>5, <2>6
  <2> QED BY <2>7, <2>8
<1>4. Len(s) \in T
  <2> HIDE DEF T
  <2>1. \A i \in 0 .. Len(s) : i \in T
    BY <1>1, <1>2, <1>3, Upto
  <2> QED BY <2>1, <1>1
<1>5. ASSUME c <= 1 PROVE s = t
  <2>1. Len(t) <= Len(s)
    <3> SUFFICES ASSUME Len(s) < Len(t) PROVE FALSE
      BY <1>1
    <3> DEFINE m == Len(s) + 1
    <3>1. m \in 1 .. Len(t)
      BY <1>1
    <3>2. t[m] >= c /\ t[m] \in 1 .. n /\ Among(t[m], t)
      BY <3>1, <1>1, <1>5
    <3>3. PICK l \in 1 .. Len(s) : s[l] = t[m]
      BY <3>2 DEF Among
    <3>4. t[l] = t[m] /\ l < m /\ l \in 1 .. Len(t)
      BY <3>1, <3>3, <1>1, <1>4
    <3> QED BY <3>1, <3>2, <3>4 DEF Falling
  <2>2. Len(s) = Len(t) /\ \A k \in 1 .. Len(s) : s[k] = t[k]
    <3>1. Len(s) <= Len(t) /\ \A k \in 1 .. Len(s) : s[k] = t[k]
      BY <1>4
    <3> QED BY <3>1, <2>1, <1>1
  <2> HIDE DEF T
  <2> QED BY <2>2
<1> QED BY <1>4, <1>5

\* Events of roles have a role, and those of an owner or admin neither role nor account.
RoleTypes == {"ROLE_GRANTED", "ROLE_REVOKED", "ROLE_ADMIN_CHANGED", "LATER"}
HolderTypes == History!OwnershipEvents \cup History!AdminEvents \cup History!EvmEvents

LEMMA ShapesTold ==
  ASSUME NEW e \in History!Shapes
  PROVE  \/ e.type \in RoleTypes /\ e.role \in {"minter", History!Admin} /\ e.to = ""
         \/ e.type \in HolderTypes /\ e.role = "" /\ e.account = ""
<1>1. ASSUME NEW type \in {"ROLE_GRANTED", "ROLE_REVOKED"}, NEW role \in {"minter", History!Admin}, NEW a,
             e = History!Event(type, role, a, "")
      PROVE  e.type \in RoleTypes /\ e.role \in {"minter", History!Admin} /\ e.to = ""
  <2>1. e.type = type /\ e.role = role /\ e.to = ""
    BY <1>1 DEF History!Event
  <2> QED BY <2>1 DEF RoleTypes
<1>2. ASSUME NEW type \in {"ROLE_ADMIN_CHANGED", "LATER"}, NEW a, e = History!Event(type, "minter", a, "")
      PROVE  e.type \in RoleTypes /\ e.role \in {"minter", History!Admin} /\ e.to = ""
  <2>1. e.type = type /\ e.role = "minter" /\ e.to = ""
    BY <1>2 DEF History!Event
  <2> QED BY <2>1 DEF RoleTypes
<1>3. ASSUME NEW type \in HolderTypes, NEW to, e = History!Event(type, "", "", to)
      PROVE  e.type \in HolderTypes /\ e.role = "" /\ e.account = ""
  <2>1. e.type = type /\ e.role = "" /\ e.account = ""
    BY <1>3 DEF History!Event
  <2> QED BY <2>1
<1>4. \/ \E type \in {"ROLE_GRANTED", "ROLE_REVOKED"}, role \in {"minter", History!Admin}, a \in {"G1", "C1"} :
            e = History!Event(type, role, a, "")
      \/ e \in {History!Event("ROLE_ADMIN_CHANGED", "minter", "", ""), History!Event("LATER", "minter", "G1", "")}
      \/ \E type \in HolderTypes : e = History!Event(type, "", "",
              IF type \in {"OWNERSHIP_RENOUNCED", "ADMIN_RENOUNCED"} THEN "" ELSE "G1")
  <2>1. \/ \E type \in {"ROLE_GRANTED", "ROLE_REVOKED"}, role \in {"minter", History!Admin}, a \in {"G1", "C1"} :
              e = History!Event(type, role, a, History!Nobody)
        \/ e \in {History!Event("ROLE_ADMIN_CHANGED", "minter", History!Nobody, History!Nobody),
                   History!Event("LATER", "minter", "G1", History!Nobody)}
        \/ \E type \in History!OwnershipEvents \cup History!AdminEvents \cup History!EvmEvents :
              e = History!Event(type, History!NoRole, History!Nobody,
                    IF type \in {"OWNERSHIP_RENOUNCED", "ADMIN_RENOUNCED"} THEN History!Nobody ELSE "G1")
    <3> DEFINE A == {History!Event(type, role, a, History!Nobody) :
                       type \in {"ROLE_GRANTED", "ROLE_REVOKED"}, role \in {"minter", History!Admin}, a \in {"G1", "C1"}}
               B == {History!Event("ROLE_ADMIN_CHANGED", "minter", History!Nobody, History!Nobody),
                     History!Event("LATER", "minter", "G1", History!Nobody)}
               C == {History!Event(type, History!NoRole, History!Nobody,
                       IF type \in {"OWNERSHIP_RENOUNCED", "ADMIN_RENOUNCED"} THEN History!Nobody ELSE "G1") :
                       type \in History!OwnershipEvents \cup History!AdminEvents \cup History!EvmEvents}
    <3>1. e \in A \cup B \cup C
      BY DEF History!Shapes
    <3> QED BY <3>1
  <2> QED BY <2>1 DEF HolderTypes, History!Nobody, History!NoRole
<1>5. CASE e \in {History!Event("ROLE_ADMIN_CHANGED", "minter", "", ""), History!Event("LATER", "minter", "G1", "")}
  BY <1>5, <1>2
<1> QED BY <1>1, <1>3, <1>4, <1>5

LogFits ==
  /\ s1 \in {"evm", "stellar"}
  /\ s2 \in [1 .. LogSize -> [e : History!Shapes, block : Nat]]
  /\ s1 = "stellar" => \A i \in 1 .. LogSize : s2[i].e.type \notin History!EvmEvents
  /\ s3 \in 0 .. LogSize

HistoryFilters ==
  [role : {"", "minter", History!Admin, "OWNER"}, account : {"", "G1", "C1"},
   change : {""} \cup History!Changes, from : Nat, to : Nat, block : Nat, limit : Nat]

\* A change that the indexer knows is asked for by the type that it is shown for.
LEMMA TypesAsked ==
  ASSUME s1 \in {"evm", "stellar"}, NEW type \in RoleTypes \cup HolderTypes, NEW change \in History!Changes,
         s1 = "stellar" => type \notin History!EvmEvents, History!TypeOf(change) # "UNKNOWN"
  PROVE  type = History!TypeOf(change)
           <=> History!ChangeOf(type) = change /\ type # "DEFAULT_ADMIN_TRANSFER_SCHEDULED"
BY DEF History!TypeOf, History!ChangeOf, History!Changes, History!EvmChanges, History!Same, RoleTypes, HolderTypes,
   History!OwnershipEvents, History!AdminEvents, History!EvmEvents

\* What is asked of the indexer is what the filter means.
LEMMA AskedAsMeant ==
  ASSUME LogFits, NEW filter \in HistoryFilters, History!Valid(filter), NEW i \in 1 .. LogSize
  PROVE  History!Asked(filter, i) <=> History!Meant(filter, i)
<1> DEFINE e == s2[i].e
           entry == History!Entry(i)
<1>1. /\ e \in History!Shapes /\ s1 \in {"evm", "stellar"}
      /\ s1 = "stellar" => e.type \notin History!EvmEvents
  BY DEF LogFits
<1>2. \/ e.type \in RoleTypes /\ e.role \in {"minter", History!Admin} /\ e.to = ""
      \/ e.type \in HolderTypes /\ e.role = "" /\ e.account = ""
  BY <1>1, ShapesTold
<1>3. /\ entry.role = History!ResolveRole(e) /\ entry.account = History!NormalizeAccount(e)
      /\ entry.change = History!ChangeOf(e.type) /\ entry.block = s2[i].block
  BY DEF History!Entry
<1> HIDE DEF e, entry
<1> USE DEF History!NoRole, History!Nobody
<1>4. filter.role # "" => (e.role = filter.role <=> entry.role.id = filter.role /\ e.role # "")
  <2>1. ASSUME e.type \in RoleTypes
        PROVE  e.type \notin History!OwnershipEvents /\ e.type \notin History!AdminEvents \cup History!EvmEvents
    BY <2>1 DEF RoleTypes, History!OwnershipEvents, History!AdminEvents, History!EvmEvents
  <2>2. ASSUME e.type \in RoleTypes, e.role # "" PROVE entry.role.id = e.role
    <3>1. CASE s1 = "stellar"
      <4>1. History!ResolveRole(e) = [id |-> e.role, label |-> "none"]
        BY <2>2, <3>1 DEF History!ResolveRole
      <4> QED BY <4>1, <1>3
    <3>2. CASE s1 = "evm"
      <4>1. History!ResolveRole(e) = [id |-> e.role, label |-> e.role]
        BY <2>1, <2>2, <3>2 DEF History!ResolveRole, History!Ownership, History!AdminOf
      <4> QED BY <4>1, <1>3
    <3> QED BY <3>1, <3>2, <1>1
  <2>3. History!Admin # ""
    BY DEF History!Admin
  <2> QED BY <1>2, <2>2, <2>3
<1>5. filter.account # "" => (e.account = filter.account <=> entry.account = filter.account /\ e.account # "")
  BY <1>1, <1>2, <1>3 DEF History!NormalizeAccount, History!Ownership, History!AdminOf, RoleTypes, HolderTypes,
     History!OwnershipEvents, History!AdminEvents, History!EvmEvents
<1>6. filter.change # "" => (e.type = History!TypeOf(filter.change)
        <=> entry.change = filter.change /\ e.type # "DEFAULT_ADMIN_TRANSFER_SCHEDULED")
  <2> SUFFICES ASSUME filter.change # ""
               PROVE  e.type = History!TypeOf(filter.change)
                        <=> entry.change = filter.change /\ e.type # "DEFAULT_ADMIN_TRANSFER_SCHEDULED"
    OBVIOUS
  <2>1. filter.change \in History!Changes /\ History!TypeOf(filter.change) # "UNKNOWN"
    BY DEF HistoryFilters, History!Valid
  <2> QED BY <1>1, <1>2, <1>3, <2>1, TypesAsked
<1>7. /\ e = s2[i].e /\ entry = History!Entry(i)
  BY DEF e, entry
<1> QED BY <1>3, <1>4, <1>5, <1>6, <1>7 DEF History!Asked, History!Meant

LEMMA FiltersTyped == History!Filters \subseteq HistoryFilters
<1> USE DEF History!NoRole, History!Nobody
<1>1. History!NoFilter \in HistoryFilters
  BY DEF History!NoFilter, HistoryFilters
<1>2. History!Blocks \subseteq Nat /\ 0 .. MaxLimit \subseteq Nat
  BY LogAssumption DEF History!Blocks
<1>3. \A f \in HistoryFilters, limit \in Nat : History!Limited(f, limit) \in HistoryFilters
  BY DEF HistoryFilters, History!Limited
<1>4. \A c \in History!Changes : History!OfChange(c) \in HistoryFilters
  BY <1>1 DEF HistoryFilters, History!OfChange
<1>5. \A r \in History!FilterRoles, a \in History!FilterAccounts : History!OfAccount(r, a) \in HistoryFilters
  BY <1>1 DEF HistoryFilters, History!OfAccount, History!FilterRoles, History!FilterAccounts
<1>6. \A b, c \in Nat : History!Between(b, c) \in HistoryFilters
  BY <1>1 DEF HistoryFilters, History!Between
<1>7. \A b \in Nat, r \in History!FilterRoles : History!InBlock(b, r) \in HistoryFilters
  BY <1>1 DEF HistoryFilters, History!InBlock, History!FilterRoles
<1>8. ASSUME NEW f \in History!Unlimited PROVE f \in HistoryFilters
  <2> DEFINE A == {History!OfChange(c) : c \in History!Changes}
             B == {History!OfAccount(r, a) : r \in History!FilterRoles, a \in History!FilterAccounts}
             C == {History!Between(b, c) : b \in History!Blocks, c \in History!Blocks}
             D == {History!InBlock(b, r) : b \in History!Blocks \ {0}, r \in History!FilterRoles}
  <2>1. History!Unlimited = {History!NoFilter} \cup A \cup B \cup C \cup D
    BY DEF History!Unlimited
  <2>2. A \subseteq HistoryFilters
    BY <1>4
  <2>3. B \subseteq HistoryFilters
    BY <1>5
  <2>4. C \subseteq HistoryFilters
    BY <1>2, <1>6
  <2>5. D \subseteq HistoryFilters
    BY <1>2, <1>7
  <2> HIDE DEF A, B, C, D
  <2> QED BY <1>1, <1>8, <2>1, <2>2, <2>3, <2>4, <2>5
<1> QED
  <2> SUFFICES ASSUME NEW f \in History!Unlimited, NEW limit \in 0 .. MaxLimit
               PROVE  History!Limited(f, limit) \in HistoryFilters
    BY DEF History!Filters
  <2> QED BY <1>2, <1>3, <1>8

\* The page answered: of the events that follow the cursor those to the limit.
LEMMA PageOfEvents ==
  ASSUME LogFits, LogSize \in Nat, s5.filter \in HistoryFilters, History!Valid(s5.filter), s5.cursor \in 0 .. LogSize
  PROVE  LET nodes == History!Page.nodes
             more == History!Page.hasNextPage
         IN  /\ nodes \in Seq(1 .. LogSize) /\ Falling(nodes) /\ more \in BOOLEAN
             /\ more => Len(nodes) # 0
             /\ \A x \in 1 .. LogSize :
                   Among(x, nodes) <=> /\ x <= s3 /\ History!Meant(s5.filter, x)
                                       /\ s5.cursor # 0 => x < s5.cursor
                                       /\ more => x >= nodes[Len(nodes)]
<1> DEFINE n == LogSize
           events == {i \in 1 .. s3 : History!Asked(s5.filter, i) /\ (s5.cursor # 0 => i < s5.cursor)}
           found == History!Newest(events)
           limit == s5.filter.limit
           nodes == IF limit = 0 \/ Len(found) <= limit THEN found ELSE SubSeq(found, 1, limit)
           more == Len(nodes) < Len(found)
<1>1. History!Page = [nodes |-> nodes, hasNextPage |-> more]
  BY DEF History!Page, History!HistoryVariables
<1>2. /\ n \in Nat /\ DOMAIN s2 = 1 .. n /\ Len(s2) = n /\ s3 \in 0 .. n /\ limit \in Nat
  <2>1. s2 \in [1 .. n -> [e : History!Shapes, block : Nat]] /\ s3 \in 0 .. n /\ n \in Nat
    BY DEF LogFits
  <2>2. DOMAIN s2 = 1 .. n
    BY <2>1
  <2>3. s2 \in Seq([e : History!Shapes, block : Nat])
    <3> DEFINE X == [e : History!Shapes, block : Nat]
    <3> HIDE DEF X
    <3>1. \A g : g \in [1 .. n -> X] => g \in Seq(X)
      BY <2>1
    <3> QED BY <2>1, <3>1 DEF X
  <2>4. Len(s2) = n
    BY <2>1, <2>2, <2>3
  <2>5. limit \in Nat
    BY DEF HistoryFilters
  <2> QED BY <2>1, <2>2, <2>4, <2>5
<1>3. events \in SUBSET (1 .. n)
  BY <1>2
<1>4. \A x \in 1 .. n : x \in events <=> /\ x <= s3 /\ History!Meant(s5.filter, x)
                                         /\ s5.cursor # 0 => x < s5.cursor
  <2> TAKE x \in 1 .. n
  <2>1. History!Asked(s5.filter, x) <=> History!Meant(s5.filter, x)
    BY AskedAsMeant
  <2>2. x \in 1 .. s3 <=> x <= s3
    BY <1>2
  <2> QED BY <2>1, <2>2
<1> HIDE DEF n, events
<1>5. /\ found \in Seq(1 .. n) /\ Falling(found)
      /\ \A x \in 1 .. n : Among(x, found) <=> x \in events
  BY <1>2, <1>3, NewestFall
<1> HIDE DEF found, limit
<1>6. /\ nodes \in Seq(1 .. n) /\ Len(nodes) <= Len(found) /\ Len(nodes) \in Nat /\ Len(found) \in Nat
      /\ \A k \in 1 .. Len(nodes) : nodes[k] = found[k]
      /\ Len(nodes) = 0 => Len(found) = 0
  <2>1. CASE limit = 0 \/ Len(found) <= limit
    BY <2>1, <1>5
  <2>2. CASE ~(limit = 0 \/ Len(found) <= limit)
    <3>1. limit \in 1 .. Len(found) /\ nodes = SubSeq(found, 1, limit)
      BY <2>2, <1>2, <1>5
    <3> HIDE DEF nodes
    <3>2. \A k \in 1 .. limit : k \in 1 .. Len(found)
      BY <3>1, <1>5
    <3>3. nodes \in Seq(1 .. n)
      <4> DEFINE E == 1 .. n
      <4>1. found \in Seq(E) /\ limit \in Nat /\ limit <= Len(found)
        BY <3>1, <1>5
      <4> HIDE DEF E
      <4>2. SubSeq(found, 1, limit) \in Seq(E)
        BY <4>1
      <4> QED BY <4>2, <3>1 DEF E
    <3>4. Len(nodes) = limit
      BY <3>1, <1>5
    <3>5. \A k \in 1 .. limit : nodes[k] = found[k]
      BY <3>1, <3>2, <1>5
    <3>6. limit # 0 /\ limit \in Nat
      BY <3>1
    <3> QED BY <3>1, <3>3, <3>4, <3>5, <3>6, <1>5
  <2> QED BY <2>1, <2>2
<1> HIDE DEF nodes
<1>a. \A k \in 1 .. Len(nodes) : nodes[k] \in 1 .. n
  <2> DEFINE E == 1 .. n
  <2>1. nodes \in Seq(E)
    BY <1>6
  <2> HIDE DEF E
  <2>2. \A k \in 1 .. Len(nodes) : nodes[k] \in E
    BY <2>1
  <2> QED BY <2>2 DEF E
<1>7. Falling(nodes)
  BY <1>5, <1>6 DEF Falling
<1>8. more => Len(nodes) # 0
  BY <1>6
<1>9. ASSUME NEW x \in 1 .. n
      PROVE  Among(x, nodes) <=> x \in events /\ (more => x >= nodes[Len(nodes)])
  <2>1. ASSUME Among(x, nodes) PROVE x \in events /\ (more => x >= nodes[Len(nodes)])
    <3>1. PICK k \in 1 .. Len(nodes) : nodes[k] = x
      BY <2>1 DEF Among
    <3>2. Among(x, found)
      <4>1. k \in 1 .. Len(found) /\ found[k] = x
        BY <3>1, <1>6
      <4> QED BY <4>1 DEF Among
    <3>3. x >= nodes[Len(nodes)]
      <4>1. CASE k = Len(nodes)
        BY <3>1, <4>1
      <4>2. CASE k < Len(nodes)
        <5>1. Len(nodes) \in 1 .. Len(nodes)
          BY <4>2, <3>1, <1>6
        <5>2. nodes[k] > nodes[Len(nodes)]
          BY <4>2, <5>1, <3>1, <1>7 DEF Falling
        <5>3. nodes[Len(nodes)] \in 1 .. n
          BY <5>1, <1>a
        <5> QED BY <3>1, <5>2, <5>3
      <4> QED BY <4>1, <4>2, <3>1, <1>6
    <3> QED BY <3>2, <3>3, <1>5
  <2>2. ASSUME x \in events, more => x >= nodes[Len(nodes)] PROVE Among(x, nodes)
    <3>1. PICK k \in 1 .. Len(found) : found[k] = x
      BY <2>2, <1>5 DEF Among
    <3>2. k <= Len(nodes)
      <4> SUFFICES ASSUME k > Len(nodes) PROVE FALSE
        BY <3>1, <1>6
      <4>1. more
        BY <3>1, <1>6
      <4>2. Len(nodes) \in 1 .. Len(nodes) /\ Len(nodes) \in 1 .. Len(found)
        BY <4>1, <1>6, <1>8
      <4>3. found[Len(nodes)] > x
        BY <3>1, <4>2, <1>5, <1>6 DEF Falling
      <4>4. x >= nodes[Len(nodes)] /\ nodes[Len(nodes)] = found[Len(nodes)]
        BY <4>1, <4>2, <2>2, <1>6
      <4>5. nodes[Len(nodes)] \in 1 .. n
        BY <4>2, <1>a
      <4> QED BY <4>3, <4>4, <4>5
    <3>3. k \in 1 .. Len(nodes) /\ nodes[k] = x
      BY <3>1, <3>2, <1>6
    <3> QED BY <3>3 DEF Among
  <2> QED BY <2>1, <2>2
<1>10. n = LogSize
  BY DEF n
<1> HIDE DEF more
<1>11. History!Page.nodes = nodes /\ History!Page.hasNextPage = more
  BY <1>1
<1>12. more \in BOOLEAN
  BY DEF more
<1> QED BY <1>4, <1>6, <1>7, <1>8, <1>9, <1>10, <1>11, <1>12

HistoryEntries == {History!Entry(i) : i \in 1 .. LogSize}
Pagings == [pc : {"idle", "asking", "ended", "thrown"}, filter : HistoryFilters, cursor : 0 .. LogSize,
            start : 0 .. LogSize, items : Seq(HistoryEntries), failed : BOOLEAN]

EventsOf(items) == [k \in DOMAIN items |-> items[k].event]

\* The events shown are those meant of the ones that were indexed when the first page was
\* read, each once, newest first: the ones from the cursor on, and at the end all.
PagingFits(p, n, answers) ==
  /\ p \in Pagings /\ p.cursor <= p.start /\ p.start <= n /\ Falling(EventsOf(p.items))
  /\ p.pc = "idle" => p.start = 0
  /\ LET whole == p.pc = "ended" /\ ~p.failed
     IN  /\ p.cursor = 0 /\ ~whole => p.start = 0
         /\ \A x \in 1 .. LogSize :
               Among(x, EventsOf(p.items)) <=> /\ x <= p.start /\ History!Meant(p.filter, x)
                                               /\ whole \/ x >= p.cursor
  /\ p.failed => p.pc = "ended" /\ (s1 = "evm" \/ answers = "down")

HistoryFits == LogFits /\ PagingFits(s5, s3, s4)

LEMMA EntriesTyped ==
  ASSUME NEW items \in Seq(HistoryEntries), LogSize \in Nat
  PROVE  /\ EventsOf(items) \in Seq(1 .. LogSize) /\ Len(EventsOf(items)) = Len(items)
         /\ DOMAIN items = 1 .. Len(items)
         /\ \A k \in 1 .. Len(items) : /\ EventsOf(items)[k] = items[k].event /\ items[k].event \in 1 .. LogSize
                                       /\ items[k] = History!Entry(items[k].event)
<1>1. \A i : History!Entry(i).event = i
  BY DEF History!Entry
<1>2. Len(items) \in Nat /\ DOMAIN items = 1 .. Len(items) /\ \A k \in 1 .. Len(items) : items[k] \in HistoryEntries
  OBVIOUS
<1>3. \A k \in 1 .. Len(items) : items[k].event \in 1 .. LogSize /\ items[k] = History!Entry(items[k].event)
  BY <1>1, <1>2 DEF HistoryEntries
<1>4. EventsOf(items) = [k \in 1 .. Len(items) |-> items[k].event]
  BY <1>2 DEF EventsOf
<1> QED BY <1>2, <1>3, <1>4

LEMMA PageShown ==
  ASSUME HistoryFits, LogSize \in Nat, History!PageAnswered
  PROVE  PagingFits(s5', s3, s4)
<1> DEFINE n == LogSize
           page == History!Page
           nodes == page.nodes
           more == page.hasNextPage
           shown == [k \in DOMAIN nodes |-> History!Entry(nodes[k])]
           items == s5.items \o shown
           last == IF nodes = <<>> THEN 0 ELSE History!Last(nodes)
           start == IF s5.start = 0 THEN s3 ELSE s5.start
           new == [s5 EXCEPT !.items = items, !.start = start, !.cursor = last,
                             !.pc = IF more THEN "asking" ELSE "ended"]
<1>1. s5' = new /\ s5.pc = "asking" /\ History!Valid(s5.filter)
  <2>1. /\ s5.pc = "asking" /\ History!Valid(s5.filter)
        /\ s5' = [s5 EXCEPT !.items = @ \o shown, !.start = IF @ = 0 THEN s3 ELSE @, !.cursor = last,
                            !.pc = IF more THEN "asking" ELSE "ended"]
    BY DEF History!PageAnswered
  <2> QED BY <2>1
<1>2. /\ s5 \in Pagings /\ s5.cursor \in 0 .. n /\ s5.start \in 0 .. n /\ s3 \in 0 .. n
      /\ s5.cursor <= s5.start /\ s5.start <= s3 /\ (s5.cursor = 0 => s5.start = 0)
      /\ s5.filter \in HistoryFilters /\ s5.items \in Seq(HistoryEntries)
      /\ s5.failed = FALSE
      /\ Falling(EventsOf(s5.items))
      /\ \A x \in 1 .. n : Among(x, EventsOf(s5.items)) <=> /\ x <= s5.start /\ History!Meant(s5.filter, x)
                                                            /\ x >= s5.cursor
  BY <1>1 DEF HistoryFits, LogFits, PagingFits, Pagings
<1>3. /\ nodes \in Seq(1 .. n) /\ Falling(nodes) /\ more \in BOOLEAN /\ (more => Len(nodes) # 0)
      /\ \A x \in 1 .. n : Among(x, nodes) <=> /\ x <= s3 /\ History!Meant(s5.filter, x)
                                               /\ s5.cursor # 0 => x < s5.cursor
                                               /\ more => x >= nodes[Len(nodes)]
  BY <1>1, <1>2, PageOfEvents DEF HistoryFits
<1> HIDE DEF page
<1>4. /\ last \in 0 .. n /\ (Len(nodes) # 0 => last = nodes[Len(nodes)] /\ last # 0 /\ Among(last, nodes))
      /\ (Len(nodes) = 0 => last = 0)
  <2> HIDE DEF nodes
  <2>1. CASE nodes = <<>>
    BY <2>1
  <2>2. CASE nodes # <<>>
    <3>1. Len(nodes) \in 1 .. Len(nodes)
      BY <2>2, <1>3
    <3>2. last = nodes[Len(nodes)]
      BY <2>2 DEF History!Last
    <3> QED BY <3>1, <3>2, <1>3 DEF Among
  <2> QED BY <2>1, <2>2
<1> HIDE DEF last
<1>5. shown \in Seq(HistoryEntries) /\ Len(shown) = Len(nodes)
      /\ \A k \in 1 .. Len(nodes) : shown[k] = History!Entry(nodes[k])
  <2> HIDE DEF nodes
  <2>1. DOMAIN nodes = 1 .. Len(nodes) /\ Len(nodes) \in Nat /\ \A k \in 1 .. Len(nodes) : nodes[k] \in 1 .. n
    BY <1>3
  <2>2. \A k \in 1 .. Len(nodes) : History!Entry(nodes[k]) \in HistoryEntries
    BY <2>1 DEF HistoryEntries
  <2>3. shown = [k \in 1 .. Len(nodes) |-> History!Entry(nodes[k])]
    BY <2>1
  <2> HIDE DEF shown
  <2> QED BY <2>1, <2>2, <2>3
<1> HIDE DEF shown
<1> DEFINE before == s5.items
<1>a. before \in Seq(HistoryEntries) /\ Len(before) \in Nat /\ items = before \o shown
  BY <1>2
<1> HIDE DEF items, before, nodes
<1>6. /\ items \in Seq(HistoryEntries) /\ Len(items) = Len(before) + Len(nodes)
      /\ \A k \in 1 .. Len(items) : items[k] = IF k <= Len(before) THEN before[k] ELSE shown[k - Len(before)]
  <2>1. /\ before \o shown \in Seq(HistoryEntries) /\ Len(before \o shown) = Len(before) + Len(shown)
        /\ \A k \in 1 .. Len(before) + Len(shown) :
              (before \o shown)[k] = IF k <= Len(before) THEN before[k] ELSE shown[k - Len(before)]
    BY <1>a, <1>5, ConcatProperties
  <2> QED BY <2>1, <1>a, <1>5
<1> DEFINE old == EventsOf(before)
           b == Len(old)
           all == EventsOf(items)
<1>7. /\ old \in Seq(1 .. n) /\ b = Len(before) /\ b \in Nat
      /\ \A k \in 1 .. b : old[k] = before[k].event
  BY <1>a, EntriesTyped
<1>8. /\ all \in Seq(1 .. n) /\ Len(all) = b + Len(nodes) /\ Len(nodes) \in Nat
      /\ \A k \in 1 .. Len(all) : all[k] = items[k].event
  <2>1. Len(nodes) \in Nat /\ Len(items) = b + Len(nodes)
    BY <1>3, <1>6, <1>7
  <2>2. /\ all \in Seq(1 .. n) /\ Len(all) = Len(items)
        /\ \A k \in 1 .. Len(items) : all[k] = items[k].event
    BY <1>6, EntriesTyped
  <2> QED BY <2>1, <2>2
<1>9. \A k \in 1 .. Len(all) : all[k] = IF k <= b THEN old[k] ELSE nodes[k - b]
  <2> TAKE k \in 1 .. Len(all)
  <2>1. CASE k <= b
    <3>1. k \in 1 .. b
      BY <2>1, <1>7, <1>8
    <3> QED BY <2>1, <3>1, <1>6, <1>7, <1>8
  <2>2. CASE ~(k <= b)
    <3>1. k - b \in 1 .. Len(nodes) /\ k \in 1 .. Len(items)
      BY <2>2, <1>6, <1>7, <1>8
    <3>2. all[k] = History!Entry(nodes[k - b]).event
      BY <2>2, <3>1, <1>5, <1>6, <1>7, <1>8
    <3> QED BY <2>2, <3>2 DEF History!Entry
  <2> QED BY <2>1, <2>2
<1> HIDE DEF old, b, all
<1>10. /\ \A k \in 1 .. b : old[k] \in 1 .. n /\ Among(old[k], old)
       /\ \A k \in 1 .. Len(nodes) : nodes[k] \in 1 .. n /\ Among(nodes[k], nodes)
  BY <1>3, <1>7 DEF Among, b
<1>11. \A x : Among(x, all) <=> Among(x, old) \/ Among(x, nodes)
  <2> TAKE x
  <2>1. ASSUME Among(x, all) PROVE Among(x, old) \/ Among(x, nodes)
    <3>1. PICK k \in 1 .. Len(all) : all[k] = x
      BY <2>1 DEF Among
    <3>2. CASE k <= b
      <4>1. k \in 1 .. b /\ old[k] = x
        BY <3>1, <3>2, <1>7, <1>8, <1>9
      <4> QED BY <4>1, <1>10
    <3>3. CASE ~(k <= b)
      <4>1. k - b \in 1 .. Len(nodes) /\ nodes[k - b] = x
        BY <3>1, <3>3, <1>7, <1>8, <1>9
      <4> QED BY <4>1, <1>10
    <3> QED BY <3>2, <3>3
  <2>2. ASSUME Among(x, old) PROVE Among(x, all)
    <3>1. PICK k \in 1 .. b : old[k] = x
      BY <2>2 DEF Among, b
    <3>2. k \in 1 .. Len(all) /\ all[k] = x
      BY <3>1, <1>7, <1>8, <1>9
    <3> QED BY <3>2 DEF Among
  <2>3. ASSUME Among(x, nodes) PROVE Among(x, all)
    <3>1. PICK k \in 1 .. Len(nodes) : nodes[k] = x
      BY <2>3 DEF Among
    <3>2. b + k \in 1 .. Len(all) /\ ~(b + k <= b) /\ (b + k) - b = k
      BY <3>1, <1>7, <1>8
    <3>3. all[b + k] = x
      BY <3>1, <3>2, <1>9
    <3> QED BY <3>2, <3>3 DEF Among
  <2> QED BY <2>1, <2>2, <2>3
<1>12. \A x \in 1 .. n : Among(x, old) <=> x <= s5.start /\ History!Meant(s5.filter, x) /\ x >= s5.cursor
  BY <1>2 DEF old, before
<1>13. \A j \in 1 .. b, k \in 1 .. Len(nodes) : old[j] > nodes[k]
  <2> TAKE j \in 1 .. b, k \in 1 .. Len(nodes)
  <2>1. old[j] \in 1 .. n /\ old[j] <= s5.start /\ old[j] >= s5.cursor
    BY <1>10, <1>12
  <2>2. s5.cursor # 0
    BY <2>1, <1>2
  <2>3. nodes[k] \in 1 .. n /\ nodes[k] < s5.cursor
    BY <2>2, <1>3, <1>10
  <2> QED BY <2>1, <2>3, <1>2
<1>14. Falling(all)
  <2> SUFFICES ASSUME NEW j \in 1 .. Len(all), NEW k \in 1 .. Len(all), j < k PROVE all[j] > all[k]
    BY DEF Falling
  <2>1. CASE k <= b
    <3>1. j <= b /\ j \in 1 .. b /\ k \in 1 .. b
      BY <2>1, <1>7, <1>8
    <3>2. all[j] = old[j] /\ all[k] = old[k]
      BY <2>1, <3>1, <1>9
    <3> QED BY <3>1, <3>2, <1>2 DEF Falling, old, b, before
  <2>2. CASE j <= b /\ ~(k <= b)
    <3>1. j \in 1 .. b /\ k - b \in 1 .. Len(nodes)
      BY <2>2, <1>7, <1>8
    <3>2. all[j] = old[j] /\ all[k] = nodes[k - b]
      BY <2>2, <1>9
    <3> QED BY <3>1, <3>2, <1>13
  <2>3. CASE ~(j <= b)
    <3>1. ~(k <= b) /\ j - b \in 1 .. Len(nodes) /\ k - b \in 1 .. Len(nodes) /\ j - b < k - b
      BY <2>3, <1>7, <1>8
    <3>2. all[j] = nodes[j - b] /\ all[k] = nodes[k - b]
      BY <2>3, <3>1, <1>9
    <3> QED BY <3>1, <3>2, <1>3 DEF Falling
  <2> QED BY <2>1, <2>2, <2>3, <1>7
<1>15. /\ start \in 0 .. n /\ start <= s3 /\ (s5.start = 0 => start = s3) /\ (s5.start # 0 => start = s5.start)
  BY <1>2
<1> HIDE DEF start
<1>16. last <= start
  <2>1. CASE Len(nodes) = 0
    BY <2>1, <1>4, <1>15
  <2>2. CASE Len(nodes) # 0
    <3>1. last \in 1 .. n /\ last <= s3 /\ (s5.cursor # 0 => last < s5.cursor)
      BY <2>2, <1>3, <1>4
    <3> QED BY <3>1, <1>2, <1>15
  <2> QED BY <2>1, <2>2
<1>17. more /\ last = 0 => start = 0
  BY <1>3, <1>4
<1>18. ASSUME NEW x \in 1 .. n
       PROVE  Among(x, all) <=> x <= start /\ History!Meant(s5.filter, x) /\ (~more \/ x >= last)
  <2>1. Among(x, nodes) <=> /\ x <= s3 /\ History!Meant(s5.filter, x)
                            /\ s5.cursor # 0 => x < s5.cursor
                            /\ more => x >= last
    BY <1>3, <1>4
  <2>2. more => (s5.cursor # 0 => last < s5.cursor)
    BY <1>3, <1>4
  <2>3. CASE s5.cursor = 0
    BY <2>1, <2>3, <1>2, <1>11, <1>12, <1>15
  <2>4. CASE s5.cursor # 0
    <3>1. s5.start # 0 /\ start = s5.start
      BY <2>4, <1>2, <1>15
    <3> QED BY <2>1, <2>2, <2>4, <3>1, <1>2, <1>4, <1>11, <1>12
  <2> QED BY <2>3, <2>4
<1> DEFINE pc == IF more THEN "asking" ELSE "ended"
<1>19. /\ new \in Pagings /\ new.items = items /\ new.start = start /\ new.cursor = last /\ new.pc = pc
       /\ new.filter = s5.filter /\ new.failed = s5.failed
  BY <1>2, <1>4, <1>6, <1>15 DEF Pagings
<1>20. pc # "idle" /\ (pc = "ended" <=> ~more)
  BY <1>3
<1> HIDE DEF new, pc
<1>21. all = EventsOf(new.items)
  BY <1>19 DEF all
<1> QED BY <1>1, <1>2, <1>14, <1>15, <1>16, <1>17, <1>18, <1>19, <1>20, <1>21 DEF PagingFits

\* What an event is shown as stays so, since no action changes an event.
LEMMA EventsStay ==
  ASSUME UNCHANGED <<s1, s2>>, LogFits, s3' \in 0 .. LogSize, PagingFits(s5', s3', s4')
  PROVE  HistoryFits'
<1>1. LogFits'
  BY DEF LogFits
<1>2. \A i : History!Entry(i)' = History!Entry(i)
  BY DEF History!Entry, History!ChangeOf, History!ResolveRole, History!NormalizeAccount
<1>3. HistoryEntries' = HistoryEntries
  BY <1>2 DEF HistoryEntries
<1>4. Pagings' = Pagings
  BY <1>3 DEF Pagings
<1>5. \A filter, i : History!Meant(filter, i)' = History!Meant(filter, i)
  <2> TAKE filter, i
  <2>1. History!Entry(i)' = History!Entry(i) /\ s2' = s2
    BY <1>2
  <2> QED BY <2>1 DEF History!Meant
<1>6. PagingFits(s5, s3, s4)'
  <2>1. s1' = s1
    OBVIOUS
  <2> QED BY <1>4, <1>5, <2>1 DEF PagingFits
<1> QED BY <1>1, <1>6 DEF HistoryFits

LEMMA HistoryBegins == ASSUME History!Init PROVE HistoryFits
<1> DEFINE first == [pc |-> "idle", filter |-> History!NoFilter, cursor |-> 0, start |-> 0, items |-> <<>>,
                     failed |-> FALSE]
<1>1. /\ s1 \in {"evm", "stellar"} /\ s2 \in History!Logs /\ s3 \in 0 .. LogSize /\ s5 = first
      /\ s1 = "stellar" => \A i \in DOMAIN s2 : s2[i].e.type \notin History!EvmEvents
  BY DEF History!Init
<1>2. s2 \in [1 .. LogSize -> [e : History!Shapes, block : 1 .. MaxBlock]]
  BY <1>1 DEF History!Logs
<1>3. s2 \in [1 .. LogSize -> [e : History!Shapes, block : Nat]]
  <2>1. \A i \in 1 .. LogSize : s2[i] \in [e : History!Shapes, block : Nat]
    <3> TAKE i \in 1 .. LogSize
    <3>1. s2[i] \in [e : History!Shapes, block : 1 .. MaxBlock]
      BY <1>2
    <3> QED BY <3>1, LogAssumption
  <2> QED BY <1>2, <2>1
<1>4. LogFits
  BY <1>1, <1>3 DEF LogFits
<1>5. History!NoFilter \in HistoryFilters
  BY DEF History!NoFilter, HistoryFilters, History!NoRole, History!Nobody
<1>6. /\ first \in Pagings /\ first.items = <<>> /\ first.cursor = 0 /\ first.start = 0 /\ first.pc = "idle"
      /\ first.failed = FALSE
  BY <1>5, LogAssumption DEF Pagings
<1> HIDE DEF first
<1>7. Len(EventsOf(first.items)) = 0
  BY <1>6 DEF EventsOf
<1>8. Falling(EventsOf(first.items)) /\ \A x \in 1 .. LogSize : ~Among(x, EventsOf(first.items))
  BY <1>7 DEF Falling, Among
<1>9. PagingFits(first, s3, s4)
  BY <1>1, <1>6, <1>8, LogAssumption DEF PagingFits
<1> QED BY <1>1, <1>4, <1>9 DEF HistoryFits

\* A reading that stops, or whose filter is chosen, shows what it showed.
LEMMA ReadingGoesOn ==
  ASSUME HistoryFits, NEW p \in Pagings, NEW n, NEW answers,
         p.items = s5.items, p.cursor = s5.cursor, p.start = s5.start, s3 <= n, n \in 0 .. LogSize,
         p.filter = s5.filter \/ (s5.pc = "idle" /\ s5.start = 0), p.pc = "idle" => s5.pc = "idle",
         (s5.pc = "ended" /\ ~s5.failed) = (p.pc = "ended" /\ ~p.failed),
         p.failed => p.pc = "ended" /\ (s1 = "evm" \/ answers = "down")
  PROVE  PagingFits(p, n, answers)
<1>1. PagingFits(s5, s3, s4) /\ s3 \in 0 .. LogSize /\ s5.start \in 0 .. LogSize
  BY DEF HistoryFits, LogFits, PagingFits, Pagings
<1>2. CASE p.filter = s5.filter
  BY <1>1, <1>2, LogAssumption DEF PagingFits
<1>3. CASE s5.pc = "idle" /\ s5.start = 0
  BY <1>1, <1>3, LogAssumption DEF PagingFits
<1> QED BY <1>2, <1>3

LEMMA HistoryNext ==
  ASSUME HistoryFits, [History!Next]_(History!vars)
  PROVE  HistoryFits'
<1>1. /\ s5 \in Pagings /\ s3 \in 0 .. LogSize /\ s1 \in {"evm", "stellar"} /\ LogFits
      /\ s5.failed => s5.pc = "ended" /\ (s1 = "evm" \/ s4 = "down")
      /\ s5.failed \in BOOLEAN
  BY DEF HistoryFits, LogFits, PagingFits, Pagings
<1>2. UNCHANGED <<s1, s2>>
  BY DEF History!Next, History!vars, History!Index, History!GetHistory, History!Availability,
     History!PageAnswered, History!PageFails
<1>3. CASE History!Index
  <2>1. s3' = s3 + 1 /\ s3 < Len(s2) /\ s4' = s4 /\ s5' = s5
    BY <1>3 DEF History!Index
  <2>2. Len(s2) = LogSize
    <3> DEFINE X == [e : History!Shapes, block : Nat]
    <3>1. s2 \in [1 .. LogSize -> X] /\ LogSize \in Nat
      BY <1>1, LogAssumption DEF LogFits
    <3> HIDE DEF X
    <3>2. s2 \in Seq(X)
      BY <3>1
    <3> QED BY <3>1, <3>2
  <2>3. s3' \in 0 .. LogSize /\ s3 <= s3'
    BY <1>1, <2>1, <2>2, LogAssumption
  <2>4. PagingFits(s5, s3', s4)
    BY <1>1, <2>3, ReadingGoesOn
  <2> QED BY <1>1, <1>2, <2>1, <2>3, <2>4, EventsStay
<1>4. ASSUME NEW filter \in History!Filters, History!GetHistory(filter) PROVE HistoryFits'
  <2> DEFINE pc == IF s1 = "stellar" /\ filter.account = "C1" THEN "thrown" ELSE "asking"
             new == [s5 EXCEPT !.filter = filter, !.pc = pc]
  <2>1. s5' = new /\ s5.pc = "idle" /\ s3' = s3 /\ s4' = s4
    BY <1>4 DEF History!GetHistory
  <2>2. filter \in HistoryFilters
    BY FiltersTyped
  <2>3. /\ new \in Pagings /\ new.items = s5.items /\ new.cursor = s5.cursor /\ new.start = s5.start
        /\ new.pc \in {"thrown", "asking"} /\ new.failed = s5.failed
    BY <1>1, <2>2 DEF Pagings
  <2>4. s5.failed = FALSE
    BY <1>1, <2>1
  <2>5. s5.start = 0
    BY <2>1 DEF HistoryFits, PagingFits
  <2> HIDE DEF new
  <2>6. PagingFits(new, s3, s4)
    BY <1>1, <2>1, <2>3, <2>4, <2>5, LogAssumption, ReadingGoesOn
  <2> QED BY <1>1, <1>2, <2>1, <2>6, EventsStay
<1>5. ASSUME NEW up \in BOOLEAN, History!Availability(up) PROVE HistoryFits'
  <2> DEFINE new == IF up THEN s5 ELSE [s5 EXCEPT !.pc = "ended", !.failed = TRUE]
             answers == IF up THEN "up" ELSE "down"
  <2>1. s5' = new /\ s5.pc = "asking" /\ s3' = s3 /\ s4' = answers
    BY <1>5 DEF History!Availability
  <2>2. /\ new \in Pagings /\ new.items = s5.items /\ new.cursor = s5.cursor /\ new.start = s5.start
        /\ new.filter = s5.filter /\ ~(new.pc = "ended" /\ ~new.failed) /\ new.pc # "idle"
        /\ new.failed => new.pc = "ended" /\ answers = "down"
    BY <1>1, <2>1 DEF Pagings
  <2> HIDE DEF new, answers
  <2>3. PagingFits(new, s3, answers)
    BY <1>1, <2>1, <2>2, LogAssumption, ReadingGoesOn
  <2> QED BY <1>1, <1>2, <2>1, <2>3, EventsStay
<1>6. CASE History!PageAnswered
  <2>1. s3' = s3 /\ s4' = s4
    BY <1>6 DEF History!PageAnswered
  <2>2. PagingFits(s5', s3, s4)
    BY <1>6, LogAssumption, PageShown
  <2> QED BY <1>1, <1>2, <2>1, <2>2, EventsStay
<1>7. CASE History!PageFails
  <2> DEFINE new == IF s1 = "evm" THEN [s5 EXCEPT !.pc = "ended", !.failed = TRUE]
                    ELSE [s5 EXCEPT !.pc = "thrown"]
  <2>1. s5' = new /\ s5.pc = "asking" /\ s3' = s3 /\ s4' = s4
    BY <1>7 DEF History!PageFails
  <2>2. /\ new \in Pagings /\ new.items = s5.items /\ new.cursor = s5.cursor /\ new.start = s5.start
        /\ new.filter = s5.filter /\ ~(new.pc = "ended" /\ ~new.failed) /\ new.pc # "idle"
        /\ new.failed => new.pc = "ended" /\ s1 = "evm"
    BY <1>1, <2>1 DEF Pagings
  <2> HIDE DEF new
  <2>3. PagingFits(new, s3, s4)
    BY <1>1, <2>1, <2>2, LogAssumption, ReadingGoesOn
  <2> QED BY <1>1, <1>2, <2>1, <2>3, EventsStay
<1>8. CASE UNCHANGED History!vars
  <2>1. s3' = s3 /\ s4' = s4 /\ s5' = s5
    BY <1>8 DEF History!vars
  <2>2. PagingFits(s5, s3, s4)
    BY DEF HistoryFits
  <2> QED BY <1>1, <1>2, <2>1, <2>2, EventsStay
<1> QED BY <1>3, <1>4, <1>5, <1>6, <1>7, <1>8 DEF History!Next

LEMMA EntryIsTrue ==
  ASSUME LogFits, NEW i \in 1 .. LogSize
  PROVE  LET entry == History!Entry(i)
             event == s2[i].e
         IN  /\ event.account # "" => entry.account = event.account
             /\ event.to # "" => entry.account = event.to
             /\ s1 = "evm" => (entry.role.label = "OWNER" <=> event.type \in History!OwnershipEvents)
             /\ event.role # "" => entry.role.id = event.role
             /\ entry.change # "UNKNOWN" /\ event.type # "DEFAULT_ADMIN_TRANSFER_SCHEDULED"
                  => History!TypeOf(entry.change) = event.type
<1> DEFINE e == s2[i].e
           entry == History!Entry(i)
<1>1. /\ e \in History!Shapes /\ s1 \in {"evm", "stellar"}
      /\ s1 = "stellar" => e.type \notin History!EvmEvents
  BY DEF LogFits
<1>2. \/ e.type \in RoleTypes /\ e.role \in {"minter", History!Admin} /\ e.to = ""
      \/ e.type \in HolderTypes /\ e.role = "" /\ e.account = ""
  BY <1>1, ShapesTold
<1>3. /\ entry.role = History!ResolveRole(e) /\ entry.account = History!NormalizeAccount(e)
      /\ entry.change = History!ChangeOf(e.type)
  BY DEF History!Entry
<1> HIDE DEF e, entry
<1> USE DEF History!NoRole, History!Nobody, History!Ownership, History!AdminOf
<1>4. ASSUME e.type \in RoleTypes
      PROVE  e.type \notin History!OwnershipEvents /\ e.type \notin History!AdminEvents \cup History!EvmEvents
  BY <1>4 DEF RoleTypes, History!OwnershipEvents, History!AdminEvents, History!EvmEvents
<1>5. ASSUME e.type \in HolderTypes
      PROVE  e.type \in History!OwnershipEvents \/ e.type \in History!AdminEvents \cup History!EvmEvents
  BY <1>5 DEF HolderTypes
<1>6. e.account # "" => entry.account = e.account
  BY <1>2, <1>3, <1>4 DEF History!NormalizeAccount
<1>7. e.to # "" => entry.account = e.to
  BY <1>2, <1>3, <1>5 DEF History!NormalizeAccount
<1>8. ASSUME s1 = "evm" PROVE entry.role.label = "OWNER" <=> e.type \in History!OwnershipEvents
  <2>1. CASE e.type \in History!OwnershipEvents
    <3>1. e.type \notin History!AdminEvents \cup History!EvmEvents
      BY <2>1 DEF History!OwnershipEvents, History!AdminEvents, History!EvmEvents
    <3>2. History!ResolveRole(e) = [id |-> History!Admin, label |-> "OWNER"]
      BY <1>8, <2>1, <3>1 DEF History!ResolveRole
    <3> QED BY <1>3, <2>1, <3>2
  <2>2. CASE e.type \notin History!OwnershipEvents /\ e.type \in History!AdminEvents \cup History!EvmEvents
    <3>1. History!ResolveRole(e) = [id |-> History!Admin, label |-> History!Admin]
      BY <1>8, <2>2 DEF History!ResolveRole
    <3> QED BY <1>3, <2>2, <3>1 DEF History!Admin
  <2>3. CASE e.type \notin History!OwnershipEvents /\ e.type \notin History!AdminEvents \cup History!EvmEvents
    <3>1. History!ResolveRole(e).label = e.role
      BY <1>8, <2>3 DEF History!ResolveRole
    <3> QED BY <1>2, <1>3, <1>5, <2>3, <3>1 DEF History!Admin
  <2> QED BY <2>1, <2>2, <2>3
<1>9. ASSUME e.role # "" PROVE entry.role.id = e.role
  <2>1. CASE s1 = "stellar"
    <3>1. History!ResolveRole(e) = [id |-> e.role, label |-> "none"]
      BY <1>9, <2>1 DEF History!ResolveRole
    <3> QED BY <3>1, <1>3
  <2>2. CASE s1 = "evm"
    <3>1. History!ResolveRole(e) = [id |-> e.role, label |-> e.role]
      BY <1>2, <1>4, <1>9, <2>2 DEF History!ResolveRole
    <3> QED BY <3>1, <1>3
  <2> QED BY <2>1, <2>2, <1>1
<1>10. ASSUME entry.change # "UNKNOWN", e.type # "DEFAULT_ADMIN_TRANSFER_SCHEDULED"
       PROVE  History!TypeOf(entry.change) = e.type
  BY <1>1, <1>2, <1>3, <1>10 DEF History!TypeOf, History!ChangeOf, History!Same, RoleTypes, HolderTypes,
     History!OwnershipEvents, History!AdminEvents, History!EvmEvents
<1> QED BY <1>6, <1>7, <1>8, <1>9, <1>10 DEF e, entry

LEMMA HistoryKeep == HistoryFits => History!HistoryIsWhole /\ History!EntriesAreTrue
<1> SUFFICES ASSUME HistoryFits PROVE History!HistoryIsWhole /\ History!EntriesAreTrue
  OBVIOUS
<1> DEFINE n == LogSize
           shown == EventsOf(s5.items)
           events == {i \in 1 .. s5.start : History!Meant(s5.filter, i)}
           meant == History!Newest(events)
           whole == s5.pc = "ended" /\ ~s5.failed
           from == IF whole THEN 0 ELSE s5.cursor
<1>1. /\ LogFits /\ s5 \in Pagings /\ s5.cursor \in 0 .. n /\ s5.start \in 0 .. n /\ n \in Nat
      /\ s5.items \in Seq(HistoryEntries) /\ Falling(shown)
      /\ \A x \in 1 .. n : Among(x, shown) <=> /\ x <= s5.start /\ History!Meant(s5.filter, x)
                                               /\ whole \/ x >= s5.cursor
      /\ s5.failed => s1 = "evm" \/ s4 = "down"
  BY LogAssumption DEF HistoryFits, PagingFits, Pagings
<1>2. /\ shown \in Seq(1 .. n) /\ Len(shown) = Len(s5.items)
      /\ \A k \in 1 .. Len(s5.items) : s5.items[k].event \in 1 .. n /\ s5.items[k] = History!Entry(s5.items[k].event)
  BY <1>1, EntriesTyped
<1>3. DOMAIN s2 = 1 .. n /\ Len(s2) = n
  <2> DEFINE X == [e : History!Shapes, block : Nat]
  <2>1. s2 \in [1 .. n -> X]
    BY <1>1 DEF LogFits
  <2> HIDE DEF X
  <2>2. s2 \in Seq(X)
    BY <1>1, <2>1
  <2> QED BY <1>1, <2>1, <2>2
<1>4. events \in SUBSET (1 .. n) /\ \A x \in 1 .. n : x \in events <=> x <= s5.start /\ History!Meant(s5.filter, x)
  BY <1>1
<1> HIDE DEF events
<1>5. /\ meant \in Seq(1 .. n) /\ Falling(meant) /\ \A x \in 1 .. n : Among(x, meant) <=> x \in events
  BY <1>1, <1>3, <1>4, NewestFall
<1> HIDE DEF meant, shown
<1>6. \A x \in 1 .. n : Among(x, shown) <=> Among(x, meant) /\ x >= from
  <2>1. \A x \in 1 .. n : x >= from <=> whole \/ x >= s5.cursor
    BY <1>1
  <2> HIDE DEF from, whole
  <2> QED BY <2>1, <1>1, <1>4, <1>5
<1>7. from \in Nat /\ (whole => from = 0)
  BY <1>1
<1> HIDE DEF from
<1>8. /\ Len(shown) <= Len(meant) /\ \A k \in 1 .. Len(shown) : shown[k] = meant[k]
      /\ from <= 1 => shown = meant
  <2>1. FromOn(n, shown, meant, from)
    BY <1>1, <1>2, <1>5, <1>6, <1>7 DEF FromOn
  <2> QED BY <2>1, OlderFollow
<1>9. SubSeq(shown, 1, Len(shown)) = SubSeq(meant, 1, Len(shown))
  BY <1>2, <1>5, <1>8
<1>10. History!IsPrefix(shown, meant)
  BY <1>2, <1>5, <1>8, <1>9 DEF History!IsPrefix
<1>11. whole => shown = meant
  BY <1>7, <1>8
<1>12. History!HistoryIsWhole
  <2>1. shown = [k \in DOMAIN s5.items |-> s5.items[k].event]
    BY DEF shown, EventsOf
  <2>2. s1 = "stellar" /\ s5.failed => s4 = "down"
    BY <1>1
  <2> QED BY <1>10, <1>11, <2>1, <2>2 DEF History!HistoryIsWhole, meant, events
<1>13. History!EntriesAreTrue
  <2> SUFFICES ASSUME NEW k \in 1 .. Len(s5.items)
               PROVE  LET entry == s5.items[k]
                          event == s2[entry.event].e
                      IN  /\ event.account # "" => entry.account = event.account
                          /\ event.to # "" => entry.account = event.to
                          /\ s1 = "evm" => (entry.role.label = "OWNER" <=> event.type \in History!OwnershipEvents)
                          /\ event.role # "" => entry.role.id = event.role
                          /\ entry.change # "UNKNOWN" /\ event.type # "DEFAULT_ADMIN_TRANSFER_SCHEDULED"
                               => History!TypeOf(entry.change) = event.type
    <3>1. DOMAIN s5.items = 1 .. Len(s5.items)
      BY <1>1, EntriesTyped
    <3> QED BY <3>1 DEF History!EntriesAreTrue, History!NoRole, History!Nobody
  <2> DEFINE i == s5.items[k].event
  <2>1. i \in 1 .. LogSize /\ s5.items[k] = History!Entry(i)
    BY <1>2
  <2> QED BY <1>1, <2>1, EntryIsTrue
<1> QED BY <1>12, <1>13

--------------------
(* Two ABIs compared: s1 is stored, s2 fresh, s3 verdict.                  *)

Two == INSTANCE AbiComparison WITH stored <- s1, fresh <- s2, verdict <- s3

\* A list that is sorted is the same list in some order, since its places are those of
\* 1 .. n, one for each,
Sorts(order, n, ranks) ==
  /\ order \in [1 .. n -> 1 .. n] /\ \A i \in 1 .. n : \E k \in 1 .. n : order[k] = i
  /\ \A i, j \in 1 .. n : order[i] = order[j] => i = j
  /\ \A k \in 1 .. n : Two!Place(ranks, order[k]) = k
  /\ \A s : DOMAIN s = 1 .. n => Two!StableSort(s, ranks) = [k \in 1 .. n |-> s[order[k]]]

LEMMA SortPermutes ==
  ASSUME NEW n \in Nat, NEW ranks \in [1 .. n -> Nat]
  PROVE  \E order : Sorts(order, n, ranks)
<1> DEFINE S == 1 .. n
           B(i) == Two!Before(ranks, i)
           C(i) == Cardinality(B(i))
           P(i) == Two!Place(ranks, i)
           order == [k \in S |-> CHOOSE i \in S : P(i) = k]
<1>1. IsFiniteSet(S) /\ Cardinality(S) = n
  <2>1. IsFiniteSet(1 .. n) /\ Cardinality(1 .. n) = IF 1 > n THEN 0 ELSE n - 1 + 1
    BY 1 \in Int /\ n \in Int, FS_Interval
  <2> QED BY <2>1
<1>2. \A i \in S : P(i) = C(i) + 1
  BY DEF Two!Place, Two!Cardinality, Cardinality
<1>3. \A i, j \in S : j \in B(i) <=> ranks[j] < ranks[i] \/ (ranks[j] = ranks[i] /\ j < i)
  BY DEF Two!Before
<1>4. \A i \in S : ranks[i] \in Nat /\ i \in Nat /\ B(i) \in SUBSET S /\ i \notin B(i)
  BY DEF Two!Before
<1>5. \A s : DOMAIN s = S => Two!StableSort(s, ranks) = [k \in S |-> s[order[k]]]
  BY DEF Two!StableSort
<1> HIDE DEF S, B, P
<1>6. \A i \in S : P(i) \in S
  <2> TAKE i \in S
  <2>1. IsFiniteSet(B(i)) /\ C(i) <= Cardinality(S) /\ (Cardinality(S) = C(i) => S = B(i))
    BY <1>1, <1>4, FS_Subset
  <2>2. C(i) \in Nat /\ C(i) # n
    BY <2>1, <1>1, <1>4, FS_CardinalityType
  <2> QED BY <2>1, <2>2, <1>1, <1>2 DEF S
<1>7. ASSUME NEW i \in S, NEW j \in S, C(i) = C(j), i \in B(j) PROVE FALSE
  <2>1. ASSUME NEW x \in S, x \in B(i) PROVE x \in B(j)
    <3>1. ranks[x] < ranks[j] \/ (ranks[x] = ranks[j] /\ x < j)
      BY <1>3, <1>4, <1>7, <2>1
    <3> QED BY <3>1, <1>3
  <2>2. IsFiniteSet(B(j)) /\ B(i) \in SUBSET B(j)
    BY <1>1, <1>4, <2>1, FS_Subset
  <2>3. B(i) = B(j)
    BY <2>2, <1>7, FS_Subset
  <2> QED BY <2>3, <1>4, <1>7
<1>8. \A i, j \in S : P(i) = P(j) => i = j
  <2> SUFFICES ASSUME NEW i \in S, NEW j \in S, P(i) = P(j), i # j PROVE FALSE
    OBVIOUS
  <2>1. i \in B(j) \/ j \in B(i)
    BY <1>3, <1>4
  <2>2. C(i) = C(j)
    <3>1. \A k \in S : C(k) \in Nat
      BY <1>1, <1>4, FS_Subset, FS_CardinalityType
    <3> HIDE DEF C
    <3> QED BY <3>1, <1>2
  <2> QED BY <2>1, <2>2, <1>7
<1>9. \A k \in S : \E i \in S : P(i) = k
  <2> DEFINE f == [i \in S |-> P(i)]
  <2>1. f \in Injection(S, S)
    BY <1>6, <1>8 DEF Injection, IsInjective
  <2> HIDE DEF f
  <2>2. f \in Surjection(S, S)
    BY <2>1, <1>1, FS_Injection
  <2> QED BY <2>2 DEF f, Surjection
<1>10. \A k \in S : order[k] \in S /\ P(order[k]) = k
  BY <1>9
<1>11. order \in [S -> S]
  BY <1>10
<1> HIDE DEF order
<1>12. /\ \A i, j \in S : order[i] = order[j] => i = j
       /\ \A i \in S : \E k \in S : order[k] = i
  BY <1>6, <1>8, <1>10
<1>13. Sorts(order, n, ranks)
  BY <1>5, <1>10, <1>11, <1>12 DEF Sorts, S, P
<1> QED BY <1>13

\* and one that is in order stays as it is.
LEMMA SortStays ==
  ASSUME NEW n \in Nat, NEW ranks \in [1 .. n -> Nat], \A i, j \in 1 .. n : i < j => ranks[i] <= ranks[j],
         NEW X, NEW s \in [1 .. n -> X]
  PROVE  Two!StableSort(s, ranks) = s
<1>1. PICK order : Sorts(order, n, ranks)
  BY SortPermutes
<1>2. \A i \in 1 .. n : Two!Place(ranks, i) = i
  <2> TAKE i \in 1 .. n
  <2>1. Two!Before(ranks, i) = 1 .. i - 1
    <3>2. \A j \in 1 .. n : ranks[j] < ranks[i] \/ (ranks[j] = ranks[i] /\ j < i) <=> j < i
      <4> TAKE j \in 1 .. n
      <4>1. \A a, b, x, y \in Nat : (x < y => a <= b) /\ (y < x => b <= a) /\ (x = y => a = b)
                                     => (a < b \/ (a = b /\ x < y) <=> x < y)
        OBVIOUS
      <4>2. ranks[i] \in Nat /\ ranks[j] \in Nat /\ i \in Nat /\ j \in Nat
        OBVIOUS
      <4> QED BY <4>1, <4>2
    <3> QED BY <3>2 DEF Two!Before
  <2>2. Cardinality(1 .. i - 1) = IF 1 > i - 1 THEN 0 ELSE (i - 1) - 1 + 1
    BY 1 \in Int /\ i - 1 \in Int, FS_Interval
  <2>3. Two!Cardinality(1 .. i - 1) = Cardinality(1 .. i - 1)
    BY DEF Two!Cardinality, Cardinality
  <2> QED BY <2>1, <2>2, <2>3 DEF Two!Place
<1>3. \A k \in 1 .. n : order[k] = k
  BY <1>1, <1>2 DEF Sorts
<1> QED BY <1>1, <1>3 DEF Sorts

\* The items of an ABI.
Parameters == [name : Nat, type : {"uint", "address"}]
ItemKinds == {"constructor", "fallback", "receive", "function", "event", "error"}
ItemOf(kind, name, inputs, payable, flawed) ==
  [kind |-> kind, name |-> name, inputs |-> inputs, payable |-> payable, flawed |-> flawed]
Shaped(kind, name, inputs) ==
  /\ kind \in ItemKinds /\ name \in 0 .. 2 /\ (kind \in Two!Singles => name = 0)
  /\ \E n \in 0 .. 2 : inputs \in [1 .. n -> Parameters]
AnItem(x) ==
  /\ x = ItemOf(x.kind, x.name, x.inputs, x.payable, x.flawed)
  /\ Shaped(x.kind, x.name, x.inputs)

LEMMA ItemsTyped == \A x \in Two!Items : AnItem(x)
<1> DEFINE Inputs == {<<Two!Uint(1)>>, <<Two!Address(1)>>, <<Two!Uint(2)>>,
                      <<Two!Uint(1), Two!Address(2)>>, <<Two!Address(2), Two!Uint(1)>>,
                      <<Two!Address(1), Two!Uint(2)>>, <<>>}
<1>1. ASSUME NEW inputs \in Inputs PROVE \E n \in 0 .. 2 : inputs \in [1 .. n -> Parameters]
  <2> DEFINE U(n) == Two!Uint(n)
             A(n) == Two!Address(n)
  <2>1. U(1) \in Parameters /\ U(2) \in Parameters /\ A(1) \in Parameters /\ A(2) \in Parameters
    BY DEF Parameters, Two!Uint, Two!Address
  <2>2. \/ \E a \in {U(1), A(1), U(2)} : inputs = <<a>>
        \/ inputs = <<U(1), A(2)>> \/ inputs = <<A(2), U(1)>> \/ inputs = <<A(1), U(2)>>
        \/ inputs = <<>>
    BY DEF Inputs
  <2> HIDE DEF U, A, Inputs
  <2>3. \A a \in Parameters : <<a>> \in [1 .. 1 -> Parameters]
    OBVIOUS
  <2>4. \A a, b \in Parameters : <<a, b>> \in [1 .. 2 -> Parameters]
    OBVIOUS
  <2>5. CASE inputs = <<>>
    BY <2>5
  <2>6. CASE \E a \in {U(1), A(1), U(2)} : inputs = <<a>>
    BY <2>1, <2>3, <2>6
  <2>7. CASE inputs = <<U(1), A(2)>> \/ inputs = <<A(2), U(1)>> \/ inputs = <<A(1), U(2)>>
    BY <2>1, <2>4, <2>7
  <2> QED BY <2>2, <2>5, <2>6, <2>7
<1> HIDE DEF Inputs
<1>2. ASSUME NEW kind \in ItemKinds, NEW name \in 0 .. 2, NEW inputs \in Inputs, NEW payable, NEW flawed,
             kind \in Two!Singles => name = 0
      PROVE  AnItem(ItemOf(kind, name, inputs, payable, flawed))
  <2> DEFINE r == ItemOf(kind, name, inputs, payable, flawed)
  <2>1. /\ r.kind = kind /\ r.name = name /\ r.inputs = inputs
        /\ r = ItemOf(r.kind, r.name, r.inputs, r.payable, r.flawed)
    BY DEF ItemOf
  <2>2. Shaped(kind, name, inputs)
    BY <1>1, <1>2 DEF Shaped
  <2> HIDE DEF r
  <2>3. AnItem(r)
    BY <2>1, <2>2 DEF AnItem
  <2> QED BY <2>3 DEF r
<1>4. ASSUME NEW x \in Two!Items PROVE AnItem(x)
  <2> DEFINE U == <<Two!Uint(1)>>
             E == << >>
  <2>1. \/ \E inputs \in Inputs : x = ItemOf("function", 1, inputs, FALSE, FALSE)
        \/ \E kind \in {"event", "error"} : x = ItemOf(kind, 1, U, FALSE, FALSE)
        \/ \E payable \in BOOLEAN : x = ItemOf("fallback", 0, E, payable, FALSE)
        \/ x = ItemOf("function", 2, E, FALSE, FALSE) \/ x = ItemOf("receive", 0, E, TRUE, FALSE)
        \/ x = ItemOf("constructor", 0, E, FALSE, FALSE) \/ x = ItemOf("constructor", 0, U, FALSE, FALSE)
        \/ x = ItemOf("function", 0, E, FALSE, TRUE)
    BY DEF Two!Items, Two!Item, Inputs, ItemOf
  <2>2. U \in Inputs /\ E \in Inputs /\ 0 \in 0 .. 2 /\ 1 \in 0 .. 2 /\ 2 \in 0 .. 2
    BY DEF Inputs
  <2>3. \E kind \in ItemKinds, name \in 0 .. 2, inputs \in Inputs, payable \in BOOLEAN, flawed \in BOOLEAN :
          (kind \in Two!Singles => name = 0) /\ x = ItemOf(kind, name, inputs, payable, flawed)
    <3> HIDE DEF U, E
    <3> QED BY <2>1, <2>2 DEF ItemKinds, Two!Singles
  <2> QED BY <2>3, <1>2
<1> QED BY <1>4

\* The items of an ABI whose parameters are declared in order are not changed,
LEMMA ItemStays ==
  ASSUME NEW x, AnItem(x), \A p, q \in 1 .. 2 : {p, q} \subseteq DOMAIN x.inputs /\ p < q => x.inputs[p].name <= x.inputs[q].name
  PROVE  Two!NormalizeItem(x) = x
<1>1. PICK n \in 0 .. 2 : x.inputs \in [1 .. n -> Parameters]
  BY DEF AnItem, Shaped
<1> DEFINE ranks == Two!ParamRanks(x.inputs)
<1>2. \A i \in 1 .. n : ranks[i] = x.inputs[i].name /\ x.inputs[i].name \in Nat
  BY <1>1 DEF Parameters, Two!ParamRanks
<1>3. ranks \in [1 .. n -> Nat]
  BY <1>1, <1>2 DEF Two!ParamRanks
<1> HIDE DEF ranks
<1>4. \A i, j \in 1 .. n : i < j => ranks[i] <= ranks[j]
  <2>1. \A i \in 1 .. n : i \in 1 .. 2 /\ i \in DOMAIN x.inputs
    BY <1>1
  <2> QED BY <1>2, <2>1
<1>5. Two!StableSort(x.inputs, ranks) = x.inputs
  <2>1. n \in Nat
    OBVIOUS
  <2> QED BY <1>1, <1>3, <1>4, <2>1, SortStays
<1>6. x = [x EXCEPT !.inputs = x.inputs]
  BY DEF AnItem, ItemOf
<1> QED BY <1>5, <1>6 DEF Two!NormalizeItem, ranks

\* an ABI is a list of items with a selector each, and its map has each under its selector.
Listed(abi, n) ==
  /\ n \in Nat /\ abi \in [1 .. n -> Two!Items]
  /\ \A i, j \in 1 .. n : Two!Selector(abi[i]) = Two!Selector(abi[j]) => i = j
Mapped(map, abi, n) ==
  /\ DOMAIN map = {Two!Selector(abi[i]) : i \in 1 .. n}
  /\ \A i \in 1 .. n : map[Two!Selector(abi[i])] = abi[i]

LEMMA MapIs ==
  ASSUME NEW n, NEW abi, Listed(abi, n)
  PROVE  Mapped(Two!AbiMap(abi), abi, n)
<1> DEFINE K(i) == Two!Selector(abi[i])
           I(key) == CHOOSE i \in 1 .. n : K(i) = key /\ \A j \in 1 .. n : K(j) = key => j <= i
<1>1. Two!AbiMap(abi) = [key \in {K(i) : i \in 1 .. n} |-> abi[I(key)]]
  BY DEF Two!AbiMap, Two!ItemKey, Listed
<1>2. \A i, j \in 1 .. n : K(i) = K(j) => i = j
  BY DEF Listed
<1> HIDE DEF K
<1>3. ASSUME NEW i \in 1 .. n PROVE I(K(i)) = i
  <2>1. \A j \in 1 .. n : K(j) = K(i) => j <= i
    BY <1>2
  <2> QED BY <1>2, <2>1
<1> HIDE DEF I
<1>4. \A i \in 1 .. n : Two!AbiMap(abi)[K(i)] = abi[i]
  BY <1>1, <1>3
<1>5. DOMAIN Two!AbiMap(abi) = {K(i) : i \in 1 .. n}
  BY <1>1
<1> QED BY <1>4, <1>5 DEF Mapped, K

LEMMA RanksTyped ==
  ASSUME NEW n, NEW abi, Listed(abi, n)
  PROVE  Two!ItemRanks(abi) \in [1 .. n -> Nat]
<1>1. \A kind \in ItemKinds : Two!KindOrder(kind) \in Nat
  <2> TAKE kind \in ItemKinds
  <2>1. DOMAIN Two!Kinds = 1 .. 6 /\ \E i \in 1 .. 6 : Two!Kinds[i] = kind
    BY DEF Two!Kinds, ItemKinds
  <2> QED BY <2>1 DEF Two!KindOrder
<1>2. \A i \in 1 .. n : abi[i].kind \in ItemKinds /\ abi[i].name \in 0 .. 2
  BY ItemsTyped DEF Listed, AnItem, Shaped
<1>3. \A a, b \in Nat : 10 * a + b \in Nat
  OBVIOUS
<1> QED BY <1>1, <1>2, <1>3 DEF Two!ItemRanks, Listed

\* A normalised ABI has the items of the ABI in some order, and its map is the map of it.
Normal(b, abi, n) ==
  {b[i] : i \in DOMAIN b} = {abi[i] : i \in 1 .. n} /\ Mapped(Two!AbiMap(b), abi, n)

LEMMA NormalMap ==
  ASSUME NEW n, NEW abi, Listed(abi, n), Two!Named(abi)
  PROVE  Normal(Two!NormalizeAbi(abi), abi, n)
<1> DEFINE normal == Two!NormalizeAbi(abi)
           ranks == Two!ItemRanks(abi)
<1>0. n \in Nat /\ DOMAIN abi = 1 .. n /\ abi \in [1 .. n -> Two!Items]
  BY DEF Listed
<1>1. \A i \in 1 .. n : AnItem(abi[i])
  BY <1>0, ItemsTyped
<1>2. \A i \in 1 .. n : Two!NormalizeItem(abi[i]) = abi[i]
  <2> TAKE i \in 1 .. n
  <2>1. \A p, q \in 1 .. 2 : {p, q} \subseteq DOMAIN abi[i].inputs /\ p < q => abi[i].inputs[p].name <= abi[i].inputs[q].name
    BY <1>0 DEF Two!Named
  <2> QED BY <1>1, <2>1, ItemStays
<1>3. [i \in DOMAIN abi |-> Two!NormalizeItem(abi[i])] = abi
  BY <1>0, <1>2
<1>4. normal = Two!StableSort(abi, ranks)
  BY <1>3 DEF Two!NormalizeAbi
<1>5. ranks \in [1 .. n -> Nat]
  BY RanksTyped
<1> HIDE DEF ranks
<1>6. PICK order : Sorts(order, n, ranks)
  BY <1>0, <1>5, SortPermutes
<1>7. normal = [k \in 1 .. n |-> abi[order[k]]]
  BY <1>0, <1>4, <1>6 DEF Sorts
<1>8. /\ \A k \in 1 .. n : order[k] \in 1 .. n
      /\ \A i, j \in 1 .. n : order[i] = order[j] => i = j
      /\ \A i \in 1 .. n : \E k \in 1 .. n : order[k] = i
  BY <1>6 DEF Sorts
<1> HIDE DEF normal
<1>9. Listed(normal, n)
  BY <1>7, <1>8 DEF Listed
<1>10. DOMAIN normal = 1 .. n /\ \A k \in 1 .. n : normal[k] = abi[order[k]]
  BY <1>7
<1>11. {normal[i] : i \in DOMAIN normal} = {abi[i] : i \in 1 .. n}
  BY <1>8, <1>10
<1>12. Mapped(Two!AbiMap(normal), abi, n)
  <2>1. Mapped(Two!AbiMap(normal), normal, n)
    BY <1>9, MapIs
  <2>2. {Two!Selector(normal[i]) : i \in 1 .. n} = {Two!Selector(abi[i]) : i \in 1 .. n}
    <3> DEFINE K(x) == Two!Selector(x)
    <3> HIDE DEF K
    <3>1. /\ \A k \in 1 .. n : \E i \in 1 .. n : K(normal[k]) = K(abi[i])
          /\ \A i \in 1 .. n : \E k \in 1 .. n : K(normal[k]) = K(abi[i])
      <4>1. \A k \in 1 .. n : order[k] \in 1 .. n /\ K(normal[k]) = K(abi[order[k]])
        BY <1>8, <1>10
      <4> QED BY <1>8, <4>1
    <3>2. {K(normal[i]) : i \in 1 .. n} = {K(abi[i]) : i \in 1 .. n}
      BY <3>1
    <3> QED BY <3>2 DEF K
  <2>3. \A i \in 1 .. n : \E k \in 1 .. n : normal[k] = abi[i]
    BY <1>8, <1>10
  <2> QED BY <2>1, <2>2, <2>3 DEF Mapped
<1> QED BY <1>11, <1>12 DEF Normal, normal

\* What a difference weighs,
LEMMA ImpactIs ==
  ASSUME NEW x, x.kind \in ItemKinds, NEW change \in Two!Changes
  PROVE  /\ Two!Difference(x, change).impact \in {"low", "medium", "high"}
         /\ Two!Difference(x, change).impact = "high"
              <=> (x.kind = "function" /\ change = "removed") \/ (x.kind \in Two!Singles /\ change = "modified")
<1>1. Two!Difference(x, change).impact = Two!CalculateImpact(x.kind, change)
  BY DEF Two!Difference
<1>2. CASE x.kind \in Two!Singles
  BY <1>1, <1>2 DEF Two!CalculateImpact, Two!Changes, Two!Singles
<1>3. CASE x.kind = "function"
  BY <1>1, <1>3 DEF Two!CalculateImpact, Two!Changes, Two!Singles
<1>4. CASE x.kind \in {"event", "error"}
  BY <1>1, <1>4 DEF Two!CalculateImpact, Two!Changes, Two!Singles
<1> QED BY <1>2, <1>3, <1>4 DEF ItemKinds, Two!Singles

\* and all of them together.
LEMMA SeverityIs ==
  ASSUME NEW D, \A d \in D : d.impact \in {"low", "medium", "high"}
  PROVE  /\ Two!CalculateSeverity(D) = "breaking" <=> \E d \in D : d.impact = "high"
         /\ Two!CalculateSeverity(D) = "none" <=> D = {}
<1> DEFINE impacts == {d.impact : d \in D}
<1>1. Two!CalculateSeverity(D) =
        CASE "high" \in impacts -> "breaking"
          [] "high" \notin impacts /\ "medium" \in impacts -> "major"
          [] impacts = {"low"} -> "minor"
          [] OTHER -> "none"
  BY DEF Two!CalculateSeverity
<1>2. /\ impacts \subseteq {"low", "medium", "high"} /\ (impacts = {} <=> D = {})
      /\ "high" \in impacts <=> \E d \in D : d.impact = "high"
  OBVIOUS
<1> HIDE DEF impacts
<1>3. CASE "high" \in impacts
  BY <1>1, <1>2, <1>3
<1>4. CASE "high" \notin impacts /\ "medium" \in impacts
  BY <1>1, <1>2, <1>4
<1>5. CASE impacts = {"low"}
  BY <1>1, <1>2, <1>5
<1>6. CASE impacts = {}
  BY <1>1, <1>2, <1>6
<1> QED BY <1>2, <1>3, <1>4, <1>5, <1>6

\* The differences of two ABIs by their items: those the second lacks, those the first
\* lacks, and those that have another form under the same selector.
Lacks(x, abi, n) == \A j \in 1 .. n : Two!Selector(abi[j]) # Two!Selector(x)
Between(d, a1, n1, a2, n2) ==
  \/ \E i \in 1 .. n1 : Lacks(a1[i], a2, n2) /\ d = Two!Difference(a1[i], "removed")
  \/ \E j \in 1 .. n2 : Lacks(a2[j], a1, n1) /\ d = Two!Difference(a2[j], "added")
  \/ \E i \in 1 .. n1, j \in 1 .. n2 : /\ Two!Selector(a1[i]) = Two!Selector(a2[j])
                                       /\ a1[i] # a2[j] /\ d = Two!Difference(a1[i], "modified")

LEMMA DifferencesAre ==
  ASSUME NEW n1, NEW a1, NEW b1, Mapped(Two!AbiMap(b1), a1, n1),
         NEW n2, NEW a2, NEW b2, Mapped(Two!AbiMap(b2), a2, n2)
  PROVE  \A d : d \in Two!FindDifferences(b1, b2) <=> Between(d, a1, n1, a2, n2)
<1> DEFINE m1 == Two!AbiMap(b1)
           m2 == Two!AbiMap(b2)
           K1(i) == Two!Selector(a1[i])
           K2(j) == Two!Selector(a2[j])
           Diff(x, change) == Two!Difference(x, change)
<1>1. Two!FindDifferences(b1, b2) =
        {Diff(m1[k], "removed") : k \in DOMAIN m1 \ DOMAIN m2}
          \cup {Diff(m2[k], "added") : k \in DOMAIN m2 \ DOMAIN m1}
          \cup {Diff(m1[k], "modified") : k \in {k \in DOMAIN m1 \cap DOMAIN m2 : m1[k] # m2[k]}}
  BY DEF Two!FindDifferences
<1>2. /\ DOMAIN m1 = {K1(i) : i \in 1 .. n1} /\ \A i \in 1 .. n1 : m1[K1(i)] = a1[i]
      /\ DOMAIN m2 = {K2(j) : j \in 1 .. n2} /\ \A j \in 1 .. n2 : m2[K2(j)] = a2[j]
  BY DEF Mapped
<1>3. /\ \A i : Lacks(a1[i], a2, n2) <=> \A j \in 1 .. n2 : K2(j) # K1(i)
      /\ \A j : Lacks(a2[j], a1, n1) <=> \A i \in 1 .. n1 : K1(i) # K2(j)
  BY DEF Lacks
<1> HIDE DEF m1, m2, Diff
<1> TAKE d
<1> DEFINE R == \E i \in 1 .. n1 : Lacks(a1[i], a2, n2) /\ d = Diff(a1[i], "removed")
           A == \E j \in 1 .. n2 : Lacks(a2[j], a1, n1) /\ d = Diff(a2[j], "added")
           M == \E i \in 1 .. n1, j \in 1 .. n2 : K1(i) = K2(j) /\ a1[i] # a2[j] /\ d = Diff(a1[i], "modified")
<1>4. Between(d, a1, n1, a2, n2) <=> R \/ A \/ M
  BY DEF Between, Diff
<1> HIDE DEF K1, K2
<1>5. d \in {Diff(m1[k], "removed") : k \in DOMAIN m1 \ DOMAIN m2} <=> R
  BY <1>2, <1>3
<1>6. d \in {Diff(m2[k], "added") : k \in DOMAIN m2 \ DOMAIN m1} <=> A
  BY <1>2, <1>3
<1>7. d \in {Diff(m1[k], "modified") : k \in {k \in DOMAIN m1 \cap DOMAIN m2 : m1[k] # m2[k]}} <=> M
  BY <1>2
<1> HIDE DEF R, A, M
<1> QED BY <1>1, <1>4, <1>5, <1>6, <1>7

\* So the severity is as SeverityIsRight says.
SeverityOf(D, a1, n1, a2, n2) ==
  /\ Two!CalculateSeverity(D) = "breaking" <=>
       \/ \E i \in 1 .. n1 : a1[i].kind = "function" /\ Lacks(a1[i], a2, n2)
       \/ \E i \in 1 .. n1, j \in 1 .. n2 :
             a1[i].kind \in Two!Singles /\ a2[j].kind = a1[i].kind /\ a1[i] # a2[j]
  /\ Two!CalculateSeverity(D) = "none" <=> {a1[i] : i \in 1 .. n1} = {a2[j] : j \in 1 .. n2}

LEMMA SeverityFits ==
  ASSUME NEW n1, NEW a1, Listed(a1, n1), NEW n2, NEW a2, Listed(a2, n2),
         NEW D, \A d : d \in D <=> Between(d, a1, n1, a2, n2)
  PROVE  SeverityOf(D, a1, n1, a2, n2)
<1> DEFINE K(x) == Two!Selector(x)
           F(x, change) == Two!Difference(x, change)
<1>1. /\ \A i \in 1 .. n1 : AnItem(a1[i])
      /\ \A j \in 1 .. n2 : AnItem(a2[j])
  BY ItemsTyped DEF Listed
<1>2. \A x : AnItem(x) => x.kind \in ItemKinds /\ (x.kind \in Two!Singles => x.name = 0)
  BY DEF AnItem, Shaped
<1>3. ASSUME NEW x, NEW y, AnItem(x), AnItem(y), x.kind \in Two!Singles
      PROVE  K(x) = K(y) <=> y.kind = x.kind
  BY <1>2, <1>3 DEF Two!Selector
<1>4. /\ \A i, j \in 1 .. n1 : K(a1[i]) = K(a1[j]) => i = j
      /\ \A i, j \in 1 .. n2 : K(a2[i]) = K(a2[j]) => i = j
  BY DEF Listed
<1>5. \A x : AnItem(x) =>
        /\ \A change \in {"removed", "added", "modified"} : F(x, change).impact \in {"low", "medium", "high"}
        /\ F(x, "added").impact # "high" /\ (F(x, "removed").impact = "high" <=> x.kind = "function")
        /\ F(x, "modified").impact = "high" <=> x.kind \in Two!Singles
  BY <1>2, ImpactIs DEF Two!Changes, Two!Singles
<1>6. \A d : d \in D <=>
        \/ \E i \in 1 .. n1 : Lacks(a1[i], a2, n2) /\ d = F(a1[i], "removed")
        \/ \E j \in 1 .. n2 : Lacks(a2[j], a1, n1) /\ d = F(a2[j], "added")
        \/ \E i \in 1 .. n1, j \in 1 .. n2 : K(a1[i]) = K(a2[j]) /\ a1[i] # a2[j] /\ d = F(a1[i], "modified")
  BY DEF Between
<1> HIDE DEF K, F
<1>7. \A d \in D : d.impact \in {"low", "medium", "high"}
  BY <1>1, <1>5, <1>6
<1>8. (\E d \in D : d.impact = "high") <=>
        \/ \E i \in 1 .. n1 : a1[i].kind = "function" /\ Lacks(a1[i], a2, n2)
        \/ \E i \in 1 .. n1, j \in 1 .. n2 : a1[i].kind \in Two!Singles /\ K(a1[i]) = K(a2[j]) /\ a1[i] # a2[j]
  BY <1>1, <1>5, <1>6
<1>9. \A i \in 1 .. n1, j \in 1 .. n2 :
        a1[i].kind \in Two!Singles => (K(a1[i]) = K(a2[j]) <=> a2[j].kind = a1[i].kind)
  BY <1>1, <1>3
<1>10. D = {} <=> {a1[i] : i \in 1 .. n1} = {a2[j] : j \in 1 .. n2}
  <2>1. D = {} <=> /\ \A i \in 1 .. n1 : \E j \in 1 .. n2 : K(a2[j]) = K(a1[i])
                   /\ \A j \in 1 .. n2 : \E i \in 1 .. n1 : K(a1[i]) = K(a2[j])
                   /\ \A i \in 1 .. n1, j \in 1 .. n2 : K(a1[i]) = K(a2[j]) => a1[i] = a2[j]
    BY DEF Between, Lacks, K
  <2> QED BY <1>4, <2>1
<1>11. /\ Two!CalculateSeverity(D) = "breaking" <=> \E d \in D : d.impact = "high"
       /\ Two!CalculateSeverity(D) = "none" <=> D = {}
  BY <1>7, SeverityIs
<1> QED BY <1>8, <1>9, <1>10, <1>11 DEF SeverityOf

\* Whatever the order of the parameters, a function that is gone by name is a difference.
Called(x, y) == x.kind = y.kind /\ x.name = y.name
Renamed(b, abi, n) ==
  /\ n \in Nat /\ DOMAIN b = 1 .. n
  /\ \A k \in 1 .. n : \E i \in 1 .. n : Called(b[k], abi[i])
  /\ \A i \in 1 .. n : \E k \in 1 .. n : Called(b[k], abi[i])

LEMMA NormalItems ==
  ASSUME NEW n, NEW abi, Listed(abi, n)
  PROVE  Renamed(Two!NormalizeAbi(abi), abi, n)
<1> DEFINE b == Two!NormalizeAbi(abi)
           ranks == Two!ItemRanks(abi)
           s == [i \in 1 .. n |-> Two!NormalizeItem(abi[i])]
<1>1. n \in Nat /\ DOMAIN abi = 1 .. n /\ b = Two!StableSort(s, ranks)
  BY DEF Listed, Two!NormalizeAbi
<1>2. \A i \in 1 .. n : Called(s[i], abi[i])
  <2> TAKE i \in 1 .. n
  <2> DEFINE x == abi[i]
  <2>1. x = ItemOf(x.kind, x.name, x.inputs, x.payable, x.flawed)
    BY ItemsTyped DEF Listed, AnItem
  <2> HIDE DEF x
  <2>2. \A v : [x EXCEPT !.inputs = v].kind = x.kind /\ [x EXCEPT !.inputs = v].name = x.name
    BY <2>1 DEF ItemOf
  <2> QED BY <2>2 DEF x, Two!NormalizeItem, Called
<1>3. PICK order : Sorts(order, n, ranks)
  BY <1>1, RanksTyped, SortPermutes
<1>4. DOMAIN s = 1 .. n
  OBVIOUS
<1> HIDE DEF b, s, ranks
<1>5. b = [k \in 1 .. n |-> s[order[k]]]
  BY <1>1, <1>3, <1>4 DEF Sorts
<1>6. /\ \A k \in 1 .. n : order[k] \in 1 .. n /\ b[k] = s[order[k]]
      /\ \A i \in 1 .. n : \E k \in 1 .. n : order[k] = i
  BY <1>3, <1>5 DEF Sorts
<1> QED BY <1>1, <1>2, <1>5, <1>6 DEF b, Renamed

Absent(a1, n1, a2, n2) ==
  /\ Listed(a1, n1) /\ Listed(a2, n2)
  /\ \E i \in 1 .. n1 : a1[i].kind = "function" /\ \A j \in 1 .. n2 : ~Called(a2[j], a1[i])

LEMMA GoneBreaks ==
  ASSUME NEW n1, NEW a1, NEW n2, NEW a2, Absent(a1, n1, a2, n2)
  PROVE  LET b1 == Two!NormalizeAbi(a1)
             b2 == Two!NormalizeAbi(a2)
         IN  b1 # b2 /\ Two!CalculateSeverity(Two!FindDifferences(b1, b2)) = "breaking"
<1> DEFINE b1 == Two!NormalizeAbi(a1)
           b2 == Two!NormalizeAbi(a2)
           m1 == Two!AbiMap(b1)
           m2 == Two!AbiMap(b2)
           D == Two!FindDifferences(b1, b2)
           K(x) == Two!ItemKey(x)
<1>1. PICK i \in 1 .. n1 : a1[i].kind = "function" /\ \A j \in 1 .. n2 : ~Called(a2[j], a1[i])
  BY DEF Absent
<1>2. \A x, y : K(x) = K(y) => Called(x, y)
  BY DEF Two!ItemKey, Two!Selector, Called
<1>3. Renamed(b1, a1, n1) /\ Renamed(b2, a2, n2) /\ n1 \in Nat /\ DOMAIN b1 = 1 .. n1 /\ DOMAIN b2 = 1 .. n2
  BY NormalItems DEF Absent, Renamed
<1> HIDE DEF b1, b2, K
<1>4. PICK k \in 1 .. n1 : b1[k].kind = "function" /\ \A j \in 1 .. n2 : ~Called(b2[j], b1[k])
  <2>1. PICK k \in 1 .. n1 : Called(b1[k], a1[i])
    BY <1>3 DEF Renamed
  <2>2. \A w, x, y, z : Called(w, x) /\ Called(w, y) /\ Called(y, z) => Called(x, z)
    BY DEF Called
  <2>3. \A j \in 1 .. n2 : ~Called(b2[j], b1[k])
    BY <1>1, <1>3, <2>1, <2>2 DEF Renamed
  <2> QED BY <1>1, <2>1, <2>3 DEF Called
<1> DEFINE same == {j \in 1 .. n1 : K(b1[j]) = K(b1[k])}
           L == CHOOSE j \in 1 .. n1 : K(b1[j]) = K(b1[k]) /\ \A l \in 1 .. n1 : K(b1[l]) = K(b1[k]) => l <= j
<1>5. DOMAIN m1 = {K(b1[j]) : j \in 1 .. n1} /\ DOMAIN m2 = {K(b2[j]) : j \in 1 .. n2} /\ m1[K(b1[k])] = b1[L]
  BY <1>3 DEF Two!AbiMap, K
<1>6. D = {Two!Difference(m1[x], "removed") : x \in DOMAIN m1 \ DOMAIN m2}
            \cup {Two!Difference(m2[x], "added") : x \in DOMAIN m2 \ DOMAIN m1}
            \cup {Two!Difference(m1[x], "modified") : x \in {x \in DOMAIN m1 \cap DOMAIN m2 : m1[x] # m2[x]}}
  BY DEF Two!FindDifferences
<1> HIDE DEF m1, m2, D
<1>7. b1[L].kind = "function"
  <2>1. k \in same /\ \A j \in same : j \in Nat /\ n1 - j \in Nat
    BY <1>3
  <2> HIDE DEF same
  <2>2. {n1 - j : j \in same} \in SUBSET Nat /\ {n1 - j : j \in same} # {}
    BY <2>1
  <2>3. \E j \in same : \A l \in same : n1 - j <= n1 - l
    <3>1. \E x \in {n1 - j : j \in same} : \A y \in {n1 - j : j \in same} : x <= y
      BY <2>2, Least
    <3> QED BY <3>1
  <2>5. \E j \in same : \A l \in same : l <= j
    BY <1>3, <2>1, <2>3
  <2>4. K(b1[L]) = K(b1[k])
    BY <2>5 DEF same
  <2> QED BY <1>2, <1>4, <2>4 DEF Called
<1>8. K(b1[k]) \in DOMAIN m1 \ DOMAIN m2
  BY <1>2, <1>4, <1>5 DEF Called
<1>9. Two!Difference(b1[L], "removed") \in D /\ Two!Difference(b1[L], "removed").impact = "high"
  <2>1. Two!Difference(b1[L], "removed").impact = "high"
    BY <1>7, ImpactIs DEF ItemKinds, Two!Changes
  <2> DEFINE F(x) == Two!Difference(x, "removed")
             l == b1[L]
  <2>2. m1[K(b1[k])] = l /\ \A x \in DOMAIN m1 \ DOMAIN m2 : F(m1[x]) \in D
    BY <1>5, <1>6
  <2> HIDE DEF F, l
  <2>3. F(l) \in D
    BY <1>8, <2>2
  <2> QED BY <2>1, <2>3 DEF F, l
<1>10. Two!CalculateSeverity(D) = "breaking"
  BY <1>9 DEF Two!CalculateSeverity
<1>11. b1 # b2
  BY <1>8 DEF m1, m2
<1> QED BY <1>10, <1>11 DEF D, b1, b2

\* As an invariant, what the verdict is; so it is right.
ComparisonFits ==
  s1 \in Two!Abis /\ s2 \in Two!Abis /\ (s3.done => s3 = Two!CompareAbis(s1, s2))

LEMMA ComparisonInit == ASSUME Two!Init PROVE ComparisonFits
  BY DEF Two!Init, Two!NoVerdict, ComparisonFits

LEMMA ComparisonNext == ASSUME ComparisonFits, [Two!Next]_(Two!vars) PROVE ComparisonFits'
<1>1. CASE UNCHANGED <<s1, s2, s3>>
  BY <1>1 DEF ComparisonFits
<1>2. CASE Two!Compare
  BY <1>2 DEF Two!Compare, ComparisonFits
<1> QED BY <1>1, <1>2 DEF Two!Next, Two!vars

LEMMA ComparisonTells == ComparisonFits => Two!SeverityIsRight
<1> SUFFICES ASSUME ComparisonFits, s3.done PROVE Two!SeverityIsRight
  BY DEF Two!SeverityIsRight
<1> DEFINE valid == Two!ValidateAbi(s1) /\ Two!ValidateAbi(s2)
           b1 == Two!NormalizeAbi(s1)
           b2 == Two!NormalizeAbi(s2)
           D == Two!FindDifferences(b1, b2)
           S(d) == Two!CalculateSeverity(d)
           same == Two!ToSet(s1) = Two!ToSet(s2)
<1>1. s1 \in Two!Abis /\ s2 \in Two!Abis /\ s3 = Two!CompareAbis(s1, s2)
  BY DEF ComparisonFits
<1>2. \A abi \in Two!Abis : \E n : Listed(abi, n) /\ DOMAIN abi = 1 .. n
  <2>1. 0 .. MaxItems \subseteq Nat
    BY ItemsAssumption
  <2>2. \A abi \in Two!Abis : \E n \in Nat : abi \in [1 .. n -> Two!Items] /\ Two!Compiles(abi)
    BY <2>1 DEF Two!Abis
  <2> QED BY <2>2 DEF Two!Compiles, Listed
<1>3. PICK n1 : Listed(s1, n1) /\ DOMAIN s1 = 1 .. n1
  BY <1>1, <1>2
<1>4. PICK n2 : Listed(s2, n2) /\ DOMAIN s2 = 1 .. n2
  BY <1>1, <1>2
<1> DEFINE named == Two!Named(s1) /\ Two!Named(s2)
<1>5. named => Normal(b1, s1, n1) /\ Normal(b2, s2, n2)
  BY <1>3, <1>4, NormalMap
<1>6. ASSUME named
      PROVE  /\ S(D) = "breaking" <=> Two!Lost \/ Two!SingleChanged
             /\ S(D) = "none" <=> same
  <2>1. \A d : d \in D <=> Between(d, s1, n1, s2, n2)
    BY <1>5, <1>6, DifferencesAre DEF Normal
  <2> HIDE DEF D
  <2>2. SeverityOf(D, s1, n1, s2, n2)
    BY <1>3, <1>4, <2>1, SeverityFits
  <2> QED BY <1>3, <1>4, <2>2 DEF SeverityOf, Lacks, Two!Lost, Two!SingleChanged, Two!ToSet
<1>7. named /\ b1 = b2 => same
  BY <1>3, <1>4, <1>5 DEF Normal, Two!ToSet
<1>8. \A i, d, s : Two!Verdict(i, d, s).severity = s
  BY DEF Two!Verdict
<1>9. /\ ~valid => s3.severity = "breaking"
      /\ valid /\ b1 = b2 => s3.severity = "none"
      /\ valid /\ b1 # b2 => s3.severity = S(D)
  BY <1>1, <1>8 DEF Two!CompareAbis
<1>10. Two!Gone => b1 # b2 /\ S(D) = "breaking"
  <2>1. Two!Gone => Absent(s1, n1, s2, n2)
    BY <1>3, <1>4 DEF Two!Gone, Absent, Called
  <2> QED BY <2>1, GoneBreaks
<1> HIDE DEF valid, same, b1, b2, D, S, named
<1>11. /\ named => /\ s3.severity = "breaking" <=> (~valid \/ Two!Lost \/ Two!SingleChanged)
                   /\ s3.severity = "none" <=> (valid /\ same)
       /\ ~valid \/ Two!Gone => s3.severity = "breaking"
  BY <1>6, <1>7, <1>9, <1>10
<1> QED BY <1>11 DEF valid, same, named, Two!SeverityIsRight

--------------------
(* The parts together. *)

Runtime == INSTANCE ProfileRuntimeProofs
             WITH adapter <- s1, style <- s2, rpcOk <- s3, profile <- s4, phase <- s5, pos <- s6,
                  shared <- s7, lazy <- s8, built <- s9, alive <- s10, private <- s11,
                  method <- s12, torn <- s13, uses <- s14
Midnight == INSTANCE MidnightExecutionProofs
              WITH artifacts <- s1, keys <- s2, loading <- s3, loads <- s4,
                   store <- s5, legacy <- s6, write <- s7, query <- s8
Secrets == INSTANCE MidnightExecutionProofs
             WITH Writes <- Writers, Queries <- {}, MaxLoads <- 1,
                  artifacts <- s1, keys <- s2, loading <- s3, loads <- s4,
                  store <- s5, legacy <- s6, write <- s7, query <- s8

\* The state from a position on, which a part that needs less does not use.
From10 == <<s10, s11, s12, s13, s14>>
From9 == <<s9, From10>>
From7 == <<s7, s8, From9>>
From6 == <<s6, From7>>
From5 == <<s5, From6>>
From4 == <<s4, From5>>
From3 == <<s3, From4>>

Unused10 == s10 = 0 /\ s11 = 0 /\ s12 = 0 /\ s13 = 0 /\ s14 = 0
Unused9 == s9 = 0 /\ Unused10
Unused7 == s7 = 0 /\ s8 = 0 /\ Unused9
Unused6 == s6 = 0 /\ Unused7
Unused5 == s5 = 0 /\ Unused6
Unused4 == s4 = 0 /\ Unused5
Unused3 == s3 = 0 /\ Unused4

ProvedInit ==
    \/ part = "names" /\ Ens!Init /\ Unused3
    \/ part = "abis" /\ Abis!Init /\ Unused6
    \/ part = "evm" /\ Evm!Init /\ Unused7
    \/ part = "stellar" /\ Stellar!Init /\ Unused6
    \/ part = "write" /\ Write!Init /\ Unused7
    \/ part = "dialog" /\ Dialog!Init /\ Unused7
    \/ part = "watching" /\ Watching!Init /\ Unused5
    \/ part = "stellar ui" /\ StellarUi!Init /\ Unused7
    \/ part = "lace" /\ Lace!Init /\ Unused5
    \/ part = "roles" /\ Roles!Init /\ Unused6
    \/ part = "grants" /\ Grants!Init /\ Unused4
    \/ part = "relaying" /\ Relaying!Init /\ Unused10
    \/ part = "history" /\ History!Init /\ Unused6
    \/ part = "comparison" /\ Two!Init /\ Unused4
    \/ part = "runtime" /\ Runtime!Init
    \/ part = "midnight" /\ Midnight!Init /\ Unused9
    \/ part = "secrets" /\ Secrets!Init /\ Unused9

ProvedNext ==
    \/ part = "names" /\ Ens!Next /\ UNCHANGED <<part, From3>>
    \/ part = "abis" /\ Abis!Next /\ UNCHANGED <<part, From6>>
    \/ part = "evm" /\ Evm!Next /\ UNCHANGED <<part, From7>>
    \/ part = "stellar" /\ Stellar!Next /\ UNCHANGED <<part, From6>>
    \/ part = "write" /\ Write!Next /\ UNCHANGED <<part, From7>>
    \/ part = "dialog" /\ Dialog!Next /\ UNCHANGED <<part, From7>>
    \/ part = "watching" /\ Watching!Next /\ UNCHANGED <<part, From5>>
    \/ part = "stellar ui" /\ StellarUi!Next /\ UNCHANGED <<part, From7>>
    \/ part = "lace" /\ Lace!Next /\ UNCHANGED <<part, From5>>
    \/ part = "roles" /\ Roles!Next /\ UNCHANGED <<part, From6>>
    \/ part = "grants" /\ Grants!Next /\ UNCHANGED <<part, From4>>
    \/ part = "relaying" /\ Relaying!Next /\ UNCHANGED <<part, From10>>
    \/ part = "history" /\ History!Next /\ UNCHANGED <<part, From6>>
    \/ part = "comparison" /\ Two!Next /\ UNCHANGED <<part, From4>>
    \/ part = "runtime" /\ Runtime!Next /\ UNCHANGED part
    \/ part = "midnight" /\ Midnight!Next /\ UNCHANGED <<part, From9>>
    \/ part = "secrets" /\ Secrets!Next /\ UNCHANGED <<part, From9>>

vars == <<part, s1, s2, From3>>

ProvedSpec == ProvedInit /\ [][ProvedNext]_vars

--------------------
(* The properties of these parts; each is explained in its module. *)

\* A property of the part that moves.
Of(p, property) == part = p => property

\* EvmNameResolutionService: a registry that failed is never taken for one that has
\* nothing, and the gateway is blamed for this request's failures.
LookupsTold == Of("names", Ens!FailureIsNoMiss /\ Ens!BlameFitsRequest)

\* loadEvmContract: a schema comes from where the result says, and a load fails only
\* when there was nothing more to try.
LoadsTold == Of("abis", Abis!SourceIsTold /\ Abis!FailureWasEarned)

\* getOwnership and getAdminInfo: renounced is no failed read, except of Stellar's get_admin;
\* on Stellar, a pending transfer was pending as far as the indexer knew, but for what its
\* own ledger holds, one that it had is not missed, and one told expired is never accepted.
TransfersTold ==
    /\ Of("evm", Evm!RenouncedIsReal)
    /\ Of("stellar", Stellar!RenouncedIsReal /\ Stellar!PendingAgrees /\ Stellar!ExpiredIsFinal)

\* signAndBroadcast of the Stellar adapter: hash and failure are true for good.
AnswerIsTrue == Of("write", Write!AnswerIsTrue)

\* LaceWalletImplementation, the Stellar UI root and onWalletConnectionChange of wagmi's
\* implementation: who listens to a wallet is served, of wagmi's subscribers the newest, and
\* is told the status until another config is used (moved); kit and implementation agree
\* unless configurations overtook each other (overtaken); a root that found no implementation
\* (refused) listens to nothing; the dialogs of EVM and Stellar do not lock their user out.
ListenersServed ==
    /\ Of("lace", Lace!ListenersServed)
    /\ Of("watching", Watching!LatestIsServed /\ Watching!ToldIsStatus)
    /\ Of("stellar ui", StellarUi!RootFollowsWallet /\ StellarUi!OneKit
                          /\ StellarUi!CanAlwaysConnect /\ StellarUi!ConnectingIsTrue)
    /\ Of("dialog", Dialog!DialogIsUsable /\ Dialog!NamesItsChoice)

\* The indexer client, discoverKnownRoleIds, addKnownRoleIds, readCurrentRoles and
\* getCurrentRolesEnriched of the Stellar adapter: role ids given are not displaced by a
\* discovery under way, members counted are members shown, each once, by a reading in which
\* none leaves and none fails, and a grant shown is the latest of the indexer's page, up to
\* the order within a ledger.
RolesKept ==
    /\ Of("roles", Roles!GivenIdsKept /\ Roles!SteadyMembersShown)
    /\ Of("grants", Grants!GrantIsLatest)

\* getRelayers, the options forms and sendTransactionViaRelayer: the list is whole, and a
\* relayer is sent the options that its form shows.
RelayedAsShown == Of("relaying", Relaying!ListIsWhole /\ Relaying!RequestIsShown)

\* getHistory of either adapter, read page by page: each event that the filter selects is
\* shown once, and as what it was, up to the first page that fails.
HistoryShown == Of("history", History!HistoryIsWhole /\ History!EntriesAreTrue)

\* compareContractDefinitions: a function that is gone is breaking, and where parameters are
\* in the order of their names breaking changes, and only they, are called so.
SeverityIsRight == Of("comparison", Two!SeverityIsRight)

\* createRuntime builds no capability twice, and dispose() of a runtime reaches every
\* capability object that was built for it.
BuiltAreReleased == Of("runtime", Runtime!OneInstance /\ Runtime!AllReleased)

\* createPrivateStateOverlay and callCircuit: an identity secret lives in its call only.
SecretsStayPrivate ==
    /\ Of("midnight", Midnight!SecretOnlyInCall)
    /\ Of("secrets", Secrets!SecretOnlyInCall)

--------------------
(* What is proved of a part holds in every behaviour of the parts, since    *)
(* nothing but the part that moves changes its state.                       *)

PartsInv ==
    /\ Of("runtime", Runtime!IInv)
    /\ Of("write", Write!TypeOK /\ Write!WriteFits)
    /\ Of("names", NamesFit)
    /\ Of("abis", LoadFits)
    /\ Of("evm", EvmFits)
    /\ Of("stellar", StellarFits)
    /\ Of("midnight", Midnight!IInv)
    /\ Of("secrets", Secrets!IInv)
    /\ Of("dialog", DialogFits)
    /\ Of("watching", WatchingFits)
    /\ Of("stellar ui", ConnectingFits)
    /\ Of("lace", LaceFits)
    /\ Of("roles", RolesFit)
    /\ Of("grants", GrantsFit)
    /\ Of("relaying", RelayersFit)
    /\ Of("history", HistoryFits)
    /\ Of("comparison", ComparisonFits)

LEMMA PartsStart == ASSUME ProvedInit PROVE PartsInv
<1>1. Of("runtime", Runtime!IInv)
  BY Runtime!InitHolds DEF ProvedInit, Of
<1>2. Of("write", Write!TypeOK /\ Write!WriteFits)
  BY WriteInit DEF ProvedInit, Of
<1>3. Of("names", NamesFit)
  BY NameInit DEF ProvedInit, Of
<1>4. Of("abis", LoadFits)
  BY LoadInit DEF ProvedInit, Of
<1>5. Of("evm", EvmFits)
  BY EvmInit DEF ProvedInit, Of
<1>6. Of("stellar", StellarFits)
  BY StellarInit DEF ProvedInit, Of
<1>7. Of("midnight", Midnight!IInv)
  BY BoundsAssumption, NamesAssumption, Midnight!InitHolds DEF ProvedInit, Of
<1>8. Of("secrets", Secrets!IInv)
  BY NamesAssumption, Secrets!InitHolds DEF ProvedInit, Of
<1>9. Of("dialog", DialogFits)
  BY DialogInit DEF ProvedInit, Of
<1>10. Of("watching", WatchingFits)
  BY WatchingInit DEF ProvedInit, Of
<1>11. Of("stellar ui", ConnectingFits)
  BY ConnectingInit DEF ProvedInit, Of
<1>12. Of("lace", LaceFits)
  BY LaceInit DEF ProvedInit, Of
<1>13. Of("roles", RolesFit)
  BY RolesInit DEF ProvedInit, Of
<1>14. Of("grants", GrantsFit)
  BY GrantsInit DEF ProvedInit, Of
<1>15. Of("relaying", RelayersFit)
  BY RelayersBegin DEF ProvedInit, Of
<1>16. Of("history", HistoryFits)
  BY HistoryBegins DEF ProvedInit, Of
<1>17. Of("comparison", ComparisonFits)
  BY ComparisonInit DEF ProvedInit, Of
<1> QED BY <1>1, <1>2, <1>3, <1>4, <1>5, <1>6, <1>7, <1>8, <1>9, <1>10, <1>11, <1>12, <1>13, <1>14, <1>15,
        <1>16, <1>17 DEF PartsInv

LEMMA PartsMove == ASSUME PartsInv, [ProvedNext]_vars PROVE PartsInv'
<1>1. ASSUME part' = "runtime" PROVE Runtime!IInv'
  <2>1. part = "runtime" /\ [Runtime!Next]_(Runtime!vars)
    BY <1>1 DEF ProvedNext, vars, Runtime!vars, Runtime!input,
                From3, From4, From5, From6, From7, From9, From10
  <2>2. Runtime!IInv
    BY <2>1 DEF PartsInv, Of
  <2> QED BY <2>1, <2>2, Runtime!NextHolds
<1>2. ASSUME part' = "write" PROVE (Write!TypeOK /\ Write!WriteFits)'
  <2>1. part = "write" /\ [Write!Next]_(Write!vars)
    BY <1>2 DEF ProvedNext, vars, Write!vars, From3, From4, From5, From6, From7, From9, From10
  <2>2. Write!TypeOK /\ Write!WriteFits
    BY <2>1 DEF PartsInv, Of
  <2> QED BY <2>1, <2>2, WriteNext
<1>3. ASSUME part' = "names" PROVE NamesFit'
  <2>1. part = "names" /\ [Ens!Next]_(Ens!vars)
    BY <1>3 DEF ProvedNext, vars, Ens!vars, From3, From4, From5, From6, From7, From9, From10
  <2>2. NamesFit
    BY <2>1 DEF PartsInv, Of
  <2> QED BY <2>1, <2>2, NameNext
<1>4. ASSUME part' = "abis" PROVE LoadFits'
  <2>1. part = "abis" /\ [Abis!Next]_(Abis!vars)
    BY <1>4 DEF ProvedNext, vars, Abis!vars, From3, From4, From5, From6, From7, From9, From10
  <2>2. LoadFits
    BY <2>1 DEF PartsInv, Of
  <2> QED BY <2>1, <2>2, LoadNext
<1>5. ASSUME part' = "evm" PROVE EvmFits'
  <2>1. part = "evm" /\ [Evm!Next]_(Evm!vars)
    BY <1>5 DEF ProvedNext, vars, Evm!vars, From3, From4, From5, From6, From7, From9, From10
  <2>2. EvmFits
    BY <2>1 DEF PartsInv, Of
  <2> QED BY <2>1, <2>2, EvmNext
<1>6. ASSUME part' = "stellar" PROVE StellarFits'
  <2>1. part = "stellar" /\ [Stellar!Next]_(Stellar!vars)
    BY <1>6 DEF ProvedNext, vars, Stellar!vars, From3, From4, From5, From6, From7, From9, From10
  <2>2. StellarFits
    BY <2>1 DEF PartsInv, Of
  <2> QED BY <2>1, <2>2, BoundsAssumption, StellarNext
<1>7. ASSUME part' = "midnight" PROVE Midnight!IInv'
  <2>1. part = "midnight" /\ [Midnight!Next]_(Midnight!vars)
    BY <1>7 DEF ProvedNext, vars, Midnight!vars, Midnight!loaded, Midnight!persisted,
                From3, From4, From5, From6, From7, From9, From10
  <2>2. Midnight!IInv
    BY <2>1 DEF PartsInv, Of
  <2> QED BY <2>1, <2>2, BoundsAssumption, Midnight!NextHolds
<1>8. ASSUME part' = "secrets" PROVE Secrets!IInv'
  <2>1. part = "secrets" /\ [Secrets!Next]_(Secrets!vars)
    BY <1>8 DEF ProvedNext, vars, Secrets!vars, Secrets!loaded, Secrets!persisted,
                From3, From4, From5, From6, From7, From9, From10
  <2>2. Secrets!IInv
    BY <2>1 DEF PartsInv, Of
  <2> QED BY <2>1, <2>2, Secrets!NextHolds
<1>9. ASSUME part' = "dialog" PROVE DialogFits'
  <2>1. part = "dialog" /\ [Dialog!Next]_(Dialog!vars)
    BY <1>9 DEF ProvedNext, vars, Dialog!vars, From3, From4, From5, From6, From7, From9, From10
  <2>2. DialogFits
    BY <2>1 DEF PartsInv, Of
  <2> QED BY <2>1, <2>2, DialogNext
<1>10. ASSUME part' = "watching" PROVE WatchingFits'
  <2>1. part = "watching" /\ [Watching!Next]_(Watching!vars)
    BY <1>10 DEF ProvedNext, vars, Watching!vars, From3, From4, From5, From6, From7, From9, From10
  <2>2. WatchingFits
    BY <2>1 DEF PartsInv, Of
  <2> QED BY <2>1, <2>2, WatchingNext
<1>11. ASSUME part' = "stellar ui" PROVE ConnectingFits'
  <2>1. part = "stellar ui" /\ [StellarUi!Next]_(StellarUi!vars)
    BY <1>11 DEF ProvedNext, vars, StellarUi!vars, From3, From4, From5, From6, From7, From9, From10
  <2>2. ConnectingFits
    BY <2>1 DEF PartsInv, Of
  <2> QED BY <2>1, <2>2, ConnectingNext
<1>12. ASSUME part' = "lace" PROVE LaceFits'
  <2>1. part = "lace" /\ [Lace!Next]_(Lace!vars)
    BY <1>12 DEF ProvedNext, vars, Lace!vars, From3, From4, From5, From6, From7, From9, From10
  <2>2. LaceFits
    BY <2>1 DEF PartsInv, Of
  <2> QED BY <2>1, <2>2, LaceNext
<1>13. ASSUME part' = "roles" PROVE RolesFit'
  <2>1. part = "roles" /\ [Roles!Next]_(Roles!vars)
    BY <1>13 DEF ProvedNext, vars, Roles!vars, From3, From4, From5, From6, From7, From9, From10
  <2>2. RolesFit
    BY <2>1 DEF PartsInv, Of
  <2> QED BY <2>1, <2>2, RolesNext
<1>14. ASSUME part' = "grants" PROVE GrantsFit'
  <2>1. part = "grants" /\ [Grants!Next]_(Grants!vars)
    BY <1>14 DEF ProvedNext, vars, Grants!vars, From3, From4, From5, From6, From7, From9, From10
  <2>2. GrantsFit
    BY <2>1 DEF PartsInv, Of
  <2> QED BY <2>1, <2>2, GrantsNext
<1>15. ASSUME part' = "relaying" PROVE RelayersFit'
  <2>1. part = "relaying" /\ [Relaying!Next]_(Relaying!vars)
    BY <1>15 DEF ProvedNext, vars, Relaying!vars, From3, From4, From5, From6, From7, From9, From10
  <2>2. RelayersFit
    BY <2>1 DEF PartsInv, Of
  <2> QED BY <2>1, <2>2, RelayersNext
<1>16. ASSUME part' = "history" PROVE HistoryFits'
  <2>1. part = "history" /\ [History!Next]_(History!vars)
    BY <1>16 DEF ProvedNext, vars, History!vars, From3, From4, From5, From6, From7, From9, From10
  <2>2. HistoryFits
    BY <2>1 DEF PartsInv, Of
  <2> QED BY <2>1, <2>2, HistoryNext
<1>17. ASSUME part' = "comparison" PROVE ComparisonFits'
  <2>1. part = "comparison" /\ [Two!Next]_(Two!vars)
    BY <1>17 DEF ProvedNext, vars, Two!vars, From3, From4, From5, From6, From7, From9, From10
  <2>2. ComparisonFits
    BY <2>1 DEF PartsInv, Of
  <2> QED BY <2>1, <2>2, ComparisonNext
<1> QED BY <1>1, <1>2, <1>3, <1>4, <1>5, <1>6, <1>7, <1>8, <1>9, <1>10, <1>11, <1>12, <1>13, <1>14, <1>15,
        <1>16, <1>17 DEF PartsInv, Of

LEMMA PartsHold == ProvedSpec => []PartsInv
BY PartsStart, PartsMove, PTL DEF ProvedSpec

(* However a runtime is composed and used, no capability of a lazily composed
   one is built twice, and once it is disposed none is left alive
   (profile-runtime.ts, runtime-factories.ts). *)
THEOREM RuntimeReleases == ProvedSpec => []BuiltAreReleased
<1>1. PartsInv => BuiltAreReleased
  BY Runtime!InvariantImplies DEF PartsInv, BuiltAreReleased, Of
<1> QED BY <1>1, PartsHold, PTL

(* What a Stellar write answered is true of its transaction and stays true: a
   hash is of one the network took or the relayer mined, and one that threw
   will not be mined unless the answer was lost (eoa.ts, relayer.ts). *)
THEOREM WriteIsTrue == ProvedSpec => []AnswerIsTrue
<1>1. PartsInv => AnswerIsTrue
  BY DEF PartsInv, Of, AnswerIsTrue, Write!AnswerIsTrue, Write!WriteFits, Write!FailureIsSafe, Write!NoOne
<1> QED BY <1>1, PartsHold, PTL

(* A registry that failed to answer is never taken for one that has nothing,
   and mainnet is asked behind the bound network only when that one had
   nothing; the gateway is blamed for the failures of this request alone,
   whatever other calls do over the same client (EvmNameResolutionService,
   mapNameResolutionError). *)
THEOREM NamesAreTold == ProvedSpec => []LookupsTold
<1>1. PartsInv => LookupsTold
  BY NamesTold DEF PartsInv, LookupsTold, Of
<1> QED BY <1>1, PartsHold, PTL

(* The schema of a contract comes from where its result says, and a load fails
   only when there was nothing more to try, whenever providers answer or time
   out and the proxy is upgraded (loadEvmContract). *)
THEOREM LoadsAreTold == ProvedSpec => []LoadsTold
<1>1. PartsInv => LoadsTold
  BY LoadTold DEF PartsInv, LoadsTold, Of
<1> QED BY <1>1, PartsHold, PTL

(* A contract is told renounced only when it has no holder, except by Stellar's
   getAdminInfo after a failed read; on Stellar a transfer told pending was the
   last one the indexer had, but for what its own ledger holds, one that it had
   is not missed by a call whose reads all came through, and one told expired
   is never accepted (getOwnership, getAdminInfo). *)
THEOREM TransfersAreTold == ProvedSpec => []TransfersTold
<1>1. PartsInv => TransfersTold
  BY StellarTold DEF PartsInv, TransfersTold, Of, EvmFits, Evm!RenouncedIsReal
<1> QED BY <1>1, PartsHold, PTL

(* Who listens to a wallet is served, and no connect dialog locks its user out,
   after any order of subscriptions, polls, prompts, reconfigurations, mounts and
   disconnections (LaceWalletImplementation, StellarWalletUiRoot, the wagmi
   implementation and ConnectorDialog).  Not claimed: that a subscriber to wagmi
   hears of a config used later, that kit and implementation agree after
   configurations that overlap, that a root refused at its mount listens. *)
THEOREM WalletsServe == ProvedSpec => []ListenersServed
<1>1. PartsInv => ListenersServed
  <2> SUFFICES ASSUME PartsInv PROVE ListenersServed
    OBVIOUS
  <2>1. Of("lace", Lace!ListenersServed)
    BY LaceServes DEF PartsInv, Of
  <2>2. Of("watching", Watching!LatestIsServed /\ Watching!ToldIsStatus)
    BY WatchingTold DEF PartsInv, Of
  <2>3. Of("stellar ui", StellarUi!RootFollowsWallet /\ StellarUi!OneKit
                           /\ StellarUi!CanAlwaysConnect /\ StellarUi!ConnectingIsTrue)
    BY ConnectingTold DEF PartsInv, Of
  <2>4. Of("dialog", Dialog!DialogIsUsable /\ Dialog!NamesItsChoice)
    BY DEF PartsInv, Of, DialogFits
  <2> QED BY <2>1, <2>2, <2>3, <2>4 DEF ListenersServed
<1> QED BY <1>1, PartsHold, PTL

(* Role ids that were given stay known although a discovery comes in, the
   members that were counted are shown, each once, when none leaves meanwhile
   and no read fails, and the grant shown with a member is the latest on the
   indexer's page, up to the order within a ledger (role queries of the Stellar
   access-control service). *)
THEOREM RolesAreKept == ProvedSpec => []RolesKept
<1>1. PartsInv => RolesKept
  BY RolesKeep, GrantsKeep DEF PartsInv, RolesKept, Of
<1> QED BY <1>1, PartsHold, PTL

(* A list of relayers that is read while relayers come and go has none twice and
   asks for no page behind the last, and has all those for the network that were
   there at first if none goes meanwhile; and the request that a relayer is sent
   has one pricing strategy and is what the form shows, once it told its state
   (getRelayers, the options forms, sendTransactionViaRelayer). *)
THEOREM RelayersAreSent == ProvedSpec => []RelayedAsShown
<1>1. PartsInv => RelayedAsShown
  BY RelayersKeep DEF PartsInv, RelayedAsShown, Of
<1> QED BY <1>1, PartsHold, PTL

(* A history that is read page by page, while events are indexed, shows each
   event that its filter selects once, newest first, as what it was, and no other;
   and when no page failed, all that were indexed when it began.  A page that
   fails ends an EVM history as if it were the last (getHistory of either
   adapter). *)
THEOREM HistoryIsShown == ProvedSpec => []HistoryShown
<1>1. PartsInv => HistoryShown
  BY HistoryKeep DEF PartsInv, HistoryShown, Of
<1> QED BY <1>1, PartsHold, PTL

(* A comparison of two ABIs is breaking when one is invalid or a function of the stored
   one is gone by name.  Where all parameters are declared in the order of their names, it
   is breaking exactly when an ABI is invalid, a function is gone by selector
   or constructor, fallback or receive changed, and without severity exactly for the same
   items in any order (compareContractDefinitions). *)
THEOREM SeverityIsTold == ProvedSpec => []SeverityIsRight
<1>1. PartsInv => SeverityIsRight
  BY ComparisonTells DEF PartsInv, SeverityIsRight, Of
<1> QED BY <1>1, PartsHold, PTL

(* No identity secret is persisted that was not persisted before the calls,
   and a circuit has one under the name of its call only if its call was given
   it, however many calls there are (private-state overlay of Midnight). *)
THEOREM SecretsAreKept == ProvedSpec => []SecretsStayPrivate
<1>1. PartsInv => SecretsStayPrivate
  BY Midnight!InvariantImplies, Secrets!InvariantImplies DEF PartsInv, SecretsStayPrivate, Of
<1> QED BY <1>1, PartsHold, PTL
================================================================================
