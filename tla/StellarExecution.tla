--------------------------- MODULE StellarExecution ---------------------------
(***************************************************************************)
(* A write of the Stellar adapter: the access-control service's writers     *)
(* (access-control/service.ts, actions.ts), the two execution strategies   *)
(* (transaction/eoa.ts, relayer.ts) and the wallet they sign with          *)
(* (wallet/implementation/wallets-kit-implementation.ts and                *)
(* wallet/stellar-wallets-kit).  The user connects, disconnects and        *)
(* reconfigures the UI kit while the write is under way, and the network   *)
(* and the relayer go on after it has answered.                            *)
(***************************************************************************)
EXTENDS Naturals

CONSTANTS
    Wallets,        \* wallets of the kit; a wallet stands for its account, too
    MaxKits,        \* bound on the kits configure() makes
    MaxAttempts     \* reads of a transaction's status before its strategy gives up

VARIABLES
    kits,           \* the StellarWalletsKit instances; kit 0 is the default one
    wallet,         \* the connection the wallet implementation shows
    asking,         \* wallets whose connect() waits for the address
    write,          \* the write
    network,        \* what became of the transaction on the network
    relay           \* what became of it at the relayer

vars == <<kits, wallet, asking, write, network, relay>>

NoOne == "none"
Kits == 0 .. MaxKits
OrNone(S) == S \cup {NoOne}

Operations == {"role", "transfer"}      \* with a caller argument, and without one
Methods == {"eoa", "operations", "feeBump", "multisig"}
Placeholder == "placeholder"
Unsettled == {"sendLost", "pollFailed", "noHash", "pollTimeout"}
Whys == {"refused", "notConnected", "prepare", "args", "sign", "notAccepted", "rejected", NoOne} \cup Unsettled

TypeOK ==
    /\ kits \in [selected : [Kits -> OrNone(Wallets)], active : Kits, made : Kits, button : Kits]
    /\ wallet \in [address : OrNone(Wallets), id : OrNone(Wallets), connecting : BOOLEAN]
    /\ asking \subseteq Wallets
    /\ write \in [pc : {"idle", "begun", "sign", "hand", "confirm", "poll", "done"},
                  op : Operations, method : Methods, source : OrNone(Wallets),
                  caller : OrNone(Wallets \cup {Placeholder}), signer : OrNone(Wallets),
                  attempts : 0 .. MaxAttempts, answer : {NoOne, "hash", "thrown"}, why : Whys]
    /\ network \in {NoOne, "submitted", "mined", "failed"}
    /\ relay \in {NoOne, "pending", "sent", "mined", "confirmed", "failed", "canceled", "expired"}

userVars == <<kits, wallet, asking>>
outside == <<network, relay>>

-----------------------------------------------------------------------------
(* The wallet.                                                             *)

\* getKitToUse: the active kit if there is one, else the default kit.
KitToUse == kits.active

\* connect: selects the wallet in the kit and asks it for its address.
Connect(w) ==
    /\ w \notin asking
    /\ asking' = asking \cup {w}
    /\ kits' = [kits EXCEPT !.selected[KitToUse] = w]
    /\ wallet' = [wallet EXCEPT !.connecting = TRUE]
    /\ UNCHANGED <<write, outside>>

\* The wallet answers, or its user declines.
Connected(w) ==
    /\ w \in asking
    /\ asking' = asking \ {w}
    /\ \/ wallet' = [address |-> w, id |-> w, connecting |-> FALSE]
       \/ wallet' = [wallet EXCEPT !.connecting = FALSE]
    /\ UNCHANGED <<kits, write, outside>>

Disconnect ==
    /\ wallet # [address |-> NoOne, id |-> NoOne, connecting |-> FALSE]
    /\ wallet' = [address |-> NoOne, id |-> NoOne, connecting |-> FALSE]
    /\ UNCHANGED <<kits, asking, write, outside>>

\* configure: a new kit without a selected wallet becomes the active one, or there
\* is none any more.
Configure ==
    /\ \/ kits.made < MaxKits /\ kits' = [kits EXCEPT !.made = @ + 1, !.active = kits.made + 1]
       \/ kits.active # 0 /\ kits' = [kits EXCEPT !.active = 0]
    /\ UNCHANGED <<wallet, asking, write, outside>>

\* The native button is put up with the kit there is then, and keeps it; its modal
\* (external) selects a wallet in that kit.
ShowButton ==
    /\ kits.active # 0 /\ kits.button # kits.active
    /\ kits' = [kits EXCEPT !.button = kits.active]
    /\ UNCHANGED <<wallet, asking, write, outside>>

ButtonConnects(w) ==
    /\ kits.button # 0
    /\ kits' = [kits EXCEPT !.selected[kits.button] = w]
    /\ wallet' = [wallet EXCEPT !.address = w, !.id = NoOne]
    /\ UNCHANGED <<asking, write, outside>>

ButtonDisconnects ==
    /\ kits.button # 0 /\ wallet.address # NoOne
    /\ wallet' = [wallet EXCEPT !.address = NoOne, !.id = NoOne]
    /\ UNCHANGED <<kits, asking, write, outside>>

-----------------------------------------------------------------------------
(* The write.                                                              *)

Threw(why) == write' = [write EXCEPT !.pc = "done", !.answer = "thrown", !.why = why]
HashReturned == write' = [write EXCEPT !.pc = "done", !.answer = "hash"]

UsesWallet == write.method \in {"eoa", "feeBump"}

\* signAndBroadcast selects a strategy, or throws before there is one.
Begin(op, method) ==
    /\ method # "multisig"
    /\ write' = [write EXCEPT !.pc = "begun", !.op = op, !.method = method]
    /\ UNCHANGED <<userVars, outside>>

Refuse(op, method) ==
    /\ write' = [write EXCEPT !.pc = "done", !.op = op, !.method = method,
                              !.answer = "thrown", !.why = "refused"]
    /\ UNCHANGED <<userVars, outside>>

\* A writer of the service: an address or an API key that will not do is refused, ...
Writer(op, method) == write.pc = "idle" /\ (Begin(op, method) \/ Refuse(op, method))

grantRole(method) == Writer("role", method)
revokeRole(method) == Writer("role", method)
acceptOwnership(method) == Writer("transfer", method)
acceptAdminTransfer(method) == Writer("transfer", method)

\* ... and so is an expiration ledger that is not ahead of the network's last one,
\* and a ledger that cannot be read.
transferOwnership(method) == Writer("transfer", method)
transferAdminRole(method) == Writer("transfer", method)

\* getConnectedWalletAddress: the source account of the transaction.
TakeSource ==
    /\ write.pc = "begun" /\ UsesWallet /\ write.source = NoOne
    /\ IF wallet.address = NoOne THEN Threw("notConnected")
       ELSE write' = [write EXCEPT !.source = wallet.address]
    /\ UNCHANGED <<userVars, outside>>

\* CALLER_PLACEHOLDER is replaced by the connected address.
ResolveCaller == write.source

\* The account is loaded, the transaction built and simulated.
Prepare ==
    /\ write.pc = "begun" /\ UsesWallet /\ write.source # NoOne
    /\ \/ Threw("prepare")
       \/ write' = [write EXCEPT !.pc = "sign",
                        !.caller = IF write.op = "role" THEN ResolveCaller ELSE NoOne]
    /\ UNCHANGED <<userVars, outside>>

\* Whether the arguments convert: a placeholder is no address.
Converts(op) == op # "role"

\* The operations mode converts the arguments as they are.
PrepareOperations ==
    /\ write.pc = "begun" /\ write.method = "operations"
    /\ IF Converts(write.op)
         THEN write' = [write EXCEPT !.pc = "hand",
                            !.caller = IF write.op = "role" THEN Placeholder ELSE NoOne]
         ELSE Threw("args")
    /\ UNCHANGED <<userVars, outside>>

\* signTransaction: the kit asks the wallet selected in it, which may decline; a
\* kit without one throws.
Sign ==
    /\ write.pc = "sign"
    /\ LET signer == kits.selected[KitToUse] IN
       \/ Threw("sign")
       \/ /\ signer # NoOne
          /\ write' = [write EXCEPT !.pc = "hand", !.signer = signer]
    /\ UNCHANGED <<userVars, outside>>

\* sendTransaction of the network: accepted, not accepted, or no answer.
Send ==
    /\ write.pc = "hand" /\ write.method = "eoa"
    /\ \/ write' = [write EXCEPT !.pc = "confirm"] /\ network' = "submitted"
       \/ Threw("notAccepted") /\ UNCHANGED network
       \/ Threw("sendLost") /\ network' \in {network, "submitted"}
    /\ UNCHANGED <<userVars, relay>>

\* sendTransaction of the relayer, likewise.
SendViaRelayer ==
    /\ write.pc = "hand" /\ write.method # "eoa"
    /\ \/ write' = [write EXCEPT !.pc = "poll"] /\ relay' = "pending"
       \/ Threw("notAccepted") /\ UNCHANGED relay
       \/ Threw("sendLost") /\ relay' \in {relay, "pending"}
    /\ UNCHANGED <<userVars, network>>

\* The mutant of GiveUpConfirming for TypeOK: it reads on.
NeverGivesUp == write' = [write EXCEPT !.attempts = @ + 1]

\* What the EOA strategy does when its attempts are used up: it returns the hash,
\* as the transaction might still succeed.
GiveUpConfirming == HashReturned

\* Its wait for the confirmation.  A transaction that failed, and a read that
\* failed, end the wait; both are swallowed.
Confirm ==
    /\ write.pc = "confirm"
    /\ \/ network # "submitted" /\ HashReturned
       \/ HashReturned
       \/ /\ network = "submitted"
          /\ IF write.attempts < MaxAttempts
               THEN write' = [write EXCEPT !.attempts = @ + 1]
               ELSE GiveUpConfirming
    /\ UNCHANGED <<userVars, outside>>

\* The mutant of Final for AnswerIsTrue: a transaction sent counts as mined.
SentIsFinal(status) == status \in {"sent", "mined", "confirmed"}

\* The statuses at which the relayer's polling returns the hash.
Final(status) == status \in {"mined", "confirmed"}

\* pollForTransactionHash.
Poll ==
    /\ write.pc = "poll"
    /\ \/ Threw("pollFailed")
       \/ Final(relay) /\ (HashReturned \/ Threw("noHash"))
       \/ relay \in {"failed", "canceled", "expired"} /\ Threw("rejected")
       \/ /\ ~Final(relay) /\ relay \notin {"failed", "canceled", "expired"}
          /\ IF write.attempts < MaxAttempts
               THEN write' = [write EXCEPT !.attempts = @ + 1]
               ELSE Threw("pollTimeout")
    /\ UNCHANGED <<userVars, outside>>

-----------------------------------------------------------------------------
(* The network and the relayer (external).                                 *)

Close ==
    /\ network = "submitted"
    /\ network' \in {"mined", "failed"}
    /\ UNCHANGED <<userVars, write, relay>>

Relay ==
    /\ \/ relay = "pending" /\ relay' \in {"sent", "failed", "canceled", "expired"}
       \/ relay = "sent" /\ relay' \in {"mined", "failed", "canceled", "expired"}
       \/ relay = "mined" /\ relay' = "confirmed"
    /\ network' = IF relay' = "mined" THEN "mined" ELSE network
    /\ UNCHANGED <<userVars, write>>

-----------------------------------------------------------------------------
Init ==
    /\ kits = [selected |-> [k \in Kits |-> NoOne], active |-> 0, made |-> 0, button |-> 0]
    /\ wallet = [address |-> NoOne, id |-> NoOne, connecting |-> FALSE]
    /\ asking = {}
    /\ write = [pc |-> "idle", op |-> "role", method |-> "eoa", source |-> NoOne, caller |-> NoOne,
                signer |-> NoOne, attempts |-> 0, answer |-> NoOne, why |-> NoOne]
    /\ network = NoOne /\ relay = NoOne

User ==
    \/ \E w \in Wallets : Connect(w) \/ Connected(w) \/ ButtonConnects(w)
    \/ Disconnect \/ ButtonDisconnects \/ Configure \/ ShowButton

Writing ==
    \/ \E method \in Methods :
         \/ grantRole(method) \/ revokeRole(method)
         \/ transferOwnership(method) \/ acceptOwnership(method)
         \/ transferAdminRole(method) \/ acceptAdminTransfer(method)
    \/ TakeSource \/ Prepare \/ PrepareOperations \/ Sign \/ Send \/ SendViaRelayer
    \/ Confirm \/ Poll

Next == User \/ Writing \/ Close \/ Relay

Spec == Init /\ [][Next]_vars

-----------------------------------------------------------------------------
(* Properties.                                                             *)

\* A hash is earned: the EOA strategy answers one only of a transaction the network
\* took, the relayer strategy only of one that was mined.
HashIsEarned ==
    write.answer = "hash" =>
        IF write.method = "eoa" THEN network # NoOne ELSE network = "mined"

\* A write that threw can be tried again: its transaction was not and will not be
\* mined, except when the answer to the send was lost or the relayer's polling
\* stopped before the end.
FailureIsSafe ==
    write.answer = "thrown" /\ network = "mined" => write.why \in Unsettled

\* What a write answered is true of its transaction, then and later.
AnswerIsTrue == HashIsEarned /\ FailureIsSafe

\* Where the write is, what the network and the relayer have of it, and what it
\* answered fit together: the inductive invariant behind AnswerIsTrue.
WriteFits ==
    /\ write.answer # NoOne <=> write.pc = "done"
    /\ write.pc \in {"idle", "begun", "sign", "hand"} => network = NoOne /\ relay = NoOne
    /\ write.pc = "confirm" => write.method = "eoa" /\ network # NoOne
    /\ write.pc = "poll" => write.method # "eoa"
    /\ write.method = "eoa" => relay = NoOne
    /\ write.method # "eoa" =>
         network = IF relay \in {"mined", "confirmed"} THEN "mined" ELSE NoOne
    /\ HashIsEarned
    /\ write.answer = "thrown" /\ write.why \notin Unsettled =>
         network = NoOne /\ relay \in {NoOne, "failed", "canceled", "expired"}

\* The wallet that signs is the connected one (wallet/connection.ts: "Sign a
\* transaction using the connected wallet").  Violated, with no connect() under way:
\* one that failed leaves its wallet selected in the kit.
SignedByConnectedWallet ==
    write.pc = "sign" /\ asking = {} /\ wallet.id # NoOne /\ kits.selected[KitToUse] # NoOne =>
        kits.selected[KitToUse] = wallet.id
=============================================================================
