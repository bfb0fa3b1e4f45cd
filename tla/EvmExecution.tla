---------------------------- MODULE EvmExecution ----------------------------
(***************************************************************************)
(* Executing a transaction with the EVM adapters (adapter-evm-core/src):   *)
(* the EOA strategy, the relayer strategy with its polling, the exported   *)
(* signAndBroadcastEvmTransaction that first switches the wallet's         *)
(* network, the wait for a receipt, and connectAndEnsureCorrectNetworkCore.*)
(*                                                                         *)
(* The wallet belongs to its user, who changes account or network, or      *)
(* disconnects, between any two steps: a step here is the code between two *)
(* awaits.  The wallet's own checks (viem compares the network of the      *)
(* client with the wallet's before it asks for a signature) and the        *)
(* relayer service are external.                                           *)
(***************************************************************************)
EXTENDS Naturals

CONSTANTS
    Requests,   \* transactions the application executes
    Accounts,   \* accounts of the user's wallet
    Chains,     \* networks the wallet may be on
    Target,     \* the network asked for
    Any,        \* execution configuration allowAny
    Nobody,     \* no account: the wallet is not connected
    MaxPolls    \* polls before the relayer strategy gives up (5 minutes)

ASSUME ExecutionAssumption ==
    /\ Target \in Chains
    /\ Any \notin Accounts /\ Nobody \notin Accounts
    /\ MaxPolls \in Nat \ {0}

VARIABLES
    wallet,     \* what wagmi's getAccount says: account and network
    request,    \* the calls
    job,        \* the relayer's transaction of a request
    tx,         \* the transaction sent for a request
    connection  \* the call of connectAndEnsureCorrectNetworkCore

vars == <<wallet, request, job, tx, connection>>

Methods == {"eoa", "relayer", "targeted", "multisig"}

Pcs == {"idle", "started", "switching", "client", "signing", "posting",
        "polling", "replied", "sent", "confirming", "done"}

Wallets == [account : Accounts \cup {Nobody}, chain : Chains]

Jobs == {"none", "pending", "submitted", "mined", "confirmed",
         "failed", "canceled", "expired"}
Mined == {"mined", "confirmed"}
Dead == {"failed", "canceled", "expired"}

Connected == wallet.account # Nobody

Goes(q, r) == request' = [request EXCEPT ![q] = r]

At(q, pc) == request[q].pc = pc

Failed(q) == [request[q] EXCEPT !.pc = "done", !.answer = "failed"]

-----------------------------------------------------------------------------

Init ==
    /\ wallet \in Wallets
    /\ request = [q \in Requests |->
         [pc |-> "idle", method |-> "eoa", need |-> Any, client |-> wallet,
          from |-> Nobody, polls |-> 0, reply |-> "none", answer |-> "none",
          receipt |-> "none"]]
    /\ job = [q \in Requests |-> "none"]
    /\ tx = [q \in Requests |-> [status |-> "none", from |-> Nobody, chain |-> Target]]
    /\ connection = "idle"

\* The user connects, disconnects, picks an account or a network, or answers a
\* request to switch.
WalletChanges(w) ==
    /\ wallet' = w
    /\ UNCHANGED <<request, job, tx, connection>>

\* A pending transaction of the wallet's is mined, and may revert, or the user speeds it
\* up or cancels it there and another takes its place.
Outcomes == {"success", "reverted", "replaced"}

Mine(q, status) ==
    /\ tx[q].status = "pending"
    /\ request[q].method # "relayer"
    /\ tx' = [tx EXCEPT ![q].status = status]
    /\ UNCHANGED <<wallet, request, job, connection>>

\* The relayer service: a job is sent to the chain, mined and confirmed, or it
\* fails, is canceled, or expires before it is mined.
RelayerSubmits(q) ==
    /\ job[q] = "pending"
    /\ job' = [job EXCEPT ![q] = "submitted"]
    /\ tx' = [tx EXCEPT ![q].status = "pending"]
    /\ UNCHANGED <<wallet, request, connection>>

RelayerMines(q, status) ==
    /\ job[q] = "submitted"
    /\ job' = [job EXCEPT ![q] = "mined"]
    /\ tx' = [tx EXCEPT ![q].status = status]
    /\ UNCHANGED <<wallet, request, connection>>

RelayerConfirms(q) ==
    /\ job[q] = "mined"
    /\ job' = [job EXCEPT ![q] = "confirmed"]
    /\ UNCHANGED <<wallet, request, tx, connection>>

RelayerGivesUp(q, why) ==
    /\ job[q] \in {"pending", "submitted"}
    /\ job' = [job EXCEPT ![q] = why]
    /\ tx' = [tx EXCEPT ![q].status = "none"]
    /\ UNCHANGED <<wallet, request, connection>>

-----------------------------------------------------------------------------
(* Executing.                                                              *)

\* executeEvmTransaction picks the strategy; the relayer one wants an API key,
\* the multisig one does not exist.
Execute(q, method, need, key) ==
    /\ At(q, "idle")
    /\ LET r == [request[q] EXCEPT !.method = method, !.need = need]
       IN \/ /\ method = "multisig" \/ (method = "relayer" /\ ~key)
             /\ Goes(q, [r EXCEPT !.pc = "done", !.answer = "failed"])
          \/ /\ method = "relayer" /\ key
             /\ Goes(q, [r EXCEPT !.pc = "posting"])
          \/ /\ method \in {"eoa", "targeted"}
             /\ Goes(q, [r EXCEPT !.pc = "started"])
    /\ UNCHANGED <<wallet, job, tx, connection>>

\* getWalletClient reads account and network synchronously, and awaits a client
\* made for them; without a connected account there is none.
TakeClient(q) ==
    IF Connected THEN [request[q] EXCEPT !.pc = "client", !.client = wallet] ELSE Failed(q)

\* EoaExecutionStrategy.execute.
StartEoa(q) ==
    /\ At(q, "started")
    /\ request[q].method = "eoa"
    /\ Goes(q, TakeClient(q))
    /\ UNCHANGED <<wallet, job, tx, connection>>

\* _ensureCorrectNetworkOrSwitch, with the wallet elsewhere or already there.
StartTargeted(q) ==
    /\ At(q, "started")
    /\ request[q].method = "targeted"
    /\ Goes(q, IF Connected /\ wallet.chain # Target
               THEN [request[q] EXCEPT !.pc = "switching"]
               ELSE TakeClient(q))
    /\ UNCHANGED <<wallet, job, tx, connection>>

\* The mutant of SwitchEnds: a switch that did not throw is taken to have worked.
SwitchTrusted(q) ==
    /\ At(q, "switching")
    /\ Goes(q, TakeClient(q))
    /\ UNCHANGED <<wallet, job, tx, connection>>

\* switchNetwork resolved: the status is read again, and the client is made in the
\* same turn of the event loop as that check.
SwitchEnds(q) ==
    /\ At(q, "switching")
    /\ Goes(q, IF wallet.chain = Target THEN TakeClient(q) ELSE Failed(q))
    /\ UNCHANGED <<wallet, job, tx, connection>>

\* An awaited call of the wallet or of the relayer's API rejects: switchNetwork,
\* getWalletClient, writeContract (refused, or the wallet has left the client's
\* network), sendTransaction, getTransactionById.
AwaitRejects(q) ==
    /\ request[q].pc \in {"switching", "client", "signing", "posting", "polling"}
    /\ Goes(q, Failed(q))
    /\ UNCHANGED <<wallet, job, tx, connection>>

\* validateEoaConfig.
Permitted(q, account) ==
    request[q].method = "eoa" /\ request[q].need # Any => account = request[q].need

\* The mutant of ClientReady: the account the client was made for is checked, the
\* one connected by now is used.
ClientReadyChecked(q) ==
    /\ At(q, "client")
    /\ Goes(q, IF Connected /\ Permitted(q, request[q].client.account)
               THEN [request[q] EXCEPT !.pc = "signing", !.from = wallet.account]
               ELSE Failed(q))
    /\ UNCHANGED <<wallet, job, tx, connection>>

\* The client is there: the status is read once more, checked, and that account is
\* the one the transaction is sent from.
ClientReady(q) ==
    /\ At(q, "client")
    /\ Goes(q, IF Connected /\ Permitted(q, wallet.account)
               THEN [request[q] EXCEPT !.pc = "signing", !.from = wallet.account]
               ELSE Failed(q))
    /\ UNCHANGED <<wallet, job, tx, connection>>

\* writeContract: the wallet, on the client's network, signs for that account.
Signed(q) ==
    /\ At(q, "signing")
    /\ Connected /\ wallet.chain = request[q].client.chain
    /\ tx' = [tx EXCEPT ![q] = [status |-> "pending", from |-> request[q].from,
                                chain |-> wallet.chain]]
    /\ Goes(q, [request[q] EXCEPT !.pc = "sent", !.answer = "hash"])
    /\ UNCHANGED <<wallet, job, connection>>

-----------------------------------------------------------------------------
(* The relayer strategy.                                                   *)

\* The service accepts the transaction; its answer may be lost, and then the call
\* fails with a job under way.
Post(q, lost) ==
    /\ At(q, "posting")
    /\ job' = [job EXCEPT ![q] = "pending"]
    /\ Goes(q, IF lost THEN Failed(q) ELSE [request[q] EXCEPT !.pc = "polling"])
    /\ UNCHANGED <<wallet, tx, connection>>

\* getTransactionById is answered with the status of its moment.
Poll(q) ==
    /\ At(q, "polling")
    /\ Goes(q, [request[q] EXCEPT !.pc = "replied", !.reply = job[q]])
    /\ UNCHANGED <<wallet, job, tx, connection>>

\* The mutants of Replied: a hash is taken as soon as there is one; the timeout is
\* forgotten.
RepliedEarly(q) ==
    /\ At(q, "replied")
    /\ LET r == request[q]
       IN Goes(q, IF r.reply \in Mined \cup {"submitted"}
                  THEN [r EXCEPT !.pc = "sent", !.answer = "hash"]
                  ELSE IF r.reply \in Dead THEN [r EXCEPT !.pc = "done", !.answer = "rejected"]
                  ELSE IF r.polls + 1 < MaxPolls
                  THEN [r EXCEPT !.pc = "polling", !.polls = @ + 1]
                  ELSE Failed(q))
    /\ UNCHANGED <<wallet, job, tx, connection>>

RepliedForEver(q) ==
    /\ At(q, "replied")
    /\ LET r == request[q]
       IN Goes(q, IF r.reply \in Mined THEN [r EXCEPT !.pc = "sent", !.answer = "hash"]
                  ELSE IF r.reply \in Dead THEN [r EXCEPT !.pc = "done", !.answer = "rejected"]
                  ELSE [r EXCEPT !.pc = "polling"])
    /\ UNCHANGED <<wallet, job, tx, connection>>

\* pollForTransactionHash: mined answers the hash, a dead job the failure, and the
\* rest another poll while there is time.
Replied(q) ==
    /\ At(q, "replied")
    /\ LET r == request[q]
       IN \/ r.reply \in Mined /\ Goes(q, [r EXCEPT !.pc = "sent", !.answer = "hash"])
          \/ r.reply \in Mined /\ Goes(q, Failed(q))      \* "no hash was returned"
          \/ r.reply \in Dead /\ Goes(q, [r EXCEPT !.pc = "done", !.answer = "rejected"])
          \/ /\ r.reply \notin Mined \cup Dead
             /\ Goes(q, IF r.polls + 1 < MaxPolls
                        THEN [r EXCEPT !.pc = "polling", !.polls = @ + 1]
                        ELSE Failed(q))
    /\ UNCHANGED <<wallet, job, tx, connection>>

-----------------------------------------------------------------------------
(* waitForTransactionConfirmation.                                         *)

\* The public client is that of the network the wallet is on now; a wallet that is
\* not connected has none, and the answer is an error without a receipt.
WaitForReceipt(q) ==
    /\ At(q, "sent")
    /\ Goes(q, IF Connected
               THEN [request[q] EXCEPT !.pc = "confirming", !.client = wallet]
               ELSE [request[q] EXCEPT !.pc = "done", !.receipt = "unknown"])
    /\ UNCHANGED <<wallet, job, tx, connection>>

\* A receipt is found on the network asked, if the transaction is there: its own, or the
\* one of the transaction that took its place, which viem resolves with as well.
ReceiptArrives(q, status) ==
    /\ At(q, "confirming")
    /\ tx[q].status \in {status, "replaced"}
    /\ tx[q].chain = request[q].client.chain
    /\ Goes(q, [request[q] EXCEPT !.pc = "done", !.receipt = status])
    /\ UNCHANGED <<wallet, job, tx, connection>>

\* viem's wait times out, or the node fails.
NoReceipt(q) ==
    /\ At(q, "confirming")
    /\ Goes(q, [request[q] EXCEPT !.pc = "done", !.receipt = "unknown"])
    /\ UNCHANGED <<wallet, job, tx, connection>>

-----------------------------------------------------------------------------
(* connectAndEnsureCorrectNetworkCore.                                     *)

Connect ==
    /\ connection \in {"idle", "yes", "no"}
    /\ connection' = "connecting"
    /\ UNCHANGED <<wallet, request, job, tx>>

\* The connector answers account and network.
ConnectorAnswers(w) ==
    /\ connection = "connecting"
    /\ w.account # Nobody
    /\ wallet' = w
    /\ connection' = IF w.chain = Target THEN "yes" ELSE "switching"
    /\ UNCHANGED <<request, job, tx>>

ConnectorFails ==
    /\ connection = "connecting"
    /\ connection' = "no"
    /\ UNCHANGED <<wallet, request, job, tx>>

\* The switch resolved, to the target or not.
ConnectSwitched ==
    /\ connection = "switching"
    /\ connection' = IF Connected /\ wallet.chain = Target THEN "yes" ELSE "disconnecting"
    /\ UNCHANGED <<wallet, request, job, tx>>

ConnectSwitchFails ==
    /\ connection = "switching"
    /\ connection' = "disconnecting"
    /\ UNCHANGED <<wallet, request, job, tx>>

\* A wallet on the wrong network is disconnected; a failure of that is ignored.
Disconnected ==
    /\ connection = "disconnecting"
    /\ connection' = "no"
    /\ wallet' \in {wallet, [wallet EXCEPT !.account = Nobody]}
    /\ UNCHANGED <<request, job, tx>>

-----------------------------------------------------------------------------

RelayerStep(q) ==
    /\ request[q].method = "relayer"
    /\ \/ \E lost \in BOOLEAN : Post(q, lost)
       \/ Poll(q)
       \/ Replied(q)
       \/ AwaitRejects(q)

ReceiptStep(q) ==
    (\E s \in {"success", "reverted"} : ReceiptArrives(q, s)) \/ NoReceipt(q)

Next ==
    \/ \E w \in Wallets : WalletChanges(w)
    \/ \E q \in Requests :
          \/ \E s \in Outcomes : Mine(q, s)
          \/ RelayerSubmits(q)
          \/ \E s \in {"success", "reverted"} : RelayerMines(q, s)
          \/ RelayerConfirms(q)
          \/ \E why \in Dead : RelayerGivesUp(q, why)
          \/ \E m \in Methods, need \in Accounts \cup {Any}, key \in BOOLEAN :
                Execute(q, m, need, key)
          \/ StartEoa(q)
          \/ StartTargeted(q)
          \/ SwitchEnds(q)
          \/ AwaitRejects(q)
          \/ ClientReady(q)
          \/ Signed(q)
          \/ RelayerStep(q)
          \/ WaitForReceipt(q)
          \/ ReceiptStep(q)
    \/ Connect
    \/ \E w \in Wallets : ConnectorAnswers(w)
    \/ ConnectorFails
    \/ ConnectSwitched
    \/ ConnectSwitchFails
    \/ Disconnected

\* The relayer's API answers or fails, timers fire, and viem's wait times out.
\* Nothing is assumed of the user.
Fairness == \A q \in Requests : WF_vars(RelayerStep(q)) /\ WF_vars(ReceiptStep(q))

Spec == Init /\ [][Next]_vars /\ Fairness

-----------------------------------------------------------------------------
(* Properties.                                                             *)

Request ==
    [pc : Pcs, method : Methods, need : Accounts \cup {Any}, client : Wallets,
     from : Accounts \cup {Nobody}, polls : 0 .. MaxPolls - 1, reply : Jobs,
     answer : {"none", "hash", "rejected", "failed"},
     receipt : {"none", "success", "reverted", "unknown"}]

Tx == [status : {"none", "pending"} \cup Outcomes,
       from : Accounts \cup {Nobody}, chain : Chains]

\* The variables keep their types; in particular no poll is made after the limit.
TypeOK ==
    /\ wallet \in Wallets
    /\ request \in [Requests -> Request]
    /\ job \in [Requests -> Jobs]
    /\ tx \in [Requests -> Tx]
    /\ connection \in {"idle", "connecting", "switching", "disconnecting", "yes", "no"}

Sent(q) == tx[q].status # "none"

\* A transaction restricted to one account is sent from that account, although the
\* user may change accounts at every await between the click and the signature
\* (eoa.ts:42-50).
SignedByRequired ==
    \A q \in Requests :
        request[q].method = "eoa" /\ request[q].need # Any /\ Sent(q)
            => tx[q].from = request[q].need

\* signAndBroadcastEvmTransaction sends on the target network only: the client is
\* made in the turn that read the network (sender.ts:141-142).
SentOnTarget ==
    \A q \in Requests :
        request[q].method = "targeted" /\ Sent(q) => tx[q].chain = Target

\* What the relayer strategy answers is final: a hash is that of a mined
\* transaction, a rejection that of one that will never be.
RelayerAnswerFinal ==
    \A q \in Requests : request[q].method = "relayer" =>
        /\ request[q].answer = "hash" => job[q] \in Mined
        /\ request[q].answer = "rejected" => job[q] \in Dead

\* connect answers "connected" only when the wallet is on the target network at that
\* moment.
ConnectedOnTarget ==
    [][connection' = "yes" /\ connection # "yes" =>
          wallet'.account # Nobody /\ wallet'.chain = Target]_vars

\* A relayed transaction is answered for, mined or not: the polling gives up.
RelayerEnds ==
    \A q \in Requests :
        (request[q].pc \in {"posting", "polling", "replied"}) ~> (request[q].pc \in {"sent", "done"})
=============================================================================
