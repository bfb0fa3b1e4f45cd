------------------------- MODULE EvmExecutionProofs -------------------------
(***************************************************************************)
(* What is signed, sent and answered by the EVM execution strategies, for  *)
(* any number of transactions, accounts and networks and any behaviour of  *)
(* the wallet's user and of the relayer.                                   *)
(*                                                                         *)
(* A request changes only its own job and transaction, so the invariant is *)
(* a relation between the three, stated once and kept for every request.   *)
(* It has four parts: where a request of some method may be (Route), what  *)
(* was checked before a signature (Signature), how the answers polled      *)
(* relate to the relayer's job (Relay), and how a job relates to its       *)
(* transaction (Settled).                                                  *)
(***************************************************************************)
EXTENDS EvmExecution, TLAPS

(* Each method has its own places, and only the relayer strategy has jobs.  *)
Route(r, j, t) ==
    /\ r.pc \in {"idle", "posting"} =>
          j = "none" /\ t.status = "none" /\ r.reply = "none" /\ r.answer = "none"
    /\ r.pc = "started" => r.method \in {"eoa", "targeted"}
    /\ r.pc = "switching" => r.method = "targeted"
    /\ r.pc \in {"client", "signing"} => r.method \in {"eoa", "targeted"}
    /\ r.pc \in {"posting", "polling", "replied"} => r.method = "relayer"
    /\ r.pc \in {"started", "switching", "client", "signing"} => t.status = "none"
    /\ j # "none" => r.method = "relayer"

(* Up to the signature the checks of account and network are not stale.     *)
Signature(r, t) ==
    /\ r.method = "targeted" /\ r.pc \in {"client", "signing"} => r.client.chain = Target
    /\ r.method = "eoa" /\ r.need # Any /\ r.pc = "signing" => r.from = r.need
    /\ r.method = "eoa" /\ r.need # Any /\ t.status # "none" => t.from = r.need
    /\ r.method = "targeted" /\ t.status # "none" => t.chain = Target

(* A status once polled still holds if it was final.                        *)
Relay(r, j) ==
    /\ r.reply \in Mined => j \in Mined
    /\ r.reply \in Dead => j \in Dead
    /\ r.method = "relayer" /\ r.answer = "hash" => j \in Mined
    /\ r.method = "relayer" /\ r.answer = "rejected" => j \in Dead

(* A job under way has no settled transaction, and a receipt comes last.    *)
Settled(r, j, t) ==
    /\ r.pc # "done" => r.receipt = "none"
    /\ j \in {"pending", "submitted"} => t.status \in {"none", "pending"}

Fits(r, j, t) == Route(r, j, t) /\ Signature(r, t) /\ Relay(r, j) /\ Settled(r, j, t)

IInv ==
    /\ TypeOK
    /\ \A q \in Requests : Fits(request[q], job[q], tx[q])

LEMMA InitIInv == Init => IInv
<1> SUFFICES ASSUME Init PROVE IInv
    OBVIOUS
<1> USE ExecutionAssumption DEF Init
<1>1. TypeOK
    BY DEF TypeOK, Request, Tx, Wallets, Pcs, Methods, Jobs
<1>2. ASSUME NEW q \in Requests PROVE Fits(request[q], job[q], tx[q])
    BY <1>2 DEF Fits, Route, Signature, Relay, Settled, Mined, Dead
<1> QED
    BY <1>1, <1>2 DEF IInv

(* A step of one request, its job and its transaction keeps the invariant if *)
(* the new values have the right types and fit each other.                   *)
LEMMA OneRequest ==
    ASSUME IInv, NEW q \in Requests,
           NEW r \in Request, NEW j \in Jobs, NEW t \in Tx,
           request' = [request EXCEPT ![q] = r],
           job' = [job EXCEPT ![q] = j],
           tx' = [tx EXCEPT ![q] = t],
           wallet' = wallet, connection' = connection,
           Fits(r, j, t)
    PROVE  IInv'
<1>1. TypeOK'
    BY DEF IInv, TypeOK
<1>2. ASSUME NEW p \in Requests PROVE Fits(request'[p], job'[p], tx'[p])
    <2>1. CASE p = q
        <3>1. request'[p] = r /\ job'[p] = j /\ tx'[p] = t
            BY <2>1 DEF IInv, TypeOK
        <3> QED
            BY <3>1
    <2>2. CASE p # q
        <3>1. request'[p] = request[p] /\ job'[p] = job[p] /\ tx'[p] = tx[p]
            BY <2>2 DEF IInv, TypeOK
        <3> QED
            BY <3>1 DEF IInv
    <2> QED
        BY <2>1, <2>2
<1> QED
    BY <1>1, <1>2 DEF IInv

(* The same where only the request moves.                                    *)
LEMMA OnlyRequest ==
    ASSUME IInv, NEW q \in Requests, NEW r \in Request,
           Goes(q, r), UNCHANGED <<wallet, job, tx, connection>>,
           Fits(r, job[q], tx[q])
    PROVE  IInv'
<1>1. job[q] \in Jobs /\ tx[q] \in Tx
    BY DEF IInv, TypeOK
<1>2. /\ job' = [job EXCEPT ![q] = job[q]]
      /\ tx' = [tx EXCEPT ![q] = tx[q]]
    BY DEF IInv, TypeOK
<1> QED
    BY <1>1, <1>2, OneRequest DEF Goes

(* And where the request stays: the relayer and the chain move.              *)
LEMMA OnlyOutside ==
    ASSUME IInv, NEW q \in Requests, NEW j \in Jobs, NEW t \in Tx,
           job' = [job EXCEPT ![q] = j], tx' = [tx EXCEPT ![q] = t],
           UNCHANGED <<wallet, request, connection>>,
           Fits(request[q], j, t)
    PROVE  IInv'
<1>1. request[q] \in Request /\ request' = [request EXCEPT ![q] = request[q]]
    BY DEF IInv, TypeOK
<1> QED
    BY <1>1, OneRequest

(* What the invariant says of one request.                                   *)
LEMMA Unfolded ==
    ASSUME IInv, NEW q \in Requests
    PROVE  /\ request[q] \in Request /\ job[q] \in Jobs /\ tx[q] \in Tx
           /\ Fits(request[q], job[q], tx[q])
           /\ wallet \in Wallets
BY DEF IInv, TypeOK

(* A request that gives up fits, wherever it was.                            *)
LEMMA GivesUp ==
    ASSUME IInv, NEW q \in Requests, request[q].pc \notin {"idle", "done"}, NEW j \in Jobs,
           Fits(request[q], job[q], tx[q]),
           j = job[q] \/ (request[q].pc = "posting" /\ j = "pending")
    PROVE  Failed(q) \in Request /\ Fits(Failed(q), j, tx[q])
<1> DEFINE r == request[q]
<1>1. r \in Request /\ tx[q] \in Tx
    BY Unfolded
<1>2. Failed(q) \in Request
    BY <1>1 DEF Failed, Request, Pcs
<1>3. /\ Failed(q).pc = "done" /\ Failed(q).answer = "failed"
      /\ Failed(q).method = r.method /\ Failed(q).need = r.need
      /\ Failed(q).reply = r.reply /\ Failed(q).receipt = r.receipt
    BY <1>1 DEF Failed, Request
<1>4. Route(Failed(q), j, tx[q])
    BY <1>3 DEF Route, Fits
<1>5. Signature(Failed(q), tx[q])
    BY <1>3 DEF Signature, Fits
<1>6. Relay(Failed(q), j)
    BY <1>3 DEF Relay, Route, Fits, Mined, Dead
<1>7. Settled(Failed(q), j, tx[q])
    BY <1>3 DEF Settled, Route, Fits
<1> QED
    BY <1>2, <1>4, <1>5, <1>6, <1>7 DEF Fits

(* The steps.  Picking a strategy: nothing was sent, no job exists.          *)
LEMMA ExecuteStep ==
    ASSUME IInv, NEW q \in Requests, NEW m \in Methods, NEW need \in Accounts \cup {Any},
           NEW key \in BOOLEAN, Execute(q, m, need, key)
    PROVE  IInv'
<1> DEFINE r == [request[q] EXCEPT !.method = m, !.need = need]
<1>1. /\ request[q] \in Request /\ tx[q] \in Tx
      /\ Fits(request[q], job[q], tx[q]) /\ request[q].pc = "idle"
    BY Unfolded DEF Execute, At
<1>2. UNCHANGED <<wallet, job, tx, connection>>
    BY DEF Execute
<1>3. PICK pc \in {"done", "posting", "started"}, answer \in {"none", "failed"} :
         /\ Goes(q, [r EXCEPT !.pc = pc, !.answer = answer])
         /\ pc = "posting" => m = "relayer" /\ answer = "none"
         /\ pc = "started" => m \in {"eoa", "targeted"} /\ answer = "none"
    <2>1. request[q].answer = "none"
        BY <1>1 DEF Fits, Route
    <2>2. \A p \in Pcs : [r EXCEPT !.pc = p] = [r EXCEPT !.pc = p, !.answer = "none"]
        BY <1>1, <2>1 DEF Request
    <2> QED
        BY <2>2 DEF Execute, Pcs
<1> DEFINE n == [r EXCEPT !.pc = pc, !.answer = answer]
<1>4. n \in Request
    BY <1>1 DEF Request, Pcs
<1>5. /\ n.pc = pc /\ n.method = m /\ n.need = need /\ n.answer = answer
      /\ n.reply = request[q].reply /\ n.receipt = request[q].receipt
    BY <1>1 DEF Request
<1>6. Fits(n, job[q], tx[q])
    BY <1>1, <1>3, <1>5 DEF Fits, Route, Signature, Relay, Settled, Mined, Dead
<1> QED
    BY <1>2, <1>3, <1>4, <1>6, OnlyRequest

(* Asking for a client, of the account and network read at that moment.      *)
LEMMA TakeClientFits ==
    ASSUME IInv, NEW q \in Requests,
           request[q].pc \in {"started", "switching"},
           request[q].method = "targeted" /\ Connected => wallet.chain = Target
    PROVE  TakeClient(q) \in Request /\ Fits(TakeClient(q), job[q], tx[q])
<1>1. /\ request[q] \in Request /\ job[q] \in Jobs /\ tx[q] \in Tx
      /\ Fits(request[q], job[q], tx[q]) /\ wallet \in Wallets
    BY Unfolded
<1>2. CASE Connected
    <2> DEFINE n == [request[q] EXCEPT !.pc = "client", !.client = wallet]
    <2>1. TakeClient(q) = n
        BY <1>2 DEF TakeClient
    <2>2. n \in Request
        BY <1>1 DEF Request, Pcs
    <2>3. /\ n.pc = "client" /\ n.client = wallet
          /\ n.method = request[q].method /\ n.need = request[q].need
          /\ n.from = request[q].from /\ n.answer = request[q].answer
          /\ n.reply = request[q].reply /\ n.receipt = request[q].receipt
        BY <1>1 DEF Request
    <2>4. Fits(n, job[q], tx[q])
        BY <1>1, <1>2, <2>3 DEF Fits, Route, Signature, Relay, Settled
    <2> QED
        BY <2>1, <2>2, <2>4
<1>3. CASE ~Connected
    BY <1>1, <1>3, GivesUp DEF TakeClient
<1> QED
    BY <1>2, <1>3

LEMMA StartSteps ==
    ASSUME IInv, NEW q \in Requests, StartEoa(q) \/ StartTargeted(q) \/ SwitchEnds(q)
    PROVE  IInv'
<1>1. /\ request[q] \in Request /\ Fits(request[q], job[q], tx[q])
    BY Unfolded
<1>2. CASE StartEoa(q)
    BY <1>2, TakeClientFits, OnlyRequest DEF StartEoa, At
<1>3. CASE StartTargeted(q) /\ Connected /\ wallet.chain # Target
    <2> DEFINE n == [request[q] EXCEPT !.pc = "switching"]
    <2>1. Goes(q, n) /\ UNCHANGED <<wallet, job, tx, connection>>
        BY <1>3 DEF StartTargeted
    <2>2. n \in Request
        BY <1>1 DEF Request, Pcs
    <2>3. /\ n.pc = "switching" /\ n.method = request[q].method /\ n.need = request[q].need
          /\ n.from = request[q].from /\ n.answer = request[q].answer
          /\ n.reply = request[q].reply /\ n.receipt = request[q].receipt
        BY <1>1 DEF Request
    <2>4. Fits(n, job[q], tx[q])
        BY <1>1, <1>3, <2>3 DEF Fits, Route, Signature, Relay, Settled, StartTargeted, At
    <2> QED
        BY <2>1, <2>2, <2>4, OnlyRequest
<1>4. CASE StartTargeted(q) /\ ~(Connected /\ wallet.chain # Target)
    BY <1>4, TakeClientFits, OnlyRequest DEF StartTargeted, At
<1>5. CASE SwitchEnds(q) /\ wallet.chain = Target
    BY <1>5, TakeClientFits, OnlyRequest DEF SwitchEnds, At
<1>6. CASE SwitchEnds(q) /\ wallet.chain # Target
    <2>1. Goes(q, Failed(q)) /\ UNCHANGED <<wallet, job, tx, connection>>
        BY <1>6 DEF SwitchEnds
    <2>2. request[q].pc = "switching"
        BY <1>6 DEF SwitchEnds, At
    <2>3. Failed(q) \in Request /\ Fits(Failed(q), job[q], tx[q])
        BY <1>1, <2>2, GivesUp, Unfolded
    <2> QED
        BY <2>1, <2>3, OnlyRequest
<1> QED
    BY <1>2, <1>3, <1>4, <1>5, <1>6

LEMMA RejectStep ==
    ASSUME IInv, NEW q \in Requests, AwaitRejects(q)
    PROVE  IInv'
<1>1. Goes(q, Failed(q)) /\ UNCHANGED <<wallet, job, tx, connection>>
    BY DEF AwaitRejects
<1>2. Failed(q) \in Request /\ Fits(Failed(q), job[q], tx[q])
    BY Unfolded, GivesUp DEF AwaitRejects
<1> QED
    BY <1>1, <1>2, OnlyRequest

LEMMA ClientReadyStep ==
    ASSUME IInv, NEW q \in Requests, ClientReady(q)
    PROVE  IInv'
<1>1. /\ request[q] \in Request /\ job[q] \in Jobs /\ tx[q] \in Tx
      /\ Fits(request[q], job[q], tx[q]) /\ wallet \in Wallets
      /\ request[q].pc = "client"
      /\ UNCHANGED <<wallet, job, tx, connection>>
    BY Unfolded DEF ClientReady, At
<1>2. CASE Connected /\ Permitted(q, wallet.account)
    <2> DEFINE n == [request[q] EXCEPT !.pc = "signing", !.from = wallet.account]
    <2>1. Goes(q, n)
        BY <1>2 DEF ClientReady
    <2>2. n \in Request
        BY <1>1 DEF Request, Pcs, Wallets
    <2>3. /\ n.pc = "signing" /\ n.from = wallet.account /\ n.client = request[q].client
          /\ n.method = request[q].method /\ n.need = request[q].need
          /\ n.answer = request[q].answer
          /\ n.reply = request[q].reply /\ n.receipt = request[q].receipt
        BY <1>1 DEF Request
    <2>4. Fits(n, job[q], tx[q])
        BY <1>1, <1>2, <2>3 DEF Fits, Route, Signature, Relay, Settled, Permitted
    <2> QED
        BY <1>1, <2>1, <2>2, <2>4, OnlyRequest
<1>3. CASE ~(Connected /\ Permitted(q, wallet.account))
    <2>1. Goes(q, Failed(q))
        BY <1>3 DEF ClientReady
    <2>2. Failed(q) \in Request /\ Fits(Failed(q), job[q], tx[q])
        BY <1>1, GivesUp
    <2> QED
        BY <1>1, <2>1, <2>2, OnlyRequest
<1> QED
    BY <1>2, <1>3

(* The signature: nothing was sent before it.                                *)
LEMMA SignedStep ==
    ASSUME IInv, NEW q \in Requests, Signed(q)
    PROVE  IInv'
<1> DEFINE n == [request[q] EXCEPT !.pc = "sent", !.answer = "hash"]
           t == [status |-> "pending", from |-> request[q].from, chain |-> wallet.chain]
<1>1. /\ request[q] \in Request /\ job[q] \in Jobs /\ tx[q] \in Tx
      /\ Fits(request[q], job[q], tx[q]) /\ wallet \in Wallets
      /\ request[q].pc = "signing" /\ wallet.chain = request[q].client.chain
      /\ Goes(q, n) /\ UNCHANGED <<wallet, job, connection>>
      /\ tx' = [tx EXCEPT ![q] = t]
    BY Unfolded DEF Signed, At
<1>2. n \in Request /\ t \in Tx
    BY <1>1 DEF Request, Tx, Pcs, Wallets
<1>3. /\ n.pc = "sent" /\ n.answer = "hash"
      /\ n.method = request[q].method /\ n.need = request[q].need
      /\ n.reply = request[q].reply /\ n.receipt = request[q].receipt
    BY <1>1 DEF Request
<1>4. Fits(n, job[q], t)
    BY <1>1, <1>3 DEF Fits, Route, Signature, Relay, Settled
<1>5. job' = [job EXCEPT ![q] = job[q]]
    BY <1>1 DEF IInv, TypeOK
<1> QED
    BY <1>1, <1>2, <1>4, <1>5, OneRequest DEF Goes

(* The relayer strategy: a job that was never there is pending now.          *)
LEMMA PostStep ==
    ASSUME IInv, NEW q \in Requests, NEW lost \in BOOLEAN, Post(q, lost)
    PROVE  IInv'
<1> DEFINE n == IF lost THEN Failed(q) ELSE [request[q] EXCEPT !.pc = "polling"]
<1>1. /\ request[q] \in Request /\ job[q] \in Jobs /\ tx[q] \in Tx
      /\ Fits(request[q], job[q], tx[q])
      /\ request[q].pc = "posting"
      /\ Goes(q, n) /\ UNCHANGED <<wallet, tx, connection>>
      /\ job' = [job EXCEPT ![q] = "pending"]
    BY Unfolded DEF Post, At
<1>2. n \in Request /\ Fits(n, "pending", tx[q])
    <2>1. CASE lost
        BY <1>1, <2>1, GivesUp DEF Jobs
    <2>2. CASE ~lost
        <3>1. /\ n.pc = "polling" /\ n.method = request[q].method /\ n.need = request[q].need
              /\ n.answer = request[q].answer
              /\ n.reply = request[q].reply /\ n.receipt = request[q].receipt
              /\ n \in Request
            BY <1>1, <2>2 DEF Request, Pcs
        <3> QED
            BY <1>1, <3>1 DEF Fits, Route, Signature, Relay, Settled, Mined, Dead
    <2> QED
        BY <2>1, <2>2
<1>3. tx' = [tx EXCEPT ![q] = tx[q]] /\ "pending" \in Jobs
    BY <1>1 DEF IInv, TypeOK, Jobs
<1> QED
    BY <1>1, <1>2, <1>3, OneRequest DEF Goes

LEMMA PollStep ==
    ASSUME IInv, NEW q \in Requests, Poll(q)
    PROVE  IInv'
<1> DEFINE n == [request[q] EXCEPT !.pc = "replied", !.reply = job[q]]
<1>1. /\ request[q] \in Request /\ job[q] \in Jobs /\ tx[q] \in Tx
      /\ Fits(request[q], job[q], tx[q])
      /\ request[q].pc = "polling"
      /\ Goes(q, n) /\ UNCHANGED <<wallet, job, tx, connection>>
    BY Unfolded DEF Poll, At
<1>2. n \in Request
    BY <1>1 DEF Request, Pcs
<1>3. /\ n.pc = "replied" /\ n.reply = job[q]
      /\ n.method = request[q].method /\ n.need = request[q].need
      /\ n.answer = request[q].answer /\ n.receipt = request[q].receipt
    BY <1>1 DEF Request
<1>4. Fits(n, job[q], tx[q])
    BY <1>1, <1>3 DEF Fits, Route, Signature, Relay, Settled
<1> QED
    BY <1>1, <1>2, <1>4, OnlyRequest

(* A status polled: the answer is given only if it is final.                 *)
LEMMA RepliedStep ==
    ASSUME IInv, NEW q \in Requests, Replied(q)
    PROVE  IInv'
<1> DEFINE r == request[q]
<1>1. /\ r \in Request /\ job[q] \in Jobs /\ tx[q] \in Tx
      /\ Fits(r, job[q], tx[q])
      /\ r.pc = "replied"
      /\ UNCHANGED <<wallet, job, tx, connection>>
    BY Unfolded DEF Replied, At
<1>2. CASE r.reply \in Mined /\ Goes(q, [r EXCEPT !.pc = "sent", !.answer = "hash"])
    <2> DEFINE n == [r EXCEPT !.pc = "sent", !.answer = "hash"]
    <2>1. /\ n \in Request /\ n.pc = "sent" /\ n.answer = "hash"
          /\ n.method = r.method /\ n.need = r.need
          /\ n.reply = r.reply /\ n.receipt = r.receipt
        BY <1>1 DEF Request, Pcs
    <2>2. Fits(n, job[q], tx[q])
        BY <1>1, <1>2, <2>1 DEF Fits, Route, Signature, Relay, Settled
    <2> QED
        BY <1>1, <1>2, <2>1, <2>2, OnlyRequest
<1>3. CASE r.reply \in Dead /\ Goes(q, [r EXCEPT !.pc = "done", !.answer = "rejected"])
    <2> DEFINE n == [r EXCEPT !.pc = "done", !.answer = "rejected"]
    <2>1. /\ n \in Request /\ n.pc = "done" /\ n.answer = "rejected"
          /\ n.method = r.method /\ n.need = r.need
          /\ n.reply = r.reply /\ n.receipt = r.receipt
        BY <1>1 DEF Request, Pcs
    <2>2. Fits(n, job[q], tx[q])
        BY <1>1, <1>3, <2>1 DEF Fits, Route, Signature, Relay, Settled
    <2> QED
        BY <1>1, <1>3, <2>1, <2>2, OnlyRequest
<1>4. CASE r.polls + 1 < MaxPolls /\ Goes(q, [r EXCEPT !.pc = "polling", !.polls = @ + 1])
    <2> DEFINE n == [r EXCEPT !.pc = "polling", !.polls = @ + 1]
    <2>1. r.polls + 1 \in 0 .. MaxPolls - 1
        BY <1>1, <1>4, ExecutionAssumption DEF Request
    <2>2. /\ n \in Request /\ n.pc = "polling" /\ n.answer = r.answer
          /\ n.method = r.method /\ n.need = r.need
          /\ n.reply = r.reply /\ n.receipt = r.receipt
        BY <1>1, <2>1 DEF Request, Pcs
    <2>3. Fits(n, job[q], tx[q])
        BY <1>1, <2>2 DEF Fits, Route, Signature, Relay, Settled
    <2> QED
        BY <1>1, <1>4, <2>2, <2>3, OnlyRequest
<1>5. CASE Goes(q, Failed(q))
    <2>1. Failed(q) \in Request /\ Fits(Failed(q), job[q], tx[q])
        BY <1>1, GivesUp
    <2> QED
        BY <1>1, <1>5, <2>1, OnlyRequest
<1> QED
    BY <1>2, <1>3, <1>4, <1>5 DEF Replied

(* The wait for a receipt, and its end.                                      *)
LEMMA ReceiptSteps ==
    ASSUME IInv, NEW q \in Requests,
           WaitForReceipt(q) \/ ReceiptStep(q)
    PROVE  IInv'
<1> DEFINE r == request[q]
<1>1. /\ r \in Request /\ job[q] \in Jobs /\ tx[q] \in Tx
      /\ Fits(r, job[q], tx[q]) /\ wallet \in Wallets
      /\ r.pc \in {"sent", "confirming"}
      /\ UNCHANGED <<wallet, job, tx, connection>>
    BY Unfolded DEF WaitForReceipt, ReceiptStep, ReceiptArrives, NoReceipt, At
<1>2. CASE Goes(q, [r EXCEPT !.pc = "confirming", !.client = wallet])
    <2> DEFINE n == [r EXCEPT !.pc = "confirming", !.client = wallet]
    <2>1. /\ n \in Request /\ n.pc = "confirming" /\ n.answer = r.answer
          /\ n.method = r.method /\ n.need = r.need
          /\ n.reply = r.reply /\ n.receipt = r.receipt
        BY <1>1 DEF Request, Pcs
    <2>2. Fits(n, job[q], tx[q])
        BY <1>1, <2>1 DEF Fits, Route, Signature, Relay, Settled
    <2> QED
        BY <1>1, <1>2, <2>1, <2>2, OnlyRequest
<1>3. ASSUME NEW receipt \in {"unknown", "success", "reverted"},
             Goes(q, [r EXCEPT !.pc = "done", !.receipt = receipt])
      PROVE  IInv'
    <2> DEFINE n == [r EXCEPT !.pc = "done", !.receipt = receipt]
    <2>1. /\ n \in Request /\ n.pc = "done" /\ n.answer = r.answer
          /\ n.method = r.method /\ n.need = r.need
          /\ n.reply = r.reply /\ n.receipt = receipt
        BY <1>1 DEF Request, Pcs
    <2>2. Fits(n, job[q], tx[q])
        BY <1>1, <1>3, <2>1 DEF Fits, Route, Signature, Relay, Settled
    <2> QED
        BY <1>1, <1>3, <2>1, <2>2, OnlyRequest
<1>4. CASE WaitForReceipt(q)
    BY <1>2, <1>3, <1>4 DEF WaitForReceipt
<1>5. CASE ReceiptStep(q)
    BY <1>3, <1>5 DEF ReceiptStep, ReceiptArrives, NoReceipt
<1> QED
    BY <1>4, <1>5

(* The chain and the relayer never touch what is settled.                    *)
LEMMA OutsideSteps ==
    ASSUME IInv, NEW q \in Requests, NEW s \in Outcomes, NEW why \in Dead,
           \/ Mine(q, s) \/ RelayerSubmits(q) \/ (s # "replaced" /\ RelayerMines(q, s))
           \/ RelayerConfirms(q) \/ RelayerGivesUp(q, why)
    PROVE  IInv'
<1> DEFINE r == request[q]
<1>1. /\ r \in Request /\ job[q] \in Jobs /\ tx[q] \in Tx
      /\ Fits(r, job[q], tx[q])
      /\ UNCHANGED <<wallet, request, connection>>
    BY Unfolded DEF Mine, RelayerSubmits, RelayerMines, RelayerConfirms, RelayerGivesUp
<1>2. ASSUME NEW j \in Jobs, NEW st \in {"none", "pending"} \cup Outcomes,
             job' = [job EXCEPT ![q] = j], tx' = [tx EXCEPT ![q].status = st],
             Fits(r, j, [tx[q] EXCEPT !.status = st])
      PROVE  IInv'
    <2>1. [tx[q] EXCEPT !.status = st] \in Tx
        BY <1>1 DEF Tx
    <2>2. tx' = [tx EXCEPT ![q] = [tx[q] EXCEPT !.status = st]]
        BY <1>2
    <2> QED
        BY <1>1, <1>2, <2>1, <2>2, OnlyOutside
<1>3. \A st \in {"none", "pending"} \cup Outcomes :
         LET t == [tx[q] EXCEPT !.status = st]
         IN t.status = st /\ t.from = tx[q].from /\ t.chain = tx[q].chain
    BY <1>1 DEF Tx
<1>4. CASE Mine(q, s)
    <2>1. job' = [job EXCEPT ![q] = job[q]]
        BY <1>4 DEF Mine, IInv, TypeOK
    <2>2. Fits(r, job[q], [tx[q] EXCEPT !.status = s])
        BY <1>1, <1>3, <1>4 DEF Mine, Fits, Route, Signature, Relay, Settled
    <2> QED
        BY <1>1, <1>2, <1>4, <2>1, <2>2 DEF Mine
<1>5. CASE RelayerSubmits(q)
    <2>1. Fits(r, "submitted", [tx[q] EXCEPT !.status = "pending"])
        BY <1>1, <1>3, <1>5 DEF RelayerSubmits, Fits, Route, Signature, Relay, Settled, Mined, Dead
    <2> QED
        BY <1>2, <1>5, <2>1 DEF RelayerSubmits, Jobs
<1>6. CASE s # "replaced" /\ RelayerMines(q, s)
    <2>1. Fits(r, "mined", [tx[q] EXCEPT !.status = s])
        BY <1>1, <1>3, <1>6 DEF RelayerMines, Fits, Route, Signature, Relay, Settled, Mined, Dead
    <2> QED
        BY <1>2, <1>6, <2>1 DEF RelayerMines, Jobs
<1>7. CASE RelayerConfirms(q)
    <2>1. Fits(r, "confirmed", tx[q])
        BY <1>1, <1>7 DEF RelayerConfirms, Fits, Route, Signature, Relay, Settled, Mined, Dead
    <2>2. tx' = [tx EXCEPT ![q] = tx[q]] /\ "confirmed" \in Jobs
        BY <1>7 DEF RelayerConfirms, IInv, TypeOK, Jobs
    <2> QED
        BY <1>1, <1>7, <2>1, <2>2, OnlyOutside DEF RelayerConfirms
<1>8. CASE RelayerGivesUp(q, why)
    <2>1. Fits(r, why, [tx[q] EXCEPT !.status = "none"])
        BY <1>1, <1>3, <1>8 DEF RelayerGivesUp, Fits, Route, Signature, Relay, Settled, Mined, Dead
    <2> QED
        BY <1>2, <1>8, <2>1 DEF RelayerGivesUp, Jobs, Dead
<1> QED
    BY <1>4, <1>5, <1>6, <1>7, <1>8

(* The wallet and the connection are in no relation to a request at rest.    *)
LEMMA WalletSteps ==
    ASSUME IInv, UNCHANGED <<request, job, tx>>, wallet' \in Wallets,
           connection' \in {"idle", "connecting", "switching", "disconnecting", "yes", "no"}
    PROVE  IInv'
BY DEF IInv, TypeOK

LEMMA StepIInv == IInv /\ [Next]_vars => IInv'
<1> SUFFICES ASSUME IInv, [Next]_vars PROVE IInv'
    OBVIOUS
<1>t. /\ wallet \in Wallets
      /\ connection \in {"idle", "connecting", "switching", "disconnecting", "yes", "no"}
    BY DEF IInv, TypeOK
<1>1. CASE \E w \in Wallets : WalletChanges(w)
    BY <1>1, <1>t, WalletSteps DEF WalletChanges
<1>2. ASSUME NEW q \in Requests,
             \/ \E s \in Outcomes : Mine(q, s)
             \/ RelayerSubmits(q)
             \/ \E s \in {"success", "reverted"} : RelayerMines(q, s)
             \/ RelayerConfirms(q)
             \/ \E why \in Dead : RelayerGivesUp(q, why)
      PROVE  IInv'
    <2>1. "failed" \in Dead /\ \A s \in {"success", "reverted"} : s \in Outcomes /\ s # "replaced"
        BY DEF Dead, Outcomes
    <2> QED
        BY <1>2, <2>1, OutsideSteps
<1>3. ASSUME NEW q \in Requests,
             \E m \in Methods, need \in Accounts \cup {Any}, key \in BOOLEAN :
                 Execute(q, m, need, key)
      PROVE  IInv'
    BY <1>3, ExecuteStep
<1>4. ASSUME NEW q \in Requests,
             \/ StartEoa(q) \/ StartTargeted(q) \/ SwitchEnds(q)
             \/ AwaitRejects(q) \/ ClientReady(q) \/ Signed(q)
      PROVE  IInv'
    BY <1>4, StartSteps, RejectStep, ClientReadyStep, SignedStep
<1>5. ASSUME NEW q \in Requests, RelayerStep(q) PROVE IInv'
    BY <1>5, PostStep, PollStep, RepliedStep, RejectStep DEF RelayerStep
<1>6. ASSUME NEW q \in Requests, WaitForReceipt(q) \/ ReceiptStep(q) PROVE IInv'
    BY <1>6, ReceiptSteps DEF ReceiptStep
<1>7. CASE Connect \/ ConnectorFails \/ ConnectSwitched \/ ConnectSwitchFails
    BY <1>7, <1>t, WalletSteps DEF Connect, ConnectorFails, ConnectSwitched, ConnectSwitchFails
<1>8. CASE \E w \in Wallets : ConnectorAnswers(w)
    BY <1>8, <1>t, WalletSteps DEF ConnectorAnswers
<1>9. CASE Disconnected
    <2>1. wallet' \in Wallets
        BY <1>9, <1>t DEF Disconnected, Wallets
    <2> QED
        BY <1>9, <2>1, WalletSteps DEF Disconnected
<1>10. CASE UNCHANGED vars
    BY <1>10, <1>t, WalletSteps DEF vars
<1> QED
    BY <1>1, <1>2, <1>3, <1>4, <1>5, <1>6, <1>7, <1>8, <1>9, <1>10 DEF Next

THEOREM Invariance == Spec => []IInv
BY InitIInv, StepIInv, PTL DEF Spec

-----------------------------------------------------------------------------

(* The variables keep their types, for any number of requests and any        *)
(* polling limit.                                                            *)
THEOREM TypeCorrect == Spec => []TypeOK
<1>1. IInv => TypeOK
    BY DEF IInv
<1> QED
    BY <1>1, Invariance, PTL

(* A transaction that must come from one account comes from that account,    *)
(* whatever the user does to the wallet while it is prepared (eoa.ts:42-50). *)
THEOREM SignerIsRequired == Spec => []SignedByRequired
<1>1. IInv => SignedByRequired
    BY DEF IInv, Fits, Signature, SignedByRequired, Sent
<1> QED
    BY <1>1, Invariance, PTL

(* A transaction for a target network is never sent on another one, although *)
(* the user may switch at every step (sender.ts:22-59, 141-142).             *)
THEOREM NetworkIsTarget == Spec => []SentOnTarget
<1>1. IInv => SentOnTarget
    BY DEF IInv, Fits, Signature, SentOnTarget, Sent
<1> QED
    BY <1>1, Invariance, PTL

(* The relayer strategy answers only what cannot change any more             *)
(* (relayer.ts:362-380).                                                     *)
THEOREM RelayerIsFinal == Spec => []RelayerAnswerFinal
<1>1. IInv => RelayerAnswerFinal
    BY DEF IInv, Fits, Relay, RelayerAnswerFinal
<1> QED
    BY <1>1, Invariance, PTL

(* Only a wallet on the target network is answered as connected: the answer   *)
(* is given in the step that looked (connection.ts:59-79).                   *)
THEOREM ConnectionIsOnTarget == Spec => ConnectedOnTarget
<1> DEFINE Good == connection' = "yes" /\ connection # "yes" =>
                     wallet'.account # Nobody /\ wallet'.chain = Target
<1>1. ASSUME [Next]_vars PROVE [Good]_vars
    <2>1. CASE \E w \in Wallets : ConnectorAnswers(w)
        BY <2>1 DEF ConnectorAnswers
    <2>2. CASE ConnectSwitched
        BY <2>2 DEF ConnectSwitched, Connected
    <2>3. CASE Connect \/ ConnectorFails \/ ConnectSwitchFails \/ Disconnected
        BY <2>3 DEF Connect, ConnectorFails, ConnectSwitchFails, Disconnected
    <2>4. CASE UNCHANGED connection
        BY <2>4
    <2>5. ASSUME ~UNCHANGED vars, ~UNCHANGED connection
          PROVE  \/ \E w \in Wallets : ConnectorAnswers(w)
                 \/ ConnectSwitched
                 \/ Connect \/ ConnectorFails \/ ConnectSwitchFails \/ Disconnected
        <3>1. ASSUME NEW w \in Wallets, WalletChanges(w) PROVE UNCHANGED connection
            BY <3>1 DEF WalletChanges
        <3>2. ASSUME NEW q \in Requests, NEW s \in Outcomes,
                     Mine(q, s) \/ RelayerMines(q, s)
              PROVE  UNCHANGED connection
            BY <3>2 DEF Mine, RelayerMines
        <3>3. ASSUME NEW q \in Requests,
                     \/ RelayerSubmits(q) \/ RelayerConfirms(q)
                     \/ \E why \in Dead : RelayerGivesUp(q, why)
              PROVE  UNCHANGED connection
            BY <3>3 DEF RelayerSubmits, RelayerConfirms, RelayerGivesUp
        <3>4. ASSUME NEW q \in Requests, NEW m \in Methods, NEW need \in Accounts \cup {Any},
                     NEW key \in BOOLEAN, Execute(q, m, need, key)
              PROVE  UNCHANGED connection
            BY <3>4 DEF Execute
        <3>5. ASSUME NEW q \in Requests,
                     \/ StartEoa(q) \/ StartTargeted(q) \/ SwitchEnds(q) \/ AwaitRejects(q)
                     \/ ClientReady(q) \/ Signed(q)
              PROVE  UNCHANGED connection
            BY <3>5 DEF StartEoa, StartTargeted, SwitchEnds, AwaitRejects, ClientReady, Signed
        <3>6. ASSUME NEW q \in Requests, RelayerStep(q)
              PROVE  UNCHANGED connection
            BY <3>5, <3>6 DEF RelayerStep, Post, Poll, Replied
        <3>7. ASSUME NEW q \in Requests, ReceiptStep(q) \/ WaitForReceipt(q)
              PROVE  UNCHANGED connection
            BY <3>7 DEF ReceiptStep, ReceiptArrives, NoReceipt, WaitForReceipt
        <3>8. Next
            BY <1>1, <2>5
        <3>9. ~ \E w \in Wallets : WalletChanges(w)
            BY <2>5, <3>1
        <3>10. ASSUME NEW q \in Requests
               PROVE  /\ ~ \E s \in Outcomes : Mine(q, s) \/ RelayerMines(q, s)
                      /\ ~ \E why \in Dead : RelayerGivesUp(q, why)
                      /\ ~RelayerSubmits(q) /\ ~RelayerConfirms(q)
                      /\ ~ \E m \in Methods, need \in Accounts \cup {Any}, key \in BOOLEAN :
                            Execute(q, m, need, key)
                      /\ ~StartEoa(q) /\ ~StartTargeted(q) /\ ~SwitchEnds(q) /\ ~AwaitRejects(q)
                      /\ ~ClientReady(q) /\ ~Signed(q) /\ ~RelayerStep(q) /\ ~ReceiptStep(q)
                      /\ ~WaitForReceipt(q)
            BY <2>5, <3>2, <3>3, <3>4, <3>5, <3>6, <3>7
        <3> QED
            BY <3>8, <3>9, <3>10 DEF Next, Outcomes
    <2> QED
        BY <1>1, <2>1, <2>2, <2>3, <2>4, <2>5
<1> QED
    BY <1>1, PTL DEF Spec, ConnectedOnTarget
=============================================================================
