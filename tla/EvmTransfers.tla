----------------------------- MODULE EvmTransfers -----------------------------
(***************************************************************************)
(* The owner or default admin of an EVM contract and its pending transfer,  *)
(* as the EVM access-control service tells them (adapter-evm-core/src/      *)
(* access-control: getOwnership and getAdminInfo of service.ts, the reads   *)
(* of onchain-reader.ts, the pending-transfer queries of                    *)
(* indexer-client.ts), and the service's own writers of them.  Unlike on    *)
(* Stellar the pending account is read from the chain; the indexer adds     *)
(* when and by which transaction the transfer was started.                  *)
(***************************************************************************)
EXTENDS Naturals, Sequences

CONSTANTS
    Accounts,       \* accounts a transfer may be to
    MaxStarts,      \* bound on the transfers started
    MaxMoves        \* bound on the steps of the chain during a call

VARIABLES
    kind,           \* "ownership" (Ownable2Step) or "admin" (DefaultAdminRules)
    chain,          \* the holder, and the start that is pending
    starts,         \* the accounts of the transfers started, which are the events
    indexed,        \* how many of them the indexer has
    sent,           \* the operation the service sent last, while it is to be mined
    call            \* the running getOwnership or getAdminInfo

vars == <<kind, chain, starts, indexed, sent, call>>

NoOne == "null"
Nothing == [op |-> "nothing", to |-> NoOne]
Operations == [op : {"start"}, to : Accounts] \cup [op : {"accept", "cancel", "renounce"}, to : {NoOne}]

TypeOK ==
    /\ kind \in {"ownership", "admin"}
    /\ chain \in [holder : Accounts \cup {NoOne}, pending : 0 .. MaxStarts, moves : 0 .. MaxMoves]
    /\ starts \in Seq(Accounts) /\ Len(starts) <= MaxStarts
    /\ indexed \in 0 .. Len(starts)
    /\ sent \in Operations \cup {Nothing}
    /\ call \in [pc : {"idle", "holder", "pending", "available", "query", "done"},
                 holder : Accounts \cup {NoOne}, pending : Accounts \cup {NoOne},
                 initiation : 0 .. MaxStarts,
                 state : {"none", "thrown", "renounced", "held", "pending"}]

-----------------------------------------------------------------------------
(* The contract and the indexer (external).  Anyone may call the contract,  *)
(* through the service or not.                                              *)

Becomes(holder, pending) ==
    /\ chain.moves < MaxMoves
    /\ chain' = [holder |-> holder, pending |-> pending, moves |-> chain.moves + 1]

\* transferOwnership, beginDefaultAdminTransfer: replaces a pending transfer.
Start(account) ==
    /\ chain.holder # NoOne /\ Len(starts) < MaxStarts
    /\ starts' = Append(starts, account)
    /\ Becomes(chain.holder, Len(starts) + 1)

\* acceptOwnership, acceptDefaultAdminTransfer.
Accept ==
    /\ chain.pending # 0
    /\ Becomes(starts[chain.pending], 0)
    /\ UNCHANGED starts

\* cancelDefaultAdminTransfer.
Cancel ==
    /\ kind = "admin" /\ chain.pending # 0
    /\ Becomes(chain.holder, 0)
    /\ UNCHANGED starts

\* renounceOwnership, and the renunciation of the default admin.
Renounce ==
    /\ chain.holder # NoOne
    /\ Becomes(NoOne, 0)
    /\ UNCHANGED starts

Execute(o) ==
    \/ o.op = "start" /\ Start(o.to)
    \/ o.op = "accept" /\ Accept
    \/ o.op = "cancel" /\ Cancel
    \/ o.op = "renounce" /\ Renounce

SomeoneElse ==
    /\ \E o \in Operations : Execute(o)
    /\ UNCHANGED <<kind, indexed, sent, call>>

Mined ==
    /\ sent # Nothing /\ sent' = Nothing
    /\ Execute(sent)
    /\ UNCHANGED <<kind, indexed, call>>

\* The contract reverts it, or it is never mined.
Lost ==
    /\ sent # Nothing /\ sent' = Nothing
    /\ UNCHANGED <<kind, chain, starts, indexed, call>>

Index ==
    /\ indexed < Len(starts)
    /\ indexed' = indexed + 1
    /\ UNCHANGED <<kind, chain, starts, sent, call>>

-----------------------------------------------------------------------------
(* The writers of the service: registered contracts only, and admin         *)
(* operations after ensureHasTwoStepAdmin; what they send, the wallet or a  *)
(* relayer may refuse.  None looks at the state of the transfer first, and   *)
(* what the contract has not is reverted (left out: it changes nothing).    *)

executeAction(op, to) ==
    /\ sent = Nothing
    /\ sent' = [op |-> op, to |-> to]
    /\ UNCHANGED <<kind, chain, starts, indexed, call>>

HasTwoStepAdmin == kind = "admin"

transferOwnership(newOwner) == kind = "ownership" /\ executeAction("start", newOwner)
acceptOwnership == kind = "ownership" /\ executeAction("accept", NoOne)
renounceOwnership == kind = "ownership" /\ executeAction("renounce", NoOne)
transferAdminRole(newAdmin) == HasTwoStepAdmin /\ executeAction("start", newAdmin)
acceptAdminTransfer == HasTwoStepAdmin /\ executeAction("accept", NoOne)
cancelAdminTransfer == HasTwoStepAdmin /\ executeAction("cancel", NoOne)

-----------------------------------------------------------------------------
(* getOwnership and getAdminInfo.                                          *)

Answered(k, state) == [k EXCEPT !.pc = "done", !.state = state]

\* A contract that is not registered, or without the interface, is refused.
Begin ==
    /\ call.pc = "idle"
    /\ call' \in {[call EXCEPT !.pc = "holder"], Answered(call, "thrown")}
    /\ UNCHANGED <<kind, chain, starts, indexed, sent>>

\* The mutant of HolderUnread for RenouncedIsReal: the failure is taken for null, as
\* the Stellar adapter's getAdmin takes it.
UnreadIsNull == [call EXCEPT !.pc = "pending", !.holder = NoOne]

\* owner() or defaultAdmin() is required: the call throws when it cannot be read.
HolderUnread == Answered(call, "thrown")

ReadHolder ==
    /\ call.pc = "holder"
    /\ \/ call' = HolderUnread
       \/ call' = [call EXCEPT !.pc = "pending", !.holder = chain.holder]
    /\ UNCHANGED <<kind, chain, starts, indexed, sent>>

\* pendingOwner() or pendingDefaultAdmin(): a read that fails counts as no pending
\* transfer.  The answer is there, unless one is pending.
ReadPending ==
    /\ call.pc = "pending"
    /\ \E pending \in {0, chain.pending} :
         LET read == [call EXCEPT !.pending = IF pending = 0 THEN NoOne ELSE starts[pending]]
         IN call' = IF call.holder = NoOne THEN Answered(read, "renounced")
                    ELSE IF pending = 0 THEN Answered(read, "held")
                    ELSE [read EXCEPT !.pc = "available"]
    /\ UNCHANGED <<kind, chain, starts, indexed, sent>>

\* isAvailable: without the indexer the transfer is told without its initiation.
CheckAvailability ==
    /\ call.pc = "available"
    /\ call' \in {[call EXCEPT !.pc = "query"], Answered(call, "pending")}
    /\ UNCHANGED <<kind, chain, starts, indexed, sent>>

\* The start queried: orderBy TIMESTAMP_DESC, first 1.
Newest == indexed

\* queryPendingOwnershipTransfer, queryPendingAdminTransfer; a query that fails
\* counts as none.
Query ==
    /\ call.pc = "query"
    /\ \E initiation \in {0, Newest} :
         call' = [Answered(call, "pending") EXCEPT !.initiation = initiation]
    /\ UNCHANGED <<kind, chain, starts, indexed, sent>>

-----------------------------------------------------------------------------
Init ==
    /\ kind \in {"ownership", "admin"}
    /\ chain \in [holder : Accounts, pending : {0}, moves : {0}]
    /\ starts = <<>> /\ indexed = 0 /\ sent = Nothing
    /\ call = [pc |-> "idle", holder |-> NoOne, pending |-> NoOne, initiation |-> 0,
               state |-> "none"]

Next ==
    \/ SomeoneElse \/ Mined \/ Lost \/ Index
    \/ \E account \in Accounts : transferOwnership(account) \/ transferAdminRole(account)
    \/ acceptOwnership \/ acceptAdminTransfer \/ cancelAdminTransfer \/ renounceOwnership
    \/ Begin \/ ReadHolder \/ ReadPending \/ CheckAvailability \/ Query

Spec == Init /\ [][Next]_vars

-----------------------------------------------------------------------------
(* Properties.                                                             *)

\* Renounced is told only of a contract that has no holder any more, and never of one
\* that could not be read, although every other read that fails is passed over.
RenouncedIsReal == call.state = "renounced" => chain.holder = NoOne
=============================================================================
