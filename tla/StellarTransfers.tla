--------------------------- MODULE StellarTransfers ---------------------------
(***************************************************************************)
(* How the Stellar access-control service tells the state of a two-step    *)
(* transfer (adapter-stellar/src/access-control: getOwnership and          *)
(* getAdminInfo of service.ts, the two pending-transfer queries of         *)
(* indexer-client.ts, the reads of onchain-reader.ts).  The holder is read  *)
(* from the chain, the transfer from an indexer that lags behind it, the    *)
(* ledger from the chain again; the chain goes on in between.              *)
(* "held" stands for the 'owned' of an owner and the 'active' of an admin. *)
(***************************************************************************)
EXTENDS Naturals, Sequences, FiniteSets

CONSTANTS
    Addresses,      \* the accounts a transfer may be to
    MaxLedger,      \* bound on the ledgers that close
    MaxEvents       \* bound on the transfer events of the contract

VARIABLES
    kind,           \* which of the two transfers the contract has
    chain,          \* last closed ledger, and the contract's holder and pending transfer
    events,         \* the transfer events of the contract, in order
    indexed,        \* how many of them the indexer has
    call            \* the running getOwnership or getAdminInfo

vars == <<kind, chain, events, indexed, call>>

NoOne == "null"
Until == 1 .. MaxLedger + 1

\* A started event is its transfer; a completed one names the start it completes.
Event == [type : {"started", "completed"}, to : Addresses, until : Until,
          ledger : 1 .. MaxLedger, of : 1 .. MaxEvents]

States == {"none", "thrown", "renounced", "held", "pending", "expired"}

Call == [pc : {"idle", "holder", "available", "started", "completed", "ledger", "done"},
         holder : Addresses \cup {NoOne}, transfer : 0 .. MaxEvents, state : States,
         clean : BOOLEAN,                   \* history: no read of the call failed
         first : 0 .. MaxEvents,            \* history: indexed at the first query,
         second : 0 .. MaxEvents,           \* at the second query,
         read : 0 .. MaxEvents]             \* and Len(events) at the ledger read

TypeOK ==
    /\ kind \in {"ownership", "admin"}
    /\ chain \in [ledger : 0 .. MaxLedger, holder : Addresses \cup {NoOne}, pending : 0 .. MaxEvents]
    /\ events \in Seq(Event) /\ Len(events) <= MaxEvents
    /\ indexed \in 0 .. Len(events)
    /\ call \in Call

NoCall == [pc |-> "idle", holder |-> NoOne, transfer |-> 0, state |-> "none", clean |-> TRUE,
           first |-> 0, second |-> 0, read |-> 0]

-----------------------------------------------------------------------------
(* The contract and the indexer (external).  A ledger holds at most two     *)
(* operations of the contract; they carry one timestamp, the ledger's.      *)

\* A transfer can be accepted up to the ledger it names, which is what
\* validateExpirationLedger and the expiry check of the readers rest on.
Live(c, ledger) == c.pending # 0 /\ ledger <= c.events[c.pending].until

Start(c, ledger, to, until) ==
    [c EXCEPT !.pending = Len(c.events) + 1,
        !.events = Append(@, [type |-> "started", to |-> to, until |-> until,
                              ledger |-> ledger, of |-> Len(c.events) + 1])]

Accept(c, ledger) ==
    [c EXCEPT !.holder = c.events[c.pending].to, !.pending = 0,
        !.events = Append(@, [c.events[c.pending] EXCEPT !.type = "completed", !.ledger = ledger])]

\* What one operation, or none, may make of the contract.
AfterOperation(c, ledger) ==
    {c} \cup
    (IF c.holder = NoOne THEN {}
     ELSE {Start(c, ledger, to, until) : to \in Addresses, until \in ledger .. MaxLedger + 1}
          \cup (IF Live(c, ledger) THEN {Accept(c, ledger)}
                ELSE {[c EXCEPT !.holder = NoOne, !.pending = 0]}))

CloseLedger ==
    /\ chain.ledger < MaxLedger
    /\ LET ledger == chain.ledger + 1
           now == [holder |-> chain.holder, pending |-> chain.pending, events |-> events]
       IN \E once \in AfterOperation(now, ledger) : \E twice \in AfterOperation(once, ledger) :
            /\ Len(twice.events) <= MaxEvents
            /\ chain' = [ledger |-> ledger, holder |-> twice.holder, pending |-> twice.pending]
            /\ events' = twice.events
    /\ UNCHANGED <<kind, indexed, call>>

\* The indexer takes over a closed ledger at a time.
Index ==
    /\ indexed < Len(events)
    /\ \E n \in indexed + 1 .. Len(events) :
         /\ n < Len(events) => events[n + 1].ledger > events[n].ledger
         /\ indexed' = n
    /\ UNCHANGED <<kind, chain, events, call>>

-----------------------------------------------------------------------------
(* getOwnership and getAdminInfo.                                          *)

Answered(state) == [call EXCEPT !.pc = "done", !.state = state]
Degraded(state) == [call EXCEPT !.pc = "done", !.state = state, !.clean = FALSE]

\* The call begins; a registered contract without the interface is refused.
Begin ==
    /\ call.pc = "idle"
    /\ call' \in {[call EXCEPT !.pc = "holder"], Degraded("thrown")}
    /\ UNCHANGED <<kind, chain, events, indexed>>

\* The holder of the contract.  readOwnership throws when the read fails; getAdmin
\* answers null, as for a contract without an admin, and getAdminInfo tells the failure
\* as 'renounced'.
FailedHolderRead == IF kind = "ownership" THEN "thrown" ELSE "renounced"

ReadHolder ==
    /\ call.pc = "holder"
    /\ \/ call' = Degraded(FailedHolderRead)
       \/ chain.holder = NoOne /\ call' = Answered("renounced")
       \/ chain.holder # NoOne
          /\ call' = [call EXCEPT !.pc = "available", !.holder = chain.holder]
    /\ UNCHANGED <<kind, chain, events, indexed>>

\* checkAvailability: without an indexer the holder is all there is to tell.
CheckAvailability ==
    /\ call.pc = "available"
    /\ call' \in {[call EXCEPT !.pc = "started"], Degraded("held")}
    /\ UNCHANGED <<kind, chain, events, indexed>>

Indexed(type) == {i \in 1 .. indexed : events[i].type = type}

\* orderBy TIMESTAMP_DESC, first 1: any one of the last ledger that has some.
Latest(S) == {i \in S : \A j \in S : events[j].ledger <= events[i].ledger}

\* The mutant of CompletedAfter: the completion query without its afterTimestamp.
CompletedEver(start) == Indexed("completed")

\* Completions with a timestamp greater than that of the start.
CompletedAfter(start) == {i \in Indexed("completed") : events[i].ledger > events[start].ledger}

QueryStarted ==
    /\ call.pc = "started"
    /\ \/ call' = Degraded("held")
       \/ /\ Indexed("started") = {}
          /\ call' = [Answered("held") EXCEPT !.first = indexed, !.second = indexed]
       \/ \E start \in Latest(Indexed("started")) :
            call' = [call EXCEPT !.pc = "completed", !.transfer = start, !.first = indexed]
    /\ UNCHANGED <<kind, chain, events, indexed>>

\* The second query; a start without one of its fields, which an older indexer
\* returns, counts as none.
QueryCompleted ==
    /\ call.pc = "completed"
    /\ \/ call' = Degraded("held")
       \/ /\ CompletedAfter(call.transfer) # {}
          /\ call' = [Answered("held") EXCEPT !.second = indexed]
       \/ /\ CompletedAfter(call.transfer) = {}
          /\ call' = [call EXCEPT !.pc = "ledger", !.second = indexed]
    /\ UNCHANGED <<kind, chain, events, indexed>>

\* The mutant of Expired for ExpiredIsFinal: the ledger to come instead of the last.
ExpiredAtNext(transfer, ledger) == ledger + 1 >= events[transfer].until

\* The ledger is the last one that closed.
Expired(transfer, ledger) == ledger >= events[transfer].until

ReadLedger ==
    /\ call.pc = "ledger"
    /\ \/ call' = Degraded("held")
       \/ call' = [Answered(IF Expired(call.transfer, chain.ledger) THEN "expired" ELSE "pending")
                    EXCEPT !.read = Len(events)]
    /\ UNCHANGED <<kind, chain, events, indexed>>

-----------------------------------------------------------------------------
Init ==
    /\ kind \in {"ownership", "admin"}
    /\ chain \in [ledger : {0}, holder : Addresses, pending : {0}]
    /\ events = <<>> /\ indexed = 0
    /\ call = NoCall

Next == CloseLedger \/ Index \/ Begin \/ ReadHolder \/ CheckAvailability
        \/ QueryStarted \/ QueryCompleted \/ ReadLedger

Spec == Init /\ [][Next]_vars

-----------------------------------------------------------------------------
(* Properties.                                                             *)

\* The answer agrees with the indexer.  A transfer reported pending was the last one of the
\* chain as far as the indexer had it when it was asked, but for what fell in the ledger of
\* its start: the timestamps of the two queries cannot tell it apart, and a transfer
\* accepted in the ledger it started in is told pending.
\* And a call none of whose reads failed does not answer 'owned' or 'active' when the last
\* thing the indexer had, from the first query to the second, was a start.
PendingAgrees ==
    /\ call.state = "pending" =>
         \A i \in call.transfer + 1 .. call.first : events[i].ledger = events[call.transfer].ledger
    /\ call.state = "held" /\ call.clean =>
         ~ \E i \in 1 .. call.first :
             events[i].type = "started" /\ \A j \in i + 1 .. call.second : events[j].type = "started"

\* The holder of a contract told renounced is gone.  This holds of getOwnership whatever
\* fails; of getAdminInfo it holds only where no read failed, since it tells a failed
\* get_admin as 'renounced' too.
RenouncedIsReal ==
    call.state = "renounced" /\ (kind = "ownership" \/ call.clean) => chain.holder = NoOne

\* Expired is for good: no transfer reported expired is accepted after the ledger
\* it was judged by, although the contract still accepts in the ledger it names.
ExpiredIsFinal ==
    call.state = "expired" =>
        \A i \in call.read + 1 .. Len(events) :
            events[i].type = "completed" => events[i].of # call.transfer
=============================================================================
