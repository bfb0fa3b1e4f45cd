------------------------------ MODULE EvmRoles ------------------------------
(***************************************************************************)
(* The role reads of EvmAccessControlService                               *)
(* (adapter-evm-core/src/access-control): the context kept per registered  *)
(* contract, role discovery, the enumeration of members on the chain, and  *)
(* the indexer that fills in or annotates them.  One contract; several     *)
(* calls are in flight at once, and the chain, the indexer and the         *)
(* synchronous methods (registerContract, addKnownRoleIds, dispose) move   *)
(* between any two awaits of a call.                                       *)
(*                                                                         *)
(* A call's steps are the stretches between awaits.  An indexer that is    *)
(* not configured behaves like one whose first health check fails.         *)
(***************************************************************************)
EXTENDS Naturals, Sequences, FiniteSets

CONSTANTS
    Calls,          \* concurrent calls of the service
    Methods,        \* the methods each of them may be a call of
    Roles,          \* bytes32 role identifiers
    Given,          \* those among them the application knows of
    Named,          \* those among them that somebody has a label for
    Accounts,       \* accounts that may hold a role
    Window,         \* events a discovery query returns (first: 1000)
    MaxEvents,      \* bound: role events of the contract
    MaxContexts     \* bound: registrations

Reads == {"roles", "enriched", "discover"}

ASSUME BoundsAssumption ==
    /\ Methods \in [Calls -> SUBSET Reads]
    /\ Given \subseteq Roles /\ Named \subseteq Roles
    /\ Window \in Nat \ {0}
    /\ MaxEvents \in Nat
    /\ MaxContexts \in Nat \ {0}

VARIABLES
    log,        \* RoleGranted and RoleRevoked events, oldest first
    indexed,    \* how many of them the indexer has processed
    contexts,   \* every context registerContract made, oldest first
    current,    \* the one the contractContexts map holds, 0 when none
    indexer,    \* the indexer client's availabilityChecked and available
    call        \* the calls

vars == <<log, indexed, contexts, current, indexer, call>>

-----------------------------------------------------------------------------
(* The contract, and what the indexer knows of it.                         *)

Event == [kind : {"grant", "revoke"}, role : Roles, account : Accounts]

\* OpenZeppelin's EnumerableSet: a removal moves the last member into the gap.
Without(s, a) ==
    LET i == CHOOSE j \in DOMAIN s : s[j] = a
    IN SubSeq([s EXCEPT ![i] = s[Len(s)]], 1, Len(s) - 1)

\* The members of role r, in the order getRoleMember lists them, after n events.
MembersAfter(r, n) ==
    LET after[i \in 0..n] ==
          IF i = 0 THEN <<>>
          ELSE IF log[i].role # r THEN after[i - 1]
          ELSE IF log[i].kind = "grant" THEN Append(after[i - 1], log[i].account)
          ELSE Without(after[i - 1], log[i].account)
    IN after[n]

Holders(r, n) ==
    LET m == MembersAfter(r, n) IN {m[i] : i \in DOMAIN m}

\* The roles named by the newest events, as discoverRoleIds asks for them.
RecentRoles == {log[n].role : n \in {i \in 1..indexed : i + Window > indexed}}

-----------------------------------------------------------------------------
(* The service's contexts and calls.                                       *)

Labels == {"none", "given", "abi"}

Context == [known : SUBSET Roles, discovered : SUBSET Roles, attempted : BOOLEAN,
            label : [Named -> Labels], abiDone : BOOLEAN, enumerable : BOOLEAN]

\* Progress of enumerateRoleMembers: the count once read, the next index.
Unread == [counted |-> FALSE, count |-> 0, next |-> 0]
Ended(p) == p.counted /\ p.next = p.count

Pcs == {"idle", "abi", "capabilities", "health", "asking", "refused",
        "reading", "done"}

Call == [pc : Pcs, op : Reads,
         purpose : {"discover", "populate", "enrich"},
         ctx : 0..MaxContexts, ids : SUBSET Roles, listed : BOOLEAN,
         progress : [Roles -> [counted : BOOLEAN, count : 0..MaxEvents, next : 0..MaxEvents]],
         members : [Roles -> SUBSET Accounts],
         outcome : {"none", "answer", "error"},
         since : 0..MaxEvents]

Nobody == [r \in Roles |-> {}]

Fresh(op) ==
    [pc |-> "idle", op |-> op, purpose |-> "discover", ctx |-> current, ids |-> {},
     listed |-> FALSE, progress |-> [r \in Roles |-> Unread],
     members |-> Nobody, outcome |-> "none", since |-> 0]

Merged(ctx) == ctx.known \cup ctx.discovered

\* A call that is over keeps its answer only.
Failed(k) == [Fresh(k.op) EXCEPT !.pc = "done", !.outcome = "error", !.ctx = 0]

Answered(k) ==
    [k EXCEPT !.pc = "done", !.outcome = "answer", !.ctx = 0, !.purpose = "discover",
              !.progress = [r \in Roles |-> Unread]]

\* Where a call goes with the answer of isAvailable; the enrichment first looks
\* its context up again, and a missing one counts as a failed enrichment.
WithAvailability(k, up) ==
    [k EXCEPT !.pc = IF up /\ (k.purpose = "enrich" => current # 0)
                     THEN "asking" ELSE "refused"]

\* isAvailable: the cached answer, or a health check.
Ask(k, purpose) ==
    LET p == [k EXCEPT !.purpose = purpose]
    IN IF indexer.checked THEN WithAvailability(p, indexer.available)
       ELSE [p EXCEPT !.pc = "health"]

\* getCurrentRoles has its members: the end of one method, the middle of the other.
HasRoles(k) ==
    IF k.op = "enriched"
    THEN Ask([k EXCEPT !.progress = [r \in Roles |-> Unread]], "enrich")
    ELSE Answered(k)

\* readCurrentRoles: members are enumerated where the contract can, and asked of
\* the indexer where it cannot.
StartReading(k, ids) ==
    LET p == [k EXCEPT !.ids = ids]
    IN IF ids = {} THEN Answered(p)
       ELSE IF k.listed THEN [p EXCEPT !.pc = "reading", !.since = Len(log)]
       ELSE Ask(p, "populate")

\* What a discovery, or its refusal, leads to.
HasRoleIds(k, ids) ==
    IF k.op = "discover" THEN Answered([k EXCEPT !.ids = ids])
    ELSE StartReading(k, ids)

Goes(c, k) == call' = [call EXCEPT ![c] = k]

-----------------------------------------------------------------------------
(* The environment.                                                        *)

Init ==
    /\ log = <<>>
    /\ indexed = 0
    /\ contexts = <<>>
    /\ current = 0
    /\ indexer = [checked |-> FALSE, available |-> FALSE]
    /\ call = [c \in Calls |-> Fresh("roles")]

Emit(r, a) ==
    /\ Len(log) < MaxEvents
    /\ log' = Append(log, [kind |-> IF a \in Holders(r, Len(log)) THEN "revoke" ELSE "grant",
                           role |-> r, account |-> a])
    /\ UNCHANGED <<indexed, contexts, current, indexer, call>>

CatchUp ==
    /\ indexed < Len(log)
    /\ indexed' = indexed + 1
    /\ UNCHANGED <<log, contexts, current, indexer, call>>

-----------------------------------------------------------------------------
(* The synchronous methods.                                                *)

\* registerContract: a new context takes the place of the old one, which calls
\* in flight go on using.
RegisterContract(ids, e) ==
    /\ Len(contexts) < MaxContexts
    /\ contexts' = Append(contexts,
         [known |-> ids, discovered |-> {}, attempted |-> FALSE,
          label |-> [r \in Named |-> "none"], abiDone |-> FALSE, enumerable |-> e])
    /\ current' = Len(contexts')
    /\ UNCHANGED <<log, indexed, indexer, call>>

\* addKnownRoleIds: labels are stored item by item while the ids are validated;
\* an invalid item throws away the ids but not the labels stored before it.
AddKnownRoleIds(ids, labelled, valid) ==
    /\ current # 0
    /\ contexts' = [contexts EXCEPT
         ![current].known = IF valid THEN @ \cup ids ELSE @,
         ![current].label = [r \in Named |-> IF r \in labelled THEN "given" ELSE @[r]]]
    /\ UNCHANGED <<log, indexed, current, indexer, call>>

Dispose ==
    /\ current # 0
    /\ current' = 0
    /\ UNCHANGED <<log, indexed, contexts, indexer, call>>

-----------------------------------------------------------------------------
(* Calls.                                                                  *)

\* getContextOrThrow at the start of every method.
StartUnregistered(c, op) ==
    /\ call[c].pc = "idle"
    /\ current = 0
    /\ Goes(c, Failed(Fresh(op)))
    /\ UNCHANGED <<log, indexed, contexts, current, indexer>>

\* getCurrentRoles and getCurrentRolesEnriched: labels first, once per context.
StartRoles(c, op) ==
    /\ call[c].pc = "idle"
    /\ current # 0
    /\ Goes(c, [Fresh(op) EXCEPT
                  !.pc = IF contexts[current].abiDone THEN "capabilities" ELSE "abi"])
    /\ UNCHANGED <<log, indexed, contexts, current, indexer>>

\* The mutant of AbiAnswers: the contract's own names win.
AbiAnswersOver(c, found) ==
    /\ call[c].pc = "abi"
    /\ contexts' = [contexts EXCEPT
         ![call[c].ctx].abiDone = TRUE,
         ![call[c].ctx].label = [r \in Named |-> IF r \in found THEN "abi" ELSE @[r]]]
    /\ Goes(c, [call[c] EXCEPT !.pc = "capabilities"])
    /\ UNCHANGED <<log, indexed, current, indexer>>

\* discoverRoleLabelsFromAbi: the labels of the role constants that answered;
\* labels given by the caller are kept.
AbiAnswers(c, found) ==
    /\ call[c].pc = "abi"
    /\ contexts' = [contexts EXCEPT
         ![call[c].ctx].abiDone = TRUE,
         ![call[c].ctx].label = [r \in Named |->
            IF r \in found /\ @[r] = "none" THEN "abi" ELSE @[r]]]
    /\ Goes(c, [call[c] EXCEPT !.pc = "capabilities"])
    /\ UNCHANGED <<log, indexed, current, indexer>>

\* No RPC client: the call fails, and the labels are never asked for again.
AbiFails(c) ==
    /\ call[c].pc = "abi"
    /\ contexts' = [contexts EXCEPT ![call[c].ctx].abiDone = TRUE]
    /\ Goes(c, Failed(call[c]))
    /\ UNCHANGED <<log, indexed, current, indexer>>

\* A discovery marks its context before it asks anybody.
Discover(c, k) ==
    IF contexts[k.ctx].attempted
    THEN /\ Goes(c, HasRoleIds(k, Merged(contexts[k.ctx])))
         /\ UNCHANGED contexts
    ELSE /\ Goes(c, Ask(k, "discover"))
         /\ contexts' = [contexts EXCEPT ![k.ctx].attempted = TRUE]

\* discoverKnownRoleIds.
DiscoverKnownRoleIds(c) ==
    /\ call[c].pc = "idle"
    /\ current # 0
    /\ Discover(c, Fresh("discover"))
    /\ UNCHANGED <<log, indexed, current, indexer>>

\* getCapabilities looks the contract up again, so that the answer is that of the
\* registration of now; then role ids come from the call's own context.
Capabilities(c) ==
    /\ call[c].pc = "capabilities"
    /\ LET k == [call[c] EXCEPT !.listed = current # 0 /\ contexts[current].enumerable]
           ids == Merged(contexts[k.ctx])
       IN \/ current = 0 /\ Goes(c, Failed(k)) /\ UNCHANGED contexts
          \/ current # 0 /\ ids = {} /\ Discover(c, k)
          \/ current # 0 /\ ids # {} /\ Goes(c, StartReading(k, ids)) /\ UNCHANGED contexts
    /\ UNCHANGED <<log, indexed, current, indexer>>

\* The health check of isAvailable answers; every answer is cached.
HealthAnswers(c, up) ==
    /\ call[c].pc = "health"
    /\ indexer' = [checked |-> TRUE, available |-> up]
    /\ Goes(c, WithAvailability(call[c], up))
    /\ UNCHANGED <<log, indexed, contexts, current>>

\* discoverRoleIds answers.
Discovered(c) ==
    /\ call[c].pc = "asking"
    /\ call[c].purpose = "discover"
    /\ LET i == call[c].ctx
           ctx == [contexts[i] EXCEPT !.discovered = IF RecentRoles = {} THEN @ ELSE RecentRoles]
       IN /\ contexts' = [contexts EXCEPT ![i] = ctx]
          /\ Goes(c, HasRoleIds(call[c], Merged(ctx)))
    /\ UNCHANGED <<log, indexed, current, indexer>>

\* enumerateRoleMembers of role r: first getRoleMemberCount,
CountMembers(c, r) ==
    /\ call[c].pc = "reading"
    /\ r \in call[c].ids
    /\ ~call[c].progress[r].counted
    /\ Goes(c, [call[c] EXCEPT !.progress[r] =
                  [counted |-> TRUE, count |-> Len(MembersAfter(r, Len(log))), next |-> 0]])
    /\ UNCHANGED <<log, indexed, contexts, current, indexer>>

\* whose failure leaves the role empty;
CountFails(c, r) ==
    /\ call[c].pc = "reading"
    /\ r \in call[c].ids
    /\ ~call[c].progress[r].counted
    /\ Goes(c, [call[c] EXCEPT !.progress[r].counted = TRUE])
    /\ UNCHANGED <<log, indexed, contexts, current, indexer>>

\* The index getRoleMember is asked for, from 1.
Index(c, r) == call[c].progress[r].next + 1

\* then one getRoleMember after another, each of the state of its moment,
ReadMember(c, r) ==
    /\ call[c].pc = "reading"
    /\ r \in call[c].ids
    /\ call[c].progress[r].counted /\ ~Ended(call[c].progress[r])
    /\ LET m == MembersAfter(r, Len(log))
       IN /\ Index(c, r) \in DOMAIN m
          /\ Goes(c, [call[c] EXCEPT !.progress[r].next = @ + 1,
                                     !.members[r] = @ \cup {m[Index(c, r)]}])
    /\ UNCHANGED <<log, indexed, contexts, current, indexer>>

\* The mutant of SkipMember: the failing index is tried again for ever.
RetryMember(c, r) ==
    /\ call[c].pc = "reading"
    /\ r \in call[c].ids
    /\ call[c].progress[r].counted /\ ~Ended(call[c].progress[r])
    /\ UNCHANGED vars

\* of which a failing one (the network, or an index past the end) is skipped.
SkipMember(c, r) ==
    /\ call[c].pc = "reading"
    /\ r \in call[c].ids
    /\ call[c].progress[r].counted /\ ~Ended(call[c].progress[r])
    /\ Goes(c, [call[c] EXCEPT !.progress[r].next = @ + 1])
    /\ UNCHANGED <<log, indexed, contexts, current, indexer>>

\* The mutant of AllRead: empty roles are filled in whatever the contract can list.
AllReadPopulated(c) ==
    /\ call[c].pc = "reading"
    /\ \A r \in call[c].ids : Ended(call[c].progress[r])
    /\ Goes(c, IF \E r \in call[c].ids : call[c].members[r] = {}
               THEN Ask(call[c], "populate") ELSE HasRoles(call[c]))
    /\ UNCHANGED <<log, indexed, contexts, current, indexer>>

\* Promise.all of the roles.
AllRead(c) ==
    /\ call[c].pc = "reading"
    /\ \A r \in call[c].ids : Ended(call[c].progress[r])
    /\ Goes(c, HasRoles(call[c]))
    /\ UNCHANGED <<log, indexed, contexts, current, indexer>>

\* queryLatestGrants: the memberships the indexer reports are those after the events it has
\* processed; of their grants only the accounts matter here.
LatestGrants(r) == Holders(r, indexed)

\* Roles without members take the accounts of their grants.
Filled(k) ==
    [r \in Roles |-> IF r \in k.ids /\ k.members[r] = {} THEN LatestGrants(r)
                     ELSE k.members[r]]

\* queryLatestGrants answers populateMembersFromIndexer.
Populated(c) ==
    /\ call[c].pc = "asking"
    /\ call[c].purpose = "populate"
    /\ Goes(c, HasRoles([call[c] EXCEPT !.members = Filled(call[c])]))
    /\ UNCHANGED <<log, indexed, contexts, current, indexer>>

\* queryLatestGrants answers getCurrentRolesEnriched.
Enriched(c) ==
    /\ call[c].pc = "asking"
    /\ call[c].purpose = "enrich"
    /\ Goes(c, Answered([call[c] EXCEPT !.members = Filled(call[c])]))
    /\ UNCHANGED <<log, indexed, contexts, current, indexer>>

\* A query of the indexer fails, answers with errors, or is not made.
QueryFails(c) ==
    /\ call[c].pc = "asking"
    /\ Goes(c, [call[c] EXCEPT !.pc = "refused"])
    /\ UNCHANGED <<log, indexed, contexts, current, indexer>>

\* Graceful degradation: the call goes on with what it has.
WithoutIndexer(c) ==
    /\ call[c].pc = "refused"
    /\ Goes(c, CASE call[c].purpose = "discover" ->
                      HasRoleIds(call[c], Merged(contexts[call[c].ctx]))
                 [] call[c].purpose = "populate" -> HasRoles(call[c])
                 [] call[c].purpose = "enrich"   -> Answered(call[c]))
    /\ UNCHANGED <<log, indexed, contexts, current, indexer>>

Progress(c) ==
    \/ \E found \in SUBSET Named : AbiAnswers(c, found)
    \/ AbiFails(c)
    \/ Capabilities(c)
    \/ \E up \in BOOLEAN : HealthAnswers(c, up)
    \/ Discovered(c)
    \/ \E r \in Roles : CountMembers(c, r)
    \/ \E r \in Roles : CountFails(c, r)
    \/ \E r \in Roles : ReadMember(c, r)
    \/ \E r \in Roles : SkipMember(c, r)
    \/ AllRead(c)
    \/ Populated(c)
    \/ Enriched(c)
    \/ QueryFails(c)
    \/ WithoutIndexer(c)

Next ==
    \/ \E r \in Roles, a \in Accounts : Emit(r, a)
    \/ CatchUp
    \/ \E ids \in SUBSET Given, e \in BOOLEAN : RegisterContract(ids, e)
    \/ \E ids \in SUBSET Given : \E labelled \in SUBSET (ids \cap Named), valid \in BOOLEAN :
          AddKnownRoleIds(ids, labelled, valid)
    \/ Dispose
    \/ \E c \in Calls : \E op \in Methods[c] \ {"discover"} : StartRoles(c, op)
    \/ \E c \in Calls : \E op \in Methods[c] : StartUnregistered(c, op)
    \/ \E c \in Calls : "discover" \in Methods[c] /\ DiscoverKnownRoleIds(c)
    \/ \E c \in Calls : Progress(c)

\* Every request is answered or fails (fetch and the RPC transport time out), and
\* the event loop runs what is ready.
Fairness == \A c \in Calls : WF_vars(Progress(c))

Spec == Init /\ [][Next]_vars /\ Fairness

-----------------------------------------------------------------------------
(* Properties.                                                             *)

\* The variables keep their types.
TypeOK ==
    /\ log \in Seq(Event) /\ Len(log) <= MaxEvents
    /\ indexed \in 0..Len(log)
    /\ contexts \in Seq(Context) /\ Len(contexts) <= MaxContexts
    /\ current \in 0..Len(contexts)
    /\ indexer \in [checked : BOOLEAN, available : BOOLEAN]
    /\ call \in [Calls -> Call]

Done(c, op) == call[c].pc = "done" /\ call[c].outcome = "answer" /\ call[c].op = op

\* A label the caller gave with addKnownRoleIds is never replaced by a name read
\* from the contract, however late that answer comes and however many calls asked
\* for it (service.ts:221).
ExternalLabelWins ==
    [][\A i \in DOMAIN contexts, r \in Named :
          contexts[i].label[r] = "given" => contexts'[i].label[r] = "given"]_vars

\* Members that getCurrentRoles lists for an enumerable contract were read from the
\* chain: each held the role at some moment of the reading, even though the count and
\* the members are read one by one while roles are granted and revoked.
MembersHeldDuringCall ==
    \A c \in Calls : Done(c, "roles") /\ call[c].listed =>
        \A r \in call[c].ids : \A a \in call[c].members[r] :
            \E n \in call[c].since .. Len(log) : a \in Holders(r, n)

\* Every call ends, whatever fails on the way (FR-017).
CallsEnd == \A c \in Calls : (call[c].pc \notin {"idle", "done"}) ~> (call[c].pc = "done")

\* getCurrentRolesEnriched "builds on getCurrentRoles() and enriches each member",
\* and "for enumerable contracts, enrich on-chain members with indexer metadata"
\* (service.ts:1012, 1094): the members it shows for such a contract should have
\* held the role while it was read, as those of getCurrentRoles have.  The code
\* fills every empty role from the indexer, also one that the chain says is empty.
EnrichedMembersHeld ==
    \A c \in Calls : Done(c, "enriched") /\ call[c].listed =>
        \A r \in call[c].ids : \A a \in call[c].members[r] :
            \E n \in call[c].since .. Len(log) : a \in Holders(r, n)
=============================================================================
