----------------------------- MODULE StellarRoles -----------------------------
(***************************************************************************)
(* The roles of a contract in the Stellar access-control service           *)
(* (adapter-stellar/src/access-control): the ids the application gives     *)
(* (registerContract, addKnownRoleIds), the ids discovered through the      *)
(* indexer, the indexer client's caches of endpoint and availability, which *)
(* the user's settings reset, and the members read index by index from the *)
(* chain.  Calls interleave at their requests.                             *)
(***************************************************************************)
EXTENDS Naturals, Sequences, FiniteSets

CONSTANTS
    Calls,          \* calls of getCurrentRoles or discoverKnownRoleIds
    Readers,        \* those of the Calls that are of getCurrentRoles
    KnownIds,       \* role ids the application may give
    Emitted,        \* role ids in the contract's events
    Accounts,       \* accounts that may hold the role whose members are read
    MaxSettings,    \* bound on the changes of the indexer settings
    MaxContexts,    \* bound on the registrations of the contract
    MaxTurns        \* bound on the grants and revocations on the chain

VARIABLES
    context,        \* the contract's StellarAccessControlContext
    client,         \* the StellarIndexerClient's caches, and the settings
    members,        \* the members of each role on the chain, in index order
    turns,          \* grants and revocations so far
    calls

vars == <<context, client, members, turns, calls>>

Roles == KnownIds \cup Emitted

\* knownRoleIds and discoveredRoleIds tell "none given" from an empty list.
MaybeIds == [given : BOOLEAN, ids : SUBSET Roles]
Undefined == [given |-> FALSE, ids |-> {}]
Given(ids) == [given |-> TRUE, ids |-> ids]

Context == [nr : 1 .. MaxContexts, known : MaybeIds, discovered : MaybeIds,
            attempted : BOOLEAN,
            offered : SUBSET KnownIds]       \* history: ids the application gave it

Client == [settings : 0 .. MaxSettings, endpoint : BOOLEAN, checked : BOOLEAN, available : BOOLEAN]

Call == [pc : {"idle", "check", "asked", "query", "count", "reading", "done"},
         nr : 1 .. MaxContexts, ids : SUBSET Roles,
         base : Seq(Accounts),              \* history: the members when they were counted
         todo : SUBSET (1 .. Cardinality(Accounts)), shown : [Accounts -> Nat],
         steady : BOOLEAN]                  \* history: no read failed, and no member left

TypeOK ==
    /\ context \in Context /\ client \in Client
    /\ members \in Seq(Accounts) /\ Len(members) <= Cardinality(Accounts)
    /\ turns \in 0 .. MaxTurns
    /\ calls \in [Calls -> Call]

NoCall == [pc |-> "idle", nr |-> 1, ids |-> {}, base |-> <<>>,
           todo |-> {}, shown |-> [a \in Accounts |-> 0], steady |-> TRUE]

Goes(c, call) == calls' = [calls EXCEPT ![c] = call]

-----------------------------------------------------------------------------
(* The application: registration, role ids, settings.                      *)

\* A new context; calls under way keep the old one.
registerContract(ids) ==
    /\ context.nr < MaxContexts
    /\ context' = [nr |-> context.nr + 1, known |-> ids, discovered |-> Undefined,
                   attempted |-> FALSE, offered |-> ids.ids]
    /\ UNCHANGED <<client, members, turns, calls>>

\* The ids merged with: an empty list that was given counts as given.
Existing == IF context.known.given THEN context.known.ids ELSE context.discovered.ids

addKnownRoleIds(ids) ==
    /\ context' = [context EXCEPT !.known = Given(Existing \cup ids), !.offered = @ \cup ids]
    /\ UNCHANGED <<client, members, turns, calls>>

\* The user changes the indexer settings: the subscription resets the caches
\* (resetCache), but not a check that is under way, whose answer is stored after it.
ChangeSettings ==
    /\ client.settings < MaxSettings
    /\ \E endpoint \in BOOLEAN :
         client' = [settings |-> client.settings + 1, endpoint |-> endpoint,
                    checked |-> FALSE, available |-> FALSE]
    /\ UNCHANGED <<context, members, turns, calls>>

-----------------------------------------------------------------------------
(* discoverKnownRoleIds, and getCurrentRoles on top of it.                 *)

\* The call has its ids: discoverKnownRoleIds answers, getCurrentRoles goes on to
\* read members unless there is no id.
HasIds(c, call, ids) ==
    [call EXCEPT !.ids = ids, !.pc = IF c \in Readers /\ ids # {} THEN "count" ELSE "done"]

\* The synchronous part: ids given, then ids discovered, then an attempt made.
Begin(c) ==
    /\ calls[c].pc = "idle"
    /\ LET call == [NoCall EXCEPT !.nr = context.nr]
         IN Goes(c, IF context.known.ids # {} THEN HasIds(c, call, context.known.ids)
                    ELSE IF context.discovered.given THEN HasIds(c, call, context.discovered.ids)
                    ELSE IF context.attempted THEN HasIds(c, call, {})
                    ELSE [call EXCEPT !.pc = "check"])
    /\ UNCHANGED <<context, client, members, turns>>

\* The context of a call, if it is not of an earlier registration.
Attempted(call, discovered) ==
    IF call.nr # context.nr THEN context
    ELSE [context EXCEPT !.attempted = TRUE,
             !.discovered = IF discovered.given THEN discovered ELSE @]

NotAvailable(c) == Goes(c, HasIds(c, calls[c], {})) /\ context' = Attempted(calls[c], Undefined)

\* checkAvailability: the cached answer, none without an endpoint, or a request.
CheckAvailability(c) ==
    /\ calls[c].pc = "check"
    /\ \/ /\ client.checked
          /\ IF client.available THEN Goes(c, [calls[c] EXCEPT !.pc = "query"]) /\ UNCHANGED context
             ELSE NotAvailable(c)
          /\ UNCHANGED client
       \/ /\ ~client.checked /\ ~client.endpoint
          /\ client' = [client EXCEPT !.checked = TRUE, !.available = FALSE]
          /\ NotAvailable(c)
       \/ /\ ~client.checked /\ client.endpoint
          /\ Goes(c, [calls[c] EXCEPT !.pc = "asked"])
          /\ UNCHANGED <<context, client>>
    /\ UNCHANGED <<members, turns>>

\* Its answer is stored, whatever the settings are by then.
AvailabilityAnswered(c) ==
    /\ calls[c].pc = "asked"
    /\ \E available \in BOOLEAN :
         /\ client' = [client EXCEPT !.checked = TRUE, !.available = available]
         /\ IF available THEN Goes(c, [calls[c] EXCEPT !.pc = "query"]) /\ UNCHANGED context
            ELSE NotAvailable(c)
    /\ UNCHANGED <<members, turns>>

\* The mutant of StoreDiscovered for GivenIdsKept: discovered ids go where the given
\* ones are.
StoredAsKnown(call, ids) == [Attempted(call, Given(ids)) EXCEPT !.known = Given(ids)]

\* What a discovery that succeeded stores.
StoreDiscovered(call, ids) == Attempted(call, Given(ids))

\* discoverRoleIds: the ids of the contract's events, as far as the indexer has
\* them; a failure counts as an attempt.
Discover(c) ==
    /\ calls[c].pc = "query"
    /\ \/ NotAvailable(c)
       \/ \E ids \in SUBSET Emitted :
            Goes(c, HasIds(c, calls[c], ids)) /\ context' = StoreDiscovered(calls[c], ids)
    /\ UNCHANGED <<client, members, turns>>

-----------------------------------------------------------------------------
(* readCurrentRoles, of one of the roles: the count, then the members by   *)
(* index, in any order.                                                    *)

\* The mutant of Indices for SteadyMembersShown: the last index is left out.
IndicesBelow(count) == 1 .. count - 1

\* The indices the members are asked at.
Indices(count) == 1 .. count

\* A count that fails is 0.
Count(c) ==
    /\ calls[c].pc = "count"
    /\ \/ Goes(c, [calls[c] EXCEPT !.pc = "reading", !.base = members, !.todo = Indices(Len(members))])
       \/ Goes(c, [calls[c] EXCEPT !.pc = "done", !.steady = FALSE])
    /\ UNCHANGED <<context, client, members, turns>>

\* A member that cannot be read, or is gone, is left out.
ReadMember(c, i) ==
    /\ calls[c].pc = "reading" /\ i \in calls[c].todo
    /\ LET rest == [calls[c] EXCEPT !.todo = @ \ {i}] IN
       \/ i \in DOMAIN members /\ Goes(c, [rest EXCEPT !.shown[members[i]] = @ + 1])
       \/ Goes(c, [rest EXCEPT !.steady = FALSE])
    /\ UNCHANGED <<context, client, members, turns>>

AllRead(c) ==
    /\ calls[c].pc = "reading" /\ calls[c].todo = {}
    /\ Goes(c, [calls[c] EXCEPT !.pc = "done"])
    /\ UNCHANGED <<context, client, members, turns>>

-----------------------------------------------------------------------------
(* The chain (external): a grant appends, a revocation puts the last member *)
(* in the place of the one that leaves.                                    *)

Range(s) == {s[i] : i \in DOMAIN s}

Grant(account) ==
    /\ turns < MaxTurns /\ account \notin Range(members)
    /\ members' = Append(members, account)
    /\ turns' = turns + 1
    /\ UNCHANGED <<context, client, calls>>

Revoke(i) ==
    /\ turns < MaxTurns /\ i \in DOMAIN members
    /\ members' = SubSeq([members EXCEPT ![i] = members[Len(members)]], 1, Len(members) - 1)
    /\ turns' = turns + 1
    /\ calls' = [c \in Calls |-> IF calls[c].pc = "reading" THEN [calls[c] EXCEPT !.steady = FALSE]
                                 ELSE calls[c]]
    /\ UNCHANGED <<context, client>>

-----------------------------------------------------------------------------
Init ==
    /\ context = [nr |-> 1, known |-> Undefined, discovered |-> Undefined, attempted |-> FALSE,
                  offered |-> {}]
    /\ client = [settings |-> 0, endpoint |-> TRUE, checked |-> FALSE, available |-> FALSE]
    /\ members \in {s \in UNION {[1 .. n -> Accounts] : n \in 0 .. Cardinality(Accounts)} :
                      \A i, j \in DOMAIN s : i # j => s[i] # s[j]}
    /\ turns = 0
    /\ calls = [c \in Calls |-> NoCall]

Next ==
    \/ \E ids \in SUBSET KnownIds : registerContract(Given(ids)) \/ (ids # {} /\ addKnownRoleIds(ids))
    \/ registerContract(Undefined)
    \/ ChangeSettings
    \/ \E c \in Calls :
         \/ Begin(c) \/ CheckAvailability(c) \/ AvailabilityAnswered(c) \/ Discover(c)
         \/ Count(c) \/ AllRead(c)
         \/ \E i \in calls[c].todo : ReadMember(c, i)
    \/ \E account \in Accounts : Grant(account)
    \/ \E i \in DOMAIN members : Revoke(i)

Spec == Init /\ [][Next]_vars

-----------------------------------------------------------------------------
(* Properties.                                                             *)

\* The role ids the application gave, at the registration or later, are known whichever
\* discovery comes in meanwhile, one that began before they were given included.  It says
\* nothing of the ids discovered: ids given, or an empty list of them, hide those of a
\* discovery that comes in later, and with it they are left out of what is merged next.
GivenIdsKept == context.offered \subseteq context.known.ids

\* A call that read every member, while none left, shows those there were when it
\* counted them, and each once.
SteadyMembersShown ==
    \A c \in Calls :
        calls[c].pc = "done" /\ calls[c].steady =>
            \A a \in Accounts : calls[c].shown[a] = IF a \in Range(calls[c].base) THEN 1 ELSE 0
=============================================================================
