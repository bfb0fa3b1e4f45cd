---------------------------- MODULE AccessHistory ----------------------------
(***************************************************************************)
(* The history of a contract's roles, owner and admin as the access-control *)
(* services of the EVM and the Stellar adapter show it (getHistory of both  *)
(* service.ts, queryHistory and its helpers of both indexer-client.ts): a   *)
(* filter becomes a query of the indexer, the events it answers become       *)
(* history entries, and the application asks page after page, with the      *)
(* cursor of the last one, while the indexer goes on indexing.              *)
(***************************************************************************)
EXTENDS Naturals, Sequences, SequencesExt, Selecting

CONSTANTS
    LogSize,            \* events of the contract
    OfAnyKind,          \* how many of them, from the first, are of any kind
    MaxBlock,           \* bound on the blocks they are in
    MaxLimit,           \* bound on the entries asked for on a page
    MaxLag              \* bound on the events that are not yet indexed at first

VARIABLES
    adapter,            \* "evm" or "stellar"
    log,                \* the events of the contract, oldest first
    indexed,            \* how many of them the indexer has
    client,             \* what the indexer client knows of its indexer
    paging              \* the application's reading of the history

vars == <<adapter, log, indexed, client, paging>>

Nobody == ""
NoRole == ""
Admin == "DEFAULT_ADMIN_ROLE"

-----------------------------------------------------------------------------
(* Events of the indexer and types of change.                               *)

RoleEvents == {"ROLE_GRANTED", "ROLE_REVOKED", "ROLE_ADMIN_CHANGED"}
OwnershipEvents == {"OWNERSHIP_TRANSFER_STARTED", "OWNERSHIP_TRANSFER_COMPLETED", "OWNERSHIP_RENOUNCED"}
AdminEvents == {"ADMIN_TRANSFER_INITIATED", "ADMIN_TRANSFER_COMPLETED", "ADMIN_RENOUNCED"}
EvmEvents == {"DEFAULT_ADMIN_TRANSFER_SCHEDULED", "DEFAULT_ADMIN_TRANSFER_CANCELED",
              "DEFAULT_ADMIN_DELAY_CHANGE_SCHEDULED", "DEFAULT_ADMIN_DELAY_CHANGE_CANCELED"}

\* Events that either adapter shows under their own name.
Same == {"ROLE_ADMIN_CHANGED"} \cup OwnershipEvents \cup AdminEvents

EvmChanges == {"ADMIN_TRANSFER_CANCELED", "ADMIN_DELAY_CHANGE_SCHEDULED", "ADMIN_DELAY_CHANGE_CANCELED"}
Changes == {"GRANTED", "REVOKED", "UNKNOWN"} \cup Same \cup EvmChanges

\* mapEventTypeToChangeType, and the switch of transformIndexerEntries.
ChangeOf(type) ==
    CASE type \in Same -> type
      [] type = "ROLE_GRANTED" -> "GRANTED"
      [] type = "ROLE_REVOKED" -> "REVOKED"
      [] adapter = "evm" /\ type = "DEFAULT_ADMIN_TRANSFER_SCHEDULED" -> "ADMIN_TRANSFER_INITIATED"
      [] adapter = "evm" /\ type = "DEFAULT_ADMIN_TRANSFER_CANCELED" -> "ADMIN_TRANSFER_CANCELED"
      [] adapter = "evm" /\ type = "DEFAULT_ADMIN_DELAY_CHANGE_SCHEDULED" -> "ADMIN_DELAY_CHANGE_SCHEDULED"
      [] adapter = "evm" /\ type = "DEFAULT_ADMIN_DELAY_CHANGE_CANCELED" -> "ADMIN_DELAY_CHANGE_CANCELED"
      [] OTHER -> "UNKNOWN"

\* CHANGE_TYPE_TO_EVENT_TYPE, and mapChangeTypeToGraphQLEnum.
TypeOf(change) ==
    CASE change \in Same -> change
      [] change = "GRANTED" -> "ROLE_GRANTED"
      [] change = "REVOKED" -> "ROLE_REVOKED"
      [] adapter = "evm" /\ change = "ADMIN_TRANSFER_CANCELED" -> "DEFAULT_ADMIN_TRANSFER_CANCELED"
      [] adapter = "evm" /\ change = "ADMIN_DELAY_CHANGE_SCHEDULED" -> "DEFAULT_ADMIN_DELAY_CHANGE_SCHEDULED"
      [] adapter = "evm" /\ change = "ADMIN_DELAY_CHANGE_CANCELED" -> "DEFAULT_ADMIN_DELAY_CHANGE_CANCELED"
      [] OTHER -> "UNKNOWN"

\* An event: role events have a role and an account, those of an owner or admin the new
\* one, and a renunciation has none.  "LATER" is of a contract version the code does not know.
Event(type, role, account, to) == [type |-> type, role |-> role, account |-> account, to |-> to]
Shapes ==
    {Event(t, r, a, Nobody) : t \in {"ROLE_GRANTED", "ROLE_REVOKED"}, r \in {"minter", Admin}, a \in {"G1", "C1"}}
    \cup {Event("ROLE_ADMIN_CHANGED", "minter", Nobody, Nobody), Event("LATER", "minter", "G1", Nobody)}
    \cup {Event(t, NoRole, Nobody, IF t \in {"OWNERSHIP_RENOUNCED", "ADMIN_RENOUNCED"} THEN Nobody ELSE "G1") :
             t \in OwnershipEvents \cup AdminEvents \cup EvmEvents}
Usual == {Event("ROLE_GRANTED", "minter", "G1", Nobody), Event("OWNERSHIP_TRANSFER_COMPLETED", NoRole, Nobody, "G1")}

\* Events in the order of their blocks, of which several may be in one.
Logs ==
    {l \in [1 .. LogSize -> [e : Shapes, block : 1 .. MaxBlock]] :
        /\ \A i \in 1 .. LogSize : i > OfAnyKind => l[i].e \in Usual
        /\ \A i, j \in 1 .. LogSize : i < j => l[i].block <= l[j].block
        /\ \E i \in 1 .. LogSize : l[i].block = 1}

-----------------------------------------------------------------------------
(* Entries.                                                                 *)

Ownership(type) == type \in OwnershipEvents
AdminOf(type) == type \in AdminEvents \cup EvmEvents

\* resolveRoleFromEvent: an owner has the id of the default admin role and the label
\* "OWNER"; on Stellar what has no role is of the owner.
ResolveRole(event) ==
    CASE adapter = "stellar" -> [id |-> IF event.role = NoRole THEN "OWNER" ELSE event.role, label |-> "none"]
      [] adapter = "evm" /\ Ownership(event.type) -> [id |-> Admin, label |-> "OWNER"]
      [] adapter = "evm" /\ AdminOf(event.type) -> [id |-> Admin, label |-> Admin]
      [] OTHER -> [id |-> IF event.role = NoRole THEN Admin ELSE event.role, label |-> event.role]

\* normalizeAccountFromEvent, normalizeAccount.
NormalizeAccount(event) ==
    IF Ownership(event.type) \/ AdminOf(event.type) THEN event.to ELSE event.account

\* transformToHistoryEntries, transformIndexerEntries.
Entry(i) ==
    [event |-> i, change |-> ChangeOf(log[i].e.type), role |-> ResolveRole(log[i].e),
     account |-> NormalizeAccount(log[i].e), block |-> log[i].block]

-----------------------------------------------------------------------------
(* Queries.  An option that is not set is "" or 0; and so is one set to 0,   *)
(* which the code does not tell from it.                                    *)

NoFilter == [role |-> NoRole, account |-> Nobody, change |-> "", from |-> 0, to |-> 0, block |-> 0, limit |-> 0]

Blocks == 0 .. MaxBlock
FilterRoles == {NoRole, "minter", Admin, "OWNER"}
FilterAccounts == {Nobody, "G1", "C1"}
OfChange(c) == [NoFilter EXCEPT !.change = c]
OfAccount(r, a) == [NoFilter EXCEPT !.role = r, !.account = a]
Between(b, c) == [NoFilter EXCEPT !.from = b, !.to = c]
InBlock(b, r) == [NoFilter EXCEPT !.block = b, !.role = r]
Unlimited ==
    {NoFilter}
    \cup {OfChange(c) : c \in Changes}
    \cup {OfAccount(r, a) : r \in FilterRoles, a \in FilterAccounts}
    \cup {Between(b, c) : b \in Blocks, c \in Blocks}
    \cup {InBlock(b, r) : b \in Blocks \ {0}, r \in FilterRoles}
Limited(f, limit) == [f EXCEPT !.limit = limit]
Filters == {Limited(f, limit) : f \in Unlimited, limit \in 0 .. MaxLimit}

\* buildHistoryQuery: the conditions that the filter puts on events.
Asked(filter, i) ==
    /\ filter.role # NoRole => log[i].e.role = filter.role
    /\ filter.account # Nobody => log[i].e.account = filter.account
    /\ filter.change # "" => log[i].e.type = TypeOf(filter.change)
    /\ filter.from # 0 => log[i].block >= filter.from
    /\ filter.to # 0 => log[i].block <= filter.to
    /\ filter.block # 0 => log[i].block = filter.block

\* The indexer refuses an event type that its schema has not (external).
Valid(filter) == filter.change # "" => TypeOf(filter.change) # "UNKNOWN"

\* Events in the indexer's order, newest first (external).
Newest(events) == Selected([k \in DOMAIN log |-> Len(log) + 1 - k], events)

\* The mutant of HistoryVariables: the cursor is left out.
VariablesWithoutCursor == [limit |-> paging.filter.limit, after |-> 0]

\* buildHistoryVariables: the cursor is that of the last event read, 0 before the first page.
HistoryVariables == [limit |-> paging.filter.limit, after |-> paging.cursor]

\* A page, as the indexer answers it: what follows the cursor, at most the limit (external).
Page ==
    LET after == HistoryVariables.after
        found == Newest({i \in 1 .. indexed : Asked(paging.filter, i) /\ (after # 0 => i < after)})
        limit == HistoryVariables.limit
        nodes == IF limit = 0 \/ Len(found) <= limit THEN found ELSE SubSeq(found, 1, limit)
    IN [nodes |-> nodes, hasNextPage |-> Len(nodes) < Len(found)]

-----------------------------------------------------------------------------
(* Actions.                                                                 *)

Init ==
    /\ adapter \in {"evm", "stellar"}
    /\ log \in Logs /\ (adapter = "stellar" => \A i \in DOMAIN log : log[i].e.type \notin EvmEvents)
    /\ indexed \in {n \in 0 .. LogSize : n + MaxLag >= LogSize}
    /\ client = "unchecked"
    /\ paging = [pc |-> "idle", filter |-> NoFilter, cursor |-> 0, start |-> 0, items |-> <<>>, failed |-> FALSE]

Index ==
    /\ indexed < Len(log) /\ paging.pc # "idle"
    /\ indexed' = indexed + 1
    /\ UNCHANGED <<adapter, log, client, paging>>

\* getHistory: the Stellar service refuses an account that is a contract.
GetHistory(filter) ==
    /\ paging.pc = "idle"
    /\ paging' = [paging EXCEPT !.filter = filter,
                    !.pc = IF adapter = "stellar" /\ filter.account = "C1" THEN "thrown" ELSE "asking"]
    /\ UNCHANGED <<adapter, log, indexed, client>>

\* isAvailable, checkAvailability: the first answer is kept; without an indexer the
\* history is an empty one.
Availability(up) ==
    /\ paging.pc = "asking" /\ client = "unchecked"
    /\ client' = IF up THEN "up" ELSE "down"
    /\ paging' = IF up THEN paging ELSE [paging EXCEPT !.pc = "ended", !.failed = TRUE]
    /\ UNCHANGED <<adapter, log, indexed>>

\* queryHistory answers; the application asks for the next page, if there is one.
PageAnswered ==
    /\ paging.pc = "asking" /\ client = "up"
    /\ Valid(paging.filter)
    /\ LET page == Page
           last == IF page.nodes = <<>> THEN 0 ELSE Last(page.nodes)
       IN paging' = [paging EXCEPT
                       !.items = @ \o [k \in DOMAIN page.nodes |-> Entry(page.nodes[k])],
                       !.start = IF @ = 0 THEN indexed ELSE @,
                       !.cursor = last,
                       !.pc = IF page.hasNextPage THEN "asking" ELSE "ended"]
    /\ UNCHANGED <<adapter, log, indexed, client>>

\* queryHistory fails: the EVM service answers an empty last page, the Stellar one throws.
PageFails ==
    /\ paging.pc = "asking" /\ client = "up"
    /\ paging' = IF adapter = "evm" THEN [paging EXCEPT !.pc = "ended", !.failed = TRUE]
                 ELSE [paging EXCEPT !.pc = "thrown"]
    /\ UNCHANGED <<adapter, log, indexed, client>>

Next ==
    \/ Index
    \/ \E filter \in Filters : GetHistory(filter)
    \/ \E up \in BOOLEAN : Availability(up)
    \/ PageAnswered
    \/ PageFails

Spec == Init /\ [][Next]_vars

-----------------------------------------------------------------------------
(* Properties.                                                              *)

TypeOK ==
    /\ adapter \in {"evm", "stellar"} /\ log \in Logs /\ indexed \in 0 .. Len(log)
    /\ client \in {"unchecked", "up", "down"}
    /\ paging.pc \in {"idle", "asking", "ended", "thrown"} /\ paging.filter \in Filters
    /\ paging.cursor \in 0 .. Len(log) /\ paging.start \in 0 .. Len(log)
    /\ \A k \in DOMAIN paging.items : paging.items[k].event \in 1 .. Len(log)

\* What a filter selects: entries that show what was asked for, but only those that the
\* indexer compares.  A user may mean more: events of an owner or admin have no role and no
\* account to compare, and the EVM indexer's second name for an initiated transfer is not
\* asked for, so such events are missing from a filtered history although they would fit.
Meant(filter, i) ==
    LET entry == Entry(i)
    IN /\ filter.role # NoRole => entry.role.id = filter.role /\ log[i].e.role # NoRole
       /\ filter.account # Nobody => entry.account = filter.account /\ log[i].e.account # Nobody
       /\ filter.change # "" => entry.change = filter.change /\ log[i].e.type # "DEFAULT_ADMIN_TRANSFER_SCHEDULED"
       /\ filter.block # 0 => entry.block = filter.block
       /\ filter.from # 0 => entry.block >= filter.from
       /\ filter.to # 0 => entry.block <= filter.to

\* A history that is read page by page, while events are indexed, shows each event that
\* the filter selects once, newest first, and no other; if no page failed it has all that
\* were indexed when the first page was read, and a Stellar history fails only when its
\* indexer is down.  An EVM page that fails ends the history like a last page, and its
\* reader is not told: failed is known to the model only.
HistoryIsWhole ==
    LET meant == Newest({i \in 1 .. paging.start : Meant(paging.filter, i)})
        shown == [k \in DOMAIN paging.items |-> paging.items[k].event]
    IN /\ IsPrefix(shown, meant)
       /\ paging.pc = "ended" /\ ~paging.failed => shown = meant
       /\ adapter = "stellar" /\ paging.failed => client = "down"

\* An entry is of what happened: the account is the one who got or lost something, owner
\* and admin are told apart by the label on the EVM, and no change the adapter knows is
\* shown as another.
EntriesAreTrue ==
    \A k \in DOMAIN paging.items :
        LET entry == paging.items[k]
            event == log[entry.event].e
        IN /\ event.account # Nobody => entry.account = event.account
           /\ event.to # Nobody => entry.account = event.to
           /\ adapter = "evm" => (entry.role.label = "OWNER" <=> event.type \in OwnershipEvents)
           /\ event.role # NoRole => entry.role.id = event.role
           /\ entry.change # "UNKNOWN" /\ event.type # "DEFAULT_ADMIN_TRANSFER_SCHEDULED"
                => TypeOf(entry.change) = event.type
=============================================================================
