----------------------------- MODULE StellarGrants -----------------------------
(***************************************************************************)
(* When the members of a role were granted it, as the Stellar access-control *)
(* service shows it (getCurrentRolesEnriched of service.ts, queryLatestGrants *)
(* of indexer-client.ts): the members come from the chain, one role after    *)
(* the other, and their grants from an indexer that runs behind it, with one  *)
(* query per role, while the chain and the indexer go on.                    *)
(***************************************************************************)
EXTENDS Naturals, Sequences, SequencesExt, FiniteSets

CONSTANTS
    RoleSets,       \* sets of roles a contract may have
    Accounts,       \* accounts that may hold them
    MaxEvents,      \* bound on the grants and revocations, and the roles
    PageLimit       \* nodes the indexer answers at most when no limit is asked for

VARIABLES
    log,            \* ROLE_GRANTED and ROLE_REVOKED events, oldest first
    indexed,        \* how many of them the indexer has
    call            \* the call of getCurrentRolesEnriched

vars == <<log, indexed, call>>

NotShown == 0

\* The roles of this contract.
RoleIds == DOMAIN call.rows

\* Who holds a role after the first n events.
Holders(r, n) ==
    {a \in Accounts :
        \E i \in 1 .. n :
            /\ log[i].granted /\ log[i].role = r /\ log[i].account = a
            /\ \A j \in i + 1 .. n : log[j].role = r /\ log[j].account = a => log[j].granted}

-----------------------------------------------------------------------------
(* The chain and the indexer (external).  A ledger closes at one time, so    *)
(* the events of one have one timestamp.                                     *)

Ledger == IF log = <<>> THEN 1 ELSE Last(log).ledger

Happens ==
    /\ Len(log) + Cardinality(RoleIds) < MaxEvents
    /\ \E r \in RoleIds, a \in Accounts, later \in {0, 1} :
          log' = Append(log, [granted |-> a \notin Holders(r, Len(log)), role |-> r, account |-> a,
                              ledger |-> Ledger + later])
    /\ UNCHANGED <<indexed, call>>

Index ==
    /\ indexed < Len(log)
    /\ indexed' = indexed + 1
    /\ UNCHANGED <<log, call>>

-----------------------------------------------------------------------------
(* The call.  Of a role that is read, asked of or shown, "rows" has what is  *)
(* known: the members, and for each the event of its grant, if one is shown. *)

NoRow == [pc |-> "none", members |-> {}, grant |-> [a \in {} |-> NotShown], had |-> 0, failed |-> FALSE]

\* getCurrentRoles, of the ids that are known.
Begin ==
    /\ call.pc = "idle"
    /\ \E ids \in SUBSET RoleIds :
          call' = [call EXCEPT !.pc = IF ids = {} THEN "done" ELSE "reading", !.ids = ids]
    /\ UNCHANGED <<log, indexed>>

\* A role that cannot be read has no members.
ReadRole(r) ==
    /\ call.pc = "reading" /\ r \in call.ids /\ call.rows[r].pc = "none"
    /\ \E members \in {Holders(r, Len(log)), {}} :
          call' = [call EXCEPT !.rows[r].pc = "read", !.rows[r].members = members]
    /\ UNCHANGED <<log, indexed>>

WithoutTimestamps(row) ==
    [row EXCEPT !.pc = "shown", !.grant = [a \in row.members |-> NotShown], !.failed = TRUE]

\* checkAvailability, once all are read: without an indexer, members without timestamps.
CheckAvailability ==
    /\ call.pc = "reading"
    /\ \A r \in call.ids : call.rows[r].pc = "read"
    /\ call' \in {[call EXCEPT !.pc = "asking"],
                  [call EXCEPT !.pc = "done",
                       !.rows = [r \in RoleIds |-> IF r \in call.ids THEN WithoutTimestamps(@[r]) ELSE @[r]]]}
    /\ UNCHANGED <<log, indexed>>

\* What buildLatestGrantsQuery asks for, as the indexer may answer it: newest first, the
\* events of one ledger in any order, and no more than it answers at once.
Nodes(r) ==
    LET asked == {i \in 1 .. indexed :
                    log[i].granted /\ log[i].role = r /\ log[i].account \in call.rows[r].members}
        newestFirst == {s \in SetToSeqs(asked) :
                          \A i, j \in DOMAIN s : i < j => log[s[i]].ledger >= log[s[j]].ledger}
    IN  {SubSeq(s, 1, IF Len(s) < PageLimit THEN Len(s) ELSE PageLimit) : s \in newestFirst}

\* The places of an account's events in an answer.
Occurrences(nodes, account) == {k \in DOMAIN nodes : log[nodes[k]].account = account}

\* "we take the first occurrence per account"
FirstPerAccount(nodes, account) ==
    LET places == Occurrences(nodes, account)
    IN  IF places = {} THEN NotShown
        ELSE nodes[CHOOSE k \in places : \A l \in places : k <= l]

\* queryLatestGrants: a grant, or none, for each member.
QueryLatestGrants(r) ==
    {[a \in call.rows[r].members |-> FirstPerAccount(nodes, a)] : nodes \in Nodes(r)}

\* enrichMembersWithGrantInfo: the indexer is not asked about a role without members, and
\* a query that fails leaves them without timestamps.
EnrichMembersWithGrantInfo(r) ==
    /\ call.pc = "asking" /\ r \in call.ids /\ call.rows[r].pc = "read"
    /\ \/ call' = [call EXCEPT !.rows[r] = WithoutTimestamps(@)]
       \/ /\ call.rows[r].members # {}
          /\ \E grant \in QueryLatestGrants(r) :
                call' = [call EXCEPT !.rows[r].pc = "shown", !.rows[r].had = indexed,
                                     !.rows[r].grant = grant]
    /\ UNCHANGED <<log, indexed>>

Enriched ==
    /\ call.pc = "asking"
    /\ \A r \in call.ids : call.rows[r].pc = "shown"
    /\ call' = [call EXCEPT !.pc = "done"]
    /\ UNCHANGED <<log, indexed>>

-----------------------------------------------------------------------------

Init ==
    /\ log = <<>> /\ indexed = 0
    /\ \E roles \in RoleSets : call = [pc |-> "idle", ids |-> {}, rows |-> [r \in roles |-> NoRow]]

Next ==
    \/ Happens \/ Index
    \/ Begin \/ CheckAvailability \/ Enriched
    \/ \E r \in RoleIds : ReadRole(r) \/ EnrichMembersWithGrantInfo(r)

Spec == Init /\ [][Next]_vars

-----------------------------------------------------------------------------

\* The grant shown with a member is one of that role to that account, and the latest that
\* the indexer had when it answered, up to the order within a ledger, although grants are
\* revoked and given again before and after; and one it had is missing only when the
\* query failed or the answer was full.
GrantIsLatest ==
    call.pc = "done" =>
       \A r \in call.ids : \A a \in call.rows[r].members :
          LET row == call.rows[r]
              grants == {i \in 1 .. row.had : log[i].granted /\ log[i].role = r /\ log[i].account = a}
              shown == row.grant[a]
          IN  /\ shown # NotShown =>
                    /\ shown \in grants
                    /\ \A i \in grants : log[i].ledger <= log[shown].ledger
              /\ shown = NotShown /\ grants # {} =>
                    \/ row.failed
                    \/ \E full \in SUBSET (1 .. row.had) :
                          /\ Cardinality(full) = PageLimit
                          /\ \A i \in full : log[i].granted /\ log[i].role = r /\ log[i].account # a
=============================================================================
