--------------------------- MODULE EvmRolesProofs ---------------------------
(***************************************************************************)
(* Proofs about EvmRoles, for any number of calls, roles, accounts and      *)
(* registrations.  MembersAfter is defined by recursion over the log; the   *)
(* induction it needs is that of the behaviour, in which the log grows by   *)
(* one event at a time (Enumerated).  Fits ties what a call holds to where  *)
(* it is and to the log.                                                    *)
(***************************************************************************)
EXTENDS EvmRoles, TLAPS

(* What the recursion of MembersAfter says of its value at i, for a log l.  *)
AfterEvent(l, f, r, i) ==
    IF i = 0 THEN <<>>
    ELSE IF l[i].role # r THEN f[i - 1]
    ELSE IF l[i].kind = "grant" THEN Append(f[i - 1], l[i].account)
    ELSE Without(f[i - 1], l[i].account)

Solves(l, f, r, n) == f = [i \in 0..n |-> AfterEvent(l, f, r, i)]

OneSolution(l, r, n) ==
    /\ \E f : Solves(l, f, r, n)
    /\ \A f, g : Solves(l, f, r, n) /\ Solves(l, g, r, n) => f = g

Members(l, r, n) == (CHOOSE f : Solves(l, f, r, n))[n]

(* Up to event n the recursion has a solution, and it lists accounts, no    *)
(* more than there were events.                                             *)
Lists(l, r, n) ==
    /\ OneSolution(l, r, n)
    /\ Members(l, r, n) \in Seq(Accounts)
    /\ Len(Members(l, r, n)) <= n

EveryPrefixLists(l) == \A r \in Roles, n \in 0..Len(l) : Lists(l, r, n)

Enumerated == EveryPrefixLists(log)

(* Account a held role r at some moment since there were n events.          *)
Held(l, r, a, n) ==
    \E m \in n .. Len(l) : \E i \in DOMAIN Members(l, r, m) : Members(l, r, m)[i] = a

AtIndexer(k) == k.pc \in {"health", "asking", "refused"}

(* A call that has not begun to read members.                               *)
Early(k) == k.pc \in {"idle", "abi", "capabilities"} \/ (AtIndexer(k) /\ k.purpose = "discover")

(* What a call may answer with.                                             *)
Sound(l, k) ==
    k.op = "roles" /\ k.listed =>
        \A r \in Roles : \A a \in k.members[r] : Held(l, r, a, k.since)

(* What a call holds, of log l and the first m contexts.                    *)
Fits(l, m, k) ==
    /\ k.pc \notin {"idle", "done"} => k.ctx \in 1..m
    /\ \A r \in Roles : k.progress[r].next <= k.progress[r].count
    /\ k.since <= Len(l)
    /\ Early(k) => k.members = Nobody
    /\ k.op = "roles" /\ k.listed /\ AtIndexer(k) => k.purpose = "discover"
    /\ Sound(l, k)

(* The variables' types but for the calls': what the helpers of a call use.  *)
StateOK ==
    /\ log \in Seq(Event) /\ Len(log) <= MaxEvents
    /\ indexed \in 0..Len(log)
    /\ contexts \in Seq(Context) /\ Len(contexts) <= MaxContexts
    /\ current \in 0..Len(contexts)
    /\ indexer \in [checked : BOOLEAN, available : BOOLEAN]

AllFit == \A c \in Calls : Fits(log, Len(contexts), call[c])

IInv == TypeOK /\ Enumerated /\ AllFit

-----------------------------------------------------------------------------
(* The members after n events *)

LEMMA MembersIs == ASSUME NEW r, NEW n PROVE MembersAfter(r, n) = Members(log, r, n)
BY Zenon DEF MembersAfter, Members, Solves, AfterEvent

LEMMA MembersIsNext == ASSUME NEW r, NEW n PROVE MembersAfter(r, n)' = Members(log', r, n)
BY Zenon DEF MembersAfter, Members, Solves, AfterEvent

(* The first n events decide. *)
LEMMA SameLog ==
    ASSUME NEW l, NEW m, NEW r, NEW n \in Nat, \A i \in 1..n : l[i] = m[i]
    PROVE  /\ \A f : Solves(l, f, r, n) <=> Solves(m, f, r, n)
           /\ Members(l, r, n) = Members(m, r, n)
<1>1. ASSUME NEW f
      PROVE  [i \in 0..n |-> AfterEvent(l, f, r, i)] = [i \in 0..n |-> AfterEvent(m, f, r, i)]
  <2>1. \A i \in 0..n : i = 0 \/ l[i] = m[i]
    OBVIOUS
  <2>2. \A i \in 0..n : AfterEvent(l, f, r, i) = AfterEvent(m, f, r, i)
    BY <2>1, Zenon DEF AfterEvent
  <2> QED BY <2>2, Zenon
<1>2. \A f : Solves(l, f, r, n) <=> Solves(m, f, r, n)
  BY <1>1, Zenon DEF Solves
<1>3. (CHOOSE f : Solves(l, f, r, n)) = (CHOOSE f : Solves(m, f, r, n))
  BY <1>2, Zenon
<1> QED BY <1>2, <1>3, Zenon DEF Members

(* Before the first event nobody holds anything. *)
LEMMA NoEvents == ASSUME NEW l, NEW r PROVE Lists(l, r, 0)
<1> DEFINE f == [i \in 0..0 |-> <<>>]
<1>1. \A g : [i \in 0..0 |-> AfterEvent(l, g, r, i)] = f
  BY DEF AfterEvent
<1>2. f[0] = <<>>
  OBVIOUS
<1> HIDE DEF f
<1>3. \A g : Solves(l, g, r, 0) <=> g = f
  BY <1>1, Zenon DEF Solves
<1>4. OneSolution(l, r, 0)
  <2>1. \E g : Solves(l, g, r, 0)
    BY <1>3
  <2>2. \A g, h : Solves(l, g, r, 0) /\ Solves(l, h, r, 0) => g = h
    BY <1>3
  <2> QED BY <2>1, <2>2 DEF OneSolution
<1>5. (CHOOSE g : Solves(l, g, r, 0)) = f
  BY <1>3, Zenon
<1>6. Members(l, r, 0) = <<>>
  BY <1>2, <1>5 DEF Members
<1>7. <<>> \in Seq(Accounts) /\ Len(<<>>) <= 0
  OBVIOUS
<1> QED BY <1>4, <1>6, <1>7, Zenon DEF Lists

(* A solution's last value is the list of members. *)
LEMMA SolutionIs ==
    ASSUME NEW l, NEW r, NEW n, OneSolution(l, r, n), NEW f, Solves(l, f, r, n)
    PROVE  f[n] = Members(l, r, n)
<1>1. Solves(l, CHOOSE g : Solves(l, g, r, n), r, n)
  BY Zenon
<1>2. f = CHOOSE g : Solves(l, g, r, n)
  BY <1>1, Zenon DEF OneSolution
<1> QED BY <1>2, Zenon DEF Members

(* A solution one event longer is a solution, and what follows from it. *)
LEMMA LongerIs ==
    ASSUME NEW l, NEW r, NEW n \in Nat, OneSolution(l, r, n), NEW g
    PROVE  Solves(l, g, r, n + 1) <=>
             \E f : /\ Solves(l, f, r, n)
                    /\ g = [i \in 0 .. n + 1 |-> IF i = n + 1 THEN AfterEvent(l, f, r, n + 1) ELSE f[i]]
<1> DEFINE longer(f) == [i \in 0 .. n + 1 |-> IF i = n + 1 THEN AfterEvent(l, f, r, n + 1) ELSE f[i]]
<1>0. /\ \A i \in 0 .. n + 1 : i = n + 1 \/ i \in 0 .. n
      /\ \A i \in 0 .. n + 1 : i # 0 => i - 1 \in 0 .. n
      /\ \A i \in 0 .. n : i \in 0 .. n + 1 /\ i # n + 1
      /\ n + 1 \in 0 .. n + 1 /\ n + 1 # 0
  OBVIOUS
<1>1. ASSUME NEW f, NEW h, NEW i \in 0 .. n + 1, \A j \in 0 .. n : h[j] = f[j]
      PROVE  AfterEvent(l, h, r, i) = AfterEvent(l, f, r, i)
  BY <1>0, <1>1, Zenon DEF AfterEvent
<1>2. ASSUME Solves(l, g, r, n + 1) PROVE \E f : Solves(l, f, r, n) /\ g = longer(f)
  <2> DEFINE f == [i \in 0 .. n |-> g[i]]
  <2>1. \A i \in 0 .. n + 1 : g[i] = AfterEvent(l, g, r, i)
    BY <1>2 DEF Solves
  <2>2. g = [i \in 0 .. n + 1 |-> g[i]]
    BY <1>2, <2>1 DEF Solves
  <2>3. \A j \in 0 .. n : g[j] = f[j]
    OBVIOUS
  <2>4. \A i \in 0 .. n + 1 : AfterEvent(l, g, r, i) = AfterEvent(l, f, r, i)
    BY <1>1, <2>3
  <2>5. Solves(l, f, r, n)
    <3>1. \A i \in 0 .. n : f[i] = AfterEvent(l, f, r, i)
      BY <1>0, <2>1, <2>3, <2>4
    <3>2. f = [i \in 0 .. n |-> f[i]]
      OBVIOUS
    <3> HIDE DEF f
    <3> QED BY <3>1, <3>2 DEF Solves
  <2>6. g = longer(f)
    <3>1. \A i \in 0 .. n + 1 : g[i] = IF i = n + 1 THEN AfterEvent(l, f, r, n + 1) ELSE f[i]
      BY <1>0, <2>1, <2>3, <2>4
    <3> HIDE DEF f
    <3> QED BY <2>2, <3>1
  <2> QED BY <2>5, <2>6
<1>3. ASSUME NEW f, Solves(l, f, r, n), g = longer(f) PROVE Solves(l, g, r, n + 1)
  <2>1. \A i \in 0 .. n : f[i] = AfterEvent(l, f, r, i)
    BY <1>3 DEF Solves
  <2>2. \A j \in 0 .. n : g[j] = f[j]
    BY <1>0, <1>3
  <2>3. \A i \in 0 .. n + 1 : AfterEvent(l, g, r, i) = AfterEvent(l, f, r, i)
    BY <1>1, <2>2
  <2>4. g[n + 1] = AfterEvent(l, f, r, n + 1)
    BY <1>0, <1>3
  <2>5. \A i \in 0 .. n + 1 : g[i] = AfterEvent(l, g, r, i)
    BY <1>0, <2>1, <2>2, <2>3, <2>4
  <2>6. g = [i \in 0 .. n + 1 |-> g[i]]
    BY <1>3
  <2> QED BY <2>5, <2>6 DEF Solves
<1> QED BY <1>2, <1>3

(* Removing an account that is there leaves a list that is shorter by one.  *)
LEMMA WithoutType ==
    ASSUME NEW s \in Seq(Accounts), NEW a, \E i \in DOMAIN s : s[i] = a
    PROVE  Without(s, a) \in Seq(Accounts) /\ Len(Without(s, a)) = Len(s) - 1
<1> DEFINE i == CHOOSE j \in DOMAIN s : s[j] = a
           t == [s EXCEPT ![i] = s[Len(s)]]
<1>1. i \in DOMAIN s
  BY Zenon
<1> HIDE DEF i
<1>2. Len(s) \in Nat /\ Len(s) # 0 /\ s[Len(s)] \in Accounts
  BY <1>1
<1>3. t \in Seq(Accounts) /\ Len(t) = Len(s)
  BY <1>1, <1>2
<1> HIDE DEF t
<1>4. SubSeq(t, 1, Len(s) - 1) \in Seq(Accounts) /\ Len(SubSeq(t, 1, Len(s) - 1)) = Len(s) - 1
  BY <1>2, <1>3
<1> QED BY <1>4 DEF Without, i, t

(* One event more is one list more, when a revoked account had the role.    *)
LEMMA Grows ==
    ASSUME NEW l, NEW r, NEW n \in Nat, Lists(l, r, n), l[n + 1] \in Event,
           l[n + 1].role = r /\ l[n + 1].kind = "revoke" =>
             \E i \in DOMAIN Members(l, r, n) : Members(l, r, n)[i] = l[n + 1].account
    PROVE  Lists(l, r, n + 1)
<1> DEFINE longer(f) == [i \in 0 .. n + 1 |-> IF i = n + 1 THEN AfterEvent(l, f, r, n + 1) ELSE f[i]]
<1>1. PICK f : Solves(l, f, r, n)
  BY DEF Lists, OneSolution
<1>2. OneSolution(l, r, n) /\ \A g : Solves(l, g, r, n) => g = f
  BY <1>1, Zenon DEF Lists, OneSolution
<1>3. \A g : Solves(l, g, r, n + 1) <=> \E h : Solves(l, h, r, n) /\ g = longer(h)
  BY <1>2, LongerIs
<1>4. PICK v : v = AfterEvent(l, f, r, n + 1)
  OBVIOUS
<1>5. PICK u : u = longer(f)
  OBVIOUS
<1>6. u[n + 1] = v
  BY <1>4, <1>5
<1> HIDE DEF longer
<1>7. \A g : Solves(l, g, r, n + 1) <=> g = u
  BY <1>1, <1>2, <1>3, <1>5, Zenon
<1>8. OneSolution(l, r, n + 1)
  <2>1. \E g : Solves(l, g, r, n + 1)
    BY <1>7
  <2>2. \A g, h : Solves(l, g, r, n + 1) /\ Solves(l, h, r, n + 1) => g = h
    BY <1>7
  <2> QED BY <2>1, <2>2 DEF OneSolution
<1>9. Members(l, r, n + 1) = v
  <2>1. (CHOOSE g : Solves(l, g, r, n + 1)) = u
    BY <1>7, Zenon
  <2> QED BY <2>1, <1>6 DEF Members
<1>10. f[n] = Members(l, r, n)
  BY <1>1, <1>2, SolutionIs
<1>11. PICK s : s = Members(l, r, n)
  OBVIOUS
<1>12. s \in Seq(Accounts) /\ Len(s) \in Nat /\ Len(s) <= n
  BY <1>11 DEF Lists
<1>13. PICK e \in Event : e = l[n + 1]
  OBVIOUS
<1>14. v = IF e.role # r THEN s ELSE IF e.kind = "grant" THEN Append(s, e.account)
                                ELSE Without(s, e.account)
  BY <1>4, <1>10, <1>11, <1>13 DEF AfterEvent
<1>15. e.account \in Accounts /\ e.kind \in {"grant", "revoke"}
  BY DEF Event
<1>16. v \in Seq(Accounts) /\ Len(v) <= n + 1
  <2>1. CASE e.role # r
    BY <2>1, <1>12, <1>14
  <2>2. CASE e.role = r /\ e.kind = "grant"
    BY <2>2, <1>12, <1>14, <1>15
  <2>3. CASE e.role = r /\ e.kind = "revoke"
    <3>1. \E i \in DOMAIN s : s[i] = e.account
      BY <2>3, <1>11, <1>13
    <3>2. Without(s, e.account) \in Seq(Accounts) /\ Len(Without(s, e.account)) = Len(s) - 1
      BY <1>12, <3>1, WithoutType
    <3> QED BY <2>3, <3>2, <1>12, <1>14
  <2> QED BY <2>1, <2>2, <2>3, <1>15
<1> QED BY <1>8, <1>9, <1>16 DEF Lists

(* The lists of a log stay those of the log when it grows.                  *)
LEMMA ListsLast ==
    ASSUME NEW l, NEW m, NEW r, NEW n \in Nat, \A i \in 1..n : l[i] = m[i], Lists(l, r, n)
    PROVE  Lists(m, r, n)
<1>1. \A f : Solves(l, f, r, n) <=> Solves(m, f, r, n)
  BY SameLog
<1>2. Members(l, r, n) = Members(m, r, n)
  BY SameLog
<1>3. OneSolution(m, r, n)
  BY <1>1, Zenon DEF Lists, OneSolution
<1> QED BY <1>2, <1>3 DEF Lists

-----------------------------------------------------------------------------
(* What a call holds, through the helpers of the actions *)

(* Held roles stay held in a longer log.                                    *)
LEMMA HeldKept ==
    ASSUME NEW l, NEW l2, Len(l) \in Nat, Len(l2) \in Nat, Len(l) <= Len(l2),
           \A i \in 1..Len(l) : l[i] = l2[i], NEW r, NEW a, NEW n \in Nat, Held(l, r, a, n)
    PROVE  Held(l2, r, a, n)
<1>1. PICK m \in n .. Len(l) : \E i \in DOMAIN Members(l, r, m) : Members(l, r, m)[i] = a
  BY DEF Held
<1>2. Members(l, r, m) = Members(l2, r, m)
  BY SameLog
<1>3. m \in n .. Len(l2)
  OBVIOUS
<1> QED BY <1>1, <1>2, <1>3, Zenon DEF Held

(* A call at rest fits while the log grows and contexts are added.          *)
LEMMA FitsKept ==
    ASSUME NEW l, NEW l2, Len(l) \in Nat, Len(l2) \in Nat, Len(l) <= Len(l2),
           \A i \in 1..Len(l) : l[i] = l2[i], NEW m \in Nat, NEW m2 \in Nat, m <= m2,
           NEW k \in Call, Fits(l, m, k)
    PROVE  Fits(l2, m2, k)
<1>1. k.since \in Nat
  BY DEF Call
<1>3. Sound(l2, k)
  <2>1. ASSUME k.op = "roles", k.listed, NEW r \in Roles, NEW a \in k.members[r]
        PROVE  Held(l2, r, a, k.since)
    BY <1>1, <2>1, HeldKept DEF Fits, Sound
  <2> QED BY <2>1, Zenon DEF Sound
<1>4. k.pc \notin {"idle", "done"} => k.ctx \in 1..m2
  BY DEF Fits
<1>5. k.since <= Len(l2)
  BY <1>1 DEF Fits
<1> QED BY <1>3, <1>4, <1>5 DEF Fits

LEMMA NobodyType == Nobody \in [Roles -> SUBSET Accounts] /\ \A r \in Roles : Nobody[r] = {}
BY DEF Nobody

LEMMA UnreadType ==
    \A p : p = [r \in Roles |-> Unread] =>
        /\ p \in [Roles -> [counted : BOOLEAN, count : 0..MaxEvents, next : 0..MaxEvents]]
        /\ \A r \in Roles : p[r].next <= p[r].count
BY BoundsAssumption DEF Unread

(* A call that starts.                                                      *)
LEMMA FreshFits ==
    ASSUME NEW op \in Reads, StateOK
    PROVE  /\ Fresh(op) \in Call
           /\ Fits(log, Len(contexts), Fresh(op))
           /\ Fresh(op).members = Nobody /\ Fresh(op).ctx = current /\ Fresh(op).op = op
<1>1. PICK p : p = [r \in Roles |-> Unread]
  OBVIOUS
<1>2. PICK nobody : nobody = Nobody
  OBVIOUS
<1>3. nobody \in [Roles -> SUBSET Accounts] /\ \A r \in Roles : nobody[r] = {}
  BY <1>2, NobodyType
<1>4. /\ p \in [Roles -> [counted : BOOLEAN, count : 0..MaxEvents, next : 0..MaxEvents]]
      /\ \A r \in Roles : p[r].next <= p[r].count
  BY <1>1, UnreadType
<1>5. PICK k : k = Fresh(op)
  OBVIOUS
<1>6. k = [pc |-> "idle", op |-> op, purpose |-> "discover", ctx |-> current, ids |-> {},
           listed |-> FALSE, progress |-> p, members |-> nobody,
           outcome |-> "none", since |-> 0]
  BY <1>1, <1>2, <1>5 DEF Fresh
<1>7. current \in 0..MaxContexts /\ 0 \in 0..MaxEvents /\ Len(log) \in Nat
  BY BoundsAssumption DEF StateOK
<1>8. k \in Call
  BY <1>3, <1>4, <1>6, <1>7 DEF Call, Pcs
<1>9. Fits(log, Len(contexts), k)
  BY <1>2, <1>4, <1>6, <1>7 DEF Fits, Early, AtIndexer, Sound
<1> QED BY <1>2, <1>5, <1>6, <1>8, <1>9

(* A call that is over, with an error                                       *)
LEMMA FailedFits ==
    ASSUME NEW k, k.op \in Reads, StateOK
    PROVE  Failed(k) \in Call /\ Fits(log, Len(contexts), Failed(k))
<1>1. PICK f \in Call : f = Fresh(k.op)
  BY FreshFits
<1>2. /\ Fits(log, Len(contexts), f) /\ f.members = Nobody /\ f.op \in Reads
      /\ f.listed = FALSE
  BY <1>1, FreshFits DEF Fresh
<1>3. PICK g : g = [f EXCEPT !.pc = "done", !.outcome = "error", !.ctx = 0]
  OBVIOUS
<1>0. 0 \in 0..MaxContexts
  BY BoundsAssumption
<1>4. g \in Call
  BY <1>0, <1>3 DEF Call, Pcs
<1>5. /\ g.pc = "done" /\ g.progress = f.progress /\ g.since = f.since /\ g.members = f.members
      /\ g.listed = FALSE
  BY <1>2, <1>3 DEF Call
<1>6. Fits(log, Len(contexts), g)
  BY <1>2, <1>5 DEF Fits, Early, AtIndexer, Sound
<1> QED BY <1>1, <1>3, <1>4, <1>6 DEF Failed

(* or with an answer.                                                       *)
LEMMA AnsweredFits ==
    ASSUME NEW l, NEW m, NEW k \in Call, Sound(l, k), k.since <= Len(l)
    PROVE  Answered(k) \in Call /\ Fits(l, m, Answered(k))
<1>1. PICK p : p = [r \in Roles |-> Unread]
  OBVIOUS
<1>2. /\ p \in [Roles -> [counted : BOOLEAN, count : 0..MaxEvents, next : 0..MaxEvents]]
      /\ \A r \in Roles : p[r].next <= p[r].count
  BY <1>1, UnreadType
<1>3. PICK g : g = [k EXCEPT !.pc = "done", !.outcome = "answer", !.ctx = 0,
                             !.purpose = "discover", !.progress = p]
  OBVIOUS
<1>0. 0 \in 0..MaxContexts
  BY BoundsAssumption
<1>4. g \in Call
  BY <1>0, <1>2, <1>3 DEF Call, Pcs
<1>5. /\ g.pc = "done" /\ g.progress = p /\ g.since = k.since /\ g.members = k.members
      /\ g.listed = k.listed /\ g.op = k.op
  BY <1>3 DEF Call
<1>6. Fits(l, m, g)
  BY <1>2, <1>5 DEF Fits, Early, AtIndexer, Sound
<1> QED BY <1>1, <1>3, <1>4, <1>6 DEF Answered

(* A call in a method that has its context.                                 *)
Under(l, m, k) ==
    /\ k.ctx \in 1..m
    /\ \A r \in Roles : k.progress[r].next <= k.progress[r].count
    /\ k.since <= Len(l)
    /\ Sound(l, k)

(* A call that asks the indexer                                             *)
LEMMA AskFits ==
    ASSUME NEW k \in Call, NEW purpose \in {"discover", "populate", "enrich"}, StateOK,
           Under(log, Len(contexts), k),
           purpose = "discover" => k.members = Nobody,
           k.op = "roles" /\ k.listed => purpose = "discover"
    PROVE  Ask(k, purpose) \in Call /\ Fits(log, Len(contexts), Ask(k, purpose))
<1>1. PICK pc \in {"health", "asking", "refused"} :
        Ask(k, purpose) = [k EXCEPT !.purpose = purpose, !.pc = pc]
  <2>1. PICK p : p = [k EXCEPT !.purpose = purpose]
    OBVIOUS
  <2>2. [p EXCEPT !.pc = "health"] = [k EXCEPT !.purpose = purpose, !.pc = "health"]
    BY <2>1 DEF Call
  <2>3. \A v : [p EXCEPT !.pc = v] = [k EXCEPT !.purpose = purpose, !.pc = v]
    BY <2>1 DEF Call
  <2>4. PICK up \in {"asking", "refused"} :
          WithAvailability(p, indexer.available) = [p EXCEPT !.pc = up]
    BY DEF WithAvailability
  <2> QED BY <2>1, <2>2, <2>3, <2>4 DEF Ask
<1>2. PICK g : g = [k EXCEPT !.purpose = purpose, !.pc = pc]
  OBVIOUS
<1>3. g \in Call
  BY <1>2 DEF Call, Pcs
<1>4. /\ g.pc = pc /\ g.purpose = purpose /\ g.ctx = k.ctx /\ g.progress = k.progress
      /\ g.since = k.since /\ g.members = k.members /\ g.listed = k.listed
      /\ g.op = k.op
  BY <1>2 DEF Call
<1>5. Fits(log, Len(contexts), g)
  BY <1>4 DEF Under, Fits, Early, AtIndexer, Sound
<1> QED BY <1>1, <1>2, <1>3, <1>5

(* has its members                                                          *)
LEMMA HasRolesFits ==
    ASSUME NEW k \in Call, StateOK, Under(log, Len(contexts), k)
    PROVE  HasRoles(k) \in Call /\ Fits(log, Len(contexts), HasRoles(k))
<1>1. CASE k.op = "enriched"
  <2>1. PICK p : p = [r \in Roles |-> Unread]
    OBVIOUS
  <2>2. /\ p \in [Roles -> [counted : BOOLEAN, count : 0..MaxEvents, next : 0..MaxEvents]]
        /\ \A r \in Roles : p[r].next <= p[r].count
    BY <2>1, UnreadType
  <2>3. PICK g : g = [k EXCEPT !.progress = p]
    OBVIOUS
  <2>4. g \in Call
    BY <2>2, <2>3 DEF Call
  <2>5. /\ g.ctx = k.ctx /\ g.progress = p /\ g.since = k.since /\ g.members = k.members
        /\ g.listed = k.listed /\ g.op = k.op
    BY <2>3 DEF Call
  <2>6. Under(log, Len(contexts), g)
    BY <2>2, <2>5 DEF Under, Sound
  <2>7. HasRoles(k) = Ask(g, "enrich")
    BY <1>1, <2>1, <2>3 DEF HasRoles
  <2> QED BY <1>1, <2>4, <2>5, <2>6, <2>7, AskFits
<1>2. CASE k.op # "enriched"
  BY <1>2, AnsweredFits DEF HasRoles, Under
<1> QED BY <1>1, <1>2

(* begins to read them                                                      *)
LEMMA StartReadingFits ==
    ASSUME NEW k \in Call, NEW ids \in SUBSET Roles, StateOK, Under(log, Len(contexts), k),
           k.members = Nobody
    PROVE  StartReading(k, ids) \in Call /\ Fits(log, Len(contexts), StartReading(k, ids))
<1>1. PICK p : p = [k EXCEPT !.ids = ids]
  OBVIOUS
<1>2. p \in Call
  BY <1>1 DEF Call
<1>3. /\ p.ctx = k.ctx /\ p.progress = k.progress /\ p.since = k.since /\ p.members = k.members
      /\ p.listed = k.listed /\ p.op = k.op
  BY <1>1 DEF Call
<1>4. Under(log, Len(contexts), p)
  BY <1>3 DEF Under, Sound
<1>5. CASE ids = {}
  BY <1>1, <1>2, <1>4, <1>5, AnsweredFits DEF StartReading, Under
<1>6. CASE ids # {} /\ k.listed
  <2>1. Len(log) \in 0..MaxEvents
    BY BoundsAssumption DEF StateOK
  <2>2. PICK g : g = [p EXCEPT !.pc = "reading", !.since = Len(log)]
    OBVIOUS
  <2>3. g \in Call
    BY <1>2, <2>1, <2>2 DEF Call, Pcs
  <2>4. /\ g.pc = "reading" /\ g.ctx = k.ctx /\ g.progress = k.progress /\ g.since = Len(log)
        /\ g.members = Nobody
    BY <1>2, <1>3, <2>2 DEF Call
  <2>5. \A r \in Roles : g.members[r] = {}
    BY <2>4, NobodyType
  <2>6. Fits(log, Len(contexts), g)
    BY <2>1, <2>4, <2>5 DEF Under, Fits, Early, AtIndexer, Sound
  <2> QED BY <1>1, <1>6, <2>2, <2>3, <2>6 DEF StartReading
<1>7. CASE ids # {} /\ ~k.listed
  BY <1>1, <1>2, <1>3, <1>4, <1>7, AskFits DEF StartReading
<1> QED BY <1>5, <1>6, <1>7

(* or has the role ids it needs.                                            *)
LEMMA HasRoleIdsFits ==
    ASSUME NEW k \in Call, NEW ids \in SUBSET Roles, StateOK, Under(log, Len(contexts), k),
           k.members = Nobody
    PROVE  HasRoleIds(k, ids) \in Call /\ Fits(log, Len(contexts), HasRoleIds(k, ids))
<1>1. PICK p : p = [k EXCEPT !.ids = ids]
  OBVIOUS
<1>2. p \in Call
  BY <1>1 DEF Call
<1>3. /\ p.since = k.since /\ p.members = k.members /\ p.listed = k.listed
      /\ p.op = k.op
  BY <1>1 DEF Call
<1>4. Sound(log, p)
  BY <1>3 DEF Under, Sound
<1>5. CASE k.op = "discover"
  BY <1>1, <1>2, <1>3, <1>4, <1>5, AnsweredFits DEF HasRoleIds, Under
<1>6. CASE k.op # "discover"
  BY <1>6, StartReadingFits DEF HasRoleIds
<1> QED BY <1>5, <1>6

-----------------------------------------------------------------------------
(* The initial state *)

LEMMA InitHolds == ASSUME Init PROVE IInv
<1>1. StateOK
  BY BoundsAssumption DEF Init, StateOK
<1>2. PICK k : k = Fresh("roles")
  OBVIOUS
<1>3. k \in Call /\ Fits(log, Len(contexts), k)
  BY <1>1, <1>2, FreshFits DEF Reads
<1>4. call = [c \in Calls |-> k]
  BY <1>2 DEF Init
<1>5. TypeOK
  BY <1>1, <1>3, <1>4 DEF StateOK, TypeOK
<1>6. Enumerated
  <2>1. Len(log) = 0
    BY DEF Init
  <2> QED BY <2>1, NoEvents DEF Enumerated, EveryPrefixLists
<1>7. AllFit
  BY <1>3, <1>4 DEF AllFit
<1> QED BY <1>5, <1>6, <1>7 DEF IInv

-----------------------------------------------------------------------------
(* Steps of the environment and of the synchronous methods *)

(* Steps that leave the calls alone, where the log and the contexts only grow. *)
LEMMA Undisturbed ==
    ASSUME IInv, StateOK', UNCHANGED call, Len(log) <= Len(log'), Len(contexts) <= Len(contexts'),
           \A i \in 1..Len(log) : log[i] = log'[i]
    PROVE  TypeOK' /\ AllFit'
<1>1. TypeOK'
  BY DEF IInv, TypeOK, StateOK
<1>2. ASSUME NEW c \in Calls PROVE Fits(log', Len(contexts'), call'[c])
  <2>1. PICK k \in Call : k = call[c]
    BY DEF IInv, TypeOK
  <2>2. Fits(log, Len(contexts), k)
    BY <2>1 DEF IInv, AllFit
  <2>3. Len(log) \in Nat /\ Len(log') \in Nat /\ Len(contexts) \in Nat /\ Len(contexts') \in Nat
    BY DEF IInv, TypeOK, StateOK
  <2>4. Fits(log', Len(contexts'), k)
    BY <2>2, <2>3, FitsKept
  <2> QED BY <2>1, <2>4
<1> QED BY <1>1, <1>2 DEF AllFit

LEMMA EmitStep == ASSUME IInv, NEW r \in Roles, NEW a \in Accounts, Emit(r, a) PROVE IInv'
<1>1. PICK e : e = [kind |-> IF a \in Holders(r, Len(log)) THEN "revoke" ELSE "grant",
                    role |-> r, account |-> a]
  OBVIOUS
<1>2. e \in Event /\ e.role = r /\ e.account = a /\ (e.kind = "revoke" => a \in Holders(r, Len(log)))
  BY <1>1 DEF Event
<1>3. log' = Append(log, e) /\ Len(log) < MaxEvents /\ log \in Seq(Event) /\ Len(log) \in Nat
  BY <1>1 DEF Emit, IInv, TypeOK
<1>4. /\ log' \in Seq(Event) /\ Len(log') = Len(log) + 1 /\ log'[Len(log) + 1] = e
      /\ \A i \in 1..Len(log) : log[i] = log'[i]
  BY <1>2, <1>3
<1>5. StateOK'
  BY <1>3, <1>4, BoundsAssumption DEF Emit, IInv, TypeOK, StateOK
<1>6. TypeOK' /\ AllFit'
  BY <1>3, <1>4, <1>5, Undisturbed DEF Emit
<1>7. Enumerated'
  <2>1. PICK n \in Nat : n = Len(log)
    BY <1>3
  <2>2. PICK l : l = log'
    OBVIOUS
  <2>3. ASSUME NEW q \in Roles, NEW i \in 0..n PROVE Lists(l, q, i)
    <3>1. \A j \in 1..i : log[j] = l[j]
      BY <1>4, <2>1, <2>2
    <3>2. Lists(log, q, i)
      BY <2>1 DEF IInv, Enumerated, EveryPrefixLists
    <3> QED BY <3>1, <3>2, ListsLast
  <2>4. ASSUME NEW q \in Roles PROVE Lists(l, q, n + 1)
    <3>1. Lists(l, q, n)
      BY <2>3
    <3>2. l[n + 1] \in Event /\ l[n + 1] = e
      BY <1>2, <1>4, <2>1, <2>2
    <3>3. ASSUME e.role = q, e.kind = "revoke"
          PROVE  \E i \in DOMAIN Members(l, q, n) : Members(l, q, n)[i] = e.account
      <4>1. q = r /\ a \in Holders(q, n)
        BY <1>2, <2>1, <3>3
      <4>2. Members(log, q, n) = Members(l, q, n)
        BY <1>4, <2>1, <2>2, SameLog
      <4>3. MembersAfter(q, n) = Members(l, q, n)
        BY <4>2, MembersIs
      <4>4. a \in {Members(l, q, n)[i] : i \in DOMAIN Members(l, q, n)}
        BY <4>1, <4>3, Zenon DEF Holders
      <4> QED BY <1>2, <4>4, Zenon
    <3> QED BY <3>1, <3>2, <3>3, Grows
  <2>5. \A i \in 0..Len(l) : i \in 0..n \/ i = n + 1
    BY <1>4, <2>1, <2>2
  <2>6. EveryPrefixLists(l)
    BY <2>3, <2>4, <2>5, Zenon DEF EveryPrefixLists
  <2> QED BY <2>2, <2>6, Zenon DEF Enumerated
<1> QED BY <1>6, <1>7 DEF IInv

LEMMA CatchUpStep == ASSUME IInv, CatchUp PROVE IInv'
<1>1. StateOK'
  BY DEF CatchUp, IInv, TypeOK, StateOK
<1>2. TypeOK' /\ AllFit'
  BY <1>1, Undisturbed DEF CatchUp, IInv, TypeOK
<1> QED BY <1>2, Zenon DEF CatchUp, IInv, Enumerated

LEMMA RegisterContractStep ==
    ASSUME IInv, NEW ids \in SUBSET Given, NEW e \in BOOLEAN, RegisterContract(ids, e) PROVE IInv'
<1>1. PICK label \in [Named -> Labels] : label = [r \in Named |-> "none"]
  BY DEF Labels
<1>2. PICK ctx : ctx = [known |-> ids, discovered |-> {}, attempted |-> FALSE,
                        label |-> label, abiDone |-> FALSE, enumerable |-> e]
  OBVIOUS
<1>3. ctx \in Context
  BY <1>2, BoundsAssumption DEF Context
<1>4. /\ contexts' = Append(contexts, ctx) /\ Len(contexts) < MaxContexts
      /\ contexts \in Seq(Context) /\ current' = Len(contexts')
      /\ UNCHANGED <<log, indexed, indexer, call>>
  BY <1>1, <1>2 DEF RegisterContract, IInv, TypeOK
<1>5. contexts' \in Seq(Context) /\ Len(contexts') = Len(contexts) + 1 /\ Len(contexts) \in Nat
  BY <1>3, <1>4
<1>6. StateOK'
  BY <1>4, <1>5, BoundsAssumption DEF IInv, TypeOK, StateOK
<1>7. TypeOK' /\ AllFit'
  BY <1>4, <1>5, <1>6, Undisturbed DEF IInv, TypeOK
<1> QED BY <1>4, <1>7, Zenon DEF IInv, Enumerated

(* A sequence keeps its length and its type when an entry changes.          *)
LEMMA EntryChanges ==
    ASSUME NEW S, NEW s \in Seq(S), NEW i \in DOMAIN s, NEW x \in S
    PROVE  [s EXCEPT ![i] = x] \in Seq(S) /\ Len([s EXCEPT ![i] = x]) = Len(s)
OBVIOUS

LEMMA AddKnownRoleIdsStep ==
    ASSUME IInv, NEW ids \in SUBSET Given, NEW labelled, NEW valid \in BOOLEAN,
           AddKnownRoleIds(ids, labelled, valid)
    PROVE  IInv'
<1>1. current \in DOMAIN contexts /\ contexts \in Seq(Context)
  BY DEF AddKnownRoleIds, IInv, TypeOK
<1>2. PICK old \in Context : old = contexts[current]
  BY <1>1
<1>3. PICK known \in SUBSET Roles : known = IF valid THEN old.known \cup ids ELSE old.known
  BY BoundsAssumption DEF Context
<1>4. PICK label \in [Named -> Labels] :
        label = [r \in Named |-> IF r \in labelled THEN "given" ELSE old.label[r]]
  BY DEF Context, Labels
<1>5. PICK ctx : ctx = [old EXCEPT !.known = known, !.label = label]
  OBVIOUS
<1>6. ctx \in Context
  BY <1>5 DEF Context
<1>7. contexts' = [contexts EXCEPT ![current] = ctx]
  BY <1>1, <1>2, <1>3, <1>4, <1>5 DEF AddKnownRoleIds
<1>8. contexts' \in Seq(Context) /\ Len(contexts') = Len(contexts)
  BY <1>1, <1>6, <1>7, EntryChanges
<1>9. StateOK'
  BY <1>8 DEF AddKnownRoleIds, IInv, TypeOK, StateOK
<1>10. TypeOK' /\ AllFit'
  BY <1>8, <1>9, Undisturbed DEF AddKnownRoleIds, IInv, TypeOK
<1> QED BY <1>10, Zenon DEF AddKnownRoleIds, IInv, Enumerated

LEMMA DisposeStep == ASSUME IInv, Dispose PROVE IInv'
<1>1. StateOK'
  BY DEF Dispose, IInv, TypeOK, StateOK
<1>2. TypeOK' /\ AllFit'
  BY <1>1, Undisturbed DEF Dispose, IInv, TypeOK
<1> QED BY <1>2, Zenon DEF Dispose, IInv, Enumerated

-----------------------------------------------------------------------------
(* Steps of a call *)

(* One call goes on, and fits.                                              *)
LEMMA GoesOn ==
    ASSUME IInv, StateOK', UNCHANGED log, Len(contexts') = Len(contexts),
           NEW c \in Calls, NEW k \in Call, Fits(log, Len(contexts), k), Goes(c, k)
    PROVE  IInv'
<1>1. call \in [Calls -> Call] /\ call' = [call EXCEPT ![c] = k]
  BY DEF IInv, TypeOK, Goes
<1>2. TypeOK'
  BY <1>1 DEF TypeOK, StateOK
<1>3. AllFit'
  BY <1>1 DEF IInv, AllFit
<1>4. Enumerated'
  BY Zenon DEF IInv, Enumerated
<1> QED BY <1>2, <1>3, <1>4 DEF IInv

LEMMA StateHere == ASSUME IInv PROVE StateOK
BY DEF IInv, TypeOK, StateOK

(* What is known of a call in flight.                                       *)
LEMMA InFlight ==
    ASSUME IInv, NEW c \in Calls, call[c].pc \notin {"idle", "done"}
    PROVE  /\ call[c] \in Call /\ Fits(log, Len(contexts), call[c])
           /\ call[c].op \in Reads
           /\ Under(log, Len(contexts), call[c])
           /\ call[c].ctx \in DOMAIN contexts
           /\ contexts[call[c].ctx] \in Context
           /\ Merged(contexts[call[c].ctx]) \in SUBSET Roles
<1>1. PICK k \in Call : k = call[c]
  BY DEF IInv, TypeOK
<1>2. Fits(log, Len(contexts), k)
  BY <1>1 DEF IInv, AllFit
<1>3. contexts \in Seq(Context)
  BY DEF IInv, TypeOK
<1>4. Under(log, Len(contexts), k) /\ k.ctx \in 1..Len(contexts) /\ k.op \in Reads
  BY <1>1, <1>2 DEF Under, Fits, Call
<1>5. k.ctx \in DOMAIN contexts /\ contexts[k.ctx] \in Context
  BY <1>3, <1>4
<1>6. \A ctx \in Context : Merged(ctx) \in SUBSET Roles
  BY DEF Merged, Context
<1> QED BY <1>1, <1>2, <1>4, <1>5, <1>6

LEMMA StartUnregisteredStep ==
    ASSUME IInv, NEW c \in Calls, NEW op \in Reads, StartUnregistered(c, op) PROVE IInv'
<1>1. PICK f \in Call : f = Fresh(op) /\ f.op = op
  BY StateHere, FreshFits
<1>2. PICK k \in Call : k = Failed(f) /\ Fits(log, Len(contexts), k)
  BY <1>1, StateHere, FailedFits
<1>3. Goes(c, k)
  BY <1>1, <1>2, Zenon DEF StartUnregistered
<1>4. StateOK'
  BY StateHere DEF StartUnregistered, StateOK
<1> QED BY <1>2, <1>3, <1>4, GoesOn DEF StartUnregistered

(* A fresh call that has left "idle" is in a context.                       *)
LEMMA FreshUnder ==
    ASSUME NEW op \in Reads, StateOK, current # 0
    PROVE  Under(log, Len(contexts), Fresh(op))
<1>1. PICK f \in Call : f = Fresh(op) /\ f.ctx = current /\ Fits(log, Len(contexts), f)
  BY FreshFits
<1>2. current \in 1..Len(contexts)
  BY DEF StateOK
<1> QED BY <1>1, <1>2 DEF Under, Fits

LEMMA StartRolesStep ==
    ASSUME IInv, NEW c \in Calls, NEW op \in Reads, StartRoles(c, op) PROVE IInv'
<1>1. PICK f \in Call : /\ f = Fresh(op) /\ f.members = Nobody /\ f.listed = FALSE
                        /\ Under(log, Len(contexts), f)
  BY StateHere, FreshFits, FreshUnder DEF StartRoles, Fresh
<1>2. PICK pc \in {"capabilities", "abi"} :
        pc = IF contexts[current].abiDone THEN "capabilities" ELSE "abi"
  OBVIOUS
<1>3. PICK k : k = [f EXCEPT !.pc = pc]
  OBVIOUS
<1>4. k \in Call
  BY <1>3 DEF Call, Pcs
<1>5. /\ k.pc = pc /\ k.ctx = f.ctx /\ k.progress = f.progress /\ k.since = f.since
      /\ k.members = Nobody /\ k.listed = FALSE
  BY <1>1, <1>3 DEF Call
<1>6. Fits(log, Len(contexts), k)
  BY <1>1, <1>5 DEF Fits, Under, Early, AtIndexer, Sound
<1>7. Goes(c, k)
  BY <1>1, <1>2, <1>3 DEF StartRoles
<1>8. StateOK'
  BY StateHere DEF StartRoles, StateOK
<1> QED BY <1>4, <1>6, <1>7, <1>8, GoesOn DEF StartRoles

(* The context of a call is replaced by another, of the same place.         *)
LEMMA ContextReplaced ==
    ASSUME IInv, NEW i \in DOMAIN contexts, NEW ctx \in Context,
           contexts' = [contexts EXCEPT ![i] = ctx],
           indexer' \in [checked : BOOLEAN, available : BOOLEAN],
           UNCHANGED <<log, indexed, current>>
    PROVE  StateOK' /\ Len(contexts') = Len(contexts)
<1>1. contexts \in Seq(Context)
  BY DEF IInv, TypeOK
<1>2. contexts' \in Seq(Context) /\ Len(contexts') = Len(contexts)
  BY <1>1, EntryChanges
<1> QED BY <1>2 DEF IInv, TypeOK, StateOK

LEMMA AbiAnswersStep ==
    ASSUME IInv, NEW c \in Calls, NEW found \in SUBSET Named, AbiAnswers(c, found) PROVE IInv'
<1>1. PICK o \in Call : o = call[c] /\ o.pc = "abi" /\ Fits(log, Len(contexts), o)
  BY InFlight DEF AbiAnswers
<1>2. PICK old \in Context : old = contexts[o.ctx] /\ o.ctx \in DOMAIN contexts
  BY <1>1, InFlight
<1>3. PICK label \in [Named -> Labels] :
        label = [r \in Named |-> IF r \in found /\ old.label[r] = "none" THEN "abi" ELSE old.label[r]]
  BY DEF Context, Labels
<1>4. PICK ctx : ctx = [old EXCEPT !.abiDone = TRUE, !.label = label]
  OBVIOUS
<1>5. ctx \in Context
  BY <1>4 DEF Context
<1>6. contexts' = [contexts EXCEPT ![o.ctx] = ctx]
  <2>1. contexts \in Seq(Context)
    BY DEF IInv, TypeOK
  <2> QED BY <2>1, <1>1, <1>2, <1>3, <1>4 DEF AbiAnswers
<1>7. StateOK' /\ Len(contexts') = Len(contexts)
  BY <1>2, <1>5, <1>6, ContextReplaced DEF AbiAnswers, IInv, TypeOK
<1>8. PICK k : k = [o EXCEPT !.pc = "capabilities"]
  OBVIOUS
<1>9. k \in Call
  BY <1>8 DEF Call, Pcs
<1>10. /\ k.pc = "capabilities" /\ k.ctx = o.ctx /\ k.progress = o.progress /\ k.since = o.since
       /\ k.members = o.members /\ k.listed = o.listed /\ k.op = o.op
  BY <1>8 DEF Call
<1>11. Fits(log, Len(contexts), k)
  BY <1>1, <1>10 DEF Fits, Early, AtIndexer, Sound
<1> QED BY <1>1, <1>7, <1>8, <1>9, <1>11, GoesOn DEF AbiAnswers

LEMMA AbiFailsStep == ASSUME IInv, NEW c \in Calls, AbiFails(c) PROVE IInv'
<1>1. PICK o \in Call : o = call[c] /\ o.op \in Reads
  BY InFlight DEF AbiFails
<1>2. PICK old \in Context : old = contexts[o.ctx] /\ o.ctx \in DOMAIN contexts
  BY <1>1, InFlight DEF AbiFails
<1>3. PICK ctx : ctx = [old EXCEPT !.abiDone = TRUE]
  OBVIOUS
<1>4. ctx \in Context
  BY <1>3 DEF Context
<1>5. contexts' = [contexts EXCEPT ![o.ctx] = ctx]
  <2>1. contexts \in Seq(Context)
    BY DEF IInv, TypeOK
  <2> QED BY <2>1, <1>1, <1>2, <1>3 DEF AbiFails
<1>6. StateOK' /\ Len(contexts') = Len(contexts)
  BY <1>2, <1>4, <1>5, ContextReplaced DEF AbiFails, IInv, TypeOK
<1>7. PICK k \in Call : k = Failed(o) /\ Fits(log, Len(contexts), k)
  BY <1>1, StateHere, FailedFits
<1> QED BY <1>1, <1>6, <1>7, GoesOn DEF AbiFails

(* discoverKnownRoleIds's part, for a call that has a context.              *)
LEMMA DiscoverStep ==
    ASSUME IInv, NEW c \in Calls, NEW k \in Call, Under(log, Len(contexts), k),
           k.members = Nobody, Discover(c, k), UNCHANGED <<log, indexed, current, indexer>>
    PROVE  IInv'
<1>1. contexts \in Seq(Context) /\ k.ctx \in DOMAIN contexts
  BY DEF IInv, TypeOK, Under
<1>2. PICK old \in Context : old = contexts[k.ctx]
  BY <1>1
<1>3. CASE contexts[k.ctx].attempted
  <2>1. PICK ids \in SUBSET Roles : ids = Merged(contexts[k.ctx])
    BY <1>2 DEF Merged, Context
  <2>2. PICK g \in Call : g = HasRoleIds(k, ids) /\ Fits(log, Len(contexts), g)
    BY StateHere, HasRoleIdsFits
  <2>3. Goes(c, g) /\ UNCHANGED contexts
    BY <1>3, <2>1, <2>2, Zenon DEF Discover
  <2>4. StateOK'
    BY <2>3, StateHere DEF StateOK
  <2> QED BY <2>2, <2>3, <2>4, GoesOn
<1>4. CASE ~contexts[k.ctx].attempted
  <2>1. PICK g \in Call : g = Ask(k, "discover") /\ Fits(log, Len(contexts), g)
    BY StateHere, AskFits
  <2>2. PICK ctx : ctx = [old EXCEPT !.attempted = TRUE]
    OBVIOUS
  <2>3. ctx \in Context
    BY <2>2 DEF Context
  <2>4. Goes(c, g) /\ contexts' = [contexts EXCEPT ![k.ctx].attempted = TRUE]
    BY <1>4, <2>1, Zenon DEF Discover
  <2>5. contexts' = [contexts EXCEPT ![k.ctx] = ctx]
    BY <1>1, <1>2, <2>2, <2>4
  <2>6. StateOK' /\ Len(contexts') = Len(contexts)
    BY <1>1, <2>3, <2>5, ContextReplaced DEF IInv, TypeOK
  <2> QED BY <2>1, <2>4, <2>6, GoesOn
<1> QED BY <1>3, <1>4

LEMMA DiscoverKnownRoleIdsStep == ASSUME IInv, NEW c \in Calls, DiscoverKnownRoleIds(c) PROVE IInv'
<1>1. PICK f \in Call : /\ f = Fresh("discover") /\ f.members = Nobody
                        /\ Under(log, Len(contexts), f)
  BY StateHere, FreshFits, FreshUnder DEF DiscoverKnownRoleIds, Reads
<1>2. Discover(c, f) /\ UNCHANGED <<log, indexed, current, indexer>>
  BY <1>1, Zenon DEF DiscoverKnownRoleIds
<1> QED BY <1>1, <1>2, DiscoverStep

LEMMA CapabilitiesStep == ASSUME IInv, NEW c \in Calls, Capabilities(c) PROVE IInv'
<1>1. PICK o \in Call : /\ o = call[c] /\ o.pc = "capabilities" /\ Fits(log, Len(contexts), o)
                        /\ Under(log, Len(contexts), o)
  BY InFlight DEF Capabilities
<1>2. PICK listed \in BOOLEAN : listed = (current # 0 /\ contexts[current].enumerable)
  BY Zenon
<1>3. PICK k : k = [o EXCEPT !.listed = listed]
  OBVIOUS
<1>4. k \in Call
  BY <1>3 DEF Call
<1>5. /\ k.ctx = o.ctx /\ k.progress = o.progress /\ k.since = o.since
      /\ k.members = Nobody /\ k.op = o.op /\ k.op \in Reads
  BY <1>1, <1>3 DEF Call, Fits, Early
<1>6. Under(log, Len(contexts), k)
  BY <1>1, <1>5, NobodyType DEF Under, Sound
<1>7. k = [call[c] EXCEPT !.listed = current # 0 /\ contexts[current].enumerable]
  BY <1>1, <1>2, <1>3, Zenon
<1>8. UNCHANGED <<log, indexed, current, indexer>>
  BY DEF Capabilities
<1>9. CASE Goes(c, Failed(k)) /\ UNCHANGED contexts
  <2>1. PICK g \in Call : g = Failed(k) /\ Fits(log, Len(contexts), g)
    BY <1>5, StateHere, FailedFits
  <2>2. StateOK'
    BY <1>8, <1>9, StateHere DEF StateOK
  <2> QED BY <1>8, <1>9, <2>1, <2>2, GoesOn
<1>10. CASE Discover(c, k)
  BY <1>4, <1>5, <1>6, <1>8, <1>10, DiscoverStep
<1>11. CASE Goes(c, StartReading(k, Merged(contexts[k.ctx]))) /\ UNCHANGED contexts
  <2>1. PICK ids \in SUBSET Roles : ids = Merged(contexts[k.ctx])
    BY <1>1, <1>5, InFlight
  <2>2. PICK g \in Call : g = StartReading(k, ids) /\ Fits(log, Len(contexts), g)
    BY <1>4, <1>5, <1>6, StateHere, StartReadingFits
  <2>3. StateOK'
    BY <1>8, <1>11, StateHere DEF StateOK
  <2> QED BY <1>8, <1>11, <2>1, <2>2, <2>3, GoesOn
<1> QED BY <1>7, <1>9, <1>10, <1>11, Zenon DEF Capabilities

LEMMA HealthAnswersStep ==
    ASSUME IInv, NEW c \in Calls, NEW up \in BOOLEAN, HealthAnswers(c, up) PROVE IInv'
<1>1. PICK o \in Call : o = call[c] /\ o.pc = "health" /\ Fits(log, Len(contexts), o)
  BY InFlight DEF HealthAnswers
<1>2. PICK pc \in {"asking", "refused"} : WithAvailability(o, up) = [o EXCEPT !.pc = pc]
  BY DEF WithAvailability
<1>3. PICK k : k = [o EXCEPT !.pc = pc]
  OBVIOUS
<1>4. k \in Call
  BY <1>3 DEF Call, Pcs
<1>5. /\ k.pc = pc /\ k.ctx = o.ctx /\ k.progress = o.progress /\ k.since = o.since
      /\ k.members = o.members /\ k.listed = o.listed /\ k.op = o.op
      /\ k.purpose = o.purpose
  BY <1>3 DEF Call
<1>6. Fits(log, Len(contexts), k)
  BY <1>1, <1>5 DEF Fits, Early, AtIndexer, Sound
<1>7. Goes(c, k) /\ UNCHANGED <<log, indexed, contexts, current>>
  BY <1>1, <1>2, <1>3 DEF HealthAnswers
<1>8. StateOK'
  BY StateHere DEF HealthAnswers, StateOK
<1> QED BY <1>4, <1>6, <1>7, <1>8, GoesOn

LEMMA RecentRolesType == ASSUME IInv PROVE RecentRoles \in SUBSET Roles
<1>1. \A n \in 1..indexed : log[n] \in Event
  BY DEF IInv, TypeOK
<1>2. \A e \in Event : e.role \in Roles
  BY DEF Event
<1> QED BY <1>1, <1>2 DEF RecentRoles

LEMMA DiscoveredStep == ASSUME IInv, NEW c \in Calls, Discovered(c) PROVE IInv'
<1>1. PICK o \in Call : /\ o = call[c] /\ o.pc = "asking" /\ o.purpose = "discover"
                        /\ o.op \in Reads /\ Fits(log, Len(contexts), o)
                        /\ Under(log, Len(contexts), o)
  BY InFlight DEF Discovered
<1>2. PICK old \in Context : old = contexts[o.ctx] /\ o.ctx \in DOMAIN contexts
  BY <1>1, InFlight
<1>3. PICK discovered \in SUBSET Roles :
        discovered = IF RecentRoles = {} THEN old.discovered ELSE RecentRoles
  BY RecentRolesType DEF Context
<1>4. PICK ctx : ctx = [old EXCEPT !.discovered = discovered]
  OBVIOUS
<1>5. ctx \in Context
  BY <1>4 DEF Context
<1>6. ctx = [contexts[call[c].ctx] EXCEPT !.discovered = IF RecentRoles = {} THEN @ ELSE RecentRoles]
  BY <1>1, <1>2, <1>3, <1>4
<1>7. /\ contexts' = [contexts EXCEPT ![o.ctx] = ctx]
      /\ Goes(c, HasRoleIds(o, Merged(ctx)))
      /\ UNCHANGED <<log, indexed, current, indexer>>
  BY <1>1, <1>6, Zenon DEF Discovered
<1>8. StateOK' /\ Len(contexts') = Len(contexts)
  BY <1>2, <1>5, <1>7, ContextReplaced DEF IInv, TypeOK
<1>9. PICK ids \in SUBSET Roles : ids = Merged(ctx)
  BY <1>5 DEF Merged, Context
<1>10. o.members = Nobody
  BY <1>1 DEF Fits, Early, AtIndexer
<1>11. PICK k \in Call : k = HasRoleIds(o, ids) /\ Fits(log, Len(contexts), k)
  BY <1>1, <1>10, StateHere, HasRoleIdsFits
<1> QED BY <1>7, <1>8, <1>9, <1>11, GoesOn

(* A call that reads goes on reading, with more progress and more members.  *)
LEMMA ReadsOn ==
    ASSUME IInv, NEW c \in Calls, call[c].pc = "reading", NEW r \in Roles,
           NEW p \in [counted : BOOLEAN, count : 0..MaxEvents, next : 0..MaxEvents],
           p.next <= p.count,
           NEW held \in SUBSET Accounts,
           \A a \in held : a \in call[c].members[r] \/ Held(log, r, a, call[c].since),
           Goes(c, [call[c] EXCEPT !.progress[r] = p, !.members[r] = held]),
           UNCHANGED <<log, indexed, contexts, current, indexer>>
    PROVE  IInv'
<1>1. PICK o \in Call : o = call[c] /\ Fits(log, Len(contexts), o)
  BY InFlight
<1>2. PICK progress : progress = [o.progress EXCEPT ![r] = p]
  OBVIOUS
<1>3. PICK members : members = [o.members EXCEPT ![r] = held]
  OBVIOUS
<1>4. /\ progress \in [Roles -> [counted : BOOLEAN, count : 0..MaxEvents, next : 0..MaxEvents]]
      /\ \A q \in Roles : progress[q] = IF q = r THEN p ELSE o.progress[q]
      /\ members \in [Roles -> SUBSET Accounts]
      /\ \A q \in Roles : members[q] = IF q = r THEN held ELSE o.members[q]
  <2>1. o.progress \in [Roles -> [counted : BOOLEAN, count : 0..MaxEvents, next : 0..MaxEvents]]
    BY DEF Call
  <2>2. o.members \in [Roles -> SUBSET Accounts]
    BY DEF Call
  <2>3. /\ progress \in [Roles -> [counted : BOOLEAN, count : 0..MaxEvents, next : 0..MaxEvents]]
        /\ \A q \in Roles : progress[q] = IF q = r THEN p ELSE o.progress[q]
    BY <1>2, <2>1
  <2>4. /\ members \in [Roles -> SUBSET Accounts]
        /\ \A q \in Roles : members[q] = IF q = r THEN held ELSE o.members[q]
    BY <1>3, <2>2
  <2> QED BY <2>3, <2>4
<1>5. PICK k : k = [o EXCEPT !.progress = progress, !.members = members]
  OBVIOUS
<1>6. k \in Call
  BY <1>4, <1>5 DEF Call
<1>7. /\ k.pc = o.pc /\ k.ctx = o.ctx /\ k.progress = progress /\ k.since = o.since
      /\ k.members = members /\ k.listed = o.listed /\ k.op = o.op
  BY <1>5 DEF Call
<1>8. \A q \in Roles : k.progress[q].next <= k.progress[q].count
  BY <1>1, <1>4, <1>7 DEF Fits
<1>9. ASSUME k.op = "roles", k.listed, NEW q \in Roles, NEW a \in k.members[q]
      PROVE  Held(log, q, a, k.since)
  BY <1>1, <1>4, <1>7, <1>9 DEF Fits, Sound
<1>10. Sound(log, k)
  BY <1>1, <1>7, <1>9 DEF Fits, Sound
<1>11. Fits(log, Len(contexts), k)
  BY <1>1, <1>7, <1>8, <1>10 DEF Fits, Early, AtIndexer
<1>12. Goes(c, k)
  <2>1. k = [call[c] EXCEPT !.progress[r] = p, !.members[r] = held]
    BY <1>1, <1>2, <1>3, <1>5 DEF Call
  <2> QED BY <2>1, Zenon
<1>13. StateOK'
  BY StateHere DEF StateOK
<1> QED BY <1>6, <1>11, <1>12, <1>13, GoesOn

(* The members now are accounts, no more than there are events.             *)
LEMMA MembersNow ==
    ASSUME IInv, NEW r \in Roles
    PROVE  /\ MembersAfter(r, Len(log)) \in Seq(Accounts)
           /\ Len(MembersAfter(r, Len(log))) \in 0..MaxEvents
           /\ MembersAfter(r, Len(log)) = Members(log, r, Len(log))
<1>1. Len(log) \in 0..Len(log) /\ Len(log) \in Nat /\ Len(log) <= MaxEvents /\ MaxEvents \in Nat
  BY BoundsAssumption DEF IInv, TypeOK
<1>2. Lists(log, r, Len(log))
  BY <1>1 DEF IInv, Enumerated, EveryPrefixLists
<1>3. PICK s : s = Members(log, r, Len(log))
  OBVIOUS
<1>4. s \in Seq(Accounts) /\ Len(s) <= Len(log)
  BY <1>2, <1>3 DEF Lists
<1>5. Len(s) \in 0..MaxEvents
  BY <1>1, <1>4
<1> QED BY <1>3, <1>4, <1>5, MembersIs

(* The parts of a call that reads role r.                                   *)
LEMMA Reading ==
    ASSUME IInv, NEW c \in Calls, call[c].pc = "reading", NEW r \in Roles
    PROVE  /\ call \in [Calls -> Call]
           /\ call[c].progress \in [Roles -> [counted : BOOLEAN, count : 0..MaxEvents, next : 0..MaxEvents]]
           /\ call[c].members \in [Roles -> SUBSET Accounts]
           /\ call[c].progress[r].next <= call[c].progress[r].count
           /\ call[c].since \in 0..Len(log)
<1>1. PICK o \in Call : o = call[c] /\ Fits(log, Len(contexts), o)
  BY InFlight
<1>2. o.since \in Nat /\ Len(log) \in Nat /\ o.since <= Len(log)
  BY <1>1, BoundsAssumption DEF IInv, TypeOK, Call, Fits
<1> QED BY <1>1, <1>2 DEF IInv, TypeOK, Call, Fits

(* A call that reads goes on with the members it has.                       *)
LEMMA CountsOn ==
    ASSUME IInv, NEW c \in Calls, call[c].pc = "reading", NEW r \in Roles,
           NEW p \in [counted : BOOLEAN, count : 0..MaxEvents, next : 0..MaxEvents],
           p.next <= p.count,
           Goes(c, [call[c] EXCEPT !.progress[r] = p]),
           UNCHANGED <<log, indexed, contexts, current, indexer>>
    PROVE  IInv'
<1>1. PICK o \in Call : o = call[c]
  BY InFlight
<1>2. PICK held \in SUBSET Accounts : held = o.members[r]
  BY <1>1, Reading
<1>3. [o.members EXCEPT ![r] = held] = o.members
  BY <1>2 DEF Call
<1>4. PICK members : members = [o.members EXCEPT ![r] = held]
  OBVIOUS
<1>5. [o EXCEPT !.progress[r] = p] = [o EXCEPT !.progress[r] = p, !.members[r] = held]
  BY <1>3, <1>4 DEF Call
<1>6. Goes(c, [call[c] EXCEPT !.progress[r] = p, !.members[r] = held])
  BY <1>1, <1>5, Zenon
<1> QED BY <1>1, <1>2, <1>6, ReadsOn

LEMMA CountMembersStep ==
    ASSUME IInv, NEW c \in Calls, NEW r \in Roles, CountMembers(c, r) PROVE IInv'
<1>1. PICK n \in 0..MaxEvents : n = Len(MembersAfter(r, Len(log)))
  BY MembersNow
<1>2. PICK p : p = [counted |-> TRUE, count |-> n, next |-> 0]
  OBVIOUS
<1>3. /\ p \in [counted : BOOLEAN, count : 0..MaxEvents, next : 0..MaxEvents]
      /\ p.next <= p.count
  BY <1>2, BoundsAssumption
<1>4. Goes(c, [call[c] EXCEPT !.progress[r] = p])
  BY <1>1, <1>2, Zenon DEF CountMembers
<1> QED BY <1>3, <1>4, CountsOn DEF CountMembers

LEMMA CountFailsStep ==
    ASSUME IInv, NEW c \in Calls, NEW r \in Roles, CountFails(c, r) PROVE IInv'
<1>1. PICK o \in Call : o = call[c]
  BY Reading DEF CountFails
<1>2. PICK old : old = o.progress[r]
  OBVIOUS
<1>3. /\ old \in [counted : BOOLEAN, count : 0..MaxEvents, next : 0..MaxEvents]
      /\ old.next <= old.count
  BY <1>1, <1>2, Reading DEF CountFails
<1>4. PICK p : p = [old EXCEPT !.counted = TRUE]
  OBVIOUS
<1>5. /\ p \in [counted : BOOLEAN, count : 0..MaxEvents, next : 0..MaxEvents]
      /\ p.next <= p.count
  BY <1>3, <1>4
<1>6. [o EXCEPT !.progress[r].counted = TRUE] = [o EXCEPT !.progress[r] = p]
  BY <1>2, <1>4 DEF Call
<1>7. Goes(c, [call[c] EXCEPT !.progress[r] = p])
  BY <1>1, <1>6, Zenon DEF CountFails
<1> QED BY <1>5, <1>7, CountsOn DEF CountFails

(* The progress of a call that goes to the next index.                      *)
LEMMA NextIndex ==
    ASSUME IInv, NEW c \in Calls, call[c].pc = "reading", NEW r \in Roles,
           call[c].progress[r].counted, ~Ended(call[c].progress[r]),
           NEW p, p = [call[c].progress[r] EXCEPT !.next = @ + 1]
    PROVE  /\ p \in [counted : BOOLEAN, count : 0..MaxEvents, next : 0..MaxEvents]
           /\ p.next <= p.count
<1>1. PICK old : old = call[c].progress[r]
  OBVIOUS
<1>2. /\ old \in [counted : BOOLEAN, count : 0..MaxEvents, next : 0..MaxEvents]
      /\ old.next <= old.count
  BY <1>1, Reading
<1>3. old.next # old.count
  BY <1>1 DEF Ended
<1>4. MaxEvents \in Nat /\ old.next + 1 \in 0..MaxEvents /\ old.next + 1 <= old.count
  BY <1>2, <1>3, BoundsAssumption
<1> QED BY <1>1, <1>2, <1>4

LEMMA SkipMemberStep ==
    ASSUME IInv, NEW c \in Calls, NEW r \in Roles, SkipMember(c, r) PROVE IInv'
<1>1. PICK o \in Call : o = call[c]
  BY Reading DEF SkipMember
<1>2. PICK p : p = [call[c].progress[r] EXCEPT !.next = @ + 1]
  OBVIOUS
<1>3. /\ p \in [counted : BOOLEAN, count : 0..MaxEvents, next : 0..MaxEvents]
      /\ p.next <= p.count
  BY <1>2, NextIndex DEF SkipMember
<1>4. [o EXCEPT !.progress[r].next = @ + 1] = [o EXCEPT !.progress[r] = p]
  BY <1>1, <1>2 DEF Call
<1>5. Goes(c, [call[c] EXCEPT !.progress[r] = p])
  BY <1>1, <1>4, Zenon DEF SkipMember
<1> QED BY <1>3, <1>5, CountsOn DEF SkipMember

LEMMA ReadMemberStep ==
    ASSUME IInv, NEW c \in Calls, NEW r \in Roles, ReadMember(c, r) PROVE IInv'
<1>1. PICK o \in Call : o = call[c] /\ o.since \in 0..Len(log)
  BY Reading DEF ReadMember, IInv, TypeOK
<1>2. PICK p : p = [call[c].progress[r] EXCEPT !.next = @ + 1]
  OBVIOUS
<1>3. /\ p \in [counted : BOOLEAN, count : 0..MaxEvents, next : 0..MaxEvents]
      /\ p.next <= p.count
  BY <1>2, NextIndex DEF ReadMember
<1>4. PICK m \in Seq(Accounts) : m = MembersAfter(r, Len(log)) /\ m = Members(log, r, Len(log))
  BY MembersNow
<1>5. PICK i \in DOMAIN m : i = Index(c, r)
  BY <1>4 DEF ReadMember
<1>6. PICK held : held = o.members[r] \cup {m[i]}
  OBVIOUS
<1>7. o.members[r] \in SUBSET Accounts
  BY <1>1, Reading DEF ReadMember
<1>8. held \in SUBSET Accounts
  BY <1>6, <1>7
<1>9. Held(log, r, m[i], o.since)
  <2>1. Len(log) \in o.since .. Len(log)
    BY <1>1
  <2> QED BY <2>1, <1>4, Zenon DEF Held
<1>10. \A a \in held : a \in call[c].members[r] \/ Held(log, r, a, call[c].since)
  BY <1>1, <1>6, <1>9
<1>11. [o EXCEPT !.progress[r].next = @ + 1, !.members[r] = @ \cup {m[i]}]
         = [o EXCEPT !.progress[r] = p, !.members[r] = held]
  BY <1>1, <1>2, <1>6 DEF Call
<1>12. Goes(c, [o EXCEPT !.progress[r].next = @ + 1, !.members[r] = @ \cup {m[i]}])
  BY <1>1, <1>4, <1>5, Zenon DEF ReadMember
<1>13. Goes(c, [call[c] EXCEPT !.progress[r] = p, !.members[r] = held])
  BY <1>1, <1>11, <1>12, Zenon
<1> QED BY <1>3, <1>8, <1>10, <1>13, ReadsOn DEF ReadMember

LEMMA AllReadStep == ASSUME IInv, NEW c \in Calls, AllRead(c) PROVE IInv'
<1>1. PICK o \in Call : o = call[c] /\ Under(log, Len(contexts), o)
  BY InFlight DEF AllRead
<1>2. PICK k \in Call : k = HasRoles(o) /\ Fits(log, Len(contexts), k)
  BY <1>1, StateHere, HasRolesFits
<1>3. Goes(c, k)
  BY <1>1, <1>2, Zenon DEF AllRead
<1>4. StateOK'
  BY StateHere DEF AllRead, StateOK
<1> QED BY <1>2, <1>3, <1>4, GoesOn DEF AllRead

LEMMA FilledType ==
    ASSUME IInv, NEW k \in Call PROVE Filled(k) \in [Roles -> SUBSET Accounts]
<1>1. ASSUME NEW r \in Roles PROVE Holders(r, indexed) \in SUBSET Accounts
  <2>1. indexed \in 0 .. Len(log)
    BY DEF IInv, TypeOK
  <2>2. MembersAfter(r, indexed) \in Seq(Accounts)
    BY <2>1, MembersIs DEF IInv, Enumerated, EveryPrefixLists, Lists
  <2> QED BY <2>2 DEF Holders
<1>2. \A r \in Roles : k.members[r] \in SUBSET Accounts
  BY DEF Call
<1> QED BY <1>1, <1>2 DEF Filled, LatestGrants

LEMMA PopulatedStep == ASSUME IInv, NEW c \in Calls, Populated(c) PROVE IInv'
<1>1. PICK o \in Call : /\ o = call[c] /\ o.pc = "asking" /\ o.purpose = "populate"
                        /\ Fits(log, Len(contexts), o) /\ Under(log, Len(contexts), o)
  BY InFlight DEF Populated
<1>2. PICK members \in [Roles -> SUBSET Accounts] : members = Filled(o)
  BY FilledType
<1>3. PICK p : p = [o EXCEPT !.members = members]
  OBVIOUS
<1>4. p \in Call
  BY <1>3 DEF Call
<1>5. /\ p.ctx = o.ctx /\ p.progress = o.progress /\ p.since = o.since /\ p.listed = o.listed
      /\ p.op = o.op
  BY <1>3 DEF Call
<1>6. ~(p.op = "roles" /\ p.listed)
  BY <1>1, <1>5 DEF Fits, AtIndexer
<1>7. Under(log, Len(contexts), p)
  BY <1>1, <1>5, <1>6 DEF Under, Sound
<1>8. PICK k \in Call : k = HasRoles(p) /\ Fits(log, Len(contexts), k)
  BY <1>4, <1>7, StateHere, HasRolesFits
<1>9. Goes(c, k)
  BY <1>1, <1>2, <1>3, <1>8, Zenon DEF Populated
<1>10. StateOK'
  BY StateHere DEF Populated, StateOK
<1> QED BY <1>8, <1>9, <1>10, GoesOn DEF Populated

LEMMA EnrichedStep == ASSUME IInv, NEW c \in Calls, Enriched(c) PROVE IInv'
<1>1. PICK o \in Call : /\ o = call[c] /\ o.pc = "asking" /\ o.purpose = "enrich"
                        /\ Fits(log, Len(contexts), o) /\ Under(log, Len(contexts), o)
  BY InFlight DEF Enriched
<1>2. PICK members \in [Roles -> SUBSET Accounts] : members = Filled(o)
  BY FilledType
<1>3. PICK p : p = [o EXCEPT !.members = members]
  OBVIOUS
<1>4. p \in Call
  BY <1>3 DEF Call
<1>5. /\ p.since = o.since /\ p.listed = o.listed /\ p.op = o.op
  BY <1>3 DEF Call
<1>6. ~(p.op = "roles" /\ p.listed)
  BY <1>1, <1>5 DEF Fits, AtIndexer
<1>7. Sound(log, p) /\ p.since <= Len(log)
  BY <1>1, <1>5, <1>6 DEF Under, Sound
<1>8. PICK k \in Call : k = Answered(p) /\ Fits(log, Len(contexts), k)
  BY <1>4, <1>7, AnsweredFits
<1>9. Goes(c, k)
  BY <1>1, <1>2, <1>3, <1>8, Zenon DEF Enriched
<1>10. StateOK'
  BY StateHere DEF Enriched, StateOK
<1> QED BY <1>8, <1>9, <1>10, GoesOn DEF Enriched

LEMMA QueryFailsStep == ASSUME IInv, NEW c \in Calls, QueryFails(c) PROVE IInv'
<1>1. PICK o \in Call : o = call[c] /\ o.pc = "asking" /\ Fits(log, Len(contexts), o)
  BY InFlight DEF QueryFails
<1>2. PICK k : k = [o EXCEPT !.pc = "refused"]
  OBVIOUS
<1>3. k \in Call
  BY <1>2 DEF Call, Pcs
<1>4. /\ k.pc = "refused" /\ k.ctx = o.ctx /\ k.progress = o.progress /\ k.since = o.since
      /\ k.members = o.members /\ k.listed = o.listed /\ k.op = o.op
      /\ k.purpose = o.purpose
  BY <1>2 DEF Call
<1>5. Fits(log, Len(contexts), k)
  BY <1>1, <1>4 DEF Fits, Early, AtIndexer, Sound
<1>6. StateOK'
  BY StateHere DEF QueryFails, StateOK
<1> QED BY <1>1, <1>2, <1>3, <1>5, <1>6, GoesOn DEF QueryFails

LEMMA WithoutIndexerStep == ASSUME IInv, NEW c \in Calls, WithoutIndexer(c) PROVE IInv'
<1>1. PICK o \in Call : /\ o = call[c] /\ o.pc = "refused"
                        /\ Fits(log, Len(contexts), o) /\ Under(log, Len(contexts), o)
  BY InFlight DEF WithoutIndexer
<1>2. PICK ids \in SUBSET Roles : ids = Merged(contexts[o.ctx])
  BY <1>1, InFlight
<1>3. StateOK' /\ UNCHANGED <<log, contexts>>
  BY StateHere DEF WithoutIndexer, StateOK
<1>4. CASE o.purpose = "discover"
  <2>1. o.members = Nobody
    BY <1>1, <1>4 DEF Fits, Early, AtIndexer
  <2>2. PICK k \in Call : k = HasRoleIds(o, ids) /\ Fits(log, Len(contexts), k)
    BY <1>1, <2>1, StateHere, HasRoleIdsFits
  <2>3. Goes(c, k)
    BY <1>1, <1>2, <1>4, <2>2 DEF WithoutIndexer
  <2> QED BY <1>3, <2>2, <2>3, GoesOn
<1>5. CASE o.purpose = "populate"
  <2>1. PICK k \in Call : k = HasRoles(o) /\ Fits(log, Len(contexts), k)
    BY <1>1, StateHere, HasRolesFits
  <2>2. Goes(c, k)
    BY <1>1, <1>5, <2>1 DEF WithoutIndexer
  <2> QED BY <1>3, <2>1, <2>2, GoesOn
<1>6. CASE o.purpose = "enrich"
  <2>1. PICK k \in Call : k = Answered(o) /\ Fits(log, Len(contexts), k)
    BY <1>1, AnsweredFits DEF Under
  <2>2. Goes(c, k)
    BY <1>1, <1>6, <2>1 DEF WithoutIndexer
  <2> QED BY <1>3, <2>1, <2>2, GoesOn
<1> QED BY <1>4, <1>5, <1>6 DEF Call

LEMMA NextHolds == ASSUME IInv, [Next]_vars PROVE IInv'
<1>1. ASSUME NEW r \in Roles, NEW a \in Accounts, Emit(r, a) PROVE IInv'
  BY <1>1, EmitStep
<1>2. CASE CatchUp
  BY <1>2, CatchUpStep
<1>3. ASSUME NEW ids \in SUBSET Given, NEW e \in BOOLEAN, RegisterContract(ids, e) PROVE IInv'
  BY <1>3, RegisterContractStep
<1>4. ASSUME NEW ids \in SUBSET Given, NEW labelled, NEW valid \in BOOLEAN,
             AddKnownRoleIds(ids, labelled, valid)
      PROVE  IInv'
  BY <1>4, AddKnownRoleIdsStep
<1>5. CASE Dispose
  BY <1>5, DisposeStep
<1>6. ASSUME NEW c \in Calls, NEW op \in Methods[c] PROVE op \in Reads
  BY BoundsAssumption
<1>7. ASSUME NEW c \in Calls, NEW op \in Methods[c] \ {"discover"}, StartRoles(c, op) PROVE IInv'
  BY <1>6, <1>7, StartRolesStep
<1>8. ASSUME NEW c \in Calls, NEW op \in Methods[c], StartUnregistered(c, op) PROVE IInv'
  BY <1>6, <1>8, StartUnregisteredStep
<1>9. ASSUME NEW c \in Calls, DiscoverKnownRoleIds(c) PROVE IInv'
  BY <1>9, DiscoverKnownRoleIdsStep
<1>10. ASSUME NEW c \in Calls, Progress(c) PROVE IInv'
  <2>1. ASSUME NEW found \in SUBSET Named, AbiAnswers(c, found) PROVE IInv'
    BY <2>1, AbiAnswersStep
  <2>2. ASSUME NEW up \in BOOLEAN, HealthAnswers(c, up) PROVE IInv'
    BY <2>2, HealthAnswersStep
  <2>3. ASSUME NEW r \in Roles, CountMembers(c, r) PROVE IInv'
    BY <2>3, CountMembersStep
  <2>4. ASSUME NEW r \in Roles, CountFails(c, r) PROVE IInv'
    BY <2>4, CountFailsStep
  <2>5. ASSUME NEW r \in Roles, ReadMember(c, r) PROVE IInv'
    BY <2>5, ReadMemberStep
  <2>6. ASSUME NEW r \in Roles, SkipMember(c, r) PROVE IInv'
    BY <2>6, SkipMemberStep
  <2> QED BY <1>10, <2>1, <2>2, <2>3, <2>4, <2>5, <2>6, AbiFailsStep, CapabilitiesStep,
             DiscoveredStep, AllReadStep, PopulatedStep, EnrichedStep, QueryFailsStep,
             WithoutIndexerStep, Zenon DEF Progress
<1>11. CASE UNCHANGED vars
  BY <1>11, Zenon DEF vars, IInv, TypeOK, Enumerated, AllFit
<1> QED BY <1>1, <1>2, <1>3, <1>4, <1>5, <1>7, <1>8, <1>9, <1>10, <1>11, Zenon DEF Next

-----------------------------------------------------------------------------
(* The theorems *)

(* IInv holds in every state the service, the chain and the indexer reach. *)
THEOREM Invariance == Spec => []IInv
<1>1. Init => IInv
  BY InitHolds
<1>2. IInv /\ [Next]_vars => IInv'
  BY NextHolds
<1> QED BY <1>1, <1>2, PTL DEF Spec

(* Every variable keeps its type: the members a call collects are accounts,
   the grants those of the log (service.ts:1155, 1280).                     *)
THEOREM TypeCorrect == Spec => []TypeOK
<1>1. IInv => TypeOK
  BY DEF IInv
<1> QED BY <1>1, Invariance, PTL

(* Whoever getCurrentRoles lists for an enumerable contract held the role at
   some moment of the reading, although the count and each member are read by
   a request of their own (onchain-reader.ts, enumerateRoleMembers).          *)
THEOREM ListedMembersHeld == Spec => []MembersHeldDuringCall
<1>1. ASSUME IInv PROVE MembersHeldDuringCall
  <2>1. SUFFICES ASSUME NEW c \in Calls, Done(c, "roles"), call[c].listed,
                        NEW r \in call[c].ids, NEW a \in call[c].members[r]
                 PROVE  \E n \in call[c].since .. Len(log) : a \in Holders(r, n)
    BY DEF MembersHeldDuringCall
  <2>2. r \in Roles
    BY <1>1 DEF IInv, TypeOK, Call
  <2>3. Held(log, r, a, call[c].since)
    BY <1>1, <2>1, <2>2 DEF IInv, AllFit, Fits, Sound, Done
  <2>4. PICK n \in call[c].since .. Len(log) :
          \E i \in DOMAIN Members(log, r, n) : Members(log, r, n)[i] = a
    BY <2>3 DEF Held
  <2>5. a \in Holders(r, n)
    BY <2>4, MembersIs, Zenon DEF Holders
  <2> QED BY <2>5
<1> QED BY <1>1, Invariance, PTL

-----------------------------------------------------------------------------
(* Labels *)

KeepsGiven ==
    \A i \in DOMAIN contexts, r \in Named :
        contexts[i].label[r] = "given" => contexts'[i].label[r] = "given"

LosesNone(old, new) ==
    \A r \in Named : old.label[r] = "given" => new.label[r] = "given"

(* A context that is changed without a given label being lost, keeps all.   *)
LEMMA ChangeKeeps ==
    ASSUME IInv, NEW i \in DOMAIN contexts, NEW ctx,
           contexts' = [contexts EXCEPT ![i] = ctx],
           LosesNone(contexts[i], ctx)
    PROVE  KeepsGiven
<1>1. contexts \in Seq(Context)
  BY DEF IInv, TypeOK
<1>2. \A j \in DOMAIN contexts : contexts'[j] = IF j = i THEN ctx ELSE contexts[j]
  BY <1>1
<1> QED BY <1>2 DEF KeepsGiven, LosesNone

LEMMA SameContextsKeep == ASSUME UNCHANGED contexts PROVE KeepsGiven
BY DEF KeepsGiven

LEMMA RegisterKeeps ==
    ASSUME IInv, NEW ids, NEW e, RegisterContract(ids, e) PROVE KeepsGiven
<1>1. PICK ctx : contexts' = Append(contexts, ctx)
  BY DEF RegisterContract
<1>2. contexts \in Seq(Context)
  BY DEF IInv, TypeOK
<1>3. \A j \in DOMAIN contexts : contexts'[j] = contexts[j]
  BY <1>1, <1>2
<1> QED BY <1>3 DEF KeepsGiven

LEMMA AddKeeps ==
    ASSUME IInv, NEW ids, NEW labelled, NEW valid, AddKnownRoleIds(ids, labelled, valid)
    PROVE  KeepsGiven
<1>1. current \in DOMAIN contexts /\ contexts \in Seq(Context)
  BY DEF AddKnownRoleIds, IInv, TypeOK
<1>2. PICK old \in Context : old = contexts[current]
  BY <1>1
<1>3. PICK label : label = [r \in Named |-> IF r \in labelled THEN "given" ELSE old.label[r]]
  OBVIOUS
<1>4. PICK known : known = IF valid THEN old.known \cup ids ELSE old.known
  OBVIOUS
<1>5. PICK ctx : ctx = [old EXCEPT !.known = known, !.label = label]
  OBVIOUS
<1>6. contexts' = [contexts EXCEPT ![current] = ctx]
  BY <1>1, <1>2, <1>3, <1>4, <1>5 DEF AddKnownRoleIds
<1>7. ctx.label = label
  BY <1>5 DEF Context
<1>8. \A r \in Named : old.label[r] = "given" => ctx.label[r] = "given"
  BY <1>3, <1>7
<1>9. LosesNone(contexts[current], ctx)
  BY <1>2, <1>8 DEF LosesNone
<1>10. PICK i \in DOMAIN contexts : i = current
  BY <1>1
<1> QED BY <1>6, <1>9, <1>10, ChangeKeeps

LEMMA AbiKeeps ==
    ASSUME IInv, NEW c \in Calls, NEW found, AbiAnswers(c, found) PROVE KeepsGiven
<1>1. PICK i \in DOMAIN contexts : i = call[c].ctx /\ contexts[i] \in Context
  BY InFlight DEF AbiAnswers
<1>2. PICK old \in Context : old = contexts[i]
  BY <1>1
<1>3. PICK label :
        label = [r \in Named |-> IF r \in found /\ old.label[r] = "none" THEN "abi" ELSE old.label[r]]
  OBVIOUS
<1>4. PICK ctx : ctx = [old EXCEPT !.abiDone = TRUE, !.label = label]
  OBVIOUS
<1>5. contexts' = [contexts EXCEPT ![i] = ctx]
  <2>1. contexts \in Seq(Context)
    BY DEF IInv, TypeOK
  <2> QED BY <2>1, <1>1, <1>2, <1>3, <1>4 DEF AbiAnswers
<1>6. ctx.label = label
  BY <1>4 DEF Context
<1>7. \A r \in Named : old.label[r] = "given" => ctx.label[r] = "given"
  BY <1>3, <1>6
<1>8. LosesNone(contexts[i], ctx)
  BY <1>2, <1>7 DEF LosesNone
<1> QED BY <1>5, <1>8, ChangeKeeps

LEMMA AbiFailsKeeps == ASSUME IInv, NEW c \in Calls, AbiFails(c) PROVE KeepsGiven
<1>1. PICK i \in DOMAIN contexts : i = call[c].ctx /\ contexts[i] \in Context
  BY InFlight DEF AbiFails
<1>2. PICK ctx : ctx = [contexts[i] EXCEPT !.abiDone = TRUE]
  OBVIOUS
<1>3. contexts' = [contexts EXCEPT ![i] = ctx]
  <2>1. contexts \in Seq(Context)
    BY DEF IInv, TypeOK
  <2> QED BY <2>1, <1>1, <1>2 DEF AbiFails
<1>4. ctx.label = contexts[i].label
  BY <1>1, <1>2 DEF Context
<1>5. LosesNone(contexts[i], ctx)
  BY <1>4 DEF LosesNone
<1> QED BY <1>3, <1>5, ChangeKeeps

LEMMA DiscoverKeeps ==
    ASSUME IInv, NEW c, NEW k, k.ctx \in DOMAIN contexts, Discover(c, k) PROVE KeepsGiven
<1>1. CASE UNCHANGED contexts
  BY <1>1, SameContextsKeep
<1>2. CASE contexts' = [contexts EXCEPT ![k.ctx].attempted = TRUE]
  <2>1. PICK i \in DOMAIN contexts : i = k.ctx
    OBVIOUS
  <2>2. contexts \in Seq(Context) /\ contexts[i] \in Context
    BY DEF IInv, TypeOK
  <2>3. PICK ctx : ctx = [contexts[i] EXCEPT !.attempted = TRUE]
    OBVIOUS
  <2>4. contexts' = [contexts EXCEPT ![i] = ctx]
    BY <1>2, <2>1, <2>2, <2>3
  <2>5. ctx.label = contexts[i].label
    BY <2>2, <2>3 DEF Context
  <2>6. LosesNone(contexts[i], ctx)
    BY <2>5 DEF LosesNone
  <2> QED BY <2>4, <2>6, ChangeKeeps
<1> QED BY <1>1, <1>2, Zenon DEF Discover

LEMMA DiscoverKnownKeeps == ASSUME IInv, NEW c \in Calls, DiscoverKnownRoleIds(c) PROVE KeepsGiven
<1>1. PICK f : f = Fresh("discover") /\ f.ctx = current
  BY StateHere, FreshFits DEF Reads
<1>2. current \in DOMAIN contexts
  BY DEF DiscoverKnownRoleIds, IInv, TypeOK
<1> QED BY <1>1, <1>2, DiscoverKeeps DEF DiscoverKnownRoleIds

LEMMA CapabilitiesKeep == ASSUME IInv, NEW c \in Calls, Capabilities(c) PROVE KeepsGiven
<1>1. PICK o \in Call : o = call[c] /\ o.ctx \in DOMAIN contexts
  BY InFlight DEF Capabilities
<1>2. PICK k : k = [o EXCEPT !.listed = (current # 0 /\ contexts[current].enumerable)]
  OBVIOUS
<1>3. k.ctx = o.ctx
  BY <1>2 DEF Call
<1>4. CASE UNCHANGED contexts
  BY <1>4, SameContextsKeep
<1>5. CASE Discover(c, k)
  BY <1>1, <1>3, <1>5, DiscoverKeeps
<1> QED BY <1>1, <1>2, <1>4, <1>5, Zenon DEF Capabilities

LEMMA DiscoveredKeeps == ASSUME IInv, NEW c \in Calls, Discovered(c) PROVE KeepsGiven
<1>1. PICK i \in DOMAIN contexts : i = call[c].ctx /\ contexts[i] \in Context
  BY InFlight DEF Discovered
<1>2. PICK discovered : discovered = IF RecentRoles = {} THEN contexts[i].discovered ELSE RecentRoles
  OBVIOUS
<1>3. PICK ctx : ctx = [contexts[i] EXCEPT !.discovered = discovered]
  OBVIOUS
<1>4. ctx = [contexts[call[c].ctx] EXCEPT !.discovered = IF RecentRoles = {} THEN @ ELSE RecentRoles]
  BY <1>1, <1>2, <1>3
<1>5. contexts' = [contexts EXCEPT ![i] = ctx]
  BY <1>1, <1>4, Zenon DEF Discovered
<1>6. ctx.label = contexts[i].label
  BY <1>1, <1>3 DEF Context
<1>7. LosesNone(contexts[i], ctx)
  BY <1>6 DEF LosesNone
<1> QED BY <1>5, <1>7, ChangeKeeps

(* A label the caller gave is never replaced by a name read from the contract
   (service.ts:221).                                                         *)
THEOREM GivenLabelsStay == Spec => ExternalLabelWins
<1> DEFINE Keeps == \A i \in DOMAIN contexts, r \in Named :
                        contexts[i].label[r] = "given" => contexts'[i].label[r] = "given"
<1>1. ASSUME IInv, Next PROVE KeepsGiven
  <2>1. ASSUME NEW ids, NEW e, RegisterContract(ids, e) PROVE KeepsGiven
    BY <1>1, <2>1, RegisterKeeps
  <2>2. ASSUME NEW ids, NEW labelled, NEW valid, AddKnownRoleIds(ids, labelled, valid)
        PROVE  KeepsGiven
    BY <1>1, <2>2, AddKeeps
  <2>3. ASSUME NEW c \in Calls, DiscoverKnownRoleIds(c) PROVE KeepsGiven
    BY <1>1, <2>3, DiscoverKnownKeeps
  <2>4. ASSUME NEW c \in Calls, Progress(c) PROVE KeepsGiven
    <3>1. ASSUME NEW found, AbiAnswers(c, found) PROVE KeepsGiven
      BY <1>1, <3>1, AbiKeeps
    <3>2. \/ \E found : AbiAnswers(c, found)
          \/ AbiFails(c) \/ Capabilities(c) \/ Discovered(c)
          \/ UNCHANGED contexts
      BY <2>4, Zenon DEF Progress, HealthAnswers, CountMembers, CountFails, ReadMember, SkipMember,
                AllRead, Populated, Enriched, QueryFails, WithoutIndexer
    <3> QED BY <1>1, <3>1, <3>2, AbiFailsKeeps, CapabilitiesKeep, DiscoveredKeeps, SameContextsKeep,
               Zenon
  <2>5. \/ \E ids, e : RegisterContract(ids, e)
        \/ \E ids, labelled, valid : AddKnownRoleIds(ids, labelled, valid)
        \/ \E c \in Calls : DiscoverKnownRoleIds(c)
        \/ \E c \in Calls : Progress(c)
        \/ UNCHANGED contexts
    BY <1>1, Zenon DEF Next, Emit, CatchUp, Dispose, StartRoles, StartUnregistered
  <2> QED BY <2>1, <2>2, <2>3, <2>4, <2>5, SameContextsKeep, Zenon
<1>2. IInv /\ [Next]_vars => [Keeps]_vars
  BY <1>1 DEF KeepsGiven
<1> QED BY <1>2, Invariance, PTL DEF Spec, ExternalLabelWins

=============================================================================
