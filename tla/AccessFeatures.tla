---------------------------- MODULE AccessFeatures ----------------------------
(***************************************************************************)
(* What the access-control services take a registered contract for:        *)
(* feature detection from the functions of its schema                       *)
(* (feature-detection.ts of adapter-evm-core and adapter-stellar), the       *)
(* role ids a registration may name (validation.ts), the capabilities that  *)
(* are told and cached, and the guards that keep calls from contracts that  *)
(* do not have the function.  One contract address.                         *)
(***************************************************************************)
EXTENDS Naturals, Sequences, FiniteSets

VARIABLES
    adapter,            \* "evm" or "stellar"
    endpoint,           \* whether an indexer is configured (EVM) or answers (Stellar)
    context,            \* the registered contract, or None
    asking,             \* the contracts of getCapabilities calls of Stellar under way
    told,               \* the capabilities told last, and of which contract, or None
    called              \* the function called last, and on which contract, or None

vars == <<adapter, endpoint, context, asking, told, called>>

None == [none |-> TRUE]

-----------------------------------------------------------------------------
(* Contracts.  A schema has functions by name; a misfit has the name of a    *)
(* known function and other parameters.                                     *)

OWNABLE_SIGNATURES == {"owner", "transferOwnership"}
OWNABLE_TWO_STEP_SIGNATURES == {"pendingOwner", "acceptOwnership"}
ACCESS_CONTROL_SIGNATURES == {"hasRole", "grantRole", "revokeRole", "getRoleAdmin"}
ENUMERABLE_SIGNATURES == {"getRoleMemberCount", "getRoleMember"}
DEFAULT_ADMIN_RULES_SIGNATURES ==
    {"defaultAdmin", "pendingDefaultAdmin", "beginDefaultAdminTransfer",
     "acceptDefaultAdminTransfer", "cancelDefaultAdminTransfer"}
ADMIN_DELAY_CHANGE_SIGNATURES == {"changeDefaultAdminDelay", "rollbackDefaultAdminDelay"}

OwnableRequired == {"get_owner"}
OwnableOptional == {"transfer_ownership", "accept_ownership", "renounce_ownership"}
AccessControlRequired == {"has_role", "grant_role", "revoke_role"}
AccessControlOptional ==
    {"get_role_admin", "set_role_admin", "get_admin", "transfer_admin_role",
     "accept_admin_transfer", "renounce_admin", "renounce_role"}
ENUMERATION_FUNCTIONS == {"get_role_member_count", "get_role_member"}

\* The functions of OpenZeppelin's contracts (external).
Extensions == {"ownable", "twoStep", "accessControl", "enumerable", "adminRules"}
FunctionsOf(a, extension) ==
    CASE a = "evm" /\ extension = "ownable" -> OWNABLE_SIGNATURES \cup {"renounceOwnership"}
      [] a = "evm" /\ extension = "twoStep" -> OWNABLE_TWO_STEP_SIGNATURES
      [] a = "evm" /\ extension = "accessControl" -> ACCESS_CONTROL_SIGNATURES \cup {"renounceRole"}
      [] a = "evm" /\ extension = "enumerable" -> ENUMERABLE_SIGNATURES
      [] a = "evm" /\ extension = "adminRules" ->
            DEFAULT_ADMIN_RULES_SIGNATURES \cup ADMIN_DELAY_CHANGE_SIGNATURES
      [] a = "stellar" /\ extension = "ownable" -> OwnableRequired \cup OwnableOptional
      [] a = "stellar" /\ extension = "accessControl" ->
            AccessControlRequired \cup AccessControlOptional \cup ENUMERATION_FUNCTIONS
      [] OTHER -> {}

\* The sets of extensions that a contract may have.
Implementable(a) ==
    {X \in SUBSET Extensions :
        /\ "twoStep" \in X => "ownable" \in X
        /\ X \cap {"enumerable", "adminRules"} # {} => "accessControl" \in X
        /\ \A x \in X : FunctionsOf(a, x) # {}}

All(a, X) == UNION {FunctionsOf(a, x) : x \in X}

\* Contracts with all functions of their extensions, and those that lack one or have one
\* with other parameters.
Whole(a) == {[extensions |-> X, functions |-> All(a, X), misfits |-> {}] : X \in Implementable(a)}
ContractsOf(a) ==
    LET Lacking(c, f) == {[c EXCEPT !.functions = @ \ {f}, !.misfits = misfits] : misfits \in {{}, {f}}}
    IN Whole(a) \cup UNION {UNION {Lacking(c, f) : f \in c.functions} : c \in Whole(a)}

-----------------------------------------------------------------------------
(* detectAccessControlCapabilities.                                         *)

\* hasFunction and hasAllFunctions: by name and parameters; on Stellar by name.
Has(contract) == contract.functions \cup IF adapter = "stellar" THEN contract.misfits ELSE {}
HasAll(contract, names) == names \subseteq Has(contract)

DetectEvm(contract, indexer) ==
    LET ownable == HasAll(contract, OWNABLE_SIGNATURES)
        accessControl == HasAll(contract, ACCESS_CONTROL_SIGNATURES)
        twoStepAdmin == accessControl /\ HasAll(contract, DEFAULT_ADMIN_RULES_SIGNATURES)
    IN [ownable |-> ownable,
        twoStepOwnable |-> ownable /\ HasAll(contract, OWNABLE_TWO_STEP_SIGNATURES),
        accessControl |-> accessControl,
        enumerable |-> accessControl /\ HasAll(contract, ENUMERABLE_SIGNATURES),
        twoStepAdmin |-> twoStepAdmin,
        renounceOwnership |-> ownable /\ HasAll(contract, {"renounceOwnership"}),
        renounceRole |-> accessControl /\ HasAll(contract, {"renounceRole"}),
        cancelAdmin |-> twoStepAdmin /\ HasAll(contract, {"cancelDefaultAdminTransfer"}),
        adminDelay |-> twoStepAdmin /\ HasAll(contract, ADMIN_DELAY_CHANGE_SIGNATURES),
        history |-> indexer, verified |-> ownable \/ accessControl]

\* verifyOZInterface: how many of the optional functions there must be.
VerifyOZInterface(contract, ownable, accessControl, twoStepOwnable, twoStepAdmin) ==
    LET Count(names) == Cardinality(names \cap Has(contract))
    IN /\ ownable \/ accessControl
       /\ ownable => Count(OwnableOptional) >= IF twoStepOwnable THEN 3 ELSE 2
       /\ accessControl => Count(AccessControlOptional) >= IF twoStepAdmin THEN 5 ELSE 4

DetectStellar(contract, indexer) ==
    LET ownable == HasAll(contract, OwnableRequired)
        twoStepOwnable == ownable /\ HasAll(contract, {"accept_ownership"})
        accessControl == HasAll(contract, AccessControlRequired)
        twoStepAdmin == accessControl /\ HasAll(contract, {"accept_admin_transfer"})
    IN [ownable |-> ownable, twoStepOwnable |-> twoStepOwnable, accessControl |-> accessControl,
        enumerable |-> HasAll(contract, ENUMERATION_FUNCTIONS), twoStepAdmin |-> twoStepAdmin,
        renounceOwnership |-> ownable /\ HasAll(contract, {"renounce_ownership"}),
        renounceRole |-> FALSE, cancelAdmin |-> FALSE, adminDelay |-> FALSE, history |-> indexer,
        verified |-> VerifyOZInterface(contract, ownable, accessControl, twoStepOwnable, twoStepAdmin)]

Detect(contract, indexer) ==
    IF adapter = "evm" THEN DetectEvm(contract, indexer) ELSE DetectStellar(contract, indexer)

-----------------------------------------------------------------------------
(* Role ids.  A spelling is of a role, with blanks around it or not, in lower *)
(* case or not; or it is not one of a role at all.                          *)

Spellings == [role : {"r1", "r2"}, blanks : BOOLEAN, lower : BOOLEAN]
Bad == [role |-> "bad", blanks |-> FALSE, lower |-> TRUE]

\* validateRoleId, as validateRoleIds stores it: trimmed, and in lower case on the EVM,
\* where case means nothing.
RoleId(spelling) ==
    [spelling EXCEPT !.blanks = FALSE, !.lower = IF adapter = "evm" THEN TRUE ELSE @]
ValidRoleIds(ids) == Bad \notin ids

-----------------------------------------------------------------------------
(* The services.                                                            *)

\* The mutant of RegisterContract: the capabilities told before are kept.
RegisterKeeping(contract, ids) ==
    /\ context' = IF context = None
                  THEN [contract |-> contract, known |-> {}, capabilities |-> None, again |-> FALSE]
                  ELSE [context EXCEPT !.contract = contract, !.again = TRUE]
    /\ UNCHANGED <<adapter, endpoint, asking, told, called>>

\* registerContract: nothing of an earlier registration is left.
RegisterContract(contract, ids) ==
    /\ IF ValidRoleIds(ids)
       THEN context' = [contract |-> contract, known |-> {RoleId(s) : s \in ids},
                        capabilities |-> None, again |-> context # None]
       ELSE UNCHANGED context
    /\ UNCHANGED <<adapter, endpoint, asking, told, called>>

\* getCapabilities of the EVM service: cached in the context.
Capabilities ==
    IF context.capabilities # None THEN context.capabilities ELSE Detect(context.contract, endpoint)

GetCapabilities ==
    /\ adapter = "evm" /\ context # None
    /\ told' = [of |-> context.contract, flags |-> Capabilities]
    /\ context' = [context EXCEPT !.capabilities = Capabilities]
    /\ UNCHANGED <<adapter, endpoint, asking, called>>

\* getCapabilities of the Stellar service: the contract is looked up before the indexer
\* is asked, and nothing is cached.
AskCapabilities ==
    /\ adapter = "stellar" /\ context # None
    /\ asking' = asking \cup {context.contract}
    /\ UNCHANGED <<adapter, endpoint, context, told, called>>

CapabilitiesAnswered(contract) ==
    /\ contract \in asking
    /\ told' = [of |-> contract, flags |-> Detect(contract, endpoint)]
    /\ asking' = asking \ {contract}
    /\ UNCHANGED <<adapter, endpoint, context, called>>

CallsOperation(function) ==
    /\ called' = [function |-> function, on |-> IF context = None THEN None ELSE context.contract]
    /\ UNCHANGED <<adapter, endpoint, asking, told>>

\* ensureHasTwoStepAdmin and the operations behind it, as they are assembled.
AdminOperation(function) ==
    /\ adapter = "evm" /\ context # None
    /\ Capabilities.twoStepAdmin
    /\ context' = [context EXCEPT !.capabilities = Capabilities]
    /\ CallsOperation(function)
AdminOperations ==
    {"beginDefaultAdminTransfer", "acceptDefaultAdminTransfer", "cancelDefaultAdminTransfer",
     "changeDefaultAdminDelay", "rollbackDefaultAdminDelay"}

\* The reads of the EVM service: getOwnership, getAdminInfo and getCurrentRoles.
EvmRead(flag, function) ==
    /\ adapter = "evm" /\ context # None
    /\ Capabilities[flag]
    /\ context' = [context EXCEPT !.capabilities = Capabilities]
    /\ CallsOperation(function)
EvmReads == {<<"ownable", "owner">>, <<"twoStepAdmin", "defaultAdmin">>,
             <<"twoStepAdmin", "pendingDefaultAdmin">>, <<"enumerable", "getRoleMemberCount">>,
             <<"enumerable", "getRoleMember">>}

\* The reads of the Stellar service: only a registered contract is looked at first.
StellarRead(flag, function) ==
    /\ adapter = "stellar"
    /\ context # None => Detect(context.contract, FALSE)[flag]
    /\ CallsOperation(function)
    /\ UNCHANGED context
StellarReads == {<<"ownable", "get_owner">>, <<"twoStepAdmin", "get_admin">>}

\* exportSnapshot: what is refused or fails is left out.
EvmSnapshot == EvmRead("ownable", "owner")
StellarSnapshot == StellarRead("ownable", "get_owner")

Init ==
    /\ adapter \in {"evm", "stellar"} /\ endpoint \in BOOLEAN
    /\ context = None /\ asking = {} /\ told = None /\ called = None

\* Registrations: role ids are named with one contract, and registered again is only a
\* contract with all its functions, in the place of such a one.
Everything(a) == [extensions |-> Extensions, functions |-> All(a, Extensions), misfits |-> {}]
IdChoices == {ids \in SUBSET (Spellings \cup {Bad}) : Cardinality(ids) <= 2}

Register ==
    \/ context = None /\ \E c \in ContractsOf(adapter) : RegisterContract(c, {})
    \/ context = None /\ \E ids \in IdChoices : RegisterContract(Everything(adapter), ids)
    \/ /\ context # None
       /\ ~context.again /\ context.contract \in Whole(adapter)
       /\ \E c \in Whole(adapter) \ {context.contract} : RegisterContract(c, {})

Next ==
    \/ Register
    \/ GetCapabilities
    \/ AskCapabilities
    \/ \E contract \in asking : CapabilitiesAnswered(contract)
    \/ \E f \in AdminOperations : AdminOperation(f)
    \/ \E r \in EvmReads : EvmRead(r[1], r[2])
    \/ \E r \in StellarReads : StellarRead(r[1], r[2])
    \/ EvmSnapshot
    \/ StellarSnapshot

Spec == Init /\ [][Next]_vars

-----------------------------------------------------------------------------
(* Properties.                                                              *)

TypeOK ==
    /\ adapter \in {"evm", "stellar"} /\ endpoint \in BOOLEAN
    /\ context = None \/ (context.contract.functions \subseteq All(adapter, Extensions) /\ context.known \subseteq Spellings)
    /\ asking = {} \/ adapter = "stellar"

\* What OpenZeppelin's contracts can do, by the extensions they have.  Ownership and
\* administration of Stellar's are handed over in two steps.
Can(a, X) ==
    LET evm == a = "evm"
        owner == "ownable" \in X
        roles == "accessControl" \in X
        rules == "adminRules" \in X
    IN [ownable |-> owner, twoStepOwnable |-> owner /\ (evm => "twoStep" \in X),
        accessControl |-> roles, enumerable |-> roles /\ (evm => "enumerable" \in X),
        twoStepAdmin |-> roles /\ (evm => rules), renounceOwnership |-> owner,
        renounceRole |-> evm /\ roles, cancelAdmin |-> rules, adminDelay |-> rules,
        history |-> endpoint, verified |-> X # {}]

\* The capabilities told of one of OpenZeppelin's contracts are those it has, also when
\* another contract was registered at its address before.
FlagsFit ==
    told # None /\ told.of \in Whole(adapter) => told.flags = Can(adapter, told.of.extensions)

\* Functions that a guard lets through although no flag looked at them: the delay of the
\* default admin is changed on the word of hasTwoStepAdmin, and Stellar's get_admin is
\* read where there is an accept_admin_transfer.
Unguarded == ADMIN_DELAY_CHANGE_SIGNATURES \cup {"get_admin"}

\* No guarded operation calls a function that the registered contract has not.
CallsFit ==
    called # None /\ called.on # None /\ called.function \notin Unguarded
        => called.function \in Has(called.on)

\* A role is known once, however it was written: blanks mean nothing, and case means
\* nothing on the EVM.
RolesKnownOnce ==
    context # None =>
        \A s, t \in context.known :
            s.role = t.role /\ (adapter = "stellar" => s.lower = t.lower) => s = t
=============================================================================
