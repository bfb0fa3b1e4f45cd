------------------------------- MODULE Relayers -------------------------------
(***************************************************************************)
(* From the relayers of a service to the request one of them is sent: the  *)
(* list read page by page (getEvmRelayers, getStellarRelayers), the details *)
(* of a relayer (getEvmRelayer, getStellarRelayer), the form in which the   *)
(* user sets the transaction's options (useEvmRelayerOptions,               *)
(* useStellarRelayerOptions), which reach the application 100 ms after the  *)
(* last change, and the request made of them (sendTransactionViaRelayer).   *)
(***************************************************************************)
EXTENDS Naturals, Sequences, SequencesExt, FiniteSets, Selecting

CONSTANTS
    Ids,            \* relayers
    PageSize,       \* relayers on a page of the list (100 in the code)
    MaxChanges,     \* bound on the relayers added and removed
    MaxEdited       \* bound on the relayers and changes with which the user changes the form

VARIABLES
    adapter,        \* "evm" or "stellar"
    service,        \* the service's relayers, in its order
    changes,        \* how many were added or removed
    listing,        \* the reading of the list, and what is shown of it
    detail,         \* what is shown of the relayer chosen
    form,           \* the options form
    timer,          \* whether a change of the form is about to be told
    options,        \* the application's transaction options
    sent            \* the request

vars == <<adapter, service, changes, listing, detail, form, timer, options, sent>>

None == "none"
NotAsked == [pc |-> "none"]
NotSent == [to |-> None]

-----------------------------------------------------------------------------
(* The list.                                                               *)

\* network_type, and networkConfig.id.includes(r.network): whether the relayer is of the
\* chain, and of a network whose name occurs in the id (as sepolia does in base-sepolia).
Fits(r) == r.fits
Fitting(list) == Selected(list, {r \in ToSet(list) : Fits(r)})

NotReading == [pc |-> "idle", page |-> 0, found |-> <<>>, shown |-> <<>>,
               start |-> <<>>, shrunk |-> FALSE]

Page(n) == SubSeq(service, (n - 1) * PageSize + 1,
                  IF n * PageSize < Len(service) THEN n * PageSize ELSE Len(service))

\* getRelayers
List ==
    /\ listing.pc = "idle"
    /\ listing' = [NotReading EXCEPT !.pc = "asking", !.page = 1, !.start = service]
    /\ UNCHANGED <<adapter, service, changes, detail, form, timer, options, sent>>

PageRead ==
    /\ listing.pc = "asking"
    /\ LET found == listing.found \o Page(listing.page)
       IN  listing' = IF Len(found) >= Len(service)
                      THEN [listing EXCEPT !.pc = "done", !.found = found,
                                           !.shown = Fitting(found)]
                      ELSE [listing EXCEPT !.page = @ + 1, !.found = found]
    /\ UNCHANGED <<adapter, service, changes, detail, form, timer, options, sent>>

\* getRelayers of the Stellar capability answers a failure with an empty list.
PageFailed ==
    /\ listing.pc = "asking"
    /\ listing' = [listing EXCEPT !.pc = IF adapter = "evm" THEN "threw" ELSE "failed"]
    /\ UNCHANGED <<adapter, service, changes, detail, form, timer, options, sent>>

IdsOf(list) == {list[i].id : i \in DOMAIN list}

\* The service's operator adds a relayer, under a new id, or removes one (external).
Enlist ==
    /\ changes < MaxChanges /\ detail = NotAsked
    /\ \E id \in Ids \ (IdsOf(service) \cup IdsOf(listing.start) \cup IdsOf(listing.found)), fits \in BOOLEAN :
          service' = Append(service, [id |-> id, fits |-> fits])
    /\ changes' = changes + 1
    /\ UNCHANGED <<adapter, listing, detail, form, timer, options, sent>>

Drop ==
    /\ changes < MaxChanges /\ detail = NotAsked
    /\ \E i \in DOMAIN service : service' = RemoveAt(service, i)
    /\ changes' = changes + 1
    /\ listing' = IF listing.pc = "asking" THEN [listing EXCEPT !.shrunk = TRUE] ELSE listing
    /\ UNCHANGED <<adapter, detail, form, timer, options, sent>>

-----------------------------------------------------------------------------
(* The form.  Of a fee it matters whether it is given; one of 0 is not.     *)

Fees == {"gasPrice", "maxFeePerGas", "maxPriorityFeePerGas"}
Eip1559 == Fees \ {"gasPrice"}
Speeds == {"fast", "average"}

\* The options that the application holds: those of EVM, those of Stellar.
NoOptions ==
    IF adapter = "evm" THEN [speed |-> None, fees |-> {}, gasLimit |-> FALSE]
    ELSE [maxFee |-> FALSE, validUntil |-> FALSE, feeBump |-> "unset"]

Closed == [open |-> FALSE]

ConfigMode == IF form.fees # {} THEN "custom" ELSE "speed"
GasType == IF form.fees \cap Eip1559 # {} THEN "eip1559" ELSE "legacy"

\* What the hooks make of the options they are mounted with.
EvmForm ==
    [open |-> TRUE, fees |-> options.fees, gasLimit |-> options.gasLimit,
     showGasLimit |-> options.gasLimit,
     speed |-> IF options.speed = None /\ options.fees = {} THEN "fast" ELSE options.speed]
StellarForm ==
    [open |-> TRUE, maxFee |-> options.maxFee, validUntil |-> options.validUntil,
     feeBump |-> options.feeBump,
     mode |-> IF options.validUntil \/ options.feeBump = "on" THEN "advanced" ELSE "basic"]

\* What the form tells when its timer fires.
EvmOptions(f) == [speed |-> f.speed, fees |-> f.fees, gasLimit |-> f.gasLimit]
StellarOptions(f) == [maxFee |-> f.maxFee, validUntil |-> f.validUntil, feeBump |-> f.feeBump]
Told(f) == IF adapter = "evm" THEN EvmOptions(f) ELSE StellarOptions(f)

\* A relayer of the list is chosen: getRelayer asks for it, its balance and its status
\* at once, of which the latter two may fail; the EVM capability throws what the Stellar
\* one answers with {}.
Details(r) ==
    LET there == r.id \in IdsOf(service)
        known == [pc : {"shown"}, of : {r}, whole : BOOLEAN]
    IN  (IF there THEN known ELSE {}) \cup {[pc |-> IF adapter = "evm" THEN "threw" ELSE "empty"]}

\* The form mounts: the EVM one tells its default speed at once, and since the first of
\* its effects clears isInitialMount, the second sets its timer as well.
Mount ==
    /\ form' = IF adapter = "evm" THEN EvmForm ELSE StellarForm
    /\ timer' = TRUE
    /\ options' = IF adapter = "evm" /\ options.speed = None /\ options.fees = {}
                  THEN [EvmOptions(EvmForm) EXCEPT !.fees = {}] ELSE options

Choose ==
    /\ listing.pc = "done" /\ detail = NotAsked
    /\ \E i \in DOMAIN listing.shown : detail' \in Details(listing.shown[i])
    /\ IF detail'.pc = "shown" THEN Mount ELSE UNCHANGED <<form, timer, options>>
    /\ UNCHANGED <<adapter, service, changes, listing, sent>>

\* The form is left, which clears its timer, and opened again.
Unmount ==
    /\ form.open /\ sent = NotSent
    /\ form' = Closed /\ timer' = FALSE
    /\ UNCHANGED <<adapter, service, changes, listing, detail, options, sent>>

Remount ==
    /\ ~form.open /\ detail.pc = "shown" /\ sent = NotSent
    /\ Mount
    /\ UNCHANGED <<adapter, service, changes, listing, detail, sent>>

TimerFires ==
    /\ timer /\ sent = NotSent
    /\ options' = Told(form) /\ timer' = FALSE
    /\ UNCHANGED <<adapter, service, changes, listing, detail, form, sent>>

\* The user changes the form; a change of what it tells starts the timer again.
Edit(changed) ==
    /\ Len(listing.start) + changes <= MaxEdited
    /\ form.open /\ sent = NotSent
    /\ form' = changed
    /\ timer' = (timer \/ Told(changed) # Told(form))
    /\ UNCHANGED <<adapter, service, changes, listing, detail, options, sent>>

\* The speed shown as selected is FAST when none is set, and selecting it changes nothing.
SpeedShown == IF form.speed = None THEN "fast" ELSE form.speed

ToSpeed(speed) == [form EXCEPT !.speed = speed, !.fees = {}]
ToEip1559 == [form EXCEPT !.fees = Eip1559]
ToLegacy == [form EXCEPT !.fees = {"gasPrice"}]

HandleSpeedChange ==
    /\ ConfigMode = "speed"
    /\ \E speed \in Speeds \ {SpeedShown} : Edit(ToSpeed(speed))

HandleModeChange ==
    \/ ConfigMode = "custom" /\ Edit(ToSpeed("fast"))
    \/ ConfigMode = "speed" /\ Edit([form EXCEPT !.speed = None, !.fees = @ \cup Eip1559])

\* Mutant: the gas price is kept when EIP-1559 is chosen.
GasPriceKept == IF GasType = "eip1559" THEN Edit(ToLegacy) ELSE Edit([form EXCEPT !.fees = @ \cup Eip1559])

HandleGasTypeSwitch == IF GasType = "eip1559" THEN Edit(ToLegacy) ELSE Edit(ToEip1559)

\* CustomGasParameters: the fields under the type that is selected, and the gas limit.
FieldsShown == IF GasType = "eip1559" THEN Eip1559 ELSE {"gasPrice"}

CustomGasParameters ==
    /\ ConfigMode = "custom"
    /\ \/ HandleGasTypeSwitch
       \/ \E field \in FieldsShown :
             Edit([form EXCEPT !.fees = IF field \in @ THEN @ \ {field} ELSE @ \cup {field}])
       \/ Edit([form EXCEPT !.showGasLimit = ~@])
       \/ form.showGasLimit /\ Edit([form EXCEPT !.gasLimit = ~@])

EvmEdits ==
    /\ adapter = "evm" /\ form.open
    /\ HandleSpeedChange \/ HandleModeChange \/ CustomGasParameters

\* The Stellar form's two tabs; leaving the advanced one drops what it alone shows.
HandleTabChange ==
    IF form.mode = "advanced"
    THEN Edit([form EXCEPT !.mode = "basic", !.validUntil = FALSE, !.feeBump = "unset"])
    ELSE Edit([form EXCEPT !.mode = "advanced", !.feeBump = IF @ = "on" THEN "on" ELSE "off"])

\* FeeConfiguration and TransactionTiming
StellarFields ==
    \/ Edit([form EXCEPT !.maxFee = ~@])
    \/ form.mode = "advanced" /\ Edit([form EXCEPT !.feeBump = IF @ = "on" THEN "off" ELSE "on"])
    \/ form.mode = "advanced" /\ Edit([form EXCEPT !.validUntil = ~@])

StellarEdits ==
    /\ adapter = "stellar" /\ form.open
    /\ HandleTabChange \/ StellarFields

-----------------------------------------------------------------------------
(* The request.                                                            *)

\* sendTransactionViaRelayer: what EVM's options become; 210000 stands for no limit.
EvmRequest ==
    [to |-> detail.of.id, speed |-> options.speed, fees |-> options.fees,
     limit |-> IF options.gasLimit THEN "given" ELSE "210000"]
\* Stellar's: a transaction signed by the wallet to be bumped, or an operation.
StellarRequest ==
    [to |-> detail.of.id, by |-> IF options.feeBump = "on" THEN "xdr" ELSE "operations",
     bump |-> options.feeBump = "on", maxFee |-> options.maxFee, validUntil |-> options.validUntil]

Send ==
    /\ detail.pc = "shown" /\ sent = NotSent
    /\ sent' = IF adapter = "evm" THEN EvmRequest ELSE StellarRequest
    /\ UNCHANGED <<adapter, service, changes, listing, detail, form, timer, options>>

-----------------------------------------------------------------------------

Init ==
    /\ adapter \in {"evm", "stellar"}
    /\ \E n \in 0 .. Cardinality(Ids) : \E fits \in [1 .. n -> BOOLEAN] :
          service = [i \in 1 .. n |-> [id |-> SetToSeq(Ids)[i], fits |-> fits[i]]]
    /\ changes = 0
    /\ listing = NotReading
    /\ detail = NotAsked
    /\ form = Closed /\ timer = FALSE
    /\ options = NoOptions
    /\ sent = NotSent

Next ==
    \/ List \/ PageRead \/ PageFailed \/ Enlist \/ Drop
    \/ Choose \/ Unmount \/ Remount \/ TimerFires
    \/ EvmEdits \/ StellarEdits
    \/ Send

Spec == Init /\ [][Next]_vars

-----------------------------------------------------------------------------

\* The list is read in several calls while relayers come and go: none is listed twice
\* and no page is asked for behind the last one; when none went meanwhile, the list has
\* every relayer for the network that was there at first, in the service's order.
ListIsWhole ==
    LET found == listing.found
    IN  /\ \A i, j \in DOMAIN found : found[i].id = found[j].id => i = j
        /\ listing.page <= (Len(listing.start) + changes) \div PageSize + 1
        /\ listing.pc = "done" /\ ~listing.shrunk =>
              IsPrefix(Fitting(listing.start), listing.shown)

\* "exactly one pricing strategy": a speed, a gas price, or both fees of EIP-1559.
Priced(o) == o.fees \in {{"gasPrice"}, Eip1559} \/ (o.speed # None /\ o.fees = {})

\* Whatever the user did with the form, no request has two pricing strategies; and once
\* the form had 100 ms to tell its state, the request is as the form shows it: with one
\* whole strategy unless a fee was left empty, and on Stellar with a fee bump or an expiry
\* only if the tab that has them shows them.
RequestIsShown ==
    sent # NotSent =>
       IF adapter = "evm"
       THEN /\ sent.speed = None \/ sent.fees = {}
            /\ sent.fees \subseteq Eip1559 \/ sent.fees = {"gasPrice"}
            /\ form.open /\ ~timer /\ Priced(form) =>
                 IF ConfigMode = "speed" THEN sent.speed = SpeedShown /\ Priced(sent)
                 ELSE sent.fees = FieldsShown
       ELSE form.open /\ ~timer =>
              /\ sent.maxFee = form.maxFee
              /\ sent.bump = (form.mode = "advanced" /\ form.feeBump = "on")
              /\ sent.validUntil = (form.mode = "advanced" /\ form.validUntil)
=============================================================================
