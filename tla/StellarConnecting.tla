--------------------------- MODULE StellarConnecting ---------------------------
(***************************************************************************)
(* How the user of the Stellar adapter comes by a connected wallet: the UI  *)
(* kit manager (stellarUiKitManager.ts) that makes the kits, the one wallet  *)
(* implementation of the page (wallets-kit-implementation.ts) behind its     *)
(* facade (connection.ts), the UI root that shows the connection, and the    *)
(* custom connect button with its dialog.  What is signed is the subject of  *)
(* StellarExecution.                                                         *)
(***************************************************************************)
EXTENDS Naturals, Sequences, SequencesExt

CONSTANTS
    Wallets,        \* wallets of the kit; a wallet stands for its account, too
    MaxKits,        \* bound on the calls of configure()
    MaxPrompts      \* bound on the prompts of wallets

VARIABLES
    manager,        \* the state of stellarUiKitManager
    wiring,         \* its calls of configure() that wait for the implementation, oldest first
    impl,           \* the WalletsKitImplementation; kit 0 is its default one
    prompts,        \* for each connect() the wallet, who asked and whether it was answered
    root,           \* StellarWalletUiRoot
    ui              \* CustomConnectButton and ConnectorDialog

vars == <<manager, wiring, impl, prompts, root, ui>>

None == "none"
Kits == 0 .. MaxKits
KnownKits == {"stellar-wallets-kit", "custom", "off"}      \* "off" is the kit called "none"
KitNames == KnownKits \cup {"rainbowkit"}
OrNone(S) == S \cup {None}

NoDialog(u) == [u EXCEPT !.open = FALSE, !.manual = FALSE, !.choosing = None, !.late = FALSE]
NoRoot == [mounted |-> FALSE, listening |-> FALSE, shown |-> None, refused |-> FALSE]

TypeOK ==
    /\ manager \in [kitName : OrNone(KitNames), provider : Kits, made : Kits, initializing : BOOLEAN,
                    configured : BOOLEAN, failed : BOOLEAN, overtaken : BOOLEAN]
    /\ wiring \in Seq([kit : Kits, creates : BOOLEAN])
    /\ impl \in [made : BOOLEAN, kit : Kits, address : OrNone(Wallets), connecting : BOOLEAN]
    /\ prompts \in Seq([wallet : Wallets, by : {"dialog", "gone", "other"}, pending : BOOLEAN])
    /\ root \in [mounted : BOOLEAN, listening : BOOLEAN, shown : OrNone(Wallets), refused : BOOLEAN]
    /\ ui \in [hide : BOOLEAN, open : BOOLEAN, manual : BOOLEAN, choosing : OrNone(Wallets), late : BOOLEAN]

\* What waits for the implementation goes on before the user or a wallet does anything.
Quiet == wiring = <<>>

-----------------------------------------------------------------------------
(* The manager.  The kit is made at once, the implementation is told of it    *)
(* after an await.                                                           *)

\* getStellarWalletImplementation: the first call makes the one there is.
Made == [impl EXCEPT !.made = TRUE]

\* configure, up to the await.
Configure(name) ==
    /\ manager.made < MaxKits
    /\ IF name \in KnownKits
       THEN LET kit == IF name = "off" THEN 0 ELSE manager.made + 1
            IN  /\ manager' = [manager EXCEPT !.kitName = name, !.provider = kit, !.made = @ + 1,
                                              !.initializing = TRUE]
                /\ wiring' = Append(wiring, [kit |-> kit, creates |-> ~impl.made])
                /\ impl' = Made
       ELSE /\ manager' = [manager EXCEPT !.kitName = name, !.made = @ + 1, !.initializing = FALSE,
                                          !.configured = FALSE, !.failed = TRUE]
            /\ UNCHANGED <<wiring, impl>>

\* configureUiKit of the capability.
ConfigureUiKit == \E name \in KitNames : Configure(name) /\ UNCHANGED <<prompts, root, ui>>

\* The await ends.  That of the call that made the implementation takes longer, so that a
\* call made meanwhile may overtake it.
ActiveKitSet ==
    \E i \in DOMAIN wiring :
        /\ i = 1 \/ (i = 2 /\ wiring[1].creates)
        /\ impl' = [impl EXCEPT !.kit = wiring[i].kit]
        /\ wiring' = RemoveAt(wiring, i)
        /\ manager' = [manager EXCEPT !.initializing = FALSE, !.configured = TRUE, !.failed = FALSE,
                                      !.overtaken = @ \/ (i = 2)]
        /\ UNCHANGED <<prompts, root, ui>>

-----------------------------------------------------------------------------
(* The UI.  A root that is mounted shows the connection it was told of last.  *)

\* notifyConnectionListeners and the facade, which hands on the address without the flags.
Told(r, address) == IF r.mounted /\ r.listening THEN [r EXCEPT !.shown = address] ELSE r

Connected(r) == r.mounted /\ r.shown # None

\* The effects after a change: a connection closes a dialog that waits for one, and a button
\* that hides when connected takes the dialog with it.
DialogSettled(u, r) ==
    IF Connected(r) /\ u.choosing # None
    THEN [u EXCEPT !.open = FALSE, !.manual = FALSE, !.choosing = None] ELSE u

Settled(u, r) == IF Connected(r) /\ u.hide THEN NoDialog(u) ELSE DialogSettled(u, r)

\* A dialog that is taken away forgets its choices.
Kept(ps, r) ==
    IF r.mounted /\ ~(Connected(r) /\ ui.hide) THEN ps
    ELSE [i \in DOMAIN ps |-> IF ps[i].by = "dialog" THEN [ps[i] EXCEPT !.by = "gone"] ELSE ps[i]]

\* The effects of the root's mount, in their order: configure if there is a kit to be
\* configured or none was, then listen if there is an implementation by then.
Mount ==
    /\ ~root.mounted /\ Quiet
    /\ \/ \E name \in KitNames : Configure(name)
       \/ manager.kitName = None /\ Configure("custom")
       \/ manager.kitName # None /\ UNCHANGED <<manager, wiring, impl>>
    /\ root' = [mounted |-> TRUE, listening |-> impl'.made, refused |-> manager'.failed,
                shown |-> IF impl'.made THEN impl'.address ELSE None]
    /\ UNCHANGED <<prompts, ui>>

Unmount ==
    /\ root.mounted /\ Quiet
    /\ root' = NoRoot
    /\ ui' = NoDialog(ui)
    /\ prompts' = Kept(prompts, NoRoot)
    /\ UNCHANGED <<manager, wiring, impl>>

\* getStellarConnectUiState: nothing that the root hands on is connecting or reconnecting.
CanStartManualConnect == ~Connected(root) /\ ~ui.manual

HandleConnectClick ==
    /\ root.mounted /\ Quiet /\ CanStartManualConnect
    /\ ui' = [ui EXCEPT !.manual = TRUE, !.open = TRUE, !.late = FALSE]
    /\ UNCHANGED <<manager, wiring, impl, prompts, root>>

\* The user closes the dialog; a choice goes on.
OnOpenChange ==
    /\ ui.open /\ Quiet
    /\ ui' = [ui EXCEPT !.open = FALSE, !.manual = FALSE]
    /\ UNCHANGED <<manager, wiring, impl, prompts, root>>

-----------------------------------------------------------------------------
(* The wallet.                                                              *)

\* connect, up to the wallet's answer.
Connect(w, by) ==
    /\ Len(prompts) < MaxPrompts
    /\ prompts' = Append(prompts, [wallet |-> w, by |-> by, pending |-> TRUE])
    /\ impl' = [Made EXCEPT !.connecting = TRUE]
    /\ root' = Told(root, impl.address)

\* A choice in the dialog.  No button of it is ever disabled.
HandleConnectorSelect(w) ==
    /\ ui.open /\ Quiet
    /\ Connect(w, "dialog")
    /\ ui' = Settled([ui EXCEPT !.choosing = w], root')
    /\ UNCHANGED <<manager, wiring>>

\* connectWallet of the capability.
ConnectWallet(w) ==
    /\ Quiet
    /\ Connect(w, "other")
    /\ UNCHANGED <<manager, wiring, ui>>

Answered(i) == [prompts EXCEPT ![i].pending = FALSE]

\* The wallet gives its address.
AddressGiven(i) ==
    /\ prompts[i].pending /\ Quiet
    /\ impl' = [impl EXCEPT !.address = prompts[i].wallet, !.connecting = FALSE]
    /\ root' = Told(root, impl'.address)
    /\ ui' = Settled([ui EXCEPT !.late = @ \/ (ui.open /\ ui.choosing = None)], root')
    /\ prompts' = Kept(Answered(i), root')
    /\ UNCHANGED <<manager, wiring>>

\* It does not, or its user declines: connect() of the context throws, and the dialog
\* that waits says so and waits no more.
AddressDenied(i) ==
    /\ prompts[i].pending /\ Quiet
    /\ impl' = [impl EXCEPT !.connecting = FALSE]
    /\ root' = Told(root, impl.address)
    /\ ui' = IF prompts[i].by = "dialog" THEN [ui EXCEPT !.choosing = None] ELSE ui
    /\ prompts' = Answered(i)
    /\ UNCHANGED <<manager, wiring>>

Disconnect ==
    /\ impl.made /\ Quiet
    /\ impl' = [impl EXCEPT !.address = None, !.connecting = FALSE]
    /\ root' = Told(root, None)
    /\ UNCHANGED <<manager, wiring, prompts, ui>>

-----------------------------------------------------------------------------
Init ==
    /\ manager = [kitName |-> None, provider |-> 0, made |-> 0, initializing |-> FALSE,
                  configured |-> FALSE, failed |-> FALSE, overtaken |-> FALSE]
    /\ wiring = <<>>
    /\ impl = [made |-> FALSE, kit |-> 0, address |-> None, connecting |-> FALSE]
    /\ prompts = <<>>
    /\ root = NoRoot
    /\ \E hide \in BOOLEAN :
          ui = [hide |-> hide, open |-> FALSE, manual |-> FALSE, choosing |-> None, late |-> FALSE]

Next ==
    \/ ConfigureUiKit \/ ActiveKitSet
    \/ Mount \/ Unmount \/ HandleConnectClick \/ OnOpenChange
    \/ \E w \in Wallets : HandleConnectorSelect(w) \/ ConnectWallet(w)
    \/ \E i \in DOMAIN prompts : AddressGiven(i) \/ AddressDenied(i)
    \/ Disconnect

Spec == Init /\ [][Next]_vars

-----------------------------------------------------------------------------
(* Properties.                                                              *)

\* The root shows the wallet's connection from its mount on: configure() makes the
\* implementation before the root's subscription asks for it.  Only a root that is mounted
\* after a kit was refused may have nothing to listen to.
RootFollowsWallet ==
    root.mounted =>
        IF root.listening THEN root.shown = impl.address ELSE root.refused

\* The kit that the manager gives the UI is the one that the implementation signs with, as
\* soon as no configure() is under way, and the manager does not stay initializing; unless a
\* configuration overtook the one that made the implementation.
OneKit ==
    Quiet => /\ ~manager.initializing
             /\ ~manager.overtaken => impl.kit = manager.provider

\* Who is not connected can press the button or choose in the dialog, whatever prompts were
\* declined, closed or left open; and a dialog over a connection is one that waits for
\* nothing: its button does not hide, and another choice than the last one connected.
CanAlwaysConnect ==
    /\ root.mounted /\ ~Connected(root) => CanStartManualConnect \/ ui.open
    /\ ui.open /\ Connected(root) => ~ui.hide /\ ui.choosing = None /\ ui.late

\* The wallet's status is "connecting" only while a wallet is asked, and the dialog names a
\* wallet only while one that it asked may still answer, if the root hears of it.
ConnectingIsTrue ==
    /\ impl.connecting => \E i \in DOMAIN prompts : prompts[i].pending
    /\ root.listening /\ ui.choosing # None =>
          \E i \in DOMAIN prompts : prompts[i].pending /\ prompts[i].by = "dialog"
=============================================================================
