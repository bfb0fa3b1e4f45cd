------------------------------ MODULE WagmiDialog ------------------------------
(***************************************************************************)
(* The custom connect button of the EVM adapters, its dialog and the wrapper  *)
(* that keeps them from rendering without a wagmi provider (wallet/components *)
(* of EVM core).  The session is wagmi's: it reconnects, connects and ends by *)
(* itself, and the components see it when they are rendered next.            *)
(***************************************************************************)
EXTENDS Naturals

CONSTANT Wallets        \* connectors

VARIABLES
    session,        \* whether wagmi is connected
    provider,       \* whether the wagmi provider is initialized
    failed,         \* hasError of SafeWagmiComponent
    button,         \* the properties and the state of CustomConnectButton
    dialog,         \* the state of ConnectorDialog
    attempt         \* the dialog's connect(): "none", "pending", "connected", "error" or
                    \* "already", an error with "Connector already connected"

vars == <<session, provider, failed, button, dialog, attempt>>

NoWallet == "none"

TypeOK ==
    /\ session \in BOOLEAN /\ provider \in BOOLEAN /\ failed \in BOOLEAN
    /\ button \in [hide : BOOLEAN, open : BOOLEAN, connected : BOOLEAN, connecting : BOOLEAN]
    /\ dialog \in Wallets \cup {NoWallet}
    /\ attempt \in {"none", "pending", "connected", "error", "already"}

\* SafeWagmiComponent: its children, or the fallback.
Ready(p, f) == p /\ ~f

\* Whether the dialog is there: a button that hides takes it away, with its state.
Rendered(p, f, b) == Ready(p, f) /\ ~(b.connected /\ b.hide)

\* The effects after a change: of the button, and of the dialog if it is there.
Settle(p, f, b, d, a) ==
    LET closed == \/ Ready(p, f) /\ b.connected /\ b.hide
                  \/ Rendered(p, f, b) /\ b.open /\ (b.connected \/ a = "already")
        open == b.open /\ ~closed
    IN  /\ provider' = p /\ failed' = f
        /\ button' = [b EXCEPT !.open = open]
        /\ dialog' = IF Rendered(p, f, b) /\ open /\ a # "error" THEN d ELSE NoWallet
        /\ attempt' = IF Rendered(p, f, b) THEN a ELSE "none"

-----------------------------------------------------------------------------
(* wagmi and its provider (external).                                       *)

SessionChanges ==
    /\ session' = ~session
    /\ UNCHANGED <<provider, failed, button, dialog, attempt>>

\* The account is rendered, and whether some hook is connecting.
Render ==
    /\ \E c \in BOOLEAN :
          Settle(provider, failed, [button EXCEPT !.connected = session, !.connecting = c], dialog, attempt)
    /\ UNCHANGED session

\* The root has a config without an error, or not.
ProviderChanges ==
    /\ Settle(~provider, IF provider THEN failed ELSE FALSE, button, dialog, attempt)
    /\ UNCHANGED session

\* The window's error event names wagmi's provider.
HandleError ==
    /\ ~failed
    /\ Settle(provider, TRUE, button, dialog, attempt)
    /\ UNCHANGED session

-----------------------------------------------------------------------------
(* The user.                                                                *)

HandleConnectClick ==
    /\ Rendered(provider, failed, button)
    /\ ~button.connected /\ ~button.connecting
    /\ Settle(provider, failed, [button EXCEPT !.open = TRUE], dialog, attempt)
    /\ UNCHANGED session

\* The user closes the dialog.
OnOpenChange ==
    /\ Rendered(provider, failed, button) /\ button.open
    /\ Settle(provider, failed, [button EXCEPT !.open = FALSE], dialog, attempt)
    /\ UNCHANGED session

CanSelectConnector == ~button.connected /\ dialog = NoWallet

HandleConnectorSelect(w) ==
    /\ Rendered(provider, failed, button) /\ button.open
    /\ CanSelectConnector
    /\ Settle(provider, failed, button, w, "pending")
    /\ UNCHANGED session

\* The dialog's connect() ends.  wagmi refuses a connector that is connected.
ConnectEnds ==
    /\ attempt = "pending"
    /\ \/ session' = TRUE /\ Settle(provider, failed, button, dialog, "connected")
       \/ UNCHANGED session /\ Settle(provider, failed, button, dialog, "error")
       \/ session /\ UNCHANGED session /\ Settle(provider, failed, button, dialog, "already")

-----------------------------------------------------------------------------
Init ==
    /\ session \in BOOLEAN /\ provider = FALSE /\ failed = FALSE
    /\ \E hide \in BOOLEAN :
          button = [hide |-> hide, open |-> FALSE, connected |-> FALSE, connecting |-> FALSE]
    /\ dialog = NoWallet /\ attempt = "none"

Next ==
    \/ SessionChanges \/ Render \/ ProviderChanges \/ HandleError
    \/ HandleConnectClick \/ OnOpenChange
    \/ \E w \in Wallets : HandleConnectorSelect(w)
    \/ ConnectEnds

Spec == Init /\ [][Next]_vars

-----------------------------------------------------------------------------
(* Properties.                                                              *)

\* A dialog that is open lets its user choose, unless what was chosen is still under way or
\* has connected and is not rendered yet; and it is never open over a connection.
DialogIsUsable ==
    Rendered(provider, failed, button) /\ button.open =>
        /\ ~button.connected
        /\ CanSelectConnector \/ attempt \in {"pending", "connected"}

\* The dialog names a wallet only while it is open, and none after a failure.
NamesItsChoice ==
    dialog # NoWallet => button.open /\ attempt \in {"pending", "connected"}
=============================================================================
