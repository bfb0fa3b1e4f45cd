------------------------ MODULE CapabilityContract ------------------------
(***************************************************************************)
(* What a set of runtime capabilities promises to the code that holds them, *)
(* without saying how.  A capability is live until it is disposed.  A call  *)
(* of a method leaves the caller with an open promise or with a plain       *)
(* value; an open promise settles once: with its own result while its       *)
(* capability is live, and with RuntimeDisposedError in the very step that  *)
(* disposes the capability.  A cleanup hook runs at most once, and only for *)
(* the disposed capability it was registered on.                            *)
(*                                                                         *)
(* RuntimeCapability implements this specification.                         *)
(***************************************************************************)
CONSTANTS
    Caps,       \* capability objects
    Ops,        \* calls of capability methods
    Hooks       \* cleanup hooks

VARIABLES
    live,       \* capabilities that have not been disposed
    open,       \* open[c]: calls of c whose promise has not settled
    result,     \* result[o]: how call o ended, "none" before it did
    attached,   \* attached[c]: cleanup hooks registered on c
    released    \* cleanup hooks that have run

contractVars == <<live, open, result, attached, released>>

Init ==
    /\ live = Caps
    /\ open = [c \in Caps |-> {}]
    /\ result = [o \in Ops |-> "none"]
    /\ attached = [c \in Caps |-> {}]
    /\ released = {}

Unheard(o) ==
    /\ result[o] = "none"
    /\ \A c \in Caps : o \notin open[c]

(* A method of a live capability hands out a promise. *)
Open(c, o) ==
    /\ c \in live
    /\ Unheard(o)
    /\ open' = [open EXCEPT ![c] = @ \union {o}]
    /\ UNCHANGED <<live, result, attached, released>>

(* A promise made while its capability was going away is rejected at once. *)
Refuse(c, o) ==
    /\ c \notin live
    /\ Unheard(o)
    /\ result' = [result EXCEPT ![o] = "disposed"]
    /\ UNCHANGED <<live, open, attached, released>>

(* A method that is not asynchronous returns. *)
Return(o) ==
    /\ Unheard(o)
    /\ result' = [result EXCEPT ![o] = "returned"]
    /\ UNCHANGED <<live, open, attached, released>>

Settle(c, o) ==
    /\ c \in live
    /\ o \in open[c]
    /\ open' = [open EXCEPT ![c] = @ \ {o}]
    /\ \E r \in {"fulfilled", "failed"} : result' = [result EXCEPT ![o] = r]
    /\ UNCHANGED <<live, attached, released>>

Dispose(c) ==
    /\ c \in live
    /\ live' = live \ {c}
    /\ open' = [open EXCEPT ![c] = {}]
    /\ result' = [o \in Ops |-> IF o \in open[c] THEN "disposed" ELSE result[o]]
    /\ UNCHANGED <<attached, released>>

Attach(c, h) ==
    /\ \A d \in Caps : h \notin attached[d]
    /\ attached' = [attached EXCEPT ![c] = @ \union {h}]
    /\ UNCHANGED <<live, open, result, released>>

Release(c, h) ==
    /\ c \notin live
    /\ h \in attached[c]
    /\ h \notin released
    /\ released' = released \union {h}
    /\ UNCHANGED <<live, open, result, attached>>

Next ==
    \/ \E c \in Caps : Dispose(c)
    \/ \E c \in Caps, o \in Ops : Open(c, o) \/ Refuse(c, o) \/ Settle(c, o)
    \/ \E o \in Ops : Return(o)
    \/ \E c \in Caps, h \in Hooks : Attach(c, h) \/ Release(c, h)

Spec == Init /\ [][Next]_contractVars
=============================================================================
