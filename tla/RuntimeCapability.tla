------------------------- MODULE RuntimeCapability -------------------------
(***************************************************************************)
(* The lifecycle every runtime-backed capability of the adapters is wrapped *)
(* in (packages/adapter-runtime-utils/src/runtime-capability.ts): dispose() *)
(* rejects the promises in flight and runs the registered cleanup hooks     *)
(* stage by stage; a call is refused once its capability is disposed; a     *)
(* result that arrives late is dropped.                                     *)
(*                                                                         *)
(* JavaScript runs one piece of code at a time, but that code re-enters the *)
(* lifecycle: a cleanup hook or a method body may dispose another (or its   *)
(* own) capability, call its methods or register more hooks, all while an   *)
(* outer dispose() loop is half done.  The variable stack is the call       *)
(* stack; only its top frame steps, and promise continuations run when it   *)
(* is empty.                                                                *)
(***************************************************************************)
EXTENDS Naturals, Sequences

CONSTANTS
    Caps,       \* capability objects
    Ops,        \* calls of capability methods, each made once
    Hooks       \* cleanup hooks, each registered once

VARIABLES
    disposed,   \* disposed[c]: the flag of c's lifecycle
    pending,    \* pending[c]: the calls in c's pending set
    call,       \* call[o]: what the caller of o sees
    inner,      \* inner[o]: the promise the method itself returned
    owner,      \* owner[o]: the capability whose method o calls
    cleanups,   \* cleanups[c][s]: hooks registered on c for stage s, in order
    hook,       \* hook[h]: "new", or registered "early" (capability live) or "late"
    ran,        \* the hooks run so far, with capability and stage (history)
    stack       \* the call stack, top frame first

vars == <<disposed, pending, call, inner, owner, cleanups, hook, ran, stack>>

(* CLEANUP_STAGE_ORDER: listener, subscription, general, wallet, rpc.       *)
Stages == 1 .. 5

Final == {"fulfilled", "failed", "disposed", "returned"}

Frames ==
    [kind : {"dispose"}, cap : Caps, stage : Stages, next : Nat \ {0}]
      \union [kind : {"call"}, cap : Caps, op : Ops]
      \union [kind : {"hook"}, cap : Caps, hook : Hooks]

(* Application code runs when the stack is empty, and as the body of a      *)
(* method or of a cleanup hook.                                             *)
CodeRuns == stack # <<>> => Head(stack).kind \in {"call", "hook"}

LoopFrame(c, s, n) == [kind |-> "dispose", cap |-> c, stage |-> s, next |-> n]

Running(kind) == stack # <<>> /\ Head(stack).kind = kind

Init ==
    /\ disposed = [c \in Caps |-> FALSE]
    /\ pending = [c \in Caps |-> {}]
    /\ call = [o \in Ops |-> "unused"]
    /\ inner = [o \in Ops |-> "none"]
    /\ owner \in [Ops -> Caps]
    /\ cleanups = [c \in Caps |-> [s \in Stages |-> <<>>]]
    /\ hook = [h \in Hooks |-> "new"]
    /\ ran = <<>>
    /\ stack = <<>>

-----------------------------------------------------------------------------
(* dispose() and its cleanup loop *)

(* Mutant: dispose() that does not reject what is pending. *)
DisposeKeepsPending(c) ==
    /\ CodeRuns
    /\ ~disposed[c]
    /\ disposed' = [disposed EXCEPT ![c] = TRUE]
    /\ stack' = <<LoopFrame(c, 1, 1)>> \o stack
    /\ UNCHANGED <<pending, call, inner, owner, cleanups, hook, ran>>

(* Mutant: a second dispose() enters the cleanup loop once more. *)
DisposeAgain(c) ==
    /\ CodeRuns
    /\ disposed' = [disposed EXCEPT ![c] = TRUE]
    /\ call' = [o \in Ops |-> IF o \in pending[c] THEN "disposed" ELSE call[o]]
    /\ pending' = [pending EXCEPT ![c] = {}]
    /\ stack' = <<LoopFrame(c, 1, 1)>> \o stack
    /\ UNCHANGED <<inner, owner, cleanups, hook, ran>>

(* A second dispose() returns at once (no step); the first one marks the    *)
(* capability, rejects everything pending and enters the cleanup loop.      *)
Dispose(c) ==
    /\ CodeRuns
    /\ ~disposed[c]
    /\ disposed' = [disposed EXCEPT ![c] = TRUE]
    /\ call' = [o \in Ops |-> IF o \in pending[c] THEN "disposed" ELSE call[o]]
    /\ pending' = [pending EXCEPT ![c] = {}]
    /\ stack' = <<LoopFrame(c, 1, 1)>> \o stack
    /\ UNCHANGED <<inner, owner, cleanups, hook, ran>>

(* The next hook of the stage being cleaned up.  The loop iterates over the *)
(* live array, so a hook appended to it meanwhile is still visited.         *)
RunCleanup ==
    /\ Running("dispose")
    /\ LET f == Head(stack)
           hooks == cleanups[f.cap][f.stage]
       IN /\ f.next <= Len(hooks)
          /\ ran' = Append(ran, [cap |-> f.cap, stage |-> f.stage, hook |-> hooks[f.next]])
          /\ stack' = <<[kind |-> "hook", cap |-> f.cap, hook |-> hooks[f.next]],
                        LoopFrame(f.cap, f.stage, f.next + 1)>> \o Tail(stack)
    /\ UNCHANGED <<disposed, pending, call, inner, owner, cleanups, hook>>

(* Mutant: a hook that throws ends the whole cleanup loop. *)
HookAbortsLoop ==
    /\ Running("hook")
    /\ \E frames \in {1, 2} : stack' = SubSeq(stack, frames + 1, Len(stack))
    /\ UNCHANGED <<disposed, pending, call, inner, owner, cleanups, hook, ran>>

(* safelyRunCleanup: a hook that returns, throws or returns a promise that  *)
(* rejects hands control back to the loop all the same.                     *)
HookEnds ==
    /\ Running("hook")
    /\ stack' = Tail(stack)
    /\ UNCHANGED <<disposed, pending, call, inner, owner, cleanups, hook, ran>>

StageDone(f) == f.next > Len(cleanups[f.cap][f.stage])

(* Mutant: the wallet stage is cleaned up before the general one. *)
NextStageSwapped ==
    /\ Running("dispose")
    /\ StageDone(Head(stack))
    /\ Head(stack).stage < 5
    /\ stack' = <<LoopFrame(Head(stack).cap, <<2, 4, 5, 3>>[Head(stack).stage], 1)>> \o Tail(stack)
    /\ UNCHANGED <<disposed, pending, call, inner, owner, cleanups, hook, ran>>

NextStage ==
    /\ Running("dispose")
    /\ StageDone(Head(stack))
    /\ Head(stack).stage < 5
    /\ stack' = <<LoopFrame(Head(stack).cap, Head(stack).stage + 1, 1)>> \o Tail(stack)
    /\ UNCHANGED <<disposed, pending, call, inner, owner, cleanups, hook, ran>>

DisposeReturns ==
    /\ Running("dispose")
    /\ StageDone(Head(stack))
    /\ Head(stack).stage = 5
    /\ stack' = Tail(stack)
    /\ UNCHANGED <<disposed, pending, call, inner, owner, cleanups, hook, ran>>

(* guardRuntimeCapability's onDispose and registerRuntimeCapabilityCleanup  *)
(* push onto the stage's list whether or not the capability is disposed.    *)
RegisterCleanup(c, s, h) ==
    /\ CodeRuns
    /\ hook[h] = "new"
    /\ cleanups' = [cleanups EXCEPT ![c][s] = Append(@, h)]
    /\ hook' = [hook EXCEPT ![h] = IF disposed[c] THEN "late" ELSE "early"]
    /\ UNCHANGED <<disposed, pending, call, inner, owner, ran, stack>>

-----------------------------------------------------------------------------
(* Calls through the proxy *)

(* The wrapper around a method: a disposed capability throws before the     *)
(* body is entered, and the caller gets nothing (no step).                  *)
CallMethod(o) ==
    /\ CodeRuns
    /\ call[o] = "unused"
    /\ ~disposed[owner[o]]
    /\ call' = [call EXCEPT ![o] = "running"]
    /\ stack' = <<[kind |-> "call", cap |-> owner[o], op |-> o]>> \o stack
    /\ UNCHANGED <<disposed, pending, inner, owner, cleanups, hook, ran>>

InBodyOf(o) == Running("call") /\ Head(stack).op = o

(* Mutant: trackPromise without its own look at the flag. *)
TrackWithoutRecheck(o) ==
    /\ InBodyOf(o)
    /\ inner' = [inner EXCEPT ![o] = "inFlight"]
    /\ call' = [call EXCEPT ![o] = "pending"]
    /\ pending' = [pending EXCEPT ![owner[o]] = @ \union {o}]
    /\ stack' = Tail(stack)
    /\ UNCHANGED <<disposed, owner, cleanups, hook, ran>>

(* trackPromise: the body returned a promise.  It may have disposed its own *)
(* capability, so the flag is read again.                                   *)
TrackPromise(o) ==
    /\ InBodyOf(o)
    /\ inner' = [inner EXCEPT ![o] = "inFlight"]
    /\ IF disposed[owner[o]]
       THEN /\ call' = [call EXCEPT ![o] = "disposed"]
            /\ UNCHANGED pending
       ELSE /\ call' = [call EXCEPT ![o] = "pending"]
            /\ pending' = [pending EXCEPT ![owner[o]] = @ \union {o}]
    /\ stack' = Tail(stack)
    /\ UNCHANGED <<disposed, owner, cleanups, hook, ran>>

(* The body returned a plain value or threw. *)
ReturnValue(o) ==
    /\ InBodyOf(o)
    /\ call' = [call EXCEPT ![o] = "returned"]
    /\ stack' = Tail(stack)
    /\ UNCHANGED <<disposed, pending, inner, owner, cleanups, hook, ran>>

(* The method's own promise settles.  When dispose() was faster the         *)
(* operation is settled already and the late result is dropped.             *)
InnerSettles(o) ==
    /\ stack = <<>>
    /\ inner[o] = "inFlight"
    /\ inner' = [inner EXCEPT ![o] = "done"]
    /\ IF call[o] = "pending"
       THEN /\ \E r \in {"fulfilled", "failed"} : call' = [call EXCEPT ![o] = r]
            /\ pending' = [pending EXCEPT ![owner[o]] = @ \ {o}]
       ELSE UNCHANGED <<call, pending>>
    /\ UNCHANGED <<disposed, owner, cleanups, hook, ran, stack>>

Next ==
    \/ \E c \in Caps : Dispose(c)
    \/ \E c \in Caps, s \in Stages, h \in Hooks : RegisterCleanup(c, s, h)
    \/ \E o \in Ops : CallMethod(o) \/ TrackPromise(o) \/ ReturnValue(o) \/ InnerSettles(o)
    \/ RunCleanup \/ HookEnds \/ NextStage \/ DisposeReturns

(* Synchronous code that has started returns: the loop advances and the     *)
(* bodies on the stack end.  Nothing makes an application dispose, call or  *)
(* register, nor a remote promise settle.                                   *)
Fairness ==
    /\ WF_vars(RunCleanup \/ NextStage \/ DisposeReturns)
    /\ WF_vars(HookEnds)
    /\ WF_vars(\E o \in Ops : TrackPromise(o) \/ ReturnValue(o))

SafetySpec == Init /\ [][Next]_vars

Spec == SafetySpec /\ Fairness

-----------------------------------------------------------------------------
(* Properties *)

(* The lifecycle's variables keep their types. *)
TypeOK ==
    /\ disposed \in [Caps -> BOOLEAN]
    /\ pending \in [Caps -> SUBSET Ops]
    /\ call \in [Ops -> {"unused", "running", "pending"} \union Final]
    /\ inner \in [Ops -> {"none", "inFlight", "done"}]
    /\ owner \in [Ops -> Caps]
    /\ cleanups \in [Caps -> [Stages -> Seq(Hooks)]]
    /\ hook \in [Hooks -> {"new", "early", "late"}]
    /\ ran \in Seq([cap : Caps, stage : Stages, hook : Hooks])
    /\ stack \in Seq(Frames)

(* Observers of a capability are released before its subscriptions, those   *)
(* before general resources, the wallet and the RPC client, even when hooks *)
(* dispose further capabilities or register more hooks meanwhile.           *)
StagedOrder ==
    \A i, j \in 1 .. Len(ran) :
        i < j /\ ran[i].cap = ran[j].cap => ran[i].stage <= ran[j].stage

(* No hook runs twice, although its capability is disposed again from a hook *)
(* or a method body while its cleanup loop is half done, and the loop goes   *)
(* on over lists that grow meanwhile.                                        *)
HooksRunOnce ==
    \A i, j \in 1 .. Len(ran) : ran[i].hook = ran[j].hook => i = j

(* A disposed capability owes nobody an answer: whatever was called on it   *)
(* has settled, or is a body still on the stack that will be refused.       *)
NoCallLeftOpen ==
    \A o \in Ops : disposed[owner[o]] => call[o] # "pending"

(* What a caller was told never changes, and a method's own result reaches  *)
(* its caller only while the capability is live.                            *)
LiveResults ==
    [][\A o \in Ops :
        /\ call[o] \in Final => call'[o] = call[o]
        /\ call'[o] \in {"fulfilled", "failed"} /\ call'[o] # call[o]
              => ~disposed[owner[o]]]_vars

Attached(c, h) == \E s \in Stages : \E i \in 1 .. Len(cleanups[c][s]) : cleanups[c][s][i] = h

(* Every hook registered before its capability was disposed is run once the *)
(* capability is disposed, whatever the hooks before it did.                *)
CleanupsRelease ==
    \A c \in Caps, h \in Hooks :
        disposed[c] /\ hook[h] = "early" /\ Attached(c, h)
            ~> \E i \in 1 .. Len(ran) : ran[i].hook = h

(* The lifecycle keeps the promises of CapabilityContract. *)
Contract == INSTANCE CapabilityContract WITH
    live <- {c \in Caps : ~disposed[c]},
    open <- pending,
    result <- [o \in Ops |-> IF call[o] \in Final THEN call[o] ELSE "none"],
    attached <- [c \in Caps |-> {h \in Hooks : Attached(c, h)}],
    released <- {ran[i].hook : i \in 1 .. Len(ran)}

ImplementsContract == Contract!Spec
=============================================================================
