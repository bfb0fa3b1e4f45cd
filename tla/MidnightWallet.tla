---------------------------- MODULE MidnightWallet ----------------------------
(***************************************************************************)
(* The Midnight wallet: LaceWalletImplementation (adapter-midnight/src/    *)
(* wallet/implementation), which polls the extension because it has no     *)
(* events, and MidnightWalletUiRoot (wallet/components), which connects,   *)
(* listens and gives up.  The implementation is one object for the page;   *)
(* the root is one mount of the component.                                 *)
(*                                                                         *)
(* The extension answers when and what it likes.  A prompt is an enable()  *)
(* not yet answered, and each gives an API object of its own.  Delays      *)
(* between polls are left out, and so is a page without the extension,     *)
(* which behaves as one whose enable() is declined.                        *)
(***************************************************************************)
EXTENDS Naturals, Sequences

CONSTANTS
    Accounts,
    MaxClicks,      \* bound on the uses of the connect button
    MaxPolls        \* bound on the reads of the wallet's state not yet answered

VARIABLES
    lace,           \* the LaceWalletImplementation
    prompts,        \* the prompts the extension shows
    root,           \* state, refs and effects of MidnightWalletUiRoot
    flows           \* the attempt made at mount, and one connect() per click

vars == <<lace, prompts, root, flows>>

NoOne == "none"
OrNone(S) == S \cup {NoOne}

Attempt == 0                    \* the flow of the mount effect; a flow names its listener, too
Clicks == 1 .. MaxClicks
Flows == {Attempt} \cup Clicks
Sync == MaxClicks + 1           \* the listener of the effect that keeps the address synced
Earlier == MaxClicks + 2        \* a listener, or an API, left behind by an earlier mount
NoListener == MaxClicks + 3

\* API objects, by the prompt that gave them.
NoApi == 0
Prompts == 1 .. MaxClicks + 1
Apis == {NoApi, Earlier} \cup Prompts

TypeOK ==
    /\ lace \in [api : Apis, promise : {NoApi} \cup Prompts, opened : {NoApi} \cup Prompts,
                 listeners : Seq(Flows \cup {Sync, Earlier}), timer : BOOLEAN, polls : 0 .. MaxPolls,
                 address : OrNone(Accounts)]
    /\ prompts \subseteq Prompts
    /\ root \in [api : Apis, address : OrNone(Accounts), connecting : BOOLEAN,
                 initializing : BOOLEAN, awaiting : BOOLEAN, active : Flows \cup {NoListener},
                 fallback : BOOLEAN, synced : Apis]
    /\ flows \in [Flows -> [pc : {"idle", "checking", "enabling", "resume", "done", "thrown"},
                            promise : {NoApi} \cup Prompts, api : Apis]]

\* Continuations of settled promises run before anything else does.
Quiet == \A f \in Flows : flows[f].pc # "resume"

Page == [lace |-> lace, root |-> root]
Becomes(page) == lace' = page.lace /\ root' = page.root

-----------------------------------------------------------------------------
(* Listeners.                                                              *)

\* The listeners but for one, in their order.
Without(ls, l) ==
    LET left[i \in 0 .. Len(ls)] ==
            IF i = 0 THEN <<>> ELSE IF ls[i] = l THEN left[i - 1] ELSE Append(left[i - 1], ls[i])
    IN  left[Len(ls)]

\* The mutant of Unsubscribe: polling stops whoever is left.
StopsForAll(impl, l) == [impl EXCEPT !.listeners = Without(@, l), !.timer = FALSE]

\* The function a subscription returns: stopAccountPolling when the last listener went.
Unsubscribe(impl, l) ==
    LET left == Without(impl.listeners, l)
    IN  [impl EXCEPT !.listeners = left, !.timer = @ /\ left # <<>>]

\* startAccountPolling: a timer that runs is left alone, and without an API none is set.
StartPolling(impl) ==
    [impl EXCEPT !.timer = @ \/ (impl.api # NoApi /\ impl.listeners # <<>>)]

\* setApi, setAddress, setIsConnecting(false); then the refs of the flow.
ShowConnected(r, api, address) ==
    [r EXCEPT !.api = api, !.address = address, !.connecting = FALSE]
FlowEnded(r) == [r EXCEPT !.awaiting = FALSE, !.active = NoListener]

\* The attempt's listener asks for the API when it is told; the button's closed over it.
ApiNow(page) == IF page.lace.api # NoApi THEN page.lace.api ELSE page.root.api

\* A listener is told of the address.  The one of an earlier mount does nothing, and
\* the attempt's throws at `unsubscribe` when that never got a value.
Tell(page, l, apiOf) ==
    LET address == page.lace.address
        attempted == [page EXCEPT !.root = ShowConnected(@, ApiNow(page), address)]
    IN
    CASE l = Sync -> [page EXCEPT !.root.address = address]
      [] l \in Clicks /\ address # NoOne ->
            [page EXCEPT !.root = FlowEnded(ShowConnected(@, apiOf[l], address))]
      [] l = Attempt /\ address # NoOne ->
            IF flows[Attempt].pc = "thrown" THEN attempted
            ELSE [attempted EXCEPT !.root = FlowEnded(@), !.lace = Unsubscribe(@, Attempt)]
      [] OTHER -> page

ApiOf == [f \in Flows |-> flows[f].api]

\* emit: the listeners there are, in the order they came.
Emit(page) ==
    LET told[i \in 0 .. Len(page.lace.listeners)] ==
            IF i = 0 THEN page ELSE Tell(told[i - 1], page.lace.listeners[i], ApiOf)
    IN  told[Len(page.lace.listeners)]

Added(impl, l) == [impl EXCEPT !.listeners = Append(@, l)]

\* onWalletConnectionChange: tells a known address at once, then polls.
Subscribe(page, l, apiOf) ==
    LET added == [page EXCEPT !.lace = Added(@, l)]
        told == IF page.lace.address # NoOne THEN Tell(added, l, apiOf) ELSE added
    IN  [told EXCEPT !.lace = StartPolling(@)]

-----------------------------------------------------------------------------
(* Polling.                                                                *)

\* schedulePollOnce, when its timer fires.  Without an API, without a listener or
\* on a hidden page the `finally` sets the same timer again, and nothing changed.
PollFires ==
    /\ Quiet /\ lace.timer /\ lace.polls < MaxPolls
    /\ lace.api # NoApi /\ lace.listeners # <<>>
    /\ lace' = [lace EXCEPT !.timer = FALSE, !.polls = @ + 1]
    /\ UNCHANGED <<prompts, root, flows>>

\* The `finally` of a poll: the next one, whatever became of this one, of the listeners
\* and of the connection meanwhile.
Rescheduled(impl) == [impl EXCEPT !.timer = TRUE]

\* api.state() answers; an address that is new is told.
PollAnswers(address) ==
    /\ Quiet /\ lace.polls > 0
    /\ LET read == [lace |-> [lace EXCEPT !.polls = @ - 1, !.address = address], root |-> root]
           told == IF address # lace.address THEN Emit(read) ELSE read
       IN  Becomes([told EXCEPT !.lace = Rescheduled(@)])
    /\ UNCHANGED <<prompts, flows>>

PollFails ==
    /\ Quiet /\ lace.polls > 0
    /\ lace' = Rescheduled([lace EXCEPT !.polls = @ - 1])
    /\ UNCHANGED <<prompts, root, flows>>

-----------------------------------------------------------------------------
(* Connecting.                                                             *)

\* connect(), where the flow gets to it: nothing to do with an API at hand, the
\* promise of a connection under way, or a new prompt.
Connect(f) ==
    LET goes(pc, promise) == flows' = [flows EXCEPT ![f].pc = pc, ![f].promise = promise]
        prompt == lace.opened + 1
    IN  \/ /\ lace.api # NoApi /\ goes("resume", NoApi)
           /\ UNCHANGED <<lace, prompts>>
        \/ /\ lace.api = NoApi /\ lace.promise # NoApi
           /\ goes("enabling", lace.promise)
           /\ UNCHANGED <<lace, prompts>>
        \/ /\ lace.api = NoApi /\ lace.promise = NoApi
           /\ goes("enabling", prompt)
           /\ lace' = [lace EXCEPT !.promise = prompt, !.opened = prompt]
           /\ prompts' = prompts \cup {prompt}

\* enable() answers.  Whether this is still the connection asked for is not looked
\* at, neither by the answer nor by the flows that wait for it.
PromptAnswered(prompt, granted) ==
    /\ Quiet /\ prompt \in prompts
    /\ prompts' = prompts \ {prompt}
    /\ lace' = [lace EXCEPT !.promise = NoApi, !.api = IF granted THEN prompt ELSE @]
    /\ flows' = [f \in Flows |->
                   IF flows[f].pc = "enabling" /\ flows[f].promise = prompt
                   THEN [flows[f] EXCEPT !.pc = "resume"] ELSE flows[f]]
    /\ UNCHANGED root

\* isEnabled() answers the attempt, with false, true or an exception.
EnabledAnswered(enabled) ==
    /\ Quiet /\ flows[Attempt].pc = "checking"
    /\ \/ /\ enabled /\ Connect(Attempt)
          /\ root' = [root EXCEPT !.connecting = TRUE]
       \/ /\ ~enabled /\ flows' = [flows EXCEPT ![Attempt].pc = "done"]
          /\ root' = [root EXCEPT !.initializing = FALSE]
          /\ UNCHANGED <<lace, prompts>>

\* The listener is there, the window's focus and the fallback timer are awaited.
Awaiting(r, f) == [r EXCEPT !.active = f, !.awaiting = TRUE, !.fallback = TRUE]

\* The attempt goes on, whatever became of connect().  With the address known its
\* listener is called before `unsubscribe` has a value, and throws after it set the
\* state: the listener stays, and neither polling nor the timer is started.
AttemptResumes ==
    /\ flows[Attempt].pc = "resume"
    /\ LET known == [lace |-> Added(lace, Attempt), root |-> ShowConnected(root, ApiNow(Page), lace.address)]
           subscribed == Subscribe(Page, Attempt, ApiOf)
           page == IF lace.address # NoOne THEN known
                   ELSE [subscribed EXCEPT !.root = Awaiting(@, Attempt)]
       IN  Becomes([page EXCEPT !.root.initializing = FALSE])
    /\ flows' = [flows EXCEPT ![Attempt].pc = IF lace.address # NoOne THEN "thrown" ELSE "done"]
    /\ UNCHANGED prompts

\* connect() of the root goes on: without an API it has failed.
ClickResumes(f) ==
    /\ flows[f].pc = "resume"
    /\ flows' = [flows EXCEPT ![f].pc = "done", ![f].api = lace.api]
    /\ LET subscribed == Subscribe(Page, f, [ApiOf EXCEPT ![f] = lace.api])
       IN  IF lace.api = NoApi
           THEN Becomes([Page EXCEPT !.root.connecting = FALSE])
           ELSE Becomes([subscribed EXCEPT !.root = Awaiting(@, f)])
    /\ UNCHANGED prompts

Resume == AttemptResumes \/ \E f \in Clicks : ClickResumes(f)

\* The user clicks; connect() returns at once while the root is busy.
Click(f) ==
    /\ Quiet /\ flows[f].pc = "idle" /\ \A g \in Clicks : g < f => flows[g].pc # "idle"
    /\ ~root.connecting /\ ~root.initializing
    /\ root' = [root EXCEPT !.connecting = TRUE]
    /\ Connect(f)

\* The way out of "Connecting": the listener of the flow goes, and polling with it.
GiveUp(r) == [r EXCEPT !.connecting = FALSE, !.active = NoListener, !.fallback = FALSE,
                       !.awaiting = FALSE]
LetGo(impl, l) == IF l = NoListener THEN impl ELSE Unsubscribe(impl, l)

\* The window has the focus again: the prompt was closed, it seems.
Focus ==
    /\ Quiet /\ root.connecting /\ root.awaiting /\ root.address = NoOne
    /\ Becomes([lace |-> LetGo(lace, root.active), root |-> GiveUp(root)])
    /\ UNCHANGED <<prompts, flows>>

\* The 60 seconds are over.
FallbackFires ==
    /\ Quiet /\ root.fallback
    /\ Becomes([lace |-> LetGo(lace, root.active), root |-> GiveUp(root)])
    /\ UNCHANGED <<prompts, flows>>

\* React runs the effect on `api` again: the cleanup of the last one also clears the
\* fallback timer.
SyncEffect ==
    /\ Quiet /\ root.synced # root.api
    /\ LET cleaned == [lace |-> IF root.synced = NoApi THEN lace ELSE Unsubscribe(lace, Sync),
                       root |-> [root EXCEPT !.fallback = FALSE, !.synced = root.api]]
       IN  Becomes(IF root.api = NoApi THEN cleaned ELSE Subscribe(cleaned, Sync, ApiOf))
    /\ UNCHANGED <<prompts, flows>>

-----------------------------------------------------------------------------
(* Disconnecting.                                                          *)

Disconnected(impl) ==
    [impl EXCEPT !.api = NoApi, !.promise = NoApi, !.timer = FALSE, !.address = NoOne]

\* disconnectWallet of the wallet capability: nobody is told.
Disconnect ==
    /\ Quiet /\ lace' = Disconnected(lace)
    /\ UNCHANGED <<prompts, root, flows>>

\* disconnect() of the root.
RootDisconnect ==
    /\ Quiet /\ lace' = Disconnected(lace)
    /\ root' = [root EXCEPT !.api = NoApi, !.address = NoOne]
    /\ UNCHANGED <<prompts, flows>>

-----------------------------------------------------------------------------

Fresh == [api |-> NoApi, promise |-> NoApi, opened |-> NoApi, listeners |-> <<>>, timer |-> FALSE,
          polls |-> 0, address |-> NoOne]

\* What an earlier mount left: the connection, and perhaps the listener of its button
\* with the polling that serves it, or the timer of a poll that ended after it.
Left(address, timer, listeners) ==
    [Fresh EXCEPT !.api = Earlier, !.address = address, !.timer = timer, !.listeners = listeners]

\* The root mounts; the attempt is made unless the user disconnected earlier.
Init ==
    /\ \/ lace = Fresh
       \/ \E address \in OrNone(Accounts), timer \in BOOLEAN, listeners \in {<<>>, <<Earlier>>} :
             (listeners # <<>> => timer) /\ lace = Left(address, timer, listeners)
    /\ prompts = {}
    /\ \E declined \in BOOLEAN :
         /\ root = [api |-> NoApi, address |-> NoOne, connecting |-> FALSE, initializing |-> ~declined,
                    awaiting |-> FALSE, active |-> NoListener, fallback |-> FALSE, synced |-> NoApi]
         /\ flows = [f \in Flows |->
                       [pc |-> IF f # Attempt THEN "idle" ELSE IF declined THEN "done" ELSE "checking",
                        promise |-> NoApi, api |-> NoApi]]

Next ==
    \/ PollFires \/ PollFails \/ \E address \in OrNone(Accounts) : PollAnswers(address)
    \/ \E prompt \in Prompts, granted \in BOOLEAN : PromptAnswered(prompt, granted)
    \/ \E enabled \in BOOLEAN : EnabledAnswered(enabled)
    \/ Resume \/ \E f \in Clicks : Click(f)
    \/ Focus \/ FallbackFires \/ SyncEffect
    \/ Disconnect \/ RootDisconnect

\* The event loop runs continuations, timers and effects.  The extension, its user
\* and the window's focus owe nothing.
Fairness == WF_vars(Resume) /\ WF_vars(FallbackFires) /\ WF_vars(SyncEffect) /\ WF_vars(PollFires)

Spec == Init /\ [][Next]_vars
FairSpec == Spec /\ Fairness

-----------------------------------------------------------------------------

\* Whoever listens to a wallet that has an API is served: a poll is under way or set
\* to come, after any order of subscriptions, removals, failures, disconnections and
\* new connections.  Each of startAccountPolling, stopAccountPolling and the poll's
\* own end leaves the timer to the others (lace-implementation.ts).
ListenersServed ==
    Quiet /\ root.synced = root.api /\ lace.api # NoApi /\ lace.listeners # <<>>
        => lace.timer \/ lace.polls > 0

\* "Connecting" ends, also when the wallet never responds: what the fallback timeout
\* of MidnightWalletUiRoot is described to ensure.
ConnectingEnds == root.connecting ~> ~root.connecting
=============================================================================
