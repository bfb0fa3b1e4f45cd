---------------------- MODULE RuntimeCapabilityProofs ----------------------
(***************************************************************************)
(* Proofs about RuntimeCapability, for any capabilities, calls and hooks    *)
(* and any depth of re-entrancy.  IInv ties the call table to the pending   *)
(* sets and to the call stack; NoCallLeftOpen and LiveResults follow.  HInv  *)
(* ties the loops of dispose() on the stack to the hooks that ran, for      *)
(* StagedOrder.  With both, the lifecycle implements CapabilityContract.    *)
(***************************************************************************)
EXTENDS RuntimeCapability, TLAPS

(* A call is in its capability's pending set exactly while it is pending.   *)
PendingIsTracked ==
    \A c \in Caps, o \in Ops : o \in pending[c] <=> owner[o] = c /\ call[o] = "pending"

(* dispose() leaves nothing pending. *)
DisposedIsDrained == \A c \in Caps : disposed[c] => pending[c] = {}

(* A body on the stack s belongs to a call that is running according to the *)
(* call table t, and is there once.                                         *)
Bodies(s, t) ==
    /\ \A i \in 1 .. Len(s) : s[i].kind = "call" => t[s[i].op] = "running"
    /\ \A i, j \in 1 .. Len(s) :
         s[i].kind = "call" /\ s[j].kind = "call" /\ s[i].op = s[j].op => i = j

IInv == TypeOK /\ PendingIsTracked /\ DisposedIsDrained /\ Bodies(stack, call)

-----------------------------------------------------------------------------
(* The call stack *)

(* What popping a frame leaves. *)
LEMMA Pop ==
    ASSUME NEW S, NEW s \in Seq(S), s # <<>>
    PROVE  /\ Head(s) \in S
           /\ Tail(s) \in Seq(S)
           /\ Head(s) = s[1]
           /\ 1 \in 1 .. Len(s)
           /\ Len(Tail(s)) = Len(s) - 1
           /\ \A i \in 1 .. Len(Tail(s)) : Tail(s)[i] = s[i + 1] /\ i + 1 \in 1 .. Len(s)
OBVIOUS

(* What pushing a frame makes. *)
LEMMA Push ==
    ASSUME NEW S, NEW s \in Seq(S), NEW f \in S
    PROVE  /\ <<f>> \o s \in Seq(S)
           /\ Len(<<f>> \o s) = Len(s) + 1
           /\ (<<f>> \o s)[1] = f
           /\ \A i \in 1 .. Len(s) + 1 :
                i # 1 => (<<f>> \o s)[i] = s[i - 1] /\ i - 1 \in 1 .. Len(s)
OBVIOUS

(* Popping keeps Bodies. *)
LEMMA BodiesPop ==
    ASSUME NEW s \in Seq(Frames), s # <<>>, NEW t, Bodies(s, t)
    PROVE  Bodies(Tail(s), t)
<1> DEFINE u == Tail(s)
<1>1. \A i \in 1 .. Len(u) : u[i] = s[i + 1] /\ i + 1 \in 1 .. Len(s)
  BY Pop
<1>2. Len(u) \in Nat
  BY Pop
<1> HIDE DEF u
<1>3. ASSUME NEW i \in 1 .. Len(u), u[i].kind = "call"
      PROVE  t[u[i].op] = "running"
  BY <1>1, <1>3 DEF Bodies
<1>4. ASSUME NEW i \in 1 .. Len(u), NEW j \in 1 .. Len(u),
             u[i].kind = "call", u[j].kind = "call", u[i].op = u[j].op
      PROVE  i = j
  <2>1. i + 1 = j + 1
    BY <1>1, <1>4 DEF Bodies
  <2> QED BY <2>1
<1>5. Bodies(u, t)
  BY <1>3, <1>4 DEF Bodies
<1> QED BY <1>5 DEF u

(* Pushing a frame that is not a method body keeps Bodies. *)
LEMMA BodiesPush ==
    ASSUME NEW s \in Seq(Frames), NEW f \in Frames, f.kind # "call", NEW t, Bodies(s, t)
    PROVE  Bodies(<<f>> \o s, t)
<1> DEFINE u == <<f>> \o s
<1>1. /\ Len(u) = Len(s) + 1
      /\ u[1] = f
      /\ \A i \in 1 .. Len(u) : i # 1 => u[i] = s[i - 1] /\ i - 1 \in 1 .. Len(s)
  BY Push
<1>2. Len(s) \in Nat
  OBVIOUS
<1> HIDE DEF u
<1>3. ASSUME NEW i \in 1 .. Len(u), u[i].kind = "call"
      PROVE  t[u[i].op] = "running"
  BY <1>1, <1>3 DEF Bodies
<1>4. ASSUME NEW i \in 1 .. Len(u), NEW j \in 1 .. Len(u),
             u[i].kind = "call", u[j].kind = "call", u[i].op = u[j].op
      PROVE  i = j
  <2>1. CASE i # 1 /\ j # 1
    <3>1. i - 1 = j - 1
      BY <1>1, <1>4, <2>1 DEF Bodies
    <3> QED BY <3>1
  <2>2. CASE i = 1 \/ j = 1
    BY <1>1, <1>4, <2>2 DEF Bodies
  <2> QED BY <2>1, <2>2
<1>5. Bodies(u, t)
  BY <1>3, <1>4 DEF Bodies
<1> QED BY <1>5 DEF u

(* Entering the body of a call that was not running keeps Bodies. *)
LEMMA BodiesEnter ==
    ASSUME NEW s \in Seq(Frames), NEW f \in Frames, f.kind = "call",
           NEW t, NEW v, Bodies(s, t),
           t[f.op] # "running", v[f.op] = "running",
           \A o \in Ops : t[o] = "running" => v[o] = "running"
    PROVE  Bodies(<<f>> \o s, v)
<1> DEFINE u == <<f>> \o s
<1>1. /\ Len(u) = Len(s) + 1
      /\ u[1] = f
      /\ \A i \in 1 .. Len(u) : i # 1 => u[i] = s[i - 1] /\ i - 1 \in 1 .. Len(s)
  BY Push
<1>2. Len(s) \in Nat
  OBVIOUS
<1>3. \A i \in 1 .. Len(s) : s[i].kind = "call" => s[i].op \in Ops
  BY DEF Frames
<1> HIDE DEF u
<1>4. ASSUME NEW i \in 1 .. Len(u), u[i].kind = "call"
      PROVE  v[u[i].op] = "running"
  BY <1>1, <1>3, <1>4 DEF Bodies
<1>5. ASSUME NEW i \in 1 .. Len(u), NEW j \in 1 .. Len(u),
             u[i].kind = "call", u[j].kind = "call", u[i].op = u[j].op
      PROVE  i = j
  <2>1. CASE i # 1 /\ j # 1
    <3>1. i - 1 = j - 1
      BY <1>1, <1>5, <2>1 DEF Bodies
    <3> QED BY <3>1
  <2>2. ASSUME NEW k \in 1 .. Len(u), k # 1, u[k].kind = "call" PROVE u[k].op # f.op
    <3>1. s[k - 1].kind = "call" /\ k - 1 \in 1 .. Len(s) /\ u[k] = s[k - 1]
      BY <1>1, <2>2
    <3>2. t[s[k - 1].op] = "running"
      BY <3>1 DEF Bodies
    <3> QED BY <3>1, <3>2
  <2>3. CASE i = 1 \/ j = 1
    BY <1>1, <1>5, <2>2, <2>3
  <2> QED BY <2>1, <2>3
<1>6. Bodies(u, v)
  BY <1>4, <1>5 DEF Bodies
<1> QED BY <1>6 DEF u

(* Leaving the body of call o keeps Bodies, whatever becomes of o. *)
LEMMA BodiesLeave ==
    ASSUME NEW s \in Seq(Frames), s # <<>>, NEW t, NEW v, Bodies(s, t),
           Head(s).kind = "call",
           \A o \in Ops : o # Head(s).op => v[o] = t[o]
    PROVE  Bodies(Tail(s), v)
<1> DEFINE u == Tail(s)
<1>1. /\ Head(s) = s[1]
      /\ 1 \in 1 .. Len(s)
      /\ \A i \in 1 .. Len(u) : u[i] = s[i + 1] /\ i + 1 \in 1 .. Len(s)
  BY Pop
<1>2. Len(u) \in Nat
  BY Pop
<1>3. \A i \in 1 .. Len(s) : s[i].kind = "call" => s[i].op \in Ops
  BY DEF Frames
<1> HIDE DEF u
<1>4. ASSUME NEW i \in 1 .. Len(u), u[i].kind = "call"
      PROVE  v[u[i].op] = "running"
  <2>1. t[s[i + 1].op] = "running" /\ s[i + 1].op # s[1].op
    BY <1>1, <1>4 DEF Bodies
  <2> QED BY <1>1, <1>3, <1>4, <2>1
<1>5. ASSUME NEW i \in 1 .. Len(u), NEW j \in 1 .. Len(u),
             u[i].kind = "call", u[j].kind = "call", u[i].op = u[j].op
      PROVE  i = j
  <2>1. i + 1 = j + 1
    BY <1>1, <1>5 DEF Bodies
  <2> QED BY <2>1
<1>6. Bodies(u, v)
  BY <1>4, <1>5 DEF Bodies
<1> QED BY <1>6 DEF u

(* Bodies only looks at which calls are running. *)
LEMMA BodiesTable ==
    ASSUME NEW s \in Seq(Frames), NEW t, NEW v, Bodies(s, t),
           \A o \in Ops : t[o] = "running" => v[o] = "running"
    PROVE  Bodies(s, v)
BY DEF Bodies, Frames
-----------------------------------------------------------------------------
(* The invariant *)

(* Initially, no call has been made and the stack is empty. *)
LEMMA InitIInv == Init => IInv
BY DEF Init, IInv, TypeOK, PendingIsTracked, DisposedIsDrained, Bodies, Stages, Frames, Final

(* dispose() keeps the invariant: it drains exactly c's pending set. *)
LEMMA DisposeIInv == ASSUME IInv, NEW c \in Caps, Dispose(c) PROVE IInv'
<1> DEFINE f == LoopFrame(c, 1, 1)
<1> USE DEF IInv
<1>1. f \in Frames /\ f.kind # "call"
  BY DEF LoopFrame, Frames, Stages
<1>2. stack \in Seq(Frames) /\ stack' = <<f>> \o stack
  BY DEF TypeOK, Dispose
<1>3. TypeOK'
  <2>1. stack' \in Seq(Frames)
    BY <1>1, <1>2, Push
  <2>2. call' \in [Ops -> {"unused", "running", "pending"} \union Final]
    BY DEF TypeOK, Dispose, Final
  <2>3. pending' \in [Caps -> SUBSET Ops] /\ disposed' \in [Caps -> BOOLEAN]
    BY DEF TypeOK, Dispose
  <2> QED BY <2>1, <2>2, <2>3 DEF TypeOK, Dispose
<1>4. PendingIsTracked'
  BY DEF PendingIsTracked, Dispose, TypeOK
<1>5. DisposedIsDrained'
  BY DEF DisposedIsDrained, Dispose, TypeOK
<1>6. Bodies(stack', call')
  <2>1. \A o \in Ops : call[o] = "running" => call'[o] = "running"
    BY DEF Dispose, PendingIsTracked
  <2>2. Bodies(stack, call')
    BY <1>2, <2>1, BodiesTable
  <2> HIDE DEF f
  <2> QED BY <1>1, <1>2, <2>2, BodiesPush
<1> QED BY <1>3, <1>4, <1>5, <1>6

(* The steps of the cleanup loop change the stack and nothing a call sees.  *)
LEMMA LoopIInv == ASSUME IInv, RunCleanup \/ HookEnds \/ NextStage \/ DisposeReturns PROVE IInv'
<1> DEFINE f == Head(stack)
           t == Tail(stack)
<1> USE DEF IInv
<1>1. /\ stack \in Seq(Frames) /\ stack # <<>>
      /\ UNCHANGED <<disposed, pending, call, inner, owner, cleanups, hook>>
  BY DEF TypeOK, RunCleanup, HookEnds, NextStage, DisposeReturns, Running
<1>2. f \in Frames /\ t \in Seq(Frames) /\ Bodies(t, call)
  BY <1>1, Pop, BodiesPop
<1>3. /\ stack' \in Seq(Frames)
      /\ Bodies(stack', call)
      /\ ran' \in Seq([cap : Caps, stage : Stages, hook : Hooks])
  <2>1. CASE HookEnds \/ DisposeReturns
    BY <1>2, <2>1 DEF HookEnds, DisposeReturns, TypeOK
  <2>2. CASE NextStage
    <3> DEFINE g == LoopFrame(f.cap, f.stage + 1, 1)
    <3>0. f.kind = "dispose" /\ f.stage < 5
      BY <2>2 DEF NextStage, Running
    <3>1. g \in Frames /\ g.kind # "call"
      <4>1. f.cap \in Caps /\ f.stage \in Stages
        BY <1>2, <3>0 DEF Frames
      <4> QED BY <3>0, <4>1 DEF LoopFrame, Frames, Stages
    <3>2. stack' = <<g>> \o t /\ ran' = ran
      BY <2>2 DEF NextStage
    <3> HIDE DEF f, t, g
    <3> QED BY <1>2, <3>1, <3>2, Push, BodiesPush DEF TypeOK
  <2>3. CASE RunCleanup
    <3> DEFINE h == cleanups[f.cap][f.stage][f.next]
               g == LoopFrame(f.cap, f.stage, f.next + 1)
               b == [kind |-> "hook", cap |-> f.cap, hook |-> h]
    <3>0. f.kind = "dispose"
      BY <2>3 DEF RunCleanup, Running
    <3>1. f.cap \in Caps /\ f.stage \in Stages /\ f.next \in Nat \ {0}
      BY <1>2, <3>0 DEF Frames
    <3>2. h \in Hooks
      <4>1. cleanups[f.cap][f.stage] \in Seq(Hooks)
        BY <3>1 DEF TypeOK
      <4>2. f.next <= Len(cleanups[f.cap][f.stage])
        BY <2>3 DEF RunCleanup
      <4> QED BY <3>1, <4>1, <4>2
    <3>3. g \in Frames /\ g.kind # "call"
      BY <3>1 DEF LoopFrame, Frames
    <3>4. b \in Frames /\ b.kind # "call"
      BY <3>1, <3>2 DEF Frames
    <3>5. ran' \in Seq([cap : Caps, stage : Stages, hook : Hooks])
      <4>1. ran' = Append(ran, [cap |-> f.cap, stage |-> f.stage, hook |-> h])
        BY <2>3 DEF RunCleanup
      <4> HIDE DEF f, h
      <4> QED BY <3>1, <3>2, <4>1 DEF TypeOK
    <3>6. stack' = <<b>> \o (<<g>> \o t)
      <4>1. stack' = <<b, g>> \o t
        BY <2>3 DEF RunCleanup
      <4> HIDE DEF f, t, g, b
      <4> QED BY <4>1, <1>2, <3>3, <3>4
    <3> HIDE DEF f, t, g, b
    <3>7. <<g>> \o t \in Seq(Frames) /\ Bodies(<<g>> \o t, call)
      BY <1>2, <3>3, Push, BodiesPush
    <3> QED BY <3>4, <3>5, <3>6, <3>7, Push, BodiesPush
  <2> QED BY <2>1, <2>2, <2>3
<1> QED BY <1>1, <1>3 DEF TypeOK, PendingIsTracked, DisposedIsDrained

(* Registering a hook touches neither calls nor the stack. *)
LEMMA RegisterIInv ==
    ASSUME IInv, NEW c \in Caps, NEW s \in Stages, NEW h \in Hooks, RegisterCleanup(c, s, h)
    PROVE  IInv'
<1> USE DEF IInv
<1>1. cleanups' \in [Caps -> [Stages -> Seq(Hooks)]]
  BY DEF TypeOK, RegisterCleanup
<1>2. hook' \in [Hooks -> {"new", "early", "late"}]
  BY DEF TypeOK, RegisterCleanup
<1>3. TypeOK' /\ UNCHANGED <<disposed, pending, call, owner, stack>>
  BY <1>1, <1>2 DEF TypeOK, RegisterCleanup
<1> QED BY <1>3 DEF PendingIsTracked, DisposedIsDrained

(* Entering a method body: the call was unused, so no body of it is there.  *)
LEMMA CallIInv == ASSUME IInv, NEW o \in Ops, CallMethod(o) PROVE IInv'
<1> DEFINE f == [kind |-> "call", cap |-> owner[o], op |-> o]
<1> USE DEF IInv
<1>1. f \in Frames /\ f.kind = "call" /\ f.op = o
  BY DEF Frames, TypeOK
<1>2. stack \in Seq(Frames) /\ stack' = <<f>> \o stack
  BY DEF TypeOK, CallMethod
<1>3. TypeOK'
  <2>1. stack' \in Seq(Frames)
    BY <1>1, <1>2, Push
  <2> QED BY <2>1 DEF TypeOK, CallMethod, Final
<1>4. PendingIsTracked'
  BY DEF PendingIsTracked, CallMethod, TypeOK
<1>5. DisposedIsDrained'
  BY DEF DisposedIsDrained, CallMethod
<1>6. Bodies(stack', call')
  <2>1. call[o] # "running" /\ call'[o] = "running"
    BY DEF CallMethod, TypeOK
  <2>2. \A p \in Ops : call[p] = "running" => call'[p] = "running"
    BY DEF CallMethod, TypeOK
  <2> HIDE DEF f
  <2> QED BY <1>1, <1>2, <2>1, <2>2, BodiesEnter
<1> QED BY <1>3, <1>4, <1>5, <1>6

(* Leaving the body of o: o was running, hence not pending anywhere; it     *)
(* becomes pending only if its capability is still live.                    *)
LEMMA LeaveIInv == ASSUME IInv, NEW o \in Ops, TrackPromise(o) \/ ReturnValue(o) PROVE IInv'
<1> USE DEF IInv
<1>1. /\ stack \in Seq(Frames) /\ stack # <<>>
      /\ Head(stack).kind = "call" /\ Head(stack).op = o
      /\ stack' = Tail(stack)
      /\ UNCHANGED <<disposed, owner, cleanups, hook, ran>>
  BY DEF TypeOK, TrackPromise, ReturnValue, InBodyOf, Running
<1>2. call[o] = "running"
  BY <1>1, Pop DEF Bodies
<1>3. /\ call' \in [Ops -> {"unused", "running", "pending"} \union Final]
      /\ \A p \in Ops : p # o => call'[p] = call[p]
      /\ inner' \in [Ops -> {"none", "inFlight", "done"}]
  <2>1. PICK v \in {"disposed", "pending", "returned"} : call' = [call EXCEPT ![o] = v]
    BY DEF TrackPromise, ReturnValue
  <2>2. inner' \in [Ops -> {"none", "inFlight", "done"}]
    BY DEF TypeOK, TrackPromise, ReturnValue
  <2> QED BY <2>1, <2>2 DEF TypeOK, Final
<1>4. owner[o] \in Caps
  BY DEF TypeOK
<1>5. /\ pending' \in [Caps -> SUBSET Ops]
      /\ PendingIsTracked'
      /\ DisposedIsDrained'
  <2>1. CASE TrackPromise(o) /\ ~disposed[owner[o]]
    <3>1. /\ pending' = [pending EXCEPT ![owner[o]] = @ \union {o}]
          /\ call' = [call EXCEPT ![o] = "pending"]
      BY <2>1 DEF TrackPromise
    <3>2. pending' \in [Caps -> SUBSET Ops]
      BY <3>1 DEF TypeOK
    <3>3. PendingIsTracked'
      BY <3>1, <1>1, <1>2, <1>4 DEF TypeOK, PendingIsTracked
    <3>4. DisposedIsDrained'
      BY <3>1, <1>1, <1>4, <2>1 DEF TypeOK, DisposedIsDrained
    <3> QED BY <3>2, <3>3, <3>4
  <2>2. CASE ReturnValue(o) \/ disposed[owner[o]]
    <3>1. pending' = pending /\ call'[o] # "pending"
      BY <2>2 DEF TrackPromise, ReturnValue, TypeOK
    <3>2. PendingIsTracked'
      BY <3>1, <1>1, <1>2, <1>3 DEF PendingIsTracked
    <3> QED BY <3>1, <3>2, <1>1 DEF TypeOK, DisposedIsDrained
  <2> QED BY <2>1, <2>2
<1>6. stack' \in Seq(Frames) /\ Bodies(stack', call')
  BY <1>1, <1>3, Pop, BodiesLeave
<1>7. TypeOK'
  BY <1>1, <1>3, <1>5, <1>6 DEF TypeOK
<1> QED BY <1>5, <1>6, <1>7

(* A settling promise leaves its capability's pending set. *)
LEMMA SettleIInv == ASSUME IInv, NEW o \in Ops, InnerSettles(o) PROVE IInv'
<1> USE DEF IInv
<1>1. /\ inner' \in [Ops -> {"none", "inFlight", "done"}]
      /\ stack' = stack
      /\ UNCHANGED <<disposed, owner, cleanups, hook, ran>>
  BY DEF TypeOK, InnerSettles
<1>2. CASE call[o] = "pending"
  <2>1. PICK r \in {"fulfilled", "failed"} : call' = [call EXCEPT ![o] = r]
    BY <1>2 DEF InnerSettles
  <2>2. pending' = [pending EXCEPT ![owner[o]] = @ \ {o}]
    BY <1>2 DEF InnerSettles
  <2>3. /\ call' \in [Ops -> {"unused", "running", "pending"} \union Final]
        /\ pending' \in [Caps -> SUBSET Ops]
    BY <2>1, <2>2 DEF TypeOK, Final
  <2>4. PendingIsTracked'
    BY <1>1, <1>2, <2>1, <2>2 DEF TypeOK, PendingIsTracked
  <2>5. DisposedIsDrained'
    BY <1>1, <2>2 DEF TypeOK, DisposedIsDrained
  <2>6. Bodies(stack', call')
    <3>1. \A p \in Ops : call[p] = "running" => call'[p] = "running"
      BY <1>2, <2>1 DEF TypeOK
    <3> QED BY <1>1, <3>1, BodiesTable DEF TypeOK
  <2> QED BY <1>1, <2>3, <2>4, <2>5, <2>6 DEF TypeOK
<1>3. CASE call[o] # "pending"
  <2>1. UNCHANGED <<call, pending>>
    BY <1>3 DEF InnerSettles
  <2> QED BY <1>1, <2>1 DEF TypeOK, PendingIsTracked, DisposedIsDrained
<1> QED BY <1>2, <1>3

(* IInv is inductive. *)
LEMMA StepIInv == IInv /\ [Next]_vars => IInv'
<1> SUFFICES ASSUME IInv, [Next]_vars PROVE IInv'
  OBVIOUS
<1>1. CASE Next
  BY <1>1, DisposeIInv, LoopIInv, RegisterIInv, CallIInv, LeaveIInv, SettleIInv DEF Next
<1>2. CASE UNCHANGED vars
  BY <1>2 DEF vars, IInv, TypeOK, PendingIsTracked, DisposedIsDrained
<1> QED BY <1>1, <1>2

(* The inductive invariant holds in every reachable state. *)
THEOREM Invariance == SafetySpec => []IInv
BY InitIInv, StepIInv, PTL DEF SafetySpec

-----------------------------------------------------------------------------
(* What follows *)

(* Every variable of the lifecycle keeps its type. *)
THEOREM TypeCorrect == SafetySpec => []TypeOK
<1>1. IInv => TypeOK
  BY DEF IInv
<1> QED BY <1>1, Invariance, PTL

(* A disposed capability owes nobody an answer, whatever its hooks and      *)
(* method bodies did while it was being disposed.                           *)
THEOREM NothingLeftOpen == SafetySpec => []NoCallLeftOpen
<1>1. IInv => NoCallLeftOpen
  BY DEF IInv, NoCallLeftOpen, PendingIsTracked, DisposedIsDrained, TypeOK
<1> QED BY <1>1, Invariance, PTL

(* What a caller was told is never taken back, and the method's own result  *)
(* reaches the caller only while the capability is live.                    *)
THEOREM ResultsAreLive == SafetySpec => LiveResults
<1> DEFINE Kept(o) ==
      /\ call[o] \in Final => call'[o] = call[o]
      /\ call'[o] \in {"fulfilled", "failed"} /\ call'[o] # call[o] => ~disposed[owner[o]]
<1>1. IInv /\ [Next]_vars => \A o \in Ops : Kept(o)
  <2> SUFFICES ASSUME IInv, [Next]_vars, NEW o \in Ops PROVE Kept(o)
    OBVIOUS
  <2> USE DEF IInv
  <2>1. ASSUME NEW c \in Caps, Dispose(c) PROVE Kept(o)
    BY <2>1 DEF Dispose, PendingIsTracked, Final, TypeOK
  <2>2. ASSUME NEW p \in Ops, CallMethod(p) PROVE Kept(o)
    BY <2>2 DEF CallMethod, Final, TypeOK
  <2>3. ASSUME NEW p \in Ops, TrackPromise(p) \/ ReturnValue(p) PROVE Kept(o)
    <3>1. stack \in Seq(Frames) /\ stack # <<>> /\ Head(stack).kind = "call" /\ Head(stack).op = p
      BY <2>3 DEF TypeOK, TrackPromise, ReturnValue, InBodyOf, Running
    <3>2. call[p] = "running"
      BY <3>1, Pop DEF Bodies
    <3>3. PICK v \in {"disposed", "pending", "returned"} : call' = [call EXCEPT ![p] = v]
      BY <2>3 DEF TrackPromise, ReturnValue
    <3> QED BY <3>2, <3>3 DEF Final, TypeOK
  <2>4. ASSUME NEW p \in Ops, InnerSettles(p) PROVE Kept(o)
    <3>1. CASE call[p] = "pending"
      <4>1. PICK r \in {"fulfilled", "failed"} : call' = [call EXCEPT ![p] = r]
        BY <2>4, <3>1 DEF InnerSettles
      <4>2. ~disposed[owner[p]]
        BY <3>1 DEF PendingIsTracked, DisposedIsDrained, TypeOK
      <4> QED BY <3>1, <4>1, <4>2 DEF Final, TypeOK
    <3>2. CASE call[p] # "pending"
      BY <2>4, <3>2 DEF InnerSettles
    <3> QED BY <3>1, <3>2
  <2>5. CASE UNCHANGED call
    BY <2>5
  <2> QED
    BY <2>1, <2>2, <2>3, <2>4, <2>5
    DEF Next, vars, RegisterCleanup, RunCleanup, HookEnds, NextStage, DisposeReturns
<1>2. IInv /\ [Next]_vars => [\A o \in Ops : Kept(o)]_vars
  BY <1>1
<1> QED BY <1>2, Invariance, PTL DEF SafetySpec, LiveResults

-----------------------------------------------------------------------------
(* The cleanup loops and the hooks *)

(* Where hook h stands among the hooks cl registered on c for stage s.      *)
StandsAt(cl, c, s, p, h) == p \in 1 .. Len(cl[c][s]) /\ cl[c][s][p] = h

(* A cleanup loop belongs to a disposed capability (flags d), and has run   *)
(* (history r) no hook of a later stage nor, of its own stage, any it has   *)
(* yet to visit.                                                            *)
Visits(f, d, r, cl) ==
    f.kind = "dispose" =>
        /\ d[f.cap]
        /\ \A k \in 1 .. Len(r) : r[k].cap = f.cap =>
             /\ r[k].stage <= f.stage
             /\ r[k].stage = f.stage =>
                  \A p \in Nat : StandsAt(cl, f.cap, f.stage, p, r[k].hook) => p < f.next

(* The loops on the stack s are as they should be, and each capability has  *)
(* one at most.                                                             *)
Loops(s, d, r, cl) ==
    /\ \A i \in 1 .. Len(s) : Visits(s[i], d, r, cl)
    /\ \A i, j \in 1 .. Len(s) :
         s[i].kind = "dispose" /\ s[j].kind = "dispose" /\ s[i].cap = s[j].cap => i = j

(* A hook is registered once. *)
OnePlace(cl) ==
    \A c, d \in Caps, s, t \in Stages, p, q \in Nat, h \in Hooks :
        StandsAt(cl, c, s, p, h) /\ StandsAt(cl, d, t, q, h) => c = d /\ s = t /\ p = q

(* A registered hook is not new any more. *)
RegisteredIsOld(cl, reg) ==
    \A c \in Caps, s \in Stages, p \in Nat, h \in Hooks : StandsAt(cl, c, s, p, h) => reg[h] # "new"

(* A hook that ran is registered where it ran, and its capability is        *)
(* disposed.                                                                *)
RanIsRegistered(r, d, cl) ==
    \A k \in 1 .. Len(r) :
        /\ d[r[k].cap]
        /\ \E p \in Nat : StandsAt(cl, r[k].cap, r[k].stage, p, r[k].hook)

(* A hook runs once. *)
RunsOnce(r) == \A i, j \in 1 .. Len(r) : r[i].hook = r[j].hook => i = j

HInv ==
    /\ Loops(stack, disposed, ran, cleanups)
    /\ OnePlace(cleanups)
    /\ RegisteredIsOld(cleanups, hook)
    /\ RanIsRegistered(ran, disposed, cleanups)
    /\ RunsOnce(ran)
    /\ StagedOrder

(* Popping keeps Loops, and a loop that is popped was its capability's only *)
(* one.                                                                     *)
LEMMA LoopsPop ==
    ASSUME NEW s \in Seq(Frames), s # <<>>, NEW d, NEW r, NEW cl, Loops(s, d, r, cl)
    PROVE  /\ Loops(Tail(s), d, r, cl)
           /\ Head(s).kind = "dispose" =>
                \A i \in 1 .. Len(Tail(s)) :
                    Tail(s)[i].kind = "dispose" => Tail(s)[i].cap # Head(s).cap
<1> DEFINE u == Tail(s)
<1>1. /\ Head(s) = s[1]
      /\ 1 \in 1 .. Len(s)
      /\ \A i \in 1 .. Len(u) : u[i] = s[i + 1] /\ i + 1 \in 1 .. Len(s)
  BY Pop
<1>2. Len(u) \in Nat
  BY Pop
<1> HIDE DEF u
<1>3. ASSUME NEW i \in 1 .. Len(u) PROVE Visits(u[i], d, r, cl)
  BY <1>1 DEF Loops
<1>4. ASSUME NEW i \in 1 .. Len(u), NEW j \in 1 .. Len(u),
             u[i].kind = "dispose", u[j].kind = "dispose", u[i].cap = u[j].cap
      PROVE  i = j
  <2>1. i + 1 = j + 1
    BY <1>1, <1>4 DEF Loops
  <2> QED BY <2>1
<1>5. Loops(u, d, r, cl)
  BY <1>3, <1>4 DEF Loops
<1>6. ASSUME s[1].kind = "dispose", NEW i \in 1 .. Len(u), u[i].kind = "dispose"
      PROVE  u[i].cap # s[1].cap
  <2>1. i + 1 # 1
    OBVIOUS
  <2> QED BY <1>1, <1>6, <2>1 DEF Loops
<1> QED BY <1>1, <1>5, <1>6 DEF u

(* Pushing a frame keeps Loops if the frame is as it should be, and no      *)
(* other loop if it is one.                                                 *)
LEMMA LoopsPush ==
    ASSUME NEW s \in Seq(Frames), NEW f \in Frames, NEW d, NEW r, NEW cl, Loops(s, d, r, cl),
           Visits(f, d, r, cl),
           f.kind = "dispose" =>
             \A i \in 1 .. Len(s) : s[i].kind = "dispose" => s[i].cap # f.cap
    PROVE  Loops(<<f>> \o s, d, r, cl)
<1> DEFINE u == <<f>> \o s
<1>1. /\ Len(u) = Len(s) + 1
      /\ u[1] = f
      /\ \A i \in 1 .. Len(u) : i # 1 => u[i] = s[i - 1] /\ i - 1 \in 1 .. Len(s)
  BY Push
<1>2. Len(s) \in Nat
  OBVIOUS
<1> HIDE DEF u
<1>3. ASSUME NEW i \in 1 .. Len(u) PROVE Visits(u[i], d, r, cl)
  BY <1>1 DEF Loops
<1>4. ASSUME NEW i \in 1 .. Len(u), NEW j \in 1 .. Len(u),
             u[i].kind = "dispose", u[j].kind = "dispose", u[i].cap = u[j].cap
      PROVE  i = j
  <2>1. CASE i # 1 /\ j # 1
    <3>1. i - 1 = j - 1
      BY <1>1, <1>4, <2>1 DEF Loops
    <3> QED BY <3>1
  <2>2. CASE i = 1 \/ j = 1
    BY <1>1, <1>4, <2>2
  <2> QED BY <2>1, <2>2
<1>5. Loops(u, d, r, cl)
  BY <1>3, <1>4 DEF Loops
<1> QED BY <1>5 DEF u

(* Loops looks at the flags, the history and the lists one loop at a time.  *)
LEMMA LoopsKept ==
    ASSUME NEW s \in Seq(Frames), NEW d, NEW r, NEW cl, Loops(s, d, r, cl),
           NEW e, NEW t, NEW dl,
           \A i \in 1 .. Len(s) : Visits(s[i], d, r, cl) => Visits(s[i], e, t, dl)
    PROVE  Loops(s, e, t, dl)
BY DEF Loops

-----------------------------------------------------------------------------
(* HInv is inductive, given IInv *)

(* Initially, no hook is registered and none has run. *)
LEMMA InitHInv == Init => HInv
BY DEF Init, HInv, Loops, OnePlace, RegisteredIsOld, RanIsRegistered, RunsOnce, StagedOrder,
       StandsAt, Stages

(* What the history records of a hook. *)
LEMMA RanFields ==
    ASSUME NEW r \in Seq([cap : Caps, stage : Stages, hook : Hooks]), NEW k \in 1 .. Len(r)
    PROVE  r[k].cap \in Caps /\ r[k].stage \in Stages /\ r[k].hook \in Hooks
<1> DEFINE R == [cap : Caps, stage : Stages, hook : Hooks]
<1>1. r \in Seq(R)
  OBVIOUS
<1>2. r[k] \in R
  <2> HIDE DEF R
  <2> QED BY <1>1
<1> QED BY <1>2

(* HInv is about five of the variables. *)
LEMMA SameHInv ==
    ASSUME HInv, UNCHANGED <<disposed, cleanups, hook, ran>>,
           Loops(stack', disposed, ran, cleanups)
    PROVE  HInv'
BY DEF HInv, OnePlace, RegisteredIsOld, RanIsRegistered, RunsOnce, StagedOrder, StandsAt

(* dispose() enters the first loop of its capability, which has run no hook *)
(* before.                                                                  *)
LEMMA DisposeHInv == ASSUME IInv, HInv, NEW c \in Caps, Dispose(c) PROVE HInv'
<1> DEFINE f == LoopFrame(c, 1, 1)
           d == [disposed EXCEPT ![c] = TRUE]
<1> USE DEF HInv
<1>0. /\ stack \in Seq(Frames) /\ disposed \in [Caps -> BOOLEAN]
      /\ ran \in Seq([cap : Caps, stage : Stages, hook : Hooks])
  BY DEF IInv, TypeOK
<1>1. /\ ~disposed[c] /\ disposed' = d /\ stack' = <<f>> \o stack
      /\ UNCHANGED <<cleanups, hook, ran>>
  BY DEF Dispose
<1>2. \A e \in Caps : disposed[e] => d[e]
  BY <1>0
<1>3. Loops(stack, d, ran, cleanups)
  <2>1. ASSUME NEW i \in 1 .. Len(stack), Visits(stack[i], disposed, ran, cleanups)
        PROVE  Visits(stack[i], d, ran, cleanups)
    <3>1. stack[i].kind = "dispose" => stack[i].cap \in Caps
      BY <1>0 DEF Frames
    <3> HIDE DEF d
    <3> QED BY <1>2, <2>1, <3>1 DEF Visits
  <2> HIDE DEF d
  <2> QED BY <1>0, <2>1, LoopsKept
<1>4. /\ f \in Frames /\ f.kind = "dispose" /\ f.cap = c /\ d[f.cap]
  BY <1>0 DEF LoopFrame, Frames, Stages
<1>5. \A k \in 1 .. Len(ran) : ran[k].cap # c
  BY <1>1 DEF RanIsRegistered
<1>6. Visits(f, d, ran, cleanups)
  BY <1>4, <1>5 DEF Visits
<1>7. \A i \in 1 .. Len(stack) : stack[i].kind = "dispose" => stack[i].cap # f.cap
  BY <1>1, <1>4 DEF Loops, Visits
<1>8. Loops(stack', disposed', ran', cleanups')
  <2> HIDE DEF f, d
  <2> QED BY <1>0, <1>1, <1>3, <1>4, <1>6, <1>7, LoopsPush
<1>9. RanIsRegistered(ran, d, cleanups)
  <2>1. \A k \in 1 .. Len(ran) : ran[k].cap \in Caps
    BY <1>0, RanFields
  <2> HIDE DEF d
  <2> QED BY <1>2, <2>1 DEF RanIsRegistered
<1>10. /\ OnePlace(cleanups') /\ RegisteredIsOld(cleanups', hook')
       /\ RunsOnce(ran') /\ StagedOrder'
  BY <1>1 DEF StagedOrder
<1> HIDE DEF d
<1> QED BY <1>1, <1>8, <1>9, <1>10

(* A frame that ends, a body that is entered. *)
LEMMA PopHInv == ASSUME IInv, HInv, stack # <<>>, stack' = Tail(stack),
                        UNCHANGED <<disposed, cleanups, hook, ran>>
                 PROVE  HInv'
<1>1. Loops(Tail(stack), disposed, ran, cleanups)
  BY LoopsPop DEF IInv, TypeOK, HInv
<1> QED BY <1>1, SameHInv

LEMMA CallHInv == ASSUME IInv, HInv, NEW o \in Ops, CallMethod(o) PROVE HInv'
<1> DEFINE f == [kind |-> "call", cap |-> owner[o], op |-> o]
<1>1. /\ f \in Frames /\ f.kind # "dispose"
      /\ stack \in Seq(Frames) /\ stack' = <<f>> \o stack
      /\ UNCHANGED <<disposed, cleanups, hook, ran>>
  BY DEF IInv, TypeOK, CallMethod, Frames
<1>2. Visits(f, disposed, ran, cleanups)
  BY <1>1 DEF Visits
<1>3. Loops(stack', disposed, ran, cleanups)
  <2> HIDE DEF f
  <2> QED BY <1>1, <1>2, LoopsPush DEF HInv
<1> QED BY <1>1, <1>3, SameHInv

(* The loop goes on to the next stage, of which no hook has run yet. *)
LEMMA NextStageHInv == ASSUME IInv, HInv, NextStage PROVE HInv'
<1> DEFINE f == Head(stack)
           t == Tail(stack)
           g == LoopFrame(f.cap, f.stage + 1, 1)
<1>1. /\ stack \in Seq(Frames) /\ stack # <<>> /\ f.kind = "dispose" /\ f.stage < 5
      /\ stack' = <<g>> \o t
      /\ UNCHANGED <<disposed, cleanups, hook, ran>>
  BY DEF IInv, TypeOK, NextStage, Running
<1>2. f \in Frames /\ t \in Seq(Frames) /\ f = stack[1] /\ 1 \in 1 .. Len(stack)
  BY <1>1, Pop
<1>3. f.cap \in Caps /\ f.stage \in Stages
  BY <1>1, <1>2 DEF Frames
<1>4. g \in Frames /\ g.kind = "dispose" /\ g.cap = f.cap /\ g.stage = f.stage + 1
  BY <1>1, <1>3 DEF LoopFrame, Frames, Stages
<1>5. /\ Loops(t, disposed, ran, cleanups)
      /\ \A i \in 1 .. Len(t) : t[i].kind = "dispose" => t[i].cap # f.cap
  BY <1>1, LoopsPop DEF HInv
<1>6. Visits(f, disposed, ran, cleanups)
  BY <1>2 DEF HInv, Loops
<1>7. Visits(g, disposed, ran, cleanups)
  <2>1. \A k \in 1 .. Len(ran) : ran[k].stage \in Stages
    BY RanFields DEF IInv, TypeOK
  <2> HIDE DEF f, g
  <2>2. f.stage \in 1 .. 5 /\ \A k \in 1 .. Len(ran) : ran[k].stage \in 1 .. 5
    BY <1>3, <2>1 DEF Stages
  <2>3. disposed[f.cap] /\ \A k \in 1 .. Len(ran) : ran[k].cap = f.cap => ran[k].stage <= f.stage
    BY <1>1, <1>6 DEF Visits
  <2>4. \A k \in 1 .. Len(ran) : ran[k].cap = f.cap =>
          ran[k].stage <= f.stage + 1 /\ ran[k].stage # f.stage + 1
    BY <2>2, <2>3
  <2> QED BY <1>4, <2>3, <2>4 DEF Visits
<1>8. Loops(stack', disposed, ran, cleanups)
  <2> HIDE DEF f, g, t
  <2> QED BY <1>1, <1>2, <1>4, <1>5, <1>7, LoopsPush
<1> QED BY <1>1, <1>8, SameHInv

(* The lists after hook h was registered on c for stage s. *)
WithHook(cl, c, s, h) == [cl EXCEPT ![c][s] = Append(@, h)]

(* Where the hooks stand then. *)
LEMMA Registered ==
    ASSUME NEW cl \in [Caps -> [Stages -> Seq(Hooks)]],
           NEW c \in Caps, NEW s \in Stages, NEW h \in Hooks
    PROVE  \A d \in Caps, t \in Stages, p \in Nat, k \in Hooks :
             StandsAt(WithHook(cl, c, s, h), d, t, p, k) <=>
               \/ StandsAt(cl, d, t, p, k)
               \/ d = c /\ t = s /\ p = Len(cl[c][s]) + 1 /\ k = h
<1> TAKE d \in Caps, t \in Stages, p \in Nat, k \in Hooks
<1> DEFINE q == cl[c][s]
           new == WithHook(cl, c, s, h)
<1>1. q \in Seq(Hooks)
  OBVIOUS
<1>2. CASE d = c /\ t = s
  <2>1. new[d][t] = Append(q, h)
    BY <1>2 DEF WithHook
  <2>2. /\ Len(Append(q, h)) = Len(q) + 1
        /\ Append(q, h)[Len(q) + 1] = h
        /\ \A i \in 1 .. Len(q) : Append(q, h)[i] = q[i]
    <3> HIDE DEF q
    <3> QED BY <1>1
  <2>3. Len(q) \in Nat
    BY <1>1
  <2>4. StandsAt(new, d, t, p, k) <=> p \in 1 .. Len(q) + 1 /\ Append(q, h)[p] = k
    <3> HIDE DEF q
    <3> QED BY <2>1, <2>2 DEF StandsAt
  <2>5. StandsAt(cl, d, t, p, k) <=> p \in 1 .. Len(q) /\ q[p] = k
    BY <1>2 DEF StandsAt
  <2> HIDE DEF q
  <2>6. p \in 1 .. Len(q) + 1 <=> p \in 1 .. Len(q) \/ p = Len(q) + 1
    BY <2>3
  <2>7. Len(q) + 1 \notin 1 .. Len(q)
    BY <2>3
  <2>8. StandsAt(new, d, t, p, k) <=> StandsAt(cl, d, t, p, k) \/ (p = Len(q) + 1 /\ k = h)
    <3>1. CASE p = Len(q) + 1
      BY <2>2, <2>4, <2>5, <2>6, <2>7, <3>1, Zenon
    <3>2. CASE p # Len(q) + 1
      BY <2>2, <2>4, <2>5, <2>6, <3>2, Zenon
    <3> QED BY <3>1, <3>2
  <2> QED BY <1>2, <2>8, Zenon DEF q
<1>3. CASE ~(d = c /\ t = s)
  <2>1. new[d][t] = cl[d][t]
    BY <1>3 DEF WithHook
  <2> QED BY <1>3, <2>1 DEF StandsAt
<1> QED BY <1>2, <1>3

(* A new hook has not run, so it may be appended to any list, also to one a *)
(* loop is going through.                                                   *)
LEMMA RegisterHInv ==
    ASSUME IInv, HInv, NEW c \in Caps, NEW s \in Stages, NEW h \in Hooks, RegisterCleanup(c, s, h)
    PROVE  HInv'
<1> DEFINE cl == cleanups'
<1>1. /\ cl = [cleanups EXCEPT ![c][s] = Append(@, h)]
      /\ hook[h] = "new" /\ hook' \in [Hooks -> {"early", "late", "new"}] /\ hook'[h] # "new"
      /\ \A k \in Hooks : hook[k] # "new" => hook'[k] # "new"
      /\ UNCHANGED <<disposed, ran, stack>>
  BY DEF RegisterCleanup, IInv, TypeOK
<1>2. /\ cleanups \in [Caps -> [Stages -> Seq(Hooks)]] /\ stack \in Seq(Frames)
      /\ \A k \in 1 .. Len(ran) : ran[k].cap \in Caps /\ ran[k].stage \in Stages /\ ran[k].hook \in Hooks
  BY RanFields DEF IInv, TypeOK
<1>3. \A d \in Caps, t \in Stages, p \in Nat, k \in Hooks :
        StandsAt(cl, d, t, p, k) <=>
          \/ StandsAt(cleanups, d, t, p, k)
          \/ d = c /\ t = s /\ p = Len(cleanups[c][s]) + 1 /\ k = h
  <2> HIDE DEF cl
  <2>1. cleanups \in [Caps -> [Stages -> Seq(Hooks)]] /\ cl = WithHook(cleanups, c, s, h)
    BY <1>1, <1>2 DEF WithHook
  <2>2. \A d \in Caps, t \in Stages, p \in Nat, k \in Hooks :
          StandsAt(WithHook(cleanups, c, s, h), d, t, p, k) <=>
            \/ StandsAt(cleanups, d, t, p, k)
            \/ d = c /\ t = s /\ p = Len(cleanups[c][s]) + 1 /\ k = h
    BY <2>1, Registered
  <2> QED BY <2>1, <2>2
<1>4. \A d \in Caps, t \in Stages, p \in Nat : ~StandsAt(cleanups, d, t, p, h)
  BY <1>1 DEF HInv, RegisteredIsOld
<1>5. \A k \in 1 .. Len(ran) : ran[k].hook # h
  BY <1>2, <1>4 DEF HInv, RanIsRegistered
<1> HIDE DEF cl
<1>6. ASSUME NEW i \in 1 .. Len(stack), Visits(stack[i], disposed, ran, cleanups)
      PROVE  Visits(stack[i], disposed, ran, cl)
  <2>1. stack[i] \in Frames
    BY <1>2
  <2>2. stack[i].kind = "dispose" => stack[i].cap \in Caps /\ stack[i].stage \in Stages
    BY <2>1 DEF Frames
  <2>3. ASSUME NEW k \in 1 .. Len(ran), ran[k].cap = stack[i].cap, stack[i].kind = "dispose",
               ran[k].stage = stack[i].stage, NEW p \in Nat,
               StandsAt(cl, stack[i].cap, stack[i].stage, p, ran[k].hook)
        PROVE  p < stack[i].next
    <3>1. StandsAt(cleanups, stack[i].cap, stack[i].stage, p, ran[k].hook)
      BY <1>2, <1>3, <1>5, <2>2, <2>3, Zenon
    <3> QED BY <1>6, <2>3, <3>1 DEF Visits
  <2> QED BY <1>6, <2>3 DEF Visits
<1>7. Loops(stack, disposed, ran, cl)
  BY <1>2, <1>6, LoopsKept DEF HInv
<1>8. OnePlace(cl)
  BY <1>3, <1>4 DEF OnePlace, HInv
<1>9. RegisteredIsOld(cl, hook')
  BY <1>1, <1>3 DEF RegisteredIsOld, HInv
<1>10. RanIsRegistered(ran, disposed, cl)
  BY <1>2, <1>3 DEF RanIsRegistered, HInv
<1> QED BY <1>1, <1>7, <1>8, <1>9, <1>10 DEF HInv, RunsOnce, StagedOrder, cl

(* A hook that is about to run stands where the loop is, and has not run.   *)
LEMMA NextHook ==
    ASSUME IInv, HInv, RunCleanup
    PROVE  LET f == Head(stack)
               h == cleanups[f.cap][f.stage][f.next]
           IN /\ f.kind = "dispose" /\ f.cap \in Caps /\ f.stage \in Stages /\ f.next \in Nat \ {0}
              /\ h \in Hooks
              /\ disposed[f.cap]
              /\ StandsAt(cleanups, f.cap, f.stage, f.next, h)
              /\ \A k \in 1 .. Len(ran) : ran[k].hook # h
<1> DEFINE f == Head(stack)
           h == cleanups[f.cap][f.stage][f.next]
<1>1. stack \in Seq(Frames) /\ stack # <<>> /\ f.kind = "dispose"
  BY DEF IInv, TypeOK, RunCleanup, Running
<1>2. f \in Frames /\ f = stack[1] /\ 1 \in 1 .. Len(stack)
  BY <1>1, Pop
<1>3. f.cap \in Caps /\ f.stage \in Stages /\ f.next \in Nat \ {0}
  BY <1>1, <1>2 DEF Frames
<1>4. cleanups[f.cap][f.stage] \in Seq(Hooks) /\ f.next <= Len(cleanups[f.cap][f.stage])
  BY <1>3 DEF IInv, TypeOK, RunCleanup
<1>5. h \in Hooks /\ StandsAt(cleanups, f.cap, f.stage, f.next, h)
  BY <1>3, <1>4 DEF StandsAt
<1>6. Visits(f, disposed, ran, cleanups)
  BY <1>2 DEF HInv, Loops
<1>7. ASSUME NEW k \in 1 .. Len(ran), ran[k].hook = h PROVE FALSE
  <2> HIDE DEF f, h
  <2>1. ran[k].cap \in Caps /\ ran[k].stage \in Stages
    BY RanFields DEF IInv, TypeOK
  <2>2. PICK p \in Nat : StandsAt(cleanups, ran[k].cap, ran[k].stage, p, h)
    BY <1>7 DEF HInv, RanIsRegistered
  <2>3. ran[k].cap = f.cap /\ ran[k].stage = f.stage /\ p = f.next
    BY <1>3, <1>5, <2>1, <2>2 DEF HInv, OnePlace
  <2>4. p < f.next
    BY <1>1, <1>6, <1>7, <2>2, <2>3 DEF Visits
  <2> QED BY <1>3, <2>3, <2>4
<1> QED BY <1>1, <1>3, <1>5, <1>6, <1>7 DEF Visits

LEMMA FramesMade ==
    ASSUME NEW c \in Caps, NEW s \in Stages, NEW n \in Nat \ {0}, NEW x \in Hooks
    PROVE  /\ LoopFrame(c, s, n) \in Frames /\ LoopFrame(c, s, n).kind = "dispose"
           /\ LoopFrame(c, s, n).cap = c /\ LoopFrame(c, s, n).stage = s /\ LoopFrame(c, s, n).next = n
           /\ [kind |-> "hook", cap |-> c, hook |-> x] \in Frames
BY DEF LoopFrame, Frames

(* Running a hook: it was the first of its loop that had not run, and no    *)
(* hook of a later stage had.                                               *)
LEMMA RunHInv == ASSUME IInv, HInv, RunCleanup PROVE HInv'
<1> DEFINE f == Head(stack)
           t == Tail(stack)
           h == cleanups[f.cap][f.stage][f.next]
           e == [cap |-> f.cap, stage |-> f.stage, hook |-> h]
           g == LoopFrame(f.cap, f.stage, f.next + 1)
           b == [kind |-> "hook", cap |-> f.cap, hook |-> h]
           r == Append(ran, e)
<1>1. /\ stack \in Seq(Frames) /\ stack # <<>>
      /\ ran' = r /\ stack' = <<b, g>> \o t
      /\ UNCHANGED <<disposed, cleanups, hook>>
  BY DEF IInv, TypeOK, RunCleanup, Running
<1>2. /\ f.kind = "dispose" /\ f.cap \in Caps /\ f.stage \in Stages /\ f.next \in Nat \ {0}
      /\ h \in Hooks
      /\ disposed[f.cap]
      /\ StandsAt(cleanups, f.cap, f.stage, f.next, h)
      /\ \A k \in 1 .. Len(ran) : ran[k].hook # h
  BY NextHook
<1>3. f = stack[1] /\ 1 \in 1 .. Len(stack) /\ t \in Seq(Frames)
  BY <1>1, Pop
<1>4. /\ g \in Frames /\ g.kind = "dispose" /\ g.cap = f.cap /\ g.stage = f.stage
      /\ g.next = f.next + 1
      /\ b \in Frames /\ b.kind = "hook"
  <2> HIDE DEF f, h
  <2>1. f.next + 1 \in Nat \ {0}
    BY <1>2
  <2>2. LoopFrame(f.cap, f.stage, f.next + 1) \in Frames /\ [kind |-> "hook", cap |-> f.cap, hook |-> h] \in Frames
    BY <1>2, <2>1, FramesMade
  <2>3. /\ g.kind = "dispose" /\ g.cap = f.cap /\ g.stage = f.stage /\ g.next = f.next + 1
    BY DEF LoopFrame
  <2>4. b.kind = "hook" /\ g \in Frames /\ b \in Frames
    BY <2>2
  <2> QED BY <2>3, <2>4
<1>5. e.cap = f.cap /\ e.stage = f.stage /\ e.hook = h
  OBVIOUS
<1>6. Visits(f, disposed, ran, cleanups)
  BY <1>3 DEF HInv, Loops
<1>7. /\ Loops(t, disposed, ran, cleanups)
      /\ \A i \in 1 .. Len(t) : t[i].kind = "dispose" => t[i].cap # f.cap
  BY <1>1, <1>2, LoopsPop DEF HInv
<1> HIDE DEF f, t, h, e, g, b
<1>8. /\ Len(ran) \in Nat
      /\ \A k \in 1 .. Len(r) : k \in 1 .. Len(ran) \/ k = Len(ran) + 1
      /\ \A k \in 1 .. Len(ran) : r[k] = ran[k]
      /\ r[Len(ran) + 1] = e
  <2>1. ran \in Seq([cap : Caps, stage : Stages, hook : Hooks])
    BY DEF IInv, TypeOK
  <2> DEFINE R == [cap : Caps, stage : Stages, hook : Hooks]
  <2> HIDE DEF R
  <2> QED BY <2>1
<1> HIDE DEF r
<1>9. \A p \in Nat : StandsAt(cleanups, f.cap, f.stage, p, h) => p = f.next
  BY <1>2 DEF HInv, OnePlace
<1>10. Visits(g, disposed, r, cleanups)
  <2>1. ASSUME NEW k \in 1 .. Len(r), r[k].cap = f.cap
        PROVE  /\ r[k].stage <= f.stage
               /\ r[k].stage = f.stage =>
                    \A p \in Nat : StandsAt(cleanups, f.cap, f.stage, p, r[k].hook) => p < f.next + 1
    <3>1. CASE k \in 1 .. Len(ran)
      BY <1>2, <1>6, <1>8, <2>1, <3>1 DEF Visits
    <3>2. CASE k = Len(ran) + 1
      BY <1>2, <1>5, <1>8, <1>9, <3>2 DEF Stages
    <3> QED BY <1>8, <3>1, <3>2
  <2> QED BY <1>2, <1>4, <2>1 DEF Visits
<1>11. Visits(b, disposed, r, cleanups)
  BY <1>4 DEF Visits
<1>12. Loops(t, disposed, r, cleanups)
  <2>1. ASSUME NEW i \in 1 .. Len(t), Visits(t[i], disposed, ran, cleanups)
        PROVE  Visits(t[i], disposed, r, cleanups)
    BY <1>5, <1>7, <1>8, <2>1 DEF Visits
  <2> QED BY <1>3, <1>7, <2>1, LoopsKept
<1>13. Loops(stack', disposed, r, cleanups)
  <2>1. stack' = <<b>> \o (<<g>> \o t)
    BY <1>1, <1>3, <1>4
  <2>2. <<g>> \o t \in Seq(Frames)
    BY <1>3, <1>4, Push
  <2>3. Loops(<<g>> \o t, disposed, r, cleanups)
    BY <1>3, <1>4, <1>7, <1>10, <1>12, LoopsPush
  <2> QED BY <1>4, <1>11, <2>1, <2>2, <2>3, LoopsPush
<1>14. RanIsRegistered(r, disposed, cleanups)
  BY <1>2, <1>5, <1>8 DEF RanIsRegistered, HInv
<1>15. RunsOnce(r)
  <2> SUFFICES ASSUME NEW i \in 1 .. Len(r), NEW j \in 1 .. Len(r), r[i].hook = r[j].hook
               PROVE  i = j
    BY DEF RunsOnce
  <2>1. CASE i \in 1 .. Len(ran) /\ j \in 1 .. Len(ran)
    BY <1>8, <2>1 DEF RunsOnce, HInv
  <2>2. CASE i \in 1 .. Len(ran) /\ j = Len(ran) + 1
    BY <1>2, <1>5, <1>8, <2>2
  <2>3. CASE i = Len(ran) + 1 /\ j \in 1 .. Len(ran)
    BY <1>2, <1>5, <1>8, <2>3
  <2> QED BY <1>8, <2>1, <2>2, <2>3
<1>16. ASSUME NEW i \in 1 .. Len(r), NEW j \in 1 .. Len(r), i < j, r[i].cap = r[j].cap
       PROVE  r[i].stage <= r[j].stage
  <2>1. i \in 1 .. Len(ran)
    BY <1>8, <1>16
  <2>2. CASE j \in 1 .. Len(ran)
    BY <1>8, <1>16, <2>1, <2>2 DEF HInv, StagedOrder
  <2>3. CASE j = Len(ran) + 1
    BY <1>2, <1>5, <1>6, <1>8, <1>16, <2>1, <2>3 DEF Visits
  <2> QED BY <1>8, <2>2, <2>3
<1> QED BY <1>1, <1>13, <1>14, <1>15, <1>16 DEF HInv, StagedOrder, OnePlace, RegisteredIsOld

LEMMA StepHInv == IInv /\ HInv /\ [Next]_vars => HInv'
<1> SUFFICES ASSUME IInv, HInv, [Next]_vars PROVE HInv'
  OBVIOUS
<1>1. ASSUME HookEnds \/ DisposeReturns PROVE HInv'
  BY <1>1, PopHInv DEF HookEnds, DisposeReturns, Running
<1>2. ASSUME NEW o \in Ops, TrackPromise(o) \/ ReturnValue(o) PROVE HInv'
  BY <1>2, PopHInv DEF TrackPromise, ReturnValue, InBodyOf, Running
<1>3. ASSUME NEW o \in Ops, InnerSettles(o) PROVE HInv'
  BY <1>3, SameHInv DEF InnerSettles, HInv
<1>4. CASE UNCHANGED vars
  BY <1>4, SameHInv DEF vars, HInv
<1> QED
  BY <1>1, <1>2, <1>3, <1>4, DisposeHInv, RegisterHInv, CallHInv, RunHInv, NextStageHInv DEF Next

(* Both invariants hold in every reachable state. *)
THEOREM HookInvariance == SafetySpec => [](IInv /\ HInv)
BY InitIInv, InitHInv, StepIInv, StepHInv, PTL DEF SafetySpec

(* Hooks of one capability run stage by stage, in the order the release of  *)
(* resources needs, even when they dispose further capabilities or register *)
(* more hooks.                                                              *)
THEOREM StagesInOrder == SafetySpec => []StagedOrder
<1>1. HInv => StagedOrder
  BY DEF HInv
<1> QED BY <1>1, HookInvariance, PTL

(* No hook runs twice, however often and from wherever its capability is    *)
(* disposed.                                                                *)
THEOREM HooksAreRunOnce == SafetySpec => []HooksRunOnce
<1>1. HInv => HooksRunOnce
  BY DEF HInv, RunsOnce, HooksRunOnce
<1> QED BY <1>1, HookInvariance, PTL

-----------------------------------------------------------------------------
(* The refinement of CapabilityContract *)

(* The contract's variables, as INSTANCE Contract maps them.                *)
Live == {c \in Caps : ~disposed[c]}
Result == [o \in Ops |-> IF call[o] \in Final THEN call[o] ELSE "none"]
AttachedTo == [c \in Caps |-> {h \in Hooks : Attached(c, h)}]
Released == {ran[i].hook : i \in 1 .. Len(ran)}

(* A step that leaves the contract's variables as they are. *)
Stutters == UNCHANGED <<Live, pending, Result, AttachedTo, Released>>

LEMMA StutterIsNone == ASSUME Stutters PROVE UNCHANGED Contract!contractVars
BY DEF Stutters, Contract!contractVars, Live, Result, AttachedTo, Released

(* A hook is attached to a capability where it stands in one of its lists.  *)
LEMMA AttachedStands ==
    ASSUME TypeOK, NEW c \in Caps, NEW h \in Hooks
    PROVE  Attached(c, h) <=> \E s \in Stages, p \in Nat : StandsAt(cleanups, c, s, p, h)
<1>1. \A s \in Stages : Len(cleanups[c][s]) \in Nat
  BY DEF TypeOK
<1> QED BY <1>1 DEF Attached, StandsAt

LEMMA InitContract == Init => Contract!Init
<1> SUFFICES ASSUME Init PROVE Contract!Init
  OBVIOUS
<1>1. Live = Caps /\ pending = [c \in Caps |-> {}]
  BY DEF Init, Live
<1>2. Result = [o \in Ops |-> "none"]
  BY DEF Init, Result, Final
<1>3. AttachedTo = [c \in Caps |-> {}]
  BY DEF Init, AttachedTo, Attached, Stages
<1>4. Released = {}
  BY DEF Init, Released
<1> QED BY <1>1, <1>2, <1>3, <1>4 DEF Contract!Init, Live, Result, AttachedTo, Released

(* dispose() settles what is pending and takes its capability out. *)
LEMMA DisposeContract ==
    ASSUME IInv, NEW c \in Caps, Dispose(c) PROVE Contract!Dispose(c)
<1> USE DEF IInv
<1>1. c \in Live /\ Live' = Live \ {c}
  BY DEF Dispose, TypeOK, Live
<1>2. pending' = [pending EXCEPT ![c] = {}]
  BY DEF Dispose
<1>3. Result' = [o \in Ops |-> IF o \in pending[c] THEN "disposed" ELSE Result[o]]
  BY DEF Dispose, Result, Final
<1>4. AttachedTo' = AttachedTo /\ Released' = Released
  BY DEF Dispose, AttachedTo, Released, Attached
<1> QED
  BY <1>1, <1>2, <1>3, <1>4 DEF Contract!Dispose, Live, Result, AttachedTo, Released

(* A new hook is attached nowhere, and afterwards to its capability. *)
LEMMA RegisterContract ==
    ASSUME IInv, HInv, NEW c \in Caps, NEW s \in Stages, NEW h \in Hooks, RegisterCleanup(c, s, h)
    PROVE  Contract!Attach(c, h)
<1>0. TypeOK /\ cleanups \in [Caps -> [Stages -> Seq(Hooks)]]
  BY DEF IInv, TypeOK
<1>1. TypeOK' /\ hook[h] = "new" /\ cleanups' = WithHook(cleanups, c, s, h)
  BY RegisterIInv DEF RegisterCleanup, WithHook, IInv
<1>2. \A d \in Caps : h \notin AttachedTo[d]
  BY <1>0, <1>1, AttachedStands DEF HInv, RegisteredIsOld, AttachedTo
<1>3. ASSUME NEW d \in Caps, NEW k \in Hooks
      PROVE  Attached(d, k)' <=> Attached(d, k) \/ (d = c /\ k = h)
  <2>1. Attached(d, k)' <=> \E t \in Stages, p \in Nat : StandsAt(cleanups', d, t, p, k)
    BY <1>1, AttachedStands DEF Attached, StandsAt, TypeOK
  <2>2. \A t \in Stages, p \in Nat :
          StandsAt(cleanups', d, t, p, k) <=>
            \/ StandsAt(cleanups, d, t, p, k)
            \/ d = c /\ t = s /\ p = Len(cleanups[c][s]) + 1 /\ k = h
    BY <1>0, <1>1, Registered
  <2>3. Len(cleanups[c][s]) + 1 \in Nat
    BY <1>0
  <2> QED BY <1>0, <2>1, <2>2, <2>3, AttachedStands
<1>4. AttachedTo' = [AttachedTo EXCEPT ![c] = @ \union {h}]
  BY <1>3 DEF AttachedTo
<1>5. UNCHANGED <<Live, pending, Result, Released>>
  BY DEF RegisterCleanup, Live, Result, Released
<1> QED
  BY <1>2, <1>4, <1>5 DEF Contract!Attach, Live, Result, AttachedTo, Released

(* Entering a body is no step of the contract's. *)
LEMMA CallContract == ASSUME IInv, NEW o \in Ops, CallMethod(o) PROVE Stutters
BY DEF IInv, TypeOK, CallMethod, Stutters, Live, Result, AttachedTo, Released, Attached, Final

(* A promise handed out opens the call, or refuses it when the capability   *)
(* went away meanwhile.                                                     *)
LEMMA TrackContract ==
    ASSUME IInv, NEW o \in Ops, TrackPromise(o)
    PROVE  Contract!Open(owner[o], o) \/ Contract!Refuse(owner[o], o)
<1> USE DEF IInv
<1>1. call[o] = "running"
  <2>1. stack \in Seq(Frames) /\ stack # <<>> /\ Head(stack).kind = "call" /\ Head(stack).op = o
    BY DEF TypeOK, TrackPromise, InBodyOf, Running
  <2> QED BY <2>1, Pop DEF Bodies
<1>2. Result[o] = "none" /\ \A c \in Caps : o \notin pending[c]
  BY <1>1 DEF Result, Final, PendingIsTracked
<1>3. owner[o] \in Caps /\ UNCHANGED <<Live, AttachedTo, Released>>
  BY DEF TypeOK, TrackPromise, Live, AttachedTo, Released, Attached
<1>4. CASE disposed[owner[o]]
  <2>1. UNCHANGED pending /\ call' = [call EXCEPT ![o] = "disposed"]
    BY <1>4 DEF TrackPromise
  <2>2. Result' = [Result EXCEPT ![o] = "disposed"]
    BY <2>1 DEF Result, Final, TypeOK
  <2> QED
    BY <1>2, <1>3, <1>4, <2>1, <2>2
    DEF Contract!Refuse, Contract!Unheard, Live, Result, AttachedTo, Released
<1>5. CASE ~disposed[owner[o]]
  <2>1. /\ pending' = [pending EXCEPT ![owner[o]] = @ \union {o}]
        /\ call' = [call EXCEPT ![o] = "pending"]
    BY <1>5 DEF TrackPromise
  <2>2. Result' = Result
    BY <1>1, <2>1 DEF Result, Final, TypeOK
  <2> QED
    BY <1>2, <1>3, <1>5, <2>1, <2>2
    DEF Contract!Open, Contract!Unheard, Live, Result, AttachedTo, Released
<1> QED BY <1>4, <1>5

LEMMA ReturnContract == ASSUME IInv, NEW o \in Ops, ReturnValue(o) PROVE Contract!Return(o)
<1> USE DEF IInv
<1>1. call[o] = "running"
  <2>1. stack \in Seq(Frames) /\ stack # <<>> /\ Head(stack).kind = "call" /\ Head(stack).op = o
    BY DEF TypeOK, ReturnValue, InBodyOf, Running
  <2> QED BY <2>1, Pop DEF Bodies
<1>2. Result[o] = "none" /\ \A c \in Caps : o \notin pending[c]
  BY <1>1 DEF Result, Final, PendingIsTracked
<1>3. UNCHANGED <<Live, pending, AttachedTo, Released>>
  BY DEF ReturnValue, Live, AttachedTo, Released, Attached
<1>4. Result' = [Result EXCEPT ![o] = "returned"]
  BY DEF ReturnValue, Result, Final, TypeOK
<1> QED
  BY <1>2, <1>3, <1>4
  DEF Contract!Return, Contract!Unheard, Live, Result, AttachedTo, Released

(* A result that comes in time settles the call; a late one is dropped. *)
LEMMA SettleContract ==
    ASSUME IInv, NEW o \in Ops, InnerSettles(o) PROVE Contract!Settle(owner[o], o) \/ Stutters
<1> USE DEF IInv
<1>1. owner[o] \in Caps /\ UNCHANGED <<Live, AttachedTo, Released>>
  BY DEF TypeOK, InnerSettles, Live, AttachedTo, Released, Attached
<1>2. CASE call[o] = "pending"
  <2>1. PICK r \in {"fulfilled", "failed"} : call' = [call EXCEPT ![o] = r]
    BY <1>2 DEF InnerSettles
  <2>2. pending' = [pending EXCEPT ![owner[o]] = @ \ {o}]
    BY <1>2 DEF InnerSettles
  <2>3. owner[o] \in Live /\ o \in pending[owner[o]]
    BY <1>1, <1>2 DEF PendingIsTracked, DisposedIsDrained, TypeOK, Live
  <2>4. Result' = [Result EXCEPT ![o] = r]
    BY <2>1 DEF Result, Final, TypeOK
  <2> QED
    BY <1>1, <2>2, <2>3, <2>4 DEF Contract!Settle, Live, Result, AttachedTo, Released
<1>3. CASE call[o] # "pending"
  BY <1>1, <1>3 DEF InnerSettles, Stutters, Result
<1> QED BY <1>2, <1>3

(* Running a hook releases what it was attached to, once. *)
LEMMA RunContract ==
    ASSUME IInv, HInv, RunCleanup
    PROVE  \E c \in Caps, h \in Hooks : Contract!Release(c, h)
<1> DEFINE f == Head(stack)
           h == cleanups[f.cap][f.stage][f.next]
           e == [cap |-> f.cap, stage |-> f.stage, hook |-> h]
<1>1. /\ f.cap \in Caps /\ f.stage \in Stages /\ f.next \in Nat /\ h \in Hooks /\ disposed[f.cap]
      /\ StandsAt(cleanups, f.cap, f.stage, f.next, h)
      /\ \A k \in 1 .. Len(ran) : ran[k].hook # h
  BY NextHook
<1>2. ran' = Append(ran, e) /\ UNCHANGED <<disposed, pending, call, cleanups>>
  BY DEF RunCleanup
<1> HIDE DEF f, h
<1>3. f.cap \notin Live /\ h \in AttachedTo[f.cap] /\ h \notin Released
  BY <1>1, AttachedStands DEF Live, AttachedTo, Released, IInv
<1>4. Released' = Released \union {h}
  <2>1. ran \in Seq([cap : Caps, stage : Stages, hook : Hooks])
    BY DEF IInv, TypeOK
  <2> DEFINE R == [cap : Caps, stage : Stages, hook : Hooks]
  <2>2. e.hook = h
    OBVIOUS
  <2> HIDE DEF R, e
  <2>3. /\ Len(ran) \in Nat /\ Len(ran') = Len(ran) + 1
        /\ \A k \in 1 .. Len(ran) : ran'[k] = ran[k]
        /\ ran'[Len(ran) + 1] = e
    BY <1>2, <2>1 DEF R
  <2> QED BY <2>2, <2>3 DEF Released
<1>5. UNCHANGED <<Live, pending, Result, AttachedTo>>
  BY <1>2 DEF Live, Result, AttachedTo, Attached
<1>6. PICK c \in Caps, k \in Hooks : c = f.cap /\ k = h
  BY <1>1
<1>7. Contract!Release(c, k)
  BY <1>3, <1>4, <1>5, <1>6 DEF Contract!Release, Live, Result, AttachedTo, Released
<1> QED BY <1>7

(* Every step of the lifecycle is a step of the contract, or none. *)
LEMMA StepContract == IInv /\ HInv /\ [Next]_vars => [Contract!Next]_(Contract!contractVars)
<1> SUFFICES ASSUME IInv, HInv, [Next]_vars
             PROVE  Contract!Next \/ UNCHANGED Contract!contractVars
  OBVIOUS
<1>1. ASSUME NEW c \in Caps, Dispose(c) PROVE Contract!Next
  BY <1>1, DisposeContract DEF Contract!Next
<1>2. ASSUME NEW c \in Caps, NEW s \in Stages, NEW h \in Hooks, RegisterCleanup(c, s, h)
      PROVE  Contract!Next
  BY <1>2, RegisterContract DEF Contract!Next
<1>3. ASSUME NEW o \in Ops, TrackPromise(o) PROVE Contract!Next
  BY <1>3, TrackContract DEF Contract!Next, IInv, TypeOK
<1>4. ASSUME NEW o \in Ops, ReturnValue(o) PROVE Contract!Next
  BY <1>4, ReturnContract DEF Contract!Next
<1>5. ASSUME NEW o \in Ops, InnerSettles(o)
      PROVE  Contract!Next \/ UNCHANGED Contract!contractVars
  BY <1>5, SettleContract, StutterIsNone DEF Contract!Next, IInv, TypeOK
<1>6. ASSUME NEW o \in Ops, CallMethod(o) PROVE UNCHANGED Contract!contractVars
  BY <1>6, CallContract, StutterIsNone
<1>7. ASSUME RunCleanup PROVE Contract!Next
  BY <1>7, RunContract DEF Contract!Next
<1>8. ASSUME HookEnds \/ NextStage \/ DisposeReturns \/ UNCHANGED vars
      PROVE  UNCHANGED Contract!contractVars
  <2>1. UNCHANGED <<disposed, pending, call, cleanups, ran>>
    BY <1>8 DEF HookEnds, NextStage, DisposeReturns, vars
  <2>2. Stutters
    BY <2>1 DEF Stutters, Live, Result, AttachedTo, Released, Attached
  <2> QED BY <2>2, StutterIsNone
<1> QED
  BY <1>1, <1>2, <1>3, <1>4, <1>5, <1>6, <1>7, <1>8 DEF Next

(* The lifecycle keeps what CapabilityContract promises the code that holds *)
(* capabilities: a promise settles once, with its own result only while its *)
(* capability is live, and a hook runs at most once, on the capability it   *)
(* was registered on, after that one was disposed.                          *)
THEOREM LifecycleKeepsContract == SafetySpec => ImplementsContract
BY InitContract, StepContract, HookInvariance, PTL DEF SafetySpec, ImplementsContract, Contract!Spec

=============================================================================
