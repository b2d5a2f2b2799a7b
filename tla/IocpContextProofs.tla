-------------------------- MODULE IocpContextProofs --------------------------
(***************************************************************************)
(* asio's io_service, whatever the number of threads, operations and       *)
(* failures: no wait is slept through, outstanding_work_ counts the work,  *)
(* no operation is run twice, and a stop reaches every thread.             *)
(***************************************************************************)
EXTENDS IocpContext, Elements, FiniteSetTheorems

(* NeverOverslept is inductive, given that times are numbers and that no   *)
(* wait is later than the period of the waitable timer.                    *)
Timing ==
  /\ due \in Int /\ now \in Int
  /\ \A w \in waits : w.at \in Int /\ w.at <= MaxTime
  /\ pc \in [Threads -> Labels] /\ ret \in [Threads -> Labels]
  /\ NeverOverslept

LEMMA InitTiming == Init => Timing
BY BoundAssumption DEF Init, Timing, NeverOverslept, Period, Labels

(* A thread that is not about to dispatch goes elsewhere, no wait is added *)
(* and the waitable timer is left as it is: nothing to show.               *)
LEMMA Elsewhere ==
  ASSUME Timing, NEW t \in Threads, pc[t] # "dispatch",
         waits' \subseteq waits, UNCHANGED <<due, timer, now>>, required => required',
         pc' \in [Threads -> Labels], ret' \in [Threads -> Labels],
         \A u \in Threads \ {t} : pc'[u] = pc[u]
  PROVE  Timing'
<1>1. \A u \in Threads : At(u, "dispatch") => At(u, "dispatch")'
  BY DEF At
<1> QED
  BY <1>1 DEF Timing, NeverOverslept

(* Beginning a wait: only one that is the earliest sets the timer; any     *)
(* other has an earlier one before it.                                     *)
LEMMA ScheduleTiming ==
  ASSUME Timing, NEW t \in Threads, ScheduleTimer(t)
  PROVE  Timing'
<1> USE BoundAssumption
<1>1. PICK o \in Ops \ used, at \in now .. MaxTime :
        /\ waits' = waits \cup {[op |-> o, at |-> at]}
        /\ IF \A w \in waits : at < w.at THEN due' = at ELSE UNCHANGED due
  BY DEF ScheduleTimer, Schedule
<1>2. at \in Int /\ at <= MaxTime
  BY DEF Timing
<1>3. UNCHANGED <<pc, ret, required, now>> /\ (timer = "set" => timer' = "set")
  BY DEF ScheduleTimer, Schedule, threadVars
<1>4. ASSUME NEW w \in waits'
      PROVE  \/ due' <= w.at
             \/ required \/ timer = "set" \/ \E u \in Threads : At(u, "dispatch")
  <2>1. CASE \A v \in waits : at < v.at
    BY <1>1, <1>2, <1>4, <2>1 DEF Timing
  <2>2. CASE \E v \in waits : v.at <= at
    BY <1>1, <1>2, <1>4, <2>2 DEF Timing, NeverOverslept
  <2> QED
    BY <1>2, <2>1, <2>2 DEF Timing
<1>5. NeverOverslept'
  BY <1>3, <1>4 DEF NeverOverslept, At
<1> QED
  BY <1>1, <1>2, <1>3, <1>5 DEF Timing

(* Dispatching: what is left in the queue is what the timer is set for.    *)
LEMMA DispatchTiming ==
  ASSUME Timing, NEW t \in Threads, Dispatch(t)
  PROVE  Timing'
<1>1. waits' \subseteq waits /\ UNCHANGED <<now, ret>>
  BY DEF Dispatch
<1>2. pc' \in [Threads -> Labels]
  BY DEF Dispatch, Goto, Timing, Labels
<1>3. waits' = waits \ Expired /\ UpdateTimeout(waits \ Expired)
  BY DEF Dispatch
<1>4. (waits' = {} /\ due' = due)
        \/ \E w \in waits' : (\A v \in waits' : w.at <= v.at) /\ due' = w.at
  BY <1>3 DEF UpdateTimeout
<1>5. due' \in Int /\ \A v \in waits' : due' <= v.at
  BY <1>1, <1>4 DEF Timing
<1> QED
  BY <1>1, <1>2, <1>5 DEF Timing, NeverOverslept

LEMMA ContinueTiming ==
  ASSUME Timing, NEW t \in Threads, Continue(t)
  PROVE  Timing'
<1> USE DEF At, Goto, Return
<1>1. CASE Dispatch(t)
  BY <1>1, DispatchTiming
<1>2. CASE Acquire(t)
  <2>1. UNCHANGED <<waits, due, timer, now, ret>> /\ pc' \in [Threads -> Labels]
    BY <1>2 DEF Acquire, timerVars, Timing, Labels
  <2>2. required => pc'[t] = "dispatch"
    BY <1>2 DEF Acquire, Timing
  <2>3. \A u \in Threads : pc[u] = "dispatch" => pc'[u] = "dispatch"
    BY <1>2 DEF Acquire, Timing
  <2>4. ASSUME NEW w \in waits
        PROVE  due <= w.at \/ timer = "set" \/ \E u \in Threads : pc'[u] = "dispatch"
    BY <2>2, <2>3 DEF Timing, NeverOverslept
  <2>5. NeverOverslept'
    BY <2>1, <2>4 DEF NeverOverslept
  <2> QED
    BY <2>1, <2>5 DEF Timing
<1>3. CASE Push(t) \/ OnPending(t)
  <2>1. PostDeferred(<<arg[t]>>, completed) => (required => required')
    BY DEF PostDeferred
  <2>2. pc[t] # "dispatch" /\ UNCHANGED <<waits, due, timer, now>> /\ (required => required')
    BY <1>3, <2>1 DEF Push, OnPending, timerVars
  <2>3. pc' = [pc EXCEPT ![t] = ret[t]] /\ ret' = [ret EXCEPT ![t] = "out"]
    BY <1>3 DEF Push, OnPending
  <2> QED
    BY <2>2, <2>3, Elsewhere DEF Timing, Labels
<1>4. CASE Stop(t) \/ StopFlag(t) \/ StopPost(t)
  BY <1>4, Elsewhere DEF Stop, StopFlag, StopPost, Timing, timerVars, Labels
<1>5. CASE GetOp(t) \/ GetWake(t)
  BY <1>5, Elsewhere DEF GetOp, GetWake, Wakened, Timing, timerVars, Labels
<1>6. CASE GetStop(t) \/ StopReset(t) \/ StopCheck(t)
  BY <1>6, Elsewhere DEF GetStop, StopReset, StopCheck, Timing, timerVars, Labels
<1>7. CASE Finish(t)
  BY <1>7, Elsewhere DEF Finish, Timing, timerVars, Labels
<1> QED
  BY <1>1, <1>2, <1>3, <1>4, <1>5, <1>6, <1>7 DEF Continue

LEMMA CallTiming ==
  ASSUME Timing, NEW t \in Threads, Call(t) \/ Run(t)
  PROVE  Timing'
<1> USE DEF At, Goto, CanCall
<1>1. CASE ScheduleTimer(t)
  BY <1>1, ScheduleTiming
<1>2. CASE Post(t) \/ StartTransfer(t)
  BY <1>2, Elsewhere DEF Post, StartTransfer, Timing, timerVars, Labels
<1>3. CASE CancelTimer(t)
  BY <1>3, Elsewhere DEF CancelTimer, PostDeferred, Timing, threadVars
<1>4. CASE Run(t)
  BY <1>4, Elsewhere DEF Run, Timing, timerVars, Labels
<1> QED
  BY <1>1, <1>2, <1>3, <1>4 DEF Call

(* From the signal on it is the timer thread, and then dispatch_required_, *)
(* that stand for the waits the timer signalled for.                       *)
LEMMA EnvironmentTiming ==
  ASSUME Timing, Restart \/ TransferDone \/ TimerThread \/ Tick
  PROVE  Timing'
<1> USE BoundAssumption DEF Timing, NeverOverslept, At, timerVars, threadVars
<1>1. CASE Restart \/ TransferDone
  BY <1>1 DEF Restart, TransferDone
<1>2. CASE Signal
  BY <1>2 DEF Signal, Period
<1>3. CASE TimerSet
  BY <1>3 DEF TimerSet
<1>4. CASE TimerPost
  BY <1>4 DEF TimerPost
<1>5. CASE Tick
  BY <1>5 DEF Tick
<1> QED
  BY <1>1, <1>2, <1>3, <1>4, <1>5 DEF TimerThread

(* The waitable timer never signals too late for a wait in the queue       *)
(* (update_timeout, schedule_timer, do_one), unless a dispatch is called   *)
(* for already.                                                            *)
THEOREM WaitsAreMet == Spec => []NeverOverslept
<1>1. Init => Timing
  BY InitTiming
<1>2. Timing /\ [Next]_vars => Timing'
  <2> SUFFICES ASSUME Timing, [Next]_vars PROVE Timing'
    OBVIOUS
  <2>1. CASE Next
    BY <2>1, CallTiming, ContinueTiming, EnvironmentTiming DEF Next
  <2>2. CASE UNCHANGED vars
    BY <2>2 DEF Timing, NeverOverslept, At, vars, timerVars, threadVars
  <2> QED
    BY <2>1, <2>2
<1>3. Timing => NeverOverslept
  BY DEF Timing
<1> QED
  BY <1>1, <1>2, <1>3, PTL DEF Spec
-----------------------------------------------------------------------------
(* Where the operations are.                                               *)

Packets == Ops \cup {Wake, StopEvent}

(* Operations and stop events are in the port once.                        *)
Once == {r \in Packets \X Packets : r[1] = r[2] => r[1] = Wake}

(* A thread has an operation in hand to post it, or because it has begun   *)
(* it: then it is unready until the packet has come out of the port.       *)
Carries(t) == pc[t] \in {"push", "pending"}
Loose == {arg[t] : t \in {u \in Threads : Carries(u)}} \ unready

Unrun == {o \in used : runs[o] = 0}
Queued == (Elems(port) \cap Ops) \cup Elems(completed)
Timed == {w.op : w \in waits}

Shape == TypeOK /\ runs \in [Ops -> Nat]

Hands ==
  \A t \in Threads : Carries(t) =>
    /\ arg[t] \in used /\ (pc[t] = "push" => arg[t] \notin unready)
    /\ \A u \in Threads : Carries(u) /\ arg[u] = arg[t] => u = t

(* Each operation is in one place, once, and is run when it leaves that.   *)
Places ==
  /\ Sorted(port, Once) /\ Sorted(completed, Once) /\ Elems(port) \cap Elems(completed) = {}
  /\ IsFiniteSet(waits) /\ \A v, w \in waits : v.op = w.op => v = w
  /\ Queued \cap (Timed \cup transfers \cup Loose) = {}
  /\ Timed \cap (transfers \cup Loose) = {} /\ transfers \cap Loose = {}
  /\ Queued \cup Timed \cup transfers \cup Loose \subseteq Unrun

Books == Shape /\ Hands /\ Places

(* Only a handler has a call to return to it, and not one of stop().       *)
Returning == \A t \in Threads : ret[t] = "handler" => Carries(t)

Counting ==
  /\ IsFiniteSet(Unrun) /\ IsFiniteSet(Running) /\ Returning
  /\ WorkCounted

-----------------------------------------------------------------------------
LEMMA PacketFacts ==
  /\ Ops \subseteq Packets /\ Wake \in Packets /\ StopEvent \in Packets
  /\ Wake # StopEvent /\ Wake \notin Ops /\ StopEvent \notin Ops /\ NoOp \notin Ops
BY PacketAssumption DEF Packets, Wake, StopEvent, NoOp

LEMMA SeqTypes ==
  ASSUME Shape
  PROVE  /\ port \in Seq(Packets) /\ completed \in Seq(Ops) /\ completed \in Seq(Packets)
         /\ Elems(port) \subseteq Packets /\ Elems(completed) \subseteq Ops
<1>1. port \in Seq(Packets) /\ completed \in Seq(Ops)
  BY DEF Shape, TypeOK, Packets
<1>2. completed \in Seq(Packets)
  BY <1>1, PacketFacts, SeqMonotonic
<1> QED
  BY <1>1, <1>2, ElemsTyped

LEMMA OneElement ==
  ASSUME NEW S, NEW x \in S, NEW R
  PROVE  <<x>> \in Seq(S) /\ Elems(<<x>>) = {x} /\ Sorted(<<x>>, R)
<1>1. <<x>> \in Seq(S) /\ Len(<<x>>) = 1 /\ <<x>>[1] = x
  OBVIOUS
<1> QED
  BY <1>1 DEF Elems, Sorted

(* post_deferred_completions: what is given to it and what was left of     *)
(* completed_ops_ ends up in the port or in completed_ops_, each once.     *)
LEMMA Deferred ==
  ASSUME port \in Seq(Packets), Sorted(port, Once),
         NEW ops \in Seq(Ops), Sorted(ops, Once), NEW left \in Seq(Ops), Sorted(left, Once),
         Elems(ops) \cap Elems(left) = {}, Elems(port) \cap (Elems(ops) \cup Elems(left)) = {},
         fails \in 0..MaxFails, required \in BOOLEAN, PostDeferred(ops, left)
  PROVE  /\ port' \in Seq(Packets) /\ completed' \in Seq(Ops)
         /\ Sorted(port', Once) /\ Sorted(completed', Once)
         /\ Elems(port') \cap Elems(completed') = {}
         /\ Elems(port') \cup Elems(completed') = Elems(port) \cup Elems(ops) \cup Elems(left)
         /\ Elems(port) \subseteq Elems(port') /\ Elems(completed') \subseteq Ops
         /\ StopEvent \in Elems(port') <=> StopEvent \in Elems(port)
         /\ fails' \in 0..MaxFails /\ required' \in BOOLEAN
<1>1. PICK k \in 0 .. Len(ops) :
        /\ k < Len(ops) => fails < MaxFails
        /\ fails' = IF k < Len(ops) THEN fails + 1 ELSE fails
        /\ port' = port \o SubSeq(ops, 1, k)
        /\ completed' = left \o SubSeq(ops, k + 1, Len(ops))
        /\ required' = (required \/ k < Len(ops))
  BY DEF PostDeferred
<1> DEFINE a == SubSeq(ops, 1, k)
           b == SubSeq(ops, k + 1, Len(ops))
<1>2. a \in Seq(Ops) /\ b \in Seq(Ops) /\ ops = a \o b
  BY Cut
<1>3. a \in Seq(Packets) /\ b \in Seq(Packets) /\ left \in Seq(Packets)
  BY <1>2, PacketFacts, SeqMonotonic
<1> HIDE DEF a, b
<1>4. Elems(ops) = Elems(a) \cup Elems(b)
  BY <1>2, ElemsConcat
<1>5. Sorted(a, Once) /\ Sorted(b, Once) /\ \A x \in Elems(a), y \in Elems(b) : <<x, y>> \in Once
  BY <1>2, <1>3, SortedConcat
<1>6. Elems(a) \subseteq Ops /\ Elems(b) \subseteq Ops /\ Elems(left) \subseteq Ops /\ Elems(port) \subseteq Packets
  BY <1>2, ElemsTyped
<1>7. port' = port \o a /\ completed' = left \o b
  BY <1>1 DEF a, b
<1>8. Elems(a) \cap Elems(b) = {}
  <2> SUFFICES ASSUME NEW x \in Elems(a) \cap Elems(b) PROVE FALSE
    OBVIOUS
  <2>1. <<x, x>> \in Once
    BY <1>5
  <2> QED
    BY <1>6, <2>1, PacketFacts DEF Once
<1>9. /\ \A x \in Elems(port), y \in Elems(a) : <<x, y>> \in Once
      /\ \A x \in Elems(left), y \in Elems(b) : <<x, y>> \in Once
  BY <1>4, <1>6, PacketFacts DEF Once
<1>10. /\ Elems(port') = Elems(port) \cup Elems(a) /\ Elems(completed') = Elems(left) \cup Elems(b)
       /\ Sorted(port', Once) /\ Sorted(completed', Once)
  BY <1>2, <1>3, <1>5, <1>7, <1>9, ElemsConcat, SortedConcat
<1>11. port' \in Seq(Packets) /\ completed' \in Seq(Ops)
  BY <1>2, <1>3, <1>7, ConcatProperties
<1>12. fails' \in 0..MaxFails
  BY <1>1, BoundAssumption
<1>13. required' \in BOOLEAN
  BY <1>1
<1> QED
  BY <1>4, <1>6, <1>8, <1>10, <1>11, <1>12, <1>13, PacketFacts

(* One operation is posted.                                                *)
LEMMA PostsOne ==
  ASSUME Shape, Places, NEW o \in Ops, o \notin Queued, PostDeferred(<<o>>, completed)
  PROVE  /\ port' \in Seq(Packets) /\ completed' \in Seq(Ops)
         /\ Sorted(port', Once) /\ Sorted(completed', Once)
         /\ Elems(port') \cap Elems(completed') = {}
         /\ Queued' = Queued \cup {o}
         /\ StopEvent \in Elems(port') <=> StopEvent \in Elems(port)
         /\ fails' \in 0..MaxFails /\ required' \in BOOLEAN
<1>1. <<o>> \in Seq(Ops) /\ Elems(<<o>>) = {o} /\ Sorted(<<o>>, Once)
  BY OneElement
<1>2. /\ Elems(<<o>>) \cap Elems(completed) = {}
      /\ Elems(port) \cap (Elems(<<o>>) \cup Elems(completed)) = {}
  BY <1>1 DEF Queued, Places
<1>3. fails \in 0..MaxFails /\ required \in BOOLEAN
  BY DEF Shape, TypeOK
<1>4. /\ port' \in Seq(Packets) /\ completed' \in Seq(Ops)
      /\ Sorted(port', Once) /\ Sorted(completed', Once)
      /\ Elems(port') \cap Elems(completed') = {}
      /\ Elems(port') \cup Elems(completed') = Elems(port) \cup {o} \cup Elems(completed)
      /\ Elems(completed') \subseteq Ops
      /\ StopEvent \in Elems(port') <=> StopEvent \in Elems(port)
      /\ fails' \in 0..MaxFails /\ required' \in BOOLEAN
  BY <1>1, <1>2, <1>3, SeqTypes, Deferred DEF Places
<1>5. Elems(completed) \subseteq Ops
  BY SeqTypes
<1> QED
  BY <1>4, <1>5 DEF Queued

(* The waits whose time has come, in a sequence.                           *)
LEMMA ExpiredInOrder ==
  ASSUME Shape, Places, NEW s \in Orders(Expired)
  PROVE  /\ OpsOf(s) \in Seq(Ops) /\ Sorted(OpsOf(s), Once)
         /\ Elems(OpsOf(s)) = {w.op : w \in Expired}
<1>1. Expired \subseteq waits
  BY DEF Expired
<1>2. Cardinality(Expired) \in Nat
  BY <1>1, FS_Subset, FS_CardinalityType DEF Places
<1>3. PICK n \in Nat : n = Cardinality(Expired)
  BY <1>2
<1>4. /\ s \in [1..n -> Expired] /\ Range(s) = Expired
      /\ \A i, j \in 1..n : i < j => s[i] # s[j]
  BY <1>3 DEF Orders
<1>5. \A w \in Expired : w.op \in Ops
  BY <1>1 DEF Shape, TypeOK
<1>6. OpsOf(s) \in [1..n -> Ops] /\ \A i \in 1..n : OpsOf(s)[i] = s[i].op
  BY <1>4, <1>5 DEF OpsOf
<1>7. OpsOf(s) \in Seq(Ops)
  BY <1>6, SeqDef
<1>8. Len(OpsOf(s)) = n
  <2>1. DOMAIN OpsOf(s) = 1..n /\ DOMAIN OpsOf(s) = 1..Len(OpsOf(s)) /\ Len(OpsOf(s)) \in Nat
    BY <1>6, <1>7, LenProperties
  <2> QED
    BY <2>1
<1>9. Elems(OpsOf(s)) = {w.op : w \in Expired}
  BY <1>4, <1>6, <1>8 DEF Elems, Range
<1>10. ASSUME NEW i \in 1..n, NEW j \in 1..n, i < j
       PROVE  <<OpsOf(s)[i], OpsOf(s)[j]>> \in Once
  <2>1. s[i] \in waits /\ s[j] \in waits /\ s[i] # s[j]
    BY <1>1, <1>4, <1>10
  <2>2. s[i].op # s[j].op /\ s[i].op \in Ops /\ s[j].op \in Ops
    BY <1>4, <1>5, <2>1 DEF Places
  <2> QED
    BY <1>6, <2>2, PacketFacts DEF Once
<1> QED
  BY <1>7, <1>8, <1>9, <1>10 DEF Sorted

-----------------------------------------------------------------------------
(* Stop events.                                                            *)

Messenger(t) == pc[t] \in {"stopPost", "stopReset"}

Stopping ==
  /\ stopPosted => StopEvent \in Elems(port) \/ \E t \in Threads : Messenger(t)
  /\ ~stopPosted => StopEvent \notin Elems(port) /\ \A t \in Threads : ~Messenger(t)
  /\ StopEvent \in Elems(port) => \A t \in Threads : ~Messenger(t)
  /\ \A t, u \in Threads : Messenger(t) /\ Messenger(u) => t = u
  /\ stopped => stopPosted \/ \E t \in Threads : pc[t] \in {"stopFlag", "stopCheck"}

Inv == Books /\ Stopping /\ Counting

LEMMA InitInv == Init => Inv
<1> SUFFICES ASSUME Init PROVE Inv
  OBVIOUS
<1> USE BoundAssumption
<1>1. Shape
  <2>1. port \in Seq(Ops \cup {Wake, StopEvent}) /\ completed \in Seq(Ops)
    BY DEF Init
  <2>2. /\ pc \in [Threads -> Labels] /\ arg \in [Threads -> Ops \cup {NoOp}]
        /\ ret \in [Threads -> {"out", "handler", "loop"}] /\ runs \in [Ops -> Nat]
        /\ used \subseteq Ops /\ \A o \in Ops \ used : runs[o] = 0
    BY DEF Init, Labels
  <2>3. stopped \in BOOLEAN /\ stopPosted \in BOOLEAN /\ required \in BOOLEAN
    BY DEF Init
  <2>4. /\ outstanding \in Nat /\ due \in 0..Period /\ timer \in {"none", "wait", "set", "post"}
        /\ now \in 0..MaxTime /\ fails \in 0..MaxFails
        /\ waits = {} /\ transfers = {} /\ unready = {}
    BY DEF Init, Period
  <2> QED
    BY <2>1, <2>2, <2>3, <2>4 DEF Shape, TypeOK
<1>2. Elems(<<>>) = {} /\ \A R : Sorted(<<>>, R)
  BY ElemsTyped, SortedEmpty, EmptySeq
<1>3. \A t \in Threads : pc[t] = "out"
  BY DEF Init
<1>4. Unrun = {} /\ Timed = {} /\ Loose = {} /\ Queued = {} /\ Running = {}
  BY <1>2, <1>3 DEF Init, Unrun, Timed, Loose, Carries, Queued, Running, At
<1>5. IsFiniteSet({}) /\ Cardinality({}) = 0
  BY FS_EmptySet
<1>6. Hands
  BY <1>3 DEF Hands, Carries
<1>7. Places
  BY <1>2, <1>4, <1>5 DEF Init, Places
<1>8. Stopping
  BY <1>2, <1>3 DEF Init, Stopping, Messenger
<1>9. Counting
  BY <1>4, <1>5 DEF Init, Counting, WorkCounted, Unrun, Returning
<1> QED
  BY <1>1, <1>6, <1>7, <1>8, <1>9 DEF Inv, Books

-----------------------------------------------------------------------------
(* What a step does to the places.                                         *)

(* Operations stay where they are.                                         *)
LEMMA NothingMoves ==
  ASSUME Books, UNCHANGED <<waits, transfers, unready, arg, used, runs>>,
         \A u \in Threads : Carries(u) \/ Carries(u)' => pc'[u] = pc[u],
         Sorted(port', Once), Sorted(completed', Once), Elems(port') \cap Elems(completed') = {},
         Queued' = Queued
  PROVE  Hands' /\ Places'
<1>1. \A u \in Threads : /\ Carries(u)' <=> Carries(u)
                         /\ pc'[u] = "push" <=> pc[u] = "push"
  BY DEF Carries
<1>2. Hands'
  BY <1>1 DEF Books, Hands
<1>3. Loose' = Loose
  BY <1>1 DEF Loose
<1>4. Timed' = Timed /\ Unrun' = Unrun
  BY DEF Timed, Unrun
<1> QED
  BY <1>2, <1>3, <1>4 DEF Books, Places

(* A packet that is no operation comes out of the port.                    *)
LEMMA OtherPacketTaken ==
  ASSUME Books, port # <<>>, Head(port) \notin Ops, port' = Tail(port)
  PROVE  /\ port' \in Seq(Packets) /\ Sorted(port', Once) /\ Elems(port') \cap Ops = Elems(port) \cap Ops
         /\ Elems(port') \subseteq Elems(port) /\ Elems(port) = Elems(port') \cup {Head(port)}
         /\ Head(port) = StopEvent => StopEvent \notin Elems(port')
<1>1. port \in Seq(Packets) /\ Sorted(port, Once)
  BY SeqTypes DEF Books, Places
<1>2. port' \in Seq(Packets) /\ Elems(port) = {Head(port)} \cup Elems(port')
  BY <1>1, ElemsTail, HeadTailProperties
<1>3. Sorted(port', Once) /\ \A y \in Elems(port') : <<Head(port), y>> \in Once
  BY <1>1, SortedTail
<1>4. Head(port) = StopEvent => StopEvent \notin Elems(port')
  BY <1>3, PacketFacts DEF Once
<1> QED
  BY <1>2, <1>3, <1>4

LEMMA OtherPacketPut ==
  ASSUME Books, NEW x \in {Wake, StopEvent}, x = StopEvent => StopEvent \notin Elems(port),
         port' = Append(port, x)
  PROVE  port' \in Seq(Packets) /\ Sorted(port', Once) /\ Elems(port') = Elems(port) \cup {x}
<1>1. port \in Seq(Packets) /\ Sorted(port, Once) /\ Elems(port) \subseteq Packets /\ x \in Packets
  BY SeqTypes, PacketFacts DEF Books, Places
<1>2. \A y \in Elems(port) : <<y, x>> \in Once
  BY <1>1, PacketFacts DEF Once
<1> QED
  BY <1>1, <1>2, ElemsAppend, SortedAppend, AppendProperties

(* stop(), and what do_one does between two packets.                       *)
LEMMA ControlBooks ==
  ASSUME Inv, NEW t \in Threads,
         Stop(t) \/ StopFlag(t) \/ StopReset(t) \/ StopCheck(t) \/ Acquire(t) \/ Run(t)
  PROVE  Books'
<1> USE DEF At, Goto, Return
<1>1. UNCHANGED <<port, completed, waits, transfers, unready, arg, used, runs>>
  BY DEF Stop, StopFlag, StopReset, StopCheck, Acquire, Run, timerVars, ioVars
<1>2. Shape
  BY DEF Inv, Books
<1>3. pc[t] \notin {"push", "pending"} /\ \E l \in Labels \ {"push", "pending"} : pc' = [pc EXCEPT ![t] = l]
  BY <1>2 DEF Shape, TypeOK, Labels, Stop, StopFlag, StopReset, StopCheck, Acquire, Run
<1>4. ret' \in [Threads -> {"out", "handler", "loop"}]
  BY <1>2 DEF Shape, TypeOK, Stop, StopFlag, StopReset, StopCheck, Acquire, Run
<1>5. pc' \in [Threads -> Labels]
  BY <1>2, <1>3 DEF Shape, TypeOK
<1>6. stopped' \in BOOLEAN /\ stopPosted' \in BOOLEAN /\ required' \in BOOLEAN
  BY <1>2 DEF Shape, TypeOK, Stop, StopFlag, StopReset, StopCheck, Acquire, Run, loopVars
<1>7. UNCHANGED <<outstanding, due, timer, now, fails>>
  BY DEF Stop, StopFlag, StopReset, StopCheck, Acquire, Run, timerVars
<1>8. Shape'
  BY <1>1, <1>2, <1>4, <1>5, <1>6, <1>7 DEF Shape, TypeOK
<1>9. \A u \in Threads : Carries(u) \/ Carries(u)' => pc'[u] = pc[u]
  BY <1>2, <1>3 DEF Shape, TypeOK, Carries
<1>10. Hands' /\ Places'
  BY <1>1, <1>9, NothingMoves DEF Inv, Books, Places, Queued
<1> QED
  BY <1>8, <1>10 DEF Books

(* The handler returns, and reset().                                       *)
LEMMA FinishBooks ==
  ASSUME Inv, NEW t \in Threads, Finish(t)
  PROVE  Books'
<1> USE DEF At, Goto
<1>1. UNCHANGED <<port, completed, waits, transfers, unready, arg, used, runs, due, timer, now, fails>>
      /\ UNCHANGED <<stopped, stopPosted, required>>
  BY DEF Finish, timerVars, ioVars, loopVars
<1>2. Shape
  BY DEF Inv, Books
<1>3. pc[t] = "handler" /\ \E l \in {"stop", "loop"} : pc' = [pc EXCEPT ![t] = l]
  BY DEF Finish
<1>4. ret' \in [Threads -> {"out", "handler", "loop"}] /\ pc' \in [Threads -> Labels]
  BY <1>2, <1>3 DEF Shape, TypeOK, Finish, Labels
<1>5. outstanding' \in Nat
  <2>1. t \in Running /\ IsFiniteSet(Running) /\ IsFiniteSet(Unrun)
    BY <1>3 DEF Running, Inv, Counting
  <2>2. Running # {} /\ Cardinality(Running) \in Nat /\ Cardinality(Unrun) \in Nat
        /\ Cardinality(Running) # 0
    BY <2>1, FS_CardinalityType, FS_EmptySet
  <2>3. outstanding = Cardinality(Unrun) + Cardinality(Running)
    BY DEF Inv, Counting, WorkCounted, Unrun
  <2>4. outstanding' = outstanding - 1
    BY DEF Finish
  <2> QED
    BY <2>2, <2>3, <2>4
<1>6. Shape'
  BY <1>1, <1>2, <1>4, <1>5 DEF Shape, TypeOK
<1>7. \A u \in Threads : Carries(u) \/ Carries(u)' => pc'[u] = pc[u]
  BY <1>2, <1>3 DEF Shape, TypeOK, Carries
<1>8. Hands' /\ Places'
  BY <1>1, <1>7, NothingMoves DEF Inv, Books, Places, Queued
<1> QED
  BY <1>6, <1>8 DEF Books

(* Stop events and wake-ups, in and out of the port.                       *)
LEMMA EventBooks ==
  ASSUME Inv, NEW t \in Threads, StopPost(t) \/ GetWake(t) \/ GetStop(t)
  PROVE  Books'
<1> USE DEF At, Goto, Return
<1>1. /\ UNCHANGED <<completed, waits, transfers, unready, arg, used, runs, due, timer, now, fails>>
      /\ UNCHANGED <<outstanding, stopped, stopPosted, required>>
  BY DEF StopPost, GetWake, Wakened, GetStop, timerVars, ioVars, loopVars
<1>2. Shape /\ Books
  BY DEF Inv, Books
<1>3. pc[t] \notin {"push", "pending"} /\ \E l \in Labels \ {"push", "pending"} : pc' = [pc EXCEPT ![t] = l]
  BY <1>2 DEF Shape, TypeOK, Labels, StopPost, GetWake, Wakened, GetStop
<1>4. ret' \in [Threads -> {"out", "handler", "loop"}] /\ pc' \in [Threads -> Labels]
  BY <1>2, <1>3 DEF Shape, TypeOK, StopPost, GetWake, Wakened, GetStop
<1>5. \A u \in Threads : Carries(u) \/ Carries(u)' => pc'[u] = pc[u]
  BY <1>2, <1>3 DEF Shape, TypeOK, Carries
<1>6. /\ port' \in Seq(Packets) /\ Sorted(port', Once)
      /\ Elems(port') \cap Ops = Elems(port) \cap Ops
  <2>1. CASE StopPost(t)
    <3>1. StopEvent \notin Elems(port) /\ port' = Append(port, StopEvent)
      BY <2>1 DEF StopPost, Inv, Stopping, Messenger
    <3> QED
      BY <1>2, <3>1, OtherPacketPut, PacketFacts
  <2>2. CASE GetWake(t) \/ GetStop(t)
    <3>1. port # <<>> /\ Head(port) \notin Ops /\ port' = Tail(port)
      BY <2>2, PacketFacts DEF GetWake, Wakened, GetStop
    <3> QED
      BY <1>2, <3>1, OtherPacketTaken
  <2> QED
    BY <2>1, <2>2
<1>7. Shape'
  BY <1>1, <1>2, <1>4, <1>6 DEF Shape, TypeOK, Packets
<1>8. Queued' = Queued /\ Sorted(completed', Once) /\ Elems(port') \cap Elems(completed') = {}
  BY <1>1, <1>2, <1>6, SeqTypes DEF Queued, Books, Places
<1>9. Hands' /\ Places'
  BY <1>1, <1>2, <1>5, <1>6, <1>8, NothingMoves
<1> QED
  BY <1>7, <1>9 DEF Books

(* The timer thread, the clock and reset().                                *)
LEMMA TimerBooks ==
  ASSUME Inv, Restart \/ TimerThread \/ Tick
  PROVE  Books'
<1> USE BoundAssumption
<1>1. /\ UNCHANGED <<completed, waits, transfers, unready, arg, used, runs, pc, ret>>
      /\ UNCHANGED <<outstanding, stopPosted>>
  BY DEF Restart, TimerThread, Signal, TimerSet, TimerPost, Tick, timerVars, ioVars, threadVars, loopVars
<1>2. Shape /\ Books
  BY DEF Inv, Books
<1>3. due' \in 0..Period /\ now' \in 0..MaxTime /\ fails' \in 0..MaxFails
      /\ timer' \in {"none", "wait", "set", "post"}
  BY <1>2 DEF Restart, TimerThread, Signal, TimerSet, TimerPost, Tick, timerVars, Shape, TypeOK, Period
<1>4. stopped' \in BOOLEAN /\ required' \in BOOLEAN
  BY <1>2 DEF Restart, TimerThread, Signal, TimerSet, TimerPost, Tick, loopVars, Shape, TypeOK
<1>5. port' = port \/ port' = Append(port, Wake)
  BY DEF Restart, TimerThread, Signal, TimerSet, TimerPost, Tick
<1>6. /\ port' \in Seq(Packets) /\ Sorted(port', Once)
      /\ Elems(port') \cap Ops = Elems(port) \cap Ops
  BY <1>2, <1>5, OtherPacketPut, PacketFacts, SeqTypes DEF Books, Places
<1>7. Shape'
  BY <1>1, <1>2, <1>3, <1>4, <1>6 DEF Shape, TypeOK, Packets
<1>8. Queued' = Queued /\ Sorted(completed', Once) /\ Elems(port') \cap Elems(completed') = {}
  BY <1>1, <1>2, <1>6, SeqTypes DEF Queued, Books, Places
<1>9. \A u \in Threads : Carries(u) \/ Carries(u)' => pc'[u] = pc[u]
  BY <1>1
<1>10. Hands' /\ Places'
  BY <1>1, <1>2, <1>6, <1>8, <1>9, NothingMoves
<1> QED
  BY <1>7, <1>10 DEF Books

(* An operation is begun.                                                  *)
LEMMA FreshOp ==
  ASSUME Books, NEW o \in Ops \ used, used' = used \cup {o}, UNCHANGED runs
  PROVE  /\ Unrun' = Unrun \cup {o} /\ o \notin Queued \cup Timed \cup transfers \cup Loose
         /\ o \notin Unrun /\ o \notin unready
         /\ used' \subseteq Ops /\ \A p \in Ops \ used' : runs'[p] = 0
BY DEF Books, Shape, TypeOK, Places, Unrun

(* ... by a thread that has none in hand.                                  *)
LEMMA TakesInHand ==
  ASSUME Books, NEW t \in Threads, ~Carries(t), NEW o \in Ops \ used, used' = used \cup {o},
         UNCHANGED runs, NEW l \in {"push", "pending"},
         pc' = [pc EXCEPT ![t] = l], arg' = [arg EXCEPT ![t] = o],
         o \notin unready, unready' = IF l = "push" THEN unready ELSE unready \cup {o}
  PROVE  Hands' /\ Loose' = IF l = "push" THEN Loose \cup {o} ELSE Loose
<1>1. pc \in [Threads -> Labels] /\ arg \in [Threads -> Ops \cup {NoOp}]
  BY DEF Books, Shape, TypeOK
<1>2. \A u \in Threads : /\ pc'[u] = IF u = t THEN l ELSE pc[u]
                         /\ arg'[u] = IF u = t THEN o ELSE arg[u]
  BY <1>1
<1>3. \A u \in Threads : Carries(u) => arg[u] \in used /\ u # t
  BY DEF Books, Hands
<1>4. \A u \in Threads : Carries(u)' <=> Carries(u) \/ u = t
  BY <1>2 DEF Carries
<1>5. Hands'
  <2>1. ASSUME NEW u \in Threads, Carries(u)'
        PROVE  arg'[u] \in used' /\ (pc'[u] = "push" => arg'[u] \notin unready')
    BY <1>2, <1>3, <1>4, <2>1 DEF Books, Hands
  <2>2. ASSUME NEW u \in Threads, NEW v \in Threads, Carries(u)', Carries(v)', arg'[u] = arg'[v]
        PROVE  u = v
    BY <1>2, <1>3, <1>4, <2>2 DEF Books, Hands
  <2> QED
    BY <2>1, <2>2 DEF Hands
<1>6. \A u \in Threads \ {t} : Carries(u) => (arg[u] \in unready' <=> arg[u] \in unready)
  BY <1>3
<1>7. \A u \in Threads \ {t} : pc'[u] = pc[u] /\ arg'[u] = arg[u]
  BY <1>2
<1>8. CASE l = "push"
  <2>1. arg'[t] = o /\ o \notin unready' /\ unready' = unready /\ ~Carries(t)
    BY <1>2, <1>8
  <2>2. Loose' = Loose \cup {o}
    BY <1>4, <1>7, <2>1 DEF Loose
  <2> QED
    BY <1>5, <1>8, <2>2
<1>9. CASE l = "pending"
  <2>1. arg'[t] \in unready' /\ ~Carries(t) /\ \A p \in used : p \in unready' <=> p \in unready
    BY <1>2, <1>9
  <2>2. Loose' = Loose
    BY <1>3, <1>4, <1>6, <1>7, <2>1 DEF Loose
  <2> QED
    BY <1>5, <1>9, <2>2
<1> QED
  BY <1>8, <1>9

(* A thread is done with the operation it has in hand.                     *)
LEMMA LetsGo ==
  ASSUME Books, NEW t \in Threads, Carries(t), NEW l \in Labels \ {"push", "pending"},
         pc' = [pc EXCEPT ![t] = l], arg' = [arg EXCEPT ![t] = NoOp], UNCHANGED used,
         unready' = unready \ {arg[t]}
  PROVE  Hands' /\ Loose' = Loose \ {arg[t]}
<1>1. pc \in [Threads -> Labels] /\ arg \in [Threads -> Ops \cup {NoOp}]
  BY DEF Books, Shape, TypeOK
<1>2. \A u \in Threads \ {t} : pc'[u] = pc[u] /\ arg'[u] = arg[u]
  BY <1>1
<1>3. pc'[t] = l
  BY <1>1
<1>4. \A u \in Threads : Carries(u)' <=> Carries(u) /\ u # t
  BY <1>2, <1>3 DEF Carries
<1>5. \A u \in Threads \ {t} : Carries(u) => arg[u] # arg[t]
  BY DEF Books, Hands
<1>6. Hands'
  BY <1>2, <1>4 DEF Books, Hands, Carries
<1>7. \A u \in Threads \ {t} : Carries(u) => (arg[u] \in unready' <=> arg[u] \in unready)
  BY <1>5
<1>8. Loose' = Loose \ {arg[t]}
  BY <1>2, <1>4, <1>5, <1>7 DEF Loose
<1> QED
  BY <1>6, <1>8

LEMMA PostBooks ==
  ASSUME Inv, NEW t \in Threads, Post(t) \/ StartTransfer(t)
  PROVE  Books'
<1>1. PICK o \in Ops \ used : used' = used \cup {o} /\ arg' = [arg EXCEPT ![t] = o]
        /\ \/ /\ Post(t) /\ UNCHANGED <<transfers, unready>> /\ pc' = [pc EXCEPT ![t] = "push"]
           \/ /\ StartTransfer(t) /\ transfers' = transfers \cup {o}
              /\ unready' = unready \cup {o} /\ pc' = [pc EXCEPT ![t] = "pending"]
  BY DEF Post, StartTransfer, ioVars, Goto
<1>2. /\ UNCHANGED <<port, completed, waits, due, timer, now, runs, fails>>
      /\ UNCHANGED <<stopped, stopPosted, required>>
      /\ outstanding' = outstanding + 1 /\ ret' = [ret EXCEPT ![t] = pc[t]]
      /\ pc[t] \in {"handler", "out"}
  BY DEF Post, StartTransfer, CanCall, At, timerVars, loopVars
<1>3. Shape /\ Books
  BY DEF Inv, Books
<1>4. /\ Unrun' = Unrun \cup {o} /\ o \notin Queued \cup Timed \cup transfers \cup Loose
      /\ o \notin Unrun /\ o \notin unready
      /\ used' \subseteq Ops /\ \A p \in Ops \ used' : runs'[p] = 0
  BY <1>1, <1>2, <1>3, FreshOp
<1>5. ~Carries(t)
  BY <1>2 DEF Carries
<1>6. /\ pc' \in [Threads -> Labels] /\ ret' \in [Threads -> {"out", "handler", "loop"}]
      /\ arg' \in [Threads -> Ops \cup {NoOp}] /\ outstanding' \in Nat
  <2>1. /\ pc \in [Threads -> Labels] /\ ret \in [Threads -> {"out", "handler", "loop"}]
        /\ arg \in [Threads -> Ops \cup {NoOp}] /\ outstanding \in Nat
    BY <1>3 DEF Shape, TypeOK
  <2>2. pc' \in [Threads -> Labels]
    BY <1>1, <2>1 DEF Labels
  <2>3. ret' \in [Threads -> {"out", "handler", "loop"}]
    BY <1>2, <2>1
  <2> QED
    BY <1>1, <1>2, <2>1, <2>2, <2>3
<1>7. waits' \subseteq [op : Unrun', at : 0..MaxTime]
  BY <1>2, <1>3, <1>4 DEF Shape, TypeOK, Unrun
<1>8. transfers' \subseteq used' /\ unready' \subseteq used'
  BY <1>1, <1>3 DEF Shape, TypeOK
<1>9. Shape'
  BY <1>2, <1>3, <1>4, <1>6, <1>7, <1>8 DEF Shape, TypeOK, Unrun
<1>10. Queued' = Queued /\ Timed' = Timed
  BY <1>2 DEF Queued, Timed
<1>11. CASE Post(t) /\ UNCHANGED <<transfers, unready>> /\ pc' = [pc EXCEPT ![t] = "push"]
  <2>1. Hands' /\ Loose' = Loose \cup {o}
    BY <1>1, <1>2, <1>3, <1>4, <1>5, <1>11, TakesInHand
  <2>2. Places'
    BY <1>2, <1>3, <1>4, <1>10, <1>11, <2>1 DEF Books, Places
  <2> QED
    BY <1>9, <2>1, <2>2 DEF Books
<1>12. CASE /\ transfers' = transfers \cup {o} /\ unready' = unready \cup {o}
            /\ pc' = [pc EXCEPT ![t] = "pending"]
  <2>1. Hands' /\ Loose' = Loose
    BY <1>1, <1>2, <1>3, <1>4, <1>5, <1>12, TakesInHand
  <2>2. Places'
    BY <1>2, <1>3, <1>4, <1>10, <1>12, <2>1 DEF Books, Places
  <2> QED
    BY <1>9, <2>1, <2>2 DEF Books
<1> QED
  BY <1>1, <1>11, <1>12

LEMMA ScheduleBooks ==
  ASSUME Inv, NEW t \in Threads, ScheduleTimer(t)
  PROVE  Books'
<1> USE BoundAssumption
<1>1. PICK o \in Ops \ used, at \in now .. MaxTime :
        /\ used' = used \cup {o} /\ waits' = waits \cup {[op |-> o, at |-> at]}
        /\ IF \A w \in waits : at < w.at THEN due' = at ELSE UNCHANGED due
  BY DEF ScheduleTimer, Schedule
<1>2. /\ UNCHANGED <<port, completed, transfers, unready, arg, pc, ret, now, runs, fails>>
      /\ UNCHANGED <<stopped, stopPosted, required>>
      /\ outstanding' = outstanding + 1
      /\ timer' = IF timer = "none" THEN "wait" ELSE timer
  BY DEF ScheduleTimer, Schedule, ioVars, threadVars, loopVars
<1>3. Shape /\ Books
  BY DEF Inv, Books
<1>4. /\ Unrun' = Unrun \cup {o} /\ o \notin Queued \cup Timed \cup transfers \cup Loose
      /\ used' \subseteq Ops /\ \A p \in Ops \ used' : runs'[p] = 0
  BY <1>1, <1>2, <1>3, FreshOp
<1>5. at \in 0..MaxTime
  BY <1>3 DEF Shape, TypeOK
<1>6. waits' \subseteq [op : Unrun', at : 0..MaxTime]
  BY <1>1, <1>3, <1>4, <1>5 DEF Shape, TypeOK, Unrun
<1>7. /\ due' \in 0..Period /\ timer' \in {"none", "wait", "set", "post"} /\ outstanding' \in Nat
      /\ transfers' \subseteq used' /\ unready' \subseteq used'
  BY <1>1, <1>2, <1>3, <1>5 DEF Shape, TypeOK, Period
<1>8. Shape'
  BY <1>2, <1>3, <1>4, <1>6, <1>7 DEF Shape, TypeOK, Unrun
<1>9. Queued' = Queued /\ Loose' = Loose
  BY <1>2 DEF Queued, Loose, Carries
<1>10. Timed' = Timed \cup {o} /\ IsFiniteSet(waits')
       /\ \A v, w \in waits' : v.op = w.op => v = w
  <2>1. \A w \in waits : w.op # o
    BY <1>4 DEF Timed
  <2>2. IsFiniteSet(waits')
    BY <1>1, <1>3, FS_AddElement DEF Books, Places
  <2>3. PICK r : r.op = o /\ waits' = waits \cup {r}
    BY <1>1
  <2>4. Timed' = Timed \cup {o}
    BY <2>3 DEF Timed
  <2>5. \A v, w \in waits : v.op = w.op => v = w
    BY <1>3 DEF Books, Places
  <2>6. \A v, w \in waits' : v.op = w.op => v = w
    BY <2>1, <2>3, <2>5
  <2> QED
    BY <2>2, <2>4, <2>6
<1>11. Hands'
  BY <1>1, <1>2, <1>3 DEF Books, Hands, Carries
<1>12. Places'
  BY <1>2, <1>3, <1>4, <1>9, <1>10 DEF Books, Places
<1> QED
  BY <1>8, <1>11, <1>12 DEF Books

(* Posting: from a thread's hand, or of a wait that is cancelled.          *)
LEMMA PushBooks ==
  ASSUME Inv, NEW t \in Threads, Push(t) \/ OnPending(t)
  PROVE  Books' /\ (StopEvent \in Elems(port') <=> StopEvent \in Elems(port))
<1>1. Shape /\ Books /\ pc[t] \in {"push", "pending"} /\ Carries(t)
  BY DEF Inv, Books, Push, OnPending, At, Carries
<1>2. /\ UNCHANGED <<outstanding, stopped, stopPosted, waits, due, timer, now, transfers, used, runs>>
      /\ arg' = [arg EXCEPT ![t] = NoOp]
      /\ pc' = [pc EXCEPT ![t] = ret[t]] /\ ret' = [ret EXCEPT ![t] = "out"]
  BY DEF Push, OnPending, Return, Goto, timerVars, ioVars, loopVars
<1>3. /\ pc \in [Threads -> Labels] /\ ret \in [Threads -> {"out", "handler", "loop"}]
      /\ arg \in [Threads -> Ops \cup {NoOp}] /\ unready \subseteq used /\ used \subseteq Ops
  BY <1>1 DEF Shape, TypeOK
<1>4. arg[t] \in used /\ arg[t] \in Ops
  BY <1>1, <1>3 DEF Books, Hands
<1>5. PICK l \in Labels \ {"push", "pending"} : pc' = [pc EXCEPT ![t] = l]
  BY <1>2, <1>3 DEF Labels
<1>6. /\ pc' \in [Threads -> Labels] /\ ret' \in [Threads -> {"out", "handler", "loop"}]
      /\ arg' \in [Threads -> Ops \cup {NoOp}]
  BY <1>2, <1>3, <1>5
<1>7. CASE arg[t] \in unready /\ ~At(t, "push")
  <2>1. unready' = unready \ {arg[t]} /\ UNCHANGED <<required, port, completed, fails>>
    BY <1>7 DEF Push, OnPending
  <2>2. Hands' /\ Loose' = Loose \ {arg[t]}
    BY <1>1, <1>2, <1>5, <2>1, LetsGo
  <2>3. Shape'
    BY <1>1, <1>2, <1>3, <1>6, <2>1 DEF Shape, TypeOK
  <2>4. Queued' = Queued /\ Timed' = Timed /\ Unrun' = Unrun
    BY <1>2, <2>1 DEF Queued, Timed, Unrun
  <2>5. Places'
    BY <1>1, <1>2, <2>1, <2>2, <2>4 DEF Books, Places
  <2> QED
    BY <2>1, <2>2, <2>3, <2>5 DEF Books
<1>8. CASE At(t, "push") \/ arg[t] \notin unready
  <2>1. arg[t] \in Loose
    BY <1>1, <1>8 DEF Loose, Books, Hands, At
  <2>2. PostDeferred(<<arg[t]>>, completed)
    BY <1>8 DEF Push, OnPending, At
  <2>3. arg[t] \notin Queued \cup Timed \cup transfers /\ arg[t] \in Unrun
    BY <1>1, <2>1 DEF Books, Places
  <2>4. /\ port' \in Seq(Packets) /\ completed' \in Seq(Ops)
        /\ Sorted(port', Once) /\ Sorted(completed', Once)
        /\ Elems(port') \cap Elems(completed') = {}
        /\ Queued' = Queued \cup {arg[t]} /\ (StopEvent \in Elems(port') <=> StopEvent \in Elems(port))
        /\ fails' \in 0..MaxFails /\ required' \in BOOLEAN
    BY <1>1, <1>4, <2>2, <2>3, PostsOne DEF Books
  <2>5. unready' \subseteq unready
    BY DEF Push, OnPending, ioVars
  <2>6. Hands' /\ Loose' = Loose \ {arg[t]}
    <3>1. arg[t] \notin unready
      BY <2>1 DEF Loose
    <3>2. unready' = unready \ {arg[t]}
      BY <3>1 DEF Push, OnPending, ioVars
    <3> QED
      BY <1>1, <1>2, <1>5, <3>2, LetsGo
  <2>7. Shape'
    BY <1>1, <1>2, <1>3, <1>6, <2>4, <2>5 DEF Shape, TypeOK, Packets
  <2>8. Timed' = Timed /\ Unrun' = Unrun
    BY <1>2 DEF Timed, Unrun
  <2>9. Places'
    BY <1>1, <1>2, <2>3, <2>4, <2>6, <2>8 DEF Books, Places
  <2> QED
    BY <2>4, <2>6, <2>7, <2>9 DEF Books
<1> QED
  BY <1>1, <1>7, <1>8

LEMMA CancelBooks ==
  ASSUME Inv, NEW t \in Threads, CancelTimer(t)
  PROVE  Books' /\ (StopEvent \in Elems(port') <=> StopEvent \in Elems(port))
<1>1. Shape /\ Books
  BY DEF Inv, Books
<1>2. /\ UNCHANGED <<outstanding, stopped, stopPosted, due, timer, now, transfers, unready>>
      /\ UNCHANGED <<arg, pc, ret, used, runs>>
  BY DEF CancelTimer, ioVars, loopVars, threadVars
<1>3. PICK w \in waits : waits' = waits \ {w} /\ PostDeferred(<<w.op>>, completed)
  BY DEF CancelTimer
<1>4. w.op \in Timed /\ w.op \in Ops
  BY <1>1 DEF Shape, TypeOK, Timed
<1>5. w.op \notin Queued \cup transfers \cup Loose /\ w.op \in Unrun
  BY <1>1, <1>4 DEF Books, Places
<1>6. /\ port' \in Seq(Packets) /\ completed' \in Seq(Ops)
      /\ Sorted(port', Once) /\ Sorted(completed', Once)
      /\ Elems(port') \cap Elems(completed') = {}
      /\ Queued' = Queued \cup {w.op} /\ (StopEvent \in Elems(port') <=> StopEvent \in Elems(port))
      /\ fails' \in 0..MaxFails /\ required' \in BOOLEAN
  BY <1>1, <1>3, <1>4, <1>5, PostsOne DEF Books
<1>7. Timed' = Timed \ {w.op} /\ \A u, v \in waits' : u.op = v.op => u = v
  BY <1>1, <1>3 DEF Books, Places, Timed
<1>8. IsFiniteSet(waits')
  BY <1>1, <1>3, FS_RemoveElement DEF Books, Places
<1>9. Loose' = Loose /\ Unrun' = Unrun
  BY <1>2 DEF Loose, Carries, Unrun
<1>10. Shape'
  BY <1>1, <1>2, <1>3, <1>6 DEF Shape, TypeOK, Packets
<1>11. Hands'
  BY <1>1, <1>2 DEF Books, Hands, Carries
<1>12. Places'
  BY <1>1, <1>2, <1>5, <1>6, <1>7, <1>8, <1>9 DEF Books, Places
<1> QED
  BY <1>6, <1>10, <1>11, <1>12 DEF Books

(* do_one's critical section: what was left over and the waits that have   *)
(* expired are posted.                                                     *)
LEMMA DispatchBooks ==
  ASSUME Inv, NEW t \in Threads, Dispatch(t)
  PROVE  Books' /\ (StopEvent \in Elems(port') <=> StopEvent \in Elems(port))
<1>1. Shape /\ Books
  BY DEF Inv, Books
<1>2. /\ UNCHANGED <<outstanding, stopped, stopPosted, timer, now, transfers, unready>>
      /\ UNCHANGED <<arg, ret, used, runs>>
      /\ pc[t] = "dispatch" /\ pc' = [pc EXCEPT ![t] = "wait"]
      /\ waits' = waits \ Expired /\ UpdateTimeout(waits \ Expired)
  BY DEF Dispatch, ioVars, loopVars, At, Goto
<1>3. PICK s \in Orders(Expired) : PostDeferred(completed \o OpsOf(s), <<>>)
  BY DEF Dispatch
<1> DEFINE ops == completed \o OpsOf(s)
           out == {w.op : w \in Expired}
<1>4. /\ OpsOf(s) \in Seq(Ops) /\ Sorted(OpsOf(s), Once) /\ Elems(OpsOf(s)) = out
  BY <1>1, ExpiredInOrder DEF Books
<1>5. Expired \subseteq waits /\ out \subseteq Timed
  BY DEF Expired, Timed
<1> HIDE DEF out
<1>6. OpsOf(s) \in Seq(Packets) /\ out \subseteq Ops
  BY <1>4, ElemsTyped, PacketFacts, SeqMonotonic
<1>7. /\ completed \in Seq(Ops) /\ completed \in Seq(Packets) /\ port \in Seq(Packets)
      /\ Elems(completed) \subseteq Ops
  BY <1>1, SeqTypes
<1>8. Elems(completed) \cap out = {} /\ Elems(port) \cap out = {}
  BY <1>1, <1>5, <1>6 DEF Books, Places, Queued
<1>9. \A x \in Elems(completed), y \in out : <<x, y>> \in Once
  BY <1>6, <1>7, <1>8, PacketFacts DEF Once
<1>10. ops \in Seq(Ops) /\ Elems(ops) = Elems(completed) \cup out
  BY <1>4, <1>7, ConcatProperties, ElemsConcat
<1>11. Sorted(ops, Once)
  BY <1>1, <1>4, <1>6, <1>7, <1>9, SortedConcat DEF Books, Places
<1> HIDE DEF ops
<1>12. <<>> \in Seq(Ops) /\ Elems(<<>>) = {} /\ Sorted(<<>>, Once)
  BY ElemsTyped, SortedEmpty, EmptySeq
<1>13. /\ Elems(ops) \cap Elems(<<>>) = {} /\ Elems(port) \cap (Elems(ops) \cup Elems(<<>>)) = {}
       /\ fails \in 0..MaxFails /\ required \in BOOLEAN /\ Sorted(port, Once)
  BY <1>1, <1>8, <1>10, <1>12 DEF Shape, TypeOK, Books, Places
<1>14. PostDeferred(ops, <<>>)
  BY <1>3 DEF ops
<1>15. /\ port' \in Seq(Packets) /\ completed' \in Seq(Ops)
       /\ Sorted(port', Once) /\ Sorted(completed', Once)
       /\ Elems(port') \cap Elems(completed') = {}
       /\ Elems(port') \cup Elems(completed') = Elems(port) \cup Elems(ops) \cup Elems(<<>>)
       /\ Elems(completed') \subseteq Ops /\ (StopEvent \in Elems(port') <=> StopEvent \in Elems(port))
       /\ fails' \in 0..MaxFails /\ required' \in BOOLEAN
  BY <1>7, <1>10, <1>11, <1>12, <1>13, <1>14, Deferred
<1>16. Queued' = Queued \cup out
  BY <1>6, <1>7, <1>10, <1>12, <1>15 DEF Queued
<1>17. Timed' = Timed \ out /\ \A u, v \in waits' : u.op = v.op => u = v
  <2>1. \A u, v \in waits : u.op = v.op => u = v
    BY <1>1 DEF Books, Places
  <2> QED
    BY <1>2, <1>5, <2>1 DEF Timed, out
<1>18. IsFiniteSet(waits')
  BY <1>1, <1>2, FS_Subset DEF Books, Places
<1>19. pc \in [Threads -> Labels]
  BY <1>1 DEF Shape, TypeOK
<1>20. \A u \in Threads : /\ Carries(u)' <=> Carries(u)
                          /\ pc'[u] = "push" <=> pc[u] = "push"
  BY <1>2, <1>19 DEF Carries
<1>21. Loose' = Loose /\ Unrun' = Unrun
  BY <1>2, <1>20 DEF Loose, Unrun
<1>22. Hands'
  BY <1>1, <1>2, <1>20 DEF Books, Hands
<1>23. Places'
  BY <1>1, <1>2, <1>5, <1>15, <1>16, <1>17, <1>18, <1>21 DEF Books, Places
<1>24. due' \in 0..Period /\ pc' \in [Threads -> Labels]
  <2>1. due \in 0..Period /\ \A w \in waits : w.at \in 0..Period
    BY <1>1, BoundAssumption DEF Shape, TypeOK, Period
  <2> QED
    BY <1>2, <1>19, <2>1 DEF UpdateTimeout, Labels
<1>25. waits' \subseteq [op : Unrun', at : 0..MaxTime]
  BY <1>1, <1>2, <1>21 DEF Shape, TypeOK, Unrun
<1>26. Shape'
  BY <1>1, <1>2, <1>15, <1>24, <1>25 DEF Shape, TypeOK, Packets, Unrun
<1> QED
  BY <1>15, <1>22, <1>23, <1>26 DEF Books

(* The system is done with a transfer.                                     *)
LEMMA TransferBooks ==
  ASSUME Inv, TransferDone
  PROVE  Books' /\ (StopEvent \in Elems(port') <=> StopEvent \in Elems(port))
<1>1. Shape /\ Books
  BY DEF Inv, Books
<1>2. /\ UNCHANGED <<outstanding, stopped, stopPosted, required, completed, waits, due, timer, now>>
      /\ UNCHANGED <<unready, pc, arg, ret, used, runs, fails>>
  BY DEF TransferDone, loopVars, timerVars, threadVars
<1>3. PICK o \in transfers : transfers' = transfers \ {o} /\ port' = Append(port, o)
  BY DEF TransferDone
<1>4. o \in Ops /\ o \notin Queued \cup Timed \cup Loose /\ o \in Unrun
  BY <1>1 DEF Shape, TypeOK, Books, Places
<1>5. /\ port \in Seq(Packets) /\ Elems(port) \subseteq Packets /\ Elems(completed) \subseteq Ops
      /\ o \in Packets /\ Sorted(port, Once) /\ o \notin Elems(port) /\ o \notin Elems(completed)
  BY <1>1, <1>4, SeqTypes, PacketFacts DEF Books, Places, Queued
<1>6. \A y \in Elems(port) : <<y, o>> \in Once
  BY <1>5 DEF Once
<1>7. port' \in Seq(Packets) /\ Sorted(port', Once) /\ Elems(port') = Elems(port) \cup {o}
  BY <1>3, <1>5, <1>6, ElemsAppend, SortedAppend, AppendProperties
<1>8. Queued' = Queued \cup {o} /\ Elems(port') \cap Elems(completed') = {}
  BY <1>1, <1>2, <1>4, <1>5, <1>7 DEF Queued, Books, Places
<1>9. Timed' = Timed /\ Loose' = Loose /\ Unrun' = Unrun
  BY <1>2 DEF Timed, Loose, Carries, Unrun
<1>10. Shape'
  BY <1>1, <1>2, <1>3, <1>7 DEF Shape, TypeOK, Packets
<1>11. Hands'
  BY <1>1, <1>2 DEF Books, Hands, Carries
<1>12. Places'
  BY <1>1, <1>2, <1>3, <1>4, <1>7, <1>8, <1>9 DEF Books, Places
<1> QED
  BY <1>4, <1>7, <1>10, <1>11, <1>12, PacketFacts DEF Books

(* An operation comes out of the port.                                     *)
LEMMA OpTaken ==
  ASSUME Inv, NEW t \in Threads, GetOp(t), NEW o, o = Head(port)
  PROVE  /\ o \in Queued /\ o \in Unrun /\ o \notin Timed \cup transfers \cup Loose
         /\ port' \in Seq(Packets) /\ Sorted(port', Once) /\ Elems(port') \subseteq Elems(port)
         /\ StopEvent \in Elems(port') <=> StopEvent \in Elems(port)
         /\ Queued' = Queued \ {o} /\ Elems(port') \cap Elems(completed') = {}
<1>1. Shape /\ Books
  BY DEF Inv, Books
<1>2. port # <<>> /\ o \in Ops /\ port' = Tail(port) /\ UNCHANGED completed
  BY DEF GetOp
<1>3. /\ port \in Seq(Packets) /\ Sorted(port, Once) /\ Elems(completed) \subseteq Ops
      /\ Elems(port) \cap Elems(completed) = {}
  BY <1>1, SeqTypes DEF Books, Places
<1>4. Elems(port) = {o} \cup Elems(port') /\ port' \in Seq(Packets)
  BY <1>2, <1>3, ElemsTail, HeadTailProperties
<1>5. Sorted(port', Once) /\ \A y \in Elems(port') : <<o, y>> \in Once
  BY <1>2, <1>3, SortedTail
<1>6. o \notin Elems(port')
  BY <1>2, <1>5, PacketFacts DEF Once
<1>7. Queued' = Queued \ {o} /\ o \in Queued
  BY <1>2, <1>3, <1>4, <1>6 DEF Queued
<1>8. StopEvent # o
  BY <1>2, PacketFacts
<1>9. o \in Unrun /\ o \notin Timed \cup transfers \cup Loose
  BY <1>1, <1>7 DEF Books, Places
<1> QED
  BY <1>2, <1>3, <1>4, <1>5, <1>7, <1>8, <1>9

LEMMA GetOpBooks ==
  ASSUME Inv, NEW t \in Threads, GetOp(t)
  PROVE  Books'
<1>1. Shape /\ Books
  BY DEF Inv, Books
<1>2. PICK o : o = Head(port) /\ o \in Ops
  BY DEF GetOp
<1>3. /\ o \in Queued /\ o \in Unrun /\ o \notin Timed \cup transfers \cup Loose
      /\ port' \in Seq(Packets) /\ Sorted(port', Once)
      /\ Queued' = Queued \ {o} /\ Elems(port') \cap Elems(completed') = {}
  BY <1>2, OpTaken
<1>4. /\ UNCHANGED <<outstanding, stopped, stopPosted, required, completed, waits, due, timer, now>>
      /\ UNCHANGED <<transfers, arg, ret, used, fails>> /\ pc[t] = "wait"
  BY DEF GetOp, loopVars, timerVars, At
<1>5. /\ pc \in [Threads -> Labels] /\ runs \in [Ops -> Nat] /\ unready \subseteq used
      /\ \A p \in Ops \ used : runs[p] = 0
  BY <1>1 DEF Shape, TypeOK
<1>6. PICK l \in {"loop", "handler"} : pc' = [pc EXCEPT ![t] = l]
  BY DEF GetOp, Goto
<1>7. \A u \in Threads : /\ Carries(u)' <=> Carries(u)
                         /\ pc'[u] = "push" <=> pc[u] = "push"
  BY <1>4, <1>5, <1>6 DEF Carries
<1>8. pc' \in [Threads -> Labels] /\ Timed' = Timed
  BY <1>4, <1>5, <1>6 DEF Labels, Timed
<1>9. CASE o \in unready
  <2>1. unready' = unready \ {o} /\ UNCHANGED runs
    BY <1>2, <1>9 DEF GetOp
  <2>2. Loose' \subseteq Loose \cup {o}
    BY <1>4, <1>7, <2>1 DEF Loose
  <2>3. Hands'
    BY <1>1, <1>4, <1>7, <2>1 DEF Books, Hands
  <2>4. Unrun' = Unrun
    BY <1>4, <2>1 DEF Unrun
  <2>5. Shape'
    BY <1>1, <1>3, <1>4, <1>8, <2>1 DEF Shape, TypeOK, Packets
  <2>6. Places'
    BY <1>1, <1>3, <1>4, <1>8, <2>2, <2>4 DEF Books, Places
  <2> QED
    BY <2>3, <2>5, <2>6 DEF Books
<1>10. CASE o \notin unready
  <2>1. UNCHANGED unready /\ runs' = [runs EXCEPT ![o] = @ + 1]
    BY <1>2, <1>10 DEF GetOp
  <2>2. Loose' = Loose
    BY <1>4, <1>7, <2>1 DEF Loose
  <2>3. Hands'
    BY <1>1, <1>4, <1>7, <2>1 DEF Books, Hands
  <2>4. /\ runs' \in [Ops -> Nat] /\ runs'[o] = runs[o] + 1 /\ \A p \in Ops \ {o} : runs'[p] = runs[p]
    BY <1>2, <1>5, <2>1
  <2>5. used \subseteq Ops /\ runs[o] = 0 /\ o \in used
    BY <1>1, <1>3 DEF Shape, TypeOK, Unrun
  <2>6. Unrun' = Unrun \ {o}
    BY <1>4, <2>4, <2>5 DEF Unrun
  <2>7. waits' \subseteq [op : Unrun', at : 0..MaxTime]
    <3>1. ASSUME NEW w \in waits PROVE w.op # o
      BY <1>3 DEF Timed
    <3>2. waits \subseteq [op : Unrun, at : 0..MaxTime]
      BY <1>1 DEF Shape, TypeOK, Unrun
    <3> QED
      BY <1>4, <2>6, <3>1, <3>2
  <2>8. Shape'
    BY <1>1, <1>3, <1>4, <1>5, <1>8, <2>1, <2>4, <2>5, <2>7 DEF Shape, TypeOK, Packets, Unrun
  <2>9. Places'
    BY <1>1, <1>3, <1>4, <1>8, <2>2, <2>6 DEF Books, Places
  <2> QED
    BY <2>3, <2>8, <2>9 DEF Books
<1> QED
  BY <1>9, <1>10

LEMMA NextBooks == ASSUME Inv, [Next]_vars PROVE Books'
<1>1. CASE UNCHANGED vars
  <2>1. UNCHANGED <<port, completed, waits, transfers, unready, arg, used, runs, pc, ret, due, timer, now>>
        /\ UNCHANGED <<outstanding, stopped, stopPosted, required, fails>>
    BY <1>1 DEF vars, loopVars, timerVars, ioVars, threadVars
  <2>2. Shape'
    BY <2>1 DEF Inv, Books, Shape, TypeOK
  <2>3. Hands' /\ Places'
    BY <2>1, NothingMoves DEF Inv, Books, Places, Queued
  <2> QED
    BY <2>2, <2>3 DEF Books
<1>2. CASE Restart \/ TransferDone \/ TimerThread \/ Tick
  BY <1>2, TransferBooks, TimerBooks
<1>3. ASSUME NEW t \in Threads, Call(t) \/ Continue(t) \/ Run(t) PROVE Books'
  BY <1>3, PostBooks, ScheduleBooks, CancelBooks, PushBooks, ControlBooks, EventBooks, DispatchBooks,
     GetOpBooks, FinishBooks DEF Call, Continue
<1> QED
  BY <1>1, <1>2, <1>3 DEF Next

-----------------------------------------------------------------------------
(* The count of unfinished work.                                           *)

(* Nothing is begun, run or finished.                                      *)
LEMMA CountKept ==
  ASSUME Inv, UNCHANGED <<outstanding, used, runs>>, Returning',
         \A u \in Threads : u \in Running' <=> u \in Running
  PROVE  Counting'
<1>1. Running' = Running
  BY DEF Running
<1>2. Unrun' = Unrun
  BY DEF Unrun
<1> QED
  BY <1>1, <1>2 DEF Inv, Counting, WorkCounted

(* A thread moves from one place to another that have nothing to do with   *)
(* the operation a handler is about.                                       *)
LEMMA MoveCounted ==
  ASSUME Inv, NEW t \in Threads, UNCHANGED <<outstanding, used, runs>>,
         pc[t] \notin {"handler", "push", "pending"},
         NEW l \in Labels \ {"handler", "push", "pending"}, pc' = [pc EXCEPT ![t] = l],
         UNCHANGED ret \/ ret' = [ret EXCEPT ![t] = "out"]
  PROVE  Counting'
<1>1. pc \in [Threads -> Labels] /\ ret \in [Threads -> {"out", "handler", "loop"}]
  BY DEF Inv, Books, Shape, TypeOK
<1>2. \A u \in Threads : /\ pc'[u] = IF u = t THEN l ELSE pc[u]
                         /\ ret'[u] = ret[u] \/ (u = t /\ ret'[u] = "out")
  BY <1>1
<1>3. ret[t] # "handler"
  BY DEF Inv, Counting, Returning, Carries
<1>4. Returning'
  BY <1>2, <1>3 DEF Inv, Counting, Returning, Carries
<1>5. \A u \in Threads : u \in Running' <=> u \in Running
  BY <1>2, <1>3 DEF Running, At
<1> QED
  BY <1>4, <1>5, CountKept

LEMMA ReturnCounted ==
  ASSUME Inv, NEW t \in Threads, UNCHANGED <<outstanding, used, runs>>, Carries(t),
         pc' = [pc EXCEPT ![t] = ret[t]], ret' = [ret EXCEPT ![t] = "out"]
  PROVE  Counting'
<1>1. pc \in [Threads -> Labels] /\ ret \in [Threads -> {"out", "handler", "loop"}]
  BY DEF Inv, Books, Shape, TypeOK
<1>2. \A u \in Threads : /\ pc'[u] = IF u = t THEN ret[t] ELSE pc[u]
                         /\ ret'[u] = IF u = t THEN "out" ELSE ret[u]
  BY <1>1
<1>3. Returning'
  BY <1>2 DEF Inv, Counting, Returning, Carries
<1>4. \A u \in Threads : u \in Running' <=> u \in Running
  BY <1>2 DEF Running, At, Carries
<1> QED
  BY <1>3, <1>4, CountKept

(* An operation is begun: one more to be run.                              *)
LEMMA BeginCounted ==
  ASSUME Inv, NEW o \in Ops \ used, used' = used \cup {o}, UNCHANGED runs,
         outstanding' = outstanding + 1, Returning',
         \A u \in Threads : u \in Running' <=> u \in Running
  PROVE  Counting'
<1>1. Unrun' = Unrun \cup {o} /\ o \notin Unrun /\ runs[o] = 0
  BY FreshOp DEF Inv, Books, Shape, TypeOK
<1>2. Running' = Running
  BY DEF Running
<1>3. IsFiniteSet(Unrun') /\ Cardinality(Unrun') = Cardinality(Unrun) + 1
  BY <1>1, FS_AddElement DEF Inv, Counting
<1>4. Cardinality(Unrun) \in Nat /\ Cardinality(Running) \in Nat
  BY FS_CardinalityType DEF Inv, Counting
<1>5. outstanding = Cardinality(Unrun) + Cardinality(Running) /\ \A p \in used : runs[p] <= 1
  BY DEF Inv, Counting, WorkCounted, Unrun
<1>6. outstanding' = Cardinality(Unrun') + Cardinality(Running')
  BY <1>2, <1>3, <1>4, <1>5
<1>7. \A p \in used' : runs'[p] <= 1
  BY <1>1, <1>5
<1>8. WorkCounted'
  BY <1>6, <1>7 DEF WorkCounted, Unrun
<1>9. IsFiniteSet(Running')
  BY <1>2 DEF Inv, Counting
<1> QED
  BY <1>3, <1>8, <1>9 DEF Counting

LEMMA CallCounted ==
  ASSUME Inv, NEW t \in Threads, Call(t)
  PROVE  Counting'
<1>1. pc \in [Threads -> Labels] /\ ret \in [Threads -> {"out", "handler", "loop"}]
  BY DEF Inv, Books, Shape, TypeOK
<1>2. CASE Post(t) \/ StartTransfer(t)
  <2>1. PICK o \in Ops \ used : used' = used \cup {o}
    BY <1>2 DEF Post, StartTransfer
  <2>2. /\ outstanding' = outstanding + 1 /\ UNCHANGED runs /\ pc[t] \in {"handler", "out"}
        /\ ret' = [ret EXCEPT ![t] = pc[t]]
        /\ \E l \in {"push", "pending"} : pc' = [pc EXCEPT ![t] = l]
    BY <1>2 DEF Post, StartTransfer, CanCall, At, Goto
  <2>3. /\ pc'[t] \in {"push", "pending"} /\ ret'[t] = pc[t]
        /\ \A u \in Threads \ {t} : pc'[u] = pc[u] /\ ret'[u] = ret[u]
    BY <1>1, <2>2
  <2>4. Returning'
    BY <2>3 DEF Inv, Counting, Returning, Carries
  <2>5. \A u \in Threads : u \in Running' <=> u \in Running
    BY <2>2, <2>3 DEF Running, At
  <2> QED
    BY <2>1, <2>2, <2>4, <2>5, BeginCounted
<1>3. CASE ScheduleTimer(t)
  <2>1. PICK o \in Ops \ used : used' = used \cup {o}
    BY <1>3 DEF ScheduleTimer, Schedule
  <2>2. outstanding' = outstanding + 1 /\ UNCHANGED <<runs, pc, ret>>
    BY <1>3 DEF ScheduleTimer, Schedule, threadVars
  <2>3. Returning' /\ \A u \in Threads : u \in Running' <=> u \in Running
    BY <2>2 DEF Running, At, Inv, Counting, Returning, Carries
  <2> QED
    BY <2>1, <2>2, <2>3, BeginCounted
<1>4. CASE CancelTimer(t)
  <2>1. UNCHANGED <<outstanding, used, runs, pc, ret>>
    BY <1>4 DEF CancelTimer, threadVars
  <2>2. Returning' /\ \A u \in Threads : u \in Running' <=> u \in Running
    BY <2>1 DEF Running, At, Inv, Counting, Returning, Carries
  <2> QED
    BY <2>1, <2>2, CountKept
<1> QED
  BY <1>2, <1>3, <1>4 DEF Call

(* An operation comes out of the port: it is left to on_pending, or is no  *)
(* longer one to be run but one that is being run.                         *)
LEMMA GetOpCounted ==
  ASSUME Inv, NEW t \in Threads, GetOp(t)
  PROVE  Counting'
<1>1. /\ pc \in [Threads -> Labels] /\ ret \in [Threads -> {"out", "handler", "loop"}]
      /\ runs \in [Ops -> Nat] /\ used \subseteq Ops
  BY DEF Inv, Books, Shape, TypeOK
<1>2. PICK o : o = Head(port) /\ o \in Ops
  BY DEF GetOp
<1>3. UNCHANGED <<outstanding, used, ret>> /\ pc[t] = "wait"
  BY DEF GetOp, At
<1>4. CASE o \in unready
  BY <1>2, <1>3, <1>4, MoveCounted DEF GetOp, Goto, Labels
<1>5. CASE o \notin unready
  <2>1. o \in Unrun
    BY <1>2, OpTaken
  <2>2. runs' = [runs EXCEPT ![o] = @ + 1] /\ pc' = [pc EXCEPT ![t] = "handler"]
    BY <1>2, <1>5 DEF GetOp, Goto
  <2>3. /\ \A p \in Ops : runs'[p] = IF p = o THEN runs[p] + 1 ELSE runs[p]
        /\ \A u \in Threads : pc'[u] = IF u = t THEN "handler" ELSE pc[u]
    BY <1>1, <2>2
  <2>4. runs[o] = 0 /\ o \in used
    BY <2>1 DEF Unrun
  <2>5. Unrun' = Unrun \ {o}
    BY <1>1, <1>3, <2>3, <2>4 DEF Unrun
  <2>6. ret[t] # "handler" /\ t \notin Running
    BY <1>3 DEF Inv, Counting, Returning, Carries, Running, At
  <2>7. Running' = Running \cup {t}
    BY <1>3, <2>3, <2>6 DEF Running, At
  <2>8. /\ IsFiniteSet(Unrun') /\ Cardinality(Unrun') = Cardinality(Unrun) - 1
        /\ IsFiniteSet(Running') /\ Cardinality(Running') = Cardinality(Running) + 1
    BY <2>1, <2>5, <2>6, <2>7, FS_AddElement, FS_RemoveElement DEF Inv, Counting
  <2>9. Cardinality(Unrun) \in Nat /\ Cardinality(Running) \in Nat
    BY FS_CardinalityType DEF Inv, Counting
  <2>10. outstanding = Cardinality(Unrun) + Cardinality(Running) /\ \A p \in used : runs[p] <= 1
    BY DEF Inv, Counting, WorkCounted, Unrun
  <2>11. outstanding' = Cardinality(Unrun') + Cardinality(Running')
    BY <1>3, <2>8, <2>9, <2>10
  <2>12. \A p \in used' : runs'[p] <= 1
    BY <1>1, <1>3, <2>3, <2>4, <2>10
  <2>13. WorkCounted'
    BY <2>11, <2>12 DEF WorkCounted, Unrun
  <2>14. Returning'
    BY <1>3, <2>3, <2>6 DEF Inv, Counting, Returning, Carries
  <2> QED
    BY <2>8, <2>13, <2>14 DEF Counting
<1> QED
  BY <1>4, <1>5

LEMMA FinishCounted ==
  ASSUME Inv, NEW t \in Threads, Finish(t)
  PROVE  Counting'
<1>1. pc \in [Threads -> Labels] /\ ret \in [Threads -> {"out", "handler", "loop"}]
  BY DEF Inv, Books, Shape, TypeOK
<1>2. /\ UNCHANGED <<used, runs>> /\ pc[t] = "handler" /\ outstanding' = outstanding - 1
      /\ \E l \in {"stop", "loop"} : pc' = [pc EXCEPT ![t] = l]
      /\ UNCHANGED ret \/ ret' = [ret EXCEPT ![t] = "loop"]
  BY DEF Finish, At, Goto
<1>3. /\ pc'[t] \notin {"handler", "push", "pending"} /\ ret'[t] \in {ret[t], "loop"}
      /\ \A u \in Threads \ {t} : pc'[u] = pc[u] /\ ret'[u] = ret[u]
  BY <1>1, <1>2
<1>4. ret[t] # "handler"
  BY <1>2 DEF Inv, Counting, Returning, Carries
<1>5. Returning'
  BY <1>3, <1>4 DEF Inv, Counting, Returning, Carries
<1>6. t \in Running /\ Running' = Running \ {t}
  BY <1>2, <1>3 DEF Running, At
<1>7. IsFiniteSet(Running') /\ Cardinality(Running') = Cardinality(Running) - 1
  BY <1>6, FS_RemoveElement DEF Inv, Counting
<1>8. Unrun' = Unrun
  BY <1>2 DEF Unrun
<1>9. Cardinality(Unrun) \in Nat /\ Cardinality(Running) \in Nat
  BY FS_CardinalityType DEF Inv, Counting
<1>10. outstanding = Cardinality(Unrun) + Cardinality(Running) /\ \A p \in used : runs[p] <= 1
  BY DEF Inv, Counting, WorkCounted, Unrun
<1>11. outstanding' = Cardinality(Unrun') + Cardinality(Running')
  BY <1>2, <1>7, <1>8, <1>9, <1>10
<1>12. WorkCounted'
  BY <1>2, <1>10, <1>11 DEF WorkCounted, Unrun
<1> QED
  BY <1>5, <1>7, <1>8, <1>12 DEF Inv, Counting

LEMMA ContinueCounted ==
  ASSUME Inv, NEW t \in Threads, Continue(t) \/ Run(t)
  PROVE  Counting'
<1>1. CASE Push(t) \/ OnPending(t)
  BY <1>1, ReturnCounted DEF Push, OnPending, Return, Goto, At, Carries
<1>2. CASE Stop(t) \/ StopFlag(t) \/ StopPost(t)
  <2>1. UNCHANGED <<outstanding, used, runs>> /\ pc[t] \in {"stop", "stopFlag", "stopPost"}
    BY <1>2 DEF Stop, StopFlag, StopPost, At
  <2>2. ret[t] \in {"out", "loop"}
    BY <2>1 DEF Inv, Books, Shape, TypeOK, Counting, Returning, Carries
  <2>3. /\ \E l \in {"stopFlag", "stopPost", "out", "loop"} : pc' = [pc EXCEPT ![t] = l]
        /\ UNCHANGED ret \/ ret' = [ret EXCEPT ![t] = "out"]
    BY <1>2, <2>2 DEF Stop, StopFlag, StopPost, Return, Goto
  <2> QED
    BY <2>1, <2>3, MoveCounted DEF Labels
<1>3. CASE \/ Acquire(t) \/ Dispatch(t) \/ GetWake(t) \/ GetStop(t) \/ StopReset(t)
           \/ StopCheck(t) \/ Run(t)
  <2>1. /\ UNCHANGED <<outstanding, used, runs, ret>>
        /\ pc[t] \in {"out", "loop", "dispatch", "wait", "stopReset", "stopCheck"}
    BY <1>3 DEF Acquire, Dispatch, GetWake, Wakened, GetStop, StopReset, StopCheck, Run, At
  <2>2. \E l \in Labels \ {"handler", "push", "pending"} : pc' = [pc EXCEPT ![t] = l]
    BY <1>3 DEF Acquire, Dispatch, GetWake, Wakened, GetStop, StopReset, StopCheck, Run, Goto, Labels
  <2> QED
    BY <2>1, <2>2, MoveCounted
<1>4. CASE GetOp(t) \/ Finish(t)
  BY <1>4, GetOpCounted, FinishCounted
<1> QED
  BY <1>1, <1>2, <1>3, <1>4 DEF Continue

LEMMA NextCounted == ASSUME Inv, [Next]_vars PROVE Counting'
<1>1. CASE UNCHANGED vars \/ Restart \/ TransferDone \/ TimerThread \/ Tick
  <2>1. UNCHANGED <<outstanding, used, runs, pc, ret>>
    BY <1>1 DEF vars, Restart, TransferDone, TimerThread, Signal, TimerSet, TimerPost, Tick, threadVars
  <2>2. Returning' /\ \A u \in Threads : u \in Running' <=> u \in Running
    BY <2>1 DEF Running, At, Inv, Counting, Returning, Carries
  <2> QED
    BY <2>1, <2>2, CountKept
<1>2. ASSUME NEW t \in Threads, Call(t) \/ Continue(t) \/ Run(t) PROVE Counting'
  BY <1>2, CallCounted, ContinueCounted
<1> QED
  BY <1>1, <1>2 DEF Next

-----------------------------------------------------------------------------
(* Stop events.                                                            *)

(* Steps that have nothing to do with them.                                *)
LEMMA StopsKept ==
  ASSUME Inv, UNCHANGED <<stopped, stopPosted>>,
         StopEvent \in Elems(port') <=> StopEvent \in Elems(port),
         \A u \in Threads : \/ pc'[u] = pc[u]
                            \/ {pc[u], pc'[u]} \cap {"stopPost", "stopReset", "stopFlag", "stopCheck"} = {}
  PROVE  Stopping'
<1>1. \A u \in Threads : /\ Messenger(u)' <=> Messenger(u)
                         /\ pc'[u] \in {"stopFlag", "stopCheck"} <=> pc[u] \in {"stopFlag", "stopCheck"}
  BY DEF Messenger
<1> QED
  BY <1>1 DEF Inv, Stopping

LEMMA ThreadStops ==
  ASSUME Inv, NEW t \in Threads,
         \/ Call(t) \/ Push(t) \/ OnPending(t) \/ Acquire(t) \/ Dispatch(t) \/ GetOp(t)
         \/ GetWake(t) \/ Finish(t) \/ Run(t)
  PROVE  Stopping'
<1>1. pc \in [Threads -> Labels] /\ ret \in [Threads -> {"out", "handler", "loop"}]
  BY DEF Inv, Books, Shape, TypeOK
<1>2. UNCHANGED <<stopped, stopPosted>>
  BY DEF Call, Post, ScheduleTimer, Schedule, CancelTimer, StartTransfer, Push, OnPending, Acquire,
         Dispatch, GetOp, GetWake, Wakened, Finish, Run, loopVars
<1>3. StopEvent \in Elems(port') <=> StopEvent \in Elems(port)
  <2>1. CASE CancelTimer(t) \/ Push(t) \/ OnPending(t) \/ Dispatch(t) \/ GetOp(t)
    BY <2>1, CancelBooks, PushBooks, DispatchBooks, OpTaken
  <2>2. CASE GetWake(t)
    <3>1. port # <<>> /\ Head(port) = Wake /\ port' = Tail(port)
      BY <2>2 DEF GetWake, Wakened
    <3> QED
      BY <3>1, OtherPacketTaken, PacketFacts DEF Inv
  <2>3. CASE \/ Post(t) \/ ScheduleTimer(t) \/ StartTransfer(t) \/ Acquire(t) \/ Finish(t) \/ Run(t)
    <3>1. UNCHANGED port
      BY <2>3 DEF Post, ScheduleTimer, Schedule, StartTransfer, Acquire, Finish, Run
    <3> QED
      BY <3>1
  <2> QED
    BY <2>1, <2>2, <2>3 DEF Call
<1>4. UNCHANGED pc \/ \E l \in Labels : /\ pc' = [pc EXCEPT ![t] = l]
                                        /\ {pc[t], l} \cap {"stopPost", "stopReset", "stopFlag", "stopCheck"} = {}
  <2>1. CASE Call(t)
    BY <2>1 DEF Call, Post, ScheduleTimer, Schedule, CancelTimer, StartTransfer, CanCall, At, Goto,
                threadVars, Labels
  <2>2. CASE Push(t) \/ OnPending(t)
    BY <1>1, <2>2 DEF Push, OnPending, Return, Goto, At, Labels
  <2>3. CASE Acquire(t) \/ Dispatch(t) \/ GetOp(t) \/ GetWake(t) \/ Finish(t) \/ Run(t)
    BY <2>3 DEF Acquire, Dispatch, GetOp, GetWake, Wakened, Finish, Run, Goto, At, Labels
  <2> QED
    BY <2>1, <2>2, <2>3
<1> QED
  BY <1>1, <1>2, <1>3, <1>4, StopsKept

(* stop(), and the stop event on its way round.                            *)
LEMMA EventStops ==
  ASSUME Inv, NEW t \in Threads,
         Stop(t) \/ StopFlag(t) \/ StopPost(t) \/ GetStop(t) \/ StopReset(t) \/ StopCheck(t)
  PROVE  Stopping'
<1>1. /\ pc \in [Threads -> Labels] /\ ret \in [Threads -> {"out", "handler", "loop"}]
      /\ stopped \in BOOLEAN /\ stopPosted \in BOOLEAN
  BY DEF Inv, Books, Shape, TypeOK
<1>2. \A l, u : pc' = [pc EXCEPT ![t] = l] /\ u \in Threads => pc'[u] = IF u = t THEN l ELSE pc[u]
  BY <1>1
<1> USE DEF Messenger, At, Goto, Return
<1>3. CASE Stop(t)
  <2>1. pc[t] = "stop" /\ UNCHANGED <<port, stopPosted>> /\ stopped' = TRUE
    BY <1>3 DEF Stop
  <2>2. \A u \in Threads : Messenger(u)' <=> Messenger(u)
    BY <1>1, <1>2, <1>3 DEF Stop
  <2>3. stopPosted' \/ \E u \in Threads : pc'[u] \in {"stopFlag", "stopCheck"}
    <3>1. CASE stopped
      BY <1>1, <1>2, <1>3, <2>1, <3>1 DEF Stop, Inv, Stopping
    <3>2. CASE ~stopped
      BY <1>1, <1>2, <1>3, <3>2 DEF Stop
    <3> QED
      BY <3>1, <3>2
  <2> QED
    BY <2>1, <2>2, <2>3 DEF Inv, Stopping
<1>4. CASE StopFlag(t)
  <2>1. pc[t] = "stopFlag" /\ UNCHANGED <<port, stopped>> /\ stopPosted' = TRUE
    BY <1>4 DEF StopFlag
  <2>2. CASE stopPosted
    <3>1. \A u \in Threads : Messenger(u)' <=> Messenger(u)
      BY <1>1, <1>2, <1>4, <2>2 DEF StopFlag
    <3> QED
      BY <2>1, <2>2, <3>1 DEF Inv, Stopping
  <2>3. CASE ~stopPosted
    <3>1. \A u \in Threads : Messenger(u)' <=> u = t
      BY <1>1, <1>2, <1>4, <2>3 DEF StopFlag, Inv, Stopping
    <3>2. StopEvent \notin Elems(port')
      BY <2>1, <2>3 DEF Inv, Stopping
    <3> QED
      BY <2>1, <3>1, <3>2 DEF Stopping
  <2> QED
    BY <2>2, <2>3
<1>5. CASE StopPost(t)
  <2>1. pc[t] = "stopPost" /\ UNCHANGED <<stopped, stopPosted>> /\ port' = Append(port, StopEvent)
    BY <1>5 DEF StopPost, loopVars
  <2>2. stopPosted /\ StopEvent \notin Elems(port) /\ \A u \in Threads : Messenger(u) => u = t
    BY <2>1 DEF Inv, Stopping
  <2>3. StopEvent \in Elems(port')
    BY <2>1, <2>2, OtherPacketPut DEF Inv
  <2>4. \A u \in Threads : ~Messenger(u)'
    BY <1>1, <1>2, <1>5, <2>2 DEF StopPost
  <2> QED
    BY <2>1, <2>2, <2>3, <2>4 DEF Stopping
<1>6. CASE GetStop(t)
  <2>1. /\ UNCHANGED <<stopped, stopPosted>> /\ pc' = [pc EXCEPT ![t] = "stopReset"]
        /\ port # <<>> /\ Head(port) = StopEvent /\ port' = Tail(port)
    BY <1>6 DEF GetStop, loopVars
  <2>2. StopEvent \in Elems(port) /\ StopEvent \notin Elems(port')
    BY <2>1, OtherPacketTaken, PacketFacts DEF Inv
  <2>3. stopPosted /\ \A u \in Threads : ~Messenger(u)
    BY <1>1, <2>2 DEF Inv, Stopping
  <2>4. \A u \in Threads : Messenger(u)' <=> u = t
    BY <1>2, <2>1, <2>3
  <2> QED
    BY <2>1, <2>2, <2>3, <2>4 DEF Stopping
<1>7. CASE StopReset(t)
  <2>1. pc[t] = "stopReset" /\ stopPosted' = FALSE /\ pc' = [pc EXCEPT ![t] = "stopCheck"]
        /\ UNCHANGED port
    BY <1>7 DEF StopReset
  <2>2. StopEvent \notin Elems(port') /\ \A u \in Threads : Messenger(u) => u = t
    BY <2>1 DEF Inv, Stopping
  <2>3. \A u \in Threads : pc'[u] = IF u = t THEN "stopCheck" ELSE pc[u]
    BY <1>2, <2>1
  <2>4. \A u \in Threads : ~Messenger(u)'
    BY <2>2, <2>3
  <2> QED
    BY <2>1, <2>2, <2>3, <2>4 DEF Stopping
<1>8. CASE StopCheck(t)
  <2>1. pc[t] = "stopCheck" /\ UNCHANGED <<port, stopped, stopPosted>>
        /\ pc' = [pc EXCEPT ![t] = IF stopped THEN "stopFlag" ELSE "loop"]
    BY <1>8 DEF StopCheck, loopVars
  <2>2. \A u \in Threads : Messenger(u)' <=> Messenger(u)
    BY <1>2, <2>1
  <2>3. stopped => pc'[t] = "stopFlag"
    BY <1>2, <2>1
  <2> QED
    BY <2>1, <2>2, <2>3 DEF Inv, Stopping
<1> QED
  BY <1>3, <1>4, <1>5, <1>6, <1>7, <1>8

LEMMA NextStops == ASSUME Inv, [Next]_vars PROVE Stopping'
<1>1. CASE UNCHANGED vars
  BY <1>1, StopsKept DEF vars, loopVars, threadVars
<1>2. CASE Restart
  <2>1. stopped' = FALSE /\ UNCHANGED <<stopPosted, port, pc>>
    BY <1>2 DEF Restart, threadVars
  <2> QED
    BY <2>1 DEF Inv, Stopping, Messenger
<1>3. CASE TransferDone \/ TimerThread \/ Tick
  <2>1. UNCHANGED <<stopped, stopPosted, pc>>
    BY <1>3 DEF TransferDone, TimerThread, Signal, TimerSet, TimerPost, Tick, loopVars, threadVars
  <2>2. TransferDone \/ port' = port \/ port' = Append(port, Wake)
    BY <1>3 DEF TimerThread, Signal, TimerSet, TimerPost, Tick
  <2>3. StopEvent \in Elems(port') <=> StopEvent \in Elems(port)
    BY <2>2, TransferBooks, OtherPacketPut, PacketFacts DEF Inv
  <2> QED
    BY <2>1, <2>3, StopsKept
<1>4. ASSUME NEW t \in Threads, Call(t) \/ Continue(t) \/ Run(t) PROVE Stopping'
  BY <1>4, ThreadStops, EventStops DEF Continue
<1> QED
  BY <1>1, <1>2, <1>3, <1>4 DEF Next

-----------------------------------------------------------------------------
(* The books are kept, stop events and work are accounted for, in every    *)
(* step.                                                                   *)
LEMMA InvInvariant == Spec => []Inv
<1>1. Inv /\ [Next]_vars => Inv'
  BY NextBooks, NextCounted, NextStops DEF Inv
<1> QED
  BY <1>1, InitInv, PTL DEF Spec

(* The variables of the event loop keep their types; in particular what    *)
(* waits for a timer has not been run.                                     *)
THEOREM TypeCorrect == Spec => []TypeOK
<1>1. Inv => TypeOK
  BY DEF Inv, Books, Shape
<1> QED
  BY <1>1, InvInvariant, PTL

(* outstanding_work_ counts what is begun and not finished, wherever it is *)
(* (the port, completed_ops_, a timer queue, the system, a thread), and    *)
(* nothing is run twice, whoever of on_pending and do_one comes first.     *)
THEOREM WorkIsCounted == Spec => []WorkCounted
<1>1. Inv => WorkCounted
  BY DEF Inv, Counting
<1> QED
  BY <1>1, InvInvariant, PTL

(* At most one stop event is on its way, and a stopped service has one or  *)
(* is about to, whatever number of threads call stop() and leave run().    *)
THEOREM StopIsPassedOn == Spec => []StopEvents
<1>1. Inv => StopEvents
  <2> SUFFICES ASSUME Inv PROVE StopEvents
    OBVIOUS
  <2> DEFINE inPort == {i \in DOMAIN port : port[i] = StopEvent}
             inHand == {t \in Threads : pc[t] \in {"stopPost", "stopReset"}}
  <2>1. port \in Seq(Packets) /\ Sorted(port, Once) /\ DOMAIN port = 1..Len(port) /\ Len(port) \in Nat
        /\ stopPosted \in BOOLEAN
    BY SeqTypes, LenProperties DEF Inv, Books, Places, Shape, TypeOK
  <2>2. ASSUME NEW i \in inPort, NEW j \in inPort PROVE i = j
    <3>1. ~(i < j) /\ ~(j < i)
      BY <2>1, PacketFacts DEF Sorted, Once
    <3> QED
      BY <2>1, <3>1
  <2>3. inPort # {} <=> StopEvent \in Elems(port)
    BY <2>1 DEF Elems
  <2>4. \A t \in Threads : t \in inHand <=> Messenger(t)
    BY DEF Messenger
  <2>5. InFlight = inPort \cup inHand
    BY DEF InFlight
  <2> HIDE DEF inPort, inHand
  <2>6. inHand \subseteq Threads
    BY DEF inHand
  <2>7. CASE ~stopPosted
    <3>1. InFlight = {}
      BY <2>3, <2>4, <2>5, <2>6, <2>7 DEF Inv, Stopping
    <3> QED
      BY <2>7, <3>1, FS_EmptySet DEF StopEvents, Inv, Stopping
  <2>8. CASE stopPosted
    <3>1. \E x : InFlight = {x}
      <4>1. CASE StopEvent \in Elems(port)
        BY <2>2, <2>3, <2>4, <2>5, <2>6, <4>1 DEF Inv, Stopping
      <4>2. CASE StopEvent \notin Elems(port)
        BY <2>3, <2>4, <2>5, <2>6, <2>8, <4>2 DEF Inv, Stopping
      <4> QED
        BY <4>1, <4>2
    <3>2. Cardinality(InFlight) = 1
      BY <3>1, FS_Singleton
    <3> QED
      BY <2>8, <3>2 DEF StopEvents
  <2> QED
    BY <2>1, <2>7, <2>8
<1> QED
  BY <1>1, InvInvariant, PTL
=============================================================================
