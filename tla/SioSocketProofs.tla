-------------------------- MODULE SioSocketProofs --------------------------
(***************************************************************************)
(* Proofs about SioSocket, for every set of application threads and every  *)
(* bound: first the properties that stand alone, one at a time; then what  *)
(* becomes of the packets given to a socket, that SioSocket implements     *)
(* PacketFate and that what one thread hands over is written in order,     *)
(* which both rest on one inductive invariant, Ordered: where each packet  *)
(* is, and which packets are ahead of which.                               *)
(***************************************************************************)
EXTENDS SioSocket, Elements, SequenceTheorems, TLAPS

-----------------------------------------------------------------------------
(* Types.                                                                  *)

(* What the place a thread has reached says of the packet it carries.      *)
Carrying ==
  \A t \in Threads :
    /\ pc[t] \in {"guard", "branch", "push", "flush", "flushSend", "direct"} =>
         pkt[t] \in Packet /\ pkt[t].from = t
    /\ pc[t] \in {"flushSend", "drainSend"} => front[t] \in Packet
    /\ pc[t] = "closeSocket" => t \in Users /\ calls[t] < MaxCalls

Typed == TypeOK /\ Carrying

(* The io_service's queue and the packet queue stay well formed.           *)
LEMMA QueueTypes ==
  ASSUME NEW S, NEW s \in Seq(S)
  PROVE  /\ \A x \in S : Append(s, x) \in Seq(S)
         /\ s # <<>> => Head(s) \in S /\ Tail(s) \in Seq(S)
         /\ \A i \in DOMAIN s : s[i] \in S
BY AppendProperties, HeadTailProperties, LenProperties, ElementOfSeq

LEMMA InitTyped == Init => Typed
<1> SUFFICES ASSUME Init PROVE Typed
  OBVIOUS
<1> USE NetAssumption, BoundAssumption DEF Init, Threads
<1>1. wire \in Seq(Written)
  BY EmptySeq
<1>2. queue \in Seq(Packet) /\ ready \in Seq(Handler)
  BY EmptySeq
<1>3. timer \in BOOLEAN /\ waits \in SUBSET {"connect", "close"}
  OBVIOUS
<1>4. TypeOK
  <2>1. pkt \in [Threads -> Packet \cup {NoPacket}] /\ front \in [Threads -> Packet \cup {NoPacket}]
    OBVIOUS
  <2>2. pc \in [Threads -> PC] /\ calls \in [Threads -> 0..MaxCalls]
    BY DEF PC
  <2>3. /\ epoch \in 1..MaxOpens /\ acked \in SUBSET (1..MaxOpens)
        /\ dropped \in SUBSET Packet /\ refused \in SUBSET Packet
    OBVIOUS
  <2> QED
    BY <1>1, <1>2, <1>3, <2>1, <2>2, <2>3 DEF TypeOK
<1>5. Carrying
  BY DEF Carrying
<1> QED
  BY <1>4, <1>5 DEF Typed

(* Writing a frame keeps the history of the wire well formed.              *)
LEMMA WireTypes ==
  ASSUME TypeOK
  PROVE  \A w \in Written : Append(wire, w) \in Seq(Written)
<1>1. wire \in Seq(Written)
  BY DEF TypeOK
<1> QED
  BY <1>1, AppendProperties

(* A packet given to the client is queued as a handler, written, refused   *)
(* or lost.                                                                *)
LEMMA SendTypes ==
  ASSUME TypeOK, NEW t \in Threads, NEW p \in Packet, ClientSend(t, p)
  PROVE  /\ ready' \in Seq(Handler) /\ wire' \in Seq(Written)
         /\ dropped' \in SUBSET Packet /\ refused' \in SUBSET Packet
<1>1. [pkt |-> p, by |-> t, epoch |-> epoch] \in Written
  BY DEF TypeOK, Written
<1>2. CASE t = Net
  <2>1. /\ ready' = ready
        /\ \/ /\ wire' = Append(wire, [pkt |-> p, by |-> t, epoch |-> epoch])
              /\ dropped' = dropped /\ refused' = refused
           \/ wire' = wire /\ dropped' = dropped \cup {p} /\ refused' = refused
           \/ wire' = wire /\ dropped' = dropped /\ refused' = refused \cup {p}
    BY <1>2 DEF ClientSend, SendImpl
  <2>2. Append(wire, [pkt |-> p, by |-> t, epoch |-> epoch]) \in Seq(Written)
    BY <1>1, WireTypes
  <2>3. /\ ready \in Seq(Handler) /\ wire \in Seq(Written)
        /\ dropped \in SUBSET Packet /\ refused \in SUBSET Packet
    BY DEF TypeOK
  <2> QED
    BY <2>1, <2>2, <2>3
<1>3. CASE t # Net
  <2>1. SendHandler(t, p) \in Handler
    BY <1>3 DEF Handler, Threads
  <2>2. /\ ready' = Append(ready, SendHandler(t, p)) /\ wire' = wire
        /\ dropped' = dropped /\ refused' = refused
    BY <1>3 DEF ClientSend
  <2>3. ready' \in Seq(Handler)
    BY <2>1, <2>2, QueueTypes DEF TypeOK
  <2> QED
    BY <2>2, <2>3 DEF TypeOK
<1> QED
  BY <1>2, <1>3

(* Cancelling the waits queues at most the closing handler.                *)
LEMMA CancelTypes ==
  ASSUME NEW s \in Seq(Handler), CancelWaits(s)
  PROVE  ready' \in Seq(Handler)
<1>1. CloseHandler \in Handler
  BY DEF Handler
<1>2. Append(s, CloseHandler) \in Seq(Handler)
  BY <1>1, AppendProperties
<1>3. ready' \in {s, Append(s, CloseHandler)}
  BY DEF CancelWaits
<1> QED
  BY <1>2, <1>3

LEMMA TypedCall ==
  ASSUME Typed, NEW t \in Threads, Call(t) \/ Continue(t)
  PROVE  Typed'
<1> USE NetAssumption, BoundAssumption
<1> USE DEF Typed, At, Goto, timerVars, sockVars, callVars, history, PC
<1>1. CASE Emit(t)
  <2>1. [type |-> "event", from |-> t, n |-> calls[t] + 1] \in Packet
    BY <1>1 DEF Emit, TypeOK, Packet
  <2>2. TypeOK'
    BY <1>1, <2>1 DEF Emit, TypeOK
  <2>3. Carrying'
    BY <1>1, <2>1 DEF Emit, TypeOK, Carrying
  <2> QED
    BY <2>2, <2>3
<1>2. CASE SendGuard(t)
  <2>1. pkt[t] \in Packet
    BY <1>2 DEF SendGuard, Carrying
  <2>2. dropped' \in SUBSET Packet
    BY <1>2, <2>1 DEF SendGuard, TypeOK
  <2>3. TypeOK'
    BY <1>2, <2>2 DEF SendGuard, Return, TypeOK
  <2>4. Carrying'
    BY <1>2 DEF SendGuard, Return, TypeOK, Carrying
  <2> QED
    BY <2>3, <2>4
<1>3. CASE SendBranch(t)
  <2>1. TypeOK'
    BY <1>3 DEF SendBranch, TypeOK
  <2>2. Carrying'
    BY <1>3 DEF SendBranch, TypeOK, Carrying
  <2> QED
    BY <2>1, <2>2
<1>4. CASE PushPacket(t)
  <2>1. queue' \in Seq(Packet)
    BY <1>4, QueueTypes DEF PushPacket, TypeOK, Carrying
  <2>2. TypeOK'
    BY <1>4, <2>1 DEF PushPacket, Return, TypeOK
  <2>3. Carrying'
    BY <1>4 DEF PushPacket, Return, TypeOK, Carrying
  <2> QED
    BY <2>2, <2>3
<1>5. CASE FlushPop(t)
  <2>1. queue' \in Seq(Packet) /\ (queue # <<>> => Head(queue) \in Packet)
    <3>1. queue' = queue \/ (queue # <<>> /\ queue' = Tail(queue))
      BY <1>5 DEF FlushPop, PopFront
    <3>2. queue \in Seq(Packet)
      BY DEF TypeOK
    <3>3. queue # <<>> => Head(queue) \in Packet /\ Tail(queue) \in Seq(Packet)
      BY <3>2, HeadTailProperties
    <3> QED
      BY <3>1, <3>2, <3>3
  <2>2. TypeOK'
    <3>1. UNCHANGED <<connected, client, timerVars, conState, epoch, ready, pkt, calls, history>>
      BY <1>5 DEF FlushPop
    <3>2. pc' \in [Threads -> PC]
      BY <1>5 DEF FlushPop, PopFront, TypeOK
    <3>3. front' \in [Threads -> Packet \cup {NoPacket}]
      BY <1>5, <2>1 DEF FlushPop, PopFront, TypeOK
    <3> QED
      BY <2>1, <3>1, <3>2, <3>3 DEF TypeOK
  <2>3. Carrying'
    <3>1. pkt' = pkt /\ calls' = calls
      BY <1>5 DEF FlushPop
    <3>2. \/ pc' = [pc EXCEPT ![t] = "direct"] /\ front' = front
          \/ /\ pc' = [pc EXCEPT ![t] = "flushSend"]
             /\ queue # <<>> /\ front' = [front EXCEPT ![t] = Head(queue)]
      BY <1>5 DEF FlushPop, PopFront
    <3>3. pkt[t] \in Packet /\ pkt[t].from = t
      BY <1>5 DEF FlushPop, Carrying
    <3>4. pc \in [Threads -> PC] /\ front \in [Threads -> Packet \cup {NoPacket}]
      BY DEF TypeOK
    <3>5. CASE pc' = [pc EXCEPT ![t] = "direct"] /\ front' = front
      BY <3>1, <3>3, <3>4, <3>5 DEF Carrying
    <3>6. CASE /\ pc' = [pc EXCEPT ![t] = "flushSend"]
               /\ queue # <<>> /\ front' = [front EXCEPT ![t] = Head(queue)]
      BY <2>1, <3>1, <3>3, <3>4, <3>6 DEF Carrying
    <3> QED
      BY <3>2, <3>5, <3>6
  <2> QED
    BY <2>2, <2>3
<1>6. CASE FlushSend(t)
  <2>1. /\ ready' \in Seq(Handler) /\ wire' \in Seq(Written)
        /\ dropped' \in SUBSET Packet /\ refused' \in SUBSET Packet
    BY <1>6, SendTypes DEF FlushSend, TypeOK, Carrying
  <2>2. TypeOK'
    BY <1>6, <2>1 DEF FlushSend, TypeOK
  <2>3. Carrying'
    BY <1>6 DEF FlushSend, TypeOK, Carrying
  <2> QED
    BY <2>2, <2>3
<1>7. CASE DirectSend(t)
  <2>1. /\ ready' \in Seq(Handler) /\ wire' \in Seq(Written)
        /\ dropped' \in SUBSET Packet /\ refused' \in SUBSET Packet
    BY <1>7, SendTypes DEF DirectSend, TypeOK, Carrying
  <2>2. TypeOK'
    BY <1>7, <2>1 DEF DirectSend, Return, TypeOK
  <2>3. Carrying'
    BY <1>7 DEF DirectSend, Return, TypeOK, Carrying
  <2> QED
    BY <2>2, <2>3
<1>8. CASE SocketClose(t)
  <2>1. TypeOK'
    BY <1>8 DEF SocketClose, TypeOK
  <2>2. Carrying'
    BY <1>8 DEF SocketClose, TypeOK, Carrying
  <2> QED
    BY <2>1, <2>2
<1>9. CASE ClientClose(t)
  <2>1. TypeOK'
    BY <1>9 DEF ClientClose, TypeOK
  <2>2. Carrying'
    BY <1>9 DEF ClientClose, TypeOK, Carrying
  <2> QED
    BY <2>1, <2>2
<1>10. CASE CloseSocket(t)
  <2>1. [type |-> "disconnect", from |-> t, n |-> calls[t] + 1] \in Packet
    BY <1>10 DEF CloseSocket, TypeOK, Carrying, Packet
  <2>2. calls[t] + 1 \in 0..MaxCalls
    BY <1>10 DEF CloseSocket, TypeOK, Carrying
  <2>3. TypeOK'
    <3>1. UNCHANGED <<sockVars, conState, epoch, ready, front, history>>
      BY <1>10 DEF CloseSocket
    <3>2. pkt' \in [Threads -> Packet \cup {NoPacket}]
      BY <1>10, <2>1 DEF CloseSocket, TypeOK
    <3>3. calls' \in [Threads -> 0..MaxCalls]
      BY <1>10, <2>2 DEF CloseSocket, TypeOK
    <3>4. pc' \in [Threads -> PC]
      BY <1>10 DEF CloseSocket, TypeOK
    <3> QED
      BY <3>1, <3>2, <3>3, <3>4 DEF TypeOK
  <2>4. Carrying'
    BY <1>10, <2>1 DEF CloseSocket, TypeOK, Carrying
  <2> QED
    BY <2>3, <2>4
<1>11. CASE TestTimer(t) \/ ReadService(t) \/ WaitClose(t)
  <2>1. TypeOK'
    BY <1>11 DEF TestTimer, ReadService, WaitClose, TypeOK
  <2>2. Carrying'
    BY <1>11 DEF TestTimer, ReadService, WaitClose, TypeOK, Carrying
  <2> QED
    BY <2>1, <2>2
<1>12. CASE ResetTimer(t) \/ SetExpiry(t)
  <2>1. ready' \in Seq(Handler)
    BY <1>12, CancelTypes DEF ResetTimer, SetExpiry, TypeOK
  <2>2. TypeOK'
    BY <1>12, <2>1 DEF ResetTimer, SetExpiry, TypeOK
  <2>3. Carrying'
    BY <1>12 DEF ResetTimer, SetExpiry, TypeOK, Carrying
  <2> QED
    BY <2>2, <2>3
<1> QED
  BY <1>1, <1>2, <1>3, <1>4, <1>5, <1>6, <1>7, <1>8, <1>9, <1>10, <1>11, <1>12
     DEF Call, Continue

(* The handler the network thread runs.                                    *)
LEMMA HandlerTypes ==
  ASSUME TypeOK, NEW op, NextHandler(op)
  PROVE  /\ At(Net, "idle")
         /\ Tail(ready) \in Seq(Handler)
         /\ op = "send" => Head(ready).pkt \in Packet /\ Head(ready).by \in Users
<1>1. ready # <<>> /\ ready \in Seq(Handler) /\ Head(ready).op = op /\ At(Net, "idle")
  BY DEF TypeOK, NextHandler
<1>2. Head(ready) \in Handler /\ Tail(ready) \in Seq(Handler)
  BY <1>1, HeadTailProperties
<1>3. ASSUME op = "send" PROVE Head(ready).pkt \in Packet /\ Head(ready).by \in Users
  BY <1>1, <1>2, <1>3 DEF Handler, SendHandler, TimeoutHandler, CloseHandler
<1> QED
  BY <1>1, <1>2, <1>3

LEMMA TypedNet ==
  ASSUME Typed, Environment \/ NetStep \/ Expire
  PROVE  Typed'
<1> USE NetAssumption, BoundAssumption
<1> USE DEF Typed, At, Goto, timerVars, sockVars, callVars, history, PC
<1>1. CASE OnOpen
  <2>1. epoch + 1 \in 1..MaxOpens
    BY <1>1 DEF OnOpen, TypeOK
  <2>2. ready' \in Seq(Handler)
    BY <1>1, CancelTypes DEF OnOpen, TypeOK
  <2>3. TypeOK'
    BY <1>1, <2>1, <2>2 DEF OnOpen, TypeOK
  <2>4. Carrying'
    BY <1>1 DEF OnOpen, TypeOK, Carrying
  <2> QED
    BY <2>3, <2>4
<1>2. CASE OnConnected \/ CloseTimer
  <2>1. ready' \in Seq(Handler)
    BY <1>2, CancelTypes DEF OnConnected, CloseTimer, DropTimer, TypeOK
  <2>2. TypeOK'
    BY <1>2, <2>1 DEF OnConnected, CloseTimer, DropTimer, TypeOK
  <2>3. Carrying'
    BY <1>2 DEF OnConnected, CloseTimer, DropTimer, TypeOK, Carrying
  <2> QED
    BY <2>2, <2>3
<1>3. CASE OnDisconnectPacket \/ TimeoutClose \/ SetConnected
  <2>1. TypeOK'
    BY <1>3 DEF OnDisconnectPacket, TimeoutClose, SetConnected, ForgetClient, TypeOK
  <2>2. Carrying'
    BY <1>3 DEF OnDisconnectPacket, TimeoutClose, SetConnected, ForgetClient, TypeOK, Carrying
  <2> QED
    BY <2>1, <2>2
<1>4. CASE OnDisconnect
  <2>1. TypeOK'
    BY <1>4 DEF OnDisconnect, TypeOK
  <2>2. Carrying'
    BY <1>4 DEF OnDisconnect, TypeOK, Carrying
  <2> QED
    BY <2>1, <2>2
<1>5. CASE DrainPop
  <2>1. queue' = queue \/ (queue # <<>> /\ queue' = Tail(queue))
    BY <1>5 DEF DrainPop, PopFront
  <2>2. queue # <<>> => Head(queue) \in Packet /\ Tail(queue) \in Seq(Packet)
    BY HeadTailProperties DEF TypeOK
  <2>3. queue' \in Seq(Packet)
    BY <2>1, <2>2 DEF TypeOK
  <2>4. TypeOK'
    <3>1. UNCHANGED <<connected, client, timerVars, conState, epoch, ready, pkt, calls, history>>
      BY <1>5 DEF DrainPop
    <3>2. pc' \in [Threads -> PC]
      BY <1>5 DEF DrainPop, PopFront, TypeOK
    <3>3. front' \in [Threads -> Packet \cup {NoPacket}]
      BY <1>5, <2>2 DEF DrainPop, PopFront, TypeOK
    <3> QED
      BY <2>3, <3>1, <3>2, <3>3 DEF TypeOK
  <2>5. Carrying'
    BY <1>5, <2>2 DEF DrainPop, PopFront, TypeOK, Carrying
  <2> QED
    BY <2>4, <2>5
<1>6. CASE DrainSend
  <2>1. /\ ready' \in Seq(Handler) /\ wire' \in Seq(Written)
        /\ dropped' \in SUBSET Packet /\ refused' \in SUBSET Packet
    BY <1>6, SendTypes DEF DrainSend, TypeOK, Carrying, Threads
  <2>2. TypeOK'
    BY <1>6, <2>1 DEF DrainSend, TypeOK
  <2>3. Carrying'
    BY <1>6 DEF DrainSend, TypeOK, Carrying
  <2> QED
    BY <2>2, <2>3
<1>7. CASE CloseDisconnected
  <2>1. TypeOK'
    BY <1>7 DEF CloseDisconnected, TypeOK
  <2>2. Carrying'
    BY <1>7 DEF CloseDisconnected, TypeOK, Carrying
  <2> QED
    BY <2>1, <2>2
<1>8. CASE CloseClear \/ DisconnectClear
  <2>1. dropped' \in SUBSET Packet
    BY <1>8, QueueTypes, LenProperties DEF CloseClear, DisconnectClear, ClearQueue, TypeOK
  <2>2. queue' \in Seq(Packet)
    BY <1>8, EmptySeq DEF CloseClear, DisconnectClear, ClearQueue
  <2>3. TypeOK'
    BY <1>8, <2>1, <2>2 DEF CloseClear, DisconnectClear, TypeOK
  <2>4. Carrying'
    BY <1>8 DEF CloseClear, DisconnectClear, TypeOK, Carrying
  <2> QED
    BY <2>3, <2>4
<1>9. CASE TimeoutConnection \/ CloseWaitDone
  <2>1. Tail(ready) \in Seq(Handler) /\ At(Net, "idle")
    BY <1>9, HandlerTypes DEF TimeoutConnection, CloseWaitDone
  <2>2. ready' \in Seq(Handler)
    BY <1>9, <2>1, CancelTypes DEF TimeoutConnection, CloseWaitDone, DropTimer
  <2>3. TypeOK'
    BY <1>9, <2>2 DEF TimeoutConnection, CloseWaitDone, DropTimer, ForgetClient, TypeOK
  <2>4. Carrying'
    BY <1>9 DEF TimeoutConnection, CloseWaitDone, DropTimer, ForgetClient, TypeOK, Carrying
  <2> QED
    BY <2>3, <2>4
<1>10. CASE RunSend
  <2>1. /\ Tail(ready) \in Seq(Handler)
        /\ Head(ready).pkt \in Packet /\ Head(ready).by \in Threads
    BY <1>10, HandlerTypes DEF RunSend, Threads
  <2>2. [pkt |-> Head(ready).pkt, by |-> Head(ready).by, epoch |-> epoch] \in Written
    BY <2>1 DEF TypeOK, Written
  <2>3. /\ wire' \in Seq(Written)
        /\ dropped' \in SUBSET Packet /\ refused' \in SUBSET Packet
    <3>1. \/ /\ dropped' = dropped /\ refused' = refused
             /\ \E w \in Written : wire' = Append(wire, w)
          \/ /\ wire' = wire /\ refused' = refused
             /\ dropped' = dropped \cup {Head(ready).pkt}
          \/ /\ wire' = wire /\ dropped' = dropped
             /\ refused' = refused \cup {Head(ready).pkt}
      BY <1>10, <2>2 DEF RunSend, SendImpl
    <3> QED
      BY <2>1, <3>1, WireTypes DEF TypeOK
  <2>4. TypeOK'
    BY <1>10, <2>1, <2>3 DEF RunSend, TypeOK
  <2>5. Carrying'
    BY <1>10 DEF RunSend, TypeOK, Carrying
  <2> QED
    BY <2>4, <2>5
<1>11. CASE Expire
  <2>1. TimeoutHandler \in Handler /\ CloseHandler \in Handler
    BY DEF Handler
  <2>2. ready' \in Seq(Handler)
    <3>1. \E h \in Handler : ready' = Append(ready, h)
      BY <1>11, <2>1 DEF Expire
    <3> QED
      BY <3>1, QueueTypes DEF TypeOK
  <2>3. TypeOK'
    BY <1>11, <2>2 DEF Expire, TypeOK
  <2>4. Carrying'
    BY <1>11 DEF Expire, TypeOK, Carrying
  <2> QED
    BY <2>3, <2>4
<1> QED
  BY <1>1, <1>2, <1>3, <1>4, <1>5, <1>6, <1>7, <1>8, <1>9, <1>10, <1>11
     DEF Environment, NetStep

LEMMA NextTyped == Typed /\ [Next]_vars => Typed'
<1> SUFFICES ASSUME Typed, [Next]_vars PROVE Typed'
  OBVIOUS
<1>1. CASE UNCHANGED vars
  BY <1>1 DEF Typed, TypeOK, Carrying, vars, timerVars, sockVars, callVars, history
<1>2. CASE Next
  BY <1>2, TypedCall, TypedNet DEF Next
<1> QED
  BY <1>1, <1>2

LEMMA TypedInvariant == Spec => []Typed
<1> QED
  BY InitTyped, NextTyped, PTL DEF Spec

(* The packets in the queues, in the threads' hands and on the wire are    *)
(* always packets some thread issued, in every state of every execution of *)
(* the socket's code.                                                      *)
THEOREM TypeCorrect == Spec => []TypeOK
<1>1. Typed => TypeOK
  BY DEF Typed
<1> QED
  BY <1>1, TypedInvariant, PTL
-----------------------------------------------------------------------------
(* Packets left behind in the queue.                                       *)

(* The queue holds one packet of a thread at most, and none of a thread in *)
(* one of the places S, from which it may yet push.                        *)
OneEach(S) ==
  /\ \A i, j \in DOMAIN queue : queue[i].from = queue[j].from => i = j
  /\ \A t \in Threads : pc[t] \in S => \A i \in DOMAIN queue : queue[i].from # t

(* The strengthening: a thread that is about to push, having read          *)
(* m_connected before on_connected set it, has nothing else in the queue.  *)
Stranding == connected /\ ~Draining => OneEach({"push"})

(* A thread pushes its packet, and is done.                                *)
LEMMA OnePushed ==
  ASSUME Typed, NEW S, OneEach(S), "push" \in S, "idle" \notin S, "arm" \notin S,
         NEW t \in Threads, PushPacket(t)
  PROVE  OneEach(S)'
<1> USE DEF Typed, At, Goto
<1>1. /\ pkt[t] \in Packet /\ pkt[t].from = t /\ queue' = Append(queue, pkt[t])
      /\ pc[t] = "push"
  BY DEF PushPacket, Carrying
<1>2. /\ queue \in Seq(Packet) /\ queue' \in Seq(Packet)
      /\ Len(queue') = Len(queue) + 1 /\ queue'[Len(queue) + 1] = pkt[t]
      /\ \A i \in 1..Len(queue) : queue'[i] = queue[i]
  BY <1>1, AppendProperties DEF TypeOK
<1>3. /\ DOMAIN queue = 1..Len(queue) /\ DOMAIN queue' = 1..(Len(queue) + 1)
      /\ Len(queue) \in Nat
  BY <1>2, LenProperties
<1>4. \A i \in 1..Len(queue) : queue[i].from # t
  BY <1>1, <1>3 DEF OneEach
<1>5. \A i, j \in 1..Len(queue) : queue[i].from = queue[j].from => i = j
  BY <1>3 DEF OneEach
<1>6. \A i, j \in DOMAIN queue' : queue'[i].from = queue'[j].from => i = j
  BY <1>1, <1>2, <1>3, <1>4, <1>5
<1>7. ASSUME NEW u \in Threads, pc'[u] \in S, NEW i \in DOMAIN queue'
      PROVE  queue'[i].from # u
  <2>1. u # t /\ pc[u] \in S
    BY <1>7 DEF PushPacket, Return, TypeOK
  <2>2. \A k \in 1..Len(queue) : queue[k].from # u
    BY <1>3, <2>1 DEF OneEach
  <2> QED
    BY <1>1, <1>2, <1>3, <2>1, <2>2
<1> QED
  BY <1>6, <1>7 DEF OneEach

(* The front packet leaves, and nobody comes to one of the places.         *)
LEMMA OnePopped ==
  ASSUME Typed, NEW S, OneEach(S), queue # <<>>, queue' = Tail(queue),
         \A u \in Threads : pc'[u] \in S => pc[u] \in S
  PROVE  OneEach(S)'
<1>1. queue \in Seq(Packet)
  BY DEF Typed, TypeOK
<1>2. queue' \in Seq(Packet) /\ Len(queue') = Len(queue) - 1
  BY <1>1, HeadTailProperties
<1>3. /\ DOMAIN queue = 1..Len(queue) /\ Len(queue) \in Nat
      /\ DOMAIN queue' = 1..(Len(queue) - 1)
      /\ \A i \in 1..(Len(queue) - 1) : queue'[i] = queue[i + 1]
  BY <1>1, <1>2, HeadTailProperties, LenProperties
<1>4. \A i, j \in DOMAIN queue' : queue'[i].from = queue'[j].from => i = j
  <2> SUFFICES ASSUME NEW i \in DOMAIN queue', NEW j \in DOMAIN queue',
                      queue'[i].from = queue'[j].from
               PROVE  i = j
    OBVIOUS
  <2>1. i + 1 \in DOMAIN queue /\ j + 1 \in DOMAIN queue
    BY <1>3
  <2>2. i + 1 = j + 1
    BY <1>3, <2>1 DEF OneEach
  <2> QED
    BY <1>3, <2>2
<1>5. ASSUME NEW u \in Threads, pc'[u] \in S, NEW i \in DOMAIN queue'
      PROVE  queue'[i].from # u
  <2>1. i + 1 \in DOMAIN queue /\ queue'[i] = queue[i + 1]
    BY <1>3
  <2> QED
    BY <1>5, <2>1 DEF OneEach
<1> QED
  BY <1>4, <1>5 DEF OneEach

(* The queue is empty, or as it was with nobody new in one of the places.  *)
LEMMA OneKept ==
  ASSUME NEW S,
         \/ queue' = <<>>
         \/ /\ OneEach(S) /\ queue' = queue
            /\ \A u \in Threads : pc'[u] \in S => pc[u] \in S
  PROVE  OneEach(S)'
<1>1. queue' = <<>> => DOMAIN queue' = {}
  OBVIOUS
<1> QED
  BY <1>1 DEF OneEach

(* A step that leaves m_connected and the queue alone.                     *)
LEMMA StrandingKept ==
  ASSUME Stranding, connected' = connected, queue' = queue,
         \A t \in Threads : pc'[t] = "push" => pc[t] = "push",
         Draining => Draining'
  PROVE  Stranding'
BY OneKept DEF Stranding

LEMMA StrandingCall ==
  ASSUME Typed, Stranding, NEW t \in Threads, Call(t) \/ Continue(t)
  PROVE  Stranding'
<1> USE NetAssumption DEF Typed, At, Goto, sockVars
<1>1. CASE PushPacket(t)
  <2>1. connected' /\ ~Draining' => connected /\ ~Draining
    BY <1>1 DEF PushPacket, Return, Draining, TypeOK
  <2> QED
    BY <1>1, <2>1, OnePushed DEF Stranding
<1>2. CASE FlushPop(t)
  <2>1. connected' = connected
    BY <1>2 DEF FlushPop
  <2>2. \A u \in Threads : pc'[u] = "push" => pc[u] = "push"
    BY <1>2 DEF FlushPop, PopFront, TypeOK
  <2>3. Draining => Draining'
    BY <1>2 DEF FlushPop, PopFront, TypeOK, Draining, Threads
  <2>4. queue' = queue \/ (queue # <<>> /\ queue' = Tail(queue))
    BY <1>2 DEF FlushPop, PopFront
  <2> QED
    BY <2>1, <2>2, <2>3, <2>4, StrandingKept, OnePopped DEF Stranding
<1>3. CASE SendBranch(t)
  <2>1. CASE connected
    <3>1. connected' = connected /\ queue' = queue
      BY <1>3 DEF SendBranch
    <3>2. \A u \in Threads : pc'[u] = "push" => pc[u] = "push"
      BY <1>3, <2>1 DEF SendBranch, TypeOK
    <3>3. Draining => Draining'
      BY <1>3 DEF SendBranch, TypeOK, Draining, Threads
    <3> QED
      BY <3>1, <3>2, <3>3, StrandingKept
  <2>2. CASE ~connected
    BY <1>3, <2>2 DEF SendBranch, Stranding
  <2> QED
    BY <2>1, <2>2
<1>4. CASE \/ Emit(t) \/ SocketClose(t) \/ ClientClose(t) \/ CloseSocket(t)
           \/ SendGuard(t) \/ FlushSend(t) \/ DirectSend(t)
           \/ TestTimer(t) \/ ReadService(t) \/ ResetTimer(t)
           \/ SetExpiry(t) \/ WaitClose(t)
  <2> USE DEF Emit, SocketClose, ClientClose, CloseSocket, SendGuard, FlushSend, DirectSend,
              TestTimer, ReadService, ResetTimer, SetExpiry, WaitClose, Return
  <2>1. connected' = connected /\ queue' = queue
    BY <1>4
  <2>2. /\ pc' = [pc EXCEPT ![t] = pc'[t]] /\ pc'[t] # "push"
        /\ pc[t] \notin {"drain", "drainSend"}
    BY <1>4 DEF TypeOK
  <2>3. \A u \in Threads : pc'[u] = "push" => pc[u] = "push"
    BY <2>2 DEF TypeOK
  <2>4. Draining => Draining'
    BY <2>2 DEF TypeOK, Draining, Threads
  <2> QED
    BY <2>1, <2>3, <2>4, StrandingKept
<1> QED
  BY <1>1, <1>2, <1>3, <1>4 DEF Call, Continue

LEMMA StrandingNet ==
  ASSUME Typed, Stranding, Environment \/ NetStep \/ Expire
  PROVE  Stranding'
<1> USE NetAssumption DEF Typed, At, Goto, sockVars, callVars, Threads
<1>1. CASE SetConnected
  BY <1>1 DEF SetConnected, Stranding, Draining, TypeOK
<1>2. CASE DrainPop
  <2>1. CASE queue = <<>>
    <3>1. queue' = <<>>
      BY <1>2, <2>1 DEF DrainPop, PopFront
    <3> QED
      BY <3>1, OneKept DEF Stranding
  <2>2. CASE queue # <<>>
    BY <1>2, <2>2 DEF DrainPop, PopFront, Stranding, Draining, TypeOK
  <2> QED
    BY <2>1, <2>2
<1>3. CASE DrainSend
  BY <1>3 DEF DrainSend, Stranding, Draining, TypeOK
<1>4. CASE CloseDisconnected
  BY <1>4 DEF CloseDisconnected, Stranding
<1>5. CASE CloseClear \/ DisconnectClear
  <2>1. queue' = <<>>
    BY <1>5 DEF CloseClear, DisconnectClear, ClearQueue
  <2> QED
    BY <2>1, OneKept DEF Stranding
<1>6. CASE OnDisconnect /\ client /\ connected
  BY <1>6 DEF OnDisconnect, Stranding
<1>7. CASE \/ OnOpen \/ OnConnected \/ OnDisconnectPacket
           \/ (OnDisconnect /\ ~(client /\ connected))
           \/ TimeoutConnection \/ TimeoutClose \/ CloseWaitDone \/ CloseTimer
           \/ RunSend \/ Expire
  <2> USE DEF OnOpen, OnConnected, OnDisconnectPacket, OnDisconnect, TimeoutConnection,
              TimeoutClose, CloseWaitDone, CloseTimer, RunSend, Expire, DropTimer,
              ForgetClient, NextHandler
  <2>1. connected' = connected /\ queue' = queue
    BY <1>7
  <2>2. \/ pc' = pc
        \/ /\ pc[Net] \in {"idle", "forget", "cancelTimer"}
           /\ \E l \in {"idle", "confirm", "forget", "cancelTimer", "close2"} :
                pc' = [pc EXCEPT ![Net] = l]
    BY <1>7
  <2>3. \A u \in Threads : pc'[u] = "push" => pc[u] = "push"
    BY <2>2 DEF TypeOK
  <2>4. Draining => Draining'
    BY <2>2 DEF TypeOK, Draining
  <2> QED
    BY <2>1, <2>3, <2>4, StrandingKept
<1> QED
  BY <1>1, <1>2, <1>3, <1>4, <1>5, <1>6, <1>7 DEF Environment, NetStep

(* While the socket is connected, and on_connected has emptied the queue,  *)
(* the race between send_packet's test of m_connected and on_connected     *)
(* leaves at most one packet of each thread in the queue.                  *)
THEOREM StrandingBounded == Spec => []StrandedPerThread
<1>1. Init => Stranding
  BY DEF Init, Stranding
<1>2. Typed /\ Stranding /\ [Next]_vars => Stranding'
  <2> SUFFICES ASSUME Typed, Stranding, [Next]_vars PROVE Stranding'
    OBVIOUS
  <2>1. CASE UNCHANGED vars
    BY <2>1 DEF Stranding, OneEach, Draining, vars, sockVars, callVars
  <2>2. CASE Next
    BY <2>2, StrandingCall, StrandingNet DEF Next
  <2> QED
    BY <2>1, <2>2
<1>3. Stranding => StrandedPerThread
  BY DEF Stranding, OneEach, StrandedPerThread
<1> QED
  BY <1>1, <1>2, <1>3, TypedInvariant, PTL DEF Spec
-----------------------------------------------------------------------------
(* A closed socket.                                                        *)

(* m_client is NULL one step before the timer is destroyed, and two before *)
(* m_connected is reset; on_connected and timeout_connection run with it.  *)
Closing ==
  /\ ~client => ~connected \/ InOnClose
  /\ ~client => "connect" \notin waits \/ pc[Net] = "cancelTimer"
  /\ pc[Net] \in {"confirm", "forget"} => client

LEMMA ClosingCall ==
  ASSUME Typed, Closing, NEW t \in Threads, Call(t) \/ Continue(t)
  PROVE  Closing'
<1> DEFINE N == {"confirm", "forget", "cancelTimer", "close2"}
<1>1. client' = client /\ connected' = connected
  BY DEF Call, Continue, Emit, SocketClose, ClientClose, SendGuard, SendBranch, PushPacket,
         FlushPop, FlushSend, DirectSend, CloseSocket, TestTimer, ReadService, ResetTimer,
         SetExpiry, WaitClose, sockVars
<1>2. "connect" \in waits' => "connect" \in waits
  BY DEF Call, Continue, Emit, SocketClose, ClientClose, SendGuard, SendBranch, PushPacket,
         FlushPop, FlushSend, DirectSend, CloseSocket, TestTimer, ReadService, ResetTimer,
         SetExpiry, WaitClose, timerVars, sockVars
<1>3. pc[t] \notin N /\ pc' = [pc EXCEPT ![t] = pc'[t]] /\ pc'[t] \notin N
  BY DEF Call, Continue, Emit, SocketClose, ClientClose, SendGuard, SendBranch, PushPacket,
         FlushPop, PopFront, FlushSend, DirectSend, CloseSocket, TestTimer, ReadService,
         ResetTimer, SetExpiry, WaitClose, Return, At, Goto, Typed, TypeOK
<1>4. pc[Net] \in N \/ pc'[Net] \in N => pc'[Net] = pc[Net]
  BY <1>3 DEF Typed, TypeOK, Threads
<1> QED
  BY <1>1, <1>2, <1>4 DEF Closing, InOnClose

LEMMA ClosingNet ==
  ASSUME Typed, Closing, Environment \/ NetStep \/ Expire
  PROVE  Closing'
<1> USE DEF Typed, TypeOK, Closing, InOnClose, At, Goto, timerVars, sockVars, callVars, Threads
<1>1. CASE OnOpen
  BY <1>1 DEF OnOpen
<1>2. CASE OnConnected \/ SetConnected
  BY <1>2 DEF OnConnected, SetConnected, DropTimer
<1>3. CASE OnDisconnectPacket \/ TimeoutClose
  BY <1>3 DEF OnDisconnectPacket, TimeoutClose, ForgetClient
<1>4. CASE OnDisconnect
  BY <1>4 DEF OnDisconnect
<1>5. CASE DrainPop \/ DrainSend
  BY <1>5 DEF DrainPop, DrainSend, PopFront
<1>6. CASE CloseTimer \/ CloseDisconnected
  BY <1>6 DEF CloseTimer, CloseDisconnected, DropTimer
<1>7. CASE CloseClear \/ DisconnectClear
  BY <1>7 DEF CloseClear, DisconnectClear
<1>8. CASE TimeoutConnection \/ CloseWaitDone
  BY <1>8 DEF TimeoutConnection, CloseWaitDone, ForgetClient, DropTimer, NextHandler
<1>9. CASE RunSend \/ Expire
  BY <1>9 DEF RunSend, Expire
<1> QED
  BY <1>1, <1>2, <1>3, <1>4, <1>5, <1>6, <1>7, <1>8, <1>9 DEF Environment, NetStep

LEMMA ClosingInvariant == Spec => []Closing
<1>1. Init => Closing
  BY DEF Init, Closing, Threads
<1>2. Typed /\ Closing /\ [Next]_vars => Closing'
  <2> SUFFICES ASSUME Typed, Closing, [Next]_vars PROVE Closing'
    OBVIOUS
  <2>1. CASE UNCHANGED vars
    BY <2>1 DEF Closing, InOnClose, vars, timerVars, sockVars, callVars
  <2>2. CASE Next
    BY <2>2, ClosingCall, ClosingNet DEF Next
  <2> QED
    BY <2>1, <2>2
<1> QED
  BY <1>1, <1>2, TypedInvariant, PTL DEF Spec

(* A thread that has passed NULL_GUARD has nothing in the queue of the     *)
(* socket that was closed under it; it comes by no second time.            *)
Sealed ==
  ~client /\ ~InOnClose /\ pc[Net] # "close3" => OneEach({"branch", "push"})

(* A step that leaves the queue alone, of a thread or handler that does    *)
(* not end on_close.                                                       *)
LEMMA SealedKept ==
  ASSUME Sealed, queue' = queue, client' => client, client => client' \/ InOnClose',
         InOnClose \/ pc[Net] = "close3" => InOnClose' \/ pc'[Net] = "close3",
         \A u \in Threads : pc'[u] \in {"branch", "push"} => pc[u] \in {"branch", "push"} \/ client
  PROVE  Sealed'
BY OneKept DEF Sealed

LEMMA SealedCall ==
  ASSUME Typed, Sealed, NEW t \in Threads, Call(t) \/ Continue(t)
  PROVE  Sealed'
<1> USE NetAssumption DEF Typed, At, Goto, sockVars
<1> DEFINE N == {"cancelTimer", "close2", "close3"}
           P == {"branch", "push"}
<1> USE DEF Call, Continue, Emit, SocketClose, ClientClose, SendGuard, SendBranch,
            FlushPop, PopFront, FlushSend, DirectSend, CloseSocket, TestTimer, ReadService,
            ResetTimer, SetExpiry, WaitClose, Return
<1>1. client' = client
  BY DEF PushPacket
<1>2. pc[t] \notin N /\ pc' = [pc EXCEPT ![t] = pc'[t]] /\ pc'[t] \notin N
  BY DEF PushPacket, TypeOK
<1>3. InOnClose' \/ pc'[Net] = "close3" <=> InOnClose \/ pc[Net] = "close3"
  BY <1>2 DEF TypeOK, Threads, InOnClose
<1>4. pc'[t] \in P => pc[t] \in P \/ client
  BY DEF PushPacket, TypeOK
<1>5. \A u \in Threads : pc'[u] \in P => pc[u] \in P \/ client
  BY <1>2, <1>4 DEF TypeOK
<1>6. CASE PushPacket(t)
  BY <1>1, <1>3, <1>6, OnePushed DEF Sealed
<1>7. CASE queue # <<>> /\ queue' = Tail(queue)
  BY <1>1, <1>3, <1>5, <1>7, OnePopped DEF Sealed
<1>8. CASE queue' = queue
  BY <1>1, <1>3, <1>5, <1>8, SealedKept
<1> QED
  BY <1>6, <1>7, <1>8

LEMMA SealedNet ==
  ASSUME Typed, Sealed, Environment \/ NetStep \/ Expire
  PROVE  Sealed'
<1> USE DEF Typed, At, Goto, sockVars, callVars, Threads
<1>1. CASE CloseClear \/ DisconnectClear
  <2>1. queue' = <<>>
    BY <1>1 DEF CloseClear, DisconnectClear, ClearQueue
  <2> QED
    BY <2>1, OneKept DEF Sealed
<1>2. CASE DrainPop
  <2>1. client' = client /\ (InOnClose' <=> InOnClose)
    BY <1>2 DEF DrainPop, PopFront, InOnClose, TypeOK
  <2>2. pc[Net] # "close3" /\ \A u \in Threads : pc'[u] \in {"branch", "push"} => pc'[u] = pc[u]
    BY <1>2 DEF DrainPop, PopFront, TypeOK
  <2>3. queue' = queue \/ (queue # <<>> /\ queue' = Tail(queue))
    BY <1>2 DEF DrainPop, PopFront
  <2> QED
    BY <2>1, <2>2, <2>3, OneKept, OnePopped DEF Sealed
<1>3. CASE \/ OnOpen \/ OnConnected \/ OnDisconnectPacket \/ OnDisconnect
           \/ SetConnected \/ DrainSend \/ TimeoutConnection \/ TimeoutClose \/ CloseWaitDone
           \/ CloseTimer \/ CloseDisconnected \/ RunSend \/ Expire
  <2> USE DEF OnOpen, OnConnected, OnDisconnectPacket, OnDisconnect, SetConnected, DrainSend,
              TimeoutConnection, TimeoutClose, CloseWaitDone, CloseTimer, CloseDisconnected,
              RunSend, Expire, DropTimer, ForgetClient, NextHandler
  <2>1. queue' = queue /\ (client' => client)
    BY <1>3
  <2>2. client => client' \/ InOnClose'
    BY <1>3 DEF TypeOK, InOnClose
  <2>3. InOnClose \/ pc[Net] = "close3" => InOnClose' \/ pc'[Net] = "close3"
    BY <1>3 DEF TypeOK, InOnClose
  <2>4. \A u \in Threads : pc'[u] \in {"branch", "push"} => pc'[u] = pc[u]
    BY <1>3 DEF TypeOK
  <2> QED
    BY <2>1, <2>2, <2>3, <2>4, SealedKept
<1> QED
  BY <1>1, <1>2, <1>3 DEF Environment, NetStep

LEMMA SealedInvariant == Spec => []Sealed
<1>1. Init => Sealed
  BY DEF Init, Sealed
<1>2. Typed /\ Sealed /\ [Next]_vars => Sealed'
  <2> SUFFICES ASSUME Typed, Sealed, [Next]_vars PROVE Sealed'
    OBVIOUS
  <2>1. CASE UNCHANGED vars
    BY <2>1 DEF Sealed, OneEach, InOnClose, vars, sockVars, callVars
  <2>2. CASE Next
    BY <2>2, SealedCall, SealedNet DEF Next
  <2> QED
    BY <2>1, <2>2
<1> QED
  BY <1>1, <1>2, TypedInvariant, PTL DEF Spec

(* Once on_close has gone past the timer and m_connected, the socket stays *)
(* disconnected and without a timeout_connection that waits: no close() or *)
(* emit() still under way, and no packet of the server, revives it; and    *)
(* what still gets into its queue is one packet per thread at most.  (A    *)
(* timer that waits for on_close may be left, if close() was overtaken     *)
(* between its test of m_connection_timer and its reset of it.)            *)
THEOREM CloseFinal == Spec => []ClosedIsFinal
<1>1. Closing /\ Sealed => ClosedIsFinal
  BY DEF Closing, Sealed, OneEach, ClosedIsFinal, InOnClose
<1> QED
  BY <1>1, ClosingInvariant, SealedInvariant, PTL
-----------------------------------------------------------------------------
(* Nothing is written before the handshake.                                *)

Sending == {"flush", "flushSend", "direct", "drain", "drainSend"}

(* Who has read m_connected set, or works for on_connected, knows of a     *)
(* confirmation: the network thread of one on this very connection, which  *)
(* it cannot leave in the middle of a handler.                             *)
Confirmed ==
  /\ acked \subseteq 1..epoch
  /\ connected \/ pc[Net] = "confirm" => conState # "closed" /\ epoch \in acked
  /\ \A t \in Threads : pc[t] \in Sending => acked # {}
  /\ pc[Net] \in Sending => epoch \in acked
  /\ \A i \in DOMAIN ready : ready[i].op = "send" => acked # {}

(* What one write to the websocket may be.                                 *)
FrameAllowed(w) ==
  /\ w \in Written /\ w.epoch = epoch
  /\ epoch' = epoch
  /\ IF w.by = Net THEN epoch \in acked ELSE acked # {}

LEMMA FrameWritten ==
  ASSUME Typed, Confirmed, Next
  PROVE  wire' = wire \/ \E w \in Written : FrameAllowed(w) /\ wire' = Append(wire, w)
<1> USE NetAssumption DEF Typed, At, Goto, history, callVars
<1>1. ASSUME NEW t \in Threads, NEW p \in Packet, ClientSend(t, p), pc[t] \in Sending,
             epoch' = epoch
      PROVE  wire' = wire \/ \E w \in Written : FrameAllowed(w) /\ wire' = Append(wire, w)
  <2> DEFINE w == [pkt |-> p, by |-> t, epoch |-> epoch]
  <2>1. wire' = wire \/ (t = Net /\ wire' = Append(wire, w))
    BY <1>1 DEF ClientSend, SendImpl
  <2>2. w \in Written
    BY DEF Written, TypeOK
  <2>3. t = Net => FrameAllowed(w)
    BY <1>1, <2>2 DEF FrameAllowed, Confirmed
  <2> QED
    BY <2>1, <2>2, <2>3
<1>2. ASSUME NEW t \in Threads, FlushSend(t) \/ DirectSend(t)
      PROVE  wire' = wire \/ \E w \in Written : FrameAllowed(w) /\ wire' = Append(wire, w)
  <2>1. pc[t] \in Sending /\ epoch' = epoch
    BY <1>2 DEF FlushSend, DirectSend, Sending
  <2>2. wire' = wire \/ \E p \in Packet : ClientSend(t, p)
    BY <1>2 DEF FlushSend, DirectSend, Carrying
  <2> QED
    BY <1>1, <2>1, <2>2
<1>3. CASE DrainSend
  <2>1. Net \in Threads /\ pc[Net] \in Sending /\ epoch' = epoch
    BY <1>3 DEF DrainSend, Sending, Threads
  <2>2. \E p \in Packet : ClientSend(Net, p)
    BY <1>3, <2>1 DEF DrainSend, Carrying
  <2> QED
    BY <1>1, <2>1, <2>2
<1>4. CASE RunSend
  <2> DEFINE w == [pkt |-> Head(ready).pkt, by |-> Head(ready).by, epoch |-> epoch]
  <2>1. (wire' = wire \/ wire' = Append(wire, w)) /\ epoch' = epoch
    BY <1>4 DEF RunSend, SendImpl
  <2>2. Head(ready).pkt \in Packet /\ Head(ready).by \in Users
    BY <1>4, HandlerTypes DEF RunSend
  <2>3. w \in Written
    BY <2>2 DEF Written, TypeOK, Threads
  <2>4. ready # <<>> /\ ready \in Seq(Handler) /\ Head(ready).op = "send"
    BY <1>4 DEF RunSend, NextHandler, TypeOK
  <2>5. 1 \in DOMAIN ready /\ Head(ready) = ready[1]
    BY <2>4, EmptySeq, LenProperties
  <2>6. acked # {}
    BY <2>4, <2>5 DEF Confirmed
  <2>7. FrameAllowed(w)
    BY <2>1, <2>2, <2>3, <2>6 DEF FrameAllowed
  <2> QED
    BY <2>1, <2>3, <2>7
<1>5. ASSUME NEW t \in Threads, Call(t) \/ Continue(t), ~FlushSend(t), ~DirectSend(t)
      PROVE  wire' = wire
  BY <1>5 DEF Call, Continue, Emit, SocketClose, ClientClose, SendGuard, SendBranch,
              PushPacket, FlushPop, CloseSocket, TestTimer, ReadService, ResetTimer,
              SetExpiry, WaitClose
<1>6. ASSUME Environment \/ NetStep \/ Expire, ~DrainSend, ~RunSend
      PROVE  wire' = wire
  BY <1>6 DEF Environment, NetStep, OnOpen, OnConnected, SetConnected, OnDisconnectPacket,
              OnDisconnect, DrainPop, TimeoutClose, CloseTimer, CloseDisconnected,
              CloseClear, DisconnectClear, TimeoutConnection, CloseWaitDone, Expire
<1> QED
  BY <1>2, <1>3, <1>4, <1>5, <1>6 DEF Next

(* Confirmations are never forgotten, and belong to connections opened.    *)
LEMMA AckedGrows ==
  ASSUME Typed, Confirmed, Next
  PROVE  /\ acked \subseteq acked'
         /\ epoch' \in {epoch, epoch + 1}
         /\ acked' \subseteq 1..epoch'
<1> USE DEF Typed, history
<1>1. CASE OnConnected
  <2>1. acked' = acked \cup {epoch} /\ epoch' = epoch
    BY <1>1 DEF OnConnected
  <2> QED
    BY <2>1 DEF Confirmed, TypeOK
<1>2. CASE OnOpen
  BY <1>2 DEF OnOpen, Confirmed, TypeOK
<1>3. ASSUME NEW t \in Threads, Call(t) \/ Continue(t)
      PROVE  acked' = acked /\ epoch' = epoch
  BY <1>3 DEF Call, Continue, Emit, SocketClose, ClientClose, SendGuard, SendBranch,
              PushPacket, FlushPop, FlushSend, DirectSend, CloseSocket, TestTimer, ReadService,
              ResetTimer, SetExpiry, WaitClose
<1>4. ASSUME Environment \/ NetStep \/ Expire, ~OnConnected, ~OnOpen
      PROVE  acked' = acked /\ epoch' = epoch
  BY <1>4 DEF Environment, NetStep, SetConnected, OnDisconnectPacket, OnDisconnect, DrainPop,
              DrainSend, TimeoutClose, CloseTimer, CloseDisconnected, CloseClear,
              DisconnectClear, TimeoutConnection, CloseWaitDone, RunSend, Expire
<1> QED
  BY <1>1, <1>2, <1>3, <1>4 DEF Next, Confirmed

(* m_connected is set by on_connected alone, and reset with the connection.*)
LEMMA ConnectedConfirmed ==
  ASSUME Typed, Closing, Confirmed, Next
  PROVE  connected' \/ pc'[Net] = "confirm" => conState' # "closed" /\ epoch' \in acked'
<1> USE DEF Typed, TypeOK, Confirmed, At, Goto, sockVars, callVars, history, Threads
<1>1. CASE OnConnected
  BY <1>1 DEF OnConnected
<1>2. CASE OnOpen
  BY <1>2 DEF OnOpen
<1>3. CASE OnDisconnect
  BY <1>3 DEF OnDisconnect, Closing, InOnClose
<1>4. ASSUME NEW t \in Threads, Call(t) \/ Continue(t)
      PROVE  connected' = connected /\ acked' = acked /\ epoch' = epoch
             /\ (conState' = conState \/ conState' = "closing")
  BY <1>4 DEF Call, Continue, Emit, SocketClose, ClientClose, SendGuard, SendBranch,
              PushPacket, FlushPop, FlushSend, DirectSend, CloseSocket, TestTimer,
              ReadService, ResetTimer, SetExpiry, WaitClose
<1>5. ASSUME NEW t \in Threads, Call(t) \/ Continue(t)
      PROVE  pc'[Net] = "confirm" => pc[Net] = "confirm"
  <2>1. pc' = [pc EXCEPT ![t] = pc'[t]] /\ pc'[t] # "confirm"
    BY <1>5 DEF Call, Continue, Emit, SocketClose, ClientClose, SendGuard, SendBranch,
                PushPacket, FlushPop, PopFront, FlushSend, DirectSend, CloseSocket,
                TestTimer, ReadService, ResetTimer, SetExpiry, WaitClose, Return
  <2> QED
    BY <2>1
<1>6. ASSUME Environment \/ NetStep \/ Expire, ~OnConnected, ~OnOpen, ~OnDisconnect
      PROVE  /\ connected' => connected \/ pc[Net] = "confirm"
             /\ pc'[Net] = "confirm" => pc[Net] = "confirm"
             /\ acked' = acked /\ epoch' = epoch /\ conState' = conState
  BY <1>6 DEF Environment, NetStep, OnDisconnectPacket, SetConnected, DrainPop, PopFront,
              DrainSend, TimeoutClose, CloseTimer, CloseDisconnected, CloseClear,
              DisconnectClear, TimeoutConnection, CloseWaitDone, RunSend, Expire, ForgetClient
<1>7. ASSUME NEW t \in Threads, Call(t) \/ Continue(t)
      PROVE  connected' \/ pc'[Net] = "confirm" => conState' # "closed" /\ epoch' \in acked'
  <2>1. connected' = connected /\ acked' = acked /\ epoch' = epoch
    BY <1>4, <1>7
  <2>2. conState' = conState \/ conState' = "closing"
    BY <1>4, <1>7
  <2>3. pc'[Net] = "confirm" => pc[Net] = "confirm"
    BY <1>5, <1>7
  <2> QED
    BY <2>1, <2>2, <2>3
<1>8. CASE Environment \/ NetStep \/ Expire
  BY <1>1, <1>2, <1>3, <1>6, <1>8
<1> QED
  BY <1>7, <1>8 DEF Next

(* A handler the io_service is given.                                      *)
ReadyStep(r) ==
  \/ r = ready
  \/ ready # <<>> /\ r = Tail(ready)
  \/ \E h \in Handler : h.op # "send" /\ r = Append(ready, h)

LEMMA ReadyKeeps ==
  ASSUME Typed, NEW r, ReadyStep(r), \A i \in DOMAIN ready : ready[i].op # "send"
  PROVE  r \in Seq(Handler) /\ \A i \in DOMAIN r : r[i].op # "send"
<1>1. ready \in Seq(Handler) /\ DOMAIN ready = 1..Len(ready) /\ Len(ready) \in Nat
  BY LenProperties DEF Typed, TypeOK
<1>2. CASE r = ready
  BY <1>1, <1>2
<1>3. CASE ready # <<>> /\ r = Tail(ready)
  <2>1. /\ r \in Seq(Handler) /\ Len(r) = Len(ready) - 1
        /\ \A i \in 1..Len(r) : r[i] = ready[i + 1]
    BY <1>1, <1>3, HeadTailProperties
  <2>2. DOMAIN r = 1..Len(r)
    BY <2>1, LenProperties
  <2>3. ASSUME NEW i \in 1..Len(r)
        PROVE  r[i].op # "send"
    <3>1. i + 1 \in DOMAIN ready
      BY <1>1, <2>1
    <3> QED
      BY <2>1, <3>1
  <2> QED
    BY <2>1, <2>2, <2>3
<1>4. ASSUME NEW h \in Handler, h.op # "send", r = Append(ready, h)
      PROVE  r \in Seq(Handler) /\ \A i \in DOMAIN r : r[i].op # "send"
  <2>1. /\ r \in Seq(Handler) /\ Len(r) = Len(ready) + 1
        /\ \A i \in 1..Len(ready) : r[i] = ready[i]
        /\ r[Len(ready) + 1] = h
    BY <1>1, <1>4, AppendProperties
  <2>2. DOMAIN r = 1..Len(r)
    BY <2>1, LenProperties
  <2> QED
    BY <1>1, <1>4, <2>1, <2>2
<1> QED
  BY <1>2, <1>3, <1>4 DEF ReadyStep

(* Before any confirmation no application thread sends, so no send is      *)
(* posted.                                                                 *)
LEMMA NothingPosted ==
  ASSUME Typed, Confirmed, Next, acked = {}
  PROVE  \A i \in DOMAIN ready' : ready'[i].op # "send"
<1> USE DEF Typed, At, Goto
<1>1. \A i \in DOMAIN ready : ready[i].op # "send"
  BY DEF Confirmed
<1>2. \A t \in Threads : ~FlushSend(t) /\ ~DirectSend(t)
  BY DEF FlushSend, DirectSend, Confirmed, Sending
<1>3. ~DrainSend /\ ~RunSend
  <2>1. ~DrainSend
    BY DEF DrainSend, Confirmed, Sending, Threads
  <2>2. ASSUME RunSend PROVE FALSE
    <3>1. ready # <<>> /\ ready \in Seq(Handler) /\ Head(ready).op = "send"
      BY <2>2 DEF RunSend, NextHandler, TypeOK
    <3>2. 1 \in DOMAIN ready /\ Head(ready) = ready[1]
      BY <3>1, EmptySeq, LenProperties
    <3> QED
      BY <1>1, <3>1, <3>2
  <2> QED
    BY <2>1, <2>2
<1>4. /\ CloseHandler \in Handler /\ CloseHandler.op # "send"
      /\ TimeoutHandler \in Handler /\ TimeoutHandler.op # "send"
  BY DEF Handler, CloseHandler, TimeoutHandler
<1>5. CancelWaits(ready) => ReadyStep(ready')
  BY <1>4 DEF CancelWaits, ReadyStep
<1>6. CASE TimeoutConnection \/ CloseWaitDone
  <2>1. ready # <<>>
    BY <1>6 DEF TimeoutConnection, CloseWaitDone, NextHandler
  <2>2. Tail(ready) \in Seq(Handler) /\ \A i \in DOMAIN Tail(ready) : Tail(ready)[i].op # "send"
    BY <1>1, <2>1, ReadyKeeps DEF ReadyStep
  <2>3. ready' = Tail(ready) \/ ready' = Append(Tail(ready), CloseHandler)
    BY <1>6 DEF TimeoutConnection, CloseWaitDone, DropTimer, CancelWaits
  <2>4. CASE ready' = Append(Tail(ready), CloseHandler)
    <3>1. /\ DOMAIN Tail(ready) = 1..Len(Tail(ready)) /\ Len(Tail(ready)) \in Nat
          /\ ready' \in Seq(Handler) /\ Len(ready') = Len(Tail(ready)) + 1
          /\ \A i \in 1..Len(Tail(ready)) : ready'[i] = Tail(ready)[i]
          /\ ready'[Len(Tail(ready)) + 1] = CloseHandler
      BY <1>4, <2>2, <2>4, AppendProperties, LenProperties
    <3>2. DOMAIN ready' = 1..Len(ready')
      BY <3>1, LenProperties
    <3> QED
      BY <1>4, <2>2, <3>1, <3>2
  <2> QED
    BY <2>2, <2>3, <2>4
<1>7. ASSUME NEW t \in Threads, Call(t) \/ Continue(t)
      PROVE  ReadyStep(ready')
  BY <1>2, <1>5, <1>7
     DEF Call, Continue, Emit, SocketClose, ClientClose, SendGuard, SendBranch, PushPacket,
         FlushPop, CloseSocket, TestTimer, ReadService,
              ResetTimer, SetExpiry, WaitClose, ReadyStep
<1>8. ASSUME Environment \/ NetStep \/ Expire, ~TimeoutConnection, ~CloseWaitDone
      PROVE  ReadyStep(ready')
  BY <1>3, <1>4, <1>5, <1>8
     DEF Environment, NetStep, OnOpen, OnConnected, SetConnected, OnDisconnectPacket,
         OnDisconnect, DrainPop, TimeoutClose, CloseTimer, CloseDisconnected, CloseClear,
         DisconnectClear, Expire, DropTimer, ReadyStep
<1> QED
  BY <1>1, <1>6, <1>7, <1>8, ReadyKeeps DEF Next

(* Where the threads are after a step.                                     *)
LEMMA SendersConfirmed ==
  ASSUME Typed, Confirmed, Next
  PROVE  /\ \A t \in Threads : pc'[t] \in Sending => acked' # {}
         /\ pc'[Net] \in Sending => epoch' \in acked'
<1> USE NetAssumption DEF Typed, TypeOK, At, Goto, sockVars, history, callVars, Sending, Threads
<1>1. ASSUME NEW t \in Threads, Call(t) \/ Continue(t)
      PROVE  /\ acked' = acked /\ epoch' = epoch /\ pc' = [pc EXCEPT ![t] = pc'[t]]
             /\ pc'[t] \in Sending => pc[t] \in Sending \/ connected
  BY <1>1 DEF Call, Continue, Emit, SocketClose, ClientClose, SendGuard, SendBranch,
              PushPacket, FlushPop, PopFront, FlushSend, DirectSend, CloseSocket, TestTimer, ReadService,
              ResetTimer, SetExpiry, WaitClose, Return
<1>2. ASSUME NEW t \in Threads, Call(t) \/ Continue(t)
      PROVE  /\ \A u \in Threads : pc'[u] \in Sending => acked' # {}
             /\ pc'[Net] \in Sending => epoch' \in acked'
  BY <1>1, <1>2 DEF Confirmed
<1>3. CASE OnConnected \/ SetConnected
  BY <1>3 DEF OnConnected, SetConnected, Confirmed
<1>4. CASE OnOpen
  BY <1>4 DEF OnOpen, Confirmed
<1>5. ASSUME Environment \/ NetStep \/ Expire, ~OnConnected, ~SetConnected, ~OnOpen
      PROVE  /\ acked' = acked /\ epoch' = epoch /\ pc' = [pc EXCEPT ![Net] = pc'[Net]]
             /\ pc'[Net] \in Sending => pc[Net] \in Sending
  BY <1>5 DEF Environment, NetStep, OnDisconnectPacket, OnDisconnect, DrainPop, PopFront,
              DrainSend, TimeoutClose, CloseTimer, CloseDisconnected, CloseClear,
              DisconnectClear, TimeoutConnection, CloseWaitDone, RunSend, Expire, ForgetClient
<1>6. CASE Environment \/ NetStep \/ Expire
  BY <1>3, <1>4, <1>5, <1>6 DEF Confirmed
<1> QED
  BY <1>2, <1>6 DEF Next

(* HandshakeFirst is kept by a write that FrameAllowed describes.          *)
LEMMA FirstStep ==
  ASSUME Typed, Confirmed, HandshakeFirst, Next
  PROVE  HandshakeFirst'
<1>1. acked \subseteq acked' /\ acked \subseteq 1..epoch /\ epoch \in 1..MaxOpens
  BY AckedGrows DEF Confirmed, Typed, TypeOK
<1>2. CASE wire' = wire
  BY <1>1, <1>2 DEF HandshakeFirst
<1>3. ASSUME NEW w \in Written, FrameAllowed(w), wire' = Append(wire, w)
      PROVE  HandshakeFirst'
  <2>1. wire \in Seq(Written)
    BY DEF Typed, TypeOK
  <2>2. /\ DOMAIN wire = 1..Len(wire) /\ Len(wire) \in Nat
        /\ DOMAIN wire' = 1..(Len(wire) + 1)
        /\ \A i \in 1..Len(wire) : wire'[i] = wire[i]
        /\ wire'[Len(wire) + 1] = w
    BY <1>3, <2>1, AppendProperties, LenProperties
  <2> SUFFICES ASSUME NEW i \in DOMAIN wire'
               PROVE  IF wire'[i].by = Net THEN wire'[i].epoch \in acked'
                                           ELSE \E e \in acked' : e <= wire'[i].epoch
    BY DEF HandshakeFirst
  <2>3. CASE i \in 1..Len(wire)
    <3>1. i \in DOMAIN wire /\ wire'[i] = wire[i]
      BY <2>2, <2>3
    <3> QED
      BY <1>1, <3>1 DEF HandshakeFirst
  <2>4. CASE i = Len(wire) + 1
    <3>1. wire'[i] = w
      BY <2>2, <2>4
    <3>2. CASE w.by = Net
      BY <1>1, <1>3, <3>1, <3>2 DEF FrameAllowed
    <3>3. CASE w.by # Net
      <4>1. acked # {} /\ w.epoch = epoch
        BY <1>3, <3>1, <3>3 DEF FrameAllowed
      <4>2. PICK e \in acked : e \in 1..epoch
        BY <1>1, <4>1
      <4>3. e \in acked' /\ e <= w.epoch
        BY <1>1, <4>1, <4>2
      <4> QED
        BY <3>1, <3>3, <4>3
    <3> QED
      BY <3>2, <3>3
  <2> QED
    BY <2>2, <2>3, <2>4
<1> QED
  BY <1>2, <1>3, FrameWritten

LEMMA ConfirmedStep ==
  ASSUME Typed, Closing, Confirmed, Next
  PROVE  Confirmed'
<1>1. acked' \subseteq 1..epoch' /\ acked \subseteq acked'
  BY AckedGrows
<1>2. connected' \/ pc'[Net] = "confirm" => conState' # "closed" /\ epoch' \in acked'
  BY ConnectedConfirmed
<1>3. /\ \A t \in Threads : pc'[t] \in Sending => acked' # {}
      /\ pc'[Net] \in Sending => epoch' \in acked'
  BY SendersConfirmed
<1>4. \A i \in DOMAIN ready' : ready'[i].op = "send" => acked' # {}
  BY <1>1, NothingPosted
<1> QED
  BY <1>1, <1>2, <1>3, <1>4 DEF Confirmed

(* No event reaches the websocket before the server has confirmed the      *)
(* namespace, and what the network thread itself writes is never ahead of  *)
(* the confirmation of the connection it is written on.                    *)
THEOREM HandshakeBeforeEvents == Spec => []HandshakeFirst
<1>1. Init => Confirmed /\ HandshakeFirst
  <2> SUFFICES ASSUME Init PROVE Confirmed /\ HandshakeFirst
    OBVIOUS
  <2>1. Confirmed
    BY DEF Init, Confirmed, Sending, Threads
  <2>2. DOMAIN wire = {}
    BY DEF Init
  <2>3. HandshakeFirst
    BY <2>2 DEF HandshakeFirst
  <2> QED
    BY <2>1, <2>3
<1>2. Typed /\ Closing /\ Confirmed /\ HandshakeFirst /\ [Next]_vars
        => Confirmed' /\ HandshakeFirst'
  <2> SUFFICES ASSUME Typed, Closing, Confirmed, HandshakeFirst, [Next]_vars
               PROVE  Confirmed' /\ HandshakeFirst'
    OBVIOUS
  <2>1. CASE UNCHANGED vars
    BY <2>1 DEF Confirmed, HandshakeFirst, vars, sockVars, callVars, history
  <2>2. CASE Next
    BY <2>2, ConfirmedStep, FirstStep
  <2> QED
    BY <2>1, <2>2
<1> QED
  BY <1>1, <1>2, TypedInvariant, ClosingInvariant, PTL DEF Spec

-----------------------------------------------------------------------------
(* Where the packets are.                                                  *)

(* One thread's packets are queued in the order of their numbers ...       *)
Earlier(p, q) == p.from = q.from => p.n < q.n
QueueOrder == {r \in Packet \X Packet : Earlier(r[1], r[2])}

(* ... the sends posted by one thread keep that order, and none is posted  *)
(* twice ...                                                               *)
ReadyOrder ==
  {r \in Handler \X Handler :
     r[1].op = "send" /\ r[2].op = "send" =>
       r[1].pkt # r[2].pkt /\ (r[1].by = r[2].by => Earlier(r[1].pkt, r[2].pkt))}

(* ... and so do the frames a thread's sends have written.                 *)
WireOrder ==
  {r \in Written \X Written :
     r[1].by = r[2].by => Earlier(r[1].pkt, r[2].pkt)}

PostedIn(s) == {h \in Elems(s) : h.op = "send"}
Posted == PostedIn(ready)
Frames == Elems(wire)

(* Given to the client, or popped to be given to it.                       *)
Ahead ==
  {w.pkt : w \in Frames} \cup {h.pkt : h \in Posted}
    \cup ({front[t] : t \in Threads} \ {NoPacket})

(* Given up, or refused by websocketpp.                                    *)
Lost == dropped \cup refused

Owned == \A t \in Threads : pkt[t] # NoPacket => pkt[t].from = t

(* A thread carries a packet only where it is about to send it.            *)
Hands ==
  \A t \in Threads :
    /\ pc[t] \notin {"guard", "branch", "push", "flush", "flushSend", "direct", "crashed"} =>
         pkt[t] = NoPacket
    /\ pc[t] \notin {"flushSend", "drainSend", "crashed"} => front[t] = NoPacket

Sequenced ==
  Sorted(queue, QueueOrder) /\ Sorted(ready, ReadyOrder) /\ Sorted(wire, WireOrder)

(* What is ahead of the queue was issued before what is in it, and both    *)
(* before what a thread still holds.                                       *)
InFront ==
  /\ \A p \in Ahead, q \in Elems(queue) : Earlier(p, q)
  /\ \A p \in Ahead \cup Elems(queue), t \in Threads : pkt[t] # NoPacket => Earlier(p, pkt[t])

Numbered ==
  \A p \in Ahead \cup Elems(queue) \cup Lost \cup ({pkt[t] : t \in Threads} \ {NoPacket}) :
    p.n <= calls[p.from]

(* Along each thread's way to the websocket: written, posted, popped.      *)
Lanes ==
  /\ \A t \in Threads : front[t] # NoPacket =>
       /\ \A w \in Frames : w.by = t => Earlier(w.pkt, front[t])
       /\ \A h \in Posted : h.by = t => Earlier(h.pkt, front[t])
  /\ \A w \in Frames, h \in Posted : w.by = h.by => Earlier(w.pkt, h.pkt)

(* No packet is in the hands of two.                                       *)
Apart ==
  /\ \A t \in Threads, h \in Posted : front[t] # h.pkt
  /\ \A t, u \in Threads : front[t] = front[u] /\ front[t] # NoPacket => t = u

(* A thread sends its own packet when it has none left in the queue.       *)
Overtaken ==
  \A t \in Threads : pc[t] = "direct" => \A q \in Elems(queue) : q.from # t

Placed == Owned /\ Sequenced /\ InFront /\ Numbered /\ Lanes /\ Apart

(* Where a queue is emptied nothing can be written any more.               *)
Clearing ==
  /\ pc[Net] = "disc" => conState = "closed"
  /\ pc[Net] \in {"cancelTimer", "close2", "close3"} => ~client

Ordered == Placed /\ Hands /\ Overtaken /\ Clearing
-----------------------------------------------------------------------------
(* Sequences as they grow at the end and shrink at the front.              *)

(* The closing and the timeout handlers do not matter here.                *)
LEMMA OtherAppended ==
  ASSUME NEW s \in Seq(Handler), NEW h \in Handler, h.op # "send", Sorted(s, ReadyOrder)
  PROVE  PostedIn(Append(s, h)) = PostedIn(s) /\ Sorted(Append(s, h), ReadyOrder)
<1>1. PostedIn(Append(s, h)) = PostedIn(s)
  BY ElemsAppend DEF PostedIn
<1>2. \A y \in Elems(s) : <<y, h>> \in ReadyOrder
  BY ElemsTyped DEF ReadyOrder
<1> QED
  BY <1>1, <1>2, SortedAppend

LEMMA OtherTaken ==
  ASSUME NEW s \in Seq(Handler), s # <<>>, Head(s).op # "send", Sorted(s, ReadyOrder)
  PROVE  PostedIn(Tail(s)) = PostedIn(s) /\ Sorted(Tail(s), ReadyOrder)
BY ElemsTail, SortedTail DEF PostedIn
-----------------------------------------------------------------------------
(* What a step does to the packets.                                        *)

LEMMA PacketFacts ==
  \A p \in Packet : p.n \in Nat /\ p.from \in Threads /\ p.n >= 1 /\ p # NoPacket
BY DEF Packet, NoPacket, Threads

LEMMA PlaceTypes ==
  ASSUME Typed
  PROVE  /\ Elems(queue) \subseteq Packet
         /\ \A h \in Posted : h \in Handler /\ h.op = "send" /\ h.pkt \in Packet /\ h.by \in Users
         /\ \A w \in Frames : w \in Written /\ w.pkt \in Packet
         /\ Ahead \subseteq Packet
         /\ \A t \in Threads : /\ pkt[t] # NoPacket => pkt[t] \in Packet
                               /\ front[t] # NoPacket => front[t] \in Packet
<1>1. queue \in Seq(Packet) /\ ready \in Seq(Handler) /\ wire \in Seq(Written)
      /\ pkt \in [Threads -> Packet \cup {NoPacket}] /\ front \in [Threads -> Packet \cup {NoPacket}]
  BY DEF Typed, TypeOK
<1>2. Elems(queue) \subseteq Packet /\ Elems(ready) \subseteq Handler /\ Frames \subseteq Written
  BY <1>1, ElemsTyped DEF Frames
<1>3. \A h \in Posted : h \in Handler /\ h.op = "send" /\ h.pkt \in Packet /\ h.by \in Users
  BY <1>2 DEF Posted, PostedIn, Handler, SendHandler, TimeoutHandler, CloseHandler
<1>4. \A w \in Frames : w \in Written /\ w.pkt \in Packet
  BY <1>2 DEF Written
<1>5. \A t \in Threads : /\ pkt[t] # NoPacket => pkt[t] \in Packet
                         /\ front[t] # NoPacket => front[t] \in Packet
  BY <1>1
<1> QED
  BY <1>2, <1>3, <1>4, <1>5 DEF Ahead

PostsKept == Posted' = Posted /\ Sorted(ready', ReadyOrder)
Emptied(f, t) == [f EXCEPT ![t] = NoPacket]

Still ==
  /\ UNCHANGED <<queue, wire, dropped, refused, pkt, front, calls>> /\ PostsKept
  /\ \/ UNCHANGED client
     \/ client /\ ~client' /\ UNCHANGED conState

Issue(t) ==
  /\ pkt[t] = NoPacket
  /\ \E p \in Packet :
       /\ p.from = t /\ p.n = calls[t] + 1
       /\ pkt' = [pkt EXCEPT ![t] = p] /\ calls' = [calls EXCEPT ![t] = @ + 1]
  /\ UNCHANGED <<queue, ready, wire, dropped, refused, front, conState, client>>

GiveUp(t) ==
  /\ pkt[t] \in Packet /\ pkt' = Emptied(pkt, t) /\ dropped' = dropped \cup {pkt[t]}
  /\ UNCHANGED <<queue, ready, wire, refused, front, calls, conState, client>> /\ ~client

Enqueue(t) ==
  /\ pkt[t] \in Packet /\ pkt' = Emptied(pkt, t) /\ queue' = Append(queue, pkt[t])
  /\ UNCHANGED <<ready, wire, dropped, refused, front, calls, conState, client>>

Pop(t) ==
  /\ queue # <<>> /\ front[t] = NoPacket
  /\ front' = [front EXCEPT ![t] = Head(queue)] /\ queue' = Tail(queue)
  /\ UNCHANGED <<ready, wire, dropped, refused, pkt, calls, conState, client>>

HandFront(t) ==
  /\ front[t] \in Packet /\ front' = Emptied(front, t) /\ ClientSend(t, front[t])
  /\ UNCHANGED <<queue, pkt, calls, conState, client>>

HandOwn(t) ==
  /\ pkt[t] \in Packet /\ pkt' = Emptied(pkt, t) /\ ClientSend(t, pkt[t])
  /\ front[t] = NoPacket /\ \A q \in Elems(queue) : q.from # t
  /\ UNCHANGED <<queue, front, calls, conState, client>>

Clear ==
  /\ queue' = <<>> /\ dropped' = dropped \cup Elems(queue)
  /\ UNCHANGED <<ready, wire, refused, pkt, front, calls, conState, client>>
  /\ conState # "opened" \/ ~client

LEMMA StillPlaced == ASSUME Placed, Still PROVE Placed'
<1>1. /\ Elems(queue)' = Elems(queue) /\ Frames' = Frames /\ Posted' = Posted
      /\ UNCHANGED <<pkt, front, calls>> /\ Lost' = Lost
  BY DEF Still, PostsKept, Frames, Lost
<1>2. Sequenced'
  BY DEF Placed, Sequenced, Still, PostsKept
<1>3. Ahead' = Ahead
  BY <1>1 DEF Ahead
<1> QED
  BY <1>1, <1>2, <1>3 DEF Placed, Owned, InFront, Numbered, Lanes, Apart

LEMMA IssuePlaced ==
  ASSUME Typed, Placed, NEW t \in Threads, Issue(t)
  PROVE  Placed'
<1>1. PICK p \in Packet :
        /\ p.from = t /\ p.n = calls[t] + 1
        /\ pkt' = [pkt EXCEPT ![t] = p] /\ calls' = [calls EXCEPT ![t] = @ + 1]
  BY DEF Issue
<1>2. /\ Elems(queue)' = Elems(queue) /\ Frames' = Frames /\ Posted' = Posted
      /\ UNCHANGED <<queue, ready, wire, front>> /\ Lost' = Lost
  BY DEF Issue, Frames, Posted, Lost
<1>3. Ahead' = Ahead
  BY <1>2 DEF Ahead
<1>4. /\ calls \in [Threads -> 0..MaxCalls] /\ pkt \in [Threads -> Packet \cup {NoPacket}]
      /\ Lost \subseteq Packet
  BY DEF Typed, TypeOK, Lost
<1>5. Sequenced' /\ Lanes' /\ Apart'
  BY <1>2 DEF Placed, Sequenced, Lanes, Apart
<1>8. Owned'
  BY <1>1, <1>4 DEF Placed, Owned
<1>6. InFront'
  <2>1. \A q \in Ahead \cup Elems(queue) : Earlier(q, p)
    BY <1>1, <1>4, PlaceTypes, PacketFacts DEF Placed, Numbered, Earlier
  <2>2. \A u \in Threads : pkt'[u] = IF u = t THEN p ELSE pkt[u]
    BY <1>1, <1>4
  <2> QED
    BY <1>2, <1>3, <2>1, <2>2 DEF Placed, InFront
<1>7. Numbered'
  <2>1. ASSUME NEW q \in Ahead \cup Elems(queue) \cup Lost \cup ({pkt[u] : u \in Threads} \ {NoPacket})
        PROVE  q.n <= calls'[q.from]
    <3>1. q \in Packet /\ q.n <= calls[q.from]
      BY <1>4, PlaceTypes DEF Placed, Numbered
    <3> QED
      BY <1>1, <1>4, <3>1, PacketFacts
  <2>2. p.n <= calls'[p.from]
    BY <1>1, <1>4
  <2>3. {pkt'[u] : u \in Threads} \subseteq {pkt[u] : u \in Threads} \cup {p}
    BY <1>1, <1>4
  <2> QED
    BY <1>2, <1>3, <2>1, <2>2, <2>3 DEF Numbered
<1> QED
  BY <1>5, <1>6, <1>7, <1>8 DEF Placed

LEMMA EmptiedPkt ==
  ASSUME Typed, NEW t \in Threads
  PROVE  /\ \A u \in Threads : Emptied(pkt, t)[u] = IF u = t THEN NoPacket ELSE pkt[u]
         /\ \A u \in Threads : Emptied(front, t)[u] = IF u = t THEN NoPacket ELSE front[u]
BY DEF Typed, TypeOK, Emptied

LEMMA GiveUpPlaced ==
  ASSUME Typed, Placed, NEW t \in Threads, GiveUp(t)
  PROVE  Placed'
<1>1. /\ Elems(queue)' = Elems(queue) /\ Frames' = Frames /\ Posted' = Posted
      /\ UNCHANGED <<queue, ready, wire, front, calls>>
  BY DEF GiveUp, Frames, Posted
<1>2. Ahead' = Ahead
  BY <1>1 DEF Ahead
<1>3. \A u \in Threads : pkt'[u] = IF u = t THEN NoPacket ELSE pkt[u]
  BY EmptiedPkt DEF GiveUp
<1>4. Sequenced' /\ Lanes' /\ Apart'
  BY <1>1 DEF Placed, Sequenced, Lanes, Apart
<1>5. InFront'
  BY <1>1, <1>2, <1>3 DEF Placed, InFront
<1>6. Numbered'
  <2>1. /\ Lost' = Lost \cup {pkt[t]} /\ pkt[t] # NoPacket
        /\ {pkt'[u] : u \in Threads} \ {NoPacket} \subseteq {pkt[u] : u \in Threads} \ {NoPacket}
    BY <1>3, PacketFacts DEF GiveUp, Lost
  <2> QED
    BY <1>1, <1>2, <2>1 DEF Placed, Numbered
<1>7. Owned'
  BY <1>3 DEF Placed, Owned
<1> QED
  BY <1>4, <1>5, <1>6, <1>7 DEF Placed

LEMMA EnqueuePlaced ==
  ASSUME Typed, Placed, NEW t \in Threads, Enqueue(t)
  PROVE  Placed'
<1>1. /\ Frames' = Frames /\ Posted' = Posted
      /\ UNCHANGED <<ready, wire, front, calls>> /\ Lost' = Lost
  BY DEF Enqueue, Frames, Posted, Lost
<1>2. Ahead' = Ahead
  BY <1>1 DEF Ahead
<1>3. \A u \in Threads : pkt'[u] = IF u = t THEN NoPacket ELSE pkt[u]
  BY EmptiedPkt DEF Enqueue
<1>4. Elems(queue)' = Elems(queue) \cup {pkt[t]} /\ pkt[t] \in Packet /\ pkt[t] # NoPacket
  BY ElemsAppend, PacketFacts DEF Enqueue, Typed, TypeOK
<1>5. \A q \in Ahead \cup Elems(queue) : Earlier(q, pkt[t])
  BY <1>4 DEF Placed, InFront
<1>6. Lanes' /\ Apart'
  BY <1>1 DEF Placed, Lanes, Apart
<1>7. Sorted(queue, QueueOrder)'
  <2>1. \A q \in Elems(queue) : <<q, pkt[t]>> \in QueueOrder
    BY <1>4, <1>5, PlaceTypes DEF QueueOrder
  <2> QED
    BY <1>4, <2>1, SortedAppend DEF Placed, Sequenced, Enqueue, Typed, TypeOK
<1>8. InFront'
  <2>1. \A u \in Threads : pkt'[u] # NoPacket => Earlier(pkt[t], pkt'[u])
    BY <1>3, <1>4 DEF Earlier, Placed, Owned
  <2> QED
    BY <1>2, <1>3, <1>4, <1>5, <2>1 DEF Placed, InFront
<1>9. Numbered'
  <2>1. {pkt'[u] : u \in Threads} \ {NoPacket} \subseteq {pkt[u] : u \in Threads} \ {NoPacket}
    BY <1>3
  <2> QED
    BY <1>1, <1>2, <1>4, <2>1 DEF Placed, Numbered
<1>10. Owned'
  BY <1>3 DEF Placed, Owned
<1> QED
  BY <1>1, <1>6, <1>7, <1>8, <1>9, <1>10 DEF Placed, Sequenced

LEMMA PopPlaced ==
  ASSUME Typed, Placed, NEW t \in Threads, Pop(t)
  PROVE  Placed'
<1> DEFINE p == Head(queue)
<1>1. /\ Frames' = Frames /\ Posted' = Posted
      /\ UNCHANGED <<ready, wire, pkt, calls>> /\ Lost' = Lost
  BY DEF Pop, Frames, Posted, Lost
<1>2. queue \in Seq(Packet) /\ queue # <<>> /\ queue' = Tail(queue) /\ front[t] = NoPacket
  BY DEF Pop, Typed, TypeOK
<1>3. Elems(queue) = {p} \cup Elems(queue)' /\ p \in Packet
  BY <1>2, ElemsTail, PlaceTypes
<1>4. Sorted(queue, QueueOrder)' /\ \A q \in Elems(queue)' : Earlier(p, q)
  <2>1. Sorted(queue, QueueOrder)
    BY DEF Placed, Sequenced
  <2>2. Sorted(queue', QueueOrder) /\ \A q \in Elems(queue') : <<p, q>> \in QueueOrder
    BY <1>2, <2>1, SortedTail
  <2>3. \A q \in Elems(queue') : Earlier(p, q)
    BY <2>2 DEF QueueOrder
  <2> QED
    BY <2>2, <2>3
<1> HIDE DEF p
<1>5. \A u \in Threads : front'[u] = IF u = t THEN p ELSE front[u]
  BY DEF Pop, Typed, TypeOK, p
<1>6. Ahead' = Ahead \cup {p}
  BY <1>1, <1>2, <1>3, <1>5, PacketFacts DEF Ahead
<1>7. \A q \in Ahead : Earlier(q, p)
  BY <1>3 DEF Placed, InFront
<1>8. InFront'
  BY <1>1, <1>3, <1>4, <1>6 DEF Placed, InFront
<1>9. Numbered'
  BY <1>1, <1>3, <1>6 DEF Placed, Numbered
<1>10. Lanes'
  <2>1. /\ \A w \in Frames : Earlier(w.pkt, p)
        /\ \A h \in Posted : Earlier(h.pkt, p)
    BY <1>7 DEF Ahead
  <2> QED
    BY <1>1, <1>5, <2>1 DEF Placed, Lanes
<1>11. Apart'
  <2>1. p \notin Ahead
    BY <1>3, <1>7, PacketFacts DEF Earlier
  <2>2. (\A h \in Posted : h.pkt # p) /\ (\A u \in Threads : front[u] # p)
    BY <1>3, <2>1, PacketFacts DEF Ahead
  <2> QED
    BY <1>1, <1>5, <2>2 DEF Placed, Apart
<1> QED
  BY <1>1, <1>4, <1>8, <1>9, <1>10, <1>11 DEF Placed, Owned, Sequenced

LEMMA ClearPlaced == ASSUME Typed, Placed, Clear PROVE Placed'
<1>1. /\ Frames' = Frames /\ Posted' = Posted
      /\ UNCHANGED <<ready, wire, pkt, front, calls>>
      /\ Lost' = Lost \cup Elems(queue)
  BY DEF Clear, Frames, Posted, Lost
<1>2. Elems(queue)' = {} /\ Sorted(queue, QueueOrder)'
  BY ElemsTyped, SortedEmpty, EmptySeq DEF Clear
<1>3. Ahead' = Ahead
  BY <1>1 DEF Ahead
<1> QED
  BY <1>1, <1>2, <1>3 DEF Placed, Owned, Sequenced, InFront, Numbered, Lanes, Apart

(* The packet a thread gives to the client is the last that thread gave,   *)
(* none of its own thread's that is still queued or in hand is older.      *)
Handing(t, p) ==
  /\ \A w \in Frames : w.by = t => Earlier(w.pkt, p)
  /\ \A h \in Posted : h.pkt # p /\ (h.by = t => Earlier(h.pkt, p))
  /\ \A q \in Elems(queue) : Earlier(p, q)
  /\ \A u \in Threads : front'[u] # NoPacket => u # t /\ front'[u] = front[u] /\ front'[u] # p
  /\ \A u \in Threads : pkt'[u] # NoPacket => pkt'[u] = pkt[u] /\ Earlier(p, pkt'[u])
  /\ p.n <= calls[p.from]
  /\ UNCHANGED <<queue, calls>>

(* The ends of client_impl::send.                                          *)
Writes(t, p) ==
  /\ conState = "opened"
  /\ \E w \in Written : w.pkt = p /\ w.by = t /\ wire' = Append(wire, w) /\ Frames' = Frames \cup {w}
  /\ UNCHANGED <<dropped, refused>>
Loses(p) ==
  /\ \/ conState # "opened" /\ dropped' = dropped \cup {p} /\ UNCHANGED refused
     \/ conState = "opened" /\ refused' = refused \cup {p} /\ UNCHANGED dropped
  /\ UNCHANGED wire /\ Frames' = Frames
Posts(t, p) ==
  /\ ready' = Append(ready, SendHandler(t, p)) /\ SendHandler(t, p) \in Handler
  /\ Posted' = Posted \cup {SendHandler(t, p)}
  /\ UNCHANGED <<wire, dropped, refused>> /\ Frames' = Frames

LEMMA SendEnds ==
  ASSUME Typed, NEW t \in Threads, NEW p \in Packet
  PROVE  /\ SendImpl(p, t) => Writes(t, p) \/ Loses(p)
         /\ ClientSend(t, p) => \/ /\ t = Net /\ (Writes(t, p) \/ Loses(p))
                                   /\ UNCHANGED ready /\ Posted' = Posted
                                \/ t \in Users /\ Posts(t, p)
<1>1. ASSUME SendImpl(p, t) PROVE Writes(t, p) \/ Loses(p)
  <2> DEFINE w == [pkt |-> p, by |-> t, epoch |-> epoch]
  <2>1. w \in Written
    BY DEF Written, Typed, TypeOK
  <2>2. CASE wire' = Append(wire, w) /\ conState = "opened" /\ UNCHANGED <<dropped, refused>>
    <3>1. Frames' = Frames \cup {w}
      BY <2>1, <2>2, ElemsAppend DEF Frames, Typed, TypeOK
    <3> QED
      BY <2>1, <2>2, <3>1 DEF Writes
  <2> QED
    BY <1>1, <2>2 DEF SendImpl, Loses, Frames
<1>2. CASE t = Net
  BY <1>1, <1>2 DEF ClientSend, Posted
<1>3. CASE t # Net
  <2>1. t \in Users /\ SendHandler(t, p) \in Handler /\ SendHandler(t, p).op = "send"
    BY <1>3 DEF Threads, Handler, SendHandler
  <2>2. ASSUME ClientSend(t, p) PROVE Posts(t, p)
    <3>1. ready' = Append(ready, SendHandler(t, p)) /\ UNCHANGED <<wire, dropped, refused>>
      BY <1>3, <2>2 DEF ClientSend
    <3>2. Elems(ready') = Elems(ready) \cup {SendHandler(t, p)}
      BY <2>1, <3>1, ElemsAppend DEF Typed, TypeOK
    <3>3. Posted' = Posted \cup {SendHandler(t, p)}
      BY <2>1, <3>2 DEF Posted, PostedIn
    <3> QED
      BY <2>1, <3>1, <3>3 DEF Posts, Frames
  <2> QED
    BY <1>1, <2>1, <2>2
<1> QED
  BY <1>1, <1>2, <1>3

LEMMA HandFrontHanding ==
  ASSUME Typed, Placed, NEW t \in Threads, HandFront(t)
  PROVE  Handing(t, front[t])
<1>1. front[t] \in Packet /\ front[t] # NoPacket /\ front[t] \in Ahead
  BY PacketFacts DEF HandFront, Ahead
<1>2. \A u \in Threads : front'[u] = IF u = t THEN NoPacket ELSE front[u]
  BY EmptiedPkt DEF HandFront
<1>3. UNCHANGED <<queue, calls, pkt>>
  BY DEF HandFront
<1>4. \A w \in Frames : w.by = t => Earlier(w.pkt, front[t])
  BY <1>1 DEF Placed, Lanes
<1>5. \A h \in Posted : h.pkt # front[t] /\ (h.by = t => Earlier(h.pkt, front[t]))
  BY <1>1 DEF Placed, Lanes, Apart
<1>6. \A q \in Elems(queue) : Earlier(front[t], q)
  BY <1>1 DEF Placed, InFront
<1>7. \A u \in Threads : front'[u] # NoPacket => u # t /\ front'[u] = front[u] /\ front'[u] # front[t]
  BY <1>1, <1>2 DEF Placed, Apart
<1>8. \A u \in Threads : pkt'[u] # NoPacket => pkt'[u] = pkt[u] /\ Earlier(front[t], pkt'[u])
  BY <1>1, <1>3 DEF Placed, InFront
<1>9. front[t].n <= calls[front[t].from]
  BY <1>1 DEF Placed, Numbered
<1> QED
  BY <1>3, <1>4, <1>5, <1>6, <1>7, <1>8, <1>9 DEF Handing

LEMMA HandOwnHanding ==
  ASSUME Typed, Placed, NEW t \in Threads, HandOwn(t)
  PROVE  Handing(t, pkt[t])
<1>1. pkt[t] \in Packet /\ pkt[t] # NoPacket /\ pkt[t].from = t
  BY PacketFacts DEF HandOwn, Placed, Owned
<1>2. \A u \in Threads : pkt'[u] = IF u = t THEN NoPacket ELSE pkt[u]
  BY EmptiedPkt DEF HandOwn
<1>3. UNCHANGED <<queue, calls, front>> /\ front[t] = NoPacket
  BY DEF HandOwn
<1>4. \A p \in Ahead : Earlier(p, pkt[t]) /\ p # pkt[t]
  <2>1. \A p \in Ahead : Earlier(p, pkt[t])
    BY <1>1 DEF Placed, InFront
  <2>2. ~Earlier(pkt[t], pkt[t])
    BY <1>1, PacketFacts DEF Earlier
  <2> QED
    BY <2>1, <2>2
<1>5. \A w \in Frames : w.by = t => Earlier(w.pkt, pkt[t])
  BY <1>4 DEF Ahead
<1>6. \A h \in Posted : h.pkt # pkt[t] /\ (h.by = t => Earlier(h.pkt, pkt[t]))
  BY <1>4 DEF Ahead
<1>7. \A q \in Elems(queue) : Earlier(pkt[t], q)
  BY <1>1 DEF HandOwn, Earlier
<1>8. \A u \in Threads : front'[u] # NoPacket => u # t /\ front'[u] = front[u] /\ front'[u] # pkt[t]
  BY <1>3, <1>4 DEF Ahead
<1>9. \A u \in Threads : pkt'[u] # NoPacket => pkt'[u] = pkt[u] /\ Earlier(pkt[t], pkt'[u])
  BY <1>1, <1>2 DEF Placed, Owned, Earlier
<1>10. pkt[t].n <= calls[pkt[t].from]
  BY <1>1 DEF Placed, Numbered
<1> QED
  BY <1>3, <1>5, <1>6, <1>7, <1>8, <1>9, <1>10 DEF Handing

LEMMA HandedPlaced ==
  ASSUME Typed, Placed, NEW t \in Threads, NEW p \in Packet, Handing(t, p), ClientSend(t, p)
  PROVE  Placed'
<1> USE DEF Handing
<1>1. Elems(queue)' = Elems(queue) /\ UNCHANGED <<queue, calls>>
  OBVIOUS
<1>2. Owned'
  BY DEF Placed, Owned
<1>3. ASSUME Ahead' \subseteq Ahead \cup {p} PROVE InFront'
  BY <1>1, <1>3 DEF Placed, InFront
<1>4. ASSUME Ahead' \subseteq Ahead \cup {p}, Lost' \subseteq Lost \cup {p} PROVE Numbered'
  <2>1. \A u \in Threads : pkt'[u] # NoPacket => pkt'[u].n <= calls[pkt'[u].from]
    BY DEF Placed, Numbered
  <2> QED
    BY <1>1, <1>4, <2>1 DEF Placed, Numbered
<1>8. ASSUME Posted' = Posted PROVE Apart'
  <2>1. \A h \in Posted : h.pkt # NoPacket
    BY PlaceTypes, PacketFacts
  <2> QED
    BY <1>8, <2>1 DEF Placed, Apart
<1>5. CASE t = Net /\ Writes(t, p) /\ UNCHANGED ready /\ Posted' = Posted
  <2>1. PICK w \in Written : w.pkt = p /\ w.by = t /\ wire' = Append(wire, w) /\ Frames' = Frames \cup {w}
    BY <1>5 DEF Writes
  <2>2. Ahead' \subseteq Ahead \cup {p} /\ Lost' = Lost
    BY <1>5, <2>1 DEF Ahead, Writes, Lost
  <2>3. Sequenced'
    <3>1. \A v \in Elems(wire) : <<v, w>> \in WireOrder
      BY <2>1, PlaceTypes DEF WireOrder, Frames
    <3>2. Sorted(wire', WireOrder)
      BY <2>1, <3>1, SortedAppend DEF Placed, Sequenced, Typed, TypeOK
    <3> QED
      BY <1>1, <1>5, <3>2 DEF Placed, Sequenced
  <2>4. Lanes'
    <3>1. ASSUME NEW u \in Threads, front'[u] # NoPacket
          PROVE  /\ \A v \in Frames' : v.by = u => Earlier(v.pkt, front'[u])
                 /\ \A h \in Posted' : h.by = u => Earlier(h.pkt, front'[u])
      BY <1>5, <2>1, <3>1 DEF Placed, Lanes
    <3>2. \A h \in Posted : h.by # t
      BY <1>5, NetAssumption, PlaceTypes
    <3>3. \A v \in Frames', h \in Posted' : v.by = h.by => Earlier(v.pkt, h.pkt)
      BY <1>5, <2>1, <3>2 DEF Placed, Lanes
    <3> QED
      BY <3>1, <3>3 DEF Lanes
  <2>5. Apart'
    BY <1>5, <1>8
  <2> QED
    BY <1>2, <1>3, <1>4, <2>2, <2>3, <2>4, <2>5 DEF Placed
<1>6. CASE t = Net /\ Loses(p) /\ UNCHANGED ready /\ Posted' = Posted
  <2>1. Ahead' \subseteq Ahead \cup {p} /\ Lost' = Lost \cup {p}
    BY <1>6 DEF Ahead, Loses, Lost
  <2>2. Sequenced'
    BY <1>1, <1>6 DEF Placed, Sequenced, Loses
  <2>3. Apart'
    BY <1>6, <1>8
  <2>4. Lanes'
    BY <1>6 DEF Placed, Lanes, Loses
  <2> QED
    BY <1>2, <1>3, <1>4, <2>1, <2>2, <2>3, <2>4 DEF Placed
<1>7. CASE t \in Users /\ Posts(t, p)
  <2> DEFINE g == SendHandler(t, p)
  <2>1. g.pkt = p /\ g.by = t /\ g.op = "send" /\ g \in Handler
    BY <1>7 DEF SendHandler, Posts
  <2>2. ready' = Append(ready, g) /\ Posted' = Posted \cup {g} /\ Lost' = Lost
        /\ UNCHANGED wire /\ Frames' = Frames
    BY <1>7 DEF Posts, Lost
  <2> HIDE DEF g
  <2>3. Ahead' \subseteq Ahead \cup {p}
    BY <2>1, <2>2 DEF Ahead
  <2>4. Sequenced'
    <3>1. \A h \in Elems(ready) : <<h, g>> \in ReadyOrder
      BY <2>1, ElemsTyped DEF ReadyOrder, Posted, PostedIn, Typed, TypeOK
    <3>2. Sorted(ready', ReadyOrder)
      BY <2>1, <2>2, <3>1, SortedAppend DEF Placed, Sequenced, Typed, TypeOK
    <3> QED
      BY <1>1, <2>2, <3>2 DEF Placed, Sequenced
  <2>5. Lanes'
    <3>1. ASSUME NEW u \in Threads, front'[u] # NoPacket
          PROVE  /\ \A v \in Frames' : v.by = u => Earlier(v.pkt, front'[u])
                 /\ \A h \in Posted' : h.by = u => Earlier(h.pkt, front'[u])
      BY <2>1, <2>2, <3>1 DEF Placed, Lanes
    <3>2. \A v \in Frames', h \in Posted' : v.by = h.by => Earlier(v.pkt, h.pkt)
      BY <2>1, <2>2 DEF Placed, Lanes
    <3> QED
      BY <3>1, <3>2 DEF Lanes
  <2>6. Apart'
    <3>1. \A h \in Posted : h.pkt # NoPacket
      BY PlaceTypes, PacketFacts
    <3> QED
      BY <2>1, <2>2, <3>1, PacketFacts DEF Placed, Apart
  <2> QED
    BY <1>2, <1>3, <1>4, <2>2, <2>3, <2>4, <2>5, <2>6 DEF Placed
<1> QED
  BY <1>5, <1>6, <1>7, SendEnds

(* The io_service runs the oldest send posted.                             *)
LEMMA FirstPosted ==
  ASSUME Typed, Placed, NextHandler("send"), ready' = Tail(ready)
  PROVE  /\ Head(ready) \in Posted /\ Posted = {Head(ready)} \cup Posted'
         /\ Sorted(ready', ReadyOrder)
         /\ \A h \in Posted' : /\ h.pkt # Head(ready).pkt
                               /\ h.by = Head(ready).by => Earlier(Head(ready).pkt, h.pkt)
<1>1. ready \in Seq(Handler) /\ ready # <<>> /\ Head(ready).op = "send"
  BY DEF NextHandler, Typed, TypeOK
<1>2. Elems(ready) = {Head(ready)} \cup Elems(ready')
  BY <1>1, ElemsTail
<1>3. Sorted(ready', ReadyOrder) /\ \A h \in Elems(ready') : <<Head(ready), h>> \in ReadyOrder
  BY <1>1, SortedTail DEF Placed, Sequenced
<1> QED
  BY <1>1, <1>2, <1>3 DEF Posted, PostedIn, ReadyOrder

LEMMA RunSendPlaced ==
  ASSUME Typed, Placed, RunSend
  PROVE  Placed'
<1> DEFINE g == Head(ready)
<1>1. NextHandler("send") /\ SendImpl(g.pkt, g.by) /\ ready' = Tail(ready)
      /\ UNCHANGED <<queue, calls, pkt, front>>
  BY DEF RunSend, sockVars, callVars
<1>2. /\ g \in Posted /\ Posted = {g} \cup Posted' /\ Sorted(ready', ReadyOrder)
      /\ \A h \in Posted' : h.pkt # g.pkt /\ (h.by = g.by => Earlier(g.pkt, h.pkt))
  BY <1>1, FirstPosted
<1> HIDE DEF g
<1>3. g.pkt \in Packet /\ g.by \in Threads /\ g.pkt \in Ahead
  BY <1>2, PlaceTypes DEF Ahead, Threads
<1>4. Elems(queue)' = Elems(queue)
  BY <1>1
<1>5. Owned' /\ Apart'
  BY <1>1, <1>2 DEF Placed, Owned, Apart
<1>6. ASSUME Ahead' \subseteq Ahead PROVE InFront'
  BY <1>1, <1>4, <1>6 DEF Placed, InFront
<1>7. ASSUME Ahead' \subseteq Ahead, Lost' \subseteq Lost \cup {g.pkt} PROVE Numbered'
  BY <1>1, <1>3, <1>4, <1>7 DEF Placed, Numbered
<1>8. CASE Writes(g.by, g.pkt)
  <2>1. PICK w \in Written : /\ w.pkt = g.pkt /\ w.by = g.by
                             /\ wire' = Append(wire, w) /\ Frames' = Frames \cup {w}
    BY <1>8 DEF Writes
  <2>2. Ahead' \subseteq Ahead /\ Lost' = Lost
    BY <1>1, <1>2, <1>3, <1>8, <2>1 DEF Ahead, Writes, Lost
  <2>3. Sequenced'
    <3>1. \A v \in Elems(wire) : v.by = g.by => Earlier(v.pkt, g.pkt)
      BY <1>2 DEF Placed, Lanes, Frames
    <3>2. \A v \in Elems(wire) : <<v, w>> \in WireOrder
      BY <2>1, <3>1, PlaceTypes DEF WireOrder, Frames
    <3>3. Sorted(wire', WireOrder)
      BY <2>1, <3>2, SortedAppend DEF Placed, Sequenced, Typed, TypeOK
    <3> QED
      BY <1>1, <1>2, <3>3 DEF Placed, Sequenced
  <2>4. Lanes'
    <3>1. ASSUME NEW u \in Threads, front'[u] # NoPacket
          PROVE  /\ \A v \in Frames' : v.by = u => Earlier(v.pkt, front'[u])
                 /\ \A h \in Posted' : h.by = u => Earlier(h.pkt, front'[u])
      BY <1>1, <1>2, <2>1, <3>1 DEF Placed, Lanes
    <3>2. \A v \in Frames', h \in Posted' : v.by = h.by => Earlier(v.pkt, h.pkt)
      BY <1>2, <2>1 DEF Placed, Lanes
    <3> QED
      BY <3>1, <3>2 DEF Lanes
  <2> QED
    BY <1>5, <1>6, <1>7, <2>2, <2>3, <2>4 DEF Placed
<1>9. CASE Loses(g.pkt)
  <2>1. Ahead' \subseteq Ahead /\ Lost' = Lost \cup {g.pkt} /\ Frames' = Frames
    BY <1>1, <1>2, <1>9 DEF Ahead, Loses, Lost
  <2>2. Sequenced'
    BY <1>1, <1>2, <1>9 DEF Placed, Sequenced, Loses
  <2>3. Lanes'
    BY <1>1, <1>2, <2>1 DEF Placed, Lanes
  <2> QED
    BY <1>5, <1>6, <1>7, <2>1, <2>2, <2>3 DEF Placed
<1> QED
  BY <1>1, <1>3, <1>8, <1>9, SendEnds

-----------------------------------------------------------------------------
(* Every step is one of these moves.                                       *)

Move ==
  \/ Still \/ Clear \/ RunSend
  \/ \E t \in Threads : \/ Issue(t) \/ GiveUp(t) \/ Enqueue(t) \/ Pop(t)
                        \/ HandFront(t) \/ HandOwn(t)

LEMMA MovePlaced == ASSUME Typed, Placed, Move PROVE Placed'
<1>1. ASSUME NEW t \in Threads, HandFront(t) PROVE Placed'
  <2>1. front[t] \in Packet /\ ClientSend(t, front[t])
    BY <1>1 DEF HandFront
  <2> QED
    BY <1>1, <2>1, HandFrontHanding, HandedPlaced
<1>2. ASSUME NEW t \in Threads, HandOwn(t) PROVE Placed'
  <2>1. pkt[t] \in Packet /\ ClientSend(t, pkt[t])
    BY <1>2 DEF HandOwn
  <2> QED
    BY <1>2, <2>1, HandOwnHanding, HandedPlaced
<1> QED
  BY <1>1, <1>2, StillPlaced, ClearPlaced, RunSendPlaced, IssuePlaced,
     GiveUpPlaced, EnqueuePlaced, PopPlaced DEF Move

(* Handlers that come and go without a packet.                             *)
LEMMA PostsStay ==
  ASSUME Typed, Placed
  PROVE  /\ ready' = ready => PostsKept
         /\ CancelWaits(ready) => PostsKept
         /\ Expire => PostsKept
         /\ \A op \in {"timeout", "close"} :
              NextHandler(op) /\ (ready' = Tail(ready) \/ CancelWaits(Tail(ready))) => PostsKept
<1>1. ready \in Seq(Handler) /\ Sorted(ready, ReadyOrder)
  BY DEF Typed, TypeOK, Placed, Sequenced
<1>2. /\ CloseHandler \in Handler /\ CloseHandler.op # "send"
      /\ TimeoutHandler \in Handler /\ TimeoutHandler.op # "send"
  BY DEF Handler, CloseHandler, TimeoutHandler
<1>3. ready' = ready => PostsKept
  BY <1>1 DEF PostsKept, Posted
<1>4. ASSUME NEW h \in {CloseHandler, TimeoutHandler}, ready' = Append(ready, h)
      PROVE  PostsKept
  BY <1>1, <1>2, <1>4, OtherAppended DEF PostsKept, Posted
<1>5. ASSUME NEW op \in {"timeout", "close"}, NextHandler(op)
      PROVE  /\ ready' = Tail(ready) => PostsKept
             /\ ready' = Append(Tail(ready), CloseHandler) => PostsKept
  <2>1. ready # <<>> /\ Head(ready).op # "send"
    BY <1>5 DEF NextHandler
  <2>2. /\ PostedIn(Tail(ready)) = PostedIn(ready) /\ Sorted(Tail(ready), ReadyOrder)
        /\ Tail(ready) \in Seq(Handler)
    BY <1>1, <2>1, OtherTaken, HeadTailProperties
  <2>3. /\ PostedIn(Append(Tail(ready), CloseHandler)) = PostedIn(ready)
        /\ Sorted(Append(Tail(ready), CloseHandler), ReadyOrder)
    BY <1>2, <2>2, OtherAppended
  <2> QED
    BY <2>2, <2>3 DEF PostsKept, Posted
<1>6. CancelWaits(ready) => PostsKept
  BY <1>3, <1>4 DEF CancelWaits
<1>7. Expire => PostsKept
  BY <1>4 DEF Expire
<1>8. \A op \in {"timeout", "close"} :
        NextHandler(op) /\ (ready' = Tail(ready) \/ CancelWaits(Tail(ready))) => PostsKept
  BY <1>5 DEF CancelWaits
<1> QED
  BY <1>3, <1>6, <1>7, <1>8

LEMMA ThreadMoves ==
  ASSUME Typed, Ordered, NEW t \in Threads, Call(t) \/ Continue(t)
  PROVE  Move
<1> USE BoundAssumption DEF Ordered, At, sockVars, history
<1>1. CASE Emit(t) \/ CloseSocket(t)
  <2>1. pkt[t] = NoPacket
    BY <1>1 DEF Emit, CloseSocket, Hands
  <2>2. CASE Emit(t)
    <3> DEFINE p == [type |-> "event", from |-> t, n |-> calls[t] + 1]
    <3>1. p \in Packet /\ p.from = t /\ p.n = calls[t] + 1
      BY <2>2 DEF Emit, Typed, TypeOK, Packet
    <3>2. pkt' = [pkt EXCEPT ![t] = p] /\ calls' = [calls EXCEPT ![t] = @ + 1]
          /\ UNCHANGED <<queue, ready, wire, dropped, refused, front, conState, client>>
      BY <2>2 DEF Emit
    <3> HIDE DEF p
    <3>3. Issue(t)
      BY <2>1, <3>1, <3>2 DEF Issue
    <3> QED
      BY <3>3 DEF Move
  <2>3. CASE CloseSocket(t) /\ client /\ connected
    <3> DEFINE p == [type |-> "disconnect", from |-> t, n |-> calls[t] + 1]
    <3>1. p \in Packet /\ p.from = t /\ p.n = calls[t] + 1
      BY <2>3 DEF CloseSocket, Typed, TypeOK, Carrying, Packet
    <3>2. pkt' = [pkt EXCEPT ![t] = p] /\ calls' = [calls EXCEPT ![t] = @ + 1]
          /\ UNCHANGED <<queue, ready, wire, dropped, refused, front, conState, client>>
      BY <2>3 DEF CloseSocket
    <3> HIDE DEF p
    <3>3. Issue(t)
      BY <2>1, <3>1, <3>2 DEF Issue
    <3> QED
      BY <3>3 DEF Move
  <2>4. CASE CloseSocket(t) /\ ~(client /\ connected)
    BY <2>4, PostsStay DEF CloseSocket, Still, Move
  <2> QED
    BY <1>1, <2>2, <2>3, <2>4
<1>2. CASE SendGuard(t)
  <2>1. pkt[t] \in Packet
    BY <1>2 DEF SendGuard, Typed, Carrying
  <2>2. CASE client
    BY <1>2, <2>2, PostsStay DEF SendGuard, Still, Move
  <2>3. CASE ~client
    BY <1>2, <2>1, <2>3 DEF SendGuard, Return, GiveUp, Emptied, Move
  <2> QED
    BY <2>2, <2>3
<1>3. CASE PushPacket(t)
  <2>1. pkt[t] \in Packet
    BY <1>3 DEF PushPacket, Typed, Carrying
  <2> QED
    BY <1>3, <2>1 DEF PushPacket, Return, Enqueue, Emptied, Move
<1>4. CASE FlushPop(t)
  <2>1. front[t] = NoPacket
    BY <1>4 DEF FlushPop, Hands
  <2>2. CASE queue = <<>>
    BY <1>4, <2>2, PostsStay DEF FlushPop, PopFront, Still, Move
  <2>3. CASE queue # <<>>
    BY <1>4, <2>1, <2>3 DEF FlushPop, PopFront, Pop, Move
  <2> QED
    BY <2>2, <2>3
<1>5. CASE FlushSend(t)
  <2>1. front[t] \in Packet
    BY <1>5 DEF FlushSend, Typed, Carrying
  <2>2. CASE client
    BY <1>5, <2>1, <2>2 DEF FlushSend, HandFront, Emptied, Move
  <2>3. CASE ~client
    BY <1>5, <2>3, PostsStay DEF FlushSend, Still, Move
  <2> QED
    BY <2>2, <2>3
<1>6. CASE DirectSend(t)
  <2>1. pkt[t] \in Packet /\ front[t] = NoPacket /\ \A q \in Elems(queue) : q.from # t
    BY <1>6 DEF DirectSend, Typed, Carrying, Hands, Overtaken
  <2>2. CASE client
    BY <1>6, <2>1, <2>2 DEF DirectSend, Return, HandOwn, Emptied, Move
  <2>3. CASE ~client
    BY <1>6, <2>3, PostsStay DEF DirectSend, Still, Move
  <2> QED
    BY <2>2, <2>3
<1>7. CASE \/ SendBranch(t) \/ SocketClose(t) \/ ClientClose(t)
           \/ TestTimer(t) \/ ReadService(t) \/ WaitClose(t)
  BY <1>7, PostsStay
     DEF SendBranch, SocketClose, ClientClose, TestTimer, ReadService, WaitClose, Still, Move
<1>8. CASE ResetTimer(t) \/ SetExpiry(t)
  <2>1. PostsKept
    BY <1>8, PostsStay DEF ResetTimer, SetExpiry
  <2> QED
    BY <1>8, <2>1 DEF ResetTimer, SetExpiry, Still, Move
<1> QED
  BY <1>1, <1>2, <1>3, <1>4, <1>5, <1>6, <1>7, <1>8 DEF Call, Continue

LEMMA NetMoves ==
  ASSUME Typed, Closing, Ordered, Environment \/ NetStep \/ Expire
  PROVE  Move
<1> USE DEF Ordered, At, sockVars, callVars, history
<1>1. Net \in Threads
  BY DEF Threads
<1>2. CASE OnOpen \/ OnConnected \/ CloseTimer \/ Expire
  <2>1. PostsKept
    BY <1>2, PostsStay DEF OnOpen, OnConnected, CloseTimer, DropTimer
  <2> QED
    BY <1>2, <2>1 DEF OnOpen, OnConnected, CloseTimer, Expire, Still, Move
<1>3. CASE \/ SetConnected \/ OnDisconnectPacket \/ TimeoutClose \/ OnDisconnect
           \/ CloseDisconnected
  <2>1. PostsKept
    BY <1>3, PostsStay
       DEF SetConnected, OnDisconnectPacket, TimeoutClose, OnDisconnect, CloseDisconnected
  <2>2. pc[Net] = "forget" => client
    BY DEF Closing
  <2> QED
    BY <1>3, <2>1, <2>2
       DEF SetConnected, OnDisconnectPacket, TimeoutClose, OnDisconnect, CloseDisconnected,
           ForgetClient, Still, Move
<1>4. CASE DrainPop
  <2>1. front[Net] = NoPacket
    BY <1>1, <1>4 DEF DrainPop, Hands
  <2>2. CASE queue = <<>>
    BY <1>4, <2>2, PostsStay DEF DrainPop, PopFront, Still, Move
  <2>3. CASE queue # <<>>
    BY <1>1, <1>4, <2>1, <2>3 DEF DrainPop, PopFront, Pop, Move
  <2> QED
    BY <2>2, <2>3
<1>5. CASE DrainSend
  <2>1. front[Net] \in Packet
    BY <1>1, <1>5 DEF DrainSend, Typed, Carrying
  <2> QED
    BY <1>1, <1>5, <2>1 DEF DrainSend, HandFront, Emptied, Move
<1>6. CASE CloseClear \/ DisconnectClear
  <2>1. ClearQueue
    BY <1>6 DEF CloseClear, DisconnectClear
  <2>3. conState # "opened" \/ ~client
    BY <1>6 DEF CloseClear, DisconnectClear, Clearing
  <2>2. queue' = <<>> /\ dropped' = dropped \cup Elems(queue)
    BY <2>1 DEF ClearQueue, Elems
  <2> QED
    BY <1>6, <2>2, <2>3 DEF CloseClear, DisconnectClear, Clear, Move
<1>7. CASE TimeoutConnection \/ CloseWaitDone
  <2>1. PostsKept
    BY <1>7, PostsStay DEF TimeoutConnection, CloseWaitDone, DropTimer
  <2> QED
    BY <1>7, <2>1
       DEF TimeoutConnection, CloseWaitDone, DropTimer, ForgetClient, Still, Move
<1>8. CASE RunSend
  BY <1>8 DEF Move
<1> QED
  BY <1>2, <1>3, <1>4, <1>5, <1>6, <1>7, <1>8 DEF Environment, NetStep

(* Where the threads are, what they carry there.                           *)
LEMMA ThreadHands ==
  ASSUME Typed, Hands, NEW t \in Threads, Call(t) \/ Continue(t)
  PROVE  Hands'
<1> USE DEF Typed, TypeOK, Hands, At, Goto
<1>1. CASE Emit(t) \/ CloseSocket(t)
  BY <1>1 DEF Emit, CloseSocket
<1>2. CASE SendGuard(t) \/ SendBranch(t) \/ PushPacket(t)
  BY <1>2 DEF SendGuard, SendBranch, PushPacket, Return
<1>3. CASE FlushPop(t)
  BY <1>3 DEF FlushPop, PopFront
<1>4. CASE FlushSend(t) \/ DirectSend(t)
  BY <1>4 DEF FlushSend, DirectSend, Return
<1>5. CASE SocketClose(t) \/ ClientClose(t)
  BY <1>5 DEF SocketClose, ClientClose
<1>6. CASE TestTimer(t) \/ ReadService(t) \/ ResetTimer(t) \/ SetExpiry(t) \/ WaitClose(t)
  BY <1>6 DEF TestTimer, ReadService, ResetTimer, SetExpiry, WaitClose
<1> QED
  BY <1>1, <1>2, <1>3, <1>4, <1>5, <1>6 DEF Call, Continue

LEMMA NetHands ==
  ASSUME Typed, Hands, Environment \/ NetStep \/ Expire
  PROVE  Hands'
<1> USE DEF Typed, TypeOK, Hands, At, Goto, Threads, callVars
<1>1. CASE OnOpen \/ OnConnected \/ SetConnected \/ OnDisconnect \/ Expire \/ RunSend
  BY <1>1 DEF OnOpen, OnConnected, SetConnected, OnDisconnect, Expire, RunSend
<1>2. CASE DrainPop
  BY <1>2 DEF DrainPop, PopFront
<1>3. CASE DrainSend \/ CloseDisconnected \/ CloseClear \/ DisconnectClear
  BY <1>3 DEF DrainSend, CloseDisconnected, CloseClear, DisconnectClear
<1>4. CASE OnDisconnectPacket \/ TimeoutClose \/ TimeoutConnection \/ CloseWaitDone \/ CloseTimer
  BY <1>4 DEF OnDisconnectPacket, TimeoutClose, TimeoutConnection, CloseWaitDone, CloseTimer,
              ForgetClient, NextHandler
<1> QED
  BY <1>1, <1>2, <1>3, <1>4 DEF Environment, NetStep

(* A thread gets to its own packet by finding the queue empty, and only it *)
(* could queue another of its own.                                         *)
LEMMA OvertakenStep ==
  ASSUME Typed, Ordered, Next
  PROVE  Overtaken'
<1> USE DEF Typed, TypeOK, At, Goto, Ordered
<1>1. ASSUME Elems(queue)' \subseteq Elems(queue),
             \A u \in Threads : pc'[u] = "direct" => pc[u] = "direct"
      PROVE  Overtaken'
  BY <1>1 DEF Overtaken
<1>2. ASSUME NEW t \in Threads, Call(t) \/ Continue(t)
      PROVE  Overtaken'
  <2>1. CASE PushPacket(t)
    <3>1. /\ queue' = Append(queue, pkt[t]) /\ pkt[t] \in Packet /\ pkt[t].from = t
          /\ pc[t] = "push" /\ pc' = [pc EXCEPT ![t] = pc'[t]] /\ pc'[t] # "direct"
      BY <2>1 DEF PushPacket, Return, Carrying
    <3>2. Elems(queue)' = Elems(queue) \cup {pkt[t]}
      BY <3>1, ElemsAppend
    <3> QED
      BY <3>1, <3>2 DEF Overtaken
  <2>2. CASE FlushPop(t)
    <3>1. CASE queue = <<>>
      <4>1. Elems(queue)' = {}
        BY <2>2, <3>1, ElemsTyped, EmptySeq DEF FlushPop, PopFront
      <4> QED
        BY <4>1 DEF Overtaken
    <3>2. CASE queue # <<>>
      <4>1. queue' = Tail(queue) /\ pc' = [pc EXCEPT ![t] = "flushSend"]
        BY <2>2, <3>2 DEF FlushPop, PopFront
      <4>2. Elems(queue)' \subseteq Elems(queue)
        BY <3>2, <4>1, ElemsTail
      <4> QED
        BY <1>1, <4>1, <4>2
    <3> QED
      BY <3>1, <3>2
  <2>3. CASE ~PushPacket(t) /\ ~FlushPop(t)
    <3>1. UNCHANGED queue /\ pc' = [pc EXCEPT ![t] = pc'[t]] /\ pc'[t] # "direct"
      BY <1>2, <2>3
         DEF Call, Continue, Emit, SocketClose, ClientClose, SendGuard, SendBranch, FlushSend,
             DirectSend, CloseSocket, TestTimer, ReadService, ResetTimer, SetExpiry,
             WaitClose, Return, sockVars
    <3> QED
      BY <1>1, <3>1
  <2> QED
    BY <2>1, <2>2, <2>3
<1>3. ASSUME Environment \/ NetStep \/ Expire
      PROVE  Overtaken'
  <2>1. queue' = queue \/ queue' = <<>> \/ (queue # <<>> /\ queue' = Tail(queue))
    BY <1>3 DEF Environment, NetStep, OnOpen, OnConnected, SetConnected, OnDisconnectPacket,
                OnDisconnect, DrainPop, PopFront, DrainSend, TimeoutClose, CloseTimer,
                CloseDisconnected, CloseClear, DisconnectClear, ClearQueue, TimeoutConnection,
                CloseWaitDone, RunSend, Expire, sockVars
  <2>2. Elems(queue)' \subseteq Elems(queue)
    <3>1. queue \in Seq(Packet)
      OBVIOUS
    <3>2. Elems(<<>>) = {} /\ (queue # <<>> => Elems(Tail(queue)) \subseteq Elems(queue))
      BY <3>1, ElemsTail, ElemsTyped
    <3> QED
      BY <2>1, <3>2
  <2>3. pc' = pc \/ (pc' = [pc EXCEPT ![Net] = pc'[Net]] /\ pc'[Net] # "direct")
    BY <1>3 DEF Environment, NetStep, OnOpen, OnConnected, SetConnected, OnDisconnectPacket,
                OnDisconnect, DrainPop, PopFront, DrainSend, TimeoutClose, CloseTimer,
                CloseDisconnected, CloseClear, DisconnectClear, TimeoutConnection,
                CloseWaitDone, RunSend, Expire, ForgetClient, callVars, Threads
  <2> QED
    BY <1>1, <2>2, <2>3
<1> QED
  BY <1>2, <1>3 DEF Next

LEMMA ClearingStep ==
  ASSUME Typed, Clearing, Next
  PROVE  Clearing'
<1> USE DEF Typed, TypeOK, At, Goto, Clearing, Threads, sockVars, callVars
<1>1. ASSUME NEW t \in Threads, Call(t) \/ Continue(t)
      PROVE  Clearing'
  <2>1. /\ pc' = [pc EXCEPT ![t] = pc'[t]] /\ pc'[t] \notin {"disc", "cancelTimer", "close2", "close3"}
        /\ client' = client /\ (conState' = conState \/ conState = "opened")
    BY <1>1 DEF Call, Continue, Emit, SocketClose, ClientClose, CloseSocket, SendGuard,
                SendBranch, PushPacket, FlushPop, PopFront, FlushSend, DirectSend, TestTimer,
                ReadService, ResetTimer, SetExpiry, WaitClose, Return
  <2> QED
    BY <2>1
<1>2. CASE OnOpen \/ OnConnected \/ SetConnected \/ OnDisconnect \/ Expire \/ RunSend
  BY <1>2 DEF OnOpen, OnConnected, SetConnected, OnDisconnect, Expire, RunSend
<1>3. CASE DrainPop \/ DrainSend \/ CloseDisconnected \/ CloseClear \/ DisconnectClear
  BY <1>3 DEF DrainPop, PopFront, DrainSend, CloseDisconnected, CloseClear, DisconnectClear
<1>4. CASE OnDisconnectPacket \/ TimeoutClose \/ TimeoutConnection \/ CloseWaitDone \/ CloseTimer
  BY <1>4 DEF OnDisconnectPacket, TimeoutClose, TimeoutConnection, CloseWaitDone, CloseTimer,
              ForgetClient, NextHandler
<1> QED
  BY <1>1, <1>2, <1>3, <1>4 DEF Next, Environment, NetStep

LEMMA EveryMove == ASSUME Typed, Closing, Ordered, [Next]_vars PROVE Move
<1>1. CASE UNCHANGED vars
  BY <1>1, PostsStay DEF vars, sockVars, callVars, history, Ordered, Still, Move
<1> QED
  BY <1>1, ThreadMoves, NetMoves DEF Next

LEMMA OrderedStep == ASSUME Typed, Closing, Ordered, [Next]_vars PROVE Ordered'
<1>1. Placed'
  BY EveryMove, MovePlaced DEF Ordered
<1>2. CASE UNCHANGED vars
  BY <1>1, <1>2 DEF vars, sockVars, callVars, Ordered, Hands, Overtaken, Clearing
<1>3. CASE Next
  BY <1>1, <1>3, ThreadHands, NetHands, OvertakenStep, ClearingStep DEF Next, Ordered
<1> QED
  BY <1>2, <1>3

LEMMA InitOrdered == Init => Ordered
<1> SUFFICES ASSUME Init PROVE Ordered
  OBVIOUS
<1>1. /\ Elems(queue) = {} /\ Elems(ready) = {} /\ Posted = {}
  BY ElemsTyped, EmptySeq DEF Init, Posted, PostedIn
<1>2. /\ \A t \in Threads : pkt[t] = NoPacket /\ front[t] = NoPacket /\ pc[t] = "idle" /\ calls[t] = 0
      /\ {pkt[t] : t \in Threads} \subseteq {NoPacket} /\ {front[t] : t \in Threads} \subseteq {NoPacket}
      /\ Lost = {}
  BY DEF Init, Lost
<1>3. Frames = {}
  BY ElemsTyped, EmptySeq DEF Init, Frames
<1>4. Ahead = {}
  BY <1>1, <1>2, <1>3 DEF Ahead
<1>5. Sequenced
  BY SortedEmpty DEF Init, Sequenced
<1>6. Numbered
  BY <1>1, <1>2, <1>4 DEF Numbered
<1>7. Owned /\ InFront /\ Lanes /\ Apart
  BY <1>1, <1>2, <1>3, <1>4 DEF Owned, InFront, Lanes, Apart, Posted
<1>8. Hands /\ Overtaken /\ Clearing
  BY <1>1, <1>2 DEF Hands, Overtaken, Clearing, Threads
<1> QED
  BY <1>5, <1>6, <1>7, <1>8 DEF Ordered, Placed

LEMMA OrderedInvariant == Spec => []Ordered
<1>1. Typed /\ Closing /\ Ordered /\ [Next]_vars => Ordered'
  BY OrderedStep
<1> QED
  BY <1>1, InitOrdered, TypedInvariant, ClosingInvariant, PTL DEF Spec

(* Packets of one thread that the same thread hands to the client are      *)
(* written in the order they were issued (send_packet, on_connected,       *)
(* client_impl::send).                                                     *)
THEOREM WrittenInOrder == Spec => []OrderPerHandler
<1>1. Typed /\ Ordered => OrderPerHandler
  <2> SUFFICES ASSUME Typed, Ordered PROVE OrderPerHandler
    OBVIOUS
  <2>1. DOMAIN wire = 1..Len(wire) /\ Sorted(wire, WireOrder)
    BY LenProperties DEF Typed, TypeOK, Ordered, Placed, Sequenced
  <2>2. ASSUME NEW i \in 1..Len(wire), NEW j \in 1..Len(wire), i < j,
               wire[i].by = wire[j].by, wire[i].pkt.from = wire[j].pkt.from
        PROVE  wire[i].pkt.n < wire[j].pkt.n
    <3>1. <<wire[i], wire[j]>> \in WireOrder
      BY <2>1, <2>2 DEF Sorted
    <3> QED
      BY <2>2, <3>1 DEF WireOrder, Earlier
  <2> QED
    BY <2>1, <2>2 DEF OrderPerHandler
<1> QED
  BY <1>1, TypedInvariant, OrderedInvariant, PTL

-----------------------------------------------------------------------------
(* What a step means to PacketFate.                                        *)

Log(s) == [i \in DOMAIN s |-> s[i].pkt]

LEMMA LogFacts ==
  ASSUME NEW s \in Seq(Written)
  PROVE  /\ Log(s) \in Seq(Packet) /\ Len(Log(s)) = Len(s)
         /\ \A i \in 1..Len(s) : Log(s)[i] = s[i].pkt
         /\ {Log(s)[i] : i \in DOMAIN Log(s)} = {w.pkt : w \in Elems(s)}
<1>1. DOMAIN s = 1..Len(s) /\ Len(s) \in Nat /\ \A i \in 1..Len(s) : s[i] \in Written
  BY LenProperties, ElementOfSeq
<1>2. Log(s) \in [1..Len(s) -> Packet]
  BY <1>1 DEF Log, Written
<1>3. Log(s) \in Seq(Packet) /\ DOMAIN Log(s) = 1..Len(s)
  BY <1>1, <1>2, SeqDef
<1>4. Len(Log(s)) = Len(s)
  <2>1. DOMAIN Log(s) = 1..Len(Log(s)) /\ Len(Log(s)) \in Nat
    BY <1>3, LenProperties
  <2> QED
    BY <1>1, <1>3, <2>1
<1>5. \A i \in 1..Len(s) : Log(s)[i] = s[i].pkt
  BY <1>1 DEF Log
<1> QED
  BY <1>3, <1>4, <1>5 DEF Elems

LEMMA LogAppend ==
  ASSUME NEW s \in Seq(Written), NEW w \in Written
  PROVE  Log(Append(s, w)) = Append(Log(s), w.pkt)
<1>1. /\ Append(s, w) \in Seq(Written) /\ Len(Append(s, w)) = Len(s) + 1 /\ Len(s) \in Nat
      /\ \A i \in 1..Len(s) : Append(s, w)[i] = s[i]
      /\ Append(s, w)[Len(s) + 1] = w
  BY AppendProperties, LenProperties
<1>2. w.pkt \in Packet
  BY DEF Written
<1>3. /\ Log(s) \in Seq(Packet) /\ Len(Log(s)) = Len(s) /\ \A i \in 1..Len(s) : Log(s)[i] = s[i].pkt
  BY LogFacts
<1>4. /\ Log(Append(s, w)) \in Seq(Packet) /\ Len(Log(Append(s, w))) = Len(s) + 1
      /\ \A i \in 1 .. Len(s) + 1 : Log(Append(s, w))[i] = Append(s, w)[i].pkt
  BY <1>1, LogFacts
<1>5. /\ Append(Log(s), w.pkt) \in Seq(Packet) /\ Len(Append(Log(s), w.pkt)) = Len(s) + 1
      /\ \A i \in 1..Len(s) : Append(Log(s), w.pkt)[i] = s[i].pkt
      /\ Append(Log(s), w.pkt)[Len(s) + 1] = w.pkt
  BY <1>2, <1>3, AppendProperties
<1>6. ASSUME NEW i \in 1 .. Len(s) + 1
      PROVE  Log(Append(s, w))[i] = Append(Log(s), w.pkt)[i]
  <2>1. i \in 1..Len(s) \/ i = Len(s) + 1
    BY <1>1
  <2> QED
    BY <1>1, <1>4, <1>5, <2>1
<1> QED
  BY <1>4, <1>5, <1>6, SeqEqual

Pending == Elems(queue) \cup {h.pkt : h \in Posted}
Hand == ({pkt[t] : t \in Threads} \cup {front[t] : t \in Threads}) \ {NoPacket}

LEMMA HeldParts ==
  ASSUME NEW q \in Seq(Packet), NEW r \in Seq(Handler)
  PROVE  /\ {q[i] : i \in DOMAIN q} = Elems(q)
         /\ {r[i].pkt : i \in {j \in DOMAIN r : r[j].op = "send"}} = {h.pkt : h \in PostedIn(r)}
<1>1. DOMAIN q = 1..Len(q) /\ DOMAIN r = 1..Len(r)
  BY LenProperties
<1>2. {r[i].pkt : i \in {j \in 1..Len(r) : r[j].op = "send"}} = {h.pkt : h \in PostedIn(r)}
  BY DEF PostedIn, Elems
<1> QED
  BY <1>1, <1>2 DEF Elems

LEMMA HeldIs ==
  ASSUME Typed, Typed'
  PROVE  Held = Pending \cup Hand /\ Held' = Pending' \cup Hand'
<1>1. /\ queue \in Seq(Packet) /\ ready \in Seq(Handler)
      /\ queue' \in Seq(Packet) /\ ready' \in Seq(Handler)
  BY DEF Typed, TypeOK
<1>2. Held = Pending \cup Hand
  BY <1>1, HeldParts DEF Held, Pending, Hand, Posted
<1>3. Held' = Pending' \cup Hand'
  BY <1>1, HeldParts DEF Held, Pending, Hand, Posted
<1> QED
  BY <1>2, <1>3

(* The moves in the terms of PacketFate.                                   *)
Keeps == UNCHANGED <<Held, dropped, refused>> /\ Log(wire)' = Log(wire)
Accepts ==
  \E p \in Packet :
    /\ p \notin Held \cup {w.pkt : w \in Frames} \cup Lost
    /\ Held' = Held \cup {p} /\ UNCHANGED <<dropped, refused>> /\ Log(wire)' = Log(wire)
Logs ==
  \E p \in Held :
    /\ conState = "opened"
    /\ Held' = Held \ {p} /\ UNCHANGED <<dropped, refused>>
    /\ Log(wire)' = Append(Log(wire), p)
IsRefused ==
  \E p \in Held :
    /\ conState = "opened"
    /\ Held' = Held \ {p} /\ UNCHANGED dropped /\ refused' = refused \cup {p}
    /\ Log(wire)' = Log(wire)
Abandons ==
  \E P \in SUBSET Held :
    /\ conState # "opened" \/ ~client
    /\ Held' = Held \ P /\ dropped' = dropped \cup P /\ UNCHANGED refused
    /\ Log(wire)' = Log(wire)

LEMMA KeepHolds ==
  ASSUME Typed, Typed', NEW t \in Threads, Still \/ Enqueue(t) \/ Pop(t)
  PROVE  Keeps
<1> SUFFICES Pending' \cup Hand' = Pending \cup Hand
  BY HeldIs DEF Keeps, Still, Enqueue, Pop, Log
<1>1. CASE Still
  BY <1>1 DEF Still, PostsKept, Pending, Hand
<1>2. CASE Enqueue(t)
  <2>1. \A u \in Threads : pkt'[u] = IF u = t THEN NoPacket ELSE pkt[u]
    BY <1>2, EmptiedPkt DEF Enqueue
  <2>2. Elems(queue)' = Elems(queue) \cup {pkt[t]} /\ pkt[t] # NoPacket
    BY <1>2, ElemsAppend, PacketFacts DEF Enqueue, Typed, TypeOK
  <2>3. Posted' = Posted /\ front' = front
    BY <1>2 DEF Enqueue, Posted
  <2> QED
    BY <2>1, <2>2, <2>3 DEF Pending, Hand
<1>3. CASE Pop(t)
  <2>1. front[t] = NoPacket /\ \A u \in Threads : front'[u] = IF u = t THEN Head(queue) ELSE front[u]
    BY <1>3 DEF Pop, Typed, TypeOK
  <2>2. Elems(queue) = Elems(queue)' \cup {Head(queue)} /\ Head(queue) # NoPacket
    <3>1. queue \in Seq(Packet) /\ queue # <<>> /\ queue' = Tail(queue)
      BY <1>3 DEF Pop, Typed, TypeOK
    <3> QED
      BY <3>1, ElemsTail, HeadTailProperties, PacketFacts
  <2>3. Posted' = Posted /\ pkt' = pkt
    BY <1>3 DEF Pop, Posted
  <2> QED
    BY <2>1, <2>2, <2>3 DEF Pending, Hand
<1> QED
  BY <1>1, <1>2, <1>3

LEMMA IssueAccepts ==
  ASSUME Typed, Typed', Placed, NEW t \in Threads, Issue(t)
  PROVE  Accepts
<1>1. PICK p \in Packet : /\ p.from = t /\ p.n = calls[t] + 1
                          /\ pkt' = [pkt EXCEPT ![t] = p]
  BY DEF Issue
<1>2. /\ pkt[t] = NoPacket /\ p # NoPacket
      /\ \A u \in Threads : pkt'[u] = IF u = t THEN p ELSE pkt[u]
  BY <1>1, PacketFacts DEF Issue, Typed, TypeOK
<1>3. Posted' = Posted /\ UNCHANGED <<queue, front, dropped, refused>> /\ Log(wire)' = Log(wire)
  BY DEF Issue, Posted
<1>4. Held' = Held \cup {p}
  BY <1>2, <1>3, HeldIs DEF Pending, Hand
<1>5. \A q \in Held \cup {w.pkt : w \in Frames} \cup Lost : q.n <= calls[q.from]
  BY HeldIs DEF Pending, Hand, Ahead, Placed, Numbered
<1>6. calls[t] \in Nat
  BY DEF Typed, TypeOK
<1>7. p \notin Held \cup {w.pkt : w \in Frames} \cup Lost
  BY <1>1, <1>5, <1>6
<1> QED
  BY <1>3, <1>4, <1>7 DEF Accepts

LEMMA GiveUpAbandons ==
  ASSUME Typed, Typed', Placed, NEW t \in Threads, GiveUp(t)
  PROVE  Abandons
<1>1. /\ pkt[t] \in Packet /\ pkt[t] # NoPacket /\ dropped' = dropped \cup {pkt[t]} /\ ~client
      /\ \A u \in Threads : pkt'[u] = IF u = t THEN NoPacket ELSE pkt[u]
  BY EmptiedPkt, PacketFacts DEF GiveUp
<1>2. Posted' = Posted /\ UNCHANGED <<queue, front, refused>> /\ Log(wire)' = Log(wire)
  BY DEF GiveUp, Posted
<1>3. pkt[t] \in Held
  BY <1>1, HeldIs DEF Hand
<1>4. pkt[t] \notin Pending' \cup Hand'
  <2>1. \A p \in Ahead \cup Elems(queue) : p # pkt[t]
    BY <1>1, PacketFacts DEF Placed, InFront, Earlier
  <2>2. \A u \in Threads : pkt'[u] # pkt[t]
    BY <1>1 DEF Placed, Owned
  <2> QED
    BY <1>1, <1>2, <2>1, <2>2 DEF Pending, Hand, Ahead
<1>5. Pending \cup Hand = (Pending' \cup Hand') \cup {pkt[t]}
  BY <1>1, <1>2 DEF Pending, Hand
<1>6. Held' = Held \ {pkt[t]}
  BY <1>4, <1>5, HeldIs
<1> QED
  BY <1>1, <1>2, <1>3, <1>6 DEF Abandons

LEMMA ClearAbandons ==
  ASSUME Typed, Typed', Placed, Clear
  PROVE  Abandons
<1>1. /\ Posted' = Posted /\ UNCHANGED <<pkt, front, refused>> /\ Log(wire)' = Log(wire)
      /\ dropped' = dropped \cup Elems(queue) /\ (conState # "opened" \/ ~client)
  BY DEF Clear, Posted
<1>2. Elems(queue)' = {}
  BY ElemsTyped, EmptySeq DEF Clear
<1>3. \A q \in Elems(queue) : q \in Packet /\ ~Earlier(q, q)
  BY PlaceTypes, PacketFacts DEF Earlier
<1>4. \A q \in Elems(queue) : q \notin Ahead /\ \A t \in Threads : pkt[t] # q
  BY <1>3, PacketFacts DEF Placed, InFront
<1>5. \A q \in Elems(queue) : q \notin Pending' \cup Hand'
  BY <1>1, <1>2, <1>3, <1>4, PacketFacts DEF Pending, Hand, Ahead
<1>6. Pending \cup Hand = (Pending' \cup Hand') \cup Elems(queue)
  BY <1>1, <1>2 DEF Pending, Hand
<1>7. Held' = Held \ Elems(queue) /\ Elems(queue) \subseteq Held
  BY <1>5, <1>6, HeldIs
<1> QED
  BY <1>1, <1>7 DEF Abandons

(* A packet that leaves a hand, or the io_service, leaves for good.        *)
LEMMA LeavesHeld ==
  ASSUME Typed, Typed', NEW t \in Threads, NEW p \in Packet, Writes(t, p) \/ Loses(p),
         Held = Held' \cup {p}, p \notin Held'
  PROVE  Logs \/ IsRefused \/ Abandons
<1>1. Held' = Held \ {p} /\ p \in Held
  OBVIOUS
<1>2. CASE Writes(t, p)
  <2>1. PICK w \in Written : w.pkt = p /\ wire' = Append(wire, w)
    BY <1>2 DEF Writes
  <2>2. Log(wire)' = Append(Log(wire), p)
    BY <2>1, LogAppend DEF Typed, TypeOK
  <2> QED
    BY <1>1, <1>2, <2>2 DEF Writes, Logs
<1>3. CASE Loses(p)
  BY <1>1, <1>3 DEF Loses, IsRefused, Abandons, Log
<1> QED
  BY <1>2, <1>3

LEMMA HandFrontFate ==
  ASSUME Typed, Typed', Placed, NEW t \in Threads, HandFront(t)
  PROVE  Keeps \/ Logs \/ IsRefused \/ Abandons
<1> DEFINE p == front[t]
<1>1. p \in Packet /\ p # NoPacket /\ p \in Ahead /\ ClientSend(t, p) /\ UNCHANGED <<queue, pkt>>
  BY PacketFacts DEF HandFront, Ahead
<1>2. \A u \in Threads : front'[u] = IF u = t THEN NoPacket ELSE front[u]
  BY EmptiedPkt DEF HandFront
<1>3. CASE t \in Users /\ Posts(t, p)
  <2>1. Posted' = Posted \cup {SendHandler(t, p)} /\ SendHandler(t, p).pkt = p
        /\ UNCHANGED <<wire, dropped, refused>>
    BY <1>3 DEF Posts, SendHandler
  <2>2. Pending' \cup Hand' = Pending \cup Hand
    BY <1>1, <1>2, <2>1 DEF Pending, Hand
  <2> QED
    BY <2>1, <2>2, HeldIs DEF Keeps
<1>4. CASE (Writes(t, p) \/ Loses(p)) /\ Posted' = Posted
  <2>1. \A q \in Elems(queue) : q # p
    BY <1>1, PacketFacts DEF Placed, InFront, Earlier
  <2>2. \A u \in Threads : pkt[u] # p
    BY <1>1, PacketFacts DEF Placed, InFront, Earlier
  <2>3. (\A h \in Posted : h.pkt # p) /\ \A u \in Threads : front'[u] # p
    BY <1>1, <1>2 DEF Placed, Apart
  <2>4. p \notin Pending' \cup Hand'
    BY <1>1, <1>4, <2>1, <2>2, <2>3 DEF Pending, Hand
  <2>5. Pending \cup Hand = (Pending' \cup Hand') \cup {p}
    BY <1>1, <1>2, <1>4 DEF Pending, Hand
  <2> QED
    BY <1>1, <1>4, <2>4, <2>5, HeldIs, LeavesHeld
<1> QED
  BY <1>1, <1>3, <1>4, SendEnds

LEMMA HandOwnFate ==
  ASSUME Typed, Typed', Placed, NEW t \in Threads, HandOwn(t)
  PROVE  Keeps \/ Logs \/ IsRefused \/ Abandons
<1> DEFINE p == pkt[t]
<1>1. p \in Packet /\ p # NoPacket /\ p.from = t /\ ClientSend(t, p) /\ UNCHANGED <<queue, front>>
  BY PacketFacts DEF HandOwn, Placed, Owned
<1>2. \A u \in Threads : pkt'[u] = IF u = t THEN NoPacket ELSE pkt[u]
  BY EmptiedPkt DEF HandOwn
<1>3. CASE t \in Users /\ Posts(t, p)
  <2>1. Posted' = Posted \cup {SendHandler(t, p)} /\ SendHandler(t, p).pkt = p
        /\ UNCHANGED <<wire, dropped, refused>>
    BY <1>3 DEF Posts, SendHandler
  <2>2. Pending' \cup Hand' = Pending \cup Hand
    BY <1>1, <1>2, <2>1 DEF Pending, Hand
  <2> QED
    BY <2>1, <2>2, HeldIs DEF Keeps
<1>4. CASE (Writes(t, p) \/ Loses(p)) /\ Posted' = Posted
  <2>1. \A q \in Ahead \cup Elems(queue) : q # p
    BY <1>1, PacketFacts DEF Placed, InFront, Earlier
  <2>2. \A u \in Threads : pkt'[u] # p
    BY <1>1, <1>2 DEF Placed, Owned
  <2>3. p \notin Pending' \cup Hand'
    BY <1>1, <1>4, <2>1, <2>2 DEF Pending, Hand, Ahead
  <2>4. Pending \cup Hand = (Pending' \cup Hand') \cup {p}
    BY <1>1, <1>2, <1>4 DEF Pending, Hand
  <2> QED
    BY <1>1, <1>4, <2>3, <2>4, HeldIs, LeavesHeld
<1> QED
  BY <1>1, <1>3, <1>4, SendEnds

LEMMA RunSendFate ==
  ASSUME Typed, Typed', Placed, RunSend
  PROVE  Logs \/ IsRefused \/ Abandons
<1> DEFINE g == Head(ready)
<1>1. NextHandler("send") /\ SendImpl(g.pkt, g.by) /\ ready' = Tail(ready)
      /\ UNCHANGED <<queue, pkt, front>>
  BY DEF RunSend, sockVars, callVars
<1>2. g \in Posted /\ Posted = {g} \cup Posted' /\ \A h \in Posted' : h.pkt # g.pkt
  BY <1>1, FirstPosted
<1> HIDE DEF g
<1>3. g.pkt \in Packet /\ g.by \in Threads /\ g.pkt \in Ahead
  BY <1>2, PlaceTypes DEF Ahead, Threads
<1>4. /\ \A q \in Elems(queue) : q # g.pkt
      /\ \A u \in Threads : pkt[u] # g.pkt /\ front[u] # g.pkt
  BY <1>2, <1>3, PacketFacts DEF Placed, InFront, Earlier, Apart
<1>5. g.pkt \notin Pending' \cup Hand'
  BY <1>1, <1>2, <1>4 DEF Pending, Hand
<1>6. Pending \cup Hand = (Pending' \cup Hand') \cup {g.pkt}
  BY <1>1, <1>2 DEF Pending, Hand
<1> QED
  BY <1>1, <1>3, <1>5, <1>6, HeldIs, LeavesHeld, SendEnds

FateStep == Fate!Next \/ UNCHANGED Fate!fateVars

LEMMA StepFate ==
  ASSUME Typed, Typed', Closing, Ordered, [Next]_vars
  PROVE  FateStep
<1>1. Fate!Logged = {w.pkt : w \in Frames}
  BY LogFacts DEF Fate!Logged, Log, Frames, Typed, TypeOK
<1> USE DEF FateStep, Fate!Next, Fate!fateVars, Log
<1>2. ASSUME Keeps, UNCHANGED <<conState, client>> PROVE FateStep
  BY <1>2 DEF Keeps
<1>3. ASSUME Accepts, UNCHANGED <<conState, client>> PROVE FateStep
  BY <1>1, <1>3 DEF Accepts, Lost, Fate!Accept
<1>4. ASSUME Logs, UNCHANGED <<conState, client>> PROVE FateStep
  BY <1>4 DEF Logs, Fate!Write
<1>5. ASSUME Abandons, UNCHANGED <<conState, client>> PROVE FateStep
  BY <1>5 DEF Abandons, Fate!GiveUp
<1>6. ASSUME IsRefused, UNCHANGED <<conState, client>> PROVE FateStep
  BY <1>6 DEF IsRefused, Fate!Refuse
<1>7. CASE Still
  <2>1. Keeps
    BY <1>7, KeepHolds DEF Threads
  <2>2. \/ UNCHANGED client
        \/ client /\ ~client' /\ UNCHANGED conState
    BY <1>7 DEF Still
  <2> QED
    BY <2>1, <2>2 DEF Keeps, Fate!Opened, Fate!Gone, Fate!Closed, Typed, TypeOK
<1>8. CASE Clear \/ RunSend
  <2>1. UNCHANGED <<conState, client>>
    BY <1>8 DEF Clear, RunSend, sockVars
  <2> QED
    BY <1>4, <1>5, <1>6, <1>8, <2>1, ClearAbandons, RunSendFate DEF Ordered
<1>9. ASSUME NEW t \in Threads,
             Issue(t) \/ GiveUp(t) \/ Enqueue(t) \/ Pop(t) \/ HandFront(t) \/ HandOwn(t)
      PROVE  FateStep
  <2>1. UNCHANGED <<conState, client>>
    BY <1>9 DEF Issue, GiveUp, Enqueue, Pop, HandFront, HandOwn
  <2>2. Keeps \/ Accepts \/ Logs \/ IsRefused \/ Abandons
    BY <1>9, IssueAccepts, GiveUpAbandons, KeepHolds, HandFrontFate, HandOwnFate DEF Ordered
  <2> QED
    BY <1>2, <1>3, <1>4, <1>5, <1>6, <2>1, <2>2
<1> QED
  BY <1>7, <1>8, <1>9, EveryMove DEF Move

(* Each packet handed to the socket is written once, refused once by       *)
(* websocketpp when it would be written, or given up once, and given up    *)
(* only when the connection is not open or the socket closed, whichever of *)
(* the two loops that empty m_packet_queue, and whichever thread, takes it *)
(* from there (send_packet, on_connected, send_impl, on_close,             *)
(* on_disconnect).                                                         *)
THEOREM FateOfPackets == Spec => ImplementsPacketFate
<1>1. Init => Fate!Init
  <2> SUFFICES ASSUME Init PROVE Fate!Init
    OBVIOUS
  <2>1. Held = {}
    BY EmptySeq DEF Init, Held
  <2>2. [i \in DOMAIN wire |-> wire[i].pkt] = <<>>
    BY DEF Init
  <2> QED
    BY <2>1, <2>2 DEF Init, Fate!Init
<1>2. Typed /\ Typed' /\ Closing /\ Ordered /\ [Next]_vars => [Fate!Next]_(Fate!fateVars)
  BY StepFate DEF FateStep
<1> QED
  BY <1>1, <1>2, TypedInvariant, ClosingInvariant, OrderedInvariant, PTL
     DEF Spec, ImplementsPacketFate, Fate!Spec
=============================================================================
