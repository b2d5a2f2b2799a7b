------------------------------ MODULE SioSocket ------------------------------
(***************************************************************************)
(* The outgoing half of one socket.io socket: sio::socket::impl, as the    *)
(* threads of the client drive it.                                         *)
(*                                                                         *)
(* Application threads (Users) call emit() and close(); the network thread *)
(* (Net) runs the io_service: it executes handlers one at a time, reacts   *)
(* to packets of the server, to the websocket opening and closing, and may *)
(* emit from inside an event listener.  Only m_packet_queue is protected   *)
(* (m_packet_mutex, one critical section per queue operation); m_connected,*)
(* m_client and m_connection_timer are plain members that every thread     *)
(* reads and writes.  Each statement that accesses one of them is a step   *)
(* of its own, except where no other thread can tell: close() tests        *)
(* m_client and m_connected in one step (whatever on_connected and         *)
(* on_close do in between, there is an instant at which both tests come    *)
(* out as they did), and send_connect arms its timer in one step (a        *)
(* close() under way meets it before, between its own steps or after).     *)
(***************************************************************************)
EXTENDS Integers, Sequences, FiniteSets

CONSTANTS
  Users,      \* the application threads
  Net,        \* the network thread, which runs client_impl::run_loop
  MaxCalls,   \* bound: packets one thread issues
  MaxOpens    \* bound: websocket connections opened (1 is the first one)

ASSUME NetAssumption == Net \notin Users
ASSUME BoundAssumption == MaxCalls \in Nat /\ MaxOpens \in Nat \ {0}

Threads == Users \cup {Net}

VARIABLES
  connected,  \* m_connected: the server confirmed the namespace
  client,     \* m_client # NULL: on_close has not run
  queue,      \* m_packet_queue
  timer,      \* m_connection_timer # NULL
  waits,      \* the waits pending on *m_connection_timer, by their handler
  conState,   \* client_impl::m_con_state ("closed" stands for opening too)
  epoch,      \* which websocket connection is, or was last, open
  ready,      \* handlers the io_service has to run, first come first served
  pc,         \* where each thread is inside the socket's code
  pkt,        \* the packet a thread's send_packet call is sending
  front,      \* front_pack: the packet a thread popped and has not sent
  calls,      \* number of packets each thread has issued
  wire,       \* history: packets written to the websocket, in order
  dropped,    \* history: packets the code gave up
  refused,    \* history: packets websocketpp refused to write
  acked       \* history: connections on which the namespace was confirmed

timerVars == <<timer, waits>>
sockVars == <<connected, client, queue, timerVars>>
callVars == <<pc, pkt, front, calls>>
history  == <<wire, dropped, refused, acked>>
vars == <<sockVars, conState, epoch, ready, callVars, history>>

-----------------------------------------------------------------------------
(* Data.                                                                   *)

Packet == [type : {"event", "disconnect"}, from : Threads, n : 1..MaxCalls]
NoPacket == [type |-> "none", from |-> Net, n |-> 0]

SendHandler(t, p) == [op |-> "send", pkt |-> p, by |-> t]
TimeoutHandler    == [op |-> "timeout", pkt |-> NoPacket, by |-> Net]
CloseHandler      == [op |-> "close", pkt |-> NoPacket, by |-> Net]

Handler ==
  {SendHandler(t, p) : t \in Users, p \in Packet} \cup {TimeoutHandler, CloseHandler}

Written == [pkt : Packet, by : Threads, epoch : 1..MaxOpens]

PC == {"idle", "guard", "branch", "push", "flush", "flushSend", "direct",
       "closeSocket", "arm", "service", "reset", "expire", "wait",
       "confirm", "drain", "drainSend", "forget", "cancelTimer", "close2", "close3",
       "disc", "crashed"}

TypeOK ==
  /\ connected \in BOOLEAN /\ client \in BOOLEAN
  /\ queue \in Seq(Packet)
  /\ timer \in BOOLEAN /\ waits \in SUBSET {"connect", "close"}
  /\ conState \in {"opened", "closing", "closed"}
  /\ epoch \in 1..MaxOpens
  /\ ready \in Seq(Handler)
  /\ pc \in [Threads -> PC]
  /\ pkt \in [Threads -> Packet \cup {NoPacket}]
  /\ front \in [Threads -> Packet \cup {NoPacket}]
  /\ calls \in [Threads -> 0..MaxCalls]
  /\ wire \in Seq(Written)
  /\ dropped \in SUBSET Packet /\ refused \in SUBSET Packet
  /\ acked \in SUBSET (1..MaxOpens)

(* Dereferencing a null m_client or m_connection_timer ends the process.   *)
Crashed == \E t \in Threads : pc[t] = "crashed"

At(t, l) == pc[t] = l
Goto(t, l) == pc' = [pc EXCEPT ![t] = l]

-----------------------------------------------------------------------------
(* Sending: emit, send_packet, client_impl::send.                          *)

(* emit() builds a packet; its own NULL_GUARD adds nothing to that of      *)
(* send_packet, as m_client never leaves NULL.  The network thread emits   *)
(* (or acknowledges) from a listener, hence between two handlers and while *)
(* the socket is still known to the client.                                *)
Emit(t) ==
  /\ At(t, "idle") /\ calls[t] < MaxCalls
  /\ t = Net => client /\ conState # "closed"
  /\ calls' = [calls EXCEPT ![t] = @ + 1]
  /\ pkt' = [pkt EXCEPT ![t] = [type |-> "event", from |-> t, n |-> calls[t] + 1]]
  /\ Goto(t, "guard")
  /\ UNCHANGED <<sockVars, conState, epoch, ready, front, history>>

(* Where a thread goes when send_packet returns: close() goes on to arm    *)
(* the closing timer.                                                      *)
Return(t) ==
  /\ Goto(t, IF pkt[t].type = "disconnect" THEN "arm" ELSE "idle")
  /\ pkt' = [pkt EXCEPT ![t] = NoPacket]

(* A variant without the guard.                                            *)
SendUnguarded(t) ==
  /\ At(t, "guard")
  /\ Goto(t, "branch")
  /\ UNCHANGED <<sockVars, conState, epoch, ready, pkt, front, calls, history>>

(* NULL_GUARD(m_client) of send_packet.                                    *)
SendGuard(t) ==
  /\ At(t, "guard")
  /\ IF client
       THEN Goto(t, "branch") /\ UNCHANGED <<pkt, dropped>>
       ELSE Return(t) /\ dropped' = dropped \cup {pkt[t]}
  /\ UNCHANGED <<sockVars, conState, epoch, ready, front, calls, wire, refused, acked>>

(* send_packet reads m_connected, without a lock.                          *)
SendBranch(t) ==
  /\ At(t, "branch")
  /\ Goto(t, IF connected THEN "flush" ELSE "push")
  /\ UNCHANGED <<sockVars, conState, epoch, ready, pkt, front, calls, history>>

(* Variants of the queueing: in front of the queue, or a packet already    *)
(* moved from.                                                             *)
PushFirst(t) ==
  /\ At(t, "push")
  /\ queue' = <<pkt[t]>> \o queue
  /\ Return(t)
  /\ UNCHANGED <<connected, client, timerVars, conState, epoch, ready, front, calls, history>>

PushMoved(t) ==
  /\ At(t, "push")
  /\ queue' = Append(queue, front[t])
  /\ Return(t)
  /\ UNCHANGED <<connected, client, timerVars, conState, epoch, ready, front, calls, history>>

(* ... not connected: queue the packet, under m_packet_mutex.              *)
PushPacket(t) ==
  /\ At(t, "push")
  /\ queue' = Append(queue, pkt[t])
  /\ Return(t)
  /\ UNCHANGED <<connected, client, timerVars, conState, epoch, ready, front, calls, history>>

(* A variant that copies the front packet and does not pop it.             *)
CopyFront(t, send, done) ==
  IF queue = <<>>
    THEN Goto(t, done) /\ UNCHANGED <<queue, front>>
    ELSE /\ front' = [front EXCEPT ![t] = Head(queue)]
         /\ queue' = queue
         /\ Goto(t, send)

(* One critical section of the loop that empties m_packet_queue, in        *)
(* send_packet and in on_connected: pop the front, or leave the loop.      *)
PopFront(t, send, done) ==
  IF queue = <<>>
    THEN Goto(t, done) /\ UNCHANGED <<queue, front>>
    ELSE /\ front' = [front EXCEPT ![t] = Head(queue)]
         /\ queue' = Tail(queue)
         /\ Goto(t, send)

FlushPop(t) ==
  /\ At(t, "flush")
  /\ PopFront(t, "flushSend", "direct")
  /\ UNCHANGED <<connected, client, timerVars, conState, epoch, ready, pkt, calls, history>>

(* client_impl::send_impl, on the network thread: a packet is dropped      *)
(* silently while the connection is not open, and lost with a line of      *)
(* output when websocketpp refuses it, because the websocket is closing    *)
(* already or its text is not UTF-8.                                       *)
SendImpl(p, t) ==
  \/ /\ conState = "opened"
     /\ wire' = Append(wire, [pkt |-> p, by |-> t, epoch |-> epoch])
     /\ UNCHANGED <<dropped, refused>>
  \/ /\ conState = "opened"
     /\ refused' = refused \cup {p}
     /\ UNCHANGED <<wire, dropped>>
  \/ /\ conState # "opened"
     /\ dropped' = dropped \cup {p}
     /\ UNCHANGED <<wire, refused>>

(* m_client->send(p): io_service::dispatch runs send_impl at once on the   *)
(* network thread and posts it from any other thread.                      *)
ClientSend(t, p) ==
  IF t = Net
    THEN SendImpl(p, t) /\ UNCHANGED ready
    ELSE ready' = Append(ready, SendHandler(t, p)) /\ UNCHANGED <<wire, dropped, refused>>

(* m_client->send(front_pack) and m_client->send(p) dereference m_client   *)
(* again, after the guard.                                                 *)
FlushSend(t) ==
  /\ At(t, "flushSend")
  /\ IF client
       THEN ClientSend(t, front[t]) /\ front' = [front EXCEPT ![t] = NoPacket]
            /\ Goto(t, "flush")
       ELSE Goto(t, "crashed") /\ UNCHANGED <<ready, wire, dropped, refused, front>>
  /\ UNCHANGED <<sockVars, conState, epoch, pkt, calls, acked>>

DirectSend(t) ==
  /\ At(t, "direct")
  /\ IF client
       THEN ClientSend(t, pkt[t]) /\ Return(t)
       ELSE Goto(t, "crashed") /\ UNCHANGED <<ready, wire, dropped, refused, pkt>>
  /\ UNCHANGED <<sockVars, conState, epoch, front, calls, acked>>

-----------------------------------------------------------------------------
(* Closing from the application.                                           *)

(* socket::close(), called directly ...                                    *)
SocketClose(t) ==
  /\ At(t, "idle") /\ t \in Users /\ calls[t] < MaxCalls
  /\ Goto(t, "closeSocket")
  /\ UNCHANGED <<sockVars, conState, epoch, ready, pkt, front, calls, history>>

(* ... or through client::close() and sync_close(), which mark the client  *)
(* as closing before they close its sockets.                               *)
ClientClose(t) ==
  /\ At(t, "idle") /\ t \in Users /\ calls[t] < MaxCalls
  /\ conState = "opened"
  /\ conState' = "closing"
  /\ Goto(t, "closeSocket")
  /\ UNCHANGED <<sockVars, epoch, ready, pkt, front, calls, history>>

(* close() acts on a connected socket only: it sends a disconnect packet.  *)
CloseSocket(t) ==
  /\ At(t, "closeSocket")
  /\ IF client /\ connected
       THEN /\ calls' = [calls EXCEPT ![t] = @ + 1]
            /\ pkt' = [pkt EXCEPT ![t] =
                         [type |-> "disconnect", from |-> t, n |-> calls[t] + 1]]
            /\ Goto(t, "guard")
       ELSE Goto(t, "idle") /\ UNCHANGED <<pkt, calls>>
  /\ UNCHANGED <<sockVars, conState, epoch, ready, front, history>>

(* A variant in which on_close looks at its error code: a cancelled wait   *)
(* does nothing.                                                           *)
CancelSilently(pending) == ready' = pending

(* Cancelling or destroying the timer, or moving its expiry, completes the *)
(* waits pending on it.  on_close is bound without its error code, so it   *)
(* runs even then; the aborted timeout_connection returns at once and is   *)
(* left out.                                                               *)
CancelWaits(pending) ==
  ready' = IF "close" \in waits THEN Append(pending, CloseHandler) ELSE pending

(* if(!m_connection_timer) ...                                             *)
TestTimer(t) ==
  /\ At(t, "arm")
  /\ Goto(t, IF timer THEN "expire" ELSE "service")
  /\ UNCHANGED <<sockVars, conState, epoch, ready, pkt, front, calls, history>>

(* ... m_client->get_io_service() dereferences m_client once more ...      *)
ReadService(t) ==
  /\ At(t, "service")
  /\ Goto(t, IF client THEN "reset" ELSE "crashed")
  /\ UNCHANGED <<sockVars, conState, epoch, ready, pkt, front, calls, history>>

(* ... m_connection_timer.reset(new ...), which destroys a timer that      *)
(* on_open may have made since.                                            *)
ResetTimer(t) ==
  /\ At(t, "reset")
  /\ CancelWaits(ready) /\ timer' = TRUE /\ waits' = {}
  /\ Goto(t, "expire")
  /\ UNCHANGED <<connected, client, queue, conState, epoch, pkt, front, calls, history>>

(* expires_from_now(3 s).                                                  *)
SetExpiry(t) ==
  /\ At(t, "expire")
  /\ IF timer
       THEN CancelWaits(ready) /\ waits' = {} /\ Goto(t, "wait")
       ELSE Goto(t, "crashed") /\ UNCHANGED <<waits, ready>>
  /\ UNCHANGED <<connected, client, queue, timer, conState, epoch, pkt, front, calls, history>>

(* async_wait(on_close).                                                   *)
WaitClose(t) ==
  /\ At(t, "wait")
  /\ IF timer
       THEN waits' = waits \cup {"close"} /\ Goto(t, "idle")
       ELSE Goto(t, "crashed") /\ UNCHANGED waits
  /\ UNCHANGED <<connected, client, queue, timer, conState, epoch, ready, pkt, front, calls, history>>

-----------------------------------------------------------------------------
(* The network thread.                                                     *)

(* A variant that arms the connection timer for the first connection only. *)
OnOpenUntimed ==
  /\ At(Net, "idle") /\ conState = "closed" /\ epoch < MaxOpens
  /\ conState' = "opened" /\ epoch' = epoch + 1
  /\ IF client
       THEN CancelWaits(ready) /\ timer' = TRUE /\ waits' = {}
       ELSE UNCHANGED <<ready, timerVars>>
  /\ UNCHANGED <<connected, client, queue, callVars, history>>

(* client_impl::on_open: the socket, if the client still knows it, sends   *)
(* its connect packet and starts the 20 s connection timer.  The packet    *)
(* itself is left out: should the client close or websocketpp refuse it    *)
(* there and then, the server just never confirms the namespace.           *)
OnOpen ==
  /\ At(Net, "idle") /\ conState = "closed" /\ epoch < MaxOpens
  /\ conState' = "opened" /\ epoch' = epoch + 1
  /\ IF client
       THEN CancelWaits(ready) /\ timer' = TRUE /\ waits' = {"connect"}
       ELSE UNCHANGED <<ready, timerVars>>
  /\ UNCHANGED <<connected, client, queue, callVars, history>>

(* The timer is cancelled and destroyed.                                   *)
DropTimer(pending) == CancelWaits(pending) /\ timer' = FALSE /\ waits' = {}

(* The server confirms the namespace.  on_connected drops the connection   *)
(* timer ...                                                               *)
OnConnected ==
  /\ At(Net, "idle") /\ conState # "closed" /\ client
  /\ acked' = acked \cup {epoch}
  /\ DropTimer(ready)
  /\ Goto(Net, IF connected THEN "idle" ELSE "confirm")
  /\ UNCHANGED <<connected, client, queue, conState, epoch, pkt, front, calls, wire, dropped, refused>>

(* A variant that sets m_connected and leaves the queue as it is.          *)
SetConnectedUnflushed ==
  /\ At(Net, "confirm")
  /\ connected' = TRUE
  /\ Goto(Net, "idle")
  /\ UNCHANGED <<client, queue, timerVars, conState, epoch, ready, pkt, front, calls, history>>

(* ... and sets m_connected.                                               *)
SetConnected ==
  /\ At(Net, "confirm")
  /\ connected' = TRUE
  /\ Goto(Net, "drain")
  /\ UNCHANGED <<client, queue, timerVars, conState, epoch, ready, pkt, front, calls, history>>

(* The loop of on_connected.                                               *)
DrainPop ==
  /\ At(Net, "drain")
  /\ PopFront(Net, "drainSend", "idle")
  /\ UNCHANGED <<connected, client, timerVars, conState, epoch, ready, pkt, calls, history>>

DrainSend ==
  /\ At(Net, "drainSend")
  /\ ClientSend(Net, front[Net])
  /\ front' = [front EXCEPT ![Net] = NoPacket]
  /\ Goto(Net, "drain")
  /\ UNCHANGED <<sockVars, conState, epoch, pkt, calls, acked>>

(* on_close, first part: m_client = NULL.                                  *)
ForgetClient == client' = FALSE /\ Goto(Net, "cancelTimer")

(* The server disconnects the namespace.                                   *)
OnDisconnectPacket ==
  /\ At(Net, "idle") /\ conState # "closed" /\ client
  /\ ForgetClient
  /\ UNCHANGED <<connected, queue, timerVars, conState, epoch, ready, pkt, front, calls, history>>

NextHandler(op) == At(Net, "idle") /\ ready # <<>> /\ Head(ready).op = op

(* timeout_connection, completed without an error: it destroys the timer   *)
(* and calls on_close.                                                     *)
TimeoutConnection ==
  /\ NextHandler("timeout")
  /\ IF client THEN DropTimer(Tail(ready)) /\ Goto(Net, "forget")
               ELSE ready' = Tail(ready) /\ UNCHANGED <<timerVars, pc>>
  /\ UNCHANGED <<connected, client, queue, conState, epoch, pkt, front, calls, history>>

TimeoutClose ==
  /\ At(Net, "forget")
  /\ ForgetClient
  /\ UNCHANGED <<connected, queue, timerVars, conState, epoch, ready, pkt, front, calls, history>>

(* on_close, run for the closing timer, expired or cancelled.              *)
CloseWaitDone ==
  /\ NextHandler("close")
  /\ ready' = Tail(ready)
  /\ IF client THEN ForgetClient ELSE UNCHANGED <<client, pc>>
  /\ UNCHANGED <<connected, queue, timerVars, conState, epoch, pkt, front, calls, history>>

(* on_close, continued: the timer is cancelled and destroyed.              *)
CloseTimer ==
  /\ At(Net, "cancelTimer")
  /\ DropTimer(ready)
  /\ Goto(Net, "close2")
  /\ UNCHANGED <<connected, client, queue, conState, epoch, pkt, front, calls, history>>

(* send_impl, posted by an application thread.                             *)
RunSend ==
  /\ NextHandler("send")
  /\ SendImpl(Head(ready).pkt, Head(ready).by)
  /\ ready' = Tail(ready)
  /\ UNCHANGED <<sockVars, conState, epoch, callVars, acked>>

(* A variant that leaves m_connected set.                                  *)
CloseStillConnected ==
  /\ At(Net, "close2")
  /\ Goto(Net, "close3")
  /\ UNCHANGED <<sockVars, conState, epoch, ready, pkt, front, calls, history>>

(* on_close, continued: m_connected = false; then the queue is emptied and *)
(* the client forgets the socket.                                          *)
CloseDisconnected ==
  /\ At(Net, "close2")
  /\ connected' = FALSE
  /\ Goto(Net, "close3")
  /\ UNCHANGED <<client, queue, timerVars, conState, epoch, ready, pkt, front, calls, history>>

ClearQueue ==
  /\ queue' = <<>>
  /\ dropped' = dropped \cup {queue[i] : i \in 1..Len(queue)}

CloseClear ==
  /\ At(Net, "close3")
  /\ ClearQueue
  /\ Goto(Net, "idle")
  /\ UNCHANGED <<connected, client, timerVars, conState, epoch, ready, pkt, front, calls, wire, refused, acked>>

(* A variant that leaves m_connected set.                                  *)
OnDisconnectUnnoticed ==
  /\ At(Net, "idle") /\ conState # "closed"
  /\ conState' = "closed"
  /\ UNCHANGED <<sockVars, epoch, ready, callVars, history>>

(* client_impl::on_close: the websocket is gone.  on_disconnect resets     *)
(* m_connected and then, in a step of its own, empties the queue.          *)
OnDisconnect ==
  /\ At(Net, "idle") /\ conState # "closed"
  /\ conState' = "closed"
  /\ IF client /\ connected
       THEN connected' = FALSE /\ Goto(Net, "disc")
       ELSE UNCHANGED <<connected, pc>>
  /\ UNCHANGED <<client, queue, timerVars, epoch, ready, pkt, front, calls, history>>

DisconnectClear ==
  /\ At(Net, "disc")
  /\ ClearQueue
  /\ Goto(Net, "idle")
  /\ UNCHANGED <<connected, client, timerVars, conState, epoch, ready, pkt, front, calls, wire, refused, acked>>

(* asio: an expired wait becomes a handler to run; cancelling the timer no *)
(* longer reaches it.                                                      *)
Expire ==
  \E w \in waits :
    /\ ready' = Append(ready, IF w = "connect" THEN TimeoutHandler ELSE CloseHandler)
    /\ waits' = waits \ {w}
    /\ UNCHANGED <<connected, client, queue, timer, conState, epoch, callVars, history>>

-----------------------------------------------------------------------------
(* The socket as its constructor leaves it, called from the first on_open: *)
(* the client is open, so the connection timer runs.                       *)
Init ==
  /\ connected = FALSE /\ client = TRUE /\ queue = <<>>
  /\ timer = TRUE /\ waits = {"connect"}
  /\ conState = "opened" /\ epoch = 1 /\ ready = <<>>
  /\ pc = [t \in Threads |-> "idle"]
  /\ pkt = [t \in Threads |-> NoPacket]
  /\ front = [t \in Threads |-> NoPacket]
  /\ calls = [t \in Threads |-> 0]
  /\ wire = <<>> /\ dropped = {} /\ refused = {} /\ acked = {}

Call(t) == Emit(t) \/ SocketClose(t) \/ ClientClose(t)

Continue(t) ==
  \/ SendGuard(t) \/ SendBranch(t) \/ PushPacket(t)
  \/ FlushPop(t) \/ FlushSend(t) \/ DirectSend(t)
  \/ CloseSocket(t) \/ TestTimer(t) \/ ReadService(t) \/ ResetTimer(t)
  \/ SetExpiry(t) \/ WaitClose(t)

Environment == OnOpen \/ OnConnected \/ OnDisconnectPacket \/ OnDisconnect

NetStep ==
  \/ SetConnected \/ DrainPop \/ DrainSend
  \/ TimeoutClose \/ CloseTimer \/ CloseDisconnected \/ CloseClear \/ DisconnectClear
  \/ TimeoutConnection \/ CloseWaitDone \/ RunSend

Next ==
  /\ ~Crashed
  /\ \/ \E t \in Threads : Call(t) \/ Continue(t)
     \/ Environment
     \/ NetStep
     \/ Expire

Spec == Init /\ [][Next]_vars

(* A thread inside a call goes on, the network thread runs what is ready,  *)
(* timers expire; nothing obliges the application to call or the server to *)
(* answer.                                                                 *)
Fairness ==
  /\ \A t \in Threads : WF_vars(~Crashed /\ Continue(t))
  /\ WF_vars(~Crashed /\ NetStep)
  /\ WF_vars(~Crashed /\ Expire)

FairSpec == Spec /\ Fairness
-----------------------------------------------------------------------------
(* What must hold.                                                         *)

Draining == pc[Net] \in {"drain", "drainSend"}
InOnClose == pc[Net] \in {"cancelTimer", "close2"}

(* The packets the threads, the queue and the io_service still carry.      *)
Held ==
  {queue[i] : i \in DOMAIN queue}
    \cup {ready[i].pkt : i \in {j \in DOMAIN ready : ready[j].op = "send"}}
    \cup (({pkt[t] : t \in Threads} \cup {front[t] : t \in Threads}) \ {NoPacket})

Fate == INSTANCE PacketFate WITH
  Packets <- Packet,
  held <- Held,
  log <- [i \in DOMAIN wire |-> wire[i].pkt],
  lost <- dropped,
  refused <- refused,
  up <- conState = "opened",
  live <- client

(* Every packet handed to the socket is written once, refused once by      *)
(* websocketpp at the moment it would be written, or given up once, and is *)
(* given up only when the connection is not open or the socket closed: no  *)
(* interleaving of the two loops that empty m_packet_queue loses or        *)
(* repeats one.                                                            *)
ImplementsPacketFate == Fate!Spec

(* send_packet tests m_connected before it locks the queue, so a packet    *)
(* can be queued after on_connected emptied the queue, and waits there for *)
(* the next one; but never two packets of one thread.                      *)
StrandedPerThread ==
  connected /\ ~Draining =>
    \A i, j \in DOMAIN queue : queue[i].from = queue[j].from => i = j

(* Packets of one thread that the same thread hands to the client are      *)
(* written in the order they were issued (packets that the network thread  *)
(* drains and the ones a sender posts itself may overtake each other).     *)
OrderPerHandler ==
  \A i, j \in DOMAIN wire :
    /\ i < j
    /\ wire[i].by = wire[j].by /\ wire[i].pkt.from = wire[j].pkt.from
    => wire[i].pkt.n < wire[j].pkt.n

(* No event is written before the server confirmed the namespace: what the *)
(* network thread writes is confirmed on the very connection, what another *)
(* thread posted on that connection or an earlier one.                     *)
HandshakeFirst ==
  \A i \in DOMAIN wire :
    IF wire[i].by = Net THEN wire[i].epoch \in acked
                        ELSE \E e \in acked : e <= wire[i].epoch

(* Once on_close has come to its queue the socket is disconnected and no   *)
(* connection timeout is pending; and once it has emptied the queue, calls *)
(* that were under way put at most one packet per thread into it, however  *)
(* often the application goes on to emit.  (A close() that on_close        *)
(* overtook, between its test of m_connection_timer and its reset of it,   *)
(* leaves a new timer on the closed socket: what waits on that is on_close,*)
(* which finds m_client NULL and does nothing.)                            *)
ClosedIsFinal ==
  /\ ~client /\ ~InOnClose => ~connected /\ "connect" \notin waits
  /\ ~client /\ ~InOnClose /\ pc[Net] # "close3" =>
       \A i, j \in DOMAIN queue : queue[i].from = queue[j].from => i = j

(* A pending handshake is resolved: confirmed, timed out by                *)
(* timeout_connection, or the connection is left.                          *)
HandshakeResolves ==
  (client /\ ~connected /\ conState = "opened") ~>
    (connected \/ ~client \/ conState # "opened" \/ Crashed)

(* A close() that found the socket connected ends with on_close, whatever  *)
(* happens to its timer.                                                   *)
CloseCompletes ==
  \A t \in Users : At(t, "arm") ~> (~client \/ Crashed)

(* NULL_GUARD(m_client) at the head of send_packet and close() is there so *)
(* that a closed socket is left alone.                                     *)
NoNullDereference == ~Crashed
=============================================================================
