------------------------------- MODULE SioEmit -------------------------------
(***************************************************************************)
(* emit() with an acknowledgement callback and with binary attachments,    *)
(* from end to end: the packet id is taken from s_global_event_id, the     *)
(* callback is put in m_acks, the packet is handed to the network thread   *)
(* frame by frame, and the server's answer looks the callback up again.    *)
(* s_global_event_id has no lock, a packet of several frames is not handed *)
(* over in one piece, and m_acks outlives the connections.                 *)
(*                                                                         *)
(* SioSocket has the steps of send_packet one by one; here a packet is     *)
(* queued or handed over in one step.  The server is taken to put frames   *)
(* together as the client's own packet_manager::put_payload does.  The     *)
(* websocket may stop taking frames while m_con_state is con_opened; frames*)
(* and answers that are under way then are lost.                           *)
(***************************************************************************)
EXTENDS Integers, Sequences, SequencesExt

CONSTANTS
  Users,     \* the application threads
  Net,       \* the network thread
  MaxCalls,  \* bound: packets emitted
  MaxBins,   \* bound: attachments of a packet
  MaxOpens,  \* bound: connections
  MaxInt     \* the largest int, one less than a power of two

ASSUME ThreadAssumption == Net \notin Users
ASSUME SizeAssumption ==
  MaxCalls \in Nat /\ MaxBins \in Nat /\ MaxOpens \in Nat /\ MaxInt \in Nat

Threads == Users \cup {Net}

VARIABLES
  nextId,     \* s_global_event_id, an unsigned int
  acks,       \* m_acks: from ids to callbacks; a callback is named by its emit
  connected,  \* m_connected, the same as m_con_state = con_opened but on the
  open,       \*   way from the websocket's opening to the server's confirmation
  writable,   \* the websocket's own state is open: it takes data frames
  queue,      \* m_packet_queue
  ready,      \* frames posted to the network thread
  pc, pkt,    \* where a thread is in emit or on_connected, with which packet
  frames,     \* frames of the packet a thread encodes, still to be handed over
  opens,      \* connections made
  partial,    \* server: the packet whose attachments it waits for
  owed,       \* server: packets it is to answer on this connection
  calls,      \* history: packets emitted
  ids,        \* history: the id each emit with a callback was given
  decoded,    \* history: packets the server put together
  answered,   \* history: answers received, each with the callback it called
  lost        \* history: packets lost with a connection, refused by the websocket,
              \*   or given up for frames mixed up

sendVars == <<pc, pkt, frames>>
linkVars == <<connected, open, writable, opens>>
peerVars == <<partial, owed, decoded>>
vars == <<nextId, acks, queue, ready, linkVars, sendVars, peerVars, calls, ids, answered, lost>>

-----------------------------------------------------------------------------
EmitOf(t, n) == <<t, n>>
Emits == Threads \X (1..MaxCalls)
NoEmit == <<Net, 0>>

UInt == 0 .. 2 * MaxInt + 1
ToInt(u) == IF u <= MaxInt THEN u ELSE u - (2 * MaxInt + 2)
Ids == {ToInt(u) : u \in UInt}

NoPacket == [emit |-> NoEmit, id |-> -1, bins |-> 0]

Frame(p, k, t) == [pkt |-> p, k |-> k, by |-> t]

(* A variant that hands the text over last.                                *)
EncodeTextLast(p, t) == [i \in 1 .. p.bins + 1 |-> Frame(p, i % (p.bins + 1), t)]

(* accept and encode: a text frame (0), then the attachments.              *)
Encode(p, t) == [i \in 1 .. p.bins + 1 |-> Frame(p, i - 1, t)]

At(t, l) == pc[t] = l
Goto(t, l) == pc' = [pc EXCEPT ![t] = l]

-----------------------------------------------------------------------------
(* The server.                                                             *)

NoPartial == [pkt |-> NoPacket, by |-> Net, bufs |-> <<>>]

Complete(p) ==
  /\ decoded' = decoded \cup {p}
  /\ owed' = IF p.pkt.id >= 0 THEN owed \cup {p.pkt} ELSE owed

(* A text that announces attachments takes the place of a packet that is   *)
(* still waiting for its own.                                              *)
ReceiveText(f) ==
  LET p == [pkt |-> f.pkt, by |-> f.by, bufs |-> <<>>] IN
  IF f.pkt.bins = 0
    THEN Complete(p) /\ UNCHANGED <<partial, lost>>
    ELSE /\ partial' = p /\ UNCHANGED <<decoded, owed>>
         /\ lost' = IF partial.by # f.by THEN (lost \cup {partial.pkt.emit}) \ {NoEmit}
                                       ELSE lost

(* A variant that waits for one attachment too many.                       *)
ReceiveBinaryLate(f) ==
  LET p == [partial EXCEPT !.bufs = Append(@, f)] IN
  /\ UNCHANGED lost
  /\ IF partial = NoPartial            THEN UNCHANGED peerVars
     ELSE IF Len(p.bufs) <= p.pkt.bins THEN partial' = p /\ UNCHANGED <<decoded, owed>>
     ELSE Complete(p) /\ partial' = NoPartial

ReceiveBinary(f) ==
  LET p == [partial EXCEPT !.bufs = Append(@, f)] IN
  /\ UNCHANGED lost
  /\ IF partial = NoPartial           THEN UNCHANGED peerVars
     ELSE IF Len(p.bufs) < p.pkt.bins THEN partial' = p /\ UNCHANGED <<decoded, owed>>
     ELSE Complete(p) /\ partial' = NoPartial

Written(f) == IF f.k = 0 THEN ReceiveText(f) ELSE ReceiveBinary(f)
Forgone(f) == lost' = lost \cup {f.pkt.emit} /\ UNCHANGED peerVars

(* send_impl, on the network thread.  It looks at m_con_state, and only    *)
(* logs the error of a websocket that refuses the frame: because it is     *)
(* closing, or because a text is not UTF-8.                                *)
SendImpl(f) ==
  \/ open /\ writable /\ Written(f)
  \/ (~open \/ ~writable \/ f.k = 0) /\ Forgone(f)

-----------------------------------------------------------------------------
(* emit.                                                                   *)

(* A packet without a callback has the id -1 (the acknowledgement of an    *)
(* event of the server is such a packet too, with an id of the server's).  *)
(* With one, s_global_event_id is read ...                                 *)
Emit(t) ==
  /\ At(t, "idle") /\ calls < MaxCalls /\ calls' = calls + 1
  /\ \E bins \in 0..MaxBins :
       \/ /\ pkt' = [pkt EXCEPT ![t] = [emit |-> EmitOf(t, calls'), id |-> -1, bins |-> bins]]
          /\ Goto(t, "send")
       \/ /\ pkt' = [pkt EXCEPT ![t] =
                       [emit |-> EmitOf(t, calls'), id |-> nextId, bins |-> bins]]
          /\ Goto(t, "increment")
  /\ UNCHANGED <<nextId, acks, queue, ready, linkVars, frames, peerVars, ids, answered, lost>>

(* ... and, in a second step, written back increased.                      *)
Increment(t) ==
  /\ At(t, "increment")
  /\ nextId' = (pkt[t].id + 1) % (2 * MaxInt + 2)
  /\ pkt' = [pkt EXCEPT ![t].id = ToInt(@)]
  /\ ids' = [ids EXCEPT ![pkt[t].emit] = {ToInt(pkt[t].id)}]
  /\ Goto(t, "register")
  /\ UNCHANGED <<acks, queue, ready, linkVars, frames, peerVars, calls, answered, lost>>

(* m_acks[pack_id] = ack, under m_event_mutex and before the packet goes.  *)
Register(t) ==
  /\ At(t, "register")
  /\ acks' = [acks EXCEPT ![pkt[t].id] = pkt[t].emit]
  /\ Goto(t, "send")
  /\ UNCHANGED <<nextId, queue, ready, linkVars, pkt, frames, peerVars, calls, ids, answered, lost>>

(* send_packet: queued while the namespace is not connected; otherwise what*)
(* is queued is handed over first.                                         *)
SendPacket(t) ==
  /\ At(t, "send")
  /\ IF ~connected
       THEN /\ queue' = Append(queue, pkt[t])
            /\ Goto(t, "idle") /\ pkt' = [pkt EXCEPT ![t] = NoPacket]
            /\ UNCHANGED frames
       ELSE IF queue # <<>>
       THEN /\ frames' = [frames EXCEPT ![t] = Encode(Head(queue), t)]
            /\ queue' = Tail(queue)
            /\ Goto(t, "flush") /\ UNCHANGED pkt
       ELSE /\ frames' = [frames EXCEPT ![t] = Encode(pkt[t], t)]
            /\ Goto(t, "encode") /\ UNCHANGED <<pkt, queue>>
  /\ UNCHANGED <<nextId, acks, ready, linkVars, peerVars, calls, ids, answered, lost>>

(* on_encode: dispatch runs send_impl at once on the network thread, and   *)
(* posts it from any other.                                                *)
HandOver(t) ==
  /\ pc[t] \in {"flush", "encode", "drainSend"}
  /\ frames' = [frames EXCEPT ![t] = Tail(@)]
  /\ IF t = Net THEN SendImpl(Head(frames[t])) /\ UNCHANGED ready
                ELSE ready' = Append(ready, Head(frames[t])) /\ UNCHANGED <<peerVars, lost>>
  /\ IF Len(frames[t]) > 1 THEN UNCHANGED <<pc, pkt>>
     ELSE CASE pc[t] = "flush"     -> Goto(t, "send") /\ UNCHANGED pkt
            [] pc[t] = "drainSend" -> Goto(t, "drain") /\ UNCHANGED pkt
            [] OTHER -> Goto(t, "idle") /\ pkt' = [pkt EXCEPT ![t] = NoPacket]
  /\ UNCHANGED <<nextId, acks, queue, linkVars, calls, ids, answered>>

-----------------------------------------------------------------------------
(* The network thread, between two of its handlers.                        *)

RunSend ==
  /\ At(Net, "idle") /\ ready # <<>>
  /\ SendImpl(Head(ready)) /\ ready' = Tail(ready)
  /\ UNCHANGED <<nextId, acks, queue, linkVars, sendVars, calls, ids, answered>>

(* The websocket opens.                                                    *)
OnOpen ==
  /\ At(Net, "idle") /\ ~open /\ opens < MaxOpens
  /\ open' = TRUE /\ writable' = TRUE /\ opens' = opens + 1
  /\ UNCHANGED <<nextId, acks, connected, queue, ready, sendVars, peerVars, calls, ids,
                 answered, lost>>

(* The server confirms the namespace: on_connected empties the queue.      *)
OnConnected ==
  /\ At(Net, "idle") /\ writable /\ ~connected
  /\ connected' = TRUE /\ Goto(Net, "drain")
  /\ UNCHANGED <<nextId, acks, queue, ready, open, writable, opens, pkt, frames, peerVars, calls,
                 ids, answered, lost>>

Drain ==
  /\ At(Net, "drain")
  /\ IF queue = <<>>
       THEN Goto(Net, "idle") /\ UNCHANGED <<queue, frames>>
       ELSE /\ frames' = [frames EXCEPT ![Net] = Encode(Head(queue), Net)]
            /\ queue' = Tail(queue) /\ Goto(Net, "drainSend")
  /\ UNCHANGED <<nextId, acks, ready, linkVars, pkt, peerVars, calls, ids, answered, lost>>

Emitted(s) == {s[i].emit : i \in DOMAIN s}

(* Nothing passes any more: the server will not see the rest of a packet,  *)
(* nor the client an answer.                                               *)
CutOff == partial' = NoPartial /\ owed' = {}
AtPeer == {p.emit : p \in owed} \cup ({partial.pkt.emit} \ {NoEmit})

(* The websocket begins to close, at the server's close frame or at        *)
(* close_impl of a failed handshake (531): it refuses data frames and hands*)
(* none on.  m_con_state stays con_opened until it has closed.             *)
BeginClosing ==
  /\ At(Net, "idle") /\ writable /\ writable' = FALSE
  /\ CutOff /\ lost' = lost \cup AtPeer
  /\ UNCHANGED <<nextId, acks, connected, open, queue, ready, opens, sendVars, decoded, calls, ids,
                 answered>>

Lose(acksLeft, queueLeft) ==
  /\ At(Net, "idle") /\ open
  /\ open' = FALSE /\ connected' = FALSE /\ writable' = FALSE
  /\ CutOff /\ lost' = lost \cup AtPeer \cup (IF connected THEN Emitted(queue) ELSE {})
  /\ acks' = acksLeft /\ queue' = queueLeft
  /\ UNCHANGED <<nextId, ready, opens, sendVars, decoded, calls, ids, answered>>

(* Variants: one that forgets the callbacks with the connection, one that  *)
(* empties the queue of a socket that was not connected yet.               *)
OnCloseClears == Lose([i \in DOMAIN acks |-> NoEmit], IF connected THEN <<>> ELSE queue)
OnCloseEmpties == Lose(acks, <<>>)

(* The connection is lost: on_disconnect empties the queue of a connected  *)
(* socket.  m_acks stays.                                                  *)
OnClose == Lose(acks, IF connected THEN <<>> ELSE queue)

(* A variant that calls the callback where it is.                          *)
OnAckKeeps ==
  /\ At(Net, "idle") /\ connected /\ writable
  /\ \E p \in owed :
       /\ owed' = owed \ {p}
       /\ answered' = answered \cup {[of |-> p.emit, cb |-> acks[p.id]]}
  /\ UNCHANGED <<nextId, acks, queue, ready, linkVars, sendVars, partial, decoded, calls, ids,
                 lost>>

(* on_socketio_ack: the callback is taken out of m_acks, then called.      *)
OnAck ==
  /\ At(Net, "idle") /\ connected /\ writable
  /\ \E p \in owed :
       /\ owed' = owed \ {p}
       /\ answered' = answered \cup {[of |-> p.emit, cb |-> acks[p.id]]}
       /\ acks' = [acks EXCEPT ![p.id] = NoEmit]
  /\ UNCHANGED <<nextId, queue, ready, linkVars, sendVars, partial, decoded, calls, ids,
                 lost>>

-----------------------------------------------------------------------------
(* s_global_event_id is static, begins at 1 and outlives every client:     *)
(* this one may find it anywhere.                                          *)
Init ==
  /\ nextId \in UInt /\ acks = [i \in Ids |-> NoEmit]
  /\ connected = FALSE /\ open = FALSE /\ writable = FALSE /\ queue = <<>> /\ ready = <<>>
  /\ pc = [t \in Threads |-> "idle"] /\ pkt = [t \in Threads |-> NoPacket]
  /\ frames = [t \in Threads |-> <<>>] /\ opens = 0
  /\ partial = NoPartial /\ owed = {}
  /\ calls = 0 /\ ids = [e \in Emits |-> {}]
  /\ decoded = {} /\ answered = {} /\ lost = {}

Next ==
  \/ \E t \in Threads :
       Emit(t) \/ Increment(t) \/ Register(t) \/ SendPacket(t) \/ HandOver(t)
  \/ RunSend \/ OnOpen \/ OnConnected \/ Drain \/ BeginClosing \/ OnClose \/ OnAck

Spec == Init /\ [][Next]_vars
-----------------------------------------------------------------------------
(* What must hold.                                                         *)

PacketOK(p) == p.emit \in Emits \cup {NoEmit} /\ p.bins \in 0..MaxBins

TypeOK ==
  /\ nextId \in UInt /\ connected \in BOOLEAN /\ open \in BOOLEAN /\ writable \in BOOLEAN
  /\ (connected => open) /\ (writable => open) /\ calls \in 0..MaxCalls
  /\ \A i \in DOMAIN acks : acks[i] \in Emits \cup {NoEmit}
  /\ \A i \in DOMAIN queue : PacketOK(queue[i])
  /\ \A t \in Threads :
       /\ PacketOK(pkt[t])
       /\ pc[t] \in {"idle", "increment", "register", "send", "flush", "encode", "drain", "drainSend"}
       /\ (frames[t] # <<>>) <=> pc[t] \in {"flush", "encode", "drainSend"}
  /\ partial # NoPartial => Len(partial.bufs) < partial.pkt.bins
  /\ ~writable => partial = NoPartial /\ owed = {}
  /\ \A p \in owed : p.id \in Nat
  /\ lost \subseteq Emits

(* Another emit was given the id of e: s_global_event_id was read by two   *)
(* threads before either wrote it, or written back with an older value.    *)
SharesId(e) == \E f \in Emits \ {e} : ids[e] \cap ids[f] # {}

(* An answer of the server finds the callback of the very packet it        *)
(* answers, whatever was emitted, queued, lost and opened again meanwhile, *)
(* unless the unlocked s_global_event_id gave two packets one id.          *)
OwnCallback == \A a \in answered : a.cb = a.of \/ SharesId(a.of)

(* A callback is called once at most, even when two packets share its id.  *)
AtMostOnce ==
  \A a, b \in answered : a.cb = b.cb /\ a.cb # NoEmit => a = b

(* Where a packet is on its way to the server, or its answer on its way    *)
(* back.                                                                   *)
UnderWay(e) ==
  \/ \E t \in Threads : pkt[t].emit = e \/ \E i \in DOMAIN frames[t] : frames[t][i].pkt.emit = e
  \/ e \in Emitted(queue) \cup {p.emit : p \in owed} \cup {partial.pkt.emit}
  \/ \E i \in DOMAIN ready : ready[i].pkt.emit = e

(* No callback is forgotten in silence: its answer is still to come or was *)
(* given, a connection or another thread's frames took the packet away or  *)
(* the websocket refused it, which send_impl only logs, or its id was no   *)
(* use: negative, after s_global_event_id had passed the largest int.      *)
AwaitedOrLost ==
  \A e \in Emits :
    \A i \in ids[e] :
      \/ UnderWay(e) \/ e \in lost
      \/ \E a \in answered : a.of = e
      \/ i < 0

(* The server puts a packet together from other attachments than its own   *)
(* only when two threads hand over packets at a time: encode calls         *)
(* on_encode once for each frame, and holds no lock in between.  A         *)
(* reconnection in the middle of a packet never does it.                   *)
MixedOnlyAcrossThreads ==
  \A d \in decoded :
    \/ d.bufs = Tail(Encode(d.pkt, d.by))
    \/ \E k \in DOMAIN d.bufs : d.bufs[k].by # d.by
=============================================================================
