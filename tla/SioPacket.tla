------------------------------ MODULE SioPacket ------------------------------
(***************************************************************************)
(* The packet codec: packet::accept, which turns a packet into a text      *)
(* frame and one frame per binary attachment, packet::parse, which reads   *)
(* the text back, and packet_manager::put_payload, which puts a packet     *)
(* together again from the frames the websocket delivers, in order, with   *)
(* pings in between and connections that are lost half-way.                *)
(*                                                                         *)
(* A text is a sequence of tokens, one for each field the parser looks     *)
(* for; the JSON of the message is one token.  How a message is written as *)
(* JSON and read back is left to the instance: SioJson is the code's.  The *)
(* server writes frames as accept does.                                    *)
(***************************************************************************)
EXTENDS SioMessage

CONSTANTS
  WriteMessage(_, _),  \* accept_message: the JSON of a message and its attachments
  ReadMessage(_, _),   \* from_json: the message of a JSON and attachments
  Namespaces,  \* the namespaces that have a socket, without the root
  MaxBins,     \* bound: attachments of a packet
  MaxPackets,  \* bound: packets the server sends
  MaxOpens     \* bound: connections

Root == "/"

ASSUME PacketAssumption ==
  /\ Root \notin Namespaces /\ "" \notin Namespaces
  /\ MaxBins \in Nat \ {0} /\ MaxPackets \in Nat /\ MaxOpens \in Nat \ {0}

VARIABLES
  partial,   \* m_partial_packet
  sending,   \* frames of the packet being received that are still to come
  opens,     \* number of the connection
  sent,      \* history: the packets the server sent, each with its connection
  complete,  \* history: the packets all frames of which were received
  due,       \* history: those of them put_payload can tell the attachments of
  decoded    \* history: message packets on_decode gave to a socket

vars == <<partial, sending, opens, sent, complete, due, decoded>>

-----------------------------------------------------------------------------
(* Packets.                                                                *)

(* The first byte of an attachment, which put_payload looks at: the byte 4,*)
(* the digit 4 or another one.  Left out: the digits that make it a frame  *)
(* of the engine (open, close, ping), and a digit 4 followed by the digit  *)
(* of a type.                                                              *)
FirstByte == {"byte4", "digit4", "other"}

Bins == BoundedSeq(FirstByte, MaxBins)
Ids == {-1, 0}

(* Two shapes of message: all in one array, or an object with the          *)
(* attachments deeper in one of its members.                               *)
Shapes == {"list", "record"}

Packet ==
  [type : {"event"}, nsp : Namespaces \cup {Root}, id : Ids, msg : Shapes, bins : Bins]
    \cup [type : {"ack"}, nsp : Namespaces \cup {Root}, id : Ids \ {-1}, msg : Shapes, bins : Bins]
    \cup [type : {"connect"}, nsp : Namespaces \cup {Root}, id : {-1}, msg : Shapes \cup {"none"},
          bins : {<<>>}]
    \cup [type : {"disconnect"}, nsp : Namespaces \cup {Root}, id : {-1}, msg : {"none"}, bins : {<<>>}]

BinaryType == [event |-> "binary_event", ack |-> "binary_ack"]
Types == {"connect", "disconnect", "event", "ack", "error", "binary_event", "binary_ack"}
BinaryTypes == {"binary_event", "binary_ack"}

(* The message of packet n, with the number of the packet and another      *)
(* number in it; attachment k is <<n, k>>.                                 *)
Tree(n, p, number) ==
  LET attachments == [k \in DOMAIN p.bins |-> Message("binary", <<n, k>>)]
      tag == Message("int", n)
  IN CASE p.msg = "list"   -> Message("array", <<tag, number>> \o attachments)
       [] p.msg = "record" -> Message("object", [a |-> Message("array", attachments), b |-> tag])
       [] p.msg = "none"   -> NullPtr

-----------------------------------------------------------------------------
(* accept and encode.                                                      *)

Token(kind, v) == [is |-> kind, v |-> v]

If(test, tokens) == IF test THEN tokens ELSE <<>>

(* The JSON and the attachments of packet p, the n-th one sent.            *)
Accepted(p, n) ==
  IF p.msg = "none" THEN [json |-> NullPtr, bufs |-> <<>>]
                    ELSE WriteMessage(Tree(n, p, Message("big", 0)), <<>>)

(* What is needed of the JSON: the attachments are set aside in order, and *)
(* reading the tree with them gives the message again.  Only a number that *)
(* needs a uint64 comes as a null pointer.                                 *)
ASSUME JsonAssumption ==
  \A n \in 1..MaxPackets, p \in Packet :
    /\ Accepted(p, n).bufs = [k \in DOMAIN p.bins |-> <<n, k>>]
    /\ p.msg # "none" => Accepted(p, n).json # NullPtr
    /\ p.msg # "none" =>
         ReadMessage(Accepted(p, n).json, Accepted(p, n).bufs) = Tree(n, p, NullPtr)

(* The type on the wire: binary if the message has attachments.            *)
WireType(p, bufs) == IF bufs = <<>> THEN p.type ELSE BinaryType[p.type]

(* The text of packet p, the n-th one sent.                                *)
Accept(p, n) ==
  LET a == Accepted(p, n)
      hasMessage == p.msg # "none"
  IN <<Token("frame", "message"), Token("type", WireType(p, a.bufs))>>
       \o If(a.bufs # <<>>, <<Token("num", Len(a.bufs)), Token("dash", 0)>>)
       \o If(p.nsp # Root,
             <<Token("nsp", p.nsp)>> \o If(hasMessage \/ p.id >= 0, <<Token("comma", 0)>>))
       \o If(p.id >= 0, <<Token("num", p.id)>>)
       \o If(hasMessage, <<Token("json", a.json)>>)

(* What an attachment looks like to who takes it for a text: the frame and *)
(* type that make on_decode ignore it.  The code parses the rest as well;  *)
(* left out is what stoi or stoul do to bytes that are no number: they     *)
(* throw, and nothing on the network thread catches that.                  *)
Misread(first) ==
  IF first = "digit4" THEN <<Token("frame", "message"), Token("type", "none")>>
                      ELSE <<Token("frame", "none")>>

Encode(p, n) ==
  <<[first |-> "digit4", text |-> Accept(p, n), buf |-> <<n, 0>>]>>
    \o [k \in DOMAIN p.bins |->
          [first |-> p.bins[k], text |-> Misread(p.bins[k]), buf |-> Accepted(p, n).bufs[k]]]

PingFrame == [first |-> "other", text |-> <<Token("frame", "ping")>>, buf |-> <<0, 0>>]

-----------------------------------------------------------------------------
(* parse.                                                                  *)

(* find_first_of: the first token of one of the kinds, from pos on; or 0.  *)
Find(text, pos, kinds) ==
  LET found == {i \in pos .. Len(text) : text[i].is \in kinds}
  IN IF found = {} THEN 0 ELSE Min(found)

Parsed(frame, type, nsp, id, msg, pending) ==
  [frame |-> frame, type |-> type, nsp |-> nsp, id |-> id, msg |-> msg,
   pending |-> pending, bufs |-> <<>>]

NoPacket == Parsed("none", "none", "", -1, NullPtr, 0)

(* Where parse goes on after the frame, the type and, for the binary types,*)
(* the number of attachments.                                              *)
Body(text, type) ==
  CASE text[1].v # "message" -> 2
    [] type \in BinaryTypes  -> Find(text, 3, {"dash"}) + 1
    [] OTHER                 -> 3

(* The JSON of a binary type is kept as it is until the attachments are    *)
(* there.                                                                  *)
MessageOf(json, type) == IF type \in BinaryTypes THEN json ELSE ReadMessage(json, <<>>)

(* The namespace, if there is one, ends at the first comma; what stands    *)
(* between it and the JSON is the packet id.                               *)
ParseBody(text, type, pos) ==
  LET start == Find(text, pos, {"nsp", "json"})
      named == start # 0 /\ text[start].is = "nsp"
      comma == Find(text, 1, {"comma"})
      from  == IF named THEN comma + 1 ELSE pos
      json  == IF start = 0 \/ (named /\ comma = 0) THEN 0 ELSE Find(text, from, {"json"})
  IN Parsed(text[1].v, type,
            IF named THEN text[start].v ELSE Root,
            IF json # 0 /\ from < json THEN text[from].v ELSE -1,
            IF json = 0 THEN NullPtr ELSE MessageOf(text[json].v, type),
            IF type \in BinaryTypes THEN text[3].v ELSE 0)

(* A message of an unknown type is given up before its namespace is read.  *)
Parse(text) ==
  LET type == IF text[1].v = "message" THEN text[2].v ELSE "none"
  IN IF text[1].v = "message" /\ type \notin Types
       THEN Parsed("message", type, "", -1, NullPtr, 0)
       ELSE ParseBody(text, type, Body(text, type))

(* parse returns true: the message is kept until its attachments arrive.   *)
NeedsBuffers(p) == p.type \in BinaryTypes /\ p.msg # NullPtr

-----------------------------------------------------------------------------
(* put_payload, for one frame f.                                           *)

(* client_impl::on_decode: a message goes to the socket of its namespace.  *)
Decode(p) ==
  decoded' =
    IF p.frame = "message" /\ p.nsp \in Namespaces \cup {Root}
      THEN Append(decoded, [type |-> p.type, nsp |-> p.nsp, id |-> p.id, msg |-> p.msg])
      ELSE decoded

PutText(f) ==
  /\ f.first = "digit4"
  /\ LET p == Parse(f.text) IN
       IF NeedsBuffers(p) THEN partial' = p /\ UNCHANGED decoded
                          ELSE Decode(p) /\ UNCHANGED partial

(* All attachments are there: the JSON is read.                            *)
Filled(p) == [p EXCEPT !.msg = ReadMessage(@, p.bufs)]

(* A variant that counts after it has tested.                              *)
ParseBufferLate(p, buf) ==
  LET q == [p EXCEPT !.bufs = Append(@, buf), !.pending = @ - 1]
  IN IF p.pending > 0 THEN partial' = q /\ UNCHANGED decoded
                      ELSE Decode(Filled(q)) /\ partial' = NoPacket

(* parse_buffer: one attachment less to wait for; with the last one the    *)
(* packet is decoded.                                                      *)
ParseBuffer(p, buf) ==
  LET q == [p EXCEPT !.bufs = Append(@, buf), !.pending = @ - 1]
  IN IF q.pending > 0 THEN partial' = q /\ UNCHANGED decoded
                      ELSE Decode(Filled(q)) /\ partial' = NoPacket

PutBinary(f) ==
  /\ f.first = "byte4"
  /\ IF partial # NoPacket THEN ParseBuffer(partial, f.buf)
                           ELSE UNCHANGED <<partial, decoded>>

(* A variant that gives up a packet that another frame interrupts.         *)
PutOtherResets(f) ==
  /\ f.first = "other"
  /\ Decode(Parse(f.text))
  /\ partial' = NoPacket

PutOther(f) ==
  /\ f.first = "other"
  /\ Decode(Parse(f.text))
  /\ UNCHANGED partial

(* put_payload takes the attachments of packet n for what they are: they   *)
(* all begin with the byte 4.                                              *)
Marked(n) == \A k \in DOMAIN sent[n].packet.bins : sent[n].packet.bins[k] = "byte4"

PutPayload(f) == PutText(f) \/ PutBinary(f) \/ PutOther(f)

-----------------------------------------------------------------------------
Init ==
  /\ partial = NoPacket /\ sending = <<>> /\ opens = 1
  /\ sent = <<>> /\ complete = <<>> /\ due = <<>> /\ decoded = <<>>

(* The server sends a packet: frame by frame, one packet after the other.  *)
Send ==
  /\ sending = <<>> /\ Len(sent) < MaxPackets
  /\ \E p \in Packet :
       /\ sent' = Append(sent, [packet |-> p, on |-> opens])
       /\ sending' = Encode(p, Len(sent) + 1)
  /\ UNCHANGED <<partial, opens, complete, due, decoded>>

Receive ==
  /\ sending # <<>>
  /\ PutPayload(Head(sending))
  /\ sending' = Tail(sending)
  /\ complete' = IF Len(sending) = 1 THEN Append(complete, Len(sent)) ELSE complete
  /\ due' = IF Len(sending) = 1 /\ Marked(Len(sent)) THEN Append(due, Len(sent)) ELSE due
  /\ UNCHANGED <<opens, sent>>

(* A ping may come between any two frames.                                 *)
ReceivePing ==
  /\ PutPayload(PingFrame)
  /\ UNCHANGED <<sending, opens, sent, complete, due>>

(* A variant that keeps the packet manager as it is.                       *)
ReconnectUnreset ==
  /\ opens < MaxOpens
  /\ opens' = opens + 1 /\ sending' = <<>>
  /\ UNCHANGED <<partial, sent, complete, due, decoded>>

(* The connection is lost, and another one made: reset_states has the      *)
(* packet manager forget the packet it was receiving.                      *)
Reconnect ==
  /\ opens < MaxOpens
  /\ opens' = opens + 1 /\ sending' = <<>>
  /\ partial' = NoPacket
  /\ UNCHANGED <<sent, complete, due, decoded>>

Next == Send \/ Receive \/ ReceivePing \/ Reconnect

Spec == Init /\ [][Next]_vars

-----------------------------------------------------------------------------
(* What must hold.                                                         *)

TypeOK ==
  /\ opens \in 1..MaxOpens
  /\ Len(sent) <= MaxPackets /\ Len(sending) <= MaxBins + 1
  /\ partial # NoPacket =>
       partial.type \in BinaryTypes /\ partial.pending \in 1..MaxBins
  /\ \A i \in DOMAIN complete : complete[i] \in DOMAIN sent

(* What a socket must be given for the n-th packet sent.                   *)
Original(n) ==
  LET p == sent[n].packet IN
  [type |-> WireType(p, p.bins), nsp |-> p.nsp, id |-> p.id, msg |-> Tree(n, p, NullPtr)]

(* parse undoes accept, and put_payload puts a packet together from its    *)
(* own frames: the sockets are given every packet that arrived whole and   *)
(* whose attachments all begin with the byte 4, in order, with its type,   *)
(* namespace, id, message and attachments, and nothing else, whatever      *)
(* pings, odd attachments and lost connections come in between.  Only a    *)
(* number that needs a uint64 comes as a null pointer.                     *)
DecodesExactly == decoded = [i \in DOMAIN due |-> Original(due[i])]

(* A packet begun on a lost connection is not waited for on the next one.  *)
PartialIsCurrent ==
  partial # NoPacket =>
    \E n \in DOMAIN sent :
      sent[n].on = opens /\ partial.msg = Accepted(sent[n].packet, n).json

(* A comment of parse says that a message with attachments is parsed later,*)
(* when all buffers are arrived.                                           *)
ParsedWhenArrived == Len(decoded) = Len(complete)
=============================================================================
