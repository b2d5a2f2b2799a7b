--------------------------- MODULE SioPacketProofs ---------------------------
(***************************************************************************)
(* What SioPacket's runs check on small instances, for every number of     *)
(* packets, attachments and connections, every set of namespaces, and      *)
(* every way of writing messages as JSON that JsonAssumption allows.       *)
(*                                                                         *)
(* First, parse undoes accept: the fields of a text are laid out one after *)
(* the other, so that what find_first_of finds is the field the text has.  *)
(* Then, what put_payload does with each frame of a packet.  Then the      *)
(* invariant: what is still to come is the end of the last packet, and the *)
(* partial packet holds what has come of it.                               *)
(***************************************************************************)
EXTENDS SioPacket, SequenceTheorems, TLAPS

-----------------------------------------------------------------------------
(* What Find finds.                                                        *)

(* The parts of PacketAssumption that are about numbers.                   *)
LEMMA Bounds ==
  /\ MaxBins \in Nat \ {0} /\ MaxPackets \in Nat /\ MaxOpens \in Nat \ {0}
BY PacketAssumption, Zenon

(* i is the first place from pos on that holds a token of these kinds.     *)
IsFirst(text, pos, kinds, i) ==
  /\ Len(text) \in Nat /\ pos \in Nat
  /\ i \in pos .. Len(text) /\ text[i].is \in kinds
  /\ \A j \in pos .. i - 1 : text[j].is \notin kinds

(* Find finds the first such token.                                        *)
LEMMA FindIs ==
  ASSUME NEW text, NEW pos, NEW kinds, NEW i, IsFirst(text, pos, kinds, i)
  PROVE  Find(text, pos, kinds) = i
<1> USE DEF IsFirst
<1> DEFINE found == {j \in pos .. Len(text) : text[j].is \in kinds}
<1>1. i \in found /\ \A j \in found : j \in Int /\ i <= j
  OBVIOUS
<1>2. Min(found) \in found /\ \A j \in found : Min(found) <= j
  BY <1>1 DEF Min
<1>3. Min(found) = i
  BY <1>1, <1>2
<1> QED
  BY <1>1, <1>3 DEF Find

(* Where there is none, Find returns 0.                                    *)
LEMMA FindNone ==
  ASSUME NEW text, Len(text) \in Nat, NEW pos \in Nat, NEW kinds,
         \A j \in pos .. Len(text) : text[j].is \notin kinds
  PROVE  Find(text, pos, kinds) = 0
<1>1. {j \in pos .. Len(text) : text[j].is \in kinds} = {}
  OBVIOUS
<1> QED
  BY <1>1 DEF Find

-----------------------------------------------------------------------------
(* How a row of sequences is laid out.                                     *)

LEMMA Pair ==
  ASSUME NEW S, NEW x \in S, NEW y \in S
  PROVE  <<x, y>> \in Seq(S) /\ Len(<<x, y>>) = 2 /\ <<x, y>>[1] = x /\ <<x, y>>[2] = y
  OBVIOUS

LEMMA Single ==
  ASSUME NEW S, NEW x \in S
  PROVE  <<x>> \in Seq(S) /\ Len(<<x>>) = 1 /\ <<x>>[1] = x
  OBVIOUS

(* A field of two tokens, or of one, that is written if the test holds.    *)
LEMMA IfPair ==
  ASSUME NEW S, NEW x \in S, NEW y \in S, NEW test
  PROVE  /\ If(test, <<x, y>>) \in Seq(S)
         /\ Len(If(test, <<x, y>>)) = IF test THEN 2 ELSE 0
         /\ test => If(test, <<x, y>>)[1] = x /\ If(test, <<x, y>>)[2] = y
  BY DEF If

LEMMA IfSingle ==
  ASSUME NEW S, NEW x \in S, NEW test
  PROVE  /\ If(test, <<x>>) \in Seq(S)
         /\ Len(If(test, <<x>>)) = IF test THEN 1 ELSE 0
         /\ test => If(test, <<x>>)[1] = x
  BY DEF If

(* Concatenation as an operator of its own, which the solvers leave alone. *)
Cat(r, s) == r \o s

(* Five fields in a row.                                                   *)
Row(a, b, c, e, f) == Cat(Cat(Cat(Cat(a, b), c), e), f)

(* The tokens of the fields stand in the text at the fields' places.       *)
Laid(text, a, b, c, e, f, h, m, k) ==
  /\ Len(text) = k + Len(f)
  /\ text[1] = a[1] /\ text[2] = a[2]
  /\ h = 4 => text[3] = b[1] /\ text[4] = b[2]
  /\ m > h => text[h + 1] = c[1]
  /\ m = h + 2 => text[h + 2] = c[2]
  /\ k = m + 1 => text[k] = e[1]
  /\ Len(f) = 1 => text[k + 1] = f[1]

(* The header (a and b) ends at h, the namespace (c) at m, the id (e) at k.*)
Ends(a, b, c, e, f, h, m, k) ==
  /\ h \in {2, 4} /\ m \in h .. h + 2 /\ k \in m .. m + 1
  /\ Len(a) = 2 /\ Len(b) = h - 2 /\ Len(c) = m - h /\ Len(e) = k - m /\ Len(f) \in 0 .. 1

LEMMA CatJoins ==
  ASSUME NEW S, NEW r \in Seq(S), NEW s \in Seq(S)
  PROVE  /\ Cat(r, s) \in Seq(S)
         /\ Len(Cat(r, s)) = Len(r) + Len(s)
         /\ \A i \in 1 .. Len(r) : Cat(r, s)[i] = r[i]
         /\ \A i \in Len(r) + 1 .. Len(r) + Len(s) : Cat(r, s)[i] = s[i - Len(r)]
  BY DEF Cat

(* Where each field of a row begins.                                       *)
LEMMA FieldLayout ==
  ASSUME NEW S, NEW a \in Seq(S), NEW b \in Seq(S), NEW c \in Seq(S),
         NEW e \in Seq(S), NEW f \in Seq(S),
         NEW h, NEW m, NEW k, Ends(a, b, c, e, f, h, m, k),
         NEW text, text = Row(a, b, c, e, f)
  PROVE  Laid(text, a, b, c, e, f, h, m, k)
<1>1. /\ h \in Nat /\ m \in Nat /\ k \in Nat
      /\ h = Len(a) + Len(b) /\ m = h + Len(c) /\ k = m + Len(e)
  BY DEF Ends
<1> DEFINE Joins(r, s) ==
             /\ Cat(r, s) \in Seq(S)
             /\ Len(Cat(r, s)) = Len(r) + Len(s)
             /\ \A i \in 1 .. Len(r) : Cat(r, s)[i] = r[i]
             /\ \A i \in Len(r) + 1 .. Len(r) + Len(s) : Cat(r, s)[i] = s[i - Len(r)]
<1> USE DEF Ends
<1>2. PICK ab : ab = Cat(a, b)
  OBVIOUS
<1>3. PICK abc : abc = Cat(ab, c)
  OBVIOUS
<1>4. PICK abce : abce = Cat(abc, e)
  OBVIOUS
<1>5. text = Cat(abce, f)
  BY <1>2, <1>3, <1>4 DEF Row
<1>6. ab \in Seq(S)
  BY <1>2, CatJoins, Zenon
<1>7. abc \in Seq(S)
  BY <1>3, <1>6, CatJoins, Zenon
<1>8. abce \in Seq(S)
  BY <1>4, <1>7, CatJoins, Zenon
<1>9. Joins(a, b)
  BY CatJoins, Zenon
<1>10. Joins(ab, c)
  BY <1>6, CatJoins, Zenon
<1>11. Joins(abc, e)
  BY <1>7, CatJoins, Zenon
<1>12. Joins(abce, f)
  BY <1>8, CatJoins, Zenon
<1>13. Len(ab) = h /\ Len(abc) = m /\ Len(abce) = k /\ Len(text) = k + Len(f)
  <2>1. Len(ab) = Len(a) + Len(b)
    BY <1>2, <1>9
  <2>2. Len(abc) = Len(ab) + Len(c)
    BY <1>3, <1>10
  <2>3. Len(abce) = Len(abc) + Len(e)
    BY <1>4, <1>11
  <2>4. Len(text) = Len(abce) + Len(f)
    BY <1>5, <1>12
  <2> QED
    BY <1>1, <2>1, <2>2, <2>3, <2>4
<1>14. /\ \A i \in 1 .. Len(a) : ab[i] = a[i]
       /\ \A i \in Len(a) + 1 .. h : ab[i] = b[i - Len(a)]
  BY <1>2, <1>9
<1>15. /\ \A i \in 1 .. h : abc[i] = ab[i]
       /\ \A i \in h + 1 .. m : abc[i] = c[i - h]
  BY <1>3, <1>10, <1>13
<1>16. /\ \A i \in 1 .. m : abce[i] = abc[i]
       /\ \A i \in m + 1 .. k : abce[i] = e[i - m]
  BY <1>4, <1>11, <1>13
<1>17. /\ \A i \in 1 .. k : text[i] = abce[i]
       /\ \A i \in k + 1 .. k + Len(f) : text[i] = f[i - k]
  BY <1>5, <1>12, <1>13
<1> HIDE DEF Joins
<1>18. Len(a) \in Nat /\ Len(b) \in Nat /\ Len(c) \in Nat /\ Len(e) \in Nat
  OBVIOUS
<1>19. \A i \in 1 .. h : text[i] = ab[i]
  BY <1>15, <1>16, <1>17, <1>18
<1>20. \A i \in 1 .. Len(a) : text[i] = a[i]
  BY <1>14, <1>18, <1>19
<1>21. \A i \in Len(a) + 1 .. h : text[i] = b[i - Len(a)]
  BY <1>14, <1>18, <1>19, <1>1
<1>22. \A i \in h + 1 .. m : text[i] = c[i - h]
  BY <1>15, <1>16, <1>17, <1>18, <1>1
<1>23. \A i \in m + 1 .. k : text[i] = e[i - m]
  BY <1>16, <1>17, <1>18
<1>24. text[1] = a[1] /\ text[2] = a[2]
  BY <1>20
<1>25. h = 4 => text[3] = b[1] /\ text[4] = b[2]
  BY <1>21
<1>26. m > h => text[h + 1] = c[1]
  BY <1>22
<1>27. m = h + 2 => text[h + 2] = c[2]
  BY <1>22
<1>28. k = m + 1 => text[k] = e[1]
  BY <1>23
<1>29. Len(f) = 1 => text[k + 1] = f[1]
  BY <1>17
<1> QED
  BY <1>13, <1>24, <1>25, <1>26, <1>27, <1>28, <1>29 DEF Laid

-----------------------------------------------------------------------------
(* parse undoes accept.                                                    *)

(* The attachments that accept sets aside.                                 *)
Bufs(p, n) == Accepted(p, n).bufs

(* Where the header, the namespace and the id end in the text of a packet. *)
HeaderEnd(p, n) == IF Bufs(p, n) # <<>> THEN 4 ELSE 2

NamespaceEnd(p, n) ==
  HeaderEnd(p, n)
    + (IF p.nsp # Root THEN (IF p.msg # "none" \/ p.id >= 0 THEN 2 ELSE 1) ELSE 0)

IdEnd(p, n) == NamespaceEnd(p, n) + (IF p.id >= 0 THEN 1 ELSE 0)

(* The text holds each field of the packet at its place, and nothing else. *)
TextOf(text, p, n) ==
  /\ Len(text) = IdEnd(p, n) + (IF p.msg # "none" THEN 1 ELSE 0)
  /\ text[1] = Token("frame", "message")
  /\ text[2] = Token("type", WireType(p, Bufs(p, n)))
  /\ Bufs(p, n) # <<>> =>
       text[3] = Token("num", Len(Bufs(p, n))) /\ text[4] = Token("dash", 0)
  /\ p.nsp # Root => text[HeaderEnd(p, n) + 1] = Token("nsp", p.nsp)
  /\ p.nsp # Root /\ (p.msg # "none" \/ p.id >= 0) =>
       text[HeaderEnd(p, n) + 2] = Token("comma", 0)
  /\ p.id >= 0 => text[NamespaceEnd(p, n) + 1] = Token("num", p.id)
  /\ p.msg # "none" => text[IdEnd(p, n) + 1] = Token("json", Accepted(p, n).json)

(* That is the text accept writes.                                         *)
LEMMA AcceptWrites ==
  ASSUME NEW n, NEW p
  PROVE  TextOf(Accept(p, n), p, n)
<1>1. PICK frame : frame = Token("frame", "message")
  OBVIOUS
<1>2. PICK type : type = Token("type", WireType(p, Bufs(p, n)))
  OBVIOUS
<1>3. PICK number : number = Token("num", Len(Bufs(p, n)))
  OBVIOUS
<1>4. PICK dash : dash = Token("dash", 0)
  OBVIOUS
<1>5. PICK nsp : nsp = Token("nsp", p.nsp)
  OBVIOUS
<1>6. PICK comma : comma = Token("comma", 0)
  OBVIOUS
<1>7. PICK id : id = Token("num", p.id)
  OBVIOUS
<1>8. PICK json : json = Token("json", Accepted(p, n).json)
  OBVIOUS
<1>9. PICK binary \in BOOLEAN : binary <=> Bufs(p, n) # <<>>
  OBVIOUS
<1>10. PICK named \in BOOLEAN : named <=> p.nsp # Root
  OBVIOUS
<1>11. PICK more \in BOOLEAN : more <=> (p.msg # "none" \/ p.id >= 0)
  OBVIOUS
<1>12. PICK numbered \in BOOLEAN : numbered <=> p.id >= 0
  OBVIOUS
<1>13. PICK told \in BOOLEAN : told <=> p.msg # "none"
  OBVIOUS
<1>14. PICK S : S = {frame, type, number, dash, nsp, comma, id, json}
  OBVIOUS
<1>15. /\ frame \in S /\ type \in S /\ number \in S /\ dash \in S
       /\ nsp \in S /\ comma \in S /\ id \in S /\ json \in S
  BY <1>14
<1>16. PICK h : h = HeaderEnd(p, n)
  OBVIOUS
<1>17. PICK m : m = NamespaceEnd(p, n)
  OBVIOUS
<1>18. PICK k : k = IdEnd(p, n)
  OBVIOUS
<1>19. /\ h = (IF binary THEN 4 ELSE 2)
       /\ m = h + (IF named THEN (IF more THEN 2 ELSE 1) ELSE 0)
       /\ k = m + (IF numbered THEN 1 ELSE 0)
  BY <1>9, <1>10, <1>11, <1>12, <1>16, <1>17, <1>18 DEF HeaderEnd, NamespaceEnd, IdEnd
<1>20. PICK text : text = <<frame, type>> \o If(binary, <<number, dash>>)
                            \o If(named, <<nsp>> \o If(more, <<comma>>))
                            \o If(numbered, <<id>>) \o If(told, <<json>>)
  OBVIOUS
<1>21. /\ Len(text) = k + (IF told THEN 1 ELSE 0)
       /\ text[1] = frame /\ text[2] = type
       /\ binary => text[3] = number /\ text[4] = dash
       /\ named => text[h + 1] = nsp
       /\ named /\ more => text[h + 2] = comma
       /\ numbered => text[m + 1] = id
       /\ told => text[k + 1] = json
  <2>1. PICK a : a = <<frame, type>>
    OBVIOUS
  <2>2. PICK b : b = If(binary, <<number, dash>>)
    OBVIOUS
  <2>3. PICK d : d = If(more, <<comma>>)
    OBVIOUS
  <2>4. PICK name : name = <<nsp>>
    OBVIOUS
  <2>5. PICK nd : nd = Cat(name, d)
    OBVIOUS
  <2>6. PICK c : c = If(named, nd)
    OBVIOUS
  <2>7. PICK e : e = If(numbered, <<id>>)
    OBVIOUS
  <2>8. PICK f : f = If(told, <<json>>)
    OBVIOUS
  <2>9. text = Row(a, b, c, e, f)
    BY <2>4, <2>1, <2>2, <2>3, <2>5, <2>6, <2>7, <2>8, <1>20, Zenon DEF Cat, Row
  <2>10. a \in Seq(S) /\ Len(a) = 2 /\ a[1] = frame /\ a[2] = type
    BY <1>15, <2>1, Pair
  <2>11. /\ b \in Seq(S) /\ Len(b) = h - 2
         /\ binary => b[1] = number /\ b[2] = dash
    BY <1>15, <1>19, <2>2, IfPair
  <2>12. /\ d \in Seq(S) /\ Len(d) = (IF more THEN 1 ELSE 0)
         /\ more => d[1] = comma
    BY <1>15, <2>3, IfSingle
  <2>13. name \in Seq(S) /\ Len(name) = 1 /\ name[1] = nsp
    BY <1>15, <2>4, Single
  <2>14. /\ nd \in Seq(S) /\ Len(nd) = 1 + Len(d)
         /\ nd[1] = nsp /\ (more => nd[2] = comma)
    <3>1. d \in Seq(S)
      BY <2>12
    <3>2. /\ nd \in Seq(S) /\ Len(nd) = Len(name) + Len(d)
          /\ \A i \in 1 .. Len(name) : nd[i] = name[i]
          /\ \A i \in Len(name) + 1 .. Len(name) + Len(d) : nd[i] = d[i - Len(name)]
      BY <2>5, <2>13, <3>1, CatJoins, Zenon
    <3>3. nd[1] = nsp
      BY <2>13, <3>2
    <3>4. more => nd[2] = comma
      BY <2>12, <2>13, <3>2
    <3> QED
      BY <2>13, <3>2, <3>3, <3>4
  <2>15. /\ c \in Seq(S) /\ Len(c) = m - h
         /\ named => c[1] = nsp /\ (more => c[2] = comma)
    <3>1. CASE named
      <4>1. c = nd
        BY <2>6, <3>1 DEF If
      <4> QED
        BY <1>19, <2>12, <2>14, <3>1, <4>1
    <3>2. CASE ~named
      <4>1. c = <<>>
        BY <2>6, <3>2 DEF If
      <4> QED
        BY <1>19, <3>2, <4>1
    <3> QED
      BY <3>1, <3>2
  <2>16. /\ e \in Seq(S) /\ Len(e) = k - m
         /\ numbered => e[1] = id
    BY <1>15, <1>19, <2>7, IfSingle
  <2>17. /\ f \in Seq(S) /\ Len(f) = (IF told THEN 1 ELSE 0)
         /\ told => f[1] = json
    BY <1>15, <2>8, IfSingle
  <2>18. h \in {2, 4} /\ m \in h .. h + 2 /\ k \in m .. m + 1 /\ Len(f) \in 0 .. 1
    BY <1>19, <2>17
  <2>19. /\ a \in Seq(S) /\ b \in Seq(S) /\ c \in Seq(S) /\ e \in Seq(S) /\ f \in Seq(S)
         /\ Ends(a, b, c, e, f, h, m, k)
    BY <2>10, <2>11, <2>15, <2>16, <2>17, <2>18 DEF Ends
  <2>20. Laid(text, a, b, c, e, f, h, m, k)
    BY <2>9, <2>19, FieldLayout, Zenon
  <2>21. Len(text) = k + (IF told THEN 1 ELSE 0)
    BY <2>17, <2>20 DEF Laid
  <2>22. text[1] = frame /\ text[2] = type
    BY <2>10, <2>20 DEF Laid
  <2>23. binary => text[3] = number /\ text[4] = dash
    BY <1>19, <2>11, <2>20 DEF Laid
  <2>24. named => text[h + 1] = nsp
    BY <1>19, <2>15, <2>18, <2>20 DEF Laid
  <2>25. named /\ more => text[h + 2] = comma
    BY <1>19, <2>15, <2>18, <2>20 DEF Laid
  <2>26. numbered => text[m + 1] = id
    BY <1>19, <2>16, <2>18, <2>20 DEF Laid
  <2>27. told => text[k + 1] = json
    BY <2>17, <2>20 DEF Laid
  <2> QED
    BY <2>21, <2>22, <2>23, <2>24, <2>25, <2>26, <2>27, Zenon
<1>22. Accept(p, n) = text
  BY <1>1, <1>2, <1>3, <1>4, <1>5, <1>6, <1>7, <1>8, <1>9, <1>10, <1>11, <1>12, <1>13, <1>20
  DEF Accept, Bufs, If
<1>23. TextOf(text, p, n)
  BY <1>1, <1>2, <1>3, <1>4, <1>5, <1>6, <1>7, <1>8, <1>9, <1>10, <1>11, <1>12, <1>13,
     <1>16, <1>17, <1>18, <1>21, Zenon DEF TextOf
<1> QED
  BY <1>22, <1>23

(* What parse must make of that text.                                      *)
Reading(p, n) ==
  Parsed("message", WireType(p, Bufs(p, n)), p.nsp, p.id,
         IF p.msg = "none" THEN NullPtr
                           ELSE MessageOf(Accepted(p, n).json, WireType(p, Bufs(p, n))),
         Len(Bufs(p, n)))

(* What every packet is: no attachments or id without a message, ...       *)
LEMMA PacketFields ==
  ASSUME NEW p \in Packet
  PROVE  /\ p.bins \in Seq(FirstByte) /\ Len(p.bins) \in 0 .. MaxBins
         /\ p.id \in Ids /\ p.nsp \in Namespaces \cup {Root}
         /\ p.msg = "none" => p.bins = <<>> /\ p.id = -1
         /\ p.type \in {"event", "ack", "connect", "disconnect"}
         /\ p.bins # <<>> => p.type \in {"event", "ack"}
<1>1. MaxBins \in Nat
  BY Bounds
<1>2. <<>> \in Bins
  <2>1. 0 \in 0 .. MaxBins
    BY <1>1
  <2>2. <<>> \in [1 .. 0 -> FirstByte]
    OBVIOUS
  <2> QED
    BY <2>1, <2>2 DEF Bins, BoundedSeq, SeqOf
<1>3. p.bins \in Bins /\ p.id \in Ids /\ p.nsp \in Namespaces \cup {Root}
  BY <1>2 DEF Packet, Ids
<1>4. p.msg = "none" => p.bins = <<>> /\ p.id = -1
  BY DEF Packet, Ids, Shapes
<1>5. p.type \in {"event", "ack", "connect", "disconnect"}
  BY DEF Packet
<1>6. p.bins # <<>> => p.type \in {"event", "ack"}
  BY DEF Packet
<1>7. PICK m \in 0 .. MaxBins : p.bins \in [1 .. m -> FirstByte]
  BY <1>3 DEF Bins, BoundedSeq, SeqOf
<1>8. p.bins \in Seq(FirstByte) /\ Len(p.bins) = m
  BY <1>1, <1>7
<1> QED
  BY <1>3, <1>4, <1>5, <1>6, <1>8

(* The type on the wire is binary exactly when there are attachments.      *)
LEMMA PacketTypes ==
  ASSUME NEW n \in 1 .. MaxPackets, NEW p \in Packet
  PROVE  /\ Bufs(p, n) = [k \in DOMAIN p.bins |-> <<n, k>>]
         /\ Bufs(p, n) # <<>> <=> p.bins # <<>>
         /\ Len(Bufs(p, n)) = Len(p.bins)
         /\ WireType(p, Bufs(p, n)) \in Types
         /\ WireType(p, Bufs(p, n)) \in BinaryTypes <=> Bufs(p, n) # <<>>
<1>1. Bufs(p, n) = [k \in DOMAIN p.bins |-> <<n, k>>]
  BY JsonAssumption DEF Bufs
<1>2. Len(Bufs(p, n)) = Len(p.bins) /\ (Bufs(p, n) # <<>> <=> p.bins # <<>>)
  BY <1>1, PacketFields
<1>3. /\ p.type \in {"event", "ack", "connect", "disconnect"}
      /\ p.bins # <<>> => p.type \in {"event", "ack"}
  BY PacketFields
<1>4. WireType(p, Bufs(p, n)) \in Types
  BY <1>2, <1>3 DEF WireType, Types, BinaryType
<1>5. WireType(p, Bufs(p, n)) \in BinaryTypes <=> Bufs(p, n) # <<>>
  BY <1>2, <1>3 DEF WireType, BinaryTypes, BinaryType
<1> QED
  BY <1>1, <1>2, <1>4, <1>5

(* packet::parse undoes packet::accept: from the text of any packet, with  *)
(* or without attachments, namespace, id and message, it reads the type,   *)
(* namespace, id, number of attachments and message of the packet.         *)
THEOREM ParseUndoesAccept ==
  ASSUME NEW n \in 1 .. MaxPackets, NEW p \in Packet
  PROVE  Parse(Accept(p, n)) = Reading(p, n)
<1>1. PICK type : type = WireType(p, Bufs(p, n))
  OBVIOUS
<1>2. PICK text : text = Accept(p, n)
  OBVIOUS
<1>3. PICK h : h = HeaderEnd(p, n)
  OBVIOUS
<1>4. PICK m : m = NamespaceEnd(p, n)
  OBVIOUS
<1>5. PICK k : k = IdEnd(p, n)
  OBVIOUS
<1>6. /\ Bufs(p, n) # <<>> => p.msg # "none"
      /\ p.id \in {-1, 0}
      /\ p.id >= 0 => p.msg # "none"
      /\ type \in Types
      /\ type \in BinaryTypes <=> Bufs(p, n) # <<>>
  BY <1>1, PacketFields, PacketTypes DEF Ids
<1>7. /\ h = (IF Bufs(p, n) # <<>> THEN 4 ELSE 2)
      /\ m = h + (IF p.nsp # Root THEN (IF p.msg # "none" \/ p.id >= 0 THEN 2 ELSE 1) ELSE 0)
      /\ k = m + (IF p.id >= 0 THEN 1 ELSE 0)
  BY <1>3, <1>4, <1>5 DEF HeaderEnd, NamespaceEnd, IdEnd
<1>8. /\ Len(text) = k + (IF p.msg # "none" THEN 1 ELSE 0)
      /\ text[1] = Token("frame", "message")
      /\ text[2] = Token("type", type)
      /\ Bufs(p, n) # <<>> =>
           text[3] = Token("num", Len(Bufs(p, n))) /\ text[4] = Token("dash", 0)
      /\ p.nsp # Root => text[h + 1] = Token("nsp", p.nsp)
      /\ p.nsp # Root /\ (p.msg # "none" \/ p.id >= 0) => text[h + 2] = Token("comma", 0)
      /\ p.id >= 0 => text[m + 1] = Token("num", p.id)
      /\ p.msg # "none" => text[k + 1] = Token("json", Accepted(p, n).json)
  BY <1>2, <1>3, <1>4, <1>5, <1>1, AcceptWrites, Zenon DEF TextOf
<1>9. /\ text[1].is = "frame" /\ text[1].v = "message" /\ text[2].is = "type" /\ text[2].v = type
      /\ Bufs(p, n) # <<>> =>
           text[3].is = "num" /\ text[3].v = Len(Bufs(p, n)) /\ text[4].is = "dash"
      /\ p.nsp # Root => text[h + 1].is = "nsp" /\ text[h + 1].v = p.nsp
      /\ p.nsp # Root /\ p.msg # "none" => text[h + 2].is = "comma"
      /\ p.id >= 0 => text[m + 1].is = "num" /\ text[m + 1].v = p.id
      /\ p.msg # "none" => text[k + 1].is = "json" /\ text[k + 1].v = Accepted(p, n).json
  BY <1>8 DEF Token
<1>10. Len(text) = k + (IF p.msg # "none" THEN 1 ELSE 0)
  BY <1>8
<1>11. /\ h \in {2, 4} /\ m \in h .. h + 2 /\ k \in m .. m + 1 /\ Len(text) \in Nat
  BY <1>6, <1>7, <1>10
<1>12. Body(text, type) = h + 1
  <2>1. CASE Bufs(p, n) # <<>>
    <3>1. Find(text, 3, {"dash"}) = 4
      <4>1. IsFirst(text, 3, {"dash"}, 4)
        BY <1>6, <1>7, <1>9, <1>10, <1>11, <2>1 DEF IsFirst
      <4> QED
        BY <4>1, FindIs
    <3> QED
      BY <1>6, <1>7, <1>9, <2>1, <3>1 DEF Body
  <2>2. CASE Bufs(p, n) = <<>>
    BY <1>6, <1>7, <1>9, <2>2 DEF Body
  <2> QED
    BY <2>1, <2>2
<1>13. p.nsp # Root => Find(text, h + 1, {"nsp", "json"}) = h + 1
  <2>1. p.nsp # Root => IsFirst(text, h + 1, {"nsp", "json"}, h + 1)
    BY <1>6, <1>7, <1>9, <1>10, <1>11 DEF IsFirst
  <2> QED
    BY <2>1, FindIs
<1>14. p.nsp = Root /\ p.msg # "none" => Find(text, h + 1, {"nsp", "json"}) = k + 1
  <2>1. p.nsp = Root /\ p.msg # "none" => IsFirst(text, h + 1, {"nsp", "json"}, k + 1)
    BY <1>6, <1>7, <1>9, <1>10, <1>11 DEF IsFirst
  <2> QED
    BY <2>1, FindIs
<1>15. p.nsp = Root /\ p.msg = "none" => Find(text, h + 1, {"nsp", "json"}) = 0
  BY <1>6, <1>7, <1>9, <1>10, <1>11, FindNone
<1>16. p.nsp # Root /\ p.msg # "none" => Find(text, 1, {"comma"}) = h + 2
  <2>1. p.nsp # Root /\ p.msg # "none" => IsFirst(text, 1, {"comma"}, h + 2)
    BY <1>6, <1>7, <1>9, <1>10, <1>11 DEF IsFirst
  <2> QED
    BY <2>1, FindIs
<1>17. p.nsp # Root /\ p.msg = "none" => Find(text, 1, {"comma"}) = 0
  BY <1>6, <1>7, <1>9, <1>10, <1>11, FindNone
<1>18. p.msg # "none" => Find(text, m + 1, {"json"}) = k + 1
  <2>1. p.msg # "none" => IsFirst(text, m + 1, {"json"}, k + 1)
    BY <1>6, <1>7, <1>9, <1>10, <1>11 DEF IsFirst
  <2> QED
    BY <2>1, FindIs
<1>19. p.msg = "none" => Find(text, m + 1, {"json"}) = 0
  BY <1>6, <1>7, <1>9, <1>10, <1>11, FindNone
<1>20. p.nsp # Root /\ p.msg # "none" => h + 2 = m
  BY <1>7
<1>21. p.nsp = Root => h = m
  BY <1>7
<1>22. (IF type \in BinaryTypes THEN text[3].v ELSE 0) = Len(Bufs(p, n))
  BY <1>6, <1>9
<1>23. p.msg # "none" => (IF m + 1 < k + 1 THEN text[m + 1].v ELSE -1) = p.id
  BY <1>6, <1>7, <1>9
<1>24. p.msg # "none" => text[k + 1].v = Accepted(p, n).json /\ k + 1 # 0
  BY <1>9, <1>11
<1>25. ParseBody(text, type, h + 1) = Reading(p, n)
  <2>1. CASE p.nsp # Root /\ p.msg # "none"
    <3>1. h + 1 # 0 /\ h + 2 # 0 /\ h + 2 + 1 = m + 1
      BY <1>11, <1>20, <2>1
    <3>2. /\ Find(text, h + 1, {"nsp", "json"}) = h + 1
          /\ Find(text, 1, {"comma"}) = h + 2
          /\ Find(text, m + 1, {"json"}) = k + 1
          /\ text[h + 1].is = "nsp" /\ text[h + 1].v = p.nsp /\ text[1].v = "message"
      BY <1>9, <1>13, <1>16, <1>18, <2>1
    <3> QED
      BY <1>1, <1>22, <1>23, <1>24, <2>1, <3>1, <3>2 DEF ParseBody, Reading
  <2>2. CASE p.nsp # Root /\ p.msg = "none"
    <3>1. p.id = -1 /\ type \notin BinaryTypes /\ Len(Bufs(p, n)) = 0
      BY <1>6, <2>2
    <3> QED
      BY <1>1, <1>9, <1>11, <1>13, <1>17, <2>2, <3>1 DEF ParseBody, Reading
  <2>3. CASE p.nsp = Root /\ p.msg # "none"
    <3>1. k + 1 # 0 /\ h + 1 = m + 1
      BY <1>11, <1>21, <2>3
    <3>2. /\ Find(text, h + 1, {"nsp", "json"}) = k + 1
          /\ Find(text, m + 1, {"json"}) = k + 1
          /\ text[k + 1].is = "json" /\ text[1].v = "message"
      BY <1>9, <1>14, <1>18, <2>3
    <3> QED
      BY <1>1, <1>22, <1>23, <1>24, <2>3, <3>1, <3>2 DEF ParseBody, Reading
  <2>4. CASE p.nsp = Root /\ p.msg = "none"
    <3>1. p.id = -1 /\ type \notin BinaryTypes /\ Len(Bufs(p, n)) = 0
      BY <1>6, <2>4
    <3> QED
      BY <1>1, <1>9, <1>15, <2>4, <3>1 DEF ParseBody, Reading
  <2> QED
    BY <2>1, <2>2, <2>3, <2>4
<1> QED
  BY <1>2, <1>6, <1>9, <1>12, <1>25 DEF Parse

-----------------------------------------------------------------------------
(* The frames of a packet, and the invariant.                              *)

(* The i-th frame of packet p.                                             *)
Frame(p, n, i) ==
  IF i = 1 THEN [first |-> "digit4", text |-> Accept(p, n), buf |-> <<n, 0>>]
           ELSE [first |-> p.bins[i - 1], text |-> Misread(p.bins[i - 1]), buf |-> <<n, i - 1>>]

FramesOf(p, n) == {Frame(p, n, i) : i \in 1 .. Len(p.bins) + 1}

(* Those are the frames the server sends.                                  *)
LEMMA EncodeFrames ==
  ASSUME NEW n \in 1 .. MaxPackets, NEW p \in Packet
  PROVE  /\ Encode(p, n) \in Seq(FramesOf(p, n))
         /\ Len(Encode(p, n)) = Len(p.bins) + 1
         /\ \A i \in 1 .. Len(p.bins) + 1 : Encode(p, n)[i] = Frame(p, n, i)
<1>1. PICK a : a = <<[first |-> "digit4", text |-> Accept(p, n), buf |-> <<n, 0>>]>>
  OBVIOUS
<1>2. PICK b : b = [k \in DOMAIN p.bins |->
                     [first |-> p.bins[k], text |-> Misread(p.bins[k]),
                      buf |-> Accepted(p, n).bufs[k]]]
  OBVIOUS
<1>3. Encode(p, n) = Cat(a, b)
  BY <1>1, <1>2 DEF Encode, Cat
<1>4. PICK l : l = Len(p.bins)
  OBVIOUS
<1>5. l \in Nat /\ DOMAIN p.bins = 1 .. l
  BY <1>4, PacketFields
<1>6. Accepted(p, n).bufs = [k \in 1 .. l |-> <<n, k>>]
  BY <1>5, PacketTypes DEF Bufs
<1>7. a = <<Frame(p, n, 1)>>
  BY <1>1 DEF Frame
<1>8. b = [k \in 1 .. l |-> Frame(p, n, k + 1)]
  BY <1>2, <1>5, <1>6 DEF Frame
<1>9. /\ a \in Seq(FramesOf(p, n)) /\ Len(a) = 1 /\ a[1] = Frame(p, n, 1)
  BY <1>4, <1>5, <1>7 DEF FramesOf
<1>10. \A k \in 1 .. l : Frame(p, n, k + 1) \in FramesOf(p, n)
  BY <1>4, <1>5 DEF FramesOf
<1>11. b \in Seq(FramesOf(p, n)) /\ Len(b) = l
  BY <1>5, <1>8, <1>10
<1>12. /\ Cat(a, b) \in Seq(FramesOf(p, n)) /\ Len(Cat(a, b)) = l + 1
       /\ Cat(a, b)[1] = a[1]
       /\ \A i \in 2 .. l + 1 : Cat(a, b)[i] = b[i - 1]
  <2>1. /\ Cat(a, b) \in Seq(FramesOf(p, n)) /\ Len(Cat(a, b)) = Len(a) + Len(b)
        /\ \A i \in 1 .. Len(a) : Cat(a, b)[i] = a[i]
        /\ \A i \in Len(a) + 1 .. Len(a) + Len(b) : Cat(a, b)[i] = b[i - Len(a)]
    BY <1>9, <1>11, CatJoins, Zenon
  <2> QED
    BY <1>5, <1>9, <1>11, <2>1
<1>13. \A i \in 2 .. l + 1 : b[i - 1] = Frame(p, n, i)
  BY <1>5, <1>8
<1> QED
  BY <1>3, <1>4, <1>5, <1>9, <1>12, <1>13

-----------------------------------------------------------------------------
(* The packet being received, which is the last one sent.                  *)
Current == sent[Len(sent)].packet

(* What was received was sent.                                             *)
Histories ==
  /\ opens \in 1 .. MaxOpens
  /\ sent \in Seq([packet : Packet, on : 1 .. MaxOpens]) /\ Len(sent) <= MaxPackets
  /\ complete \in Seq(Nat) /\ \A i \in DOMAIN complete : complete[i] \in DOMAIN sent
  /\ due \in Seq(Nat) /\ \A i \in DOMAIN due : due[i] \in DOMAIN sent

(* What is still to come are the last frames of the packet sent last, on   *)
(* this connection.                                                        *)
Rest ==
  \/ sending = <<>>
  \/ /\ sent # <<>> /\ sent[Len(sent)].on = opens
     /\ sending \in Seq(FramesOf(Current, Len(sent)))
     /\ Len(sending) \in 1 .. Len(Current.bins) + 1
     /\ \A i \in 1 .. Len(sending) :
          sending[i] = Frame(Current, Len(sent), Len(Current.bins) + 1 - Len(sending) + i)

(* What parse keeps of a packet sent on this connection.                   *)
Kept == {Accepted(sent[m].packet, m).json : m \in {l \in DOMAIN sent : sent[l].on = opens}}

(* A packet of this connection that waits for attachments.                 *)
Waiting ==
  [frame : {"message"}, type : BinaryTypes, nsp : Namespaces \cup {Root}, id : Ids,
   msg : Kept, pending : 1 .. MaxBins, bufs : Seq(Nat \X Nat)]

Held == partial = NoPacket \/ partial \in Waiting

(* The current packet when all its attachments so far began with byte4.    *)
Filling(p, n, left) ==
  [frame |-> "message", type |-> WireType(p, Bufs(p, n)), nsp |-> p.nsp, id |-> p.id,
   msg |-> Accepted(p, n).json, pending |-> left,
   bufs |-> [k \in 1 .. Len(p.bins) - left |-> <<n, k>>]]

(* All attachments of p but the last ones, left of them, begin with byte4. *)
Clean(p, left) == \A k \in 1 .. Len(p.bins) - left : p.bins[k] = "byte4"

(* Packet q holds those attachments; or one of them has been taken for     *)
(* something else, and q waits for more attachments than there are to come.*)
Reassembles(q, p, n, left) ==
  IF Clean(p, left) THEN q = Filling(p, n, left)
                    ELSE q # NoPacket /\ q.pending > left

(* Between the text of a packet and its last attachment, the partial packet*)
(* holds what has come.                                                    *)
Reassembly ==
  sending # <<>> /\ Len(sending) <= Len(Current.bins) =>
    Reassembles(partial, Current, Len(sent), Len(sending))

(* The inductive invariant.                                                *)
Whole == Histories /\ Rest /\ Held /\ Reassembly /\ DecodesExactly

-----------------------------------------------------------------------------
(* What put_payload does with each frame.                                  *)

(* What a socket must be given for packet p, the n-th one sent.            *)
Due(p, n) ==
  [type |-> WireType(p, p.bins), nsp |-> p.nsp, id |-> p.id, msg |-> Tree(n, p, NullPtr)]

(* What is no message, or has no namespace, reaches no socket.             *)
LEMMA NothingDecoded ==
  ASSUME NEW q, q.frame # "message" \/ q.nsp = "", Decode(q)
  PROVE  decoded' = decoded
<1>1. "" \notin Namespaces \cup {Root}
  BY PacketAssumption, Zenon DEF Root
<1> QED
  BY <1>1 DEF Decode

(* An attachment that is taken for a text is nothing.                      *)
LEMMA MisreadsDecodeNothing ==
  ASSUME NEW first \in FirstByte
  PROVE  LET q == Parse(Misread(first)) IN
         (q.frame # "message" \/ q.nsp = "") /\ ~NeedsBuffers(q)
<1>1. CASE first = "digit4"
  <2>1. PICK text : text = Misread(first)
    OBVIOUS
  <2>2. text[1].v = "message" /\ text[2].v = "none"
    BY <1>1, <2>1 DEF Misread, Token
  <2>3. Parse(text) = Parsed("message", "none", "", -1, NullPtr, 0)
    BY <2>2 DEF Parse, Types
  <2>4. PICK nsp : nsp = ""
    OBVIOUS
  <2>5. Parse(text) = Parsed("message", "none", nsp, -1, NullPtr, 0)
    BY <2>3, <2>4
  <2>6. Parse(text).nsp = nsp /\ Parse(text).type = "none"
    BY <2>5 DEF Parsed
  <2> QED
    BY <2>1, <2>4, <2>6 DEF NeedsBuffers, BinaryTypes
<1>2. CASE first # "digit4"
  <2>1. PICK text : text = Misread(first)
    OBVIOUS
  <2>2. text[1].v = "none"
    BY <1>2, <2>1 DEF Misread, Token
  <2>3. Parse(text) = ParseBody(text, "none", Body(text, "none"))
    BY <2>2 DEF Parse
  <2>4. Parse(text).frame = "none" /\ Parse(text).type = "none"
    BY <2>2, <2>3 DEF ParseBody, Parsed
  <2> QED
    BY <2>1, <2>4 DEF NeedsBuffers, BinaryTypes
<1> QED
  BY <1>1, <1>2

(* Nor is a ping.                                                          *)
LEMMA PingChangesNothing ==
  ASSUME PutPayload(PingFrame)
  PROVE  partial' = partial /\ decoded' = decoded
<1>1. PICK text : text = <<Token("frame", "ping")>>
  OBVIOUS
<1>2. PingFrame.first = "other" /\ PingFrame.text = text
  BY <1>1 DEF PingFrame
<1>3. text[1].v = "ping"
  BY <1>1 DEF Token
<1>4. Parse(text) = ParseBody(text, "none", Body(text, "none"))
  BY <1>3 DEF Parse
<1>5. Parse(text).frame = "ping"
  BY <1>3, <1>4 DEF ParseBody, Parsed
<1>6. PutOther(PingFrame)
  BY <1>2 DEF PutPayload, PutText, PutBinary
<1> QED
  BY <1>2, <1>5, <1>6, NothingDecoded DEF PutOther

(* An attachment that begins with the byte 4 goes to the packet that waits;*)
(* another one goes nowhere.                                               *)
LEMMA AttachmentIn ==
  ASSUME NEW n, NEW p \in Packet, NEW i \in 1 .. Len(p.bins), PutPayload(Frame(p, n, i + 1))
  PROVE  IF p.bins[i] = "byte4" /\ partial # NoPacket
           THEN ParseBuffer(partial, <<n, i>>)
           ELSE partial' = partial /\ decoded' = decoded
<1>1. PICK f : f = Frame(p, n, i + 1)
  OBVIOUS
<1>2. p.bins[i] \in FirstByte /\ i + 1 # 1 /\ i + 1 - 1 = i
  BY PacketFields
<1>3. f.first = p.bins[i] /\ f.text = Misread(p.bins[i]) /\ f.buf = <<n, i>>
  BY <1>1, <1>2 DEF Frame
<1>4. PutPayload(f)
  BY <1>1
<1>5. CASE p.bins[i] = "byte4"
  BY <1>3, <1>4, <1>5 DEF PutPayload, PutText, PutBinary, PutOther
<1>6. CASE p.bins[i] = "digit4"
  <2>1. PutText(f)
    BY <1>3, <1>4, <1>6 DEF PutPayload, PutBinary, PutOther
  <2>2. ~NeedsBuffers(Parse(f.text))
    BY <1>2, <1>3, MisreadsDecodeNothing
  <2>3. Decode(Parse(f.text)) /\ partial' = partial
    BY <2>1, <2>2 DEF PutText
  <2> QED
    BY <1>2, <1>3, <1>6, <2>3, MisreadsDecodeNothing, NothingDecoded
<1>7. CASE p.bins[i] = "other"
  <2>1. PutOther(f)
    BY <1>3, <1>4, <1>7 DEF PutPayload, PutBinary, PutText
  <2> QED
    BY <1>2, <1>3, <1>7, <2>1, MisreadsDecodeNothing, NothingDecoded DEF PutOther
<1> QED
  BY <1>2, <1>5, <1>6, <1>7 DEF FirstByte

(* A text is decoded at once, or kept until its attachments arrive.        *)
LEMMA TextIn ==
  ASSUME NEW n \in 1 .. MaxPackets, NEW p \in Packet, PutPayload(Frame(p, n, 1))
  PROVE  /\ p.bins # <<>> => partial' = Reading(p, n) /\ decoded' = decoded
         /\ p.bins = <<>> => partial' = partial /\ decoded' = Append(decoded, Due(p, n))
<1>1. PICK f : f = Frame(p, n, 1)
  OBVIOUS
<1>2. f.first = "digit4" /\ f.text = Accept(p, n)
  BY <1>1 DEF Frame
<1>3. PutText(f)
  BY <1>1, <1>2 DEF PutPayload, PutBinary, PutOther
<1>4. Parse(f.text) = Reading(p, n)
  BY <1>2, ParseUndoesAccept
<1>5. CASE p.bins # <<>>
  <2>1. p.msg # "none" /\ Accepted(p, n).json # NullPtr
    BY <1>5, PacketFields, JsonAssumption
  <2>2. WireType(p, Bufs(p, n)) \in BinaryTypes
    BY <1>5, PacketTypes
  <2>3. NeedsBuffers(Reading(p, n))
    BY <2>1, <2>2 DEF NeedsBuffers, Reading, Parsed, MessageOf
  <2>4. partial' = Reading(p, n) /\ decoded' = decoded
    BY <1>3, <1>4, <2>3 DEF PutText
  <2> QED
    BY <1>5, <2>4
<1>6. CASE p.bins = <<>>
  <2>1. WireType(p, Bufs(p, n)) \notin BinaryTypes /\ Bufs(p, n) = <<>>
    BY <1>6, PacketTypes
  <2>2. Reading(p, n).msg = Tree(n, p, NullPtr)
    <3>1. CASE p.msg = "none"
      <4>1. Tree(n, p, NullPtr) = NullPtr
        BY <3>1, Zenon DEF Tree
      <4> QED
        BY <3>1, <4>1 DEF Reading, Parsed
    <3>2. CASE p.msg # "none"
      <4>1. ReadMessage(Accepted(p, n).json, <<>>) = Tree(n, p, NullPtr)
        BY <2>1, <3>2, JsonAssumption DEF Bufs
      <4> QED
        BY <2>1, <3>2, <4>1 DEF Reading, Parsed, MessageOf
    <3> QED
      BY <3>1, <3>2
  <2>3. /\ Reading(p, n).frame = "message" /\ Reading(p, n).type = WireType(p, p.bins)
        /\ Reading(p, n).nsp = p.nsp /\ Reading(p, n).id = p.id
    BY <1>6, <2>1 DEF Reading, Parsed
  <2>4. ~NeedsBuffers(Reading(p, n))
    BY <1>6, <2>1, <2>3 DEF NeedsBuffers
  <2>5. Decode(Reading(p, n)) /\ partial' = partial
    BY <1>3, <1>4, <2>4 DEF PutText
  <2>6. p.nsp \in Namespaces \cup {Root}
    BY PacketFields
  <2>7. decoded' = Append(decoded, Due(p, n))
    BY <2>2, <2>3, <2>5, <2>6 DEF Decode, Due
  <2> QED
    BY <1>6, <2>5, <2>7
<1> QED
  BY <1>5, <1>6

(* A packet that has just been read waits for all of its attachments.      *)
LEMMA ReadingFills ==
  ASSUME NEW n \in 1 .. MaxPackets, NEW p \in Packet, p.bins # <<>>
  PROVE  Reading(p, n) = Filling(p, n, Len(p.bins))
<1>1. p.msg # "none" /\ WireType(p, Bufs(p, n)) \in BinaryTypes /\ Len(Bufs(p, n)) = Len(p.bins)
  BY PacketFields, PacketTypes
<1>2. [k \in 1 .. Len(p.bins) - Len(p.bins) |-> <<n, k>>] = <<>>
  BY PacketFields
<1> QED
  BY <1>1, <1>2 DEF Reading, Filling, Parsed, MessageOf

(* An attachment goes to its packet; with the last one it is decoded.      *)
LEMMA MarkedIn ==
  ASSUME NEW n \in 1 .. MaxPackets, NEW p \in Packet, NEW left \in 1 .. Len(p.bins),
         partial = Filling(p, n, left), ParseBuffer(partial, <<n, Len(p.bins) - left + 1>>)
  PROVE  /\ left > 1 => partial' = Filling(p, n, left - 1) /\ decoded' = decoded
         /\ left = 1 => partial' = NoPacket /\ decoded' = Append(decoded, Due(p, n))
<1>1. PICK l : l = Len(p.bins)
  OBVIOUS
<1>2. l \in Nat /\ left \in 1 .. l /\ DOMAIN p.bins = 1 .. l
  BY <1>1, PacketFields
<1>3. PICK q : q = [partial EXCEPT !.bufs = Append(@, <<n, l - left + 1>>), !.pending = @ - 1]
  OBVIOUS
<1>4. Append([k \in 1 .. l - left |-> <<n, k>>], <<n, l - left + 1>>)
        = [k \in 1 .. l - (left - 1) |-> <<n, k>>]
  BY <1>2
<1>5. q = Filling(p, n, left - 1)
  BY <1>1, <1>3, <1>4 DEF Filling
<1>6. q.pending = left - 1
  BY <1>5 DEF Filling
<1>7. IF q.pending > 0 THEN partial' = q /\ UNCHANGED decoded
                       ELSE Decode(Filled(q)) /\ partial' = NoPacket
  BY <1>1, <1>3 DEF ParseBuffer
<1>8. CASE left > 1
  BY <1>2, <1>5, <1>6, <1>7, <1>8
<1>9. CASE left = 1
  <2>1. Decode(Filled(q)) /\ partial' = NoPacket
    BY <1>6, <1>7, <1>9
  <2>2. q.bufs = Bufs(p, n)
    <3>1. q.bufs = [k \in 1 .. l - (left - 1) |-> <<n, k>>]
      BY <1>1, <1>5 DEF Filling
    <3>2. Bufs(p, n) = [k \in 1 .. l |-> <<n, k>>]
      BY <1>2, PacketTypes
    <3>3. l - (left - 1) = l
      BY <1>2, <1>9
    <3> QED
      BY <3>1, <3>2, <3>3
  <2>3. p.bins # <<>> /\ p.msg # "none"
    BY <1>1, <1>2, PacketFields
  <2>4. ReadMessage(q.msg, q.bufs) = Tree(n, p, NullPtr)
    BY <1>5, <2>2, <2>3, JsonAssumption DEF Filling, Bufs
  <2>5. WireType(p, Bufs(p, n)) = WireType(p, p.bins)
    BY <2>3, PacketTypes DEF WireType
  <2>6. /\ Filled(q).frame = "message" /\ Filled(q).type = WireType(p, p.bins)
        /\ Filled(q).nsp = p.nsp /\ Filled(q).id = p.id /\ Filled(q).msg = Tree(n, p, NullPtr)
    BY <1>5, <2>4, <2>5 DEF Filled, Filling
  <2>7. p.nsp \in Namespaces \cup {Root}
    BY PacketFields
  <2>8. decoded' = Append(decoded, Due(p, n))
    BY <2>1, <2>6, <2>7 DEF Decode, Due
  <2> QED
    BY <1>9, <2>1, <2>8
<1> QED
  BY <1>2, <1>8, <1>9

(* A packet that waits for more than is to come goes on waiting.           *)
LEMMA StaleIn ==
  ASSUME partial \in Waiting, NEW left \in Nat \ {0}, partial.pending > left,
         NEW buf \in Nat \X Nat, ParseBuffer(partial, buf)
  PROVE  /\ partial' \in Waiting /\ partial'.pending > left - 1
         /\ decoded' = decoded
<1>1. PICK q : q = [partial EXCEPT !.bufs = Append(@, buf), !.pending = @ - 1]
  OBVIOUS
<1>2. partial.pending \in 1 .. MaxBins /\ MaxBins \in Nat
  BY Bounds DEF Waiting
<1>3. q.pending = partial.pending - 1
  BY <1>1 DEF Waiting
<1>4. q \in Waiting
  <2>1. Append(partial.bufs, buf) \in Seq(Nat \X Nat)
    BY DEF Waiting
  <2>2. partial.pending - 1 \in 1 .. MaxBins
    BY <1>2
  <2> QED
    BY <1>1, <2>1, <2>2 DEF Waiting
<1>5. partial' = q /\ decoded' = decoded
  BY <1>1, <1>2, <1>3 DEF ParseBuffer
<1> QED
  BY <1>2, <1>3, <1>4, <1>5

-----------------------------------------------------------------------------
(* A packet that waits is not the empty packet.                            *)
LEMMA NoPacketWaitsNot == NoPacket \notin Waiting
<1>1. NoPacket.frame = "none"
  BY DEF NoPacket, Parsed
<1> QED
  BY <1>1 DEF Waiting

(* A packet that holds its first attachments waits.                        *)
LEMMA FillingWaits ==
  ASSUME Histories, NEW n \in DOMAIN sent, sent[n].on = opens,
         NEW left \in 1 .. Len(sent[n].packet.bins)
  PROVE  /\ Filling(sent[n].packet, n, left) \in Waiting
         /\ Filling(sent[n].packet, n, left) # NoPacket
<1>1. PICK p : p = sent[n].packet
  OBVIOUS
<1>2. n \in 1 .. MaxPackets /\ p \in Packet
  <2>1. sent \in Seq([packet : Packet, on : 1 .. MaxOpens]) /\ Len(sent) <= MaxPackets
    BY DEF Histories
  <2>2. n \in 1 .. Len(sent) /\ Len(sent) \in Nat
    BY <2>1
  <2>3. n \in 1 .. MaxPackets
    BY <2>1, <2>2, Bounds
  <2>4. sent[n] \in [packet : Packet, on : 1 .. MaxOpens]
    BY <2>1, <2>2, ElementOfSeq
  <2>5. sent[n].packet \in Packet
    BY <2>4
  <2> QED
    BY <1>1, <2>3, <2>5
<1>3. Len(p.bins) \in 0 .. MaxBins /\ MaxBins \in Nat /\ left \in 1 .. Len(p.bins)
  BY <1>1, <1>2, PacketFields, Bounds
<1>4. left \in 1 .. MaxBins
  BY <1>3
<1>5. p.bins # <<>>
  BY <1>3
<1>6. WireType(p, Bufs(p, n)) \in BinaryTypes /\ p.nsp \in Namespaces \cup {Root} /\ p.id \in Ids
  BY <1>2, <1>5, PacketTypes, PacketFields
<1>7. Accepted(p, n).json \in Kept
  BY <1>1 DEF Kept
<1>8. [k \in 1 .. Len(p.bins) - left |-> <<n, k>>] \in Seq(Nat \X Nat)
  <2>1. PICK j : j = Len(p.bins) - left
    OBVIOUS
  <2>2. j \in Nat /\ n \in Nat
    BY <1>2, <1>3, <2>1
  <2>3. \A k \in 1 .. j : <<n, k>> \in Nat \X Nat
    BY <2>2
  <2> QED
    BY <2>1, <2>2, <2>3
<1>9. Filling(p, n, left) \in Waiting
  BY <1>4, <1>6, <1>7, <1>8 DEF Filling, Waiting
<1> QED
  BY <1>1, <1>9, NoPacketWaitsNot

(* The steps keep the invariant.                                           *)
LEMMA InitWhole == Init => Whole
<1> SUFFICES ASSUME Init PROVE Whole
  OBVIOUS
<1>1. Histories
  BY Bounds DEF Init, Histories
<1>2. Rest /\ Held /\ Reassembly
  BY DEF Init, Rest, Held, Reassembly
<1>3. DecodesExactly
  BY DEF Init, DecodesExactly
<1> QED
  BY <1>1, <1>2, <1>3 DEF Whole

LEMMA SendWhole ==
  ASSUME Whole, Send
  PROVE  Whole'
<1> USE DEF Whole
<1>1. PICK p \in Packet : /\ sent' = Append(sent, [packet |-> p, on |-> opens])
                          /\ sending' = Encode(p, Len(sent) + 1)
  BY DEF Send
<1>2. /\ sending = <<>> /\ Len(sent) < MaxPackets
      /\ partial' = partial /\ opens' = opens /\ complete' = complete /\ due' = due
      /\ decoded' = decoded
  BY DEF Send
<1>3. PICK n : n = Len(sent) + 1
  OBVIOUS
<1>4. MaxPackets \in Nat /\ MaxOpens \in Nat
  BY Bounds
<1>5. sent \in Seq([packet : Packet, on : 1 .. MaxOpens]) /\ opens \in 1 .. MaxOpens
  BY DEF Histories
<1>6. /\ n \in 1 .. MaxPackets /\ Len(sent') = n /\ sent'[n] = [packet |-> p, on |-> opens]
      /\ sent' \in Seq([packet : Packet, on : 1 .. MaxOpens])
      /\ \A m \in DOMAIN sent : m \in DOMAIN sent' /\ sent'[m] = sent[m]
  BY <1>1, <1>2, <1>3, <1>4, <1>5
<1>7. Histories'
  BY <1>2, <1>6 DEF Histories
<1>8. /\ sending' \in Seq(FramesOf(p, n)) /\ Len(sending') = Len(p.bins) + 1
      /\ \A i \in 1 .. Len(p.bins) + 1 : sending'[i] = Frame(p, n, i)
  BY <1>1, <1>3, <1>6, EncodeFrames
<1>9. Current' = p /\ Len(p.bins) \in Nat
  BY <1>6, PacketFields DEF Current
<1>10. Rest'
  <2>1. sent' # <<>> /\ sent'[Len(sent')].on = opens'
    BY <1>2, <1>6
  <2>2. sending' \in Seq(FramesOf(Current', Len(sent')))
    BY <1>6, <1>8, <1>9
  <2>3. Len(sending') \in 1 .. Len(Current'.bins) + 1
    BY <1>8, <1>9
  <2>4. \A i \in 1 .. Len(sending') :
          sending'[i] = Frame(Current', Len(sent'), Len(Current'.bins) + 1 - Len(sending') + i)
    BY <1>6, <1>8, <1>9
  <2> QED
    BY <2>1, <2>2, <2>3, <2>4 DEF Rest
<1>11. Held'
  <2>1. Kept \subseteq Kept'
    BY <1>2, <1>6 DEF Kept
  <2> QED
    BY <1>2, <2>1 DEF Held, Waiting
<1>12. Reassembly'
  BY <1>8, <1>9 DEF Reassembly
<1>13. DecodesExactly'
  <2>1. \A i \in DOMAIN due : sent'[due[i]] = sent[due[i]]
    BY <1>6 DEF Histories
  <2> QED
    BY <1>2, <2>1 DEF DecodesExactly, Original
<1> QED
  BY <1>7, <1>10, <1>11, <1>12, <1>13

LEMMA ReconnectWhole ==
  ASSUME Whole, Reconnect
  PROVE  Whole'
<1> USE DEF Whole, Reconnect
<1>1. Histories'
  BY Bounds DEF Histories
<1>2. Rest' /\ Held' /\ Reassembly'
  BY DEF Rest, Held, Reassembly
<1>3. DecodesExactly'
  BY DEF DecodesExactly, Original
<1> QED
  BY <1>1, <1>2, <1>3

LEMMA StandingWhole ==
  ASSUME Whole, ReceivePing \/ UNCHANGED vars
  PROVE  Whole'
<1>1. UNCHANGED vars
  BY PingChangesNothing DEF ReceivePing, vars
<1> QED
  BY <1>1 DEF vars, Whole, Histories, Rest, Held, Reassembly, DecodesExactly, Original,
              Current, Waiting, Kept

(* The text of a packet comes: it waits for its attachments, or is decoded.*)
LEMMA TextStep ==
  ASSUME Histories, NEW n \in DOMAIN sent, sent[n].on = opens,
         NEW p, p = sent[n].packet, n \in 1 .. MaxPackets, p \in Packet,
         PutPayload(Frame(p, n, 1))
  PROVE  /\ p.bins = <<>> => partial' = partial /\ decoded' = Append(decoded, Due(p, n))
         /\ p.bins # <<>> => /\ partial' \in Waiting /\ decoded' = decoded
                             /\ Reassembles(partial', p, n, Len(p.bins))
<1>1. CASE p.bins = <<>>
  BY <1>1, TextIn
<1>2. CASE p.bins # <<>>
  <2>1. Len(p.bins) \in 1 .. Len(p.bins)
    BY <1>2, PacketFields
  <2>2. partial' = Filling(p, n, Len(p.bins)) /\ decoded' = decoded
    BY <1>2, TextIn, ReadingFills
  <2>3. Filling(p, n, Len(p.bins)) \in Waiting
    BY <2>1, FillingWaits
  <2>4. Clean(p, Len(p.bins))
    BY <2>1 DEF Clean
  <2> QED
    BY <1>2, <2>2, <2>3, <2>4 DEF Reassembles
<1> QED
  BY <1>1, <1>2

(* An attachment comes, with s frames of the packet still to come before   *)
(* it: the packet is a step further, or decoded if all were marked.        *)
LEMMA AttachmentStep ==
  ASSUME Histories, NEW n \in DOMAIN sent, sent[n].on = opens,
         NEW p, p = sent[n].packet, n \in 1 .. MaxPackets, p \in Packet,
         NEW s \in 1 .. Len(p.bins), partial \in Waiting, Reassembles(partial, p, n, s),
         PutPayload(Frame(p, n, Len(p.bins) + 2 - s))
  PROVE  /\ partial' = NoPacket \/ partial' \in Waiting
         /\ s > 1 => Reassembles(partial', p, n, s - 1)
         /\ decoded' = IF s = 1 /\ Clean(p, 0) THEN Append(decoded, Due(p, n)) ELSE decoded
<1>1. PICK i : i = Len(p.bins) + 1 - s
  OBVIOUS
<1>2. /\ i \in 1 .. Len(p.bins) /\ i + 1 = Len(p.bins) + 2 - s /\ i = Len(p.bins) - s + 1
      /\ Len(p.bins) - s = i - 1 /\ Len(p.bins) - (s - 1) = i
  BY <1>1, PacketFields
<1>3. IF p.bins[i] = "byte4" /\ partial # NoPacket
        THEN ParseBuffer(partial, <<n, i>>)
        ELSE partial' = partial /\ decoded' = decoded
  BY <1>2, AttachmentIn
<1>4. Clean(p, s - 1) <=> Clean(p, s) /\ p.bins[i] = "byte4"
  <2>1. Clean(p, s - 1) <=> \A k \in 1 .. i : p.bins[k] = "byte4"
    BY <1>2, Zenon DEF Clean
  <2>2. Clean(p, s) <=> \A k \in 1 .. i - 1 : p.bins[k] = "byte4"
    BY <1>2, Zenon DEF Clean
  <2>3. i \in Nat /\ i \in 1 .. i
    BY <1>2, PacketFields
  <2>4. \A k : k \in 1 .. i <=> k \in 1 .. i - 1 \/ k = i
    BY <2>3
  <2> QED
    BY <2>1, <2>2, <2>4, Zenon
<1>5. s = 1 => Clean(p, s - 1) = Clean(p, 0)
  OBVIOUS
<1>6. partial # NoPacket
  BY NoPacketWaitsNot
<1>7. s \in Nat \ {0} /\ s > s - 1 /\ partial.pending \in Nat
  BY PacketFields, Bounds DEF Waiting
<1>8. CASE p.bins[i] = "byte4" /\ Clean(p, s)
  <2>1. partial = Filling(p, n, s) /\ ParseBuffer(partial, <<n, Len(p.bins) - s + 1>>)
    BY <1>2, <1>3, <1>6, <1>8 DEF Reassembles
  <2>2. /\ s > 1 => partial' = Filling(p, n, s - 1) /\ decoded' = decoded
        /\ s = 1 => partial' = NoPacket /\ decoded' = Append(decoded, Due(p, n))
    BY <2>1, MarkedIn
  <2>3. s > 1 => Filling(p, n, s - 1) \in Waiting
    <3>1. s > 1 => s - 1 \in 1 .. Len(p.bins)
      BY PacketFields
    <3> QED
      BY <3>1, FillingWaits
  <2>4. CASE s > 1
    BY <1>4, <1>8, <2>2, <2>3, <2>4 DEF Reassembles
  <2>5. CASE s = 1
    BY <1>4, <1>5, <1>8, <2>2, <2>5
  <2> QED
    BY <1>7, <2>4, <2>5
<1>9. CASE p.bins[i] = "byte4" /\ ~Clean(p, s)
  <2>1. /\ partial.pending > s /\ ParseBuffer(partial, <<n, i>>)
        /\ <<n, i>> \in Nat \X Nat
    BY <1>2, <1>3, <1>6, <1>9 DEF Reassembles
  <2>2. partial' \in Waiting /\ partial'.pending > s - 1 /\ decoded' = decoded
    BY <1>7, <2>1, StaleIn
  <2>3. partial' # NoPacket
    BY <2>2, NoPacketWaitsNot
  <2> QED
    BY <1>4, <1>5, <1>9, <2>2, <2>3 DEF Reassembles
<1>10. CASE p.bins[i] # "byte4"
  <2>1. partial' = partial /\ decoded' = decoded
    BY <1>3, <1>10
  <2>2. partial.pending > s - 1
    <3>1. partial.pending = s \/ partial.pending > s
      BY DEF Reassembles, Filling
    <3> QED
      BY <1>7, <3>1
  <2> QED
    BY <1>4, <1>5, <1>6, <1>10, <2>1, <2>2 DEF Reassembles
<1> QED
  BY <1>8, <1>9, <1>10

LEMMA ReceiveWhole ==
  ASSUME Whole, Receive
  PROVE  Whole'
<1>1. PICK n : n = Len(sent)
  OBVIOUS
<1>2. PICK p : p = Current
  OBVIOUS
<1>3. PICK l : l = Len(p.bins)
  OBVIOUS
<1>4. PICK s : s = Len(sending)
  OBVIOUS
<1>5. Histories /\ Rest /\ Held /\ Reassembly /\ DecodesExactly
  BY DEF Whole
<1>6. /\ sending # <<>> /\ PutPayload(Head(sending)) /\ sending' = Tail(sending)
      /\ complete' = (IF s = 1 THEN Append(complete, n) ELSE complete)
      /\ due' = (IF s = 1 /\ Marked(n) THEN Append(due, n) ELSE due)
      /\ opens' = opens /\ sent' = sent
  BY <1>1, <1>4 DEF Receive
<1>7. /\ sent # <<>> /\ sent[n].on = opens /\ p = sent[n].packet
      /\ sending \in Seq(FramesOf(p, n)) /\ s \in 1 .. l + 1
      /\ \A i \in 1 .. s : sending[i] = Frame(p, n, l + 1 - s + i)
  BY <1>1, <1>2, <1>3, <1>4, <1>5, <1>6 DEF Rest, Current
<1>8. n \in DOMAIN sent /\ n \in 1 .. MaxPackets /\ p \in Packet
  <2>1. sent \in Seq([packet : Packet, on : 1 .. MaxOpens]) /\ n <= MaxPackets
    BY <1>1, <1>5 DEF Histories
  <2>2. n \in 1 .. Len(sent) /\ n \in Nat
    BY <1>1, <1>7, <2>1
  <2>3. sent[n] \in [packet : Packet, on : 1 .. MaxOpens]
    BY <2>1, <2>2, ElementOfSeq
  <2> QED
    BY <1>7, <2>1, <2>2, <2>3, Bounds
<1>9. l \in Nat /\ DOMAIN p.bins = 1 .. l
  BY <1>3, <1>8, PacketFields
<1>10. /\ sending' \in Seq(FramesOf(p, n)) /\ Len(sending') = s - 1
       /\ \A i \in 1 .. s - 1 : sending'[i] = Frame(p, n, l + 1 - (s - 1) + i)
  <2>1. /\ sending' \in Seq(FramesOf(p, n)) /\ Len(sending') = s - 1
        /\ \A i \in 1 .. s - 1 : sending'[i] = sending[i + 1]
    BY <1>4, <1>6, <1>7
  <2>2. \A i \in 1 .. s - 1 : i + 1 \in 1 .. s /\ l + 1 - s + (i + 1) = l + 1 - (s - 1) + i
    BY <1>7, <1>9
  <2> QED
    BY <1>7, <2>1, <2>2
<1>11. PutPayload(Frame(p, n, l + 2 - s))
  <2>1. Head(sending) = sending[1] /\ 1 \in 1 .. s /\ l + 1 - s + 1 = l + 2 - s
    BY <1>4, <1>6, <1>7, <1>9
  <2> QED
    BY <1>6, <1>7, <2>1
<1>12. Current' = p /\ n = Len(sent')
  BY <1>1, <1>2, <1>6 DEF Current
<1>13. Rest'
  <2>1. CASE s = 1
    BY <1>10, <2>1 DEF Rest
  <2>2. CASE s > 1
    <3>1. sent' # <<>> /\ sent'[Len(sent')].on = opens'
      BY <1>6, <1>7, <1>12
    <3>2. Len(sending') \in 1 .. Len(p.bins) + 1
      BY <1>3, <1>7, <1>9, <1>10, <2>2
    <3>3. \A i \in 1 .. Len(sending') :
            sending'[i] = Frame(p, n, Len(p.bins) + 1 - Len(sending') + i)
      BY <1>3, <1>10
    <3> QED
      BY <1>10, <1>12, <3>1, <3>2, <3>3 DEF Rest
  <2> QED
    BY <1>7, <2>1, <2>2
<1>14. Histories'
  <2>1. complete' \in Seq(Nat) /\ \A i \in DOMAIN complete' : complete'[i] \in DOMAIN sent
    BY <1>5, <1>6, <1>8 DEF Histories
  <2>2. due' \in Seq(Nat) /\ \A i \in DOMAIN due' : due'[i] \in DOMAIN sent
    BY <1>5, <1>6, <1>8 DEF Histories
  <2> QED
    BY <1>5, <1>6, <2>1, <2>2 DEF Histories
<1>15. Marked(n) <=> \A k \in 1 .. l : p.bins[k] = "byte4"
  BY <1>7, <1>9 DEF Marked
<1>16. Waiting' = Waiting
  BY <1>6 DEF Waiting, Kept
<1>17. /\ partial' = NoPacket \/ partial' \in Waiting
       /\ s > 1 => Reassembles(partial', p, n, s - 1)
       /\ decoded' = IF s = 1 /\ Marked(n) THEN Append(decoded, Due(p, n)) ELSE decoded
  <2>1. CASE s = l + 1
    <3>1. PutPayload(Frame(p, n, 1))
      BY <1>9, <1>11, <2>1
    <3>2. /\ p.bins = <<>> => partial' = partial /\ decoded' = Append(decoded, Due(p, n))
          /\ p.bins # <<>> => /\ partial' \in Waiting /\ decoded' = decoded
                              /\ Reassembles(partial', p, n, Len(p.bins))
      BY <1>5, <1>7, <1>8, <3>1, TextStep
    <3>3. CASE p.bins = <<>>
      <4>1. l = 0 /\ s = 1
        BY <1>3, <2>1, <3>3
      <4>2. Marked(n)
        BY <1>15, <4>1
      <4>3. partial = NoPacket \/ partial \in Waiting
        BY <1>5 DEF Held
      <4> QED
        BY <3>2, <3>3, <4>1, <4>2, <4>3
    <3>4. CASE p.bins # <<>>
      <4>1. l # 0
        BY <1>3, <1>8, <3>4, PacketFields
      <4>2. s > 1 /\ s - 1 = Len(p.bins)
        BY <1>3, <1>9, <2>1, <4>1
      <4> QED
        BY <3>2, <3>4, <4>2
    <3> QED
      BY <3>3, <3>4
  <2>2. CASE s # l + 1
    <3>1. s \in 1 .. Len(p.bins) /\ l + 2 - s = Len(p.bins) + 2 - s
      <4>1. s \in 1 .. l + 1
        BY <1>7
      <4>2. s \in 1 .. l
        BY <1>9, <2>2, <4>1
      <4> QED
        BY <1>3, <4>2
    <3>2. Reassembles(partial, p, n, s)
      <4>1. s <= Len(p.bins) /\ sending # <<>>
        BY <1>6, <3>1
      <4> QED
        BY <1>1, <1>2, <1>4, <1>5, <4>1, Zenon DEF Reassembly
    <3>3. partial # NoPacket
      <4>1. CASE Clean(p, s)
        BY <1>5, <1>7, <1>8, <3>1, <3>2, <4>1, FillingWaits DEF Reassembles
      <4>2. CASE ~Clean(p, s)
        BY <3>2, <4>2 DEF Reassembles
      <4> QED
        BY <4>1, <4>2
    <3>4. partial \in Waiting
      BY <1>5, <3>3 DEF Held
    <3>5. Clean(p, 0) <=> Marked(n)
      BY <1>3, <1>9, <1>15 DEF Clean
    <3>6. PutPayload(Frame(p, n, Len(p.bins) + 2 - s))
      BY <1>11, <3>1
    <3> QED
      BY <1>5, <1>7, <1>8, <3>1, <3>2, <3>4, <3>5, <3>6, AttachmentStep
  <2> QED
    BY <2>1, <2>2
<1>18. Held'
  BY <1>16, <1>17 DEF Held
<1>19. Reassembly'
  <2>1. sending' # <<>> => s > 1
    BY <1>7, <1>10
  <2> QED
    BY <1>10, <1>12, <1>17, <2>1 DEF Reassembly
<1>20. DecodesExactly'
  <2>1. Original(n) = Due(p, n)
    BY <1>7 DEF Original, Due
  <2>2. \A m : Original(m)' = Original(m)
    BY <1>6 DEF Original
  <2>3. due \in Seq(Nat) /\ n \in Nat /\ decoded = [i \in DOMAIN due |-> Original(due[i])]
    BY <1>5, <1>8 DEF Histories, DecodesExactly
  <2>4. CASE s = 1 /\ Marked(n)
    <3>1. due' = Append(due, n) /\ decoded' = Append(decoded, Original(n))
      BY <1>6, <1>17, <2>1, <2>4
    <3>2. decoded' = [i \in DOMAIN due' |-> Original(due'[i])]
      BY <2>3, <3>1
    <3> QED
      BY <2>2, <3>2 DEF DecodesExactly
  <2>5. CASE ~(s = 1 /\ Marked(n))
    <3>1. due' = due /\ decoded' = decoded
      BY <1>6, <1>17, <2>5
    <3> QED
      BY <2>2, <2>3, <3>1 DEF DecodesExactly
  <2> QED
    BY <2>4, <2>5
<1> QED
  BY <1>13, <1>14, <1>18, <1>19, <1>20 DEF Whole

-----------------------------------------------------------------------------
(* Whole is an invariant of the codec.                                     *)
THEOREM AlwaysWhole == Spec => []Whole
<1>1. Whole /\ [Next]_vars => Whole'
  BY SendWhole, ReceiveWhole, StandingWhole, ReconnectWhole DEF Next
<1> QED
  BY InitWhole, <1>1, PTL DEF Spec

(* There are never more packets, frames or attachments than the server     *)
(* sent, a packet that waits is of a binary type and waits for at least    *)
(* one attachment, and what was received was sent.                         *)
THEOREM TypeCorrect == Spec => []TypeOK
<1>1. Whole => TypeOK
  <2> SUFFICES ASSUME Whole PROVE TypeOK
    OBVIOUS
  <2>1. Len(sending) <= MaxBins + 1
    <3>1. CASE sending = <<>>
      BY <3>1, Bounds
    <3>2. CASE sending # <<>>
      <4>1. /\ sent # <<>> /\ Len(sending) \in 1 .. Len(Current.bins) + 1
            /\ sent \in Seq([packet : Packet, on : 1 .. MaxOpens])
        BY <3>2 DEF Whole, Rest, Histories
      <4>2. sent[Len(sent)] \in [packet : Packet, on : 1 .. MaxOpens]
        <5>1. PICK R : R = [packet : Packet, on : 1 .. MaxOpens]
          OBVIOUS
        <5>2. sent \in Seq(R) /\ Len(sent) \in 1 .. Len(sent)
          BY <4>1, <5>1
        <5> QED
          BY <5>1, <5>2, ElementOfSeq
      <4>3. Len(Current.bins) \in 0 .. MaxBins
        BY <4>2, PacketFields DEF Current
      <4> QED
        BY <4>1, <4>3, Bounds
    <3> QED
      BY <3>1, <3>2
  <2>2. partial # NoPacket => partial.type \in BinaryTypes /\ partial.pending \in 1 .. MaxBins
    BY DEF Whole, Held, Waiting
  <2> QED
    BY <2>1, <2>2 DEF Whole, Histories, TypeOK
<1> QED
  BY AlwaysWhole, <1>1, PTL

(* A packet begun on a lost connection is not waited for on the next one:  *)
(* the message that waits is that of a packet sent on this connection.     *)
THEOREM PacketOfThisConnection == Spec => []PartialIsCurrent
<1>1. Whole => PartialIsCurrent
  BY DEF Whole, Held, Waiting, Kept, PartialIsCurrent
<1> QED
  BY AlwaysWhole, <1>1, PTL

(* The sockets are given exactly the packets that arrived whole and whose  *)
(* attachments begin with the byte 4, as they were sent and in order.      *)
THEOREM DecodingIsExact == Spec => []DecodesExactly
<1>1. Whole => DecodesExactly
  BY DEF Whole
<1> QED
  BY AlwaysWhole, <1>1, PTL
=============================================================================
