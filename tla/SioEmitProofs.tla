---------------------------- MODULE SioEmitProofs ----------------------------
(***************************************************************************)
(* Acknowledgements and attachments, for any number of threads, packets,   *)
(* attachments and connections, and ints of any size: an answer finds the  *)
(* callback of its packet, a callback is called once at most and is not    *)
(* forgotten, and one thread's attachments stay with their packet.         *)
(***************************************************************************)
EXTENDS SioEmit, Elements

-----------------------------------------------------------------------------
(* Types.                                                                  *)

Labels == {"idle", "increment", "register", "send", "flush", "encode", "drain", "drainSend"}

Packet == [emit : Emits, id : Ids, bins : 0..MaxBins]
Draft == [emit : Emits, id : UInt, bins : 0..MaxBins]
Frames == {f \in [pkt : Packet, k : 0..MaxBins, by : Threads] : f.k <= f.pkt.bins}
Partial == {p \in [pkt : Packet, by : Threads, bufs : Seq(Frames)] : Len(p.bufs) < p.pkt.bins}

Types ==
  /\ nextId \in UInt /\ acks \in [Ids -> Emits \cup {NoEmit}] /\ calls \in 0..MaxCalls
  /\ queue \in Seq(Packet) /\ ready \in Seq(Frames)
  /\ pc \in [Threads -> Labels] /\ pkt \in [Threads -> Packet \cup Draft \cup {NoPacket}]
  /\ frames \in [Threads -> Seq(Frames)]
  /\ partial \in Partial \cup {NoPartial} /\ owed \subseteq {p \in Packet : p.id >= 0}
  /\ ids \in [Emits -> SUBSET Ids] /\ lost \subseteq Emits

Switches ==
  /\ connected \in BOOLEAN /\ open \in BOOLEAN /\ writable \in BOOLEAN
  /\ (connected => open) /\ (writable => open)
  /\ ~writable => partial = NoPartial /\ owed = {}

(* What is left of a packet that thread t hands over.                      *)
Rest(s, t) ==
  \A i \in 1..Len(s) :
    s[i].by = t /\ s[i].pkt = s[1].pkt /\ s[i].k = s[1].pkt.bins - (Len(s) - i)

(* What a thread has in hand, by the place it has reached.                 *)
Hand(t) ==
  /\ pc[t] = "increment" => pkt[t] \in Draft
  /\ pc[t] \in {"register", "send", "flush", "encode"} => pkt[t] \in Packet
  /\ pc[t] \in {"idle", "drain", "drainSend"} => pkt[t] = NoPacket
  /\ pc[t] \in {"drain", "drainSend"} => t = Net
  /\ pkt[t] # NoPacket => pkt[t].emit[1] = t
  /\ frames[t] # <<>> <=> pc[t] \in {"flush", "encode", "drainSend"}
  /\ Rest(frames[t], t)

Typed == Types /\ Switches /\ \A t \in Threads : Hand(t)

LEMMA Constants ==
  /\ Net \in Threads /\ MaxCalls \in Nat /\ MaxBins \in Nat /\ MaxInt \in Nat
  /\ NoEmit \notin Emits /\ NoPacket.emit = NoEmit /\ NoPacket.bins = 0
  /\ \A p \in Packet \cup Draft : p # NoPacket /\ p.emit \in Emits /\ p.bins \in 0..MaxBins
  /\ NoPartial \notin Partial /\ NoPartial.pkt = NoPacket /\ NoPartial.by = Net
  /\ \A e \in Emits : e[1] \in Threads /\ e[2] \in 1..MaxCalls /\ e = <<e[1], e[2]>>
<1>1. Net \in Threads /\ MaxCalls \in Nat /\ MaxBins \in Nat /\ MaxInt \in Nat
  BY SizeAssumption DEF Threads
<1>2. NoEmit \notin Emits /\ NoPacket.emit = NoEmit /\ NoPacket.bins = 0
  BY DEF NoEmit, Emits, NoPacket
<1>3. \A p \in Packet \cup Draft : p # NoPacket /\ p.emit \in Emits /\ p.bins \in 0..MaxBins
  BY <1>2 DEF Packet, Draft
<1>4. NoPartial.pkt = NoPacket /\ NoPartial.by = Net
  BY DEF NoPartial
<1>5. NoPartial \notin Partial
  BY <1>3, <1>4 DEF Partial
<1>6. \A e \in Emits : e[1] \in Threads /\ e[2] \in 1..MaxCalls /\ e = <<e[1], e[2]>>
  BY DEF Emits
<1> QED
  BY <1>1, <1>2, <1>3, <1>4, <1>5, <1>6

LEMMA IdFacts ==
  /\ \A u \in UInt : ToInt(u) \in Ids
  /\ \A i \in Ids : i \in Int
  /\ -1 \in Ids
  /\ \A u \in UInt : (u + 1) % (2 * MaxInt + 2) \in UInt
<1>1. MaxInt \in Nat
  BY Constants
<1>2. \A u \in UInt : ToInt(u) \in Ids
  BY DEF Ids
<1>3. \A u \in UInt : ToInt(u) \in Int
  BY <1>1 DEF UInt, ToInt
<1>4. ToInt(2 * MaxInt + 1) = -1 /\ 2 * MaxInt + 1 \in UInt
  BY <1>1 DEF UInt, ToInt
<1>5. \A u \in UInt : (u + 1) % (2 * MaxInt + 2) \in UInt
  <2> SUFFICES ASSUME NEW u \in UInt PROVE (u + 1) % (2 * MaxInt + 2) \in UInt
    OBVIOUS
  <2>1. PICK m \in Nat : m = 2 * MaxInt + 2 /\ m > 0
    BY <1>1
  <2>2. (u + 1) % m \in 0 .. m - 1
    BY <1>1, <2>1 DEF UInt
  <2> QED
    BY <1>1, <2>1, <2>2 DEF UInt
<1> QED
  BY <1>2, <1>3, <1>4, <1>5 DEF Ids

LEMMA InitTyped == Init => Typed
<1> SUFFICES ASSUME Init PROVE Typed
  OBVIOUS
<1>1. <<>> \in Seq(Packet) /\ <<>> \in Seq(Frames) /\ Len(<<>>) = 0
  BY EmptySeq
<1>2. /\ pc \in [Threads -> Labels] /\ pkt \in [Threads -> Packet \cup Draft \cup {NoPacket}]
      /\ frames \in [Threads -> Seq(Frames)]
      /\ \A t \in Threads : pc[t] = "idle" /\ pkt[t] = NoPacket /\ frames[t] = <<>>
  BY <1>1 DEF Init, Labels
<1>3. acks \in [Ids -> Emits \cup {NoEmit}] /\ ids \in [Emits -> SUBSET Ids]
  BY DEF Init
<1>4. nextId \in UInt /\ calls \in 0..MaxCalls
  BY Constants DEF Init
<1>5. Types
  BY <1>1, <1>2, <1>3, <1>4 DEF Init, Types
<1>6. Switches
  BY DEF Init, Switches
<1>7. \A t \in Threads : Hand(t)
  BY <1>1, <1>2 DEF Hand, Rest
<1> QED
  BY <1>5, <1>6, <1>7 DEF Typed

(* accept and encode: a text frame and the attachments after it.           *)
LEMMA EncodeFacts ==
  ASSUME NEW p \in Packet, NEW t \in Threads
  PROVE  /\ Encode(p, t) \in Seq(Frames) /\ Encode(p, t) # <<>> /\ Rest(Encode(p, t), t)
         /\ Head(Encode(p, t)) = Frame(p, 0, t) /\ Len(Encode(p, t)) = p.bins + 1
         /\ \A i \in 1 .. p.bins + 1 : Encode(p, t)[i] = Frame(p, i - 1, t)
<1>1. p.bins \in Nat /\ p.bins <= MaxBins /\ MaxBins \in Nat
  BY Constants
<1>2. PICK n \in Nat : n = p.bins + 1
  BY <1>1
<1>3. \A i \in 1..n : Frame(p, i - 1, t) \in Frames
  BY <1>1, <1>2 DEF Frame, Frames
<1>4. /\ Encode(p, t) \in [1..n -> Frames] /\ DOMAIN Encode(p, t) = 1..n
      /\ \A i \in 1..n : Encode(p, t)[i] = Frame(p, i - 1, t)
  BY <1>2, <1>3 DEF Encode
<1>5. Encode(p, t) \in Seq(Frames)
  BY <1>4, SeqDef
<1>6. Len(Encode(p, t)) = n
  <2>1. DOMAIN Encode(p, t) = 1..Len(Encode(p, t)) /\ Len(Encode(p, t)) \in Nat
    BY <1>5, LenProperties
  <2> QED
    BY <1>4, <2>1
<1>7. Encode(p, t) # <<>> /\ Head(Encode(p, t)) = Encode(p, t)[1]
  BY <1>1, <1>2, <1>5, <1>6, EmptySeq
<1>8. Rest(Encode(p, t), t)
  <2>1. \A i \in 1..n : Encode(p, t)[i].by = t /\ Encode(p, t)[i].pkt = p /\ Encode(p, t)[i].k = i - 1
    BY <1>4 DEF Frame
  <2>2. 1 \in 1..n /\ \A i \in 1..n : i - 1 = p.bins - (n - i)
    BY <1>1, <1>2
  <2> QED
    BY <1>6, <2>1, <2>2 DEF Rest
<1> QED
  BY <1>1, <1>2, <1>4, <1>5, <1>6, <1>7, <1>8

(* The next frame to be handed over, and what comes after it.              *)
LEMMA RestFacts ==
  ASSUME NEW t \in Threads, NEW s \in Seq(Frames), s # <<>>, Rest(s, t)
  PROVE  /\ Head(s) \in Frames /\ Head(s).by = t /\ Head(s) = s[1]
         /\ Tail(s) \in Seq(Frames) /\ Rest(Tail(s), t) /\ Elems(s) = {Head(s)} \cup Elems(Tail(s))
         /\ Tail(s) = <<>> <=> Head(s).k = Head(s).pkt.bins
         /\ Tail(s) # <<>> => Head(Tail(s)).pkt = Head(s).pkt /\ Head(Tail(s)).k = Head(s).k + 1
         /\ \A f \in Elems(Tail(s)) : f.k > 0
         /\ Len(s) > 1 <=> Tail(s) # <<>>
<1>1. /\ Len(s) \in Nat /\ Len(s) > 0 /\ Head(s) = s[1] /\ Head(s) \in Frames
      /\ Tail(s) \in Seq(Frames) /\ Len(Tail(s)) = Len(s) - 1
      /\ \A i \in 1..Len(Tail(s)) : Tail(s)[i] = s[i + 1] /\ s[i + 1] \in Frames
  BY HeadTailProperties, EmptySeq, ElementOfSeq, LenProperties
<1>2. \A f \in Frames : f.k \in Nat /\ f.pkt.bins \in Nat /\ f.k <= f.pkt.bins
  BY Constants DEF Frames
<1>3. \A i \in 1..Len(s) :
        s[i].by = t /\ s[i].pkt = s[1].pkt /\ s[i].k = s[1].pkt.bins - (Len(s) - i)
  BY DEF Rest
<1>4. s[1].k = s[1].pkt.bins - (Len(s) - 1) /\ s[1].by = t
  BY <1>1, <1>3
<1>5. Tail(s) = <<>> <=> Len(Tail(s)) = 0
  BY <1>1, EmptySeq
<1>6. Tail(s) = <<>> <=> Head(s).k = Head(s).pkt.bins
  BY <1>1, <1>2, <1>4, <1>5
<1>7. \A i \in 1..Len(Tail(s)) :
        /\ Tail(s)[i].by = t /\ Tail(s)[i].pkt = s[1].pkt
        /\ Tail(s)[i].k = s[1].pkt.bins - (Len(Tail(s)) - i) /\ Tail(s)[i].k > 0
  <2> SUFFICES ASSUME NEW i \in 1..Len(Tail(s))
               PROVE  /\ Tail(s)[i].by = t /\ Tail(s)[i].pkt = s[1].pkt
                      /\ Tail(s)[i].k = s[1].pkt.bins - (Len(Tail(s)) - i) /\ Tail(s)[i].k > 0
    OBVIOUS
  <2>1. i + 1 \in 1..Len(s) /\ Tail(s)[i] = s[i + 1]
    BY <1>1
  <2>2. s[i + 1].by = t /\ s[i + 1].pkt = s[1].pkt /\ s[i + 1].k = s[1].pkt.bins - (Len(s) - (i + 1))
    BY <1>3, <2>1
  <2>3. s[1].pkt.bins - (Len(s) - (i + 1)) = s[1].pkt.bins - (Len(Tail(s)) - i)
    BY <1>1, <1>2
  <2>4. s[i + 1].k = s[1].k + i
    BY <1>1, <1>2, <1>4, <2>2
  <2> QED
    BY <1>1, <1>2, <2>1, <2>2, <2>3, <2>4
<1>8. Tail(s) # <<>> => Head(Tail(s)) = Tail(s)[1] /\ 1 \in 1..Len(Tail(s))
  BY <1>1, <1>5, HeadTailProperties
<1>9. Tail(s) # <<>> => Head(Tail(s)).pkt = Head(s).pkt /\ Head(Tail(s)).k = Head(s).k + 1
  <2>1. SUFFICES ASSUME Tail(s) # <<>>
                 PROVE  Head(Tail(s)).pkt = Head(s).pkt /\ Head(Tail(s)).k = Head(s).k + 1
    OBVIOUS
  <2>2. /\ Head(Tail(s)) = Tail(s)[1] /\ Tail(s)[1].pkt = s[1].pkt
        /\ Tail(s)[1].k = s[1].pkt.bins - (Len(Tail(s)) - 1)
    BY <1>7, <1>8, <2>1
  <2>3. s[1].pkt.bins - (Len(Tail(s)) - 1) = s[1].k + 1
    BY <1>1, <1>2, <1>4
  <2> QED
    BY <1>1, <2>2, <2>3
<1>10. Rest(Tail(s), t)
  <2> SUFFICES ASSUME NEW i \in 1..Len(Tail(s))
               PROVE  /\ Tail(s)[i].by = t /\ Tail(s)[i].pkt = Tail(s)[1].pkt
                      /\ Tail(s)[i].k = Tail(s)[1].pkt.bins - (Len(Tail(s)) - i)
    BY DEF Rest
  <2>1. 1 \in 1..Len(Tail(s))
    BY <1>1
  <2>2. Tail(s)[1].pkt = s[1].pkt
    BY <1>7, <2>1
  <2> QED
    BY <1>7, <2>2
<1>11. \A f \in Elems(Tail(s)) : f.k > 0
  BY <1>7 DEF Elems
<1>12. Elems(s) = {Head(s)} \cup Elems(Tail(s))
  BY ElemsTail
<1> QED
  BY <1>1, <1>4, <1>5, <1>6, <1>9, <1>10, <1>11, <1>12

-----------------------------------------------------------------------------
(* Every step keeps the types.                                             *)

LEMMA SendTyped ==
  ASSUME partial \in Partial \cup {NoPartial}, owed \subseteq {p \in Packet : p.id >= 0},
         lost \subseteq Emits, ~writable => partial = NoPartial /\ owed = {},
         NEW f \in Frames, SendImpl(f)
  PROVE  /\ partial' \in Partial \cup {NoPartial} /\ owed' \subseteq {p \in Packet : p.id >= 0}
         /\ lost' \subseteq Emits /\ (~writable => partial' = NoPartial /\ owed' = {})
<1>1. f.pkt \in Packet /\ f.by \in Threads /\ f.pkt.emit \in Emits /\ f.pkt.bins \in Nat
  BY Constants DEF Frames
<1>2. CASE Forgone(f)
  BY <1>1, <1>2 DEF Forgone, peerVars
<1>3. CASE writable /\ Written(f) /\ f.k = 0
  <2> DEFINE p == [pkt |-> f.pkt, by |-> f.by, bufs |-> <<>>]
  <2>1. ReceiveText(f)
    BY <1>3 DEF Written
  <2>2. CASE f.pkt.bins = 0
    <3>1. Complete(p) /\ partial' = partial /\ lost' = lost /\ p.pkt = f.pkt
      BY <2>1, <2>2 DEF ReceiveText
    <3>2. owed' \subseteq owed \cup {f.pkt} /\ (owed' # owed => f.pkt.id >= 0)
      BY <3>1 DEF Complete
    <3> QED
      BY <1>1, <1>3, <3>1, <3>2
  <2>3. CASE f.pkt.bins # 0
    <3>1. partial' = p /\ owed' = owed
      BY <2>1, <2>3 DEF ReceiveText
    <3>2. p \in Partial
      <4>1. <<>> \in Seq(Frames) /\ Len(<<>>) = 0
        BY EmptySeq
      <4>2. 0 < f.pkt.bins
        BY <1>1, <2>3
      <4> QED
        BY <1>1, <4>1, <4>2 DEF Partial
    <3>3. lost' \subseteq Emits
      <4>1. partial.pkt.emit \in Emits \cup {NoEmit}
        BY Constants DEF Partial
      <4> QED
        BY <2>1, <2>3, <4>1 DEF ReceiveText
    <3> QED
      BY <1>3, <3>1, <3>2, <3>3
  <2> QED
    BY <2>2, <2>3
<1>4. CASE writable /\ Written(f) /\ f.k # 0
  <2> DEFINE p == [partial EXCEPT !.bufs = Append(@, f)]
  <2>1. ReceiveBinary(f)
    BY <1>4 DEF Written
  <2>2. CASE partial = NoPartial
    BY <1>4, <2>1, <2>2 DEF ReceiveBinary, peerVars
  <2>3. CASE partial # NoPartial
    <3>1. /\ partial \in Partial /\ partial.pkt \in Packet /\ partial.bufs \in Seq(Frames)
          /\ p.pkt = partial.pkt /\ p.by = partial.by /\ p.bufs = Append(partial.bufs, f)
          /\ p \in [pkt : Packet, by : Threads, bufs : Seq(Frames)]
      <4>1. partial \in [pkt : Packet, by : Threads, bufs : Seq(Frames)] /\ partial \in Partial
        BY <2>3 DEF Partial
      <4>2. Append(partial.bufs, f) \in Seq(Frames)
        BY <4>1, AppendProperties
      <4> QED
        BY <4>1, <4>2
    <3>2. CASE Len(p.bufs) < p.pkt.bins
      BY <1>4, <2>1, <2>3, <3>1, <3>2 DEF ReceiveBinary, Partial
    <3>3. CASE ~(Len(p.bufs) < p.pkt.bins)
      <4>1. Complete(p) /\ partial' = NoPartial /\ lost' = lost
        BY <2>1, <2>3, <3>3 DEF ReceiveBinary
      <4>2. owed' \subseteq owed \cup {p.pkt} /\ (owed' # owed => p.pkt.id >= 0)
        BY <4>1 DEF Complete
      <4> QED
        BY <1>4, <3>1, <4>1, <4>2
    <3> QED
      BY <3>2, <3>3
  <2> QED
    BY <2>2, <2>3
<1> QED
  BY <1>2, <1>3, <1>4 DEF SendImpl

(* Another thread's steps leave what a thread has in hand alone.           *)
LEMMA OtherHands ==
  ASSUME \A u \in Threads : Hand(u), NEW t \in Threads,
         \A u \in Threads \ {t} : pc'[u] = pc[u] /\ pkt'[u] = pkt[u] /\ frames'[u] = frames[u],
         Hand(t)'
  PROVE  \A u \in Threads : Hand(u)'
<1>1. ASSUME NEW u \in Threads \ {t} PROVE Hand(u)'
  BY <1>1 DEF Hand
<1> QED
  BY <1>1

LEMMA SameHands ==
  ASSUME \A u \in Threads : Hand(u), UNCHANGED sendVars
  PROVE  \A u \in Threads : Hand(u)'
BY DEF Hand, sendVars

LEMMA EmitTyped ==
  ASSUME Typed, NEW t \in Threads, Emit(t)
  PROVE  Typed'
<1> USE DEF Typed
<1>1. Types /\ Switches /\ Hand(t) /\ pc[t] = "idle"
  BY DEF Emit, At
<1>2. /\ UNCHANGED <<nextId, acks, queue, ready, connected, open, writable, opens>>
      /\ UNCHANGED <<frames, partial, owed, decoded, ids, answered, lost>>
  BY DEF Emit, linkVars, peerVars
<1>3. calls' \in 1..MaxCalls
  BY <1>1, Constants DEF Emit, Types
<1>4. PICK bins \in 0..MaxBins :
        \/ /\ pkt' = [pkt EXCEPT ![t] = [emit |-> <<t, calls'>>, id |-> -1, bins |-> bins]]
           /\ pc' = [pc EXCEPT ![t] = "send"]
        \/ /\ pkt' = [pkt EXCEPT ![t] = [emit |-> <<t, calls'>>, id |-> nextId, bins |-> bins]]
           /\ pc' = [pc EXCEPT ![t] = "increment"]
  BY DEF Emit, EmitOf, Goto
<1>5. <<t, calls'>> \in Emits
  BY <1>3 DEF Emits
<1>6. /\ [emit |-> <<t, calls'>>, id |-> -1, bins |-> bins] \in Packet
      /\ [emit |-> <<t, calls'>>, id |-> nextId, bins |-> bins] \in Draft
  BY <1>1, <1>5, IdFacts DEF Packet, Draft, Types
<1>7. pc \in [Threads -> Labels] /\ pkt \in [Threads -> Packet \cup Draft \cup {NoPacket}]
  BY <1>1 DEF Types
<1>8. pc' \in [Threads -> Labels] /\ pkt' \in [Threads -> Packet \cup Draft \cup {NoPacket}]
  BY <1>4, <1>6, <1>7 DEF Labels
<1>9. Types'
  BY <1>1, <1>2, <1>3, <1>8 DEF Types
<1>10. Switches'
  BY <1>1, <1>2 DEF Switches
<1>11. /\ pc'[t] \in {"send", "increment"}
       /\ (pc'[t] = "send" => pkt'[t] \in Packet) /\ (pc'[t] = "increment" => pkt'[t] \in Draft)
       /\ pkt'[t].emit[1] = t
  BY <1>4, <1>6, <1>7
<1>12. Hand(t)'
  BY <1>1, <1>2, <1>11 DEF Hand
<1>13. \A u \in Threads \ {t} : pc'[u] = pc[u] /\ pkt'[u] = pkt[u] /\ frames'[u] = frames[u]
  BY <1>2, <1>4, <1>7
<1> QED
  BY <1>9, <1>10, <1>12, <1>13, OtherHands

LEMMA IncrementTyped ==
  ASSUME Typed, NEW t \in Threads, Increment(t)
  PROVE  /\ Typed' /\ pkt[t] \in Draft /\ pkt'[t] \in Packet
         /\ pkt'[t] = [pkt[t] EXCEPT !.id = ToInt(pkt[t].id)]
<1> USE DEF Typed
<1>1. Types /\ Switches /\ Hand(t) /\ pc[t] = "increment"
  BY DEF Increment, At
<1>2. /\ UNCHANGED <<acks, queue, ready, connected, open, writable, opens, frames>>
      /\ UNCHANGED <<partial, owed, decoded, calls, answered, lost>>
  BY DEF Increment, linkVars, peerVars
<1>3. pkt[t] \in Draft /\ pkt[t].id \in UInt /\ pkt[t].emit \in Emits /\ pkt[t].emit[1] = t
  BY <1>1, Constants DEF Hand, Draft
<1>4. /\ pc \in [Threads -> Labels] /\ pkt \in [Threads -> Packet \cup Draft \cup {NoPacket}]
      /\ ids \in [Emits -> SUBSET Ids]
  BY <1>1 DEF Types
<1>5. /\ pkt' = [pkt EXCEPT ![t] = [pkt[t] EXCEPT !.id = ToInt(pkt[t].id)]]
      /\ pc' = [pc EXCEPT ![t] = "register"] /\ nextId' = (pkt[t].id + 1) % (2 * MaxInt + 2)
      /\ ids' = [ids EXCEPT ![pkt[t].emit] = {ToInt(pkt[t].id)}]
  BY <1>4 DEF Increment, Goto
<1>6. [pkt[t] EXCEPT !.id = ToInt(pkt[t].id)] \in Packet
  BY <1>3, IdFacts DEF Draft, Packet
<1>7. /\ pkt'[t] = [pkt[t] EXCEPT !.id = ToInt(pkt[t].id)] /\ pc'[t] = "register"
      /\ pkt' \in [Threads -> Packet \cup Draft \cup {NoPacket}] /\ pc' \in [Threads -> Labels]
  BY <1>4, <1>5, <1>6 DEF Labels
<1>8. nextId' \in UInt /\ ids' \in [Emits -> SUBSET Ids]
  BY <1>3, <1>4, <1>5, IdFacts
<1>9. Types'
  BY <1>1, <1>2, <1>7, <1>8 DEF Types
<1>10. Switches'
  BY <1>1, <1>2 DEF Switches
<1>11. pkt'[t].emit = pkt[t].emit
  BY <1>3, <1>7 DEF Draft
<1>12. Hand(t)'
  BY <1>1, <1>2, <1>3, <1>6, <1>7, <1>11 DEF Hand
<1>13. \A u \in Threads \ {t} : pc'[u] = pc[u] /\ pkt'[u] = pkt[u] /\ frames'[u] = frames[u]
  BY <1>2, <1>4, <1>5
<1> QED
  BY <1>3, <1>6, <1>7, <1>9, <1>10, <1>12, <1>13, OtherHands

LEMMA RegisterTyped ==
  ASSUME Typed, NEW t \in Threads, Register(t)
  PROVE  /\ Typed' /\ pkt[t] \in Packet /\ acks' = [acks EXCEPT ![pkt[t].id] = pkt[t].emit]
         /\ pc' = [pc EXCEPT ![t] = "send"]
<1> USE DEF Typed
<1>1. Types /\ Switches /\ Hand(t) /\ pc[t] = "register"
  BY DEF Register, At
<1>2. /\ UNCHANGED <<nextId, queue, ready, connected, open, writable, opens, pkt, frames>>
      /\ UNCHANGED <<partial, owed, decoded, calls, ids, answered, lost>>
  BY DEF Register, linkVars, peerVars
<1>3. pkt[t] \in Packet /\ pkt[t].id \in Ids /\ pkt[t].emit \in Emits
  BY <1>1, Constants DEF Hand, Packet
<1>4. pc \in [Threads -> Labels] /\ acks \in [Ids -> Emits \cup {NoEmit}]
  BY <1>1 DEF Types
<1>5. /\ acks' = [acks EXCEPT ![pkt[t].id] = pkt[t].emit] /\ pc' = [pc EXCEPT ![t] = "send"]
      /\ pc'[t] = "send" /\ pc' \in [Threads -> Labels]
      /\ acks' \in [Ids -> Emits \cup {NoEmit}]
  BY <1>3, <1>4 DEF Register, Goto, Labels
<1>6. Types'
  BY <1>1, <1>2, <1>5 DEF Types
<1>7. Switches'
  BY <1>1, <1>2 DEF Switches
<1>8. Hand(t)'
  BY <1>1, <1>2, <1>3, <1>5 DEF Hand
<1>9. \A u \in Threads \ {t} : pc'[u] = pc[u] /\ pkt'[u] = pkt[u] /\ frames'[u] = frames[u]
  BY <1>2, <1>4, <1>5
<1> QED
  BY <1>3, <1>5, <1>6, <1>7, <1>8, <1>9, OtherHands

(* The ways in which a packet goes on from the hands of a thread.          *)
LEMMA SendPacketTyped ==
  ASSUME Typed, NEW t \in Threads, SendPacket(t)
  PROVE  /\ Typed' /\ pkt[t] \in Packet /\ pc[t] = "send" /\ frames[t] = <<>>
         /\ UNCHANGED <<nextId, acks, ready, linkVars, peerVars, calls, ids, answered, lost>>
         /\ \/ /\ ~connected /\ queue' = Append(queue, pkt[t]) /\ frames' = frames
               /\ pc' = [pc EXCEPT ![t] = "idle"] /\ pkt' = [pkt EXCEPT ![t] = NoPacket]
            \/ /\ queue # <<>> /\ Head(queue) \in Packet /\ queue' = Tail(queue) /\ pkt' = pkt
               /\ frames' = [frames EXCEPT ![t] = Encode(Head(queue), t)]
               /\ pc' = [pc EXCEPT ![t] = "flush"]
            \/ /\ queue' = queue /\ pkt' = pkt
               /\ frames' = [frames EXCEPT ![t] = Encode(pkt[t], t)]
               /\ pc' = [pc EXCEPT ![t] = "encode"]
<1> USE DEF Typed
<1>1. Types /\ Switches /\ Hand(t) /\ pc[t] = "send"
  BY DEF SendPacket, At
<1>2. UNCHANGED <<nextId, acks, ready, linkVars, peerVars, calls, ids, answered, lost>>
  BY DEF SendPacket
<1>3. pkt[t] \in Packet /\ frames[t] = <<>> /\ Rest(frames[t], t) /\ pkt[t].emit[1] = t
  BY <1>1, Constants DEF Hand
<1>4. /\ pc \in [Threads -> Labels] /\ pkt \in [Threads -> Packet \cup Draft \cup {NoPacket}]
      /\ frames \in [Threads -> Seq(Frames)] /\ queue \in Seq(Packet)
  BY <1>1 DEF Types
<1>5. queue # <<>> => Head(queue) \in Packet /\ Tail(queue) \in Seq(Packet)
  BY <1>4, HeadTailProperties
<1>6. Append(queue, pkt[t]) \in Seq(Packet)
  BY <1>3, <1>4, AppendProperties
<1>7. \/ /\ ~connected /\ queue' = Append(queue, pkt[t]) /\ frames' = frames
         /\ pc' = [pc EXCEPT ![t] = "idle"] /\ pkt' = [pkt EXCEPT ![t] = NoPacket]
      \/ /\ queue # <<>> /\ Head(queue) \in Packet /\ queue' = Tail(queue) /\ pkt' = pkt
         /\ frames' = [frames EXCEPT ![t] = Encode(Head(queue), t)]
         /\ pc' = [pc EXCEPT ![t] = "flush"]
      \/ /\ queue' = queue /\ pkt' = pkt
         /\ frames' = [frames EXCEPT ![t] = Encode(pkt[t], t)]
         /\ pc' = [pc EXCEPT ![t] = "encode"]
  BY <1>5 DEF SendPacket, Goto
<1>8. \/ /\ pkt' = [pkt EXCEPT ![t] = NoPacket] /\ pc' = [pc EXCEPT ![t] = "idle"]
         /\ frames' = frames /\ queue' \in Seq(Packet)
      \/ \E p \in Packet, l \in {"flush", "encode"} :
           /\ pkt' = pkt /\ pc' = [pc EXCEPT ![t] = l]
           /\ frames' = [frames EXCEPT ![t] = Encode(p, t)] /\ queue' \in Seq(Packet)
  BY <1>3, <1>4, <1>5, <1>6, <1>7
<1>9. Switches'
  BY <1>1, <1>2 DEF Switches, linkVars, peerVars
<1>10. /\ pc' \in [Threads -> Labels] /\ pkt' \in [Threads -> Packet \cup Draft \cup {NoPacket}]
       /\ frames' \in [Threads -> Seq(Frames)] /\ queue' \in Seq(Packet)
       /\ \A u \in Threads \ {t} : pc'[u] = pc[u] /\ pkt'[u] = pkt[u] /\ frames'[u] = frames[u]
       /\ Hand(t)'
  <2>1. CASE /\ pkt' = [pkt EXCEPT ![t] = NoPacket] /\ pc' = [pc EXCEPT ![t] = "idle"]
             /\ frames' = frames /\ queue' \in Seq(Packet)
    <3>1. pc'[t] = "idle" /\ pkt'[t] = NoPacket /\ frames'[t] = <<>>
      BY <1>3, <1>4, <2>1
    <3>2. Hand(t)'
      BY <1>3, <3>1 DEF Hand
    <3> QED
      BY <1>4, <2>1, <3>2 DEF Labels
  <2>2. ASSUME NEW p \in Packet, NEW l \in {"flush", "encode"},
               pkt' = pkt /\ pc' = [pc EXCEPT ![t] = l],
               frames' = [frames EXCEPT ![t] = Encode(p, t)] /\ queue' \in Seq(Packet)
        PROVE  <1>10
    <3>1. Encode(p, t) \in Seq(Frames) /\ Encode(p, t) # <<>> /\ Rest(Encode(p, t), t)
      BY EncodeFacts
    <3>2. pc'[t] = l /\ pkt'[t] = pkt[t] /\ frames'[t] = Encode(p, t)
      BY <1>4, <2>2
    <3>3. Hand(t)'
      BY <1>3, <3>1, <3>2 DEF Hand
    <3>4. pc' \in [Threads -> Labels] /\ frames' \in [Threads -> Seq(Frames)]
      BY <1>4, <2>2, <3>1 DEF Labels
    <3> QED
      BY <1>4, <2>2, <3>3, <3>4
  <2> QED
    BY <1>8, <2>1, <2>2
<1>11. Types'
  BY <1>1, <1>2, <1>10 DEF Types, peerVars, linkVars
<1> QED
  BY <1>1, <1>2, <1>3, <1>7, <1>9, <1>10, <1>11, OtherHands

(* Handing over one frame.                                                 *)
LEMMA HandOverTyped ==
  ASSUME Typed, NEW t \in Threads, HandOver(t)
  PROVE  /\ Typed' /\ frames[t] # <<>> /\ Rest(frames[t], t) /\ frames[t] \in Seq(Frames)
         /\ pc[t] \in {"flush", "encode", "drainSend"}
         /\ frames' = [frames EXCEPT ![t] = Tail(frames[t])]
         /\ UNCHANGED <<nextId, acks, queue, linkVars, calls, ids, answered>>
         /\ IF t = Net THEN SendImpl(Head(frames[t])) /\ UNCHANGED ready
                       ELSE ready' = Append(ready, Head(frames[t])) /\ UNCHANGED <<peerVars, lost>>
         /\ \/ pc' = pc /\ pkt' = pkt
            \/ pc[t] = "flush" /\ pc' = [pc EXCEPT ![t] = "send"] /\ pkt' = pkt
            \/ pc[t] = "drainSend" /\ pc' = [pc EXCEPT ![t] = "drain"] /\ pkt' = pkt
            \/ /\ pc[t] = "encode" /\ pc' = [pc EXCEPT ![t] = "idle"]
               /\ pkt' = [pkt EXCEPT ![t] = NoPacket]
<1> USE DEF Typed
<1>1. Types /\ Switches /\ Hand(t) /\ pc[t] \in {"flush", "encode", "drainSend"}
  BY DEF HandOver
<1>2. UNCHANGED <<nextId, acks, queue, linkVars, calls, ids, answered>>
  BY DEF HandOver
<1>3. /\ pc \in [Threads -> Labels] /\ pkt \in [Threads -> Packet \cup Draft \cup {NoPacket}]
      /\ frames \in [Threads -> Seq(Frames)] /\ ready \in Seq(Frames)
  BY <1>1 DEF Types
<1>4. frames[t] # <<>> /\ Rest(frames[t], t) /\ frames[t] \in Seq(Frames)
  BY <1>1, <1>3 DEF Hand
<1>5. /\ Head(frames[t]) \in Frames /\ Tail(frames[t]) \in Seq(Frames)
      /\ Rest(Tail(frames[t]), t) /\ (Len(frames[t]) > 1 <=> Tail(frames[t]) # <<>>)
  BY <1>4, RestFacts
<1>6. frames' = [frames EXCEPT ![t] = Tail(frames[t])]
  BY DEF HandOver
<1>7. IF t = Net THEN SendImpl(Head(frames[t])) /\ UNCHANGED ready
                 ELSE ready' = Append(ready, Head(frames[t])) /\ UNCHANGED <<peerVars, lost>>
  BY DEF HandOver
<1>8. \/ Len(frames[t]) > 1 /\ pc' = pc /\ pkt' = pkt
      \/ /\ ~(Len(frames[t]) > 1) /\ pc[t] = "flush"
         /\ pc' = [pc EXCEPT ![t] = "send"] /\ pkt' = pkt
      \/ /\ ~(Len(frames[t]) > 1) /\ pc[t] = "drainSend"
         /\ pc' = [pc EXCEPT ![t] = "drain"] /\ pkt' = pkt
      \/ /\ ~(Len(frames[t]) > 1) /\ pc[t] = "encode"
         /\ pc' = [pc EXCEPT ![t] = "idle"] /\ pkt' = [pkt EXCEPT ![t] = NoPacket]
  <2>1. CASE Len(frames[t]) > 1
    BY <2>1 DEF HandOver
  <2>2. CASE ~(Len(frames[t]) > 1)
    <3>1. CASE pc[t] = "flush"
      BY <2>2, <3>1 DEF HandOver, Goto
    <3>2. CASE pc[t] = "drainSend"
      BY <2>2, <3>2 DEF HandOver, Goto
    <3>3. CASE pc[t] = "encode"
      BY <2>2, <3>3 DEF HandOver, Goto
    <3> QED
      BY <1>1, <3>1, <3>2, <3>3
  <2> QED
    BY <2>1, <2>2
<1>9. frames' \in [Threads -> Seq(Frames)] /\ frames'[t] = Tail(frames[t])
  BY <1>3, <1>5, <1>6
<1>10. pc' \in [Threads -> Labels] /\ pkt' \in [Threads -> Packet \cup Draft \cup {NoPacket}]
  BY <1>3, <1>8 DEF Labels
<1>11. Hand(t)'
  <2>1. Rest(frames'[t], t)
    BY <1>5, <1>9
  <2>2. CASE Len(frames[t]) > 1 /\ pc' = pc /\ pkt' = pkt
    BY <1>1, <1>5, <1>9, <2>1, <2>2 DEF Hand
  <2>3. ASSUME ~(Len(frames[t]) > 1), pc[t] = "flush", pc' = [pc EXCEPT ![t] = "send"], pkt' = pkt
        PROVE  Hand(t)'
    <3>1. pc'[t] = "send" /\ pkt'[t] = pkt[t] /\ frames'[t] = <<>>
      BY <1>3, <1>5, <1>9, <2>3
    <3> QED
      BY <1>1, <2>1, <2>3, <3>1 DEF Hand
  <2>4. ASSUME ~(Len(frames[t]) > 1), pc[t] = "drainSend", pc' = [pc EXCEPT ![t] = "drain"], pkt' = pkt
        PROVE  Hand(t)'
    <3>1. pc'[t] = "drain" /\ pkt'[t] = pkt[t] /\ frames'[t] = <<>>
      BY <1>3, <1>5, <1>9, <2>4
    <3> QED
      BY <1>1, <2>1, <2>4, <3>1 DEF Hand
  <2>5. ASSUME ~(Len(frames[t]) > 1), pc[t] = "encode", pc' = [pc EXCEPT ![t] = "idle"],
               pkt' = [pkt EXCEPT ![t] = NoPacket]
        PROVE  Hand(t)'
    <3>1. pc'[t] = "idle" /\ pkt'[t] = NoPacket /\ frames'[t] = <<>>
      BY <1>3, <1>5, <1>9, <2>5
    <3> QED
      BY <2>1, <3>1 DEF Hand
  <2> QED
    BY <1>8, <2>2, <2>3, <2>4, <2>5
<1>12. \A u \in Threads \ {t} : pc'[u] = pc[u] /\ pkt'[u] = pkt[u] /\ frames'[u] = frames[u]
  BY <1>3, <1>6, <1>8
<1>13. /\ partial' \in Partial \cup {NoPartial} /\ owed' \subseteq {p \in Packet : p.id >= 0}
       /\ lost' \subseteq Emits /\ (~writable => partial' = NoPartial /\ owed' = {})
       /\ ready' \in Seq(Frames)
  <2>1. CASE t = Net
    BY <1>1, <1>3, <1>5, <1>7, <2>1, SendTyped DEF Types, Switches
  <2>2. CASE t # Net
    <3>1. Append(ready, Head(frames[t])) \in Seq(Frames)
      BY <1>3, <1>5, AppendProperties
    <3> QED
      BY <1>1, <1>7, <2>2, <3>1 DEF Types, Switches, peerVars
  <2> QED
    BY <2>1, <2>2
<1>14. Types'
  BY <1>1, <1>2, <1>9, <1>10, <1>13 DEF Types
<1>15. Switches'
  BY <1>1, <1>2, <1>13 DEF Switches, linkVars
<1> QED
  BY <1>1, <1>2, <1>4, <1>6, <1>7, <1>8, <1>11, <1>12, <1>14, <1>15, OtherHands

(* The network thread's own handlers.                                      *)
LEMMA RunSendTyped ==
  ASSUME Typed, RunSend
  PROVE  /\ Typed' /\ pc[Net] = "idle" /\ ready # <<>> /\ Head(ready) \in Frames
         /\ ready' = Tail(ready) /\ SendImpl(Head(ready))
         /\ UNCHANGED <<nextId, acks, queue, linkVars, sendVars, calls, ids, answered>>
<1> USE DEF Typed
<1>1. /\ pc[Net] = "idle" /\ ready # <<>> /\ SendImpl(Head(ready)) /\ ready' = Tail(ready)
      /\ UNCHANGED <<nextId, acks, queue, linkVars, sendVars, calls, ids, answered>>
  BY DEF RunSend, At
<1>2. Types /\ Switches /\ ready \in Seq(Frames)
  BY DEF Types
<1>3. Head(ready) \in Frames /\ ready' \in Seq(Frames)
  BY <1>1, <1>2, HeadTailProperties
<1>4. /\ partial' \in Partial \cup {NoPartial} /\ owed' \subseteq {p \in Packet : p.id >= 0}
      /\ lost' \subseteq Emits /\ (~writable => partial' = NoPartial /\ owed' = {})
  BY <1>1, <1>2, <1>3, SendTyped DEF Types, Switches
<1>5. Types'
  BY <1>1, <1>2, <1>3, <1>4 DEF Types, sendVars
<1>6. Switches'
  BY <1>1, <1>2, <1>4 DEF Switches, linkVars
<1> QED
  BY <1>1, <1>3, <1>5, <1>6, SameHands

LEMMA OpenTyped ==
  ASSUME Typed, OnOpen \/ OnConnected
  PROVE  /\ Typed'
         /\ UNCHANGED <<nextId, acks, queue, ready, pkt, frames, peerVars, calls, ids, answered, lost>>
         /\ \/ pc' = pc
            \/ pc[Net] = "idle" /\ pc' = [pc EXCEPT ![Net] = "drain"]
<1> USE DEF Typed
<1>1. Types /\ Switches /\ \A t \in Threads : Hand(t)
  OBVIOUS
<1>2. UNCHANGED <<nextId, acks, queue, ready, pkt, frames, peerVars, calls, ids, answered, lost>>
  BY DEF OnOpen, OnConnected, sendVars
<1>3. CASE OnOpen
  <2>1. open' = TRUE /\ writable' = TRUE /\ connected' = connected /\ pc' = pc
    BY <1>3 DEF OnOpen, sendVars
  <2>2. Types' /\ Switches'
    BY <1>1, <1>2, <2>1 DEF Types, Switches, peerVars
  <2> QED
    BY <1>1, <1>2, <2>1, <2>2, SameHands DEF sendVars
<1>4. CASE OnConnected
  <2>1. /\ connected' = TRUE /\ open' = open /\ writable' = writable /\ writable
        /\ pc[Net] = "idle" /\ pc' = [pc EXCEPT ![Net] = "drain"]
    BY <1>4 DEF OnConnected, At, Goto
  <2>2. pc \in [Threads -> Labels] /\ Net \in Threads
    BY <1>1, Constants DEF Types
  <2>3. /\ pc' \in [Threads -> Labels] /\ pc'[Net] = "drain"
        /\ \A u \in Threads \ {Net} : pc'[u] = pc[u] /\ pkt'[u] = pkt[u] /\ frames'[u] = frames[u]
    BY <1>2, <2>1, <2>2 DEF Labels
  <2>4. Types'
    BY <1>1, <1>2, <2>3 DEF Types, peerVars
  <2>5. Switches'
    BY <1>1, <1>2, <2>1 DEF Switches, peerVars
  <2>6. Hand(Net)'
    BY <1>1, <1>2, <2>1, <2>2, <2>3 DEF Hand
  <2> QED
    BY <1>1, <1>2, <2>1, <2>2, <2>3, <2>4, <2>5, <2>6, OtherHands
<1> QED
  BY <1>3, <1>4

LEMMA DrainTyped ==
  ASSUME Typed, Drain
  PROVE  /\ Typed' /\ pc[Net] = "drain" /\ frames[Net] = <<>>
         /\ UNCHANGED <<nextId, acks, ready, linkVars, pkt, peerVars, calls, ids, answered, lost>>
         /\ \/ /\ queue' = queue /\ frames' = frames /\ pc' = [pc EXCEPT ![Net] = "idle"]
            \/ /\ queue # <<>> /\ Head(queue) \in Packet /\ queue' = Tail(queue)
               /\ frames' = [frames EXCEPT ![Net] = Encode(Head(queue), Net)]
               /\ pc' = [pc EXCEPT ![Net] = "drainSend"]
<1> USE DEF Typed
<1>1. Types /\ Switches /\ Net \in Threads /\ Hand(Net) /\ pc[Net] = "drain"
  BY Constants DEF Drain, At
<1>2. UNCHANGED <<nextId, acks, ready, linkVars, pkt, peerVars, calls, ids, answered, lost>>
  BY DEF Drain
<1>3. /\ pc \in [Threads -> Labels] /\ queue \in Seq(Packet) /\ frames \in [Threads -> Seq(Frames)]
      /\ frames[Net] = <<>> /\ pkt[Net] = NoPacket /\ Rest(frames[Net], Net)
  BY <1>1 DEF Types, Hand
<1>4. queue # <<>> => Head(queue) \in Packet /\ Tail(queue) \in Seq(Packet)
  BY <1>3, HeadTailProperties
<1>5. \/ queue' = queue /\ frames' = frames /\ pc' = [pc EXCEPT ![Net] = "idle"]
      \/ /\ queue # <<>> /\ Head(queue) \in Packet /\ queue' = Tail(queue)
         /\ frames' = [frames EXCEPT ![Net] = Encode(Head(queue), Net)]
         /\ pc' = [pc EXCEPT ![Net] = "drainSend"]
  BY <1>4 DEF Drain, Goto
<1>6. /\ pc' \in [Threads -> Labels] /\ frames' \in [Threads -> Seq(Frames)]
      /\ queue' \in Seq(Packet) /\ Hand(Net)'
      /\ \A u \in Threads \ {Net} : pc'[u] = pc[u] /\ pkt'[u] = pkt[u] /\ frames'[u] = frames[u]
  <2>1. CASE queue' = queue /\ frames' = frames /\ pc' = [pc EXCEPT ![Net] = "idle"]
    <3>1. pc'[Net] = "idle"
      BY <1>1, <1>3, <2>1
    <3> QED
      BY <1>2, <1>3, <2>1, <3>1 DEF Hand, Labels
  <2>2. ASSUME queue # <<>>, Head(queue) \in Packet, queue' = Tail(queue),
               frames' = [frames EXCEPT ![Net] = Encode(Head(queue), Net)],
               pc' = [pc EXCEPT ![Net] = "drainSend"]
        PROVE  <1>6
    <3>1. /\ Encode(Head(queue), Net) \in Seq(Frames) /\ Encode(Head(queue), Net) # <<>>
          /\ Rest(Encode(Head(queue), Net), Net)
      BY <1>1, <2>2, EncodeFacts
    <3>2. pc'[Net] = "drainSend" /\ frames'[Net] = Encode(Head(queue), Net) /\ pkt'[Net] = NoPacket
      BY <1>1, <1>2, <1>3, <2>2
    <3>3. Hand(Net)'
      BY <1>1, <1>3, <3>1, <3>2 DEF Hand
    <3>4. pc' \in [Threads -> Labels] /\ frames' \in [Threads -> Seq(Frames)]
      BY <1>1, <1>3, <2>2, <3>1 DEF Labels
    <3> QED
      BY <1>2, <1>3, <1>4, <2>2, <3>3, <3>4
  <2> QED
    BY <1>5, <2>1, <2>2
<1>7. Types'
  BY <1>1, <1>2, <1>6 DEF Types, peerVars
<1>8. Switches'
  BY <1>1, <1>2 DEF Switches, linkVars, peerVars
<1> QED
  BY <1>1, <1>2, <1>3, <1>5, <1>6, <1>7, <1>8, OtherHands

(* The packets that a queue still holds.                                   *)
LEMMA EmittedFacts ==
  ASSUME NEW s \in Seq(Packet)
  PROVE  Emitted(s) = {p.emit : p \in Elems(s)} /\ Emitted(s) \subseteq Emits
<1>1. DOMAIN s = 1..Len(s) /\ \A i \in 1..Len(s) : s[i] \in Packet
  BY LenProperties, ElementOfSeq
<1> QED
  BY <1>1, Constants DEF Emitted, Elems

LEMMA CloseTyped ==
  ASSUME Typed, BeginClosing \/ OnClose
  PROVE  /\ Typed' /\ partial' = NoPartial /\ owed' = {} /\ acks' = acks
         /\ \/ connected /\ queue' = <<>> /\ {p.emit : p \in Elems(queue)} \subseteq lost'
            \/ queue' = queue
         /\ lost \subseteq lost' /\ {p.emit : p \in owed} \subseteq lost'
         /\ (partial # NoPartial => partial.pkt.emit \in lost')
         /\ UNCHANGED <<nextId, ready, opens, sendVars, decoded, calls, ids, answered>>
<1> USE DEF Typed
<1>1. Types /\ Switches /\ queue \in Seq(Packet)
  BY DEF Types
<1>2. /\ writable' = FALSE /\ (connected' => open') /\ {connected', open'} \subseteq BOOLEAN
      /\ partial' = NoPartial /\ owed' = {} /\ acks' = acks
      /\ \/ connected /\ queue' = <<>> /\ lost' = lost \cup AtPeer \cup Emitted(queue)
         \/ queue' = queue /\ lost' = lost \cup AtPeer
      /\ UNCHANGED <<nextId, ready, opens, sendVars, decoded, calls, ids, answered>>
  <2>1. CASE BeginClosing
    BY <1>1, <2>1 DEF BeginClosing, CutOff, Switches
  <2>2. CASE OnClose
    BY <2>2 DEF OnClose, Lose, CutOff
  <2> QED
    BY <2>1, <2>2
<1>3. Emitted(queue) = {p.emit : p \in Elems(queue)} /\ Emitted(queue) \subseteq Emits
  BY <1>1, EmittedFacts
<1>4. /\ partial # NoPartial => partial.pkt.emit \in Emits
      /\ partial = NoPartial => partial.pkt.emit = NoEmit
  BY <1>1, Constants DEF Types, Partial
<1>5. {p.emit : p \in owed} \subseteq Emits
  BY <1>1, Constants DEF Types
<1>6. lost' \subseteq Emits
  BY <1>1, <1>2, <1>3, <1>4, <1>5 DEF Types, AtPeer
<1>7. queue' \in Seq(Packet)
  BY <1>1, <1>2, EmptySeq
<1>8. Types'
  BY <1>1, <1>2, <1>6, <1>7 DEF Types, sendVars
<1>9. Switches'
  BY <1>2 DEF Switches
<1>10. partial # NoPartial => partial.pkt.emit \in lost'
  BY <1>2, <1>4, Constants DEF AtPeer
<1>11. lost \subseteq lost' /\ {p.emit : p \in owed} \subseteq lost'
  BY <1>2 DEF AtPeer
<1> QED
  BY <1>1, <1>2, <1>3, <1>8, <1>9, <1>10, <1>11, SameHands

LEMMA AckTyped ==
  ASSUME Typed, OnAck
  PROVE  /\ Typed'
         /\ \E p \in owed : /\ owed' = owed \ {p} /\ acks' = [acks EXCEPT ![p.id] = NoEmit]
                            /\ answered' = answered \cup {[of |-> p.emit, cb |-> acks[p.id]]}
                            /\ p.id \in Ids /\ acks[p.id] \in Emits \cup {NoEmit}
         /\ UNCHANGED <<nextId, queue, ready, linkVars, sendVars, partial, decoded, calls, ids, lost>>
<1> USE DEF Typed
<1>1. Types /\ Switches /\ acks \in [Ids -> Emits \cup {NoEmit}]
  BY DEF Types
<1>2. PICK p \in owed : /\ owed' = owed \ {p} /\ acks' = [acks EXCEPT ![p.id] = NoEmit]
                        /\ answered' = answered \cup {[of |-> p.emit, cb |-> acks[p.id]]}
  BY DEF OnAck
<1>3. UNCHANGED <<nextId, queue, ready, linkVars, sendVars, partial, decoded, calls, ids, lost>>
  BY DEF OnAck
<1>4. p.id \in Ids
  BY <1>1 DEF Types, Packet
<1>5. acks' \in [Ids -> Emits \cup {NoEmit}]
  BY <1>1, <1>2, <1>4
<1>6. Types'
  BY <1>1, <1>2, <1>3, <1>5 DEF Types, sendVars
<1>7. Switches'
  BY <1>1, <1>2, <1>3 DEF Switches, linkVars
<1> QED
  BY <1>1, <1>2, <1>3, <1>4, <1>6, <1>7, SameHands

LEMMA NextTyped == Typed /\ [Next]_vars => Typed'
<1> SUFFICES ASSUME Typed, [Next]_vars PROVE Typed'
  OBVIOUS
<1>1. CASE UNCHANGED vars
  <2>1. Types' /\ Switches' /\ UNCHANGED sendVars
    BY <1>1 DEF Typed, Types, Switches, vars, linkVars, sendVars, peerVars
  <2> QED
    BY <2>1, SameHands DEF Typed
<1>2. ASSUME NEW t \in Threads, Emit(t) \/ Increment(t) \/ Register(t) \/ SendPacket(t) \/ HandOver(t)
      PROVE  Typed'
  BY <1>2, EmitTyped, IncrementTyped, RegisterTyped, SendPacketTyped, HandOverTyped
<1>3. CASE RunSend \/ OnOpen \/ OnConnected \/ Drain \/ BeginClosing \/ OnClose \/ OnAck
  BY <1>3, RunSendTyped, OpenTyped, DrainTyped, CloseTyped, AckTyped
<1> QED
  BY <1>1, <1>2, <1>3 DEF Next

LEMMA TypedInvariant == Spec => []Typed
BY InitTyped, NextTyped, PTL DEF Spec

(* In every state each variable has its type: what a thread has in hand is *)
(* where its program counter says, the server waits for attachments only   *)
(* while some are missing, and owes answers only to packets with an id.    *)
THEOREM TypeCorrect == Spec => []TypeOK
<1>1. Typed => TypeOK
  <2> SUFFICES ASSUME Typed PROVE TypeOK
    OBVIOUS
  <2>1. Types /\ Switches /\ \A t \in Threads : Hand(t)
    BY DEF Typed
  <2>2. \A p \in Packet \cup Draft \cup {NoPacket} : PacketOK(p)
    BY Constants DEF PacketOK
  <2>3. \A i \in DOMAIN acks : acks[i] \in Emits \cup {NoEmit}
    BY <2>1 DEF Types
  <2>4. \A i \in DOMAIN queue : PacketOK(queue[i])
    <3>1. queue \in Seq(Packet) /\ DOMAIN queue = 1..Len(queue)
      BY <2>1, LenProperties DEF Types
    <3> QED
      BY <2>2, <3>1, ElementOfSeq
  <2>5. ASSUME NEW t \in Threads
        PROVE  PacketOK(pkt[t]) /\ pc[t] \in Labels /\ (frames[t] # <<>> <=> pc[t] \in {"flush", "encode", "drainSend"})
    <3>1. pkt[t] \in Packet \cup Draft \cup {NoPacket} /\ pc[t] \in Labels
      BY <2>1 DEF Types
    <3> QED
      BY <2>1, <2>2, <3>1 DEF Hand
  <2>6. partial # NoPartial => Len(partial.bufs) < partial.pkt.bins
    BY <2>1 DEF Types, Partial
  <2>7. \A p \in owed : p.id \in Nat
    <3>1. \A p \in Packet : p.id \in Int
      BY IdFacts DEF Packet
    <3> QED
      BY <2>1, <3>1 DEF Types
  <2>8. nextId \in UInt /\ calls \in 0..MaxCalls /\ lost \subseteq Emits
    BY <2>1 DEF Types
  <2>9. /\ connected \in BOOLEAN /\ open \in BOOLEAN /\ writable \in BOOLEAN
        /\ (connected => open) /\ (writable => open)
        /\ ~writable => partial = NoPartial /\ owed = {}
    BY <2>1 DEF Switches
  <2> QED
    BY <2>3, <2>4, <2>5, <2>6, <2>7, <2>8, <2>9 DEF TypeOK, Labels
<1> QED
  BY <1>1, TypedInvariant, PTL

-----------------------------------------------------------------------------
(* Frames in line.  What a thread posted, and then what it still has to    *)
(* hand over, are whole packets one after the other, but for the first,    *)
(* whose beginning is gone.                                                *)

Succ(f, g) == IF f.k < f.pkt.bins THEN g = Frame(f.pkt, f.k + 1, f.by) ELSE g.k = 0
Followed(f, s) == IF s = <<>> THEN f.k = f.pkt.bins ELSE Succ(f, Head(s))

NextBy(s, i, j) == s[i].by = s[j].by /\ \A m \in i + 1 .. j - 1 : s[m].by # s[i].by
LastBy(s, i) == \A j \in i + 1 .. Len(s) : s[j].by # s[i].by
FirstBy(s, i) == \A j \in 1 .. i - 1 : s[j].by # s[i].by

Linked(rd, fr) ==
  \A i \in 1..Len(rd) :
    /\ rd[i].by # Net
    /\ \/ \E j \in i + 1 .. Len(rd) : NextBy(rd, i, j) /\ Succ(rd[i], rd[j])
       \/ LastBy(rd, i) /\ Followed(rd[i], fr[rd[i].by])

(* The frames the threads hand over next, each thread one of them.         *)
Coming(rd, fr) ==
  {f \in Frames : \/ \E i \in 1..Len(rd) : FirstBy(rd, i) /\ rd[i] = f
                  \/ /\ \A i \in 1..Len(rd) : rd[i].by # f.by
                     /\ fr[f.by] # <<>> /\ Head(fr[f.by]) = f}

LEMMA FrameFacts ==
  \A f \in Frames : /\ f.k \in Nat /\ f.pkt.bins \in Nat /\ f.k <= f.pkt.bins /\ f.k <= MaxBins
                    /\ f.pkt \in Packet /\ f.by \in Threads /\ f = Frame(f.pkt, f.k, f.by)
BY Constants DEF Frames, Frame

LEMMA LinkedAppend ==
  ASSUME NEW rd \in Seq(Frames), NEW fr \in [Threads -> Seq(Frames)], Linked(rd, fr),
         NEW t \in Threads \ {Net}, fr[t] # <<>>, Rest(fr[t], t)
  PROVE  LET rd2 == Append(rd, Head(fr[t]))
             fr2 == [fr EXCEPT ![t] = Tail(fr[t])]
         IN  Linked(rd2, fr2) /\ Coming(rd, fr) \subseteq Coming(rd2, fr2)
<1> DEFINE f == Head(fr[t])
           rd2 == Append(rd, f)
           fr2 == [fr EXCEPT ![t] = Tail(fr[t])]
<1>1. /\ f \in Frames /\ f.by = t /\ Tail(fr[t]) \in Seq(Frames)
      /\ Tail(fr[t]) = <<>> <=> f.k = f.pkt.bins
      /\ Tail(fr[t]) # <<>> => Head(Tail(fr[t])).pkt = f.pkt /\ Head(Tail(fr[t])).k = f.k + 1
      /\ Rest(Tail(fr[t]), t)
  BY RestFacts
<1>2. f.k \in Nat /\ f.pkt.bins \in Nat /\ f.k <= f.pkt.bins
  BY <1>1, FrameFacts
<1>3. Followed(f, Tail(fr[t]))
  <2>1. CASE Tail(fr[t]) = <<>>
    BY <1>1, <2>1 DEF Followed
  <2>2. CASE Tail(fr[t]) # <<>>
    <3>1. Head(Tail(fr[t])) \in Frames /\ Head(Tail(fr[t])).by = t
      BY <1>1, <2>2, RestFacts
    <3>2. Head(Tail(fr[t])) = Frame(f.pkt, f.k + 1, f.by)
      BY <1>1, <2>2, <3>1 DEF Frames, Frame
    <3>3. f.k < f.pkt.bins
      BY <1>1, <1>2, <2>2
    <3> QED
      BY <2>2, <3>2, <3>3 DEF Followed, Succ
  <2> QED
    BY <2>1, <2>2
<1>4. PICK n \in Nat : n = Len(rd)
  BY LenProperties
<1>5. /\ Len(rd2) = n + 1 /\ rd2[n + 1] = f /\ \A i \in 1..n : rd2[i] = rd[i] /\ rd[i] \in Frames
      /\ rd2 \in Seq(Frames)
  BY <1>1, <1>4, AppendProperties, ElementOfSeq
<1>6. fr2[t] = Tail(fr[t]) /\ \A u \in Threads : u # t => fr2[u] = fr[u]
  OBVIOUS
<1> HIDE DEF rd2, fr2, f
<1>7. 1 .. n + 1 = 1..n \cup {n + 1}
  BY <1>4
<1>8. ASSUME NEW i \in 1..n
      PROVE  /\ rd2[i].by # Net
             /\ \/ \E j \in i + 1 .. Len(rd2) : NextBy(rd2, i, j) /\ Succ(rd2[i], rd2[j])
                \/ LastBy(rd2, i) /\ Followed(rd2[i], fr2[rd2[i].by])
  <2>1. rd2[i] = rd[i] /\ rd[i].by # Net /\ rd[i].by \in Threads
    BY <1>4, <1>5 DEF Linked, Frames
  <2>2. CASE \E j \in i + 1 .. n : NextBy(rd, i, j) /\ Succ(rd[i], rd[j])
    <3>1. PICK j \in i + 1 .. n : NextBy(rd, i, j) /\ Succ(rd[i], rd[j])
      BY <2>2
    <3>2. j \in 1..n /\ j \in i + 1 .. n + 1 /\ \A m \in i + 1 .. j - 1 : m \in 1..n
      BY <1>4
    <3>3. NextBy(rd2, i, j) /\ Succ(rd2[i], rd2[j])
      BY <1>5, <2>1, <3>1, <3>2 DEF NextBy
    <3> QED
      BY <1>5, <2>1, <3>2, <3>3
  <2>3. CASE LastBy(rd, i) /\ Followed(rd[i], fr[rd[i].by])
    <3>1. \A m \in i + 1 .. n : m \in 1..n /\ rd2[m].by # rd2[i].by
      BY <1>4, <1>5, <2>1, <2>3 DEF LastBy
    <3>2. CASE rd[i].by = t
      <4>1. Succ(rd2[i], rd2[n + 1])
        BY <1>5, <2>1, <2>3, <3>2 DEF Followed, f
      <4>2. n + 1 \in i + 1 .. n + 1 /\ (n + 1) - 1 = n
        BY <1>4
      <4>3. NextBy(rd2, i, n + 1)
        BY <1>1, <1>5, <2>1, <3>1, <3>2, <4>2 DEF NextBy
      <4> QED
        BY <1>5, <2>1, <4>1, <4>2, <4>3
    <3>3. CASE rd[i].by # t
      <4>1. ASSUME NEW m \in i + 1 .. n + 1, m # n + 1 PROVE m \in i + 1 .. n
        BY <4>1
      <4>2. LastBy(rd2, i)
        <5>1. rd2[n + 1].by # rd2[i].by
          BY <1>1, <1>5, <2>1, <3>3
        <5> QED
          BY <1>5, <3>1, <4>1, <5>1 DEF LastBy
      <4>3. fr2[rd[i].by] = fr[rd[i].by]
        BY <1>6, <2>1, <3>3
      <4> QED
        BY <2>1, <2>3, <4>2, <4>3
    <3> QED
      BY <3>2, <3>3
  <2> QED
    BY <1>4, <2>2, <2>3 DEF Linked
<1>9. LastBy(rd2, n + 1) /\ Followed(rd2[n + 1], fr2[rd2[n + 1].by]) /\ rd2[n + 1].by # Net
  <2>1. \A m \in (n + 1) + 1 .. n + 1 : FALSE
    BY <1>4
  <2>2. LastBy(rd2, n + 1)
    BY <1>5, <2>1 DEF LastBy
  <2>3. rd2[n + 1].by = t /\ Followed(rd2[n + 1], fr2[t])
    BY <1>1, <1>3, <1>5, <1>6
  <2> QED
    BY <2>2, <2>3
<1>10. Linked(rd2, fr2)
  <2> SUFFICES ASSUME NEW i \in 1..n \cup {n + 1}
               PROVE  /\ rd2[i].by # Net
                      /\ \/ \E j \in i + 1 .. Len(rd2) : NextBy(rd2, i, j) /\ Succ(rd2[i], rd2[j])
                         \/ LastBy(rd2, i) /\ Followed(rd2[i], fr2[rd2[i].by])
    BY <1>5, <1>7 DEF Linked
  <2> QED
    BY <1>8, <1>9
<1>11. ASSUME NEW g \in Coming(rd, fr) PROVE g \in Coming(rd2, fr2)
  <2>1. g \in Frames /\ g.by \in Threads
    BY DEF Coming, Frames
  <2>2. CASE \E i \in 1..Len(rd) : FirstBy(rd, i) /\ rd[i] = g
    <3>1. PICK i \in 1..n : FirstBy(rd, i) /\ rd[i] = g
      BY <1>4, <2>2
    <3>2. \A j \in 1 .. i - 1 : j \in 1..n
      BY <1>4
    <3>3. FirstBy(rd2, i) /\ rd2[i] = g /\ i \in 1..Len(rd2)
      BY <1>5, <1>7, <3>1, <3>2 DEF FirstBy
    <3> QED
      BY <2>1, <3>3 DEF Coming
  <2>3. CASE /\ \A i \in 1..Len(rd) : rd[i].by # g.by
             /\ fr[g.by] # <<>> /\ Head(fr[g.by]) = g
    <3>1. CASE g.by = t
      <4>1. \A j \in 1 .. (n + 1) - 1 : j \in 1..n
        BY <1>4
      <4>2. FirstBy(rd2, n + 1) /\ rd2[n + 1] = g /\ n + 1 \in 1..Len(rd2)
        BY <1>1, <1>4, <1>5, <1>7, <2>3, <3>1, <4>1 DEF FirstBy, f
      <4> QED
        BY <2>1, <4>2 DEF Coming
    <3>2. CASE g.by # t
      <4>1. \A i \in 1..Len(rd2) : rd2[i].by # g.by
        BY <1>1, <1>4, <1>5, <1>7, <2>3, <3>2
      <4> QED
        BY <1>6, <2>1, <2>3, <3>2, <4>1 DEF Coming
    <3> QED
      BY <3>1, <3>2
  <2> QED
    BY <2>2, <2>3 DEF Coming
<1> QED
  BY <1>10, <1>11 DEF rd2, fr2, f

(* One frame, f, of those coming has come: D are the ones that come now.   *)
Comes(C, f, D) ==
  /\ f \in C /\ \A g \in C : IF g.by = f.by THEN g = f ELSE g \in D
  /\ f.k < f.pkt.bins => Frame(f.pkt, f.k + 1, f.by) \in D

LEMMA LinkedTail ==
  ASSUME NEW rd \in Seq(Frames), NEW fr \in [Threads -> Seq(Frames)], Linked(rd, fr), rd # <<>>
  PROVE  Linked(Tail(rd), fr) /\ Comes(Coming(rd, fr), Head(rd), Coming(Tail(rd), fr))
<1> DEFINE f == Head(rd)
           rd2 == Tail(rd)
<1>1. PICK n \in Nat : n + 1 = Len(rd)
  BY LenProperties, EmptySeq
<1>2. /\ f = rd[1] /\ Len(rd2) = n /\ rd2 \in Seq(Frames)
      /\ \A i \in 1..n : rd2[i] = rd[i + 1]
      /\ \A i \in 1 .. n + 1 : rd[i] \in Frames
  BY <1>1, HeadTailProperties, ElementOfSeq
<1> HIDE DEF f, rd2
<1>3. 1 \in 1 .. n + 1 /\ \A i \in 1..n : i + 1 \in 1 .. n + 1 /\ i + 1 > 1
  BY <1>1
<1>4. \A i \in 2 .. n + 1 : i - 1 \in 1..n /\ rd2[i - 1] = rd[i]
  <2>1. \A i \in 2 .. n + 1 : i - 1 \in 1..n /\ (i - 1) + 1 = i
    BY <1>1
  <2> QED
    BY <1>2, <2>1
<1>5. ASSUME NEW i \in 1..n
      PROVE  /\ rd2[i].by # Net
             /\ \/ \E j \in i + 1 .. n : NextBy(rd2, i, j) /\ Succ(rd2[i], rd2[j])
                \/ LastBy(rd2, i) /\ Followed(rd2[i], fr[rd2[i].by])
  <2>1. rd2[i] = rd[i + 1] /\ i + 1 \in 1 .. n + 1 /\ rd[i + 1].by # Net
    BY <1>1, <1>2, <1>3 DEF Linked
  <2>2. CASE \E j \in (i + 1) + 1 .. n + 1 : NextBy(rd, i + 1, j) /\ Succ(rd[i + 1], rd[j])
    <3>1. PICK j \in (i + 1) + 1 .. n + 1 : NextBy(rd, i + 1, j) /\ Succ(rd[i + 1], rd[j])
      BY <2>2
    <3>2. j \in 2 .. n + 1 /\ j - 1 \in i + 1 .. n
      BY <1>1
    <3>3. \A m \in i + 1 .. (j - 1) - 1 : m \in 1..n /\ m + 1 \in (i + 1) + 1 .. j - 1
      BY <1>1
    <3>4. NextBy(rd2, i, j - 1) /\ Succ(rd2[i], rd2[j - 1])
      BY <1>2, <1>4, <2>1, <3>1, <3>2, <3>3 DEF NextBy
    <3> QED
      BY <2>1, <3>2, <3>4
  <2>3. CASE LastBy(rd, i + 1) /\ Followed(rd[i + 1], fr[rd[i + 1].by])
    <3>1. \A m \in i + 1 .. n : m \in 1..n /\ m + 1 \in (i + 1) + 1 .. n + 1
      BY <1>1
    <3>2. LastBy(rd2, i)
      BY <1>1, <1>2, <2>1, <2>3, <3>1 DEF LastBy
    <3> QED
      BY <2>1, <2>3, <3>2
  <2> QED
    BY <1>1, <2>1, <2>2, <2>3 DEF Linked
<1>8. Linked(rd2, fr)
  BY <1>2, <1>5 DEF Linked
<1>9. f \in Coming(rd, fr)
  <2>1. \A j \in 1 .. 1 - 1 : FALSE
    OBVIOUS
  <2>2. FirstBy(rd, 1)
    BY <2>1 DEF FirstBy
  <2> QED
    BY <1>1, <1>2, <1>3, <2>2 DEF Coming
<1>10. ASSUME NEW g \in Coming(rd, fr), g.by = f.by PROVE g = f
  <2>1. PICK i \in 1 .. n + 1 : FirstBy(rd, i) /\ rd[i] = g
    BY <1>1, <1>2, <1>3, <1>10 DEF Coming
  <2>2. i # 1 => 1 \in 1 .. i - 1
    BY <1>1
  <2> QED
    BY <1>2, <1>10, <2>1, <2>2 DEF FirstBy
<1>11. ASSUME NEW g \in Coming(rd, fr), g.by # f.by PROVE g \in Coming(rd2, fr)
  <2>1. CASE \E i \in 1 .. n + 1 : FirstBy(rd, i) /\ rd[i] = g
    <3>1. PICK i \in 1 .. n + 1 : FirstBy(rd, i) /\ rd[i] = g
      BY <2>1
    <3>2. i \in 2 .. n + 1
      BY <1>1, <1>2, <1>11, <3>1
    <3>3. \A j \in 1 .. (i - 1) - 1 : j \in 1..n /\ j + 1 \in 1 .. i - 1
      BY <1>1
    <3>4. FirstBy(rd2, i - 1)
      BY <1>2, <1>4, <3>1, <3>2, <3>3 DEF FirstBy
    <3> QED
      BY <1>2, <1>4, <1>11, <3>1, <3>2, <3>4 DEF Coming
  <2>2. CASE /\ \A i \in 1 .. n + 1 : rd[i].by # g.by
             /\ fr[g.by] # <<>> /\ Head(fr[g.by]) = g
    <3>1. \A i \in 1..Len(rd2) : rd2[i].by # g.by
      BY <1>2, <1>3, <2>2
    <3> QED
      BY <1>11, <2>2, <3>1 DEF Coming
  <2> QED
    BY <1>1, <2>1, <2>2 DEF Coming
<1>12. ASSUME f.k < f.pkt.bins PROVE Frame(f.pkt, f.k + 1, f.by) \in Coming(rd2, fr)
  <2>1. f \in Frames /\ f.k \in Nat /\ f.pkt.bins \in 0..MaxBins /\ MaxBins \in Nat
    BY <1>2, <1>3, Constants DEF Frames
  <2>2. Frame(f.pkt, f.k + 1, f.by) \in Frames /\ Frame(f.pkt, f.k + 1, f.by).by = f.by
    BY <1>12, <2>1 DEF Frames, Frame
  <2>3. CASE \E j \in 1 + 1 .. n + 1 : NextBy(rd, 1, j) /\ Succ(rd[1], rd[j])
    <3>1. PICK j \in 2 .. n + 1 : NextBy(rd, 1, j) /\ Succ(rd[1], rd[j])
      BY <2>3
    <3>2. rd[j] = Frame(f.pkt, f.k + 1, f.by)
      BY <1>2, <1>12, <3>1 DEF Succ
    <3>3. \A m \in 1 .. (j - 1) - 1 : m \in 1..n /\ m + 1 \in 1 + 1 .. j - 1
      BY <1>1
    <3>4. \A i \in 1 .. (j - 1) - 1 : rd2[i].by # rd[1].by
      BY <1>2, <3>1, <3>3 DEF NextBy
    <3>5. FirstBy(rd2, j - 1)
      BY <1>4, <3>1, <3>4 DEF FirstBy, NextBy
    <3> QED
      BY <1>2, <1>4, <2>2, <3>1, <3>2, <3>5 DEF Coming
  <2>4. CASE LastBy(rd, 1) /\ Followed(rd[1], fr[rd[1].by])
    <3>1. \A j \in 2 .. n + 1 : rd[j].by # f.by
      BY <1>1, <1>2, <2>4 DEF LastBy
    <3>3. Followed(f, fr[f.by])
      BY <1>2, <2>4
    <3>4. fr[f.by] # <<>> /\ Head(fr[f.by]) = Frame(f.pkt, f.k + 1, f.by)
      BY <1>12, <2>1, <3>3 DEF Followed, Succ
    <3>5. \A i \in 1..Len(rd2) : i + 1 \in 2 .. n + 1 /\ rd2[i] = rd[i + 1]
      BY <1>1, <1>2
    <3>6. \A i \in 1..Len(rd2) : rd2[i].by # f.by
      BY <3>1, <3>5
    <3> QED
      BY <2>2, <3>4, <3>6 DEF Coming
  <2> QED
    BY <1>1, <1>3, <2>3, <2>4 DEF Linked
<1> QED
  BY <1>8, <1>9, <1>10, <1>11, <1>12 DEF Comes, f, rd2

LEMMA LinkedOwn ==
  ASSUME NEW rd \in Seq(Frames), NEW fr \in [Threads -> Seq(Frames)], Linked(rd, fr),
         fr[Net] # <<>>, Rest(fr[Net], Net)
  PROVE  LET fr2 == [fr EXCEPT ![Net] = Tail(fr[Net])]
         IN  Linked(rd, fr2) /\ Comes(Coming(rd, fr), Head(fr[Net]), Coming(rd, fr2))
<1> DEFINE f == Head(fr[Net])
           fr2 == [fr EXCEPT ![Net] = Tail(fr[Net])]
<1>0. Net \in Threads /\ fr[Net] \in Seq(Frames)
  BY Constants
<1>1. /\ f \in Frames /\ f.by = Net /\ Tail(fr[Net]) \in Seq(Frames)
      /\ Tail(fr[Net]) = <<>> <=> f.k = f.pkt.bins
      /\ Tail(fr[Net]) # <<>> => Head(Tail(fr[Net])).pkt = f.pkt /\ Head(Tail(fr[Net])).k = f.k + 1
      /\ Rest(Tail(fr[Net]), Net)
  BY <1>0, RestFacts
<1>2. fr2[Net] = Tail(fr[Net]) /\ \A u \in Threads : u # Net => fr2[u] = fr[u]
  BY <1>0
<1> HIDE DEF f, fr2
<1>3. \A i \in 1..Len(rd) : rd[i].by \in Threads \ {Net}
  BY ElementOfSeq, FrameFacts DEF Linked
<1>4. Linked(rd, fr2)
  BY <1>2, <1>3 DEF Linked
<1>5. f \in Coming(rd, fr)
  BY <1>0, <1>1, <1>3 DEF Coming, f
<1>6. ASSUME NEW g \in Coming(rd, fr), g.by = Net PROVE g = f
  BY <1>0, <1>3, <1>6 DEF Coming, f
<1>7. ASSUME NEW g \in Coming(rd, fr), g.by # Net PROVE g \in Coming(rd, fr2)
  <2>1. g \in Frames /\ g.by \in Threads
    BY FrameFacts DEF Coming
  <2> QED
    BY <1>2, <1>7, <2>1 DEF Coming
<1>8. ASSUME f.k < f.pkt.bins PROVE Frame(f.pkt, f.k + 1, f.by) \in Coming(rd, fr2)
  <2>1. f.k \in Nat /\ f.pkt.bins \in Nat
    BY <1>1, FrameFacts
  <2>2. Tail(fr[Net]) # <<>>
    BY <1>1, <1>8, <2>1
  <2>3. Head(Tail(fr[Net])) \in Frames /\ Head(Tail(fr[Net])).by = Net
    BY <1>0, <1>1, <2>2, RestFacts
  <2>4. Head(Tail(fr[Net])) = Frame(f.pkt, f.k + 1, f.by)
    BY <1>1, <2>2, <2>3, FrameFacts
  <2> QED
    BY <1>0, <1>1, <1>2, <1>3, <2>2, <2>3, <2>4 DEF Coming
<1> QED
  BY <1>1, <1>4, <1>5, <1>6, <1>7, <1>8 DEF Comes, f, fr2

LEMMA LinkedEncode ==
  ASSUME NEW rd \in Seq(Frames), NEW fr \in [Threads -> Seq(Frames)], Linked(rd, fr),
         NEW t \in Threads, fr[t] = <<>>, NEW p \in Packet
  PROVE  LET fr2 == [fr EXCEPT ![t] = Encode(p, t)]
         IN  Linked(rd, fr2) /\ Coming(rd, fr) \subseteq Coming(rd, fr2)
<1> DEFINE fr2 == [fr EXCEPT ![t] = Encode(p, t)]
<1>1. Encode(p, t) # <<>> /\ Head(Encode(p, t)) = Frame(p, 0, t) /\ Frame(p, 0, t).k = 0
  BY EncodeFacts DEF Frame
<1>2. fr2[t] = Encode(p, t) /\ \A u \in Threads : u # t => fr2[u] = fr[u]
  OBVIOUS
<1> HIDE DEF fr2
<1>3. \A f \in Frames : Followed(f, fr[f.by]) => Followed(f, fr2[f.by])
  <2> SUFFICES ASSUME NEW f \in Frames, Followed(f, fr[f.by]) PROVE Followed(f, fr2[f.by])
    OBVIOUS
  <2>1. f.by \in Threads /\ f.k \in Nat /\ f.pkt.bins \in Nat
    BY FrameFacts
  <2>2. CASE f.by = t
    <3>1. f.k = f.pkt.bins /\ fr2[f.by] = Encode(p, t)
      BY <1>2, <2>2 DEF Followed
    <3>2. ~(f.k < f.pkt.bins)
      BY <2>1, <3>1
    <3> QED
      BY <1>1, <3>1, <3>2 DEF Followed, Succ
  <2>3. CASE f.by # t
    BY <1>2, <2>1, <2>3
  <2> QED
    BY <2>2, <2>3
<1>4. \A i \in 1..Len(rd) : rd[i] \in Frames
  BY ElementOfSeq
<1>5. Linked(rd, fr2)
  BY <1>3, <1>4 DEF Linked
<1>6. ASSUME NEW g \in Coming(rd, fr) PROVE g \in Coming(rd, fr2)
  <2>1. g \in Frames /\ g.by \in Threads
    BY FrameFacts DEF Coming
  <2> QED
    BY <1>2, <2>1 DEF Coming
<1> QED
  BY <1>5, <1>6 DEF fr2

-----------------------------------------------------------------------------
(* What the server waits for.                                              *)

Own(p) == \A i \in 1..Len(p.bufs) : p.bufs[i].by = p.by
Whole(d) == d.bufs = Tail(Encode(d.pkt, d.by)) \/ \E k \in DOMAIN d.bufs : d.bufs[k].by # d.by

(* The next of the attachments it waits for is among those coming, C, and  *)
(* unless another thread's came between, it has all before that one.       *)
Awaits(p, C) ==
  p # NoPartial =>
    \E k \in 1..p.pkt.bins :
      /\ Frame(p.pkt, k, p.by) \in C
      /\ IF Own(p) THEN /\ k = Len(p.bufs) + 1
                        /\ \A i \in 1..Len(p.bufs) : p.bufs[i] = Frame(p.pkt, i, p.by)
                   ELSE k <= Len(p.bufs)

LEMMA WholeTexts ==
  ASSUME NEW p \in Packet, NEW t \in Threads, p.bins = 0
  PROVE  <<>> = Tail(Encode(p, t))
<1>1. Encode(p, t) \in Seq(Frames) /\ Encode(p, t) # <<>> /\ Len(Encode(p, t)) = 1
  <2>1. Len(Encode(p, t)) = p.bins + 1 /\ Encode(p, t) \in Seq(Frames) /\ Encode(p, t) # <<>>
    BY EncodeFacts
  <2> QED
    BY <2>1
<1>2. Tail(Encode(p, t)) \in Seq(Frames) /\ Len(Tail(Encode(p, t))) = 0
  BY <1>1, HeadTailProperties
<1> QED
  BY <1>2, EmptySeq

LEMMA WholePackets ==
  ASSUME NEW p \in Packet, NEW t \in Threads, NEW s \in Seq(Frames), Len(s) = p.bins,
         \A i \in 1..Len(s) : s[i] = Frame(p, i, t)
  PROVE  s = Tail(Encode(p, t))
<1>1. /\ Encode(p, t) \in Seq(Frames) /\ Encode(p, t) # <<>> /\ Len(Encode(p, t)) = p.bins + 1
      /\ \A i \in 1 .. p.bins + 1 : Encode(p, t)[i] = Frame(p, i - 1, t)
      /\ p.bins \in Nat
  BY EncodeFacts, Constants
<1>2. /\ Tail(Encode(p, t)) \in Seq(Frames) /\ Len(Tail(Encode(p, t))) = p.bins
      /\ \A i \in 1..p.bins : Tail(Encode(p, t))[i] = Encode(p, t)[i + 1]
  BY <1>1, HeadTailProperties
<1>3. ASSUME NEW i \in 1..Len(s) PROVE Tail(Encode(p, t))[i] = s[i]
  <2>1. i \in 1..p.bins /\ i + 1 \in 1 .. p.bins + 1 /\ (i + 1) - 1 = i
    BY <1>1
  <2>2. Encode(p, t)[i + 1] = Frame(p, i, t)
    BY <1>1, <2>1
  <2> QED
    BY <1>2, <2>1, <2>2
<1> QED
  BY <1>2, <1>3, SeqEqual

(* Whatever frame comes next, the server goes on waiting for one that is   *)
(* on its way, puts no packet together wrongly, and never gives up a       *)
(* packet for one of the same thread.                                      *)
LEMMA Served ==
  ASSUME partial \in Partial \cup {NoPartial}, NEW C, NEW D, NEW f \in Frames,
         writable => open, ~writable => partial = NoPartial,
         Awaits(partial, C), Comes(C, f, D), SendImpl(f), \A d \in decoded : Whole(d)
  PROVE  /\ Awaits(partial', D) /\ \A d \in decoded' : Whole(d)
         /\ f.k = 0 /\ partial # NoPartial => partial.by # f.by
<1>1. /\ f.pkt \in Packet /\ f.by \in Threads /\ f.k \in Nat /\ f.pkt.bins \in Nat
      /\ f.k <= f.pkt.bins /\ f = Frame(f.pkt, f.k, f.by)
  BY FrameFacts
<1>2. ASSUME partial # NoPartial
      PROVE  /\ partial \in Partial /\ partial.pkt \in Packet /\ partial.by \in Threads
             /\ partial.bufs \in Seq(Frames) /\ Len(partial.bufs) \in Nat
             /\ partial.pkt.bins \in Nat /\ Len(partial.bufs) < partial.pkt.bins
             /\ \A i \in 1..Len(partial.bufs) : partial.bufs[i] \in Frames
  <2>1. /\ partial \in Partial /\ partial.pkt \in Packet /\ partial.by \in Threads
        /\ partial.bufs \in Seq(Frames) /\ Len(partial.bufs) < partial.pkt.bins
    BY <1>2 DEF Partial
  <2> QED
    BY <2>1, Constants, LenProperties, ElementOfSeq
<1>3. ASSUME partial # NoPartial, f.by # partial.by, partial' = partial
      PROVE  Awaits(partial', D)
  <2>1. PICK k \in 1..partial.pkt.bins :
          /\ Frame(partial.pkt, k, partial.by) \in C
          /\ IF Own(partial)
             THEN /\ k = Len(partial.bufs) + 1
                  /\ \A i \in 1..Len(partial.bufs) : partial.bufs[i] = Frame(partial.pkt, i, partial.by)
             ELSE k <= Len(partial.bufs)
    BY <1>3 DEF Awaits
  <2>2. Frame(partial.pkt, k, partial.by).by = partial.by
    BY DEF Frame
  <2>3. Frame(partial.pkt, k, partial.by) \in D
    BY <1>3, <2>1, <2>2 DEF Comes
  <2> QED
    BY <1>3, <2>1, <2>3 DEF Awaits
<1>4. ASSUME partial # NoPartial, f.by = partial.by
      PROVE  /\ f = Frame(partial.pkt, f.k, partial.by) /\ f.pkt = partial.pkt /\ f.k > 0
             /\ IF Own(partial)
                THEN /\ f.k = Len(partial.bufs) + 1
                     /\ \A i \in 1..Len(partial.bufs) : partial.bufs[i] = Frame(partial.pkt, i, partial.by)
                ELSE f.k <= Len(partial.bufs)
  <2>1. PICK k \in 1..partial.pkt.bins :
          /\ Frame(partial.pkt, k, partial.by) \in C
          /\ IF Own(partial)
             THEN /\ k = Len(partial.bufs) + 1
                  /\ \A i \in 1..Len(partial.bufs) : partial.bufs[i] = Frame(partial.pkt, i, partial.by)
             ELSE k <= Len(partial.bufs)
    BY <1>4 DEF Awaits
  <2>2. /\ Frame(partial.pkt, k, partial.by).by = partial.by /\ Frame(partial.pkt, k, partial.by).k = k
        /\ Frame(partial.pkt, k, partial.by).pkt = partial.pkt
    BY DEF Frame
  <2>3. Frame(partial.pkt, k, partial.by) = f
    BY <1>4, <2>1, <2>2 DEF Comes
  <2>4. k > 0
    BY <1>2, <1>4
  <2> QED
    BY <2>1, <2>2, <2>3, <2>4
<1>5. CASE (~writable \/ f.k = 0) /\ Forgone(f)
  <2>1. partial' = partial /\ decoded' = decoded
    BY <1>5 DEF Forgone, peerVars
  <2>2. CASE partial = NoPartial
    BY <2>1, <2>2 DEF Awaits
  <2>3. CASE partial # NoPartial
    <3>1. partial.by # f.by
      BY <1>1, <1>4, <1>5, <2>3
    <3> QED
      BY <1>3, <2>1, <2>3, <3>1
  <2> QED
    BY <2>2, <2>3
<1>6. CASE Written(f) /\ f.k = 0
  <2> DEFINE p == [pkt |-> f.pkt, by |-> f.by, bufs |-> <<>>]
  <2>1. ReceiveText(f)
    BY <1>6 DEF Written
  <2>2. partial # NoPartial => partial.by # f.by
    BY <1>1, <1>4, <1>6
  <2>3. CASE f.pkt.bins = 0
    <3>1. partial' = partial /\ decoded' = decoded \cup {p}
      BY <2>1, <2>3 DEF ReceiveText, Complete
    <3>2. Whole(p)
      BY <1>1, <2>3, WholeTexts DEF Whole
    <3>3. Awaits(partial', D)
      BY <1>3, <2>2, <3>1 DEF Awaits
    <3> QED
      BY <2>2, <3>1, <3>2, <3>3
  <2>4. CASE f.pkt.bins # 0
    <3>1. partial' = p /\ decoded' = decoded
      BY <2>1, <2>4 DEF ReceiveText
    <3>2. Frame(f.pkt, 1, f.by) \in D /\ 1 \in 1..f.pkt.bins
      BY <1>1, <1>6, <2>4 DEF Comes
    <3>3. Len(p.bufs) = 0 /\ p.pkt = f.pkt /\ p.by = f.by
      BY EmptySeq
    <3>4. Own(p)
      BY <3>3 DEF Own
    <3>5. Awaits(p, D)
      BY <3>2, <3>3, <3>4 DEF Awaits
    <3> QED
      BY <2>2, <3>1, <3>5
  <2> QED
    BY <2>3, <2>4
<1>7. CASE Written(f) /\ f.k # 0
  <2>1. ReceiveBinary(f)
    BY <1>7 DEF Written
  <2>2. CASE partial = NoPartial
    BY <1>7, <2>1, <2>2 DEF ReceiveBinary, peerVars, Awaits
  <2>3. CASE partial # NoPartial
    <3> DEFINE q == [partial EXCEPT !.bufs = Append(@, f)]
    <3>1. PICK n \in Nat : n = Len(partial.bufs)
      BY <1>2, <2>3
    <3>2. /\ q.pkt = partial.pkt /\ q.by = partial.by /\ q.bufs = Append(partial.bufs, f)
          /\ q.bufs \in Seq(Frames) /\ Len(q.bufs) = n + 1 /\ q.bufs[n + 1] = f
          /\ \A i \in 1..n : q.bufs[i] = partial.bufs[i]
          /\ DOMAIN q.bufs = 1 .. n + 1
      <4>1. q.pkt = partial.pkt /\ q.by = partial.by /\ q.bufs = Append(partial.bufs, f)
        BY <1>2, <2>3 DEF Partial
      <4> HIDE DEF q
      <4>2. q.bufs \in Seq(Frames) /\ Len(q.bufs) = n + 1 /\ q.bufs[n + 1] = f
        BY <1>2, <2>3, <3>1, <4>1, AppendProperties
      <4>3. \A i \in 1..n : q.bufs[i] = partial.bufs[i]
        BY <1>2, <2>3, <3>1, <4>1, AppendProperties
      <4> QED
        BY <4>1, <4>2, <4>3, LenProperties
    <3>3. IF n + 1 < partial.pkt.bins THEN partial' = q /\ decoded' = decoded
                                      ELSE partial' = NoPartial /\ decoded' = decoded \cup {q}
      BY <2>1, <2>3, <3>2 DEF ReceiveBinary, Complete
    <3> HIDE DEF q
    <3>4. n < partial.pkt.bins /\ partial.pkt.bins \in Nat
      BY <1>2, <2>3, <3>1
    <3>5. SUFFICES (n + 1 < partial.pkt.bins => Awaits(q, D)) /\ (~(n + 1 < partial.pkt.bins) => Whole(q))
      BY <1>7, <3>3 DEF Awaits
    <3>6. n + 1 \in 1 .. n + 1 /\ \A i \in 1..n : i \in 1 .. n + 1
      BY <3>1
    <3>7. CASE f.by # partial.by
      <4>1. Whole(q) /\ ~Own(q)
        BY <3>2, <3>6, <3>7 DEF Whole, Own
      <4>2. PICK k \in 1..partial.pkt.bins :
              Frame(partial.pkt, k, partial.by) \in C /\ k <= n + 1
        BY <2>3, <3>1 DEF Awaits
      <4>3. Frame(partial.pkt, k, partial.by).by = partial.by
        BY DEF Frame
      <4>4. Frame(partial.pkt, k, partial.by) \in D
        BY <3>7, <4>2, <4>3 DEF Comes
      <4>5. Awaits(q, D)
        BY <3>2, <4>1, <4>2, <4>4 DEF Awaits
      <4> QED
        BY <4>1, <4>5
    <3>8. CASE f.by = partial.by /\ ~Own(partial)
      <4>1. PICK i \in 1..n : partial.bufs[i].by # partial.by
        BY <3>1, <3>8 DEF Own
      <4>2. Whole(q) /\ ~Own(q)
        BY <3>2, <3>6, <4>1 DEF Whole, Own
      <4>3. f.k <= n /\ f.pkt = partial.pkt
        BY <1>4, <2>3, <3>1, <3>8
      <4>5. ASSUME n + 1 < partial.pkt.bins PROVE Awaits(q, D)
        <5>1. f.k + 1 \in 1..partial.pkt.bins /\ f.k < f.pkt.bins /\ f.k + 1 <= n + 1
          BY <1>1, <3>1, <3>4, <4>3, <4>5
        <5>2. Frame(partial.pkt, f.k + 1, partial.by) \in D
          BY <3>8, <4>3, <5>1 DEF Comes
        <5> QED
          BY <3>2, <4>2, <5>1, <5>2 DEF Awaits
      <4> QED
        BY <4>2, <4>5
    <3>9. CASE f.by = partial.by /\ Own(partial)
      <4>1. /\ f.k = n + 1 /\ f.pkt = partial.pkt /\ f = Frame(partial.pkt, n + 1, partial.by)
            /\ \A i \in 1..n : partial.bufs[i] = Frame(partial.pkt, i, partial.by)
        BY <1>4, <2>3, <3>1, <3>9
      <4>2. \A i \in 1 .. n + 1 : q.bufs[i] = Frame(partial.pkt, i, partial.by)
        <5>1. \A i \in 1 .. n + 1 : i \in 1..n \/ i = n + 1
          BY <3>1
        <5> QED
          BY <3>2, <4>1, <5>1
      <4>3. Own(q)
        <5>1. \A i \in 1 .. n + 1 : Frame(partial.pkt, i, partial.by).by = partial.by
          BY DEF Frame
        <5> QED
          BY <3>2, <4>2, <5>1 DEF Own
      <4>4. ASSUME n + 1 < partial.pkt.bins PROVE Awaits(q, D)
        <5>1. (n + 1) + 1 \in 1..partial.pkt.bins /\ n + 1 < f.pkt.bins
          BY <3>1, <3>4, <4>1, <4>4
        <5>2. Frame(partial.pkt, (n + 1) + 1, partial.by) \in D
          BY <3>9, <4>1, <5>1 DEF Comes
        <5> QED
          BY <3>2, <4>2, <4>3, <5>1, <5>2 DEF Awaits
      <4>5. ASSUME ~(n + 1 < partial.pkt.bins) PROVE Whole(q)
        <5>1. n + 1 = partial.pkt.bins
          BY <3>1, <3>4, <4>5
        <5>2. q.bufs = Tail(Encode(partial.pkt, partial.by))
          BY <1>2, <2>3, <3>2, <4>2, <5>1, WholePackets
        <5> QED
          BY <3>2, <5>2 DEF Whole
      <4> QED
        BY <4>4, <4>5
    <3> QED
      BY <3>7, <3>8, <3>9
  <2> QED
    BY <2>2, <2>3
<1> QED
  BY <1>5, <1>6, <1>7 DEF SendImpl

Lines ==
  /\ Linked(ready, frames) /\ Awaits(partial, Coming(ready, frames))
  /\ \A d \in decoded : Whole(d)

LEMMA AwaitsMore ==
  ASSUME NEW C, NEW D, C \subseteq D, NEW p, Awaits(p, C)
  PROVE  Awaits(p, D)
BY DEF Awaits

LEMMA InitLines == Init => Lines
<1> SUFFICES ASSUME Init PROVE Lines
  OBVIOUS
<1>1. ready = <<>> /\ Len(ready) = 0 /\ partial = NoPartial /\ decoded = {}
  BY EmptySeq DEF Init
<1>2. Linked(ready, frames)
  BY <1>1 DEF Linked
<1> QED
  BY <1>1, <1>2 DEF Lines, Awaits

LEMMA RunSendLines ==
  ASSUME Typed, Lines, RunSend
  PROVE  /\ Lines'
         /\ Head(ready).k = 0 /\ partial # NoPartial => partial.by # Head(ready).by
<1>1. /\ ready # <<>> /\ Head(ready) \in Frames /\ ready' = Tail(ready) /\ SendImpl(Head(ready))
      /\ frames' = frames
  BY RunSendTyped DEF sendVars
<1>2. /\ ready \in Seq(Frames) /\ frames \in [Threads -> Seq(Frames)]
      /\ partial \in Partial \cup {NoPartial} /\ (~writable => partial = NoPartial)
      /\ (writable => open)
  BY DEF Typed, Types, Switches
<1>3. /\ Linked(ready', frames')
      /\ Comes(Coming(ready, frames), Head(ready), Coming(ready', frames'))
  BY <1>1, <1>2, LinkedTail DEF Lines
<1>4. Awaits(partial, Coming(ready, frames)) /\ \A d \in decoded : Whole(d)
  BY DEF Lines
<1>5. /\ Awaits(partial', Coming(ready', frames')) /\ \A d \in decoded' : Whole(d)
      /\ Head(ready).k = 0 /\ partial # NoPartial => partial.by # Head(ready).by
  BY <1>1, <1>2, <1>3, <1>4, Served
<1> QED
  BY <1>3, <1>5 DEF Lines

LEMMA HandOverLines ==
  ASSUME Typed, Lines, NEW t \in Threads, HandOver(t)
  PROVE  /\ Lines'
         /\ t = Net /\ Head(frames[t]).k = 0 /\ partial # NoPartial => partial.by # t
<1>1. /\ frames[t] # <<>> /\ Rest(frames[t], t) /\ frames[t] \in Seq(Frames)
      /\ frames' = [frames EXCEPT ![t] = Tail(frames[t])]
      /\ IF t = Net THEN SendImpl(Head(frames[t])) /\ UNCHANGED ready
                    ELSE ready' = Append(ready, Head(frames[t])) /\ UNCHANGED <<peerVars, lost>>
  BY HandOverTyped
<1>2. /\ ready \in Seq(Frames) /\ frames \in [Threads -> Seq(Frames)]
      /\ partial \in Partial \cup {NoPartial} /\ (~writable => partial = NoPartial)
      /\ (writable => open)
  BY DEF Typed, Types, Switches
<1>3. Head(frames[t]) \in Frames /\ Head(frames[t]).by = t
  BY <1>1, RestFacts
<1>4. /\ Linked(ready, frames) /\ Awaits(partial, Coming(ready, frames))
      /\ \A d \in decoded : Whole(d)
  BY DEF Lines
<1>5. CASE t = Net
  <2>1. SendImpl(Head(frames[t])) /\ ready' = ready
    BY <1>1, <1>5
  <2>2. /\ Linked(ready, frames')
        /\ Comes(Coming(ready, frames), Head(frames[t]), Coming(ready, frames'))
    BY <1>1, <1>2, <1>4, <1>5, LinkedOwn
  <2>3. /\ Awaits(partial', Coming(ready, frames')) /\ \A d \in decoded' : Whole(d)
        /\ Head(frames[t]).k = 0 /\ partial # NoPartial => partial.by # Head(frames[t]).by
    BY <1>2, <1>3, <1>4, <2>1, <2>2, Served
  <2> QED
    BY <1>3, <2>1, <2>2, <2>3 DEF Lines
<1>6. CASE t # Net
  <2>1. ready' = Append(ready, Head(frames[t])) /\ partial' = partial /\ decoded' = decoded
    BY <1>1, <1>6 DEF peerVars
  <2>2. Linked(ready', frames') /\ Coming(ready, frames) \subseteq Coming(ready', frames')
    BY <1>1, <1>2, <1>4, <1>6, <2>1, LinkedAppend
  <2> QED
    BY <1>4, <1>6, <2>1, <2>2, AwaitsMore DEF Lines
<1> QED
  BY <1>5, <1>6

(* A thread that has handed everything over begins another packet.         *)
LEMMA EncodeLines ==
  ASSUME Typed, Lines, NEW t \in Threads, frames[t] = <<>>, NEW p \in Packet,
         frames' = [frames EXCEPT ![t] = Encode(p, t)], UNCHANGED <<ready, peerVars>>
  PROVE  Lines'
<1>1. ready \in Seq(Frames) /\ frames \in [Threads -> Seq(Frames)]
  BY DEF Typed, Types
<1>2. /\ Linked(ready, frames) /\ Awaits(partial, Coming(ready, frames))
      /\ \A d \in decoded : Whole(d)
  BY DEF Lines
<1>3. Linked(ready, frames') /\ Coming(ready, frames) \subseteq Coming(ready, frames')
  BY <1>1, <1>2, LinkedEncode
<1> QED
  BY <1>2, <1>3, AwaitsMore DEF Lines, peerVars

LEMMA NextLines == Typed /\ Lines /\ [Next]_vars => Lines'
<1> SUFFICES ASSUME Typed, Lines, [Next]_vars PROVE Lines'
  OBVIOUS
<1>1. ASSUME UNCHANGED <<ready, frames, partial, decoded>> PROVE Lines'
  BY <1>1 DEF Lines
<1>2. CASE UNCHANGED vars
  BY <1>1, <1>2 DEF vars, sendVars, peerVars
<1>3. ASSUME NEW t \in Threads, Emit(t) \/ Increment(t) \/ Register(t) PROVE Lines'
  BY <1>1, <1>3 DEF Emit, Increment, Register, peerVars
<1>4. ASSUME NEW t \in Threads, SendPacket(t) PROVE Lines'
  <2>1. /\ pkt[t] \in Packet /\ frames[t] = <<>> /\ UNCHANGED <<ready, peerVars>>
        /\ \/ frames' = frames
           \/ Head(queue) \in Packet /\ frames' = [frames EXCEPT ![t] = Encode(Head(queue), t)]
           \/ frames' = [frames EXCEPT ![t] = Encode(pkt[t], t)]
    BY <1>4, SendPacketTyped
  <2> QED
    BY <1>1, <2>1, EncodeLines DEF peerVars
<1>5. ASSUME NEW t \in Threads, HandOver(t) PROVE Lines'
  BY <1>5, HandOverLines
<1>6. CASE RunSend
  BY <1>6, RunSendLines
<1>7. CASE OnOpen \/ OnConnected
  BY <1>1, <1>7, OpenTyped DEF peerVars
<1>8. CASE Drain
  <2>1. /\ frames[Net] = <<>> /\ UNCHANGED <<ready, peerVars>>
        /\ \/ frames' = frames
           \/ Head(queue) \in Packet /\ frames' = [frames EXCEPT ![Net] = Encode(Head(queue), Net)]
    BY <1>8, DrainTyped
  <2> QED
    BY <1>1, <2>1, Constants, EncodeLines DEF peerVars
<1>9. CASE BeginClosing \/ OnClose
  BY <1>9, CloseTyped DEF Lines, Awaits, sendVars
<1>10. CASE OnAck
  BY <1>1, <1>10, AckTyped DEF sendVars
<1> QED
  BY <1>2, <1>3, <1>4, <1>5, <1>6, <1>7, <1>8, <1>9, <1>10 DEF Next

LEMMA LinesInvariant == Spec => [](Typed /\ Lines)
BY InitTyped, InitLines, NextTyped, NextLines, PTL DEF Spec

(* A packet is put together from another one's attachments only where      *)
(* another thread's frames came in between: whatever is queued, posted, or *)
(* lost with a connection, one thread's frames stay in order and none of   *)
(* them is left out.                                                       *)
THEOREM AttachmentsStay == Spec => []MixedOnlyAcrossThreads
<1>1. Lines => MixedOnlyAcrossThreads
  BY DEF Lines, Whole, MixedOnlyAcrossThreads
<1> QED
  BY <1>1, LinesInvariant, PTL

-----------------------------------------------------------------------------
(* Each callback is filed once and called once.                            *)

Filed == {acks[i] : i \in Ids} \cup {a.cb : a \in answered}

Once ==
  /\ \A i, j \in Ids : acks[i] = acks[j] /\ acks[i] # NoEmit => i = j
  /\ \A a \in answered : a.cb # NoEmit => \A i \in Ids : acks[i] # a.cb
  /\ AtMostOnce
  /\ \A t \in Threads : pkt[t] # NoPacket => pkt[t].emit[2] <= calls
  /\ \A t \in Threads : pc[t] \in {"increment", "register"} => pkt[t].emit \notin Filed
  /\ \A e \in Emits : e[2] > calls => e \notin Filed

LEMMA InitOnce == Init => Once
<1> SUFFICES ASSUME Init PROVE Once
  OBVIOUS
<1>1. /\ \A i \in Ids : acks[i] = NoEmit
      /\ answered = {} /\ \A t \in Threads : pkt[t] = NoPacket /\ pc[t] = "idle"
  BY DEF Init
<1>2. \A e \in Emits : e \notin Filed
  BY <1>1, Constants DEF Filed
<1> QED
  BY <1>1, <1>2 DEF Once, AtMostOnce

LEMMA EmitOnce ==
  ASSUME Typed, Once, NEW t \in Threads, Emit(t)
  PROVE  Once'
<1>1. /\ pc \in [Threads -> Labels] /\ pkt \in [Threads -> Packet \cup Draft \cup {NoPacket}]
      /\ calls \in Nat /\ \A u \in Threads : pkt[u].emit[2] \in Int
  <2>1. \A p \in Packet \cup Draft : p.emit[2] \in Int
    BY Constants
  <2>2. NoPacket.emit[2] = 0
    BY DEF NoPacket, NoEmit
  <2>3. /\ pc \in [Threads -> Labels] /\ pkt \in [Threads -> Packet \cup Draft \cup {NoPacket}]
        /\ calls \in 0..MaxCalls
    BY DEF Typed, Types
  <2> QED
    BY <2>1, <2>2, <2>3, Constants
<1>2. /\ calls' = calls + 1 /\ calls < MaxCalls /\ acks' = acks /\ answered' = answered
      /\ \E bins \in 0..MaxBins, id \in {-1, nextId}, l \in {"send", "increment"} :
           /\ pkt' = [pkt EXCEPT ![t] = [emit |-> <<t, calls'>>, id |-> id, bins |-> bins]]
           /\ pc' = [pc EXCEPT ![t] = l]
  BY DEF Emit, EmitOf, Goto
<1>3. /\ pkt'[t].emit = <<t, calls + 1>>
      /\ \A u \in Threads \ {t} : pkt'[u] = pkt[u] /\ pc'[u] = pc[u]
  BY <1>1, <1>2
<1>4. <<t, calls + 1>> \in Emits /\ <<t, calls + 1>>[2] = calls + 1
  BY <1>1, <1>2, Constants DEF Emits
<1>5. <<t, calls + 1>> \notin Filed
  BY <1>1, <1>4 DEF Once
<1>6. \A e \in Emits : e[2] \in Nat
  BY Constants
<1>7. Filed' = Filed
  BY <1>2 DEF Filed
<1>8. \A u \in Threads : pkt'[u] # NoPacket => pkt'[u].emit[2] <= calls'
  BY <1>1, <1>2, <1>3, <1>4 DEF Once
<1>9. \A u \in Threads : pc'[u] \in {"increment", "register"} => pkt'[u].emit \notin Filed'
  <2> SUFFICES ASSUME NEW u \in Threads, pc'[u] \in {"increment", "register"}
               PROVE  pkt'[u].emit \notin Filed
    BY <1>7
  <2> QED
    BY <1>3, <1>5 DEF Once
<1>10. \A e \in Emits : e[2] > calls' => e \notin Filed'
  <2> SUFFICES ASSUME NEW e \in Emits, e[2] > calls + 1 PROVE e \notin Filed
    BY <1>2, <1>7
  <2>1. e[2] > calls
    BY <1>1, <1>6
  <2> QED
    BY <2>1 DEF Once
<1>11. AtMostOnce'
  BY <1>2 DEF Once, AtMostOnce
<1>12. /\ \A i, j \in Ids : acks'[i] = acks'[j] /\ acks'[i] # NoEmit => i = j
       /\ \A a \in answered' : a.cb # NoEmit => \A i \in Ids : acks'[i] # a.cb
  BY <1>2 DEF Once
<1> QED
  BY <1>8, <1>9, <1>10, <1>11, <1>12 DEF Once

LEMMA RegisterOnce ==
  ASSUME Typed, Once, NEW t \in Threads, Register(t)
  PROVE  Once'
<1> DEFINE e == pkt[t].emit
           id == pkt[t].id
<1>1. /\ pkt[t] \in Packet /\ acks' = [acks EXCEPT ![id] = e] /\ pc[t] = "register"
      /\ pc' = [pc EXCEPT ![t] = "send"] /\ pkt' = pkt /\ answered' = answered /\ calls' = calls
  BY RegisterTyped DEF Register, At
<1>2. e \in Emits /\ e # NoEmit /\ id \in Ids /\ e[2] <= calls /\ e \notin Filed /\ e[1] = t
  <2>1. Hand(t)
    BY DEF Typed
  <2> QED
    BY <1>1, <2>1, Constants DEF Packet, Once, Hand
<1>3. acks \in [Ids -> Emits \cup {NoEmit}] /\ pc \in [Threads -> Labels] /\ calls \in Nat
  BY Constants DEF Typed, Types
<1> HIDE DEF e, id
<1>4. acks'[id] = e /\ \A i \in Ids : i # id => acks'[i] = acks[i]
  BY <1>1, <1>2, <1>3
<1>5. Filed' \subseteq Filed \cup {e}
  BY <1>1, <1>4 DEF Filed
<1>6. (\A i \in Ids : acks[i] # e) /\ \A a \in answered : a.cb # e
  BY <1>2 DEF Filed
<1>7. \A i, j \in Ids : acks'[i] = acks'[j] /\ acks'[i] # NoEmit => i = j
  <2> SUFFICES ASSUME NEW i \in Ids, NEW j \in Ids, acks'[i] = acks'[j], acks'[i] # NoEmit
               PROVE  i = j
    OBVIOUS
  <2> QED
    BY <1>4, <1>6 DEF Once
<1>8. \A a \in answered' : a.cb # NoEmit => \A i \in Ids : acks'[i] # a.cb
  BY <1>1, <1>4, <1>6 DEF Once
<1>9. \A u \in Threads : pc'[u] \in {"increment", "register"} => pkt'[u].emit \notin Filed'
  <2> SUFFICES ASSUME NEW u \in Threads, pc'[u] \in {"increment", "register"}
               PROVE  pkt[u].emit \notin Filed'
    BY <1>1
  <2>1. u # t /\ pc[u] \in {"increment", "register"}
    BY <1>1, <1>3
  <2>2. pkt[u].emit \notin Filed /\ pkt[u].emit[1] = u
    <3>1. Hand(u)
      BY DEF Typed
    <3> QED
      BY <2>1, <3>1, Constants DEF Hand, Once
  <2> QED
    BY <1>2, <1>5, <2>1, <2>2
<1>10. \A d \in Emits : d[2] > calls' => d \notin Filed'
  <2> SUFFICES ASSUME NEW d \in Emits, d[2] > calls PROVE d \notin Filed'
    BY <1>1
  <2>1. d # e
    BY <1>2, <1>3, Constants
  <2> QED
    BY <1>5, <2>1 DEF Once
<1>11. AtMostOnce'
  BY <1>1 DEF Once, AtMostOnce
<1>12. \A u \in Threads : pkt'[u] # NoPacket => pkt'[u].emit[2] <= calls'
  BY <1>1 DEF Once
<1> QED
  BY <1>7, <1>8, <1>9, <1>10, <1>11, <1>12 DEF Once

LEMMA AckOnce ==
  ASSUME Typed, Once, OnAck
  PROVE  Once'
<1>1. PICK p \in owed : /\ owed' = owed \ {p} /\ acks' = [acks EXCEPT ![p.id] = NoEmit]
                        /\ answered' = answered \cup {[of |-> p.emit, cb |-> acks[p.id]]}
                        /\ p.id \in Ids /\ acks[p.id] \in Emits \cup {NoEmit}
  BY AckTyped
<1>2. pc' = pc /\ pkt' = pkt /\ calls' = calls
  BY AckTyped DEF sendVars
<1>3. acks \in [Ids -> Emits \cup {NoEmit}]
  BY DEF Typed, Types
<1>4. acks'[p.id] = NoEmit /\ \A i \in Ids : i # p.id => acks'[i] = acks[i]
  BY <1>1, <1>3
<1>5. PICK b : b.cb = acks[p.id] /\ answered' = answered \cup {b}
  <2>1. [of |-> p.emit, cb |-> acks[p.id]].cb = acks[p.id]
    OBVIOUS
  <2> QED
    BY <1>1, <2>1
<1>6. Filed' \subseteq Filed \cup {NoEmit}
  BY <1>1, <1>4, <1>5 DEF Filed
<1>7. \A i, j \in Ids : acks'[i] = acks'[j] /\ acks'[i] # NoEmit => i = j
  BY <1>4 DEF Once
<1>8. \A a \in answered' : a.cb # NoEmit => \A i \in Ids : acks'[i] # a.cb
  BY <1>1, <1>4, <1>5 DEF Once
<1>9. AtMostOnce'
  <2> SUFFICES ASSUME NEW a \in answered \cup {b}, NEW c \in answered \cup {b},
                      a.cb = c.cb, a.cb # NoEmit
               PROVE  a = c
    BY <1>5 DEF AtMostOnce
  <2>1. \A x \in answered : x.cb # NoEmit => x.cb # b.cb
    BY <1>1, <1>5 DEF Once
  <2> QED
    BY <2>1 DEF Once, AtMostOnce
<1>10. /\ \A t \in Threads : pc'[t] \in {"increment", "register"} => pkt'[t].emit \notin Filed'
       /\ \A e \in Emits : e[2] > calls' => e \notin Filed'
  <2>1. \A t \in Threads : pc[t] \in {"increment", "register"} => pkt[t].emit # NoEmit
    <3> SUFFICES ASSUME NEW t \in Threads, pc[t] \in {"increment", "register"}
                 PROVE  pkt[t].emit # NoEmit
      OBVIOUS
    <3>1. Hand(t)
      BY DEF Typed
    <3> QED
      BY <3>1, Constants DEF Hand
  <2> QED
    BY <1>2, <1>6, <2>1, Constants DEF Once
<1>11. \A t \in Threads : pkt'[t] # NoPacket => pkt'[t].emit[2] <= calls'
  BY <1>2 DEF Once
<1> QED
  BY <1>7, <1>8, <1>9, <1>10, <1>11 DEF Once

(* Steps that leave the callbacks alone and begin no emit.                 *)
LEMMA OtherOnce ==
  ASSUME Once, UNCHANGED <<acks, answered, calls>>,
         \A t \in Threads : pkt'[t] # NoPacket => pkt'[t].emit = pkt[t].emit /\ pkt[t] # NoPacket,
         \A t \in Threads : pc'[t] \in {"increment", "register"} =>
           pc[t] \in {"increment", "register"} /\ pkt'[t].emit = pkt[t].emit
  PROVE  Once'
<1>1. Filed' = Filed
  BY DEF Filed
<1>2. AtMostOnce'
  BY DEF Once, AtMostOnce
<1>3. \A t \in Threads : pkt'[t] # NoPacket => pkt'[t].emit[2] <= calls'
  BY DEF Once
<1>4. \A t \in Threads : pc'[t] \in {"increment", "register"} => pkt'[t].emit \notin Filed'
  BY <1>1 DEF Once
<1>5. \A e \in Emits : e[2] > calls' => e \notin Filed'
  BY <1>1 DEF Once
<1> QED
  BY <1>2, <1>3, <1>4, <1>5 DEF Once

LEMMA NextOnce == Typed /\ Once /\ [Next]_vars => Once'
<1> SUFFICES ASSUME Typed, Once, [Next]_vars PROVE Once'
  OBVIOUS
<1>1. pc \in [Threads -> Labels] /\ pkt \in [Threads -> Packet \cup Draft \cup {NoPacket}]
  BY DEF Typed, Types
<1>2. ASSUME UNCHANGED <<acks, answered, calls, pkt, pc>> PROVE Once'
  BY <1>2, OtherOnce
<1>3. CASE UNCHANGED vars
  BY <1>2, <1>3 DEF vars, sendVars
<1>4. ASSUME NEW t \in Threads, Increment(t) PROVE Once'
  <2>1. /\ UNCHANGED <<acks, answered, calls>> /\ pkt'[t].emit = pkt[t].emit
        /\ pc[t] = "increment" /\ pkt[t] # NoPacket
        /\ \A u \in Threads \ {t} : pc'[u] = pc[u] /\ pkt'[u] = pkt[u]
    <3>1. pkt[t] \in Draft /\ pkt'[t] = [pkt[t] EXCEPT !.id = ToInt(pkt[t].id)]
      BY <1>4, IncrementTyped
    <3>2. pkt'[t].emit = pkt[t].emit /\ pkt[t] # NoPacket
      BY <3>1, Constants DEF Draft
    <3> QED
      BY <1>1, <1>4, <3>2 DEF Increment, At, Goto
  <2> QED
    BY <2>1, OtherOnce
<1>5. ASSUME NEW t \in Threads, SendPacket(t) PROVE Once'
  <2>1. /\ UNCHANGED <<acks, answered, calls>>
        /\ pkt' = pkt \/ pkt' = [pkt EXCEPT ![t] = NoPacket]
        /\ \E l \in {"idle", "flush", "encode"} : pc' = [pc EXCEPT ![t] = l]
    BY <1>5, SendPacketTyped
  <2>2. /\ \A u \in Threads : pkt'[u] = NoPacket \/ pkt'[u] = pkt[u]
        /\ \A u \in Threads : u # t => pkt'[u] = pkt[u]
    BY <1>1, <2>1
  <2>3. \A u \in Threads : pc'[u] \in {"increment", "register"} => pc[u] = pc'[u] /\ u # t
    BY <1>1, <2>1
  <2> QED
    BY <2>1, <2>2, <2>3, OtherOnce
<1>6. ASSUME NEW t \in Threads, HandOver(t) PROVE Once'
  <2>1. /\ UNCHANGED <<acks, answered, calls>>
        /\ pkt' = pkt \/ pkt' = [pkt EXCEPT ![t] = NoPacket]
        /\ pc' = pc \/ \E l \in {"idle", "send", "drain"} : pc' = [pc EXCEPT ![t] = l]
        /\ pc[t] \in {"flush", "encode", "drainSend"}
    BY <1>6, HandOverTyped
  <2>2. /\ \A u \in Threads : pkt'[u] = NoPacket \/ pkt'[u] = pkt[u]
        /\ \A u \in Threads : u # t => pkt'[u] = pkt[u]
    BY <1>1, <2>1
  <2>3. \A u \in Threads : pc'[u] \in {"increment", "register"} => pc[u] = pc'[u] /\ u # t
    BY <1>1, <2>1
  <2> QED
    BY <2>1, <2>2, <2>3, OtherOnce
<1>7. CASE RunSend
  BY <1>2, <1>7, RunSendTyped DEF sendVars
<1>8. ASSUME UNCHANGED <<acks, answered, calls, pkt>>,
             \E l \in {"idle", "drain", "drainSend"} : pc' = [pc EXCEPT ![Net] = l]
      PROVE  Once'
  <2>1. \A u \in Threads : pc'[u] \in {"increment", "register"} => pc[u] = pc'[u]
    BY <1>1, <1>8
  <2> QED
    BY <1>8, <2>1, OtherOnce
<1>9. CASE OnOpen \/ OnConnected
  BY <1>2, <1>8, <1>9, OpenTyped
<1>10. CASE Drain
  BY <1>8, <1>10, DrainTyped
<1>11. CASE BeginClosing \/ OnClose
  BY <1>2, <1>11, CloseTyped DEF sendVars
<1> QED
  BY <1>3, <1>4, <1>5, <1>6, <1>7, <1>9, <1>10, <1>11, EmitOnce, RegisterOnce, AckOnce DEF Next

(* A callback is called once at most, also when s_global_event_id gave its *)
(* id to another packet, was passed by the largest int or came round.      *)
THEOREM CalledOnce == Spec => []AtMostOnce
<1>1. Once => AtMostOnce
  BY DEF Once
<1> QED
  BY <1>1, InitOnce, InitTyped, NextOnce, NextTyped, PTL DEF Spec

-----------------------------------------------------------------------------
(* Where packets are.  A packet is at one place at a time: in the hands of *)
(* its thread, queued, among the frames of a thread or those posted, at    *)
(* the server, or with its answer on the way.  Once the text has gone to   *)
(* the server, the attachments still to come do not count.                 *)

Drafts == {"increment", "register"}
Places == Drafts \cup {"send", "queue", "frames", "ready", "server", "owed"}
Spot == [at : Places, by : Threads, pkt : Packet \cup Draft]
Mark(w, t, p) == [at |-> w, by |-> t, pkt |-> p]

Texts(s) == {f.pkt : f \in {g \in Elems(s) : g.k = 0}}

Stage(t) == IF pc[t] = "flush" THEN "send" ELSE pc[t]
Mine(t) == IF Stage(t) \in Drafts \cup {"send"} THEN {Mark(Stage(t), t, pkt[t])} ELSE {}

Hands == {s \in Spot : s \in Mine(s.by)}
Framed == {s \in Spot : s.at = "frames" /\ s.pkt \in Texts(frames[s.by])}
Queued == {s \in Spot : s.at = "queue" /\ s.by = Net /\ s.pkt \in Elems(queue)}
Posted == {s \in Spot : s.at = "ready" /\ s.by = Net /\ s.pkt \in Texts(ready)}
AtServer == {s \in Spot : /\ s.at = "server" /\ s.by = Net
                          /\ partial # NoPartial /\ s.pkt = partial.pkt}
Owing == {s \in Spot : s.at = "owed" /\ s.by = Net /\ s.pkt \in owed}

Spots == Hands \cup Framed \cup Queued \cup Posted \cup AtServer \cup Owing

LEMMA MarkFacts ==
  ASSUME NEW w \in Places, NEW t \in Threads, NEW p \in Packet \cup Draft
  PROVE  /\ Mark(w, t, p) \in Spot /\ Mark(w, t, p).at = w /\ Mark(w, t, p).by = t
         /\ Mark(w, t, p).pkt = p
BY DEF Mark, Spot

LEMMA SpotFacts == \A s \in Spot : s = Mark(s.at, s.by, s.pkt) /\ s.by \in Threads
BY DEF Mark, Spot

LEMMA Kinds ==
  /\ \A s \in Hands : s \in Spot /\ s.at \in Drafts \cup {"send"}
  /\ \A s \in Framed : s \in Spot /\ s.at = "frames"
  /\ \A s \in Queued : s \in Spot /\ s.at = "queue"
  /\ \A s \in Posted : s \in Spot /\ s.at = "ready"
  /\ \A s \in AtServer : s \in Spot /\ s.at = "server"
  /\ \A s \in Owing : s \in Spot /\ s.at = "owed"
  /\ Spots \subseteq Spot
<1>1. \A s \in Hands : s \in Spot /\ s.at \in Drafts \cup {"send"}
  BY DEF Hands, Mine, Mark
<1>2. /\ \A s \in Framed : s \in Spot /\ s.at = "frames"
      /\ \A s \in Queued : s \in Spot /\ s.at = "queue"
      /\ \A s \in Posted : s \in Spot /\ s.at = "ready"
      /\ \A s \in AtServer : s \in Spot /\ s.at = "server"
      /\ \A s \in Owing : s \in Spot /\ s.at = "owed"
  BY DEF Framed, Queued, Posted, AtServer, Owing
<1> QED
  BY <1>1, <1>2 DEF Spots

LEMMA TextFacts ==
  /\ Texts(<<>>) = {}
  /\ \A s \in Seq(Frames), f \in Frames :
       Texts(Append(s, f)) = Texts(s) \cup (IF f.k = 0 THEN {f.pkt} ELSE {})
  /\ \A s \in Seq(Frames) :
       s # <<>> => Texts(s) = Texts(Tail(s)) \cup (IF Head(s).k = 0 THEN {Head(s).pkt} ELSE {})
  /\ \A s \in Seq(Frames) : Texts(s) \subseteq Packet
<1>1. Texts(<<>>) = {}
  <2>1. Len(<<>>) = 0
    BY EmptySeq
  <2>2. Elems(<<>>) = {}
    BY <2>1 DEF Elems
  <2> QED
    BY <2>2 DEF Texts
<1>2. ASSUME NEW s \in Seq(Frames), NEW f \in Frames
      PROVE  Texts(Append(s, f)) = Texts(s) \cup (IF f.k = 0 THEN {f.pkt} ELSE {})
  <2>1. Elems(Append(s, f)) = Elems(s) \cup {f}
    BY ElemsAppend
  <2> QED
    BY <2>1 DEF Texts
<1>3. ASSUME NEW s \in Seq(Frames), s # <<>>
      PROVE  Texts(s) = Texts(Tail(s)) \cup (IF Head(s).k = 0 THEN {Head(s).pkt} ELSE {})
  <2>1. Elems(s) = {Head(s)} \cup Elems(Tail(s))
    BY <1>3, ElemsTail
  <2> QED
    BY <2>1 DEF Texts
<1>4. ASSUME NEW s \in Seq(Frames) PROVE Texts(s) \subseteq Packet
  <2>1. Elems(s) \subseteq Frames
    BY ElemsTyped
  <2> QED
    BY <2>1, FrameFacts DEF Texts
<1> QED
  BY <1>1, <1>2, <1>3, <1>4

LEMMA RestTexts ==
  ASSUME NEW t \in Threads, NEW s \in Seq(Frames), s # <<>>, Rest(s, t)
  PROVE  /\ Texts(Tail(s)) = {}
         /\ Texts(s) = IF Head(s).k = 0 THEN {Head(s).pkt} ELSE {}
<1>1. Tail(s) \in Seq(Frames) /\ \A f \in Elems(Tail(s)) : f.k > 0
  BY RestFacts
<1>2. Elems(Tail(s)) \subseteq Frames
  BY <1>1, ElemsTyped
<1>3. Texts(Tail(s)) = {}
  BY <1>1, <1>2, FrameFacts DEF Texts
<1> QED
  BY <1>3, TextFacts

LEMMA EncodeTexts ==
  ASSUME NEW p \in Packet, NEW t \in Threads
  PROVE  Texts(Encode(p, t)) = {p}
<1>1. /\ Encode(p, t) \in Seq(Frames) /\ Encode(p, t) # <<>> /\ Rest(Encode(p, t), t)
      /\ Head(Encode(p, t)) = Frame(p, 0, t)
  BY EncodeFacts
<1>2. Frame(p, 0, t).k = 0 /\ Frame(p, 0, t).pkt = p
  BY DEF Frame
<1> QED
  BY <1>1, <1>2, RestTexts

(* What a step of thread t does to the hands, and to its frames.           *)
LEMMA HandsChange ==
  ASSUME Typed, Typed', NEW t \in Threads,
         \A u \in Threads \ {t} : pc'[u] = pc[u] /\ pkt'[u] = pkt[u]
  PROVE  Hands' = (Hands \ Mine(t)) \cup Mine(t)' /\ Mine(t) \subseteq Hands
<1>1. Mine(t) \subseteq Hands
  <2>1. Hand(t) /\ pc[t] \in Labels
    BY DEF Typed, Types
  <2>2. Stage(t) \in Drafts \cup {"send"} => pkt[t] \in Packet \cup Draft /\ Stage(t) \in Places
    BY <2>1 DEF Stage, Drafts, Places, Hand
  <2> QED
    BY <2>2, MarkFacts DEF Mine, Hands
<1>2. Mine(t)' \subseteq Hands'
  <2>1. Hand(t)' /\ pc'[t] \in Labels
    BY DEF Typed, Types
  <2>2. Stage(t)' \in Drafts \cup {"send"} => pkt'[t] \in Packet \cup Draft /\ Stage(t)' \in Places
    BY <2>1 DEF Stage, Drafts, Places, Hand
  <2> QED
    BY <2>2, MarkFacts DEF Mine, Hands
<1>3. ASSUME NEW u \in Threads \ {t} PROVE Mine(u)' = Mine(u)
  BY <1>3 DEF Mine, Stage
<1>4. \A s \in Spot : s.by # t => (s \in Hands' <=> s \in Hands)
  BY <1>3, SpotFacts DEF Hands
<1>5. \A s \in Spot : s.by = t => (s \in Hands' <=> s \in Mine(t)') /\ (s \in Hands <=> s \in Mine(t))
  BY DEF Hands
<1>6. (\A s \in Mine(t) : s.by = t) /\ \A s \in Mine(t)' : s.by = t
  BY DEF Mine, Mark
<1> QED
  BY <1>1, <1>2, <1>4, <1>5, <1>6 DEF Hands

LEMMA FramedChange ==
  ASSUME Typed, NEW t \in Threads, NEW x \in Seq(Frames), frames' = [frames EXCEPT ![t] = x]
  PROVE  Framed' = (Framed \ {Mark("frames", t, p) : p \in Texts(frames[t])})
                     \cup {Mark("frames", t, p) : p \in Texts(x)}
<1>1. /\ frames \in [Threads -> Seq(Frames)] /\ frames'[t] = x
      /\ \A u \in Threads : u # t => frames'[u] = frames[u]
  BY DEF Typed, Types
<1>2. \A p \in Packet : Mark("frames", t, p) \in Spot
  BY MarkFacts DEF Places
<1>3. Texts(x) \subseteq Packet
  BY TextFacts
<1>4. \A s \in Spot : s.by # t => (s \in Framed' <=> s \in Framed)
  BY <1>1, SpotFacts DEF Framed
<1>5. \A s \in Spot : s.by = t => (s \in Framed' <=> s.at = "frames" /\ s.pkt \in Texts(x))
                                 /\ (s \in Framed <=> s.at = "frames" /\ s.pkt \in Texts(frames[t]))
  BY <1>1 DEF Framed
<1>6. \A p : Mark("frames", t, p).by = t /\ Mark("frames", t, p).at = "frames" /\ Mark("frames", t, p).pkt = p
  BY DEF Mark
<1>7. ASSUME NEW s \in Framed'
      PROVE  s \in (Framed \ {Mark("frames", t, p) : p \in Texts(frames[t])})
                     \cup {Mark("frames", t, p) : p \in Texts(x)}
  <2>1. s \in Spot /\ s.at = "frames" /\ s = Mark("frames", s.by, s.pkt)
    BY SpotFacts DEF Framed
  <2>2. CASE s.by = t
    BY <1>5, <2>1, <2>2
  <2>3. CASE s.by # t
    BY <1>4, <1>6, <2>1, <2>3
  <2> QED
    BY <2>2, <2>3
<1>8. ASSUME NEW s \in Framed, s \notin {Mark("frames", t, p) : p \in Texts(frames[t])}
      PROVE  s \in Framed'
  <2>1. s \in Spot /\ s.at = "frames" /\ s = Mark("frames", s.by, s.pkt)
    BY SpotFacts DEF Framed
  <2>2. s.by # t
    BY <1>5, <1>8, <2>1
  <2> QED
    BY <1>4, <2>1, <2>2
<1>9. ASSUME NEW p \in Texts(x) PROVE Mark("frames", t, p) \in Framed'
  BY <1>2, <1>3, <1>5, <1>6
<1> QED
  BY <1>7, <1>8, <1>9

-----------------------------------------------------------------------------
(* How packets go from place to place.                                     *)

Gone(p) == p.emit \in lost' \/ (\E a \in answered' : a.of = p.emit) \/ p.id < 0

(* At most one packet is in a new place, and it has left another one.  One *)
(* that left a place is in another, was lost or answered, or has no id.    *)
Carried ==
  /\ \E b : Spots' \subseteq Spots \cup {b}
  /\ \A r \in Spots' \ Spots :
       r.at \notin Drafts /\ \E s \in Spots \ Spots' : s.at \notin Drafts /\ s.pkt = r.pkt
  /\ \A s \in Spots \ Spots' : (\E r \in Spots' : r.pkt = s.pkt) \/ Gone(s.pkt)

Moves(a, b) ==
  /\ a \in Spots /\ a.at \notin Drafts /\ b.at \notin Drafts /\ b.pkt = a.pkt
  /\ Spots' = (Spots \ {a}) \cup {b}

LEMMA MovesCarry == \A a, b : Moves(a, b) => Carried
BY DEF Moves, Carried

Differ == {r \in Packet \X Packet : r[1].emit # r[2].emit}
TextsDiffer ==
  {r \in Frames \X Frames : r[1].k = 0 /\ r[2].k = 0 => r[1].pkt.emit # r[2].pkt.emit}

Single ==
  /\ \A r, s \in Spots : r.pkt.emit = s.pkt.emit => r = s
  /\ Sorted(queue, Differ) /\ Sorted(ready, TextsDiffer)

LEMMA NetMark ==
  ASSUME NEW w \in {"queue", "ready", "server", "owed"}, NEW p \in Packet
  PROVE  /\ Mark(w, Net, p) \in Spot /\ Mark(w, Net, p).at = w /\ Mark(w, Net, p).by = Net
         /\ Mark(w, Net, p).pkt = p
         /\ \A s \in Spot : s.at = w /\ s.by = Net /\ s.pkt = p <=> s = Mark(w, Net, p)
<1>1. w \in Places /\ Net \in Threads /\ p \in Packet \cup Draft
  BY Constants DEF Places
<1>2. /\ Mark(w, Net, p) \in Spot /\ Mark(w, Net, p).at = w /\ Mark(w, Net, p).by = Net
      /\ Mark(w, Net, p).pkt = p
  BY <1>1, MarkFacts
<1> QED
  BY <1>2, SpotFacts

(* The places of the queue and of the posted frames.                       *)
LEMMA QueuedAppend ==
  ASSUME Typed, NEW p \in Packet, queue' = Append(queue, p)
  PROVE  Queued' = Queued \cup {Mark("queue", Net, p)} /\ Elems(queue') = Elems(queue) \cup {p}
<1>1. queue \in Seq(Packet) /\ Net \in Threads
  BY Constants DEF Typed, Types
<1>2. Elems(queue') = Elems(queue) \cup {p}
  BY <1>1, ElemsAppend
<1>3. /\ Mark("queue", Net, p) \in Spot /\ Mark("queue", Net, p).pkt = p
      /\ \A s \in Spot : s.at = "queue" /\ s.by = Net /\ s.pkt = p <=> s = Mark("queue", Net, p)
  BY <1>1, NetMark
<1> QED
  BY <1>2, <1>3 DEF Queued

LEMMA QueuedTail ==
  ASSUME Typed, Single, queue # <<>>, queue' = Tail(queue)
  PROVE  /\ Queued' = Queued \ {Mark("queue", Net, Head(queue))}
         /\ Mark("queue", Net, Head(queue)) \in Queued /\ Sorted(queue', Differ)
<1>1. queue \in Seq(Packet) /\ Net \in Threads /\ Head(queue) \in Packet
  BY Constants, HeadTailProperties DEF Typed, Types
<1>2. Elems(queue) = {Head(queue)} \cup Elems(queue')
  BY <1>1, ElemsTail
<1>3. Sorted(queue', Differ) /\ \A y \in Elems(queue') : <<Head(queue), y>> \in Differ
  BY <1>1, SortedTail DEF Single
<1>4. Head(queue) \notin Elems(queue')
  BY <1>3 DEF Differ
<1>5. /\ Mark("queue", Net, Head(queue)) \in Spot /\ Mark("queue", Net, Head(queue)).pkt = Head(queue)
      /\ \A s \in Spot : s.at = "queue" /\ s.by = Net /\ s.pkt = Head(queue) <=> s = Mark("queue", Net, Head(queue))
  BY <1>1, NetMark
<1> QED
  BY <1>2, <1>3, <1>4, <1>5 DEF Queued

LEMMA PostedAppend ==
  ASSUME Typed, NEW f \in Frames, ready' = Append(ready, f)
  PROVE  Posted' = Posted \cup (IF f.k = 0 THEN {Mark("ready", Net, f.pkt)} ELSE {})
<1>1. ready \in Seq(Frames) /\ Net \in Threads /\ f.pkt \in Packet
  BY Constants, FrameFacts DEF Typed, Types
<1>2. Texts(ready') = Texts(ready) \cup (IF f.k = 0 THEN {f.pkt} ELSE {})
  BY <1>1, TextFacts
<1>3. /\ Mark("ready", Net, f.pkt) \in Spot /\ Mark("ready", Net, f.pkt).pkt = f.pkt
      /\ \A s \in Spot : s.at = "ready" /\ s.by = Net /\ s.pkt = f.pkt <=> s = Mark("ready", Net, f.pkt)
  BY <1>1, NetMark
<1> QED
  BY <1>2, <1>3 DEF Posted

LEMMA PostedTail ==
  ASSUME Typed, Single, ready # <<>>, ready' = Tail(ready)
  PROVE  /\ IF Head(ready).k = 0
              THEN /\ Posted' = Posted \ {Mark("ready", Net, Head(ready).pkt)}
                   /\ Mark("ready", Net, Head(ready).pkt) \in Posted
              ELSE Posted' = Posted
         /\ Sorted(ready', TextsDiffer)
<1> DEFINE f == Head(ready)
<1>1. ready \in Seq(Frames) /\ Net \in Threads /\ f \in Frames /\ f.pkt \in Packet
  BY Constants, HeadTailProperties, FrameFacts DEF Typed, Types
<1>2. Texts(ready) = Texts(ready') \cup (IF f.k = 0 THEN {f.pkt} ELSE {})
  BY <1>1, TextFacts
<1>3. Sorted(ready', TextsDiffer) /\ \A y \in Elems(ready') : <<f, y>> \in TextsDiffer
  BY <1>1, SortedTail DEF Single
<1>4. f.k = 0 => f.pkt \notin Texts(ready')
  BY <1>3 DEF Texts, TextsDiffer
<1>5. /\ Mark("ready", Net, f.pkt) \in Spot /\ Mark("ready", Net, f.pkt).pkt = f.pkt
      /\ \A s \in Spot : s.at = "ready" /\ s.by = Net /\ s.pkt = f.pkt <=> s = Mark("ready", Net, f.pkt)
  BY <1>1, NetMark
<1> QED
  BY <1>2, <1>3, <1>4, <1>5 DEF Posted

(* What the server does with the next frame.                               *)
LEMMA ServedSpots ==
  ASSUME Typed, NEW f \in Frames, SendImpl(f),
         f.k = 0 /\ partial # NoPartial => partial.by # f.by
  PROVE  /\ lost \subseteq lost'
         /\ IF f.k = 0
              THEN \/ AtServer' = AtServer /\ Owing' = Owing /\ Gone(f.pkt)
                   \/ AtServer' = AtServer /\ Owing' = Owing \cup {Mark("owed", Net, f.pkt)}
                   \/ /\ AtServer' = {Mark("server", Net, f.pkt)} /\ Owing' = Owing
                      /\ \A s \in AtServer : Gone(s.pkt)
              ELSE \/ AtServer' = AtServer /\ Owing' = Owing
                   \/ \E p \in Packet :
                        /\ AtServer = {Mark("server", Net, p)} /\ AtServer' = {}
                        /\ \/ Owing' = Owing \cup {Mark("owed", Net, p)}
                           \/ Owing' = Owing /\ Gone(p)
<1>1. /\ partial \in Partial \cup {NoPartial} /\ owed \subseteq {p \in Packet : p.id >= 0}
      /\ lost \subseteq Emits /\ Net \in Threads
  BY Constants DEF Typed, Types
<1>2. f.pkt \in Packet /\ f.by \in Threads /\ f.pkt.emit \in Emits
  BY FrameFacts, Constants
<1>3. \A p \in Packet, w \in {"server", "owed"} :
        /\ Mark(w, Net, p) \in Spot /\ Mark(w, Net, p).at = w /\ Mark(w, Net, p).by = Net
        /\ Mark(w, Net, p).pkt = p
        /\ \A s \in Spot : s.at = w /\ s.by = Net /\ s.pkt = p <=> s = Mark(w, Net, p)
  BY NetMark
<1>4. NoEmit \notin Emits
  BY Constants
<1>5. ASSUME NEW p \in Packet, partial' # NoPartial, partial'.pkt = p
      PROVE  AtServer' = {Mark("server", Net, p)}
  BY <1>3, <1>5 DEF AtServer
<1>6. ASSUME partial' = NoPartial PROVE AtServer' = {}
  BY <1>6 DEF AtServer
<1>7. ASSUME NEW p \in Packet, partial # NoPartial, partial.pkt = p
      PROVE  AtServer = {Mark("server", Net, p)}
  BY <1>3, <1>7 DEF AtServer
<1>8. ASSUME NEW p \in Packet, owed' = IF p.id >= 0 THEN owed \cup {p} ELSE owed
      PROVE  Owing' = Owing \cup {Mark("owed", Net, p)} \/ (Owing' = Owing /\ Gone(p))
  <2>1. p.id \in Int
    BY IdFacts DEF Packet
  <2>2. CASE p.id >= 0
    BY <1>3, <1>8, <2>2 DEF Owing
  <2>3. CASE ~(p.id >= 0)
    BY <1>8, <2>1, <2>3 DEF Owing, Gone
  <2> QED
    BY <2>2, <2>3
<1>9. owed' = owed => Owing' = Owing
  BY DEF Owing
<1>10. partial' = partial => AtServer' = AtServer
  BY DEF AtServer
<1>11. CASE Forgone(f)
  BY <1>9, <1>10, <1>11 DEF Forgone, peerVars, Gone
<1>12. CASE Written(f) /\ f.k = 0
  <2> DEFINE q == [pkt |-> f.pkt, by |-> f.by, bufs |-> <<>>]
  <2>1. ReceiveText(f)
    BY <1>12 DEF Written
  <2>2. CASE f.pkt.bins = 0
    <3>1. /\ partial' = partial /\ lost' = lost
          /\ owed' = IF f.pkt.id >= 0 THEN owed \cup {f.pkt} ELSE owed
      BY <2>1, <2>2 DEF ReceiveText, Complete
    <3>2. Owing' = Owing \cup {Mark("owed", Net, f.pkt)} \/ (Owing' = Owing /\ Gone(f.pkt))
      BY <1>2, <1>8, <3>1
    <3> QED
      BY <1>10, <1>12, <3>1, <3>2
  <2>3. CASE f.pkt.bins # 0
    <3>1. /\ partial' = q /\ owed' = owed
          /\ lost' = IF partial.by # f.by THEN (lost \cup {partial.pkt.emit}) \ {NoEmit} ELSE lost
      BY <2>1, <2>3 DEF ReceiveText
    <3>2. q # NoPartial
      <4>1. q.pkt = f.pkt
        OBVIOUS
      <4> QED
        BY <1>2, <4>1, Constants
    <3>3. AtServer' = {Mark("server", Net, f.pkt)}
      BY <1>2, <1>5, <3>1, <3>2
    <3>4. lost \subseteq lost'
      BY <1>1, <1>4, <3>1
    <3>5. \A s \in AtServer : Gone(s.pkt)
      <4> SUFFICES ASSUME NEW s \in AtServer PROVE s.pkt.emit \in lost'
        BY DEF Gone
      <4>1. partial # NoPartial /\ s.pkt = partial.pkt
        BY DEF AtServer
      <4>2. partial.pkt \in Packet /\ partial.by # f.by
        BY <1>1, <1>12, <4>1 DEF Partial
      <4>3. partial.pkt.emit \in Emits
        BY <4>2, Constants
      <4> QED
        BY <1>4, <3>1, <4>1, <4>2, <4>3
    <3> QED
      BY <1>9, <1>12, <3>1, <3>3, <3>4, <3>5
  <2> QED
    BY <2>2, <2>3
<1>13. CASE Written(f) /\ f.k # 0
  <2> DEFINE q == [partial EXCEPT !.bufs = Append(@, f)]
  <2>1. ReceiveBinary(f) /\ lost' = lost
    BY <1>13 DEF Written, ReceiveBinary
  <2>2. CASE partial = NoPartial
    BY <1>9, <1>10, <1>13, <2>1, <2>2 DEF ReceiveBinary, peerVars
  <2>3. CASE partial # NoPartial
    <3>1. partial.pkt \in Packet /\ q.pkt = partial.pkt
      BY <1>1, <2>3 DEF Partial
    <3>2. \/ partial' = q /\ owed' = owed
          \/ /\ partial' = NoPartial
             /\ owed' = IF q.pkt.id >= 0 THEN owed \cup {q.pkt} ELSE owed
      BY <2>1, <2>3 DEF ReceiveBinary, Complete
    <3> HIDE DEF q
    <3>3. AtServer = {Mark("server", Net, partial.pkt)}
      BY <1>7, <2>3, <3>1
    <3>4. CASE partial' = q /\ owed' = owed
      <4>1. q # NoPartial
        BY <3>1, Constants
      <4>2. AtServer' = {Mark("server", Net, partial.pkt)}
        BY <1>5, <3>1, <3>4, <4>1
      <4> QED
        BY <1>9, <1>13, <2>1, <3>3, <3>4, <4>2
    <3>5. CASE /\ partial' = NoPartial
               /\ owed' = IF q.pkt.id >= 0 THEN owed \cup {q.pkt} ELSE owed
      <4>1. \/ Owing' = Owing \cup {Mark("owed", Net, partial.pkt)}
            \/ Owing' = Owing /\ Gone(partial.pkt)
        BY <1>8, <3>1, <3>5
      <4> QED
        BY <1>6, <1>13, <2>1, <3>1, <3>3, <3>5, <4>1
    <3> QED
      BY <3>2, <3>4, <3>5
  <2> QED
    BY <2>2, <2>3
<1> QED
  BY <1>11, <1>12, <1>13 DEF SendImpl

(* A packet is encoded.                                                    *)
LEMMA FramedEncode ==
  ASSUME Typed, NEW t \in Threads, frames[t] = <<>>, NEW p \in Packet,
         frames' = [frames EXCEPT ![t] = Encode(p, t)]
  PROVE  Framed' = Framed \cup {Mark("frames", t, p)}
<1>1. Encode(p, t) \in Seq(Frames) /\ Texts(Encode(p, t)) = {p} /\ Texts(frames[t]) = {}
  BY EncodeFacts, EncodeTexts, TextFacts
<1>2. Framed' = (Framed \ {Mark("frames", t, q) : q \in Texts(frames[t])})
                  \cup {Mark("frames", t, q) : q \in Texts(Encode(p, t))}
  BY <1>1, FramedChange
<1> QED
  BY <1>1, <1>2

LEMMA SendPacketCarries ==
  ASSUME Typed, Single, NEW t \in Threads, SendPacket(t)
  PROVE  Carried /\ Sorted(queue', Differ) /\ ready' = ready
<1> DEFINE a == Mark("send", t, pkt[t])
<1>1. /\ Typed' /\ pkt[t] \in Packet /\ pc[t] = "send" /\ frames[t] = <<>>
      /\ ready' = ready /\ UNCHANGED peerVars
      /\ \/ /\ ~connected /\ queue' = Append(queue, pkt[t]) /\ frames' = frames
            /\ pc' = [pc EXCEPT ![t] = "idle"] /\ pkt' = [pkt EXCEPT ![t] = NoPacket]
         \/ /\ queue # <<>> /\ Head(queue) \in Packet /\ queue' = Tail(queue) /\ pkt' = pkt
            /\ frames' = [frames EXCEPT ![t] = Encode(Head(queue), t)]
            /\ pc' = [pc EXCEPT ![t] = "flush"]
         \/ /\ queue' = queue /\ pkt' = pkt
            /\ frames' = [frames EXCEPT ![t] = Encode(pkt[t], t)]
            /\ pc' = [pc EXCEPT ![t] = "encode"]
  BY SendPacketTyped
<1>2. /\ pc \in [Threads -> Labels] /\ pkt \in [Threads -> Packet \cup Draft \cup {NoPacket}]
      /\ queue \in Seq(Packet)
  BY DEF Typed, Types
<1>3. Posted' = Posted /\ AtServer' = AtServer /\ Owing' = Owing
  BY <1>1 DEF Posted, AtServer, Owing, peerVars
<1>4. Mine(t) = {a}
  BY <1>1 DEF Mine, Stage
<1>5. /\ \A u \in Threads \ {t} : pc'[u] = pc[u] /\ pkt'[u] = pkt[u]
  BY <1>1, <1>2
<1>6. Hands' = (Hands \ {a}) \cup Mine(t)' /\ a \in Hands
  BY <1>1, <1>4, <1>5, HandsChange
<1>7. a.at = "send" /\ a.pkt = pkt[t]
  BY DEF Mark
<1>8. "send" \notin Drafts /\ "queue" \notin Drafts /\ "frames" \notin Drafts
  BY DEF Drafts
<1> HIDE DEF a
<1>9. CASE /\ queue' = Append(queue, pkt[t]) /\ frames' = frames
           /\ pc' = [pc EXCEPT ![t] = "idle"] /\ pkt' = [pkt EXCEPT ![t] = NoPacket]
  <2> DEFINE b == Mark("queue", Net, pkt[t])
  <2>1. Mine(t)' = {}
    <3>1. pc'[t] = "idle"
      BY <1>2, <1>9
    <3> QED
      BY <3>1 DEF Mine, Stage, Drafts
  <2>2. Queued' = Queued \cup {b} /\ Framed' = Framed
    BY <1>1, <1>9, QueuedAppend DEF Framed
  <2>3. b.at = "queue" /\ b.pkt = pkt[t]
    BY DEF Mark
  <2> HIDE DEF b
  <2>4. Moves(a, b)
    BY <1>3, <1>6, <1>7, <1>8, <2>1, <2>2, <2>3, Kinds DEF Moves, Spots
  <2>5. \A y \in Elems(queue) : <<y, pkt[t]>> \in Differ
    <3> SUFFICES ASSUME NEW y \in Elems(queue), y.emit = pkt[t].emit PROVE FALSE
      <4>1. Elems(queue) \subseteq Packet
        BY <1>2, ElemsTyped
      <4> QED
        BY <1>1, <4>1 DEF Differ
    <3>1. y \in Packet
      BY <1>2, ElemsTyped
    <3>2. /\ Mark("queue", Net, y) \in Queued /\ Mark("queue", Net, y).at = "queue"
          /\ Mark("queue", Net, y).pkt = y
      BY <3>1, NetMark DEF Queued
    <3> QED
      BY <1>6, <1>7, <3>2 DEF Single, Spots
  <2>6. Sorted(queue', Differ)
    BY <1>1, <1>2, <1>9, <2>5, SortedAppend DEF Single
  <2> QED
    BY <1>1, <2>4, <2>6, MovesCarry
<1>10. ASSUME queue # <<>>, Head(queue) \in Packet, queue' = Tail(queue), pkt' = pkt,
              frames' = [frames EXCEPT ![t] = Encode(Head(queue), t)],
              pc' = [pc EXCEPT ![t] = "flush"]
       PROVE  Carried /\ Sorted(queue', Differ)
  <2> DEFINE c == Mark("queue", Net, Head(queue))
             b == Mark("frames", t, Head(queue))
  <2>1. Mine(t)' = {a}
    BY <1>2, <1>10 DEF Mine, Stage, a
  <2>2. Queued' = Queued \ {c} /\ c \in Queued /\ Sorted(queue', Differ)
    BY <1>10, QueuedTail
  <2>3. Framed' = Framed \cup {b}
    BY <1>1, <1>10, FramedEncode
  <2>4. b.at = "frames" /\ b.pkt = Head(queue) /\ c.at = "queue" /\ c.pkt = Head(queue)
    BY DEF Mark
  <2> HIDE DEF b, c
  <2>5. Moves(c, b)
    BY <1>3, <1>6, <1>8, <2>1, <2>2, <2>3, <2>4, Kinds DEF Moves, Spots
  <2> QED
    BY <2>2, <2>5, MovesCarry
<1>11. ASSUME queue' = queue, pkt' = pkt,
              frames' = [frames EXCEPT ![t] = Encode(pkt[t], t)], pc' = [pc EXCEPT ![t] = "encode"]
       PROVE  Carried /\ Sorted(queue', Differ)
  <2> DEFINE b == Mark("frames", t, pkt[t])
  <2>1. Mine(t)' = {}
    <3>1. pc'[t] = "encode"
      BY <1>2, <1>11
    <3> QED
      BY <3>1 DEF Mine, Stage, Drafts
  <2>2. Framed' = Framed \cup {b} /\ Queued' = Queued
    BY <1>1, <1>11, FramedEncode DEF Queued
  <2>3. b.at = "frames" /\ b.pkt = pkt[t]
    BY DEF Mark
  <2> HIDE DEF b
  <2>4. Moves(a, b)
    BY <1>3, <1>6, <1>7, <1>8, <2>1, <2>2, <2>3, Kinds DEF Moves, Spots
  <2> QED
    BY <1>11, <2>4, MovesCarry DEF Single
<1> QED
  BY <1>1, <1>9, <1>10, <1>11

LEMMA DrainCarries ==
  ASSUME Typed, Single, Drain
  PROVE  Carried /\ Sorted(queue', Differ) /\ ready' = ready
<1>1. /\ Typed' /\ pc[Net] = "drain" /\ frames[Net] = <<>> /\ pkt' = pkt
      /\ ready' = ready /\ UNCHANGED peerVars
      /\ \/ /\ queue' = queue /\ frames' = frames /\ pc' = [pc EXCEPT ![Net] = "idle"]
         \/ /\ queue # <<>> /\ Head(queue) \in Packet /\ queue' = Tail(queue)
            /\ frames' = [frames EXCEPT ![Net] = Encode(Head(queue), Net)]
            /\ pc' = [pc EXCEPT ![Net] = "drainSend"]
  BY DrainTyped
<1>2. pc \in [Threads -> Labels] /\ Net \in Threads
  BY Constants DEF Typed, Types
<1>3. Posted' = Posted /\ AtServer' = AtServer /\ Owing' = Owing
  BY <1>1 DEF Posted, AtServer, Owing, peerVars
<1>4. Mine(Net) = {} /\ Mine(Net)' = {}
  <2>1. pc'[Net] \in {"idle", "drainSend"}
    BY <1>1, <1>2
  <2> QED
    BY <1>1, <2>1 DEF Mine, Stage, Drafts
<1>5. \A u \in Threads \ {Net} : pc'[u] = pc[u] /\ pkt'[u] = pkt[u]
  BY <1>1, <1>2
<1>6. Hands' = Hands
  <2>1. Hands' = (Hands \ Mine(Net)) \cup Mine(Net)'
    BY <1>1, <1>2, <1>5, HandsChange
  <2> QED
    BY <1>4, <2>1
<1>7. "queue" \notin Drafts /\ "frames" \notin Drafts
  BY DEF Drafts
<1>8. CASE queue' = queue /\ frames' = frames
  <2>1. Spots' = Spots
    BY <1>3, <1>6, <1>8 DEF Spots, Framed, Queued
  <2> QED
    BY <1>1, <1>8, <2>1 DEF Carried, Single
<1>9. ASSUME queue # <<>>, Head(queue) \in Packet, queue' = Tail(queue),
             frames' = [frames EXCEPT ![Net] = Encode(Head(queue), Net)]
      PROVE  Carried /\ Sorted(queue', Differ)
  <2> DEFINE c == Mark("queue", Net, Head(queue))
             b == Mark("frames", Net, Head(queue))
  <2>1. Queued' = Queued \ {c} /\ c \in Queued /\ Sorted(queue', Differ)
    BY <1>9, QueuedTail
  <2>2. Framed' = Framed \cup {b}
    BY <1>1, <1>2, <1>9, FramedEncode
  <2>3. b.at = "frames" /\ b.pkt = Head(queue) /\ c.at = "queue" /\ c.pkt = Head(queue)
    BY DEF Mark
  <2> HIDE DEF b, c
  <2>4. Moves(c, b)
    BY <1>3, <1>6, <1>7, <2>1, <2>2, <2>3, Kinds DEF Moves, Spots
  <2> QED
    BY <2>1, <2>4, MovesCarry
<1> QED
  BY <1>1, <1>8, <1>9

(* A packet at place a goes to the server, with its text or without.       *)
LEMMA ServedCarries ==
  ASSUME Typed, NEW f \in Frames, SendImpl(f), NEW a, a \in Spots, a.at \in {"frames", "ready"},
         a.pkt = f.pkt, partial # NoPartial => partial.by # f.by, f.k = 0,
         Hands' \cup Framed' \cup Queued' \cup Posted'
           = (Hands \cup Framed \cup Queued \cup Posted) \ {a}
  PROVE  Carried
<1>1. \/ AtServer' = AtServer /\ Owing' = Owing /\ Gone(f.pkt)
      \/ AtServer' = AtServer /\ Owing' = Owing \cup {Mark("owed", Net, f.pkt)}
      \/ /\ AtServer' = {Mark("server", Net, f.pkt)} /\ Owing' = Owing
         /\ \A s \in AtServer : Gone(s.pkt)
  BY ServedSpots
<1>2. "frames" \notin Drafts /\ "ready" \notin Drafts /\ "owed" \notin Drafts /\ "server" \notin Drafts
  BY DEF Drafts
<1>3. \A w : Mark(w, Net, f.pkt).at = w /\ Mark(w, Net, f.pkt).pkt = f.pkt
  BY DEF Mark
<1>4. a \notin AtServer /\ a \notin Owing
  BY Kinds
<1>5. CASE AtServer' = AtServer /\ Owing' = Owing /\ Gone(f.pkt)
  <2>1. Spots' = Spots \ {a}
    BY <1>4, <1>5 DEF Spots
  <2> QED
    BY <1>5, <2>1 DEF Carried
<1>6. CASE AtServer' = AtServer /\ Owing' = Owing \cup {Mark("owed", Net, f.pkt)}
  <2>1. Spots' = (Spots \ {a}) \cup {Mark("owed", Net, f.pkt)}
    BY <1>4, <1>6 DEF Spots
  <2>2. Moves(a, Mark("owed", Net, f.pkt))
    BY <1>2, <1>3, <2>1 DEF Moves
  <2> QED
    BY <2>2, MovesCarry
<1>7. CASE /\ AtServer' = {Mark("server", Net, f.pkt)} /\ Owing' = Owing
           /\ \A s \in AtServer : Gone(s.pkt)
  <2> DEFINE b == Mark("server", Net, f.pkt)
  <2>1. Spots' = (((Hands \cup Framed \cup Queued \cup Posted) \ {a}) \cup {b}) \cup Owing
    BY <1>7 DEF Spots
  <2>2. b.at = "server" /\ b.pkt = f.pkt
    BY <1>3
  <2> HIDE DEF b
  <2>3. a \notin Spots' /\ b \in Spots' /\ Spots' \subseteq Spots \cup {b}
    BY <1>4, <2>1, <2>2 DEF Spots
  <2>4. \A s \in Spots \ Spots' : s = a \/ s \in AtServer
    BY <2>1 DEF Spots
  <2>5. \A r \in Spots' \ Spots :
          r.at \notin Drafts /\ \E s \in Spots \ Spots' : s.at \notin Drafts /\ s.pkt = r.pkt
    BY <1>2, <2>2, <2>3
  <2> QED
    BY <1>7, <2>2, <2>3, <2>4, <2>5 DEF Carried
<1> QED
  BY <1>1, <1>5, <1>6, <1>7

LEMMA BinaryCarries ==
  ASSUME Typed, NEW f \in Frames, SendImpl(f), f.k # 0,
         Hands' \cup Framed' \cup Queued' \cup Posted' = Hands \cup Framed \cup Queued \cup Posted
  PROVE  Carried
<1>1. \/ AtServer' = AtServer /\ Owing' = Owing
      \/ \E p \in Packet :
           /\ AtServer = {Mark("server", Net, p)} /\ AtServer' = {}
           /\ \/ Owing' = Owing \cup {Mark("owed", Net, p)}
              \/ Owing' = Owing /\ Gone(p)
  BY ServedSpots
<1>2. CASE AtServer' = AtServer /\ Owing' = Owing
  <2>1. Spots' = Spots
    BY <1>2 DEF Spots
  <2> QED
    BY <2>1 DEF Carried
<1>3. ASSUME NEW p \in Packet, AtServer = {Mark("server", Net, p)}, AtServer' = {},
             \/ Owing' = Owing \cup {Mark("owed", Net, p)}
             \/ Owing' = Owing /\ Gone(p)
      PROVE  Carried
  <2> DEFINE a == Mark("server", Net, p)
             b == Mark("owed", Net, p)
  <2>1. a.at = "server" /\ a.pkt = p /\ b.at = "owed" /\ b.pkt = p /\ a \in AtServer
    BY <1>3 DEF Mark
  <2>2. "owed" \notin Drafts /\ "server" \notin Drafts
    BY DEF Drafts
  <2> HIDE DEF a, b
  <2>3. /\ a \in Spots /\ a \notin Hands \cup Framed \cup Queued \cup Posted \cup Owing
    BY <2>1, <2>2, Kinds DEF Spots
  <2>4. CASE Owing' = Owing \cup {b}
    <3>1. Spots' = (Spots \ {a}) \cup {b}
      BY <1>3, <2>3, <2>4 DEF Spots, a
    <3>2. Moves(a, b)
      BY <2>1, <2>2, <2>3, <3>1 DEF Moves
    <3> QED
      BY <3>2, MovesCarry
  <2>5. CASE Owing' = Owing /\ Gone(p)
    <3>1. Spots' = Spots \ {a}
      BY <1>3, <2>3, <2>5 DEF Spots, a
    <3> QED
      BY <2>1, <2>5, <3>1 DEF Carried
  <2> QED
    BY <1>3, <2>4, <2>5 DEF b
<1> QED
  BY <1>1, <1>2, <1>3

LEMMA HandOverCarries ==
  ASSUME Typed, Lines, Single, NEW t \in Threads, HandOver(t)
  PROVE  Carried /\ Sorted(ready', TextsDiffer) /\ queue' = queue /\ lost \subseteq lost'
<1> DEFINE f == Head(frames[t])
           a == Mark("frames", t, f.pkt)
           b == Mark("ready", Net, f.pkt)
<1>1. /\ Typed' /\ frames[t] # <<>> /\ Rest(frames[t], t) /\ frames[t] \in Seq(Frames)
      /\ pc[t] \in {"flush", "encode", "drainSend"}
      /\ frames' = [frames EXCEPT ![t] = Tail(frames[t])] /\ queue' = queue
      /\ IF t = Net THEN SendImpl(f) /\ UNCHANGED ready
                    ELSE ready' = Append(ready, f) /\ UNCHANGED <<peerVars, lost>>
      /\ \/ pc' = pc /\ pkt' = pkt
         \/ pc[t] = "flush" /\ pc' = [pc EXCEPT ![t] = "send"] /\ pkt' = pkt
         \/ pc[t] = "drainSend" /\ pc' = [pc EXCEPT ![t] = "drain"] /\ pkt' = pkt
         \/ /\ pc[t] = "encode" /\ pc' = [pc EXCEPT ![t] = "idle"]
            /\ pkt' = [pkt EXCEPT ![t] = NoPacket]
  BY HandOverTyped
<1>2. /\ pc \in [Threads -> Labels] /\ pkt \in [Threads -> Packet \cup Draft \cup {NoPacket}]
      /\ ready \in Seq(Frames) /\ Net \in Threads
  BY Constants DEF Typed, Types
<1>3. f \in Frames /\ f.by = t /\ Tail(frames[t]) \in Seq(Frames) /\ f.pkt \in Packet
  BY <1>1, RestFacts, FrameFacts
<1>4. Texts(Tail(frames[t])) = {} /\ Texts(frames[t]) = IF f.k = 0 THEN {f.pkt} ELSE {}
  BY <1>1, RestTexts
<1>5. Framed' = (Framed \ {Mark("frames", t, q) : q \in Texts(frames[t])})
                  \cup {Mark("frames", t, q) : q \in Texts(Tail(frames[t]))}
  BY <1>1, <1>3, FramedChange
<1>6. a.at = "frames" /\ a.pkt = f.pkt /\ b.at = "ready" /\ b.pkt = f.pkt /\ a.by = t
  BY DEF Mark
<1>7. f.k = 0 => Framed' = Framed \ {a} /\ a \in Framed
  <2> SUFFICES ASSUME f.k = 0 PROVE Framed' = Framed \ {a} /\ a \in Framed
    OBVIOUS
  <2>1. "frames" \in Places /\ f.pkt \in Packet \cup Draft
    BY <1>3 DEF Places
  <2>2. a \in Spot
    BY <2>1, MarkFacts
  <2>3. a \in Framed
    BY <1>4, <1>6, <2>2 DEF Framed
  <2> QED
    BY <1>4, <1>5, <2>3
<1>8. f.k # 0 => Framed' = Framed
  BY <1>4, <1>5
<1>9. Mine(t)' = Mine(t)
  <2>1. CASE pc' = pc /\ pkt' = pkt
    BY <2>1 DEF Mine, Stage
  <2>2. CASE pc[t] = "flush" /\ pc' = [pc EXCEPT ![t] = "send"] /\ pkt' = pkt
    <3>1. pc'[t] = "send"
      BY <1>2, <2>2
    <3> QED
      BY <2>2, <3>1 DEF Mine, Stage
  <2>3. ASSUME pc[t] \in {"drainSend", "encode"}, pc'[t] \in {"drain", "idle"}
        PROVE  Mine(t)' = Mine(t)
    BY <2>3 DEF Mine, Stage, Drafts
  <2>4. CASE pc[t] = "drainSend" /\ pc' = [pc EXCEPT ![t] = "drain"] /\ pkt' = pkt
    <3>1. pc'[t] = "drain"
      BY <1>2, <2>4
    <3> QED
      BY <2>3, <2>4, <3>1
  <2>5. CASE pc[t] = "encode" /\ pc' = [pc EXCEPT ![t] = "idle"]
    <3>1. pc'[t] = "idle"
      BY <1>2, <2>5
    <3> QED
      BY <2>3, <2>5, <3>1
  <2> QED
    BY <1>1, <2>1, <2>2, <2>4, <2>5
<1>10. Hands' = Hands
  <2>1. \A u \in Threads \ {t} : pc'[u] = pc[u] /\ pkt'[u] = pkt[u]
    BY <1>1, <1>2
  <2>2. Hands' = (Hands \ Mine(t)) \cup Mine(t)' /\ Mine(t) \subseteq Hands
    BY <1>1, <2>1, HandsChange
  <2> QED
    BY <1>9, <2>2
<1>11. Queued' = Queued
  BY <1>1 DEF Queued
<1>12. "frames" \notin Drafts /\ "ready" \notin Drafts
  BY DEF Drafts
<1>13. CASE t = Net
  <2>1. SendImpl(f) /\ ready' = ready /\ (f.k = 0 /\ partial # NoPartial => partial.by # f.by)
    BY <1>1, <1>3, <1>13, HandOverLines
  <2>2. lost \subseteq lost'
    BY <1>3, <2>1, ServedSpots
  <2> HIDE DEF f, a, b
  <2>3. CASE f.k = 0
    <3>1. Posted' = Posted
      BY <2>1 DEF Posted
    <3>2. /\ a \in Spots
          /\ Hands' \cup Framed' \cup Queued' \cup Posted'
               = (Hands \cup Framed \cup Queued \cup Posted) \ {a}
      BY <1>6, <1>7, <1>10, <1>11, <1>12, <2>3, <3>1, Kinds DEF Spots
    <3>3. Carried
      BY <1>3, <1>6, <2>1, <2>3, <3>2, ServedCarries
    <3> QED
      BY <1>1, <2>1, <2>2, <3>3 DEF Single
  <2>4. CASE f.k # 0
    <3>1. Hands' \cup Framed' \cup Queued' \cup Posted' = Hands \cup Framed \cup Queued \cup Posted
      BY <1>8, <1>10, <1>11, <2>1, <2>4 DEF Posted
    <3>2. Carried
      BY <1>3, <2>1, <2>4, <3>1, BinaryCarries
    <3> QED
      BY <1>1, <2>1, <2>2, <3>2 DEF Single
  <2> QED
    BY <2>3, <2>4
<1>14. CASE t # Net
  <2>1. ready' = Append(ready, f) /\ UNCHANGED peerVars /\ lost' = lost
    BY <1>1, <1>14
  <2>2. Posted' = Posted \cup (IF f.k = 0 THEN {b} ELSE {})
    BY <1>3, <2>1, PostedAppend
  <2>3. AtServer' = AtServer /\ Owing' = Owing
    BY <2>1 DEF AtServer, Owing, peerVars
  <2>4. \A y \in Elems(ready) : <<y, f>> \in TextsDiffer
    <3>1. Elems(ready) \subseteq Frames
      BY <1>2, ElemsTyped
    <3> SUFFICES ASSUME NEW y \in Elems(ready), y.k = 0, f.k = 0, y.pkt.emit = f.pkt.emit
                 PROVE  FALSE
      BY <1>3, <3>1 DEF TextsDiffer
    <3>2. y.pkt \in Texts(ready) /\ y.pkt \in Packet
      BY <3>1, FrameFacts DEF Texts
    <3>3. /\ Mark("ready", Net, y.pkt) \in Posted /\ Mark("ready", Net, y.pkt).at = "ready"
          /\ Mark("ready", Net, y.pkt).pkt = y.pkt
      BY <3>2, NetMark DEF Posted
    <3> QED
      BY <1>6, <1>7, <3>3 DEF Single, Spots
  <2>5. Sorted(ready', TextsDiffer)
    BY <1>2, <1>3, <2>1, <2>4, SortedAppend DEF Single
  <2> HIDE DEF f, a, b
  <2>6. CASE f.k = 0
    <3>1. Moves(a, b)
      BY <1>6, <1>7, <1>10, <1>11, <1>12, <2>2, <2>3, <2>6, Kinds DEF Moves, Spots
    <3> QED
      BY <1>1, <2>1, <2>5, <3>1, MovesCarry
  <2>7. CASE f.k # 0
    <3>1. Spots' = Spots
      BY <1>8, <1>10, <1>11, <2>2, <2>3, <2>7 DEF Spots
    <3> QED
      BY <1>1, <2>1, <2>5, <3>1 DEF Carried
  <2> QED
    BY <2>6, <2>7
<1> QED
  BY <1>13, <1>14

LEMMA RunSendCarries ==
  ASSUME Typed, Lines, Single, RunSend
  PROVE  Carried /\ Sorted(ready', TextsDiffer) /\ queue' = queue /\ lost \subseteq lost'
<1> DEFINE f == Head(ready)
           a == Mark("ready", Net, f.pkt)
<1>1. /\ ready # <<>> /\ f \in Frames /\ ready' = Tail(ready) /\ SendImpl(f)
      /\ UNCHANGED sendVars /\ queue' = queue
  BY RunSendTyped
<1>2. f.k = 0 /\ partial # NoPartial => partial.by # f.by
  BY RunSendLines
<1>3. /\ IF f.k = 0 THEN Posted' = Posted \ {a} /\ a \in Posted ELSE Posted' = Posted
      /\ Sorted(ready', TextsDiffer)
  BY <1>1, PostedTail
<1>4. Hands' = Hands /\ Framed' = Framed /\ Queued' = Queued
  BY <1>1 DEF Hands, Mine, Stage, Framed, Queued, sendVars
<1>5. lost \subseteq lost'
  BY <1>1, <1>2, ServedSpots
<1>6. a.at = "ready" /\ a.pkt = f.pkt
  BY DEF Mark
<1> HIDE DEF f, a
<1>7. CASE f.k = 0
  <2>1. /\ a \in Spots
        /\ Hands' \cup Framed' \cup Queued' \cup Posted'
             = (Hands \cup Framed \cup Queued \cup Posted) \ {a}
    BY <1>3, <1>4, <1>6, <1>7, Kinds DEF Spots, Drafts
  <2>2. Carried
    BY <1>1, <1>2, <1>6, <1>7, <2>1, ServedCarries
  <2> QED
    BY <1>1, <1>3, <1>5, <2>2
<1>8. CASE f.k # 0
  <2>1. Hands' \cup Framed' \cup Queued' \cup Posted' = Hands \cup Framed \cup Queued \cup Posted
    BY <1>3, <1>4, <1>8
  <2>2. Carried
    BY <1>1, <1>8, <2>1, BinaryCarries
  <2> QED
    BY <1>1, <1>3, <1>5, <2>2
<1> QED
  BY <1>7, <1>8

LEMMA OpenCarries ==
  ASSUME Typed, OnOpen \/ OnConnected
  PROVE  Spots' = Spots
<1>1. /\ Typed' /\ UNCHANGED <<queue, ready, pkt, frames, peerVars>>
      /\ \/ pc' = pc
         \/ pc[Net] = "idle" /\ pc' = [pc EXCEPT ![Net] = "drain"]
  BY OpenTyped
<1>2. pc \in [Threads -> Labels] /\ Net \in Threads
  BY Constants DEF Typed, Types
<1>3. \A u \in Threads \ {Net} : pc'[u] = pc[u] /\ pkt'[u] = pkt[u]
  BY <1>1, <1>2
<1>4. Mine(Net)' = Mine(Net)
  <2>1. CASE pc' = pc
    BY <1>1, <2>1 DEF Mine, Stage
  <2>2. CASE pc[Net] = "idle" /\ pc' = [pc EXCEPT ![Net] = "drain"]
    <3>1. pc'[Net] = "drain"
      BY <1>2, <2>2
    <3> QED
      BY <2>2, <3>1 DEF Mine, Stage, Drafts
  <2> QED
    BY <1>1, <2>1, <2>2
<1>5. Hands' = (Hands \ Mine(Net)) \cup Mine(Net)' /\ Mine(Net) \subseteq Hands
  BY <1>1, <1>2, <1>3, HandsChange
<1> QED
  BY <1>1, <1>4, <1>5 DEF Spots, Framed, Queued, Posted, AtServer, Owing, peerVars

LEMMA CloseCarries ==
  ASSUME Typed, Single, BeginClosing \/ OnClose
  PROVE  Carried /\ Sorted(queue', Differ) /\ ready' = ready
<1>1. /\ partial' = NoPartial /\ owed' = {} /\ ready' = ready /\ UNCHANGED sendVars
      /\ \/ queue' = <<>> /\ {p.emit : p \in Elems(queue)} \subseteq lost'
         \/ queue' = queue
      /\ {p.emit : p \in owed} \subseteq lost'
      /\ (partial # NoPartial => partial.pkt.emit \in lost')
  BY CloseTyped
<1>2. /\ Hands' = Hands /\ Framed' = Framed /\ Posted' = Posted
      /\ AtServer' = {} /\ Owing' = {}
  BY <1>1 DEF Hands, Mine, Stage, Framed, Posted, AtServer, Owing, sendVars
<1>3. \A s \in AtServer \cup Owing : Gone(s.pkt)
  BY <1>1 DEF AtServer, Owing, Gone
<1>4. Sorted(queue', Differ)
  BY <1>1, SortedEmpty DEF Single
<1>5. Queued' \subseteq Queued /\ \A s \in Queued \ Queued' : Gone(s.pkt)
  <2>1. CASE queue' = queue
    BY <2>1 DEF Queued
  <2>2. CASE queue' = <<>> /\ {p.emit : p \in Elems(queue)} \subseteq lost'
    <3>1. Len(<<>>) = 0
      BY EmptySeq
    <3>2. Queued' = {}
      BY <2>2, <3>1 DEF Queued, Elems
    <3> QED
      BY <2>2, <3>2 DEF Queued, Gone
  <2> QED
    BY <1>1, <2>1, <2>2
<1>6. Spots' \subseteq Spots /\ \A s \in Spots \ Spots' : Gone(s.pkt)
  BY <1>2, <1>3, <1>5 DEF Spots
<1> QED
  BY <1>1, <1>4, <1>6 DEF Carried

LEMMA AckCarries ==
  ASSUME Typed, NEW p \in owed, owed' = owed \ {p}, [of |-> p.emit, cb |-> acks[p.id]] \in answered',
         UNCHANGED <<queue, ready, sendVars, partial>>
  PROVE  /\ Carried /\ Mark("owed", Net, p) \in Spots /\ Mark("owed", Net, p).pkt = p
         /\ Mark("owed", Net, p).at = "owed" /\ Mark("owed", Net, p) \notin Spots'
         /\ Spots' \subseteq Spots
<1>1. p \in Packet
  BY DEF Typed, Types
<1>2. /\ Mark("owed", Net, p) \in Spot /\ Mark("owed", Net, p).at = "owed"
      /\ Mark("owed", Net, p).by = Net /\ Mark("owed", Net, p).pkt = p
      /\ \A s \in Spot : s.at = "owed" /\ s.by = Net /\ s.pkt = p <=> s = Mark("owed", Net, p)
  BY <1>1, NetMark
<1>3. Owing' = Owing \ {Mark("owed", Net, p)} /\ Mark("owed", Net, p) \in Owing
  BY <1>2 DEF Owing
<1>4. /\ Hands' = Hands /\ Framed' = Framed /\ Queued' = Queued /\ Posted' = Posted
      /\ AtServer' = AtServer
  BY DEF Hands, Mine, Stage, Framed, Queued, Posted, AtServer, sendVars
<1>5. Spots' = Spots \ {Mark("owed", Net, p)} /\ Mark("owed", Net, p) \in Spots
  <2>1. "owed" \notin Drafts
    BY DEF Drafts
  <2>2. Mark("owed", Net, p) \notin Hands \cup Framed \cup Queued \cup Posted \cup AtServer
    BY <1>2, <2>1, Kinds
  <2> QED
    BY <1>3, <1>4, <2>2 DEF Spots
<1>6. Gone(p)
  <2>1. [of |-> p.emit, cb |-> acks[p.id]].of = p.emit
    OBVIOUS
  <2> QED
    BY <2>1 DEF Gone
<1> QED
  BY <1>2, <1>5, <1>6 DEF Carried

-----------------------------------------------------------------------------
(* What is known of a packet at any place: the id it was given, and that   *)
(* its callback waits in m_acks, if no other packet has the same id.       *)

Known(s) ==
  /\ s.pkt.emit \in Emits /\ s.pkt.emit[2] <= calls
  /\ IF s.at = "increment" THEN ids[s.pkt.emit] = {}
     ELSE /\ s.pkt \in Packet /\ ids[s.pkt.emit] \subseteq {s.pkt.id}
          /\ s.pkt.id >= 0 => ids[s.pkt.emit] = {s.pkt.id}
  /\ s.at \notin Drafts /\ s.pkt.id >= 0 =>
       acks[s.pkt.id] = s.pkt.emit \/ SharesId(s.pkt.emit)

Covered ==
  \A e \in Emits :
    \A i \in ids[e] :
      \/ \E s \in Spots : s.pkt.emit = e
      \/ e \in lost \/ (\E a \in answered : a.of = e) \/ i < 0

(* A packet is at one place only; whoever waits for an answer has a packet *)
(* somewhere, and what is known of that packet holds until it is answered. *)
Travel ==
  /\ Single /\ Covered /\ OwnCallback
  /\ \A s \in Spots : Known(s)
  /\ \A e \in Emits : e[2] > calls => ids[e] = {}
  /\ \A a \in answered : a.of \in Emits

LEMMA InitTravel == Init => Travel
<1> SUFFICES ASSUME Init PROVE Travel
  OBVIOUS
<1>1. Len(<<>>) = 0 /\ Texts(<<>>) = {}
  BY EmptySeq, TextFacts
<1>2. /\ queue = <<>> /\ ready = <<>> /\ partial = NoPartial /\ owed = {} /\ answered = {}
      /\ \A t \in Threads : pc[t] = "idle" /\ frames[t] = <<>>
      /\ \A e \in Emits : ids[e] = {}
  BY DEF Init
<1>3. Hands = {}
  BY <1>2, SpotFacts DEF Hands, Mine, Stage, Drafts
<1>4. Framed = {}
  BY <1>1, <1>2, SpotFacts DEF Framed
<1>5. Queued = {} /\ Posted = {} /\ AtServer = {} /\ Owing = {}
  BY <1>1, <1>2 DEF Queued, Posted, AtServer, Owing, Elems
<1>6. Spots = {}
  BY <1>3, <1>4, <1>5 DEF Spots
<1>7. Single
  BY <1>2, <1>6, SortedEmpty DEF Single
<1> QED
  BY <1>2, <1>6, <1>7 DEF Travel, Covered, OwnCallback

(* Packets carried on, ids and callbacks let alone.                        *)
LEMMA CarriedOn ==
  ASSUME Typed, Travel, Carried, Sorted(queue', Differ), Sorted(ready', TextsDiffer),
         UNCHANGED <<ids, calls>>, lost \subseteq lost', answered \subseteq answered'
  PROVE  /\ Single' /\ Covered'
         /\ \A r \in Spots' : r \in Spots \/ \E s \in Spots :
                s.pkt = r.pkt /\ s.at \notin Drafts /\ r.at \notin Drafts
         /\ \A e \in Emits : e[2] > calls' => ids'[e] = {}
<1>1. PICK b : Spots' \subseteq Spots \cup {b}
  BY DEF Carried
<1>2. \A r \in Spots' \ Spots :
        r.at \notin Drafts /\ \E s \in Spots \ Spots' : s.at \notin Drafts /\ s.pkt = r.pkt
  BY DEF Carried
<1>3. \A s \in Spots \ Spots' : (\E r \in Spots' : r.pkt = s.pkt) \/ Gone(s.pkt)
  BY DEF Carried
<1>4. \A r, s \in Spots : r.pkt.emit = s.pkt.emit => r = s
  BY DEF Travel, Single
<1>5. ASSUME NEW r \in Spots', NEW s \in Spots', r.pkt.emit = s.pkt.emit PROVE r = s
  <2>1. CASE r \in Spots /\ s \in Spots
    BY <1>4, <1>5, <2>1
  <2>2. CASE r \notin Spots /\ s \notin Spots
    BY <1>1, <2>2
  <2>3. CASE r \notin Spots /\ s \in Spots
    <3>1. PICK q \in Spots \ Spots' : q.pkt = r.pkt
      BY <1>2, <2>3
    <3> QED
      BY <1>4, <1>5, <2>3, <3>1
  <2>4. CASE r \in Spots /\ s \notin Spots
    <3>1. PICK q \in Spots \ Spots' : q.pkt = s.pkt
      BY <1>2, <2>4
    <3> QED
      BY <1>4, <1>5, <2>4, <3>1
  <2> QED
    BY <2>1, <2>2, <2>3, <2>4
<1>6. Single'
  BY <1>5 DEF Single
<1>7. Covered'
  <2> SUFFICES ASSUME NEW e \in Emits, NEW i \in ids[e], e \notin lost',
                      \A a \in answered' : a.of # e, ~(i < 0)
               PROVE  \E s \in Spots' : s.pkt.emit = e
    BY DEF Covered
  <2>1. PICK s \in Spots : s.pkt.emit = e
    BY DEF Travel, Covered
  <2>2. CASE s \in Spots'
    BY <2>1, <2>2
  <2>3. CASE s \notin Spots'
    <3>1. Known(s)
      BY DEF Travel
    <3>2. ids[e] \subseteq {s.pkt.id}
      BY <2>1, <3>1 DEF Known
    <3>3. ~Gone(s.pkt)
      BY <2>1, <3>2 DEF Gone
    <3>4. PICK r \in Spots' : r.pkt = s.pkt
      BY <1>3, <2>3, <3>3
    <3> QED
      BY <2>1, <3>4
  <2> QED
    BY <2>2, <2>3
<1>8. \A e \in Emits : e[2] > calls' => ids'[e] = {}
  BY DEF Travel
<1> QED
  BY <1>2, <1>6, <1>7, <1>8

LEMMA SharesMore ==
  ASSUME NEW e \in Emits, SharesId(e), \A f \in Emits : ids[f] \subseteq ids'[f]
  PROVE  SharesId(e)'
BY DEF SharesId

LEMMA CarriedTravel ==
  ASSUME Typed, Travel, Carried, Sorted(queue', Differ), Sorted(ready', TextsDiffer),
         UNCHANGED <<ids, calls, acks, answered>>, lost \subseteq lost'
  PROVE  Travel'
<1>1. /\ Single' /\ Covered'
      /\ \A r \in Spots' : r \in Spots \/ \E s \in Spots :
             s.pkt = r.pkt /\ s.at \notin Drafts /\ r.at \notin Drafts
      /\ \A e \in Emits : e[2] > calls' => ids'[e] = {}
  BY CarriedOn
<1>2. ASSUME NEW r \in Spots' PROVE Known(r)'
  <2>1. PICK s \in Spots : s.pkt = r.pkt /\ (s = r \/ (s.at \notin Drafts /\ r.at \notin Drafts))
    BY <1>1
  <2>2. Known(s)
    BY DEF Travel
  <2> QED
    BY <2>1, <2>2 DEF Known, SharesId, Drafts
<1>3. OwnCallback'
  BY DEF Travel, OwnCallback, SharesId
<1> QED
  BY <1>1, <1>2, <1>3 DEF Travel

LEMMA SameTravel ==
  ASSUME Travel, Spots' = Spots, UNCHANGED <<ids, calls, acks, answered, lost, queue, ready>>
  PROVE  Travel'
BY DEF Travel, Single, Covered, OwnCallback, Known, SharesId

LEMMA AckTravel ==
  ASSUME Typed, Travel, OnAck
  PROVE  Travel'
<1>1. PICK p \in owed : /\ owed' = owed \ {p} /\ acks' = [acks EXCEPT ![p.id] = NoEmit]
                        /\ answered' = answered \cup {[of |-> p.emit, cb |-> acks[p.id]]}
                        /\ p.id \in Ids
  BY AckTyped
<1>2. /\ UNCHANGED <<queue, ready, sendVars, partial>> /\ calls' = calls /\ ids' = ids /\ lost' = lost
      /\ acks \in [Ids -> Emits \cup {NoEmit}] /\ p \in Packet /\ p.id >= 0
  BY AckTyped DEF Typed, Types
<1> DEFINE o == Mark("owed", Net, p)
<1>3. /\ Carried /\ o \in Spots /\ o.pkt = p /\ o.at = "owed" /\ o \notin Spots' /\ Spots' \subseteq Spots
  BY <1>1, <1>2, AckCarries
<1> HIDE DEF o
<1>4. Sorted(queue', Differ) /\ Sorted(ready', TextsDiffer)
  BY <1>2 DEF Travel, Single
<1>5. Single' /\ Covered' /\ \A e \in Emits : e[2] > calls' => ids'[e] = {}
  BY <1>1, <1>2, <1>3, <1>4, CarriedOn
<1>6. p.emit \in Emits /\ ids[p.emit] = {p.id} /\ (acks[p.id] = p.emit \/ SharesId(p.emit))
  <2>1. Known(o)
    BY <1>3 DEF Travel
  <2> QED
    BY <1>2, <1>3, <2>1 DEF Known, Drafts
<1>7. \A e \in Emits : SharesId(e)' <=> SharesId(e)
  BY <1>2 DEF SharesId
<1>8. OwnCallback'
  <2> DEFINE b == [of |-> p.emit, cb |-> acks[p.id]]
  <2>1. b.of = p.emit /\ b.cb = acks[p.id] /\ answered' = answered \cup {b}
    BY <1>1
  <2> HIDE DEF b
  <2>2. b.cb = b.of \/ SharesId(b.of)
    BY <1>6, <2>1
  <2> QED
    BY <1>2, <2>1, <2>2 DEF Travel, OwnCallback, SharesId
<1>9. ASSUME NEW s \in Spots' PROVE Known(s)'
  <2>1. s \in Spots /\ s # o
    BY <1>3
  <2>2. Known(s) /\ s.pkt.emit # p.emit
    BY <1>3, <2>1 DEF Travel, Single
  <2>3. ASSUME s.at \notin Drafts, s.pkt.id >= 0
        PROVE  acks'[s.pkt.id] = s.pkt.emit \/ SharesId(s.pkt.emit)'
    <3>1. s.pkt \in Packet /\ s.pkt.id \in Ids /\ ids[s.pkt.emit] = {s.pkt.id} /\ s.pkt.emit \in Emits
      BY <2>2, <2>3 DEF Known, Packet, Drafts
    <3>2. CASE s.pkt.id = p.id
      <4>1. ids[s.pkt.emit] \cap ids[p.emit] # {}
        BY <1>6, <3>1, <3>2
      <4>2. SharesId(s.pkt.emit)
        BY <1>6, <2>2, <4>1 DEF SharesId
      <4> QED
        BY <1>7, <3>1, <4>2
    <3>3. CASE s.pkt.id # p.id
      <4>1. acks'[s.pkt.id] = acks[s.pkt.id]
        BY <1>1, <1>2, <3>1, <3>3
      <4> QED
        BY <1>7, <2>2, <2>3, <3>1, <4>1 DEF Known
    <3> QED
      BY <3>2, <3>3
  <2> QED
    BY <1>2, <2>2, <2>3 DEF Known
<1>10. \A r \in answered' : r.of \in Emits
  BY <1>1, <1>6 DEF Travel
<1> QED
  BY <1>5, <1>8, <1>9, <1>10 DEF Travel

(* A step in which only the hand of thread t changes.                      *)
LEMMA HandMoves ==
  ASSUME Typed, Typed', NEW t \in Threads,
         \A u \in Threads \ {t} : pc'[u] = pc[u] /\ pkt'[u] = pkt[u],
         UNCHANGED <<queue, ready, frames, partial, owed>>
  PROVE  Spots' = (Spots \ Mine(t)) \cup Mine(t)' /\ Mine(t) \subseteq Spots
<1>1. Hands' = (Hands \ Mine(t)) \cup Mine(t)' /\ Mine(t) \subseteq Hands
  BY HandsChange
<1>2. /\ Framed' = Framed /\ Queued' = Queued /\ Posted' = Posted
      /\ AtServer' = AtServer /\ Owing' = Owing
  BY DEF Framed, Queued, Posted, AtServer, Owing
<1>3. /\ "frames" \notin Drafts \cup {"send"} /\ "queue" \notin Drafts \cup {"send"}
      /\ "ready" \notin Drafts \cup {"send"} /\ "server" \notin Drafts \cup {"send"}
      /\ "owed" \notin Drafts \cup {"send"}
  BY DEF Drafts
<1>4. \A s \in Mine(t) : s \notin Framed \cup Queued \cup Posted \cup AtServer \cup Owing
  BY <1>1, <1>3, Kinds
<1> QED
  BY <1>1, <1>2, <1>4 DEF Spots

(* A new packet: nothing on its way has its emit.                          *)
LEMMA EmitTravel ==
  ASSUME Typed, Travel, NEW t \in Threads, Emit(t)
  PROVE  Travel'
<1> DEFINE e == <<t, calls + 1>>
           n == Mark(pc'[t], t, pkt'[t])
<1>1. /\ Typed' /\ pc[t] = "idle" /\ calls' = calls + 1
      /\ UNCHANGED <<acks, queue, ready, frames, partial, owed, ids, answered, lost>>
  BY EmitTyped DEF Emit, At, peerVars
<1>2. /\ pc \in [Threads -> Labels] /\ pkt \in [Threads -> Packet \cup Draft \cup {NoPacket}]
      /\ calls \in Nat /\ nextId \in UInt /\ calls' \in 1..MaxCalls
  BY <1>1, Constants DEF Typed, Types
<1>3. PICK bins \in 0..MaxBins :
        \/ /\ pkt' = [pkt EXCEPT ![t] = [emit |-> e, id |-> -1, bins |-> bins]]
           /\ pc' = [pc EXCEPT ![t] = "send"]
        \/ /\ pkt' = [pkt EXCEPT ![t] = [emit |-> e, id |-> nextId, bins |-> bins]]
           /\ pc' = [pc EXCEPT ![t] = "increment"]
  BY <1>1 DEF Emit, EmitOf, Goto
<1>4. /\ e \in Emits /\ e[2] = calls + 1
      /\ \A u \in Threads \ {t} : pc'[u] = pc[u] /\ pkt'[u] = pkt[u]
  BY <1>1, <1>2, <1>3 DEF Emits
<1>5. /\ pkt'[t].emit = e
      /\ \/ pc'[t] = "increment"
         \/ pc'[t] = "send" /\ pkt'[t].id = -1 /\ pkt'[t] \in Packet
  <2>1. [emit |-> e, id |-> -1, bins |-> bins] \in Packet
    BY <1>4, IdFacts DEF Packet
  <2> QED
    BY <1>2, <1>3, <2>1
<1>6. Spots' = Spots \cup {n}
  <2>1. Mine(t) = {}
    BY <1>1 DEF Mine, Stage, Drafts
  <2>2. Mine(t)' = {n}
    BY <1>5 DEF Mine, Stage, Drafts
  <2> QED
    BY <1>1, <1>4, <2>1, <2>2, HandMoves
<1>7. n.pkt = pkt'[t] /\ n.at = pc'[t]
  BY DEF Mark
<1>8. ids[e] = {}
  BY <1>2, <1>4 DEF Travel
<1> HIDE DEF e, n
<1>9. \A s \in Spots : Known(s) /\ s.pkt.emit # e
  BY <1>2, <1>4 DEF Travel, Known
<1>10. \A f \in Emits : SharesId(f)' <=> SharesId(f)
  BY <1>1 DEF SharesId
<1>11. \A s \in Spots : Known(s)'
  <2> SUFFICES ASSUME NEW s \in Spots PROVE Known(s)'
    OBVIOUS
  <2>1. Known(s) /\ s.pkt.emit \in Emits /\ s.pkt.emit[2] \in Nat
    BY <1>9, Constants DEF Known
  <2> QED
    BY <1>1, <1>2, <1>10, <2>1 DEF Known
<1>12. ASSUME NEW s \in Spots', s = n PROVE Known(s)'
  <2>1. s.pkt.emit = e /\ ids'[e] = {} /\ e[2] <= calls' /\ s.pkt = pkt'[t] /\ s.at = pc'[t]
    BY <1>1, <1>2, <1>4, <1>5, <1>7, <1>8, <1>12
  <2>2. CASE pc'[t] = "increment"
    BY <1>4, <2>1, <2>2 DEF Known, Drafts
  <2>3. CASE pc'[t] = "send" /\ pkt'[t].id = -1 /\ pkt'[t] \in Packet
    <3>1. s.pkt \in Packet /\ ~(s.pkt.id >= 0) /\ s.at = "send"
      BY <2>1, <2>3
    <3> QED
      BY <1>4, <2>1, <3>1 DEF Known
  <2> QED
    BY <1>5, <2>2, <2>3
<1>13. Single'
  BY <1>1, <1>5, <1>6, <1>7, <1>9 DEF Travel, Single
<1>14. Covered'
  BY <1>1, <1>6 DEF Travel, Covered
<1>15. OwnCallback'
  BY <1>1 DEF Travel, OwnCallback, SharesId
<1>16. \A f \in Emits : f[2] > calls' => ids'[f] = {}
  <2> SUFFICES ASSUME NEW f \in Emits, f[2] > calls' PROVE ids'[f] = {}
    OBVIOUS
  <2>1. f[2] \in Nat /\ f[2] > calls
    BY <1>1, <1>2, Constants
  <2> QED
    BY <1>1, <2>1 DEF Travel
<1> QED
  BY <1>1, <1>6, <1>11, <1>12, <1>13, <1>14, <1>15, <1>16 DEF Travel

(* The id is given: only now do the ids of the emit have a member.         *)
LEMMA IncrementTravel ==
  ASSUME Typed, Travel, NEW t \in Threads, Increment(t)
  PROVE  Travel'
<1> DEFINE a == Mark("increment", t, pkt[t])
           b == Mark("register", t, pkt'[t])
           e == pkt[t].emit
<1>1. /\ Typed' /\ pc[t] = "increment" /\ pkt[t] \in Draft /\ pkt'[t] \in Packet
      /\ pkt'[t] = [pkt[t] EXCEPT !.id = ToInt(pkt[t].id)]
      /\ pc' = [pc EXCEPT ![t] = "register"]
      /\ UNCHANGED <<acks, queue, ready, frames, partial, owed, calls, answered, lost>>
      /\ ids' = [ids EXCEPT ![e] = {ToInt(pkt[t].id)}]
  BY IncrementTyped DEF Increment, At, Goto, peerVars
<1>2. /\ pc \in [Threads -> Labels] /\ pkt \in [Threads -> Packet \cup Draft \cup {NoPacket}]
      /\ ids \in [Emits -> SUBSET Ids] /\ e \in Emits
  BY <1>1, Constants DEF Typed, Types
<1>3. \A u \in Threads \ {t} : pc'[u] = pc[u] /\ pkt'[u] = pkt[u]
  BY <1>1, <1>2 DEF Increment
<1>4. /\ pc'[t] = "register" /\ pkt'[t].emit = e /\ pkt'[t].id = ToInt(pkt[t].id)
      /\ ids'[e] = {pkt'[t].id} /\ \A f \in Emits : f # e => ids'[f] = ids[f]
  BY <1>1, <1>2 DEF Draft
<1>5. Spots' = (Spots \ {a}) \cup {b} /\ a \in Spots
  <2>1. Mine(t) = {a}
    BY <1>1 DEF Mine, Stage, Drafts
  <2>2. Mine(t)' = {b}
    BY <1>4 DEF Mine, Stage, Drafts
  <2> QED
    BY <1>1, <1>3, <2>1, <2>2, HandMoves
<1>6. a.at = "increment" /\ a.pkt.emit = e /\ b.at = "register" /\ b.pkt = pkt'[t]
  BY DEF Mark
<1> HIDE DEF a, b, e
<1>7. Known(a) /\ e[2] <= calls /\ ids[e] = {}
  BY <1>5, <1>6 DEF Travel, Known
<1>8. \A f \in Emits : ids[f] \subseteq ids'[f]
  BY <1>4, <1>7
<1>9. \A s \in Spots \ {a} : s.pkt.emit # e
  BY <1>5, <1>6 DEF Travel, Single
<1>10. \A s \in Spots \ {a} : Known(s)'
  <2> SUFFICES ASSUME NEW s \in Spots \ {a} PROVE Known(s)'
    OBVIOUS
  <2>1. Known(s) /\ s.pkt.emit \in Emits /\ ids'[s.pkt.emit] = ids[s.pkt.emit]
    BY <1>4, <1>9 DEF Travel, Known
  <2>2. SharesId(s.pkt.emit) => SharesId(s.pkt.emit)'
    BY <1>8, <2>1, SharesMore
  <2> QED
    BY <1>1, <2>1, <2>2 DEF Known
<1>11. ASSUME NEW s \in Spots', s = b PROVE Known(s)'
  <2>1. s.at = "register" /\ s.pkt = pkt'[t] /\ s.at \in Drafts
    BY <1>6, <1>11 DEF Drafts
  <2>2. ids'[s.pkt.emit] = {s.pkt.id} /\ s.pkt.emit \in Emits /\ s.pkt \in Packet
    BY <1>1, <1>2, <1>4, <2>1
  <2>3. s.pkt.emit[2] <= calls'
    BY <1>1, <1>4, <1>7, <2>1
  <2> QED
    BY <2>1, <2>2, <2>3 DEF Known
<1>12. Single'
  <2>1. /\ queue' = queue /\ ready' = ready /\ b.pkt.emit = e
        /\ \A r \in Spots' : r = b \/ (r \in Spots /\ r # a /\ r.pkt.emit # e)
    BY <1>1, <1>4, <1>5, <1>6, <1>9
  <2>2. ASSUME NEW r \in Spots', NEW s \in Spots', r.pkt.emit = s.pkt.emit PROVE r = s
    BY <2>1, <2>2 DEF Travel, Single
  <2> QED
    BY <2>1, <2>2 DEF Travel, Single
<1>13. Covered'
  <2> SUFFICES ASSUME NEW f \in Emits, NEW i \in ids'[f], f \notin lost',
                      \A r \in answered' : r.of # f, ~(i < 0)
               PROVE  \E s \in Spots' : s.pkt.emit = f
    BY DEF Covered
  <2>1. CASE f = e
    BY <1>4, <1>5, <1>6, <2>1
  <2>2. CASE f # e
    <3>1. PICK s \in Spots : s.pkt.emit = f
      BY <1>1, <1>4, <2>2 DEF Travel, Covered
    <3> QED
      BY <1>5, <1>6, <2>2, <3>1
  <2> QED
    BY <2>1, <2>2
<1>14. OwnCallback'
  <2> SUFFICES ASSUME NEW r \in answered', r.cb # r.of PROVE SharesId(r.of)'
    BY DEF OwnCallback
  <2>1. SharesId(r.of) /\ r.of \in Emits
    BY <1>1 DEF Travel, OwnCallback
  <2> QED
    BY <1>8, <2>1, SharesMore
<1>15. \A f \in Emits : f[2] > calls' => ids'[f] = {}
  <2> SUFFICES ASSUME NEW f \in Emits, f[2] > calls' PROVE ids'[f] = {}
    OBVIOUS
  <2>1. f # e
    <3>1. calls \in Nat /\ e[2] \in Nat
      BY <1>2, Constants DEF Typed, Types
    <3> QED
      BY <1>1, <1>7, <3>1
  <2> QED
    BY <1>1, <1>4, <2>1 DEF Travel
<1> QED
  BY <1>1, <1>5, <1>10, <1>11, <1>12, <1>13, <1>14, <1>15 DEF Travel

(* The callback is put in m_acks: one of another packet that it replaces   *)
(* was of a packet with the same id.                                       *)
LEMMA RegisterTravel ==
  ASSUME Typed, Travel, NEW t \in Threads, Register(t)
  PROVE  Travel'
<1> DEFINE a == Mark("register", t, pkt[t])
           b == Mark("send", t, pkt[t])
           p == pkt[t]
<1>1. /\ Typed' /\ pc[t] = "register" /\ p \in Packet /\ acks' = [acks EXCEPT ![p.id] = p.emit]
      /\ pc' = [pc EXCEPT ![t] = "send"]
      /\ UNCHANGED <<pkt, queue, ready, frames, partial, owed, calls, ids, answered, lost>>
  BY RegisterTyped DEF Register, At, peerVars
<1>2. /\ pc \in [Threads -> Labels] /\ acks \in [Ids -> Emits \cup {NoEmit}]
      /\ p.id \in Ids /\ p.emit \in Emits
  BY <1>1 DEF Typed, Types, Packet
<1>3. (\A u \in Threads \ {t} : pc'[u] = pc[u] /\ pkt'[u] = pkt[u]) /\ pc'[t] = "send"
  BY <1>1, <1>2
<1>4. Spots' = (Spots \ {a}) \cup {b} /\ a \in Spots
  <2>1. Mine(t) = {a}
    BY <1>1 DEF Mine, Stage, Drafts
  <2>2. Mine(t)' = {b}
    BY <1>1, <1>3 DEF Mine, Stage, Drafts
  <2> QED
    BY <1>1, <1>3, <2>1, <2>2, HandMoves
<1>5. a.at = "register" /\ a.pkt = p /\ b.at = "send" /\ b.pkt = p
  BY DEF Mark
<1> HIDE DEF a, b, p
<1>6. \A s \in Spots \ {a} : s.pkt.emit # p.emit
  BY <1>4, <1>5 DEF Travel, Single
<1>7. Known(a)
  BY <1>4 DEF Travel
<1>8. \A f \in Emits : SharesId(f)' <=> SharesId(f)
  BY <1>1 DEF SharesId
<1>9. ASSUME NEW s \in Spots', s = b PROVE Known(s)'
  <2>1. s.at = "send" /\ s.pkt = p /\ acks'[p.id] = p.emit
    BY <1>1, <1>2, <1>5, <1>9
  <2>2. /\ p.emit[2] <= calls' /\ ids'[p.emit] \subseteq {p.id}
        /\ (p.id >= 0 => ids'[p.emit] = {p.id})
    BY <1>1, <1>5, <1>7 DEF Known
  <2> QED
    BY <1>1, <1>2, <2>1, <2>2 DEF Known
<1>10. \A s \in Spots \ {a} : Known(s)'
  <2> SUFFICES ASSUME NEW s \in Spots \ {a} PROVE Known(s)'
    OBVIOUS
  <2>1. Known(s) /\ s.pkt.emit \in Emits /\ s.pkt.emit # p.emit
    BY <1>6 DEF Travel, Known
  <2>2. ASSUME s.at \notin Drafts, s.pkt.id >= 0
        PROVE  acks'[s.pkt.id] = s.pkt.emit \/ SharesId(s.pkt.emit)'
    <3>1. ids[s.pkt.emit] = {s.pkt.id} /\ s.pkt.id \in Ids
      BY <2>1, <2>2 DEF Known, Drafts, Packet
    <3>2. CASE s.pkt.id = p.id
      <4>1. ids[p.emit] = {p.id}
        BY <1>5, <1>7, <2>2, <3>2 DEF Known
      <4>2. ids[s.pkt.emit] \cap ids[p.emit] # {}
        BY <3>1, <3>2, <4>1
      <4>3. SharesId(s.pkt.emit)
        BY <1>2, <2>1, <4>2 DEF SharesId
      <4> QED
        BY <1>8, <2>1, <4>3
    <3>3. CASE s.pkt.id # p.id
      <4>1. acks'[s.pkt.id] = acks[s.pkt.id]
        BY <1>1, <1>2, <3>1, <3>3
      <4> QED
        BY <1>8, <2>1, <2>2, <4>1 DEF Known
    <3> QED
      BY <3>2, <3>3
  <2> QED
    BY <1>1, <2>1, <2>2 DEF Known
<1>11. Single'
  BY <1>1, <1>4, <1>5, <1>6 DEF Travel, Single
<1>12. Covered'
  <2> SUFFICES ASSUME NEW f \in Emits, NEW i \in ids[f], f \notin lost,
                      \A r \in answered : r.of # f, ~(i < 0)
               PROVE  \E s \in Spots' : s.pkt.emit = f
    BY <1>1 DEF Covered
  <2>1. PICK s \in Spots : s.pkt.emit = f
    BY DEF Travel, Covered
  <2> QED
    BY <1>4, <1>5, <2>1
<1>13. OwnCallback'
  BY <1>1 DEF Travel, OwnCallback, SharesId
<1>14. \A f \in Emits : f[2] > calls' => ids'[f] = {}
  BY <1>1 DEF Travel
<1> QED
  BY <1>1, <1>4, <1>9, <1>10, <1>11, <1>12, <1>13, <1>14 DEF Travel

LEMMA NextTravel == Typed /\ Lines /\ Travel /\ [Next]_vars => Travel'
<1> SUFFICES ASSUME Typed, Lines, Travel, [Next]_vars PROVE Travel'
  OBVIOUS
<1>1. Single
  BY DEF Travel
<1>2. CASE UNCHANGED vars
  <2>1. /\ UNCHANGED <<queue, ready, pc, pkt, frames, partial, owed>>
        /\ UNCHANGED <<ids, calls, acks, answered, lost>>
    BY <1>2 DEF vars, sendVars, peerVars
  <2>2. Spots' = Spots
    BY <2>1 DEF Spots, Hands, Mine, Stage, Framed, Queued, Posted, AtServer, Owing
  <2> QED
    BY <2>1, <2>2, SameTravel
<1>3. ASSUME NEW t \in Threads, Emit(t) \/ Increment(t) \/ Register(t) PROVE Travel'
  BY <1>3, EmitTravel, IncrementTravel, RegisterTravel
<1>4. ASSUME NEW t \in Threads, SendPacket(t) PROVE Travel'
  <2>1. Carried /\ Sorted(queue', Differ) /\ ready' = ready
    BY <1>1, <1>4, SendPacketCarries
  <2>2. UNCHANGED <<ids, calls, acks, answered, lost>>
    BY <1>4, SendPacketTyped
  <2> QED
    BY <1>1, <2>1, <2>2, CarriedTravel DEF Single
<1>5. ASSUME NEW t \in Threads, HandOver(t) PROVE Travel'
  <2>1. Carried /\ Sorted(ready', TextsDiffer) /\ queue' = queue /\ lost \subseteq lost'
    BY <1>1, <1>5, HandOverCarries
  <2>2. UNCHANGED <<ids, calls, acks, answered>>
    BY <1>5, HandOverTyped
  <2> QED
    BY <1>1, <2>1, <2>2, CarriedTravel DEF Single
<1>6. CASE RunSend
  <2>1. Carried /\ Sorted(ready', TextsDiffer) /\ queue' = queue /\ lost \subseteq lost'
    BY <1>1, <1>6, RunSendCarries
  <2>2. UNCHANGED <<ids, calls, acks, answered>>
    BY <1>6, RunSendTyped
  <2> QED
    BY <1>1, <2>1, <2>2, CarriedTravel DEF Single
<1>7. CASE OnOpen \/ OnConnected
  <2>1. UNCHANGED <<ids, calls, acks, answered, lost, queue, ready>>
    BY <1>7, OpenTyped
  <2> QED
    BY <1>7, <2>1, OpenCarries, SameTravel
<1>8. CASE Drain
  <2>1. Carried /\ Sorted(queue', Differ) /\ ready' = ready
    BY <1>1, <1>8, DrainCarries
  <2>2. UNCHANGED <<ids, calls, acks, answered, lost>>
    BY <1>8, DrainTyped
  <2> QED
    BY <1>1, <2>1, <2>2, CarriedTravel DEF Single
<1>9. CASE BeginClosing \/ OnClose
  <2>1. Carried /\ Sorted(queue', Differ) /\ ready' = ready
    BY <1>1, <1>9, CloseCarries
  <2>2. UNCHANGED <<ids, calls, acks, answered>> /\ lost \subseteq lost'
    BY <1>9, CloseTyped
  <2> QED
    BY <1>1, <2>1, <2>2, CarriedTravel DEF Single
<1>10. CASE OnAck
  BY <1>10, AckTravel
<1> QED
  BY <1>2, <1>3, <1>4, <1>5, <1>6, <1>7, <1>8, <1>9, <1>10 DEF Next

LEMMA TravelInvariant == Spec => [](Typed /\ Travel)
BY InitTyped, InitLines, InitTravel, NextTyped, NextLines, NextTravel, PTL DEF Spec

(* An answer of the server finds in m_acks the callback of the packet it   *)
(* answers, whatever was emitted, queued, lost and opened again meanwhile, *)
(* unless s_global_event_id gave two packets one id.                       *)
THEOREM OwnCallbackFound == Spec => []OwnCallback
<1>1. Travel => OwnCallback
  BY DEF Travel
<1> QED
  BY <1>1, TravelInvariant, PTL

(* A packet whose place is known is under way.                             *)
LEMMA SpotUnderWay ==
  ASSUME Typed, NEW s \in Spots
  PROVE  UnderWay(s.pkt.emit)
<1>1. /\ pkt \in [Threads -> Packet \cup Draft \cup {NoPacket}] /\ queue \in Seq(Packet)
      /\ ready \in Seq(Frames) /\ frames \in [Threads -> Seq(Frames)]
  BY DEF Typed, Types
<1>2. \A q \in Seq(Frames) : \A p \in Texts(q) : \E i \in DOMAIN q : q[i].pkt = p
  <2> SUFFICES ASSUME NEW q \in Seq(Frames), NEW p \in Texts(q) PROVE \E i \in DOMAIN q : q[i].pkt = p
    OBVIOUS
  <2>1. DOMAIN q = 1..Len(q)
    BY LenProperties
  <2> QED
    BY <2>1 DEF Texts, Elems
<1>3. s \in Spot /\ s.by \in Threads
  BY Kinds, SpotFacts
<1>4. CASE s \in Hands
  <2>1. s.pkt = pkt[s.by]
    BY <1>4 DEF Hands, Mine, Mark
  <2> QED
    BY <1>3, <2>1 DEF UnderWay
<1>5. CASE s \in Framed
  <2>1. frames[s.by] \in Seq(Frames) /\ s.pkt \in Texts(frames[s.by])
    BY <1>1, <1>3, <1>5 DEF Framed
  <2>2. \E i \in DOMAIN frames[s.by] : frames[s.by][i].pkt = s.pkt
    BY <1>2, <2>1
  <2> QED
    BY <1>3, <2>2 DEF UnderWay
<1>6. CASE s \in Queued
  <2>1. Emitted(queue) = {p.emit : p \in Elems(queue)}
    BY <1>1, EmittedFacts
  <2>2. s.pkt.emit \in Emitted(queue)
    BY <1>6, <2>1 DEF Queued
  <2> QED
    BY <2>2 DEF UnderWay
<1>7. CASE s \in Posted
  <2>1. \E i \in DOMAIN ready : ready[i].pkt = s.pkt
    BY <1>1, <1>2, <1>7 DEF Posted
  <2> QED
    BY <2>1 DEF UnderWay
<1>8. CASE s \in AtServer
  BY <1>8 DEF AtServer, UnderWay
<1>9. CASE s \in Owing
  BY <1>9 DEF Owing, UnderWay
<1> QED
  BY <1>4, <1>5, <1>6, <1>7, <1>8, <1>9 DEF Spots

(* No callback is forgotten in silence: until its answer comes its packet  *)
(* is at one of the places above, or a connection or another thread's      *)
(* frames took it away, or it was given a negative id.                     *)
THEOREM NoneForgotten == Spec => []AwaitedOrLost
<1>1. Typed /\ Travel => AwaitedOrLost
  <2> SUFFICES ASSUME Typed, Covered, NEW e \in Emits, NEW i \in ids[e]
               PROVE  \/ UnderWay(e) \/ e \in lost
                      \/ \E a \in answered : a.of = e
                      \/ i < 0
    BY DEF Travel, AwaitedOrLost
  <2>1. CASE \E s \in Spots : s.pkt.emit = e
    BY <2>1, SpotUnderWay
  <2> QED
    BY <2>1 DEF Covered
<1> QED
  BY <1>1, TravelInvariant, PTL
=============================================================================
