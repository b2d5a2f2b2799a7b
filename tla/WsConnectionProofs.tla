-------------------------- MODULE WsConnectionProofs -------------------------
(***************************************************************************)
(* WsConnection implements WsLink, and its queue of frames is served and   *)
(* written in order, for any number of frames and whatever the server      *)
(* sends.                                                                  *)
(***************************************************************************)
EXTENDS WsConnection, SequenceTheorems, TLAPS

States == {"connecting", "open", "closing", "closed"}

LinkStep == Link!Next \/ UNCHANGED Link!linkVars

(* Ending a connection is Fail, End, or nothing when it is closed already. *)
LEMMA TerminateStep ==
  ASSUME state \in States, NEW ts, Terminate(ts)
  PROVE  LinkStep /\ state' = "closed"
<1> USE DEF Terminate, LinkStep, Link!Next, Link!linkVars, Link!Call
<1>1. CASE state = "connecting"
  BY <1>1 DEF Link!Fail
<1>2. CASE state = "closed"
  BY <1>2
<1>3. CASE state \in {"open", "closing"}
  BY <1>3 DEF Link!End
<1> QED
  BY <1>1, <1>2, <1>3 DEF States

(* A close frame begins the closing handshake, or repeats it.              *)
LEMMA CloseFrameStep ==
  ASSUME state \in {"open", "closing"}, NEW terminal,
         SendCloseFrame(terminal), UNCHANGED calls
  PROVE  LinkStep /\ state' = "closing"
BY DEF SendCloseFrame, LinkStep, Link!Next, Link!Closing, Link!linkVars

LEMMA Stutter == ASSUME UNCHANGED <<state, calls>> PROVE LinkStep
BY DEF LinkStep, Link!linkVars

LEMMA DialStep ==
  ASSUME state \in States, HandleResolve \/ HandleConnect
  PROVE  LinkStep /\ state' \in States
<1>1. UNCHANGED <<state, calls>> \/ \E ts \in {Cancel({"dns"}), Cancel({"con"})} : Terminate(ts)
  BY DEF HandleResolve, HandleConnect, Begin
<1> QED
  BY <1>1, TerminateStep, Stutter DEF States

LEMMA HandshakeStep ==
  ASSUME state \in States, "extensions" \notin Responses,
         HandleSendHttpRequest \/ HandleReadHttpResponse
  PROVE  LinkStep /\ state' \in States
<1>1. CASE HandleSendHttpRequest
  <2>1. UNCHANGED <<state, calls>> \/ Terminate(timer)
    BY <1>1 DEF HandleSendHttpRequest
  <2> QED
    BY <2>1, TerminateStep, Stutter DEF States
<1>2. CASE HandleReadHttpResponse
  <2>1. \/ UNCHANGED <<state, calls>> \/ Terminate(Cancel({"open"}))
        \/ \E response \in Responses : OpenConnection(response)
    BY <1>2 DEF HandleReadHttpResponse
  <2>2. ASSUME NEW response \in Responses, OpenConnection(response)
        PROVE  LinkStep /\ state' \in States
    BY <2>2 DEF OpenConnection, LinkStep, Link!Next, Link!Open, Link!Call, States
  <2> QED
    BY <2>1, <2>2, TerminateStep, Stutter DEF States
<1> QED
  BY <1>1, <1>2

LEMMA FrameStep ==
  ASSUME state \in States,
         WriteFrame \/ HandleWriteFrame \/ HandleReadFrame \/ ReadFrame \/ Consume
  PROVE  LinkStep /\ state' \in States
<1>1. CASE WriteFrame \/ HandleWriteFrame \/ HandleReadFrame \/ ReadFrame
  <2>1. UNCHANGED <<state, calls>> \/ Terminate(timer)
    BY <1>1 DEF WriteFrame, HandleWriteFrame, WriteDone, HandleReadFrame, ReadFrame
  <2> QED
    BY <2>1, TerminateStep, Stutter DEF States
<1>2. CASE Consume
  <2>1. OnData \/ OnPing \/ OnPong \/ OnGarbage \/ \E frame \in Incoming : OnClose(frame)
    BY <1>2 DEF Consume, Incoming
  <2>2. CASE OnData
    BY <2>2 DEF OnData, LinkStep, Link!Next, Link!Message, Link!Call, Link!linkVars, States
  <2>3. CASE OnPing \/ OnPong
    BY <2>3, Stutter DEF OnPing, OnPong
  <2>4. CASE OnGarbage
    BY <2>4, TerminateStep, CloseFrameStep DEF OnGarbage, States
  <2>5. CASE \E frame \in Incoming : OnClose(frame)
    BY <2>5, CloseFrameStep, Stutter DEF OnClose, States
  <2> QED
    BY <2>1, <2>2, <2>3, <2>4, <2>5
<1> QED
  BY <1>1, <1>2

LEMMA StepSimulated ==
  ASSUME state \in States, "extensions" \notin Responses, [Next]_vars
  PROVE  LinkStep /\ state' \in States
<1>1. CASE UNCHANGED vars
  BY <1>1, Stutter DEF vars
<1>2. CASE Send \/ Close
  BY <1>2, CloseFrameStep, Stutter DEF Send, Close, States
<1>3. CASE \E t \in Timers : Expire(t)
  BY <1>3, Stutter DEF Expire
<1>4. ASSUME NEW t \in Timers, HandleTimeout(t)
      PROVE  LinkStep /\ state' \in States
  BY <1>4, TerminateStep DEF HandleTimeout, States
<1> QED
  BY <1>1, <1>2, <1>3, <1>4, DialStep, HandshakeStep, FrameStep DEF Next, Handlers

(* One attempt to connect has one verdict, one connection one end, and     *)
(* messages come in between (terminate, handle_read_http_response,         *)
(* process_control_frame), if the server's extensions are in order.        *)
THEOREM KeepsPromise ==
  ASSUME "extensions" \notin Responses
  PROVE  Spec => ImplementsWsLink
<1>1. Init => Link!Init /\ state \in States
  BY DEF Init, Link!Init, States
<1>2. state \in States /\ [Next]_vars => LinkStep /\ (state \in States)'
  BY StepSimulated
<1>3. LinkStep <=> [Link!Next]_(Link!linkVars)
  BY DEF LinkStep
<1> QED
  BY <1>1, <1>2, <1>3, PTL DEF Spec, ImplementsWsLink, Link!Spec

-----------------------------------------------------------------------------
(* Before the connection opens nothing is queued: otherwise opening it     *)
(* could leave a frame behind that nobody writes.                          *)
Served ==
  /\ posts \in Nat
  /\ state = "connecting" => queue = <<>>
  /\ QueueIsServed

LEMMA PushServed ==
  ASSUME Served, state \in {"open", "closing"}, NEW f, Push(f), state' \in {"open", "closing"}
  PROVE  Served'
BY DEF Served, QueueIsServed, Push

LEMMA TerminateServed ==
  ASSUME Served, NEW ts, Terminate(ts), posts' = posts
  PROVE  Served'
BY DEF Served, QueueIsServed, Terminate

LEMMA CloseFrameServed ==
  ASSUME Served, state \in {"open", "closing"}, NEW terminal, SendCloseFrame(terminal)
  PROVE  Served'
BY PushServed DEF SendCloseFrame

LEMMA Untouched ==
  ASSUME Served, UNCHANGED <<queue, flag, posts>>,
         state' = state \/ state' = "closed" \/ (state = "connecting" /\ state' = "open")
  PROVE  Served'
BY DEF Served, QueueIsServed

LEMMA WriteServed ==
  ASSUME Served, WriteFrame \/ HandleWriteFrame
  PROVE  Served'
<1>1. CASE WriteFrame
  BY <1>1 DEF WriteFrame, BeginWrite, Served, QueueIsServed
<1>2. CASE HandleWriteFrame
  <2>1. UNCHANGED queue /\ (WriteDone \/ (Terminate(timer) /\ UNCHANGED posts))
    BY <1>2 DEF HandleWriteFrame
  <2> QED
    BY <2>1, TerminateServed DEF WriteDone, Served, QueueIsServed
<1> QED
  BY <1>1, <1>2

LEMMA ConsumeServed ==
  ASSUME Served, Consume
  PROVE  Served'
<1>1. OnData \/ OnPing \/ OnPong \/ OnGarbage \/ \E frame \in Incoming : OnClose(frame)
  BY DEF Consume, Incoming
<1>2. CASE OnData \/ OnPong
  BY <1>2, Untouched DEF OnData, OnPong, sendVars
<1>3. CASE OnPing
  BY <1>3, Untouched, PushServed DEF OnPing, sendVars
<1>4. CASE OnGarbage
  BY <1>4, CloseFrameServed, TerminateServed DEF OnGarbage, sendVars
<1>5. CASE \E frame \in Incoming : OnClose(frame)
  BY <1>5, CloseFrameServed, Untouched DEF OnClose, sendVars
<1> QED
  BY <1>1, <1>2, <1>3, <1>4, <1>5

LEMMA StepServed == ASSUME Served, [Next]_vars PROVE Served'
<1>1. CASE UNCHANGED vars
  BY <1>1, Untouched DEF vars, sendVars
<1>2. CASE Send
  BY <1>2, PushServed DEF Send
<1>3. CASE Close
  BY <1>3, CloseFrameServed, Untouched DEF Close, sendVars
<1>4. CASE \E t \in Timers : Expire(t)
  BY <1>4, Untouched DEF Expire, sendVars
<1>5. CASE \E t \in Timers : HandleTimeout(t)
  BY <1>5, TerminateServed DEF HandleTimeout, sendVars
<1>6. CASE HandleResolve \/ HandleConnect
  BY <1>6, TerminateServed, Untouched DEF HandleResolve, HandleConnect, Begin, sendVars
<1>7. CASE HandleSendHttpRequest \/ HandleReadHttpResponse
  BY <1>7, TerminateServed, Untouched
     DEF HandleSendHttpRequest, HandleReadHttpResponse, OpenConnection, sendVars
<1>8. CASE HandleReadFrame \/ ReadFrame
  BY <1>8, TerminateServed, Untouched DEF HandleReadFrame, ReadFrame, sendVars
<1>9. CASE WriteFrame \/ HandleWriteFrame \/ Consume
  BY <1>9, WriteServed, ConsumeServed
<1> QED
  BY <1>1, <1>2, <1>3, <1>4, <1>5, <1>6, <1>7, <1>8, <1>9 DEF Next, Handlers

(* A frame that client_impl, a ping or a close put in m_send_queue is      *)
(* never left there: a write is under way or posted (write_frame,          *)
(* handle_write_frame).                                                    *)
THEOREM FramesAreServed == Spec => []QueueIsServed
<1>1. Init => Served
  BY DEF Init, Served, QueueIsServed
<1>2. Served /\ [Next]_vars => Served'
  BY StepServed
<1>3. Served => QueueIsServed
  BY DEF Served
<1> QED
  BY <1>1, <1>2, <1>3, PTL DEF Spec

-----------------------------------------------------------------------------
(* The order of the frames.  Of the frames accepted only a close frame is  *)
(* terminal, and what may follow it is not: so the queue never holds two,  *)
(* and what is written at once is a prefix of it.                          *)
LEMMA FrameTypes ==
  \A f \in Frames :
    (f.terminal => f.op = "close") /\ (f = CloseFrame(FALSE) => ~f.terminal)
BY DEF Frames, Data, Pong, CloseFrame

NoTwoTerminal(s) == \A i, j \in 1..Len(s) : s[i].terminal /\ s[j].terminal => i = j

LEMMA BatchIsPrefix ==
  ASSUME queue \in Seq(Frames), queue # <<>>, NoTwoTerminal(queue)
  PROVE  \E n \in 1..Len(queue) :
           Batch = SubSeq(queue, 1, n) /\ \A i \in 1 .. n - 1 : ~queue[i].terminal
<1> DEFINE I == {i \in 1..Len(queue) : queue[i].terminal}
<1>1. Len(queue) \in Nat /\ Len(queue) > 0
  BY EmptySeq
<1>2. CASE I = {}
  <2>1. Batch = queue
    BY <1>2 DEF Batch, SelectInSeq
  <2>2. Batch = SubSeq(queue, 1, Len(queue))
    BY <2>1, SubSeqFull
  <2>3. \A i \in 1 .. Len(queue) - 1 : ~queue[i].terminal
    BY <1>1, <1>2
  <2> QED
    BY <1>1, <2>2, <2>3
<1>3. ASSUME NEW n \in I PROVE \E k \in 1..Len(queue) :
           Batch = SubSeq(queue, 1, k) /\ \A i \in 1 .. k - 1 : ~queue[i].terminal
  <2>1. I = {n}
    BY <1>3 DEF NoTwoTerminal
  <2>2. n \in 1..Len(queue) /\ n # 0
    BY <1>1
  <2>3. Min({n}) = n
    BY <2>2 DEF Min
  <2>4. SelectInSeq(queue, LAMBDA f : f.terminal) = n
     <3>1. I # {} /\ Min(I) = n
      BY <2>1, <2>3
    <3> QED
      BY <3>1 DEF SelectInSeq
  <2>5. Batch = SubSeq(queue, 1, n)
    BY <2>2, <2>4 DEF Batch
  <2>6. \A i \in 1 .. n - 1 : ~queue[i].terminal
    BY <1>1, <2>1, <2>2
  <2> QED
    BY <2>2, <2>5, <2>6
<1> QED
  BY <1>2, <1>3

(* The inductive invariant: while nobody writes no frame is under way and  *)
(* no terminal one has been; the last frame given to the transport is the  *)
(* last of those under way, by which handle_write_frame decides.           *)
Sending ==
  /\ queue \in Seq(Frames) /\ current \in Seq(Frames)
  /\ accepted \in Seq(Frames) /\ written \in Seq(Frames)
  /\ InOrder /\ TerminalIsLast
  /\ ~flag => current = <<>> /\ \A i \in 1..Len(written) : ~written[i].terminal
  /\ writing = "frames" =>
       /\ flag /\ current # <<>> /\ written # <<>>
       /\ written[Len(written)] = current[Len(current)]
  /\ \A i \in 1..Len(accepted) : accepted[i].op = "close" => state \in {"closing", "closed"}

(* What was accepted is written or queued.                                 *)
LEMMA AcceptedSplit ==
  ASSUME Sending
  PROVE  /\ Len(accepted) = Len(written) + Len(queue)
         /\ \A i \in 1..Len(written) : accepted[i] = written[i]
         /\ \A i \in 1..Len(queue) : accepted[Len(written) + i] = queue[i]
         /\ Len(written) \in Nat /\ Len(queue) \in Nat /\ Len(accepted) \in Nat
         /\ DOMAIN accepted = 1..Len(accepted) /\ DOMAIN written = 1..Len(written)
<1>1. queue \in Seq(Frames) /\ written \in Seq(Frames) /\ accepted \in Seq(Frames)
      /\ accepted = written \o queue
  BY DEF Sending, InOrder
<1> HIDE DEF Frames
<1>2. /\ Len(written) \in Nat /\ Len(queue) \in Nat /\ Len(accepted) \in Nat
      /\ DOMAIN accepted = 1..Len(accepted) /\ DOMAIN written = 1..Len(written)
  BY <1>1, LenProperties
<1>3. /\ Len(accepted) = Len(written) + Len(queue)
      /\ \A i \in 1 .. Len(written) + Len(queue) :
           accepted[i] = IF i <= Len(written) THEN written[i] ELSE queue[i - Len(written)]
  BY <1>1, ConcatProperties
<1>4. \A i \in 1..Len(written) : i \in 1 .. Len(written) + Len(queue) /\ i <= Len(written)
  BY <1>2
<1>5. \A i \in 1..Len(queue) :
        /\ Len(written) + i \in 1 .. Len(written) + Len(queue)
        /\ ~ (Len(written) + i <= Len(written)) /\ (Len(written) + i) - Len(written) = i
  BY <1>2
<1> QED
  BY <1>2, <1>3, <1>4, <1>5

LEMMA OneTerminal ==
  ASSUME Sending
  PROVE  NoTwoTerminal(queue)
<1> SUFFICES ASSUME NEW i \in 1..Len(queue), NEW j \in 1..Len(queue), i < j,
                    queue[i].terminal, queue[j].terminal
             PROVE  FALSE
  <2>1. Len(queue) \in Nat
    BY AcceptedSplit
  <2> QED
    BY <2>1 DEF NoTwoTerminal
<1>1. accepted[Len(written) + i] = queue[i] /\ accepted[Len(written) + j] = queue[j]
  BY AcceptedSplit
<1>2. /\ Len(written) + i \in DOMAIN accepted /\ Len(written) + j \in DOMAIN accepted
      /\ Len(written) + i < Len(written) + j
  BY AcceptedSplit
<1>3. queue[i] \in Frames /\ queue[j] \in Frames
  BY ElementOfSeq DEF Sending
<1>4. queue[i].op = "close"
  BY <1>3, FrameTypes
<1>5. queue[j] = CloseFrame(FALSE)
  BY <1>1, <1>2, <1>4 DEF Sending, InOrder
<1> QED
  BY <1>3, <1>5, FrameTypes

(* A frame is accepted in the open state; once a close frame was, only the *)
(* answer to a bad close frame.                                            *)
LEMMA PushSending ==
  ASSUME Sending, NEW f \in Frames, Push(f), UNCHANGED writing,
         state = "open" \/ (state = "closing" /\ f = CloseFrame(FALSE)),
         state' \in {"open", "closing"},
         state = "closing" \/ f.op = "close" => state' = "closing"
  PROVE  Sending'
<1> HIDE DEF Frames
<1>1. /\ queue \in Seq(Frames) /\ written \in Seq(Frames) /\ accepted \in Seq(Frames)
      /\ accepted = written \o queue
  BY DEF Sending, InOrder
<1>2. /\ queue' = Append(queue, f) /\ accepted' = Append(accepted, f)
      /\ UNCHANGED <<current, flag, written, writing>>
  BY DEF Push
<1>3. queue' \in Seq(Frames) /\ accepted' \in Seq(Frames)
  BY <1>1, <1>2, AppendProperties
<1>4. written' \o queue' = accepted'
  <2>1. <<f>> \in Seq(Frames)
    OBVIOUS
  <2>2. (written \o queue) \o <<f>> = written \o (queue \o <<f>>)
    BY <1>1, <2>1, ConcatAssociative
  <2> QED
    BY <1>1, <1>2, <2>2, AppendIsConcat
<1>5. /\ Len(accepted) \in Nat /\ Len(accepted') = Len(accepted) + 1
      /\ DOMAIN accepted = 1..Len(accepted) /\ DOMAIN accepted' = 1..Len(accepted')
      /\ \A i \in 1..Len(accepted) : accepted'[i] = accepted[i]
      /\ accepted'[Len(accepted')] = f
  BY <1>1, <1>2, <1>3, AppendProperties, LenProperties
<1>6. ASSUME NEW i \in 1..Len(accepted'), NEW j \in 1..Len(accepted'), i < j,
             accepted'[i].op = "close"
      PROVE  accepted'[j] = CloseFrame(FALSE)
  <2>1. i \in 1..Len(accepted) /\ accepted[i].op = "close"
    BY <1>5, <1>6
  <2>2. CASE j = Len(accepted')
    BY <1>5, <2>1, <2>2 DEF Sending
  <2>3. CASE j # Len(accepted')
    <3>1. j \in 1..Len(accepted)
      BY <1>5, <2>3
    <3> QED
      BY <1>5, <1>6, <2>1, <3>1 DEF Sending, InOrder
  <2> QED
    BY <2>2, <2>3
<1>7. InOrder'
  BY <1>4, <1>5, <1>6 DEF InOrder
<1>8. ASSUME NEW i \in 1..Len(accepted'), accepted'[i].op = "close"
      PROVE  state' \in {"closing", "closed"}
  <2>1. CASE i = Len(accepted')
    BY <1>5, <1>8, <2>1
  <2>2. CASE i # Len(accepted')
    <3>1. i \in 1..Len(accepted)
      BY <1>5, <2>2
    <3>2. state \in {"closing", "closed"}
      BY <1>5, <1>8, <3>1 DEF Sending
    <3> QED
      BY <3>2
  <2> QED
    BY <2>1, <2>2
<1> QED
  BY <1>2, <1>3, <1>7, <1>8 DEF Sending, TerminalIsLast

(* Every other handler leaves the frames alone.                            *)
LEMMA UntouchedSending ==
  ASSUME Sending, UNCHANGED sendVars, writing' = writing \/ writing' # "frames",
         state' = state \/ state' = "closed" \/ (state = "connecting" /\ state' = "open")
  PROVE  Sending'
BY DEF Sending, InOrder, TerminalIsLast, sendVars

LEMMA CloseFrameSending ==
  ASSUME Sending, UNCHANGED writing, NEW terminal \in BOOLEAN, SendCloseFrame(terminal),
         state = "open" \/ (state = "closing" /\ terminal = FALSE)
  PROVE  Sending'
<1>1. CloseFrame(terminal) \in Frames
  BY DEF Frames
<1>2. state' = "closing" /\ Push(CloseFrame(terminal))
  BY DEF SendCloseFrame
<1> QED
  BY <1>1, <1>2, PushSending

(* What is written moves from the queue, in order, up to a terminal frame. *)
LEMMA BeginWriteSending ==
  ASSUME Sending, ~flag, queue # <<>>, BeginWrite, UNCHANGED <<state, accepted>>
  PROVE  Sending'
<1> HIDE DEF Frames
<1>1. PICK n \in 1..Len(queue) :
        Batch = SubSeq(queue, 1, n) /\ \A i \in 1 .. n - 1 : ~queue[i].terminal
  BY OneTerminal, BatchIsPrefix DEF Sending
<1> DEFINE rest == SubSeq(queue, n + 1, Len(queue))
<1>2. /\ queue \in Seq(Frames) /\ written \in Seq(Frames) /\ accepted \in Seq(Frames)
      /\ current = <<>> /\ accepted = written \o queue
      /\ \A i \in 1..Len(written) : ~written[i].terminal
  BY DEF Sending, InOrder
<1>3. Len(queue) \in Nat /\ Len(written) \in Nat /\ n \in Int /\ 1 <= n /\ n <= Len(queue)
  BY <1>2, LenProperties
<1>4. \A i \in 1..Len(queue) : queue[i] \in Frames
  BY <1>2, ElementOfSeq
<1>5. /\ Batch \in Seq(Frames) /\ Len(Batch) = n
      /\ \A i \in 1..n : Batch[i] = queue[i]
  <2>1. \A i \in 1..n : queue[i] \in Frames
    BY <1>3, <1>4
  <2>2. /\ SubSeq(queue, 1, n) \in Seq(Frames)
        /\ Len(SubSeq(queue, 1, n)) = IF 1 <= n THEN n - 1 + 1 ELSE 0
        /\ \A i \in 1 .. n - 1 + 1 : SubSeq(queue, 1, n)[i] = queue[1 + i - 1]
    BY <1>3, <2>1, SubSeqProperties
  <2> QED
    BY <1>1, <1>3, <2>2
<1>6. rest \in Seq(Frames)
  <2>1. \A i \in n + 1 .. Len(queue) : queue[i] \in Frames
    BY <1>3, <1>4
  <2> QED
    BY <1>3, <2>1, SubSeqProperties
<1>7. Batch \o rest = queue
  <2>1. SubSeq(queue, 1, n) \o SubSeq(queue, n + 1, Len(queue)) = SubSeq(queue, 1, Len(queue))
    <3>1. 1 \in 1 .. Len(queue) + 1 /\ n \in 1 - 1 .. Len(queue) /\ Len(queue) \in n .. Len(queue)
      BY <1>3
    <3> QED
      BY <1>2, <3>1, ConcatAdjacentSubSeq
  <2> QED
    BY <1>1, <1>2, <2>1, SubSeqFull
<1>8. /\ current' = Batch /\ written' = written \o Batch /\ queue' = rest
      /\ flag' = TRUE /\ UNCHANGED <<state, accepted>>
  <2>1. current \o Batch = Batch
    BY <1>2, <1>5, ConcatEmptySeq
  <2> QED
    BY <1>5, <2>1 DEF BeginWrite
<1>9. written' \o queue' = accepted'
  <2>1. (written \o Batch) \o rest = written \o (Batch \o rest)
    <3>1. written \in Seq(Frames) /\ Batch \in Seq(Frames) /\ rest \in Seq(Frames)
      BY <1>2, <1>5, <1>6
    <3> HIDE DEF rest
    <3> QED
      BY <3>1, ConcatAssociative
  <2>2. written' \o queue' = (written \o Batch) \o rest
    BY <1>8
  <2> QED
    BY <1>2, <1>7, <1>8, <2>1, <2>2
<1>10. /\ written' \in Seq(Frames) /\ Len(written') = Len(written) + n
       /\ DOMAIN written' = 1..Len(written')
       /\ \A i \in 1..Len(written) : written'[i] = written[i]
       /\ \A i \in 1..n : written'[Len(written) + i] = queue[i]
  <2>1. /\ written' \in Seq(Frames) /\ Len(written') = Len(written) + Len(Batch)
        /\ \A i \in 1 .. Len(written) + Len(Batch) :
             written'[i] = IF i <= Len(written) THEN written[i] ELSE Batch[i - Len(written)]
    BY <1>2, <1>5, <1>8, ConcatProperties
  <2>2. DOMAIN written' = 1..Len(written')
    BY <2>1, LenProperties
  <2>3. \A i \in 1..Len(written) : i \in 1 .. Len(written) + n /\ i <= Len(written)
    BY <1>3
  <2>4. \A i \in 1..n : /\ Len(written) + i \in 1 .. Len(written) + n
                        /\ ~ (Len(written) + i <= Len(written))
                        /\ (Len(written) + i) - Len(written) = i
    BY <1>3
  <2> QED
    BY <1>5, <2>1, <2>2, <2>3, <2>4
<1>11. ASSUME NEW i \in 1..Len(written'), written'[i].terminal
       PROVE  i = Len(written')
  <2>1. CASE i <= Len(written)
    <3>1. i \in 1..Len(written)
      BY <1>3, <1>10, <2>1
    <3> QED
      BY <1>2, <1>10, <1>11, <3>1
  <2>2. CASE ~ (i <= Len(written))
    <3>1. /\ i - Len(written) \in 1..n /\ Len(written) + (i - Len(written)) = i
      BY <1>3, <1>10, <2>2
    <3>2. queue[i - Len(written)].terminal
      BY <1>10, <1>11, <3>1
    <3>3. ~ (i - Len(written) \in 1 .. n - 1)
      BY <1>1, <3>2
    <3> QED
      BY <1>3, <1>10, <3>1, <3>3
  <2> QED
    BY <2>1, <2>2
<1>12. /\ current' # <<>> /\ written' # <<>>
       /\ written'[Len(written')] = current'[Len(current')]
  <2>1. Len(current') = n /\ Len(written') = Len(written) + n
    BY <1>5, <1>8, <1>10
  <2>2. current' # <<>> /\ written' # <<>>
    BY <1>3, <2>1, EmptySeq
  <2>3. n \in 1..n
    BY <1>3
  <2> QED
    BY <1>5, <1>8, <1>10, <2>1, <2>2, <2>3
<1>13. InOrder'
  BY <1>8, <1>9 DEF Sending, InOrder
<1>14. TerminalIsLast'
  BY <1>10, <1>11 DEF TerminalIsLast
<1> QED
  BY <1>5, <1>6, <1>8, <1>10, <1>12, <1>13, <1>14 DEF Sending

LEMMA WriteSending ==
  ASSUME Sending, WriteFrame \/ HandleWriteFrame
  PROVE  Sending'
<1>1. CASE WriteFrame
  <2>1. CASE flag \/ queue = <<>>
    <3>1. UNCHANGED <<queue, current, flag, written, writing, accepted, state>>
      BY <1>1, <2>1 DEF WriteFrame
    <3> QED
      BY <3>1 DEF Sending, InOrder, TerminalIsLast
  <2>2. CASE ~ (flag \/ queue = <<>>)
    BY <1>1, <2>2, BeginWriteSending DEF WriteFrame
  <2> QED
    BY <2>1, <2>2
<1>2. CASE HandleWriteFrame
  <2>1. /\ writing = "frames" /\ writing' = "none" /\ current' = <<>>
        /\ UNCHANGED <<queue, accepted, written>>
        /\ state' = state \/ state' = "closed"
        /\ flag' = flag \/ ~current[Len(current)].terminal
    BY <1>2 DEF HandleWriteFrame, WriteDone, Terminate
  <2>2. <<>> \in Seq(Frames)
    BY EmptySeq
  <2>3. flag /\ TerminalIsLast /\ written \in Seq(Frames)
        /\ written[Len(written)] = current[Len(current)]
    BY <2>1 DEF Sending
  <2>4. ~flag' => \A i \in 1..Len(written) : ~written[i].terminal
    <3>1. DOMAIN written = 1..Len(written)
      BY <2>3, LenProperties
    <3> QED
      BY <2>1, <2>3, <3>1 DEF TerminalIsLast
  <2> QED
    BY <2>1, <2>2, <2>4 DEF Sending, InOrder, TerminalIsLast
<1> QED
  BY <1>1, <1>2

LEMMA ConsumeSending ==
  ASSUME Sending, Consume
  PROVE  Sending'
<1>1. UNCHANGED writing
      /\ (OnData \/ OnPing \/ OnPong \/ OnGarbage \/ \E frame \in Incoming : OnClose(frame))
  BY DEF Consume, Incoming
<1>2. CASE OnData \/ OnPong
  BY <1>1, <1>2, UntouchedSending DEF OnData, OnPong
<1>3. CASE OnPing
  <2>1. Pong \in Frames /\ Pong.op # "close"
    BY DEF Frames, Pong
  <2> QED
    BY <1>1, <1>3, <2>1, UntouchedSending, PushSending DEF OnPing
<1>4. CASE OnGarbage
  BY <1>1, <1>4, CloseFrameSending, UntouchedSending DEF OnGarbage, Terminate
<1>5. CASE \E frame \in Incoming : OnClose(frame)
  BY <1>1, <1>5, CloseFrameSending, UntouchedSending DEF OnClose
<1> QED
  BY <1>1, <1>2, <1>3, <1>4, <1>5

LEMMA StepSending == ASSUME Sending, [Next]_vars PROVE Sending'
<1>1. CASE UNCHANGED vars
  BY <1>1, UntouchedSending DEF vars
<1>2. CASE Send
  <2>1. Data \in Frames /\ Data.op # "close"
    BY DEF Frames, Data
  <2> QED
    BY <1>2, <2>1, PushSending DEF Send
<1>3. CASE Close
  <2>1. PICK code \in Codes : IF Invalid(code) THEN UNCHANGED <<state, timer, sendVars>>
                                               ELSE SendCloseFrame(Terminal(code))
    BY <1>3 DEF Close
  <2>2. Terminal(code) \in BOOLEAN
    BY DEF Terminal
  <2>3. state = "open" /\ UNCHANGED writing
    BY <1>3 DEF Close
  <2> QED
    BY <2>1, <2>2, <2>3, CloseFrameSending, UntouchedSending
<1>4. CASE \E t \in Timers : Expire(t)
  BY <1>4, UntouchedSending DEF Expire
<1>5. CASE \E t \in Timers : HandleTimeout(t)
  BY <1>5, UntouchedSending DEF HandleTimeout, Terminate
<1>6. CASE HandleResolve \/ HandleConnect
  BY <1>6, UntouchedSending DEF HandleResolve, HandleConnect, Begin, Terminate
<1>7. CASE HandleSendHttpRequest \/ HandleReadHttpResponse
  BY <1>7, UntouchedSending
     DEF HandleSendHttpRequest, HandleReadHttpResponse, OpenConnection, Terminate
<1>8. CASE HandleReadFrame \/ ReadFrame
  BY <1>8, UntouchedSending DEF HandleReadFrame, ReadFrame, Terminate
<1>9. CASE WriteFrame \/ HandleWriteFrame \/ Consume
  BY <1>9, WriteSending, ConsumeSending
<1> QED
  BY <1>1, <1>2, <1>3, <1>4, <1>5, <1>6, <1>7, <1>8, <1>9 DEF Next, Handlers

LEMMA SendingInv == Spec => []Sending
<1>1. Init => Sending
  BY DEF Init, Sending, InOrder, TerminalIsLast
<1> QED
  BY <1>1, StepSending, PTL DEF Spec

(* What the transport is given is what was accepted, in that order, and    *)
(* after a close frame only the answer to a bad one is accepted            *)
(* (write_push, write_frame, send_close_frame).                            *)
THEOREM WritesInOrder == Spec => []InOrder
<1>1. Sending => InOrder
  BY DEF Sending
<1> QED
  BY <1>1, SendingInv, PTL

(* After a frame that is to drop the connection nothing is written         *)
(* (write_frame stops at it, and handle_write_frame keeps the flag).       *)
THEOREM NothingAfterTerminal == Spec => []TerminalIsLast
<1>1. Sending => TerminalIsLast
  BY DEF Sending
<1> QED
  BY <1>1, SendingInv, PTL

-----------------------------------------------------------------------------
(* The types; those of the frames and of the write under way are Sending's.*)
TimerStates == [Timers -> {"off", "waiting", "fired"}]

Typed ==
  /\ state \in {"connecting", "open", "closing", "closed"}
  /\ istate \in {"USER_INIT", "WRITE_HTTP_REQUEST", "READ_HTTP_RESPONSE", "PROCESS_CONNECTION"}
  /\ timer \in TimerStates
  /\ dial \in {"resolve", "connect", "none"}
  /\ reading \in {"response", "frame", "none"} /\ writing \in {"request", "frames", "none"}
  /\ posts \in Nat /\ received \in 0..MaxFrames

Switches == more \in BOOLEAN /\ flag \in BOOLEAN

LEMMA CancelTyped ==
  ASSUME timer \in TimerStates
  PROVE  /\ \A ts : Cancel(ts) \in TimerStates
         /\ \A t \in Timers : \A ts : [Cancel(ts) EXCEPT ![t] = "waiting"] \in TimerStates
         /\ \A t \in Timers : \A st \in {"off", "waiting", "fired"} :
              [timer EXCEPT ![t] = st] \in TimerStates
<1>1. \A ts : Cancel(ts) \in TimerStates
  BY DEF Cancel, TimerStates
<1>2. ASSUME NEW t \in Timers, NEW ts PROVE [Cancel(ts) EXCEPT ![t] = "waiting"] \in TimerStates
  <2>1. Cancel(ts) \in TimerStates
    BY <1>1
  <2> QED
    BY <2>1 DEF TimerStates
<1> QED
  BY <1>1, <1>2 DEF TimerStates

LEMMA TerminateTyped ==
  ASSUME NEW ts \in TimerStates, Terminate(ts)
  PROVE  state' = "closed" /\ timer' \in TimerStates
<1>1. timer' = [t \in Timers |->
                 IF t \in {"open", "close"} /\ ts[t] = "waiting" THEN "off" ELSE ts[t]]
  BY DEF Terminate
<1>2. timer' \in TimerStates
  BY <1>1 DEF TimerStates
<1> QED
  BY <1>2 DEF Terminate

LEMMA PushTyped == ASSUME Typed, NEW f, Push(f) PROVE posts' \in Nat
BY DEF Typed, Push

LEMMA CloseFrameTyped ==
  ASSUME Typed, NEW terminal, SendCloseFrame(terminal)
  PROVE  state' = "closing" /\ timer' \in TimerStates /\ posts' \in Nat
<1>1. "close" \in Timers
  BY DEF Timers
<1>2. timer' = [timer EXCEPT !["close"] = "waiting"] \/ timer' = [timer EXCEPT !["close"] = "fired"]
  BY DEF SendCloseFrame
<1> QED
  BY <1>1, <1>2, CancelTyped, PushTyped DEF SendCloseFrame, Typed

LEMMA DialTyped == ASSUME Typed, HandleResolve \/ HandleConnect PROVE Typed'
<1>1. timer \in TimerStates /\ "con" \in Timers /\ "open" \in Timers
  BY DEF Typed, Timers
<1>2. CASE HandleResolve
  <2>1. \/ UNCHANGED <<state, timer>>
        \/ timer' = [Cancel({"dns"}) EXCEPT !["con"] = "waiting"] /\ UNCHANGED state
        \/ Terminate(Cancel({"dns"}))
    BY <1>2 DEF HandleResolve
  <2>2. timer' \in TimerStates /\ (state' = state \/ state' = "closed")
    BY <1>1, <2>1, CancelTyped, TerminateTyped
  <2> QED
    BY <1>2, <2>2 DEF HandleResolve, Typed, sendVars
<1>3. CASE HandleConnect
  <2>1. \/ UNCHANGED <<state, timer>>
        \/ timer' = [Cancel({"con"}) EXCEPT !["open"] = "waiting"] /\ UNCHANGED state
        \/ Terminate(Cancel({"con"}))
    BY <1>3 DEF HandleConnect, Begin
  <2>2. timer' \in TimerStates /\ (state' = state \/ state' = "closed")
    BY <1>1, <2>1, CancelTyped, TerminateTyped
  <2>3. /\ dial' = "none" /\ UNCHANGED <<reading, posts, received>>
        /\ \/ UNCHANGED <<istate, writing>>
           \/ istate' = "WRITE_HTTP_REQUEST" /\ writing' = "request"
    BY <1>3 DEF HandleConnect, Begin, sendVars
  <2> QED
    BY <2>2, <2>3 DEF Typed
<1> QED
  BY <1>2, <1>3

LEMMA HandshakeTyped ==
  ASSUME Typed, HandleSendHttpRequest \/ HandleReadHttpResponse
  PROVE  Typed'
<1>1. timer \in TimerStates
  BY DEF Typed
<1>2. CASE HandleSendHttpRequest
  <2>1. UNCHANGED <<state, timer>> \/ Terminate(timer)
    BY <1>2 DEF HandleSendHttpRequest
  <2>2. /\ writing' = "none" /\ UNCHANGED <<dial, posts, received>>
        /\ \/ UNCHANGED <<istate, reading>>
           \/ istate' = "READ_HTTP_RESPONSE" /\ reading' = "response"
    BY <1>2 DEF HandleSendHttpRequest, sendVars
  <2>3. timer' \in TimerStates /\ (state' = state \/ state' = "closed")
    BY <1>1, <2>1, TerminateTyped
  <2> QED
    BY <2>2, <2>3 DEF Typed
<1>3. CASE HandleReadHttpResponse
  <2>1. \/ UNCHANGED <<state, timer>> \/ Terminate(Cancel({"open"}))
        \/ timer' = Cancel({"open"}) /\ state' = "open"
    BY <1>3 DEF HandleReadHttpResponse, OpenConnection
  <2>2. /\ UNCHANGED <<dial, writing, posts, received>>
        /\ istate' \in {istate, "PROCESS_CONNECTION"} /\ reading' \in {reading, "none"}
    BY <1>3 DEF HandleReadHttpResponse, OpenConnection, sendVars
  <2>3. timer' \in TimerStates /\ state' \in {state, "closed", "open"}
    BY <1>1, <2>1, CancelTyped, TerminateTyped
  <2> QED
    BY <2>2, <2>3 DEF Typed
<1> QED
  BY <1>2, <1>3

LEMMA FrameTyped ==
  ASSUME Typed, WriteFrame \/ HandleWriteFrame \/ HandleReadFrame \/ ReadFrame
  PROVE  Typed'
<1>1. timer \in TimerStates
  BY DEF Typed
<1>2. CASE WriteFrame
  <2>1. posts > 0 /\ posts' = posts - 1 /\ writing' \in {writing, "frames"}
        /\ UNCHANGED <<state, timer, istate, dial, reading, received>>
    BY <1>2 DEF WriteFrame, BeginWrite, dialVars
  <2> QED
    BY <2>1 DEF Typed
<1>3. CASE HandleWriteFrame
  <2>1. writing' = "none" /\ posts' \in {posts, posts + 1}
        /\ (UNCHANGED <<state, timer>> \/ Terminate(timer))
        /\ UNCHANGED <<istate, dial, reading, received>>
    BY <1>3 DEF HandleWriteFrame, WriteDone, dialVars
  <2>2. timer' \in TimerStates /\ (state' = state \/ state' = "closed")
    BY <1>1, <2>1, TerminateTyped
  <2> QED
    BY <2>1, <2>2 DEF Typed
<1>4. CASE HandleReadFrame \/ ReadFrame
  <2>1. reading' \in {"none", "frame"} /\ UNCHANGED <<istate, dial, writing, posts, received>>
        /\ (UNCHANGED <<state, timer>> \/ Terminate(timer))
    BY <1>4 DEF HandleReadFrame, ReadFrame, dialVars, sendVars
  <2>2. timer' \in TimerStates /\ (state' = state \/ state' = "closed")
    BY <1>1, <2>1, TerminateTyped
  <2> QED
    BY <2>1, <2>2 DEF Typed
<1> QED
  BY <1>2, <1>3, <1>4

LEMMA ConsumeTyped == ASSUME Typed, Consume PROVE Typed'
<1>1. /\ received < MaxFrames /\ received' = received + 1
      /\ UNCHANGED <<istate, dial, reading, writing>>
      /\ (OnData \/ OnPing \/ OnPong \/ OnGarbage \/ \E frame \in Incoming : OnClose(frame))
  BY DEF Consume, Incoming, dialVars
<1>2. received' \in 0..MaxFrames
  BY <1>1, BoundAssumption DEF Typed
<1>3. state' \in {state, "closing", "closed"} /\ timer' \in TimerStates /\ posts' \in Nat
  <2>1. CASE OnData \/ OnPong
    BY <2>1 DEF OnData, OnPong, sendVars, Typed
  <2>2. CASE OnPing
    BY <2>2, PushTyped DEF OnPing, sendVars, Typed
  <2>3. CASE OnGarbage
    BY <2>3, CloseFrameTyped, TerminateTyped DEF OnGarbage, sendVars, Typed
  <2>4. CASE \E frame \in Incoming : OnClose(frame)
    BY <2>4, CloseFrameTyped DEF OnClose, sendVars, Typed
  <2> QED
    BY <1>1, <2>1, <2>2, <2>3, <2>4
<1> QED
  BY <1>1, <1>2, <1>3 DEF Typed

LEMMA StepTyped == ASSUME Typed, [Next]_vars PROVE Typed'
<1>1. CASE UNCHANGED vars
  BY <1>1 DEF vars, dialVars, sendVars, Typed
<1>2. CASE Send
  BY <1>2, PushTyped DEF Send, dialVars, Typed
<1>3. CASE Close
  <2>1. (\E terminal : SendCloseFrame(terminal)) \/ UNCHANGED <<state, timer, sendVars>>
    BY <1>3 DEF Close
  <2> QED
    BY <1>3, <2>1, CloseFrameTyped DEF Close, dialVars, sendVars, Typed
<1>4. ASSUME NEW t \in Timers, Expire(t) PROVE Typed'
  <2>1. timer' \in TimerStates
    BY <1>4, CancelTyped DEF Expire, Typed
  <2> QED
    BY <1>4, <2>1 DEF Expire, dialVars, sendVars, Typed
<1>5. ASSUME NEW t \in Timers, HandleTimeout(t) PROVE Typed'
  <2>1. [timer EXCEPT ![t] = "off"] \in TimerStates
    BY CancelTyped DEF Typed
  <2>2. timer' \in TimerStates /\ state' = "closed"
    BY <1>5, <2>1, TerminateTyped DEF HandleTimeout
  <2> QED
    BY <1>5, <2>2 DEF HandleTimeout, dialVars, sendVars, Typed
<1> QED
  BY <1>1, <1>2, <1>3, <1>4, <1>5, DialTyped, HandshakeTyped, FrameTyped, ConsumeTyped
     DEF Next, Handlers

LEMMA StepSwitches == ASSUME Switches, [Next]_vars PROVE Switches'
<1>1. UNCHANGED more \/ more' = TRUE \/ more' = FALSE
  BY DEF Next, Handlers, vars, HandleResolve, HandleConnect, HandleSendHttpRequest,
         HandleReadHttpResponse, OpenConnection, WriteFrame, HandleWriteFrame, HandleReadFrame,
         ReadFrame, Consume, OnData, OnPing, OnPong, OnGarbage, OnClose, HandleTimeout, Send,
         Close, Expire
<1>2. UNCHANGED flag \/ flag' = TRUE \/ flag' = FALSE
  BY DEF Next, Handlers, vars, sendVars, HandleResolve, HandleConnect, HandleSendHttpRequest,
         HandleReadHttpResponse, WriteFrame, BeginWrite, HandleWriteFrame, WriteDone,
         HandleReadFrame, ReadFrame, Consume, OnData, OnPing, OnPong, OnGarbage, OnClose,
         SendCloseFrame, Push, HandleTimeout, Send, Close, Expire
<1> QED
  BY <1>1, <1>2 DEF Switches

(* Every variable has its type, and a write under way has frames to write  *)
(* and is flagged (write_frame, handle_write_frame).                       *)
THEOREM TypeCorrect == Spec => []TypeOK
<1>1. Init => Typed /\ Switches
  <2>1. Init => timer \in TimerStates
    BY DEF Init, TimerStates
  <2>2. Init => Typed
    BY <2>1, BoundAssumption DEF Init, Typed
  <2> QED
    BY <2>2 DEF Init, Switches
<1>2. Typed /\ Switches /\ [Next]_vars => (Typed /\ Switches)'
  BY StepTyped, StepSwitches
<1>3. Typed /\ Switches /\ Sending => TypeOK
  BY DEF Typed, Switches, Sending, TypeOK, TimerStates
<1> QED
  BY <1>1, <1>2, <1>3, SendingInv, PTL DEF Spec
=============================================================================
