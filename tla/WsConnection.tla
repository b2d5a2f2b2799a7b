---------------------------- MODULE WsConnection ----------------------------
(***************************************************************************)
(* One client connection of websocketpp, as the network thread runs it:    *)
(* dialling, the opening handshake, frames in and out, the closing         *)
(* handshake, and the timers that bound each of them.  Every handler is an *)
(* action; client_impl calls send() and close() from the same thread, that *)
(* is between two handlers or from within one that reads frames.           *)
(*                                                                         *)
(* The transport is plain TCP: shutting it down and its post-init are      *)
(* synchronous.  Asynchronous operations complete with a result or an      *)
(* error of the environment's choosing.                                    *)
(***************************************************************************)
EXTENDS Integers, Sequences, SequencesExt

CONSTANTS
  Responses,  \* what the server may answer to the HTTP request: "valid",
              \*   "invalid", "extensions" (valid, but for its extensions)
  MaxSends,   \* bound: frames client_impl sends
  MaxFrames   \* bound: frames the server sends

ASSUME ResponsesAssumption == Responses \subseteq {"valid", "invalid", "extensions"}
ASSUME BoundAssumption == MaxSends \in Nat /\ MaxFrames \in Nat

VARIABLES
  state,     \* m_state
  istate,    \* m_internal_state
  timer,     \* the timers: off, waiting, or fired with their handler queued
  dial,      \* the pending transport operation: "resolve", "connect" or "none"
  reading,   \* the pending read: "response", "frame" or "none"
  more,      \* handle_read_frame has bytes left to consume
  writing,   \* the pending write: "request", "frames" or "none"
  queue,     \* m_send_queue
  current,   \* m_current_msgs
  flag,      \* m_write_flag
  posts,     \* write_frame posted to the io_service, so many times
  received,  \* frames received
  calls,     \* history: handlers called
  accepted,  \* history: frames put in m_send_queue
  written    \* history: frames given to the transport

dialVars == <<istate, dial>>
sendVars == <<queue, current, flag, posts, accepted, written>>
vars == <<state, timer, dialVars, reading, more, writing, sendVars, received, calls>>

Timers == {"dns", "con", "open", "close"}

(* Close codes: some have the connection dropped once the frame is written *)
(* (terminal), some must not be sent (1006 is one, for an abnormal close). *)
Codes == {"normal", "policy", "abnormal"}
Terminal(code) == code = "policy"
Invalid(code) == code = "abnormal"

Data == [op |-> "data", terminal |-> FALSE]
Pong == [op |-> "pong", terminal |-> FALSE]
CloseFrame(terminal) == [op |-> "close", terminal |-> terminal]

(* What consume makes of the bytes the server sends; "bad close" is a close*)
(* frame with an invalid code or reason, "garbage" a protocol error.       *)
Incoming == {"data", "ping", "pong", "close", "bad close", "garbage"}

-----------------------------------------------------------------------------
(* cancel: a timer that has fired is not cancelled any more.               *)
Cancel(ts) == [t \in Timers |-> IF t \in ts /\ timer[t] = "waiting" THEN "off" ELSE timer[t]]

Expire(t) ==
  /\ timer[t] = "waiting"
  /\ timer' = [timer EXCEPT ![t] = "fired"]
  /\ UNCHANGED <<state, dialVars, reading, more, writing, sendVars, received, calls>>

(* A variant that reports the end of a connection each time.               *)
TerminateAgain(timers) ==
  /\ timer' = [t \in Timers |->
                 IF t \in {"open", "close"} /\ timers[t] = "waiting" THEN "off" ELSE timers[t]]
  /\ state' = "closed"
  /\ calls' = Append(calls, IF state = "connecting" THEN "fail" ELSE "close")

(* terminate and handle_terminate: m_handshake_timer, which waits for the  *)
(* opening or for the closing handshake, is cancelled; who waits for the   *)
(* connection is told, unless it was told before.                          *)
Terminate(timers) ==
  /\ timer' = [t \in Timers |->
                 IF t \in {"open", "close"} /\ timers[t] = "waiting" THEN "off" ELSE timers[t]]
  /\ state' = "closed"
  /\ calls' = CASE state = "connecting" -> Append(calls, "fail")
                [] state = "closed"     -> calls
                [] OTHER                -> Append(calls, "close")

Idle == ~more

-----------------------------------------------------------------------------
(* Dialling: async_connect, handle_resolve, handle_connect.                *)

(* The operation and its timer race: is_neg tells a result that comes after*)
(* its time, and leaves the verdict to the timer's handler, but does not   *)
(* tell one that comes in the very tick the timer fires at.                *)
HandleResolve ==
  /\ Idle /\ dial = "resolve"
  /\ \/ /\ dial' = "connect" /\ timer' = [Cancel({"dns"}) EXCEPT !["con"] = "waiting"]
        /\ UNCHANGED <<state, calls>>
     \/ dial' = "none" /\ Terminate(Cancel({"dns"}))
     \/ dial' = "none" /\ UNCHANGED <<state, timer, calls>>
  /\ UNCHANGED <<istate, reading, more, writing, sendVars, received>>

(* A variant with no timer for the handshake.                              *)
BeginUntimed ==
  /\ istate' = "WRITE_HTTP_REQUEST" /\ writing' = "request"
  /\ timer' = Cancel({"con"})
  /\ UNCHANGED <<state, calls>>

(* start, handle_transport_init and send_http_request.                     *)
Begin ==
  IF istate = "USER_INIT"
    THEN /\ istate' = "WRITE_HTTP_REQUEST" /\ writing' = "request"
         /\ timer' = [Cancel({"con"}) EXCEPT !["open"] = "waiting"]
         /\ UNCHANGED <<state, calls>>
    ELSE Terminate(Cancel({"con"})) /\ UNCHANGED <<istate, writing>>

HandleConnect ==
  /\ Idle /\ dial = "connect" /\ dial' = "none"
  /\ \/ Begin
     \/ Terminate(Cancel({"con"})) /\ UNCHANGED <<istate, writing>>
     \/ UNCHANGED <<state, istate, timer, writing, calls>>
  /\ UNCHANGED <<reading, more, sendVars, received>>

(* The handlers of the four timers all end the connection.                 *)
HandleTimeout(t) ==
  /\ Idle /\ timer[t] = "fired"
  /\ Terminate([timer EXCEPT ![t] = "off"])
  /\ UNCHANGED <<dialVars, reading, more, writing, sendVars, received>>

-----------------------------------------------------------------------------
(* The opening handshake.                                                  *)

HandleSendHttpRequest ==
  /\ Idle /\ writing = "request" /\ writing' = "none"
  /\ \/ IF state = "connecting" /\ istate = "WRITE_HTTP_REQUEST"
          THEN istate' = "READ_HTTP_RESPONSE" /\ reading' = "response"
               /\ UNCHANGED <<state, timer, calls>>
          ELSE /\ UNCHANGED <<istate, reading>>
               /\ IF state = "closed" THEN UNCHANGED <<state, timer, calls>>
                                      ELSE Terminate(timer)
     \/ Terminate(timer) /\ UNCHANGED <<istate, reading>>
  /\ UNCHANGED <<dial, more, sendVars, received>>

(* The response is complete and valid: the open handler is called, then    *)
(* what came with the response is consumed.  After an error in the server's*)
(* extensions the connection is terminated first, and opened all the same. *)
OpenConnection(response) ==
  /\ state = "connecting" /\ response \in {"valid", "extensions"}
  /\ istate' = "PROCESS_CONNECTION" /\ state' = "open" /\ more' = TRUE /\ reading' = "none"
  /\ timer' = Cancel({"open"})
  /\ calls' = IF response = "valid" THEN Append(calls, "open") ELSE calls \o <<"fail", "open">>

HandleReadHttpResponse ==
  /\ Idle /\ reading = "response"
  /\ \/ \E response \in Responses : OpenConnection(response)
     \/ /\ reading' = "none" /\ UNCHANGED <<istate, more>>
        /\ \/ state = "closed" /\ UNCHANGED <<state, timer, calls>>
           \/ Terminate(Cancel({"open"}))
     \/ state = "connecting" /\ UNCHANGED <<state, istate, timer, reading, more, calls>>
  /\ UNCHANGED <<dial, writing, sendVars, received>>

-----------------------------------------------------------------------------
(* Sending.                                                                *)

(* write_push, and write_frame posted unless a write is under way.         *)
Push(f) ==
  /\ queue' = Append(queue, f) /\ accepted' = Append(accepted, f)
  /\ posts' = IF flag THEN posts ELSE posts + 1
  /\ UNCHANGED <<current, flag, written>>

Sent == Len(SelectSeq(accepted, LAMBDA f : f = Data))

Send ==
  /\ state = "open" /\ Sent < MaxSends
  /\ Push(Data)
  /\ UNCHANGED <<state, timer, dialVars, reading, more, writing, received, calls>>

(* A variant that leaves the close timer alone.                            *)
SendCloseFrameUntimed(terminal) ==
  /\ state' = "closing" /\ Push(CloseFrame(terminal))
  /\ UNCHANGED timer

(* send_close_frame.  A second one starts a second timer: either ends the  *)
(* connection.                                                             *)
SendCloseFrame(terminal) ==
  /\ state' = "closing" /\ Push(CloseFrame(terminal))
  /\ timer' = [timer EXCEPT !["close"] = IF @ = "fired" THEN @ ELSE "waiting"]

(* close: an invalid code is refused by prepare_close, and nothing is done.*)
Close ==
  /\ state = "open"
  /\ \E code \in Codes : IF Invalid(code) THEN UNCHANGED <<state, timer, sendVars>>
                                          ELSE SendCloseFrame(Terminal(code))
  /\ UNCHANGED <<dialVars, reading, more, writing, received, calls>>

(* A variant that writes whatever is queued.                               *)
BatchAll == queue

(* The frames up to a terminal one, which are written at once.             *)
Batch ==
  LET n == SelectInSeq(queue, LAMBDA f : f.terminal)
  IN IF n = 0 THEN queue ELSE SubSeq(queue, 1, n)

(* A variant that does not say that it is writing.                         *)
BeginWriteUnflagged ==
  /\ current' = current \o Batch /\ written' = written \o current'
  /\ queue' = SubSeq(queue, Len(Batch) + 1, Len(queue))
  /\ flag' = flag /\ writing' = "frames"

BeginWrite ==
  /\ current' = current \o Batch /\ written' = written \o current'
  /\ queue' = SubSeq(queue, Len(Batch) + 1, Len(queue))
  /\ flag' = TRUE /\ writing' = "frames"

WriteFrame ==
  /\ Idle /\ posts > 0 /\ posts' = posts - 1
  /\ IF flag \/ queue = <<>>
       THEN UNCHANGED <<queue, current, flag, written, writing>>
       ELSE BeginWrite
  /\ UNCHANGED <<state, timer, dialVars, reading, more, accepted, received, calls>>

(* A variant that forgets what was queued during the write.                *)
WriteDoneForgets ==
  /\ flag' = FALSE
  /\ UNCHANGED <<state, timer, calls, posts>>

(* The write is over: release the flag, go on with what was queued.        *)
WriteDone ==
  /\ flag' = FALSE
  /\ posts' = IF queue = <<>> THEN posts ELSE posts + 1
  /\ UNCHANGED <<state, timer, calls>>

HandleWriteFrame ==
  /\ Idle /\ writing = "frames" /\ writing' = "none"
  /\ current' = <<>>
  /\ \/ ~current[Len(current)].terminal /\ WriteDone
     \/ current[Len(current)].terminal /\ Terminate(timer) /\ UNCHANGED <<flag, posts>>
     \/ Terminate(timer) /\ UNCHANGED <<flag, posts>>
  /\ UNCHANGED <<dialVars, reading, more, queue, accepted, written, received>>

-----------------------------------------------------------------------------
(* Receiving.                                                              *)

(* Bytes arrived, or the end of the stream, or an error.                   *)
HandleReadFrame ==
  /\ Idle /\ reading = "frame" /\ reading' = "none"
  /\ \/ more' = TRUE /\ UNCHANGED <<state, timer, calls>>
     \/ more' = FALSE /\ Terminate(timer)
     \/ more' = FALSE /\ state = "closed" /\ UNCHANGED <<state, timer, calls>>
  /\ UNCHANGED <<dialVars, writing, sendVars, received>>

(* The loop ends when all bytes are consumed: read on.                     *)
ReadFrame ==
  /\ more /\ more' = FALSE /\ reading' = "frame"
  /\ UNCHANGED <<state, timer, dialVars, writing, sendVars, received, calls>>

OnData ==
  /\ calls' = IF state = "open" THEN Append(calls, "message") ELSE calls
  /\ UNCHANGED <<state, timer, sendVars, more>>

(* A variant that answers a ping in any state.                             *)
OnPingAlways ==
  /\ Push(Pong)
  /\ UNCHANGED <<state, timer, calls, more>>

(* process_control_frame.  A ping is answered, by default, with a pong.    *)
OnPing ==
  /\ IF state = "open" THEN Push(Pong) ELSE UNCHANGED sendVars
  /\ UNCHANGED <<state, timer, calls, more>>

OnPong == UNCHANGED <<state, timer, sendVars, calls, more>>

(* The server's close frame is acknowledged with its own code; one with an *)
(* invalid code or reason is answered even when it is itself an answer.    *)
OnClose(frame) ==
  /\ IF state = "open" \/ (state = "closing" /\ frame = "bad close")
       THEN SendCloseFrame(FALSE)
       ELSE UNCHANGED <<state, timer, sendVars>>
  /\ UNCHANGED <<calls, more>>

(* A protocol error: close, with a terminal code, and stop reading.        *)
OnGarbage ==
  /\ more' = FALSE
  /\ IF state = "open" THEN SendCloseFrame(TRUE) /\ UNCHANGED calls
                       ELSE Terminate(timer) /\ UNCHANGED sendVars

Consume ==
  /\ more /\ received < MaxFrames /\ received' = received + 1
  /\ \E frame \in Incoming :
       CASE frame = "data"    -> OnData
         [] frame = "ping"    -> OnPing
         [] frame = "pong"    -> OnPong
         [] frame = "garbage" -> OnGarbage
         [] OTHER             -> OnClose(frame)
  /\ UNCHANGED <<dialVars, reading, writing>>

-----------------------------------------------------------------------------
Init ==
  /\ state = "connecting" /\ istate = "USER_INIT"
  /\ timer = [t \in Timers |-> IF t = "dns" THEN "waiting" ELSE "off"]
  /\ dial = "resolve" /\ reading = "none" /\ more = FALSE /\ writing = "none"
  /\ queue = <<>> /\ current = <<>> /\ flag = FALSE /\ posts = 0
  /\ received = 0 /\ calls = <<>> /\ accepted = <<>> /\ written = <<>>

Handlers ==
  \/ HandleResolve \/ HandleConnect \/ HandleSendHttpRequest \/ HandleReadHttpResponse
  \/ WriteFrame \/ HandleWriteFrame \/ HandleReadFrame \/ ReadFrame \/ Consume
  \/ \E t \in Timers : HandleTimeout(t)

Next == Handlers \/ Send \/ Close \/ \E t \in Timers : Expire(t)

Spec == Init /\ [][Next]_vars

(* Timers expire; the network thread finishes the handler it is in, and as *)
(* queued handlers are run first come, first served, it comes to a timer's *)
(* even when the server keeps it reading.  Nothing is assumed of the       *)
(* transport and of the server.                                            *)
Fairness ==
  /\ WF_vars(ReadFrame)
  /\ \A t \in Timers : WF_vars(Expire(t)) /\ SF_vars(HandleTimeout(t))

FairSpec == Spec /\ Fairness
-----------------------------------------------------------------------------
(* What must hold.                                                         *)

Frames == {Data, Pong, CloseFrame(TRUE), CloseFrame(FALSE)}

TypeOK ==
  /\ state \in {"connecting", "open", "closing", "closed"}
  /\ istate \in {"USER_INIT", "WRITE_HTTP_REQUEST", "READ_HTTP_RESPONSE", "PROCESS_CONNECTION"}
  /\ timer \in [Timers -> {"off", "waiting", "fired"}]
  /\ dial \in {"resolve", "connect", "none"}
  /\ reading \in {"response", "frame", "none"} /\ writing \in {"request", "frames", "none"}
  /\ more \in BOOLEAN /\ flag \in BOOLEAN
  /\ queue \in Seq(Frames) /\ current \in Seq(Frames)
  /\ posts \in Nat /\ received \in 0..MaxFrames
  /\ writing = "frames" => current # <<>> /\ flag

(* Whatever races with whatever (timers with results, frames with the      *)
(* application's close, errors of the transport with both), one connection *)
(* keeps the promise of WsLink: one verdict, no message outside of the open*)
(* state, one end.                                                         *)
Link == INSTANCE WsLink WITH link <- state
ImplementsWsLink == Link!Spec

(* A frame never waits in m_send_queue with nobody to write it.            *)
QueueIsServed ==
  queue # <<>> /\ state \in {"open", "closing"} => flag \/ posts > 0

(* What is given to the transport is what was accepted, in order, and      *)
(* nothing follows a close frame but the answer to a bad close frame.      *)
InOrder ==
  /\ written \o queue = accepted
  /\ \A i, j \in DOMAIN accepted :
       i < j /\ accepted[i].op = "close" => accepted[j] = CloseFrame(FALSE)

(* After a frame that is to drop the connection nothing is written.        *)
TerminalIsLast ==
  \A i \in DOMAIN written : written[i].terminal => i = Len(written)

(* An attempt to connect never hangs, whatever the name server, the server *)
(* and the network do, and a closing handshake never does.                 *)
AttemptEnds == state = "connecting" ~> state # "connecting"
ClosingEnds == state = "closing" ~> state = "closed"

(* A comment of websocketpp's says of the open and the fail handler that   *)
(* either the one or the other is called for each attempt.                 *)
OpenOrFail ==
  ~ \E i, j \in DOMAIN calls : calls[i] = "fail" /\ calls[j] = "open"
=============================================================================
