------------------------------ MODULE SioClient ------------------------------
(***************************************************************************)
(* The connection life cycle of sio::client_impl: connect, close and       *)
(* sync_close, called by one application thread, and the network thread    *)
(* that connect starts, with the websocket's events and the reconnection   *)
(* timer.                                                                  *)
(*                                                                         *)
(* m_con_state is a plain member both threads read and write, so a handler *)
(* that tests it and sets it later takes two steps.  m_con and the timers  *)
(* are the network thread's, but for the cancellation in connect().        *)
(***************************************************************************)
EXTENDS Integers, Sequences

CONSTANTS
  Attempts,     \* m_reconn_attempts
  MaxConnects,  \* bound: calls of connect() that start a network thread
  MaxReady      \* bound: handlers waiting when the application calls close()

ASSUME ClientAssumption ==
  Attempts \in Nat /\ MaxConnects \in Nat \ {0} /\ MaxReady \in Nat \ {0}

VARIABLES
  conState,  \* m_con_state
  session,   \* m_con refers to a connection
  link,      \* the websocket connection, as websocketpp has it
  timer,     \* m_reconn_timer: null, waiting, or done waiting
  made,      \* m_reconn_made
  uriOk,     \* the address given to connect() is one websocketpp accepts
  thread,    \* m_network_thread: null, in run_loop, or to be joined
  net,       \* where the network thread is in a handler
  final,     \* in on_close: the application wanted it, or the code is normal
  ready,     \* handlers the io_service has to run, first come first served
  user,      \* where the application thread is in a call
  clean,     \* history: the last close() found an idle, open connection
  gen        \* history: which call of connect() is in effect

netVars == <<session, link, timer, made, net, final>>
userVars == <<uriOk, user, clean, gen>>
vars == <<conState, netVars, userVars, thread, ready>>

Handler == [op : {"connect", "close", "reconnect"}, gen : 0..MaxConnects]
Handle(op) == [op |-> op, gen |-> gen]

Up == {"open", "closing", "aborting"}

TypeOK ==
  /\ conState \in {"opening", "opened", "closing", "closed"}
  /\ session \in BOOLEAN
  /\ link \in {"none", "connecting"} \cup Up
  /\ timer \in {"null", "pending", "unset"}
  /\ made \in 0..Attempts
  /\ uriOk \in BOOLEAN
  /\ thread \in {"none", "running", "ended"}
  /\ net \in {"idle", "opened", "failed", "closed", "arm", "reconnect",
              "openListener", "closeListener", "failListener"}
  /\ final \in BOOLEAN
  /\ ready \in Seq(Handler)
  /\ user \in {"idle", "connect", "joinConnect", "start", "close", "syncClose", "join"}
  /\ clean \in BOOLEAN
  /\ gen \in 0..MaxConnects

-----------------------------------------------------------------------------
(* The application thread.                                                 *)

(* connect(): the reconnection timer is cancelled and destroyed, even if   *)
(* the call does nothing more.  An aborted wait has no effect.             *)
Connect ==
  /\ user = "idle" /\ gen < MaxConnects
  /\ timer' = "null"
  /\ user' = "connect"
  /\ UNCHANGED <<conState, session, link, made, net, final, uriOk, clean, gen, thread, ready>>

(* A variant that joins the thread of a closed client only.                *)
ConnectCheckUnjoined ==
  /\ user = "connect"
  /\ user' = IF thread = "none" \/ conState = "closing" THEN "start"
             ELSE IF conState = "closed" THEN "joinConnect" ELSE "idle"
  /\ UNCHANGED <<conState, netVars, uriOk, clean, gen, thread, ready>>

(* ... an existing network thread is joined if the client is closing or    *)
(* closed, and the call ignored otherwise.                                 *)
ConnectCheck ==
  /\ user = "connect"
  /\ user' = IF thread = "none" THEN "start"
             ELSE IF conState \in {"closing", "closed"} THEN "joinConnect" ELSE "idle"
  /\ UNCHANGED <<conState, netVars, uriOk, clean, gen, thread, ready>>

ConnectJoin ==
  /\ user = "joinConnect" /\ thread = "ended"
  /\ thread' = "none"
  /\ user' = "start"
  /\ UNCHANGED <<conState, netVars, uriOk, clean, gen, ready>>

(* A variant that has connect_impl overtake what was posted before.        *)
ConnectStartFirst ==
  /\ user = "start"
  /\ \E ok \in BOOLEAN : uriOk' = ok
  /\ conState' = "opening" /\ made' = 0 /\ gen' = gen + 1
  /\ ready' = <<[op |-> "connect", gen |-> gen + 1]>> \o ready
  /\ thread' = "running"
  /\ user' = "idle"
  /\ UNCHANGED <<session, link, timer, net, final, clean>>

(* ... connect_impl is queued and the thread that will run it started.     *)
ConnectStart ==
  /\ user = "start"
  /\ \E ok \in BOOLEAN : uriOk' = ok
  /\ conState' = "opening" /\ made' = 0 /\ gen' = gen + 1
  /\ ready' = Append(ready, [op |-> "connect", gen |-> gen + 1])
  /\ thread' = "running"
  /\ user' = "idle"
  /\ UNCHANGED <<session, link, timer, net, final, clean>>

(* close() and sync_close(): the state first, then the sockets (the        *)
(* business of SioSocket), then close_impl for the network thread.         *)
Close(call) ==
  /\ user = "idle" /\ Len(ready) < MaxReady
  /\ conState' = "closing"
  /\ clean' = (thread = "running" /\ net = "idle" /\ session /\ link \in Up)
  /\ user' = call
  /\ UNCHANGED <<netVars, uriOk, gen, thread, ready>>

ClosePost ==
  /\ user \in {"close", "syncClose"}
  /\ ready' = Append(ready, Handle("close"))
  /\ user' = IF user = "syncClose" /\ thread # "none" THEN "join" ELSE "idle"
  /\ UNCHANGED <<conState, netVars, uriOk, clean, gen, thread>>

(* sync_close() waits for the network thread.                              *)
CloseJoin ==
  /\ user = "join" /\ thread = "ended"
  /\ thread' = "none"
  /\ user' = "idle"
  /\ UNCHANGED <<conState, netVars, uriOk, clean, gen, ready>>

-----------------------------------------------------------------------------
(* Handlers the io_service runs.                                           *)

NetIdle == thread = "running" /\ net = "idle"

NextHandler(op) == NetIdle /\ ready # <<>> /\ Head(ready).op = op

(* connect_impl: an address websocketpp rejects ends in the fail listener, *)
(* m_con_state stays con_opening.                                          *)
RunConnect ==
  /\ NextHandler("connect")
  /\ ready' = Tail(ready)
  /\ IF uriOk THEN link' = "connecting" /\ UNCHANGED net
              ELSE net' = "failListener" /\ UNCHANGED link
  /\ UNCHANGED <<conState, session, timer, made, final, userVars, thread>>

(* close_impl: the reconnection timer goes; the websocket starts its       *)
(* closing handshake, if m_con refers to one that is open.                 *)
CloseImpl(status) ==
  /\ timer' = "null"
  /\ link' = IF session /\ link = "open" THEN status ELSE link

RunClose ==
  /\ NextHandler("close")
  /\ ready' = Tail(ready)
  /\ CloseImpl("closing")
  /\ UNCHANGED <<conState, session, made, net, final, userVars, thread>>

(* timeout_reconnect tests m_con_state ...                                 *)
TimeoutReconnect ==
  /\ NextHandler("reconnect")
  /\ ready' = Tail(ready)
  /\ net' = IF conState = "closed" THEN "reconnect" ELSE "idle"
  /\ UNCHANGED <<conState, session, link, timer, made, final, userVars, thread>>

(* ... and sets it, and runs connect_impl.                                 *)
Reconnect ==
  /\ net = "reconnect"
  /\ conState' = "opening" /\ made' = made + 1
  /\ link' = "connecting"
  /\ net' = "idle"
  /\ UNCHANGED <<session, timer, final, userVars, thread, ready>>

(* on_open, when the application has begun to close: close() again.        *)
OnOpen ==
  /\ NetIdle /\ link = "connecting"
  /\ IF conState = "closing"
       THEN /\ timer' = "null"
            /\ link' = IF session THEN "closing" ELSE "open"
            /\ UNCHANGED net
       ELSE link' = "open" /\ net' = "opened" /\ UNCHANGED timer
  /\ UNCHANGED <<conState, session, made, final, userVars, thread, ready>>

OnOpened ==
  /\ net = "opened"
  /\ conState' = "opened" /\ session' = TRUE /\ made' = 0
  /\ net' = "openListener"
  /\ UNCHANGED <<link, timer, final, userVars, thread, ready>>

OnFail ==
  /\ NetIdle /\ link = "connecting"
  /\ link' = "none"
  /\ IF conState = "closing"
       THEN timer' = "null" /\ UNCHANGED net
       ELSE net' = "failed" /\ UNCHANGED timer
  /\ UNCHANGED <<conState, session, made, final, userVars, thread, ready>>

(* A variant that makes one attempt too many.                              *)
OnFailedOnceMore ==
  /\ net = "failed"
  /\ session' = FALSE /\ conState' = "closed"
  /\ net' = IF made <= Attempts THEN "arm" ELSE "failListener"
  /\ UNCHANGED <<link, timer, made, final, userVars, thread, ready>>

OnFailed ==
  /\ net = "failed"
  /\ session' = FALSE /\ conState' = "closed"
  /\ net' = IF made < Attempts THEN "arm" ELSE "failListener"
  /\ UNCHANGED <<link, timer, made, final, userVars, thread, ready>>

(* A variant that looks at the close code only.                            *)
OnCloseByCode ==
  /\ NetIdle /\ link \in Up
  /\ \E normal \in IF link = "aborting" THEN {FALSE} ELSE BOOLEAN :
       final' = normal
  /\ link' = "none"
  /\ net' = "closed"
  /\ UNCHANGED <<conState, session, timer, made, userVars, thread, ready>>

(* on_close reads m_con_state before it sets it.  The close code is the    *)
(* client's unless the peer closed, or the closing handshake failed.       *)
OnClose ==
  /\ NetIdle /\ link \in Up
  /\ \E normal \in IF link = "aborting" THEN {FALSE} ELSE BOOLEAN :
       final' = (normal \/ conState = "closing")
  /\ link' = "none"
  /\ net' = "closed"
  /\ UNCHANGED <<conState, session, timer, made, userVars, thread, ready>>

(* A variant that keeps m_con.                                             *)
OnClosedKept ==
  /\ net = "closed"
  /\ conState' = "closed"
  /\ net' = IF ~final /\ made < Attempts THEN "arm" ELSE "closeListener"
  /\ UNCHANGED <<session, link, timer, made, final, userVars, thread, ready>>

OnClosed ==
  /\ net = "closed"
  /\ conState' = "closed" /\ session' = FALSE
  /\ net' = IF ~final /\ made < Attempts THEN "arm" ELSE "closeListener"
  /\ UNCHANGED <<link, timer, made, final, userVars, thread, ready>>

(* A variant that makes the reconnection timer and does not wait for it.   *)
ArmReconnectUnwaited ==
  /\ net = "arm"
  /\ timer' = "unset"
  /\ net' = "idle"
  /\ UNCHANGED <<conState, session, link, made, final, userVars, thread, ready>>

(* on_fail and on_close start the reconnection timer.                      *)
ArmReconnect ==
  /\ net = "arm"
  /\ timer' = "pending"
  /\ net' = "idle"
  /\ UNCHANGED <<conState, session, link, made, final, userVars, thread, ready>>

(* m_open_listener, m_close_listener or m_fail_listener returns.           *)
ListenerReturns ==
  /\ net \in {"openListener", "closeListener", "failListener"}
  /\ net' = "idle"
  /\ UNCHANGED <<conState, session, link, timer, made, final, userVars, thread, ready>>

(* on_handshake without a session id: the websocket is closed, with a code *)
(* that is not the normal one.                                             *)
OnBadHandshake ==
  /\ NetIdle /\ link = "open"
  /\ CloseImpl("aborting")
  /\ UNCHANGED <<conState, session, made, net, final, userVars, thread, ready>>

Expire ==
  /\ timer = "pending"
  /\ timer' = "unset"
  /\ ready' = Append(ready, Handle("reconnect"))
  /\ UNCHANGED <<conState, session, link, made, net, final, userVars, thread>>

(* The io_service has no work left: run_loop returns.                      *)
RunLoopEnds ==
  /\ NetIdle /\ ready = <<>> /\ link = "none" /\ timer # "pending"
  /\ thread' = "ended"
  /\ UNCHANGED <<conState, netVars, userVars, ready>>

-----------------------------------------------------------------------------
Init ==
  /\ conState = "closed" /\ session = FALSE /\ link = "none" /\ timer = "null"
  /\ made = 0 /\ uriOk = TRUE /\ thread = "none" /\ net = "idle" /\ final = FALSE
  /\ ready = <<>> /\ user = "idle" /\ clean = FALSE /\ gen = 0

Call == Connect \/ Close("close") \/ Close("syncClose")

UserStep == ConnectCheck \/ ConnectJoin \/ ConnectStart \/ ClosePost \/ CloseJoin

NetStep ==
  \/ RunConnect \/ RunClose \/ TimeoutReconnect \/ Reconnect
  \/ OnOpened \/ OnFailed \/ OnClosed \/ ArmReconnect \/ ListenerReturns \/ RunLoopEnds

(* What websocketpp bounds in time: an opening and a closing handshake.    *)
Handshake == OnOpen \/ OnFail \/ (link # "open" /\ OnClose)

Next == Call \/ UserStep \/ NetStep \/ OnOpen \/ OnFail \/ OnClose \/ OnBadHandshake \/ Expire

Spec == Init /\ [][Next]_vars

(* Both threads run, handshakes end and timers expire; the application     *)
(* need not call, nor the server close.                                    *)
FairSpec ==
  Spec /\ WF_vars(UserStep) /\ WF_vars(NetStep) /\ WF_vars(Handshake) /\ WF_vars(Expire)

-----------------------------------------------------------------------------
(* What must hold.                                                         *)

(* A connection is only started when there is none.                        *)
OneConnection == [][RunConnect \/ Reconnect => link = "none"]_vars

(* Between two handlers m_con_state, m_con and the websocket agree, as far *)
(* as a close() under way lets m_con_state say.                            *)
StateAgrees ==
  NetIdle =>
    /\ conState = "opened" => session
    /\ conState = "closed" => link = "none"
    /\ conState = "opening" => ~session
    /\ session => link \in Up

(* A close_impl posted before a connect() never closes the connection that *)
(* connect() makes.                                                        *)
NoStaleClose == [][RunClose /\ link' # link => Head(ready).gen = gen]_vars

(* sync_close() on an established, quiet connection returns.               *)
CleanCloseReturns == (user = "join" /\ clean) ~> (user = "idle")

(* The connection, or an attempt at one, has ended, neither the            *)
(* application nor a normal close code wanted that, and attempts are left. *)
Lost ==
  \/ (net = "failed" \/ (net = "closed" /\ ~final)) /\ made < Attempts
  \/ timer = "pending"

(* A connection that was lost is tried again, from the loss on and however *)
(* far the reconnection has come, unless the application asks for          *)
(* something else before the next attempt is begun.                        *)
LostIsRetried ==
  (Lost /\ user = "idle" /\ \A i \in DOMAIN ready : ready[i].op # "close")
    ~> (link = "connecting" \/ user # "idle")

(* sio_client.h says of close() and sync_close(): Closes the connection.   *)
SyncCloseCloses == (user = "join") ~> (link = "none")
=============================================================================
