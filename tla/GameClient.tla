----------------------------- MODULE GameClient -----------------------------
(***************************************************************************)
(* The bot of main.cpp on top of the client's connection life cycle: the   *)
(* main thread connects, waits for the open listener on _cond, joins the   *)
(* game, binds the events and then turns keys into moves; the network      *)
(* thread runs the connection listeners and the event handlers.            *)
(*                                                                         *)
(* What is handed to current_socket is recorded in sent; SioSocket says    *)
(* what becomes of it.                                                     *)
(***************************************************************************)
EXTENDS Integers, Sequences

CONSTANTS
  Attempts, MaxConnects, MaxReady,  \* of SioClient
  Patience,   \* ticks that go by before the bot drives: the 20 of the handler
  MaxKeys,    \* bound: keys pressed
  MaxEvents   \* bound: events received from the server

ASSUME ClientBounds ==
  Attempts \in Nat /\ MaxConnects \in Nat \ {0} /\ MaxReady \in Nat \ {0}
ASSUME GameAssumption == Patience \in Nat /\ MaxKeys \in Nat /\ MaxEvents \in Nat

VARIABLES
  conState, session, link, timer, made, uriOk, thread, net, final, ready,
  user, clean, gen,  \* of SioClient
  main,              \* where the main thread is
  lock,              \* who holds _lock
  connectFinish,     \* cl.connect_finish
  bound,             \* bind_events has run
  event,             \* the event whose handler the network thread is in
  count,             \* count of the ticktack handler
  received,          \* number of events received
  sent,              \* history: packets handed to current_socket
  exited             \* exit(0) or the return of main

Client == INSTANCE SioClient

clientVars == <<conState, session, link, timer, made, uriOk, thread, net, final, ready,
                user, clean, gen>>
gameVars == <<bound, event, count, received, sent>>
vars == <<clientVars, main, lock, connectFinish, gameVars, exited>>

TypeOK ==
  /\ Client!TypeOK
  /\ main \in {"connect", "connecting", "lock", "check", "wait", "waiting", "wake",
               "socket", "join1", "join2", "bind", "keys", "quit", "returned"}
  /\ lock \in {"none", "main"}
  /\ connectFinish \in BOOLEAN /\ bound \in BOOLEAN /\ exited \in BOOLEAN
  /\ event \in {"none", "join", "tick"}
  /\ count \in 0..Patience + 1
  /\ received \in 0..MaxEvents
  /\ sent \in Seq({"join1", "join2", "key", "drive"})

At(l) == main = l
Goto(l) == main' = l

-----------------------------------------------------------------------------
(* The main thread.                                                        *)

MainConnect ==
  /\ At("connect") /\ Client!Connect /\ Goto("connecting")
  /\ UNCHANGED <<lock, connectFinish, gameVars, exited>>

(* h.connect() goes on; the address is a valid one.                        *)
MainConnecting ==
  /\ At("connecting")
  /\ Client!ConnectCheck \/ Client!ConnectStart
  /\ uriOk'
  /\ Goto(IF user' = "idle" THEN "lock" ELSE "connecting")
  /\ UNCHANGED <<lock, connectFinish, gameVars, exited>>

MainLock ==
  /\ At("lock") /\ lock = "none"
  /\ lock' = "main" /\ Goto("check")
  /\ UNCHANGED <<clientVars, connectFinish, gameVars, exited>>

(* if(!cl.connect_finish) ...                                              *)
MainCheck ==
  /\ At("check")
  /\ IF connectFinish THEN lock' = "none" /\ Goto("socket")
                      ELSE Goto("wait") /\ UNCHANGED lock
  /\ UNCHANGED <<clientVars, connectFinish, gameVars, exited>>

(* ... _cond.wait(_lock): it releases _lock and waits in one step, may     *)
(* wake up unasked, and takes _lock again; main does not test again.       *)
MainWait ==
  /\ At("wait")
  /\ lock' = "none" /\ Goto("waiting")
  /\ UNCHANGED <<clientVars, connectFinish, gameVars, exited>>

SpuriousWakeup ==
  /\ At("waiting") /\ Goto("wake")
  /\ UNCHANGED <<clientVars, lock, connectFinish, gameVars, exited>>

(* A variant that forgets the unlock.                                      *)
MainWakeLocked ==
  /\ At("wake") /\ lock = "none"
  /\ lock' = "main" /\ Goto("socket")
  /\ UNCHANGED <<clientVars, connectFinish, gameVars, exited>>

(* main takes _lock again, and releases it at once.                        *)
MainWake ==
  /\ At("wake") /\ lock = "none"
  /\ Goto("socket")
  /\ UNCHANGED <<clientVars, lock, connectFinish, gameVars, exited>>

(* A variant that binds the events before it joins.                        *)
MainSocketBound ==
  /\ At("socket") /\ Goto("join1")
  /\ bound' = TRUE
  /\ UNCHANGED <<clientVars, lock, connectFinish, event, count, received, sent, exited>>

(* current_socket = h.socket()                                             *)
MainSocket ==
  /\ At("socket") /\ Goto("join1")
  /\ UNCHANGED <<clientVars, lock, connectFinish, gameVars, exited>>

JoinRoom ==
  /\ \/ At("join1") /\ Goto("join2")
     \/ At("join2") /\ Goto("bind")
  /\ sent' = Append(sent, main)
  /\ UNCHANGED <<clientVars, lock, connectFinish, bound, event, count, received, exited>>

BindEvents ==
  /\ At("bind") /\ Goto("keys")
  /\ bound' = TRUE
  /\ UNCHANGED <<clientVars, lock, connectFinish, event, count, received, sent, exited>>

(* A key that stands for a move or a bomb; other keys do nothing.          *)
Key ==
  /\ At("keys")
  /\ Len(SelectSeq(sent, LAMBDA p : p = "key")) < MaxKeys
  /\ sent' = Append(sent, "key")
  /\ UNCHANGED <<clientVars, main, lock, connectFinish, bound, event, count, received, exited>>

(* A variant that does not wait for the network thread.                    *)
QuitUnjoined ==
  /\ At("keys") /\ Client!Close("close") /\ Goto("quit")
  /\ UNCHANGED <<lock, connectFinish, gameVars, exited>>

(* 'q': h.sync_close() ...                                                 *)
Quit ==
  /\ At("keys") /\ Client!Close("syncClose") /\ Goto("quit")
  /\ UNCHANGED <<lock, connectFinish, gameVars, exited>>

MainQuit ==
  /\ At("quit")
  /\ Client!ClosePost \/ Client!CloseJoin
  /\ Goto(IF user' = "idle" THEN "returned" ELSE "quit")
  /\ UNCHANGED <<lock, connectFinish, gameVars, exited>>

(* ... h.clear_con_listeners() and the return of main.                     *)
MainReturn ==
  /\ At("returned")
  /\ exited' = TRUE
  /\ UNCHANGED <<clientVars, main, lock, connectFinish, gameVars>>

-----------------------------------------------------------------------------
(* The network thread.                                                     *)

(* A variant that does not take _lock.                                     *)
OnConnectedUnlocked ==
  /\ net = "openListener"
  /\ connectFinish' = TRUE
  /\ main' = IF main = "waiting" THEN "wake" ELSE main
  /\ Client!ListenerReturns
  /\ UNCHANGED <<lock, gameVars, exited>>

(* connection_listener::on_connected, under _lock: all who wait on _cond   *)
(* are notified.                                                           *)
OnConnected ==
  /\ net = "openListener" /\ lock = "none"
  /\ connectFinish' = TRUE
  /\ main' = IF main = "waiting" THEN "wake" ELSE main
  /\ Client!ListenerReturns
  /\ UNCHANGED <<lock, gameVars, exited>>

(* connection_listener::on_close and on_fail: exit(0).                     *)
OnCloseOrFail ==
  /\ net \in {"closeListener", "failListener"}
  /\ exited' = TRUE
  /\ UNCHANGED <<clientVars, main, lock, connectFinish, gameVars>>

(* An event of the server, "join game" or "ticktack player", while the     *)
(* websocket is not being closed: nobody listens before bind_events.       *)
Receive(e) ==
  /\ Client!NetIdle /\ event = "none" /\ session /\ link = "open"
  /\ received < MaxEvents
  /\ received' = received + 1
  /\ event' = IF bound THEN e ELSE "none"
  /\ UNCHANGED <<clientVars, main, lock, connectFinish, bound, count, sent, exited>>

(* The handlers, under _lock.                                              *)
JoinHandler ==
  /\ event = "join" /\ lock = "none"
  /\ event' = "none"
  /\ UNCHANGED <<clientVars, main, lock, connectFinish, bound, count, received, sent, exited>>

(* A variant that does not start to count again.                           *)
TickHandlerKept ==
  /\ event = "tick" /\ lock = "none"
  /\ event' = "none"
  /\ count' = count + 1
  /\ sent' = IF count > Patience THEN Append(sent, "drive") ELSE sent
  /\ UNCHANGED <<clientVars, main, lock, connectFinish, bound, received, exited>>

(* The ticktack handler stores the map and, after enough ticks, drives.    *)
TickHandler ==
  /\ event = "tick" /\ lock = "none"
  /\ event' = "none"
  /\ IF count > Patience THEN sent' = Append(sent, "drive") /\ count' = 0
                         ELSE count' = count + 1 /\ UNCHANGED sent
  /\ UNCHANGED <<clientVars, main, lock, connectFinish, bound, received, exited>>

(* Everything else the client does, between two events.                    *)
ClientStep ==
  /\ event = "none"
  /\ \/ Client!RunConnect \/ Client!RunClose \/ Client!TimeoutReconnect \/ Client!Reconnect
     \/ Client!OnOpened \/ Client!OnFailed \/ Client!OnClosed \/ Client!ArmReconnect
     \/ Client!RunLoopEnds
  /\ UNCHANGED <<main, lock, connectFinish, gameVars, exited>>

Handshake ==
  /\ event = "none" /\ Client!Handshake
  /\ UNCHANGED <<main, lock, connectFinish, gameVars, exited>>

ServerCloses ==
  /\ event = "none" /\ link = "open"
  /\ Client!OnClose \/ Client!OnBadHandshake
  /\ UNCHANGED <<main, lock, connectFinish, gameVars, exited>>

Expire ==
  /\ Client!Expire
  /\ UNCHANGED <<main, lock, connectFinish, gameVars, exited>>

-----------------------------------------------------------------------------
Init ==
  /\ Client!Init
  /\ main = "connect" /\ lock = "none" /\ connectFinish = FALSE
  /\ bound = FALSE /\ event = "none" /\ count = 0 /\ received = 0 /\ sent = <<>>
  /\ exited = FALSE

MainStep ==
  \/ MainConnect \/ MainConnecting \/ MainLock \/ MainCheck \/ MainWait \/ MainWake
  \/ MainSocket \/ JoinRoom \/ BindEvents \/ MainQuit \/ MainReturn

NetStep == OnConnected \/ OnCloseOrFail \/ JoinHandler \/ TickHandler \/ ClientStep

Next ==
  /\ ~exited
  /\ \/ MainStep \/ NetStep \/ Handshake \/ Expire
     \/ SpuriousWakeup \/ Key \/ Quit \/ ServerCloses
     \/ \E e \in {"join", "tick"} : Receive(e)

Spec == Init /\ [][Next]_vars

(* The fairness of SioClient, and a main thread that goes on; nobody need  *)
(* press a key.                                                            *)
FairSpec ==
  /\ Spec
  /\ WF_vars(~exited /\ MainStep) /\ WF_vars(~exited /\ NetStep)
  /\ WF_vars(~exited /\ Handshake) /\ WF_vars(~exited /\ Expire)

-----------------------------------------------------------------------------
(* What must hold.                                                         *)

(* Both joins are handed to the socket before any move, whichever thread   *)
(* makes it and however the wait of main ends.                             *)
JoinsFirst ==
  \A i \in DOMAIN sent :
    sent[i] \in {"key", "drive"} =>
      i > 2 /\ sent[1] = "join1" /\ sent[2] = "join2"

(* A program that has ended, by main's return or by exit(0) in a listener, *)
(* has no connection left.                                                 *)
EndsDisconnected == exited => link = "none"

(* An event handler finds _lock free: main has done with it before it      *)
(* binds the events, so the network thread never waits for main.           *)
HandlersNeverWait == event # "none" => lock = "none"

(* The open listener's notification is never lost: main gets past its wait.*)
OpenWakesMain ==
  (net = "openListener") ~> (main \notin {"lock", "check", "wait", "waiting"} \/ exited)

(* 'q' on an established, quiet connection ends the program.               *)
CleanQuitEnds == (main = "quit" /\ clean) ~> exited
=============================================================================
