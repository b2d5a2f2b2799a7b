-------------------------- MODULE SioClientProofs --------------------------
(***************************************************************************)
(* The life cycle of a client's connection, for any number of attempts and *)
(* of calls of connect() and close(): there is never more than one         *)
(* connection, m_con_state agrees with it, and no call reaches the wrong   *)
(* one.                                                                    *)
(***************************************************************************)
EXTENDS SioClient, SequenceTheorems, TLAPS

(* A connect_impl or a timeout_reconnect is waiting to be run.             *)
Waiting == \E i \in 1..Len(ready) : ready[i].op # "close"

(* An attempt to connect is in one place at a time: posted, waiting for    *)
(* its timer, posted by the timer, in a handler that ends in connect_impl, *)
(* or a connection.                                                        *)
Attempt ==
  /\ \A i, j \in 1..Len(ready) : ready[i].op # "close" /\ ready[j].op # "close" => i = j
  /\ link # "none" => ~Waiting /\ timer # "pending" /\ net \in {"idle", "opened", "openListener"}
  /\ Waiting => timer # "pending"
  /\ Waiting \/ timer = "pending" => net = "idle"
  /\ net \in {"opened", "openListener"} => link = "open"

(* No attempt outlives the network thread, and connect() has joined the    *)
(* thread before it starts another.                                        *)
Threading ==
  /\ thread # "running" => net = "idle" /\ link = "none" /\ timer # "pending" /\ ~Waiting
  /\ user = "start" => thread = "none"
  /\ user \in {"connect", "joinConnect", "start"} => gen < MaxConnects

(* Whoever is to try again has attempts left.                              *)
Retrying ==
  /\ net \in {"arm", "reconnect"} \/ timer = "pending" => made < Attempts
  /\ \A i \in 1..Len(ready) : ready[i].op = "reconnect" => made < Attempts

(* StateAgrees, also inside of handlers.                                   *)
Agreement ==
  /\ conState = "opened" => session
  /\ conState = "closed" => link = "none" /\ \A i \in 1..Len(ready) : ready[i].op # "connect"
  /\ conState = "opening" => ~session
  /\ session => link \in Up \/ net = "closed"

(* What an earlier connect() left in the queue is run before the present   *)
(* one connects.                                                           *)
Stale ==
  \A i \in 1..Len(ready) :
    ready[i].gen # gen => \E j \in 1..Len(ready) : j > i /\ ready[j].op = "connect"

Inv == TypeOK /\ Attempt /\ Threading /\ Retrying /\ Agreement /\ Stale

-----------------------------------------------------------------------------
LEMMA InitInv == Init => Inv
<1> SUFFICES ASSUME Init PROVE Inv
  OBVIOUS
<1>1. ready \in Seq(Handler) /\ Len(ready) = 0
  BY EmptySeq DEF Init
<1>2. TypeOK
  <2>1. session \in BOOLEAN /\ uriOk \in BOOLEAN /\ final \in BOOLEAN /\ clean \in BOOLEAN
    BY DEF Init
  <2>2. made \in 0..Attempts /\ gen \in 0..MaxConnects
    BY ClientAssumption DEF Init
  <2> QED
    BY <1>1, <2>1, <2>2 DEF Init, TypeOK
<1>3. Attempt /\ Threading /\ Retrying /\ Agreement /\ Stale
  BY <1>1 DEF Init, Waiting, Attempt, Threading, Retrying, Agreement, Stale
<1> QED
  BY <1>2, <1>3 DEF Inv

(* The queue after a handler was posted, and after one was taken.          *)
LEMMA Posted ==
  ASSUME ready \in Seq(Handler), NEW h \in Handler, ready' = Append(ready, h)
  PROVE  /\ ready' \in Seq(Handler) /\ Len(ready) \in Nat /\ Len(ready') = Len(ready) + 1
         /\ \A i \in 1..Len(ready) : ready'[i] = ready[i]
         /\ ready'[Len(ready) + 1] = h
BY AppendProperties, LenProperties

LEMMA Taken ==
  ASSUME ready \in Seq(Handler), ready # <<>>, ready' = Tail(ready)
  PROVE  /\ ready' \in Seq(Handler) /\ Len(ready) \in Nat \ {0} /\ Len(ready') = Len(ready) - 1
         /\ \A i \in 1..Len(ready') : ready'[i] = ready[i + 1]
         /\ Head(ready) = ready[1]
<1>1. Len(ready) \in Nat \ {0}
  BY EmptySeq
<1> QED
  BY <1>1, HeadTailProperties

(* The steps that leave the queue as it is.                                *)
LEMMA QuietCall ==
  ASSUME Inv, Connect \/ Close("close") \/ Close("syncClose") \/ ConnectCheck \/ ConnectJoin
                \/ CloseJoin
  PROVE  Inv'
<1> USE DEF Inv, netVars, userVars
<1>1. ready' = ready
  BY DEF Connect, Close, ConnectCheck, ConnectJoin, CloseJoin
<1>2. CASE Connect
  BY <1>1, <1>2 DEF Connect, TypeOK, Waiting, Attempt, Threading, Retrying, Agreement, Stale
<1>3. CASE Close("close") \/ Close("syncClose")
  <2>1. /\ conState' = "closing" /\ user' \in {"close", "syncClose"}
        /\ UNCHANGED <<netVars, uriOk, gen, thread>>
    BY <1>3 DEF Close
  <2>2. clean' \in BOOLEAN
    BY <1>3 DEF Close
  <2>3. TypeOK'
    BY <1>1, <2>1, <2>2 DEF TypeOK
  <2> QED
    BY <1>1, <2>1, <2>3 DEF Waiting, Attempt, Threading, Retrying, Agreement, Stale
<1>4. CASE ConnectCheck
  BY <1>1, <1>4 DEF ConnectCheck, TypeOK, Waiting, Attempt, Threading, Retrying, Agreement, Stale
<1>5. CASE ConnectJoin \/ CloseJoin
  BY <1>1, <1>5 DEF ConnectJoin, CloseJoin, TypeOK, Waiting, Attempt, Threading, Retrying,
                    Agreement, Stale
<1> QED
  BY <1>2, <1>3, <1>4, <1>5

LEMMA QuietNet ==
  ASSUME Inv, Reconnect \/ OnOpened \/ OnFailed \/ OnClosed \/ ArmReconnect \/ ListenerReturns
                \/ RunLoopEnds \/ OnOpen \/ OnFail \/ OnClose \/ OnBadHandshake
  PROVE  Inv'
<1> USE DEF Inv, netVars, userVars
<1>1. ready' = ready /\ UNCHANGED userVars
  BY DEF Reconnect, OnOpened, OnFailed, OnClosed, ArmReconnect, ListenerReturns, RunLoopEnds,
         OnOpen, OnFail, OnClose, OnBadHandshake
<1>2. Stale'
  BY <1>1 DEF Stale
<1>3. CASE Reconnect
  <2>1. ~Waiting /\ timer # "pending" /\ thread = "running" /\ ~session /\ made < Attempts
    BY <1>3 DEF Reconnect, Attempt, Threading, Retrying, Agreement, Up
  <2>2. TypeOK'
    BY <1>1, <1>3, <2>1, ClientAssumption DEF Reconnect, TypeOK
  <2>3. Attempt' /\ Threading'
    BY <1>1, <1>3, <2>1 DEF Reconnect, Waiting, Attempt, Threading
  <2>4. Retrying' /\ Agreement'
    BY <1>1, <1>3, <2>1 DEF Reconnect, Waiting, Retrying, Agreement
  <2> QED
    BY <1>2, <2>2, <2>3, <2>4
<1>4. CASE OnOpened
  <2>1. TypeOK'
    BY <1>1, <1>4, ClientAssumption DEF OnOpened, TypeOK
  <2>2. Attempt' /\ Threading' /\ Retrying' /\ Agreement'
    BY <1>1, <1>4 DEF OnOpened, Waiting, Attempt, Threading, Retrying, Agreement, Up
  <2> QED
    BY <1>2, <2>1, <2>2
<1>5. CASE OnFailed \/ OnClosed
  <2>1. link = "none" /\ ~Waiting /\ timer # "pending" /\ thread = "running"
    BY <1>5 DEF OnFailed, OnClosed, Attempt, Threading
  <2>2. /\ session' = FALSE /\ conState' = "closed"
        /\ net' \in {"arm", "closeListener", "failListener"} /\ (net' = "arm" => made < Attempts)
        /\ UNCHANGED <<link, timer, made, final, thread>>
    BY <1>5 DEF OnFailed, OnClosed
  <2>3. session' \in BOOLEAN
    BY <2>2
  <2>4. TypeOK'
    BY <1>1, <2>2, <2>3 DEF TypeOK
  <2>5. Attempt' /\ Threading' /\ Retrying' /\ Agreement'
    BY <1>1, <2>1, <2>2 DEF Waiting, Attempt, Threading, Retrying, Agreement
  <2> QED
    BY <1>2, <2>4, <2>5
<1>6. CASE ArmReconnect \/ ListenerReturns
  BY <1>1, <1>2, <1>6
     DEF ArmReconnect, ListenerReturns, TypeOK, Waiting, Attempt, Threading, Retrying, Agreement
<1>7. CASE RunLoopEnds
  BY <1>1, <1>2, <1>7, EmptySeq
     DEF RunLoopEnds, NetIdle, TypeOK, Waiting, Attempt, Threading, Retrying, Agreement
<1>8. CASE OnOpen
  BY <1>1, <1>2, <1>8
     DEF OnOpen, NetIdle, TypeOK, Waiting, Attempt, Threading, Retrying, Agreement, Up
<1>11. CASE OnFail
  BY <1>1, <1>2, <1>11
     DEF OnFail, NetIdle, TypeOK, Waiting, Attempt, Threading, Retrying, Agreement, Up
<1>9. CASE OnClose
  BY <1>1, <1>2, <1>9
     DEF OnClose, NetIdle, TypeOK, Waiting, Attempt, Threading, Retrying, Agreement, Up
<1>10. CASE OnBadHandshake
  BY <1>1, <1>2, <1>10
     DEF OnBadHandshake, CloseImpl, NetIdle, TypeOK, Waiting, Attempt, Threading, Retrying,
         Agreement, Up
<1> QED
  BY <1>3, <1>4, <1>5, <1>6, <1>7, <1>8, <1>9, <1>10, <1>11

(* connect() posts connect_impl to an empty client: nobody else connects.  *)
LEMMA StartInv == Inv /\ ConnectStart => Inv'
<1> SUFFICES ASSUME Inv, ConnectStart PROVE Inv'
  OBVIOUS
<1> USE DEF Inv
<1> DEFINE h == [op |-> "connect", gen |-> gen + 1]
<1>1. h \in Handler
  BY ClientAssumption DEF ConnectStart, TypeOK, Threading, Handler
<1>2. /\ ready' \in Seq(Handler) /\ Len(ready) \in Nat /\ Len(ready') = Len(ready) + 1
      /\ \A i \in 1..Len(ready) : ready'[i] = ready[i]
      /\ ready'[Len(ready) + 1] = h
  BY <1>1, Posted DEF ConnectStart, TypeOK
<1>3. ~Waiting /\ net = "idle" /\ link = "none" /\ timer # "pending" /\ ~session
  BY DEF ConnectStart, Threading, Agreement, Up
<1>4. /\ conState' = "opening" /\ made' = 0 /\ gen' = gen + 1 /\ thread' = "running"
      /\ user' = "idle" /\ uriOk' \in BOOLEAN
      /\ UNCHANGED <<session, link, timer, net, final, clean>>
  BY DEF ConnectStart
<1>5. TypeOK'
  BY <1>2, <1>4, ClientAssumption DEF TypeOK, ConnectStart, Threading
<1>6. Attempt' /\ Threading'
  BY <1>2, <1>3, <1>4 DEF Attempt, Threading, Waiting
<1>7. Retrying' /\ Agreement'
  BY <1>2, <1>3, <1>4 DEF Retrying, Agreement, Waiting
<1>8. Stale'
  BY <1>2, <1>4 DEF Stale
<1> QED
  BY <1>5, <1>6, <1>7, <1>8

LEMMA PostInv == Inv /\ ClosePost => Inv'
<1> SUFFICES ASSUME Inv, ClosePost PROVE Inv'
  OBVIOUS
<1> USE DEF Inv
<1>1. Handle("close") \in Handler /\ Handle("close").op = "close" /\ Handle("close").gen = gen
  BY DEF TypeOK, Handler, Handle
<1>2. /\ ready' \in Seq(Handler) /\ Len(ready) \in Nat /\ Len(ready') = Len(ready) + 1
      /\ \A i \in 1..Len(ready) : ready'[i] = ready[i]
      /\ ready'[Len(ready) + 1] = Handle("close")
  BY <1>1, Posted DEF ClosePost, TypeOK
<1>3. user' \in {"join", "idle"} /\ UNCHANGED <<conState, netVars, uriOk, clean, gen, thread>>
  BY DEF ClosePost
<1> USE DEF netVars
<1>4. TypeOK'
  BY <1>2, <1>3 DEF TypeOK
<1>5. Waiting' = Waiting
  BY <1>1, <1>2 DEF Waiting
<1>6. Attempt' /\ Threading'
  BY <1>1, <1>2, <1>3, <1>5 DEF Attempt, Threading
<1>7. Retrying' /\ Agreement'
  BY <1>1, <1>2, <1>3 DEF Retrying, Agreement
<1>8. Stale'
  BY <1>1, <1>2, <1>3 DEF Stale
<1> QED
  BY <1>4, <1>6, <1>7, <1>8

LEMMA ExpireInv == Inv /\ Expire => Inv'
<1> SUFFICES ASSUME Inv, Expire PROVE Inv'
  OBVIOUS
<1> USE DEF Inv
<1>1. /\ Handle("reconnect") \in Handler /\ Handle("reconnect").op = "reconnect"
      /\ Handle("reconnect").gen = gen
  BY DEF TypeOK, Handler, Handle
<1>2. /\ ready' \in Seq(Handler) /\ Len(ready) \in Nat /\ Len(ready') = Len(ready) + 1
      /\ \A i \in 1..Len(ready) : ready'[i] = ready[i]
      /\ ready'[Len(ready) + 1] = Handle("reconnect")
  BY <1>1, Posted DEF Expire, TypeOK
<1>3. /\ timer = "pending" /\ timer' = "unset"
      /\ UNCHANGED <<conState, session, link, made, net, final, userVars, thread>>
  BY DEF Expire
<1>4. ~Waiting /\ net = "idle" /\ link = "none" /\ thread = "running" /\ made < Attempts
  BY <1>3 DEF Attempt, Threading, Retrying, TypeOK
<1> USE DEF userVars
<1>5. TypeOK'
  BY <1>2, <1>3 DEF TypeOK
<1>6. Attempt' /\ Threading'
  BY <1>1, <1>2, <1>3, <1>4 DEF Attempt, Threading, Waiting
<1>7. Retrying' /\ Agreement'
  BY <1>1, <1>2, <1>3, <1>4 DEF Retrying, Agreement
<1>8. Stale'
  BY <1>1, <1>2, <1>3 DEF Stale
<1> QED
  BY <1>5, <1>6, <1>7, <1>8

(* Taking a handler: if it was an attempt, it was the only one.            *)
LEMMA TakeInv ==
  ASSUME Inv, RunConnect \/ RunClose \/ TimeoutReconnect
  PROVE  Inv'
<1> USE DEF Inv
<1>1. /\ thread = "running" /\ net = "idle" /\ ready # <<>> /\ ready' = Tail(ready)
      /\ UNCHANGED <<conState, session, made, final, userVars, thread>>
  BY DEF RunConnect, RunClose, TimeoutReconnect, NextHandler, NetIdle
<1>2. /\ ready' \in Seq(Handler) /\ Len(ready) \in Nat \ {0} /\ Len(ready') = Len(ready) - 1
      /\ \A i \in 1..Len(ready') : ready'[i] = ready[i + 1]
      /\ Head(ready) = ready[1]
  BY <1>1, Taken DEF TypeOK
<1>3. /\ Waiting' => Waiting
      /\ ready[1].op # "close" => Waiting /\ ~Waiting'
  <2>1. \A i \in 1..Len(ready') : i + 1 \in 1..Len(ready) /\ ready'[i] = ready[i + 1]
    BY <1>2
  <2>2. Waiting' => \E i \in 1..Len(ready) : i # 1 /\ ready[i].op # "close"
    BY <1>2, <2>1 DEF Waiting
  <2>3. 1 \in 1..Len(ready)
    BY <1>2
  <2> QED
    BY <2>2, <2>3 DEF Waiting, Attempt
<1> USE DEF userVars
<1>4. Stale'
  <2> SUFFICES ASSUME NEW i \in 1..Len(ready'), ready'[i].gen # gen
               PROVE  \E j \in 1..Len(ready') : j > i /\ ready'[j].op = "connect"
    BY <1>1 DEF Stale
  <2>1. PICK j \in 1..Len(ready) : j > i + 1 /\ ready[j].op = "connect"
    BY <1>2 DEF Stale
  <2>2. j - 1 \in 1..Len(ready') /\ ready'[j - 1].op = "connect" /\ j - 1 > i
    BY <1>2, <2>1
  <2> QED
    BY <2>2
<1>5. \A i, j \in 1..Len(ready') : ready'[i].op # "close" /\ ready'[j].op # "close" => i = j
  <2> SUFFICES ASSUME NEW i \in 1..Len(ready'), NEW j \in 1..Len(ready'),
                      ready'[i].op # "close", ready'[j].op # "close"
               PROVE  i = j
    OBVIOUS
  <2>1. i + 1 = j + 1
    BY <1>2 DEF Attempt
  <2> QED
    BY <2>1
<1>6. /\ \A i \in 1..Len(ready') : ready'[i].op = "reconnect" => made < Attempts
      /\ conState = "closed" => \A i \in 1..Len(ready') : ready'[i].op # "connect"
  BY <1>2 DEF Retrying, Agreement
<1>7. CASE RunConnect
  <2>1. Waiting /\ ~Waiting' /\ link = "none" /\ conState # "closed"
    BY <1>2, <1>3, <1>7 DEF RunConnect, NextHandler, Attempt, Agreement
  <2>2. timer' = timer /\ \/ link' = "connecting" /\ net' = net
                          \/ net' = "failListener" /\ link' = link
    BY <1>7 DEF RunConnect
  <2>3. TypeOK'
    BY <1>1, <1>2, <2>2 DEF TypeOK
  <2>4. Attempt' /\ Threading' /\ Retrying' /\ Agreement'
    BY <1>1, <1>5, <1>6, <2>1, <2>2 DEF Attempt, Threading, Retrying, Agreement, Up
  <2> QED
    BY <1>4, <2>3, <2>4
<1>8. CASE RunClose
  <2>1. timer' = "null" /\ net' = net
        /\ (link' = link \/ (link = "open" /\ link' = "closing"))
    BY <1>8 DEF RunClose, CloseImpl
  <2>2. TypeOK'
    BY <1>1, <1>2, <2>1 DEF TypeOK, Up
  <2>3. Attempt' /\ Threading' /\ Retrying' /\ Agreement'
    BY <1>1, <1>3, <1>5, <1>6, <2>1 DEF Attempt, Threading, Retrying, Agreement, Up
  <2> QED
    BY <1>4, <2>2, <2>3
<1>9. CASE TimeoutReconnect
  <2>1. Waiting /\ ~Waiting' /\ link = "none" /\ made < Attempts
    BY <1>2, <1>3, <1>9 DEF TimeoutReconnect, NextHandler, Attempt, Retrying
  <2>2. net' \in {"idle", "reconnect"} /\ UNCHANGED <<link, timer>>
    BY <1>9 DEF TimeoutReconnect
  <2>3. TypeOK'
    BY <1>1, <1>2, <2>2 DEF TypeOK
  <2>4. Attempt' /\ Threading' /\ Retrying' /\ Agreement'
    BY <1>1, <1>5, <1>6, <2>1, <2>2 DEF Attempt, Threading, Retrying, Agreement
  <2> QED
    BY <1>4, <2>3, <2>4
<1> QED
  BY <1>7, <1>8, <1>9

LEMMA NextInv == Inv /\ [Next]_vars => Inv'
<1> SUFFICES ASSUME Inv, [Next]_vars PROVE Inv'
  OBVIOUS
<1>1. CASE UNCHANGED vars
  BY <1>1 DEF Inv, vars, netVars, userVars, TypeOK, Waiting, Attempt, Threading, Retrying,
              Agreement, Stale
<1> QED
  BY <1>1, QuietCall, QuietNet, StartInv, PostInv, ExpireInv, TakeInv
     DEF Next, Call, UserStep, NetStep

LEMMA AlwaysInv == Spec => []Inv
BY InitInv, NextInv, PTL DEF Spec

-----------------------------------------------------------------------------
(* The variables keep their types; in particular m_reconn_made never       *)
(* passes m_reconn_attempts.                                               *)
THEOREM TypeCorrect == Spec => []TypeOK
BY AlwaysInv, PTL DEF Inv

(* Between two handlers m_con_state, m_con and the websocket agree.        *)
THEOREM StatesAgree == Spec => []StateAgrees
<1>1. Inv => StateAgrees
  BY DEF Inv, Agreement, StateAgrees, NetIdle
<1> QED
  BY <1>1, AlwaysInv, PTL

(* connect_impl runs only when there is no connection, be it called by     *)
(* connect() or by the reconnection timer.                                 *)
THEOREM OneAtATime == Spec => OneConnection
<1>1. Inv /\ [Next]_vars => [RunConnect \/ Reconnect => link = "none"]_vars
  <2>1. Inv /\ RunConnect => link = "none"
    <3> SUFFICES ASSUME Inv, RunConnect PROVE link = "none"
      OBVIOUS
    <3>1. ready # <<>> /\ Head(ready).op = "connect"
      BY DEF RunConnect, NextHandler
    <3>2. Len(ready) \in Nat \ {0} /\ ready[1].op = "connect"
      BY <3>1, EmptySeq DEF Inv, TypeOK
    <3> QED
      BY <3>2 DEF Inv, Attempt, Waiting
  <2>2. Inv /\ Reconnect => link = "none"
    BY DEF Inv, Attempt, Reconnect
  <2> QED
    BY <2>1, <2>2
<1> QED
  BY <1>1, AlwaysInv, PTL DEF Spec, OneConnection

(* A close_impl that closes the websocket was posted for this connection,  *)
(* not for one of an earlier connect().                                    *)
THEOREM ClosesItsOwn == Spec => NoStaleClose
<1>1. Inv /\ [Next]_vars => [RunClose /\ link' # link => Head(ready).gen = gen]_vars
  <2> SUFFICES ASSUME Inv, RunClose, link' # link, Head(ready).gen # gen
               PROVE  FALSE
    OBVIOUS
  <2>1. link = "open" /\ ready # <<>>
    BY DEF RunClose, CloseImpl, NextHandler
  <2>2. Len(ready) \in Nat \ {0} /\ Head(ready) = ready[1]
    BY <2>1, EmptySeq DEF Inv, TypeOK
  <2>3. Waiting
    BY <2>2 DEF Inv, Stale, Waiting
  <2> QED
    BY <2>1, <2>3 DEF Inv, Attempt
<1> QED
  BY <1>1, AlwaysInv, PTL DEF Spec, NoStaleClose
=============================================================================
