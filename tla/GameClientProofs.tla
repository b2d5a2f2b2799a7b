-------------------------- MODULE GameClientProofs --------------------------
(***************************************************************************)
(* The order of what the bot's two threads send, the lock they share and   *)
(* the end of the program, for any patience of the bot and whatever its    *)
(* client's connection does.                                               *)
(***************************************************************************)
EXTENDS GameClient, TLAPS

Packets == {"join1", "join2", "key", "drive"}

(* Where main is before it has the socket, and once it has bound the events.*)
Before == {"connect", "connecting", "lock", "check", "wait", "waiting", "wake", "socket",
           "join1"}
Playing == {"keys", "quit", "returned"}

JoinsSent == Len(sent) >= 2 /\ sent[1] = "join1" /\ sent[2] = "join2"

(* JoinsFirst and HandlersNeverWait hold because of where main is: it has  *)
(* given _lock back and sent both joins before it binds the events, and no *)
(* handler runs earlier.                                                   *)
Progress ==
  /\ sent \in Seq(Packets)
  /\ main \in Before \cup {"join2", "bind"} \cup Playing
  /\ lock \in {"none", "main"}
  /\ lock = "main" => main \in {"check", "wait"}
  /\ bound => main \in Playing
  /\ event # "none" => bound
  /\ main \in Before => sent = <<>>
  /\ main = "join2" => sent = <<"join1">>
  /\ main \in {"bind"} \cup Playing => JoinsSent

LEMMA InitProgress == Init => Progress
BY DEF Init, Progress, Before, Playing

(* What is sent later comes after the joins.                               *)
LEMMA AppendKeepsJoins ==
  ASSUME Progress, JoinsSent, NEW p \in Packets
  PROVE  /\ Append(sent, p) \in Seq(Packets)
         /\ sent' = Append(sent, p) => JoinsSent'
<1>1. Append(sent, p) \in Seq(Packets) /\ Len(Append(sent, p)) = Len(sent) + 1
  BY DEF Progress
<1>2. Append(sent, p)[1] = "join1" /\ Append(sent, p)[2] = "join2"
  BY DEF Progress, JoinsSent
<1> QED
  BY <1>1, <1>2 DEF JoinsSent, Progress

(* The steps of main that send nothing and bind nothing.                   *)
LEMMA WalkProgress ==
  ASSUME Progress,
         MainConnect \/ MainConnecting \/ MainLock \/ MainCheck \/ MainWait \/ MainWake
           \/ MainSocket \/ SpuriousWakeup \/ Quit \/ MainQuit \/ MainReturn
  PROVE  Progress'
<1> USE DEF At, Goto, gameVars, Before, Playing
<1>1. UNCHANGED <<sent, bound, event>>
  BY DEF MainConnect, MainConnecting, MainLock, MainCheck, MainWait, MainWake, MainSocket,
         SpuriousWakeup, Quit, MainQuit, MainReturn
<1>2. /\ main' \in Before \cup Playing
      /\ main' \in Before <=> main \in Before
      /\ main' \in Playing <=> main \in Playing
  BY DEF MainConnect, MainConnecting, MainLock, MainCheck, MainWait, MainWake, MainSocket,
         SpuriousWakeup, Quit, MainQuit, MainReturn
<1>3. lock' \in {"none", "main"} /\ (lock' = "main" => main' \in {"check", "wait"})
  <2>1. CASE MainLock \/ MainCheck \/ MainWait
    BY <2>1 DEF MainLock, MainCheck, MainWait, Progress
  <2>2. CASE MainConnect \/ MainConnecting \/ MainWake \/ MainSocket \/ SpuriousWakeup
               \/ Quit \/ MainQuit \/ MainReturn
    BY <2>2 DEF MainConnect, MainConnecting, MainWake, MainSocket, SpuriousWakeup, Quit,
                MainQuit, MainReturn, Progress
  <2> QED
    BY <2>1, <2>2
<1>4. JoinsSent' = JoinsSent
  BY <1>1 DEF JoinsSent
<1> QED
  BY <1>1, <1>2, <1>3, <1>4 DEF Progress

LEMMA JoinProgress == Progress /\ JoinRoom => Progress'
<1> SUFFICES ASSUME Progress, JoinRoom PROVE Progress'
  OBVIOUS
<1> USE DEF At, Goto, Before, Playing
<1>1. UNCHANGED <<lock, bound, event>> /\ sent' = Append(sent, main)
  BY DEF JoinRoom
<1>2. CASE main = "join1" /\ main' = "join2"
  <2>1. sent' = <<"join1">>
    BY <1>1, <1>2 DEF Progress
  <2> QED
    BY <1>1, <1>2, <2>1 DEF Progress, Packets
<1>3. CASE main = "join2" /\ main' = "bind"
  <2>1. sent' = Append(<<"join1">>, "join2")
    BY <1>1, <1>3 DEF Progress
  <2> QED
    BY <1>1, <1>3, <2>1 DEF Progress, Packets, JoinsSent
<1> QED
  BY <1>2, <1>3 DEF JoinRoom

LEMMA BindProgress == Progress /\ BindEvents => Progress'
BY DEF BindEvents, Progress, JoinsSent, At, Goto, Before, Playing

LEMMA KeyProgress == Progress /\ Key => Progress'
<1> SUFFICES ASSUME Progress, Key PROVE Progress'
  OBVIOUS
<1>1. /\ main = "keys" /\ sent' = Append(sent, "key")
      /\ UNCHANGED <<main, lock, bound, event>>
  BY DEF Key, At
<1>2. JoinsSent' /\ sent' \in Seq(Packets)
  BY <1>1, AppendKeepsJoins DEF Progress, Playing, Packets
<1> QED
  BY <1>1, <1>2 DEF Progress, Before, Playing

(* The handlers and the arrival of an event.                               *)
LEMMA EventProgress ==
  ASSUME Progress, JoinHandler \/ TickHandler \/ \E e \in {"join", "tick"} : Receive(e)
  PROVE  Progress'
<1> USE DEF Before, Playing
<1>1. UNCHANGED <<main, lock, bound>> /\ (event' # "none" => bound)
  BY DEF JoinHandler, TickHandler, Receive
<1>2. CASE UNCHANGED sent
  BY <1>1, <1>2 DEF Progress, JoinsSent
<1>3. CASE TickHandler /\ sent' = Append(sent, "drive")
  <2>1. main \in Playing
    BY <1>3 DEF TickHandler, Progress
  <2>2. JoinsSent' /\ sent' \in Seq(Packets)
    BY <1>3, <2>1, AppendKeepsJoins DEF Progress, Packets
  <2> QED
    BY <1>1, <2>1, <2>2 DEF Progress
<1> QED
  BY <1>2, <1>3 DEF JoinHandler, TickHandler, Receive

(* The open listener moves main on only from its wait.                     *)
LEMMA ListenerProgress == Progress /\ OnConnected => Progress'
<1> SUFFICES ASSUME Progress, OnConnected PROVE Progress'
  OBVIOUS
<1>1. /\ UNCHANGED <<lock, bound, event, sent>> /\ lock = "none"
      /\ main' = IF main = "waiting" THEN "wake" ELSE main
  BY DEF OnConnected, gameVars
<1> QED
  BY <1>1 DEF Progress, JoinsSent, Before, Playing

(* The client's own steps touch nothing of this.                           *)
LEMMA ClientProgress ==
  ASSUME Progress,
         OnCloseOrFail \/ ClientStep \/ Handshake \/ ServerCloses \/ Expire \/ UNCHANGED vars
  PROVE  Progress'
<1>1. UNCHANGED <<main, lock, bound, event, sent>>
  BY DEF OnCloseOrFail, ClientStep, Handshake, ServerCloses, Expire, gameVars, vars
<1> QED
  BY <1>1 DEF Progress, JoinsSent

LEMMA NextProgress == Progress /\ [Next]_vars => Progress'
BY WalkProgress, JoinProgress, BindProgress, KeyProgress, EventProgress, ListenerProgress,
   ClientProgress DEF Next, MainStep, NetStep

LEMMA InvProgress == Spec => []Progress
BY InitProgress, NextProgress, PTL DEF Spec

(* Both joins are the first of what is handed to the socket, whichever     *)
(* thread moves first and however often main is woken for no reason.       *)
THEOREM JoinsComeFirst == Spec => []JoinsFirst
<1>1. Progress => JoinsFirst
  <2> SUFFICES ASSUME Progress, NEW i \in DOMAIN sent, sent[i] \in {"key", "drive"}
               PROVE  i > 2 /\ sent[1] = "join1" /\ sent[2] = "join2"
    BY DEF JoinsFirst
  <2>1. main \notin Before
    BY DEF Progress
  <2>2. main # "join2"
    BY DEF Progress
  <2>3. JoinsSent
    BY <2>1, <2>2 DEF Progress
  <2> QED
    BY <2>3 DEF JoinsSent, Progress
<1> QED
  BY <1>1, InvProgress, PTL

(* An event handler never finds _lock taken: main took and gave it back    *)
(* before anything listened to events.                                     *)
THEOREM HandlersRunFreely == Spec => []HandlersNeverWait
<1>1. Progress => HandlersNeverWait
  BY DEF Progress, HandlersNeverWait, Playing
<1> QED
  BY <1>1, InvProgress, PTL

-----------------------------------------------------------------------------
(* The client below.                                                       *)

(* What is proved of SioClient, of the client of the bot.                  *)
Proved == INSTANCE SioClientProofs

LEMMA SameSpec ==
  /\ Client!Init <=> Proved!Init
  /\ Client!Next <=> Proved!Next
  /\ UNCHANGED Client!vars <=> UNCHANGED Proved!vars
  /\ Client!TypeOK <=> Proved!TypeOK
<1>1. Client!Init <=> Proved!Init
  BY DEF Client!Init, Proved!Init
<1>2. Client!Next <=> Proved!Next
  BY DEF
    Client!Next, Client!Call, Client!Connect, Client!Close, Client!UserStep,
    Client!ConnectCheck, Client!ConnectJoin, Client!ConnectStart, Client!ClosePost,
    Client!CloseJoin, Client!NetStep, Client!RunConnect, Client!RunClose,
    Client!TimeoutReconnect, Client!Reconnect, Client!OnOpened, Client!OnFailed,
    Client!OnClosed, Client!ArmReconnect, Client!ListenerReturns, Client!RunLoopEnds,
    Client!OnOpen, Client!OnFail, Client!OnClose, Client!OnBadHandshake, Client!Expire,
    Client!Up, Client!NextHandler, Client!NetIdle, Client!netVars, Client!userVars,
    Client!CloseImpl, Client!Handle,
    Proved!Next, Proved!Call, Proved!Connect, Proved!Close, Proved!UserStep,
    Proved!ConnectCheck, Proved!ConnectJoin, Proved!ConnectStart, Proved!ClosePost,
    Proved!CloseJoin, Proved!NetStep, Proved!RunConnect, Proved!RunClose,
    Proved!TimeoutReconnect, Proved!Reconnect, Proved!OnOpened, Proved!OnFailed,
    Proved!OnClosed, Proved!ArmReconnect, Proved!ListenerReturns, Proved!RunLoopEnds,
    Proved!OnOpen, Proved!OnFail, Proved!OnClose, Proved!OnBadHandshake, Proved!Expire,
    Proved!Up, Proved!NextHandler, Proved!NetIdle, Proved!netVars, Proved!userVars,
    Proved!CloseImpl, Proved!Handle
<1>3. UNCHANGED Client!vars <=> UNCHANGED Proved!vars
  BY DEF Client!vars, Client!netVars, Client!userVars,
         Proved!vars, Proved!netVars, Proved!userVars
<1>4. Client!TypeOK <=> Proved!TypeOK
  BY DEF Client!TypeOK, Client!Up, Client!Handler, Proved!TypeOK, Proved!Up, Proved!Handler
<1> QED
  BY <1>1, <1>2, <1>3, <1>4

(* Whatever the bot does, it does to its client what SioClient lets an     *)
(* application do.                                                         *)
LEMMA ClientSteps == [Next]_vars => [Client!Next]_(Client!vars)
<1> SUFFICES ASSUME [Next]_vars PROVE Client!Next \/ UNCHANGED Client!vars
  OBVIOUS
<1> USE DEF Client!Next, Client!Call, Client!UserStep, Client!NetStep
<1>1. UNCHANGED clientVars => UNCHANGED Client!vars
  BY DEF clientVars, Client!vars, Client!netVars, Client!userVars
<1>2. MainStep => Client!Next \/ UNCHANGED Client!vars
  BY <1>1 DEF MainStep, MainConnect, MainConnecting, MainLock, MainCheck, MainWait, MainWake,
              MainSocket, JoinRoom, BindEvents, MainQuit, MainReturn
<1>3. NetStep => Client!Next \/ UNCHANGED Client!vars
  BY <1>1 DEF NetStep, OnConnected, OnCloseOrFail, JoinHandler, TickHandler, ClientStep
<1>4. Handshake \/ Expire \/ Quit \/ ServerCloses => Client!Next
  BY DEF Handshake, Expire, Quit, ServerCloses, Client!Handshake
<1>5. SpuriousWakeup \/ Key \/ (\E e \in {"join", "tick"} : Receive(e)) \/ UNCHANGED vars
        => UNCHANGED Client!vars
  BY <1>1 DEF SpuriousWakeup, Key, Receive, vars
<1> QED
  BY <1>2, <1>3, <1>4, <1>5 DEF Next

LEMMA ClientInv == Spec => []Proved!Inv
<1>1. Init => Proved!Inv
  BY SameSpec, Proved!InitInv, ClientBounds DEF Init
<1>2. Proved!Inv /\ [Next]_vars => Proved!Inv'
  <2>1. [Next]_vars => [Proved!Next]_(Proved!vars)
    BY ClientSteps, SameSpec
  <2> QED
    BY <2>1, Proved!NextInv, ClientBounds
<1> QED
  BY <1>1, <1>2, PTL DEF Spec

(* The bot is an application as SioClient has it: all that holds of the    *)
(* client's life cycle holds of the bot's client.                          *)
THEOREM UsesClient == Spec => Client!Spec
<1>1. Init => Client!Init
  BY DEF Init
<1> QED
  BY <1>1, ClientSteps, PTL DEF Spec, Client!Spec

-----------------------------------------------------------------------------
(* The end.                                                                *)

(* main returns when the network thread is gone.                           *)
Leaving ==
  /\ main = "quit" => user \in {"syncClose", "join"}
  /\ main = "returned" => thread = "none"
  /\ EndsDisconnected

(* The client's own steps do not end a call of main's, and do not start a  *)
(* thread.                                                                 *)
LEMMA ClientLeaves ==
  ASSUME ClientStep \/ Handshake \/ ServerCloses \/ Expire \/ Client!ListenerReturns
  PROVE  user' = user /\ (thread = "none" => thread' = "none")
BY DEF ClientStep, Handshake, ServerCloses, Expire, Client!Handshake,
       Client!ListenerReturns, Client!RunConnect, Client!RunClose, Client!TimeoutReconnect,
       Client!Reconnect, Client!OnOpened, Client!OnFailed, Client!OnClosed,
       Client!ArmReconnect, Client!RunLoopEnds, Client!OnOpen, Client!OnFail, Client!OnClose,
       Client!OnBadHandshake, Client!Expire, Client!NetIdle, Client!userVars

LEMMA NextLeaving ==
  ASSUME Proved!Inv, Leaving, Next
  PROVE  Leaving'
<1> USE DEF Leaving, EndsDisconnected, At, Goto
<1>1. ~exited
  BY DEF Next
<1>2. CASE MainQuit
  <2>1. CASE Client!ClosePost
    BY <1>1, <1>2, <2>1 DEF MainQuit, Client!ClosePost
  <2>2. CASE Client!CloseJoin
    BY <1>1, <1>2, <2>2 DEF MainQuit, Client!CloseJoin
  <2> QED
    BY <1>2, <2>1, <2>2 DEF MainQuit
<1>3. CASE MainReturn
  BY <1>3 DEF MainReturn, clientVars, Proved!Inv, Proved!Threading
<1>4. CASE OnCloseOrFail
  BY <1>4 DEF OnCloseOrFail, clientVars, Proved!Inv, Proved!Attempt
<1>5. CASE Quit
  BY <1>1, <1>5 DEF Quit, Client!Close
<1>6. CASE ClientStep \/ Handshake \/ ServerCloses \/ Expire
  <2>1. UNCHANGED <<main, exited>>
    BY <1>6 DEF ClientStep, Handshake, ServerCloses, Expire
  <2> QED
    BY <1>1, <1>6, <2>1, ClientLeaves
<1>7. CASE OnConnected
  <2>1. exited' = exited /\ main' = IF main = "waiting" THEN "wake" ELSE main
    BY <1>7 DEF OnConnected
  <2>2. user' = user /\ (thread = "none" => thread' = "none")
    BY <1>7, ClientLeaves DEF OnConnected
  <2> QED
    BY <1>1, <2>1, <2>2
<1>8. CASE MainConnect \/ MainConnecting \/ MainLock \/ MainCheck \/ MainWait \/ MainWake
             \/ MainSocket \/ JoinRoom \/ BindEvents \/ SpuriousWakeup
  <2>1. main' \notin {"quit", "returned"} /\ exited' = exited
    BY <1>8 DEF MainConnect, MainConnecting, MainLock, MainCheck, MainWait, MainWake,
                MainSocket, JoinRoom, BindEvents, SpuriousWakeup
  <2> QED
    BY <1>1, <2>1
<1>9. CASE JoinHandler \/ TickHandler \/ Key \/ \E e \in {"join", "tick"} : Receive(e)
  <2>1. UNCHANGED <<main, user, thread, exited>>
    BY <1>9 DEF JoinHandler, TickHandler, Key, Receive, clientVars
  <2> QED
    BY <1>1, <2>1
<1> QED
  BY <1>2, <1>3, <1>4, <1>5, <1>6, <1>7, <1>8, <1>9 DEF Next, MainStep, NetStep

(* When the program has ended no connection is left: main returns after    *)
(* sync_close has joined the network thread, and the listeners that call   *)
(* exit(0) are those of a connection that is gone.                         *)
THEOREM EndsWithoutConnection == Spec => []EndsDisconnected
<1>1. Init => Leaving
  BY DEF Init, Leaving, EndsDisconnected
<1>2. Proved!Inv /\ Leaving /\ [Next]_vars => Leaving'
  <2>1. Leaving /\ UNCHANGED vars => Leaving'
    BY DEF Leaving, EndsDisconnected, vars, clientVars
  <2> QED
    BY <2>1, NextLeaving
<1>3. Leaving => EndsDisconnected
  BY DEF Leaving
<1> QED
  BY <1>1, <1>2, <1>3, ClientInv, PTL DEF Spec

-----------------------------------------------------------------------------
(* Types.                                                                  *)

(* What of TypeOK is neither the client's nor in Progress.                 *)
Counting ==
  /\ connectFinish \in BOOLEAN /\ bound \in BOOLEAN /\ exited \in BOOLEAN
  /\ event \in {"none", "join", "tick"}
  /\ count \in 0..Patience + 1
  /\ received \in 0..MaxEvents

LEMMA NextCounting == Counting /\ [Next]_vars => Counting'
<1> SUFFICES ASSUME Counting, [Next]_vars PROVE Counting'
  OBVIOUS
<1> USE GameAssumption DEF Counting, gameVars
<1>1. CASE MainStep
  <2>1. UNCHANGED <<connectFinish, event, count, received>>
    BY <1>1 DEF MainStep, MainConnect, MainConnecting, MainLock, MainCheck, MainWait, MainWake,
                MainSocket, JoinRoom, BindEvents, MainQuit, MainReturn
  <2>2. bound' \in BOOLEAN
    BY <1>1 DEF MainStep, MainConnect, MainConnecting, MainLock, MainCheck, MainWait, MainWake,
                MainSocket, JoinRoom, BindEvents, MainQuit, MainReturn
  <2>3. exited' \in BOOLEAN
    BY <1>1 DEF MainStep, MainConnect, MainConnecting, MainLock, MainCheck, MainWait, MainWake,
                MainSocket, JoinRoom, BindEvents, MainQuit, MainReturn
  <2> QED
    BY <2>1, <2>2, <2>3
<1>2. CASE TickHandler
  <2>1. UNCHANGED <<connectFinish, bound, received, exited>> /\ event' = "none"
        /\ (count' = 0 \/ (count <= Patience /\ count' = count + 1))
    BY <1>2 DEF TickHandler
  <2> QED
    BY <2>1
<1>3. CASE OnConnected \/ OnCloseOrFail
  <2>1. UNCHANGED <<bound, event, count, received>>
    BY <1>3 DEF OnConnected, OnCloseOrFail
  <2>2. connectFinish' \in BOOLEAN /\ exited' \in BOOLEAN
    BY <1>3 DEF OnConnected, OnCloseOrFail
  <2> QED
    BY <2>1, <2>2
<1>4. CASE JoinHandler \/ ClientStep \/ Handshake \/ Expire \/ SpuriousWakeup \/ Key \/ Quit
             \/ ServerCloses
  BY <1>4 DEF JoinHandler, ClientStep, Handshake, Expire, SpuriousWakeup, Key, Quit, ServerCloses
<1>5. CASE \E e \in {"join", "tick"} : Receive(e)
  BY <1>5 DEF Receive
<1>6. CASE UNCHANGED vars
  BY <1>6 DEF vars
<1> QED
  BY <1>1, <1>2, <1>3, <1>4, <1>5, <1>6 DEF Next, NetStep

(* The bot's variables and its client's keep their types: the bot never    *)
(* waits longer than its patience.                                         *)
THEOREM TypeCorrect == Spec => []TypeOK
<1>1. Init => Counting
  <2>1. Init => /\ connectFinish \in BOOLEAN /\ bound \in BOOLEAN /\ exited \in BOOLEAN
                /\ event \in {"none", "join", "tick"}
    BY DEF Init
  <2>2. Init => count \in 0..Patience + 1 /\ received \in 0..MaxEvents
    BY GameAssumption DEF Init
  <2> QED
    BY <2>1, <2>2 DEF Counting
<1>2. Proved!Inv /\ Progress /\ Counting => TypeOK
  BY SameSpec DEF Proved!Inv, Progress, Counting, TypeOK, Before, Playing, Packets
<1> QED
  BY <1>1, <1>2, NextCounting, ClientInv, InvProgress, PTL DEF Spec
=============================================================================
