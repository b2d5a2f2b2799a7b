------------------------------- MODULE WsLink -------------------------------
(***************************************************************************)
(* What websocketpp promises of one client connection, and client_impl     *)
(* relies on: an attempt ends with the fail handler or the open handler; an*)
(* open connection ends with the close handler, once; and messages are     *)
(* given out only between the open handler and the closing handshake.      *)
(***************************************************************************)
EXTENDS Sequences

VARIABLES
  link,   \* connecting, open, closing or closed
  calls   \* the handlers that were called, in order

linkVars == <<link, calls>>

Init == link = "connecting" /\ calls = <<>>

Call(h) == calls' = Append(calls, h)

Fail    == link = "connecting" /\ link' = "closed" /\ Call("fail")
Open    == link = "connecting" /\ link' = "open" /\ Call("open")
Message == link = "open" /\ UNCHANGED link /\ Call("message")
Closing == link = "open" /\ link' = "closing" /\ UNCHANGED calls
End     == link \in {"open", "closing"} /\ link' = "closed" /\ Call("close")

Next == Fail \/ Open \/ Message \/ Closing \/ End

Spec == Init /\ [][Next]_linkVars
=============================================================================
