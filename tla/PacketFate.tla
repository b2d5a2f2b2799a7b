----------------------------- MODULE PacketFate -----------------------------
(***************************************************************************)
(* What a socket promises of the packets handed to it: each is held, then  *)
(* written once, refused once by the connection it would be written to, or *)
(* given up once, and none is given up while the connection is open and    *)
(* the socket alive.                                                       *)
(***************************************************************************)
EXTENDS Sequences

CONSTANT Packets

VARIABLES
  held,    \* accepted, neither written, refused nor given up
  log,     \* written, in order
  lost,    \* given up
  refused, \* handed to an open connection, which did not take them
  up,      \* the connection is open
  live     \* the client still knows the socket

fateVars == <<held, log, lost, refused, up, live>>

Logged == {log[i] : i \in DOMAIN log}

Init ==
  /\ held = {} /\ log = <<>> /\ lost = {} /\ refused = {}
  /\ up = TRUE /\ live = TRUE

Accept ==
  \E p \in Packets \ (held \cup Logged \cup lost \cup refused) :
    held' = held \cup {p} /\ UNCHANGED <<log, lost, refused, up, live>>

Write ==
  \E p \in held :
    /\ up
    /\ held' = held \ {p} /\ log' = Append(log, p)
    /\ UNCHANGED <<lost, refused, up, live>>

Refuse ==
  \E p \in held :
    /\ up
    /\ held' = held \ {p} /\ refused' = refused \cup {p}
    /\ UNCHANGED <<log, lost, up, live>>

GiveUp ==
  \E P \in SUBSET held :
    /\ ~up \/ ~live
    /\ held' = held \ P /\ lost' = lost \cup P
    /\ UNCHANGED <<log, refused, up, live>>

Opened == ~up /\ up' = TRUE /\ UNCHANGED <<held, log, lost, refused, live>>

Gone == up /\ up' = FALSE /\ UNCHANGED <<held, log, lost, refused, live>>

Closed == live /\ live' = FALSE /\ UNCHANGED <<held, log, lost, refused, up>>

Next == Accept \/ Write \/ Refuse \/ GiveUp \/ Opened \/ Gone \/ Closed

Spec == Init /\ [][Next]_fateVars
=============================================================================
