------------------------------ MODULE SioMessage ------------------------------
(***************************************************************************)
(* Messages: a value with the flag that says of what kind it is.           *)
(***************************************************************************)
EXTENDS Integers, Sequences, SequencesExt

Message(flag, v) == <<flag, v>>
NullPtr == Message("none", 0)   \* message::ptr()

Flag(m) == m[1]
Value(m) == m[2]
=============================================================================
