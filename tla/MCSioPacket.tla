---------------------------- MODULE MCSioPacket ----------------------------
(* The instance of SioPacket for TLC: messages are written and read as     *)
(* SioJson does.                                                           *)
EXTENDS SioPacket

Json == INSTANCE SioJson

JsonAccept(m, bufs) == Json!AcceptMessage(m, bufs)
JsonRead(j, bufs) == Json!FromJson(j, bufs)
============================================================================
