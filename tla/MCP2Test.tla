------------------------------ MODULE MCP2Test ------------------------------
(***************************************************************************)
(* The test program with its semaphores and the transmitter of terminal 0. *)
(***************************************************************************)
EXTENDS P2Test

MCSem == semaphores
MCRaw == zeroed
MCTermTransm == {"term0"}
MCKey == MCSem \cup MCTermTransm
=============================================================================
