--------------------------- MODULE MCCommsService ---------------------------
(* Values for TLC's runs of CommsService. *)
EXTENDS CommsService

CONSTANTS link, exec    \* GNDSTN_LINK and CMD_SYS_EXEC

MCUsers == {link, exec}

\* The second command of CMD_SYS_EXEC has a seqnum that no packet has room for.
MCFirstSeqnum == [u \in MCUsers |-> IF u = exec THEN 1 ELSE 0]
=============================================================================
