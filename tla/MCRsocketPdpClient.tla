------------------------- MODULE MCRsocketPdpClient -------------------------
(* Values of the sequence of subscription ids, for the model checker.      *)
EXTENDS RsocketPdpClient

CONSTANTS a, b

MCIdSeq == <<a, b>>
=============================================================================
