------------------------ MODULE MCTransportPublisher ------------------------
(***************************************************************************)
(* Small instances of TransportPublisher for TLC.                          *)
(***************************************************************************)
EXTENDS TransportPublisher

CONSTANTS d1, d2, alive, dead
=============================================================================
