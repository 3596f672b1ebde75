-------------------------- MODULE MCStatePublisher --------------------------
(***************************************************************************)
(* Small instances of StatePublisher for TLC.                              *)
(***************************************************************************)
EXTENDS StatePublisher

CONSTANTS t, s, b   \* a sampled (temperature), a plain (shutter) and an event
                    \* feature (button)
=============================================================================
