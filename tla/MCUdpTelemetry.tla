--------------------------- MODULE MCUdpTelemetry ----------------------------
(***************************************************************************)
(* The UDP session with a pool of three pbufs, frames of up to two and a   *)
(* table of two samples.                                                   *)
(***************************************************************************)
EXTENDS UdpTelemetry

CONSTANTS chosen, default

MCHosts == {chosen, default}
=============================================================================
