--------------------------- MODULE MCPumpedServer ---------------------------
(* Instances of PumpedServer for TLC, with the constants of MCServer. *)
EXTENDS MCServer, PumpedServer

PumpedWithoutEvents == <<WithoutEvents, handed>>
=============================================================================
