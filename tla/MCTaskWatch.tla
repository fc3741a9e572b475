----------------------------- MODULE MCTaskWatch -----------------------------
(* TaskWatch with one pump of each kind to choose from. *)
EXTENDS TaskWatch

CONSTANTS sse, grpc, ws

(* Everything, or the log alone. *)
SomeFilters == {{}, {"log"}}
=============================================================================
