----------------------------- MODULE OtaReports -----------------------------
(***************************************************************************)
(* The states and errors OtaClient reports, and the order in which its     *)
(* worker reports them.  OtaService runs its worker by these tables and    *)
(* OtaTransfer, which models the worker in full, is checked against them.  *)
(***************************************************************************)

OtaStates == {"idle", "syncing", "query_capability", "ready", "starting",
              "transferring", "verifying", "completed", "failed",
              "cancelled"}
Terminal == {"completed", "failed", "cancelled"}

\* What the worker itself fails with ...
OtaErrors == {"none", "transport_open_failed", "transport_io_error",
              "timeout", "protocol_error", "capability_rejected",
              "firmware_too_large"}

\* ... and what start() fails with before there is a worker.
StartErrors == {"invalid_argument", "firmware_open_failed",
                "firmware_too_large", "unknown"}

\* The states the worker may report after it reported s.
Following(s) ==
  CASE s = "ready"            -> {"syncing", "failed", "cancelled"}
    [] s = "syncing"          -> {"query_capability", "failed", "cancelled"}
    [] s = "query_capability" -> {"starting", "failed", "cancelled"}
    [] s = "starting"         -> {"transferring", "failed", "cancelled"}
    [] s = "transferring"     -> {"transferring", "verifying", "failed",
                                  "cancelled"}
    [] s = "verifying"        -> {"completed", "failed", "cancelled"}
    [] OTHER                  -> {}

\* The errors it may fail with after it reported s.
ErrorsAfter(s) ==
  CASE s = "ready"            -> {"transport_open_failed"}
    [] s = "query_capability" -> {"capability_rejected", "firmware_too_large"}
    [] s = "transferring"     -> {"protocol_error"}
    [] s \in {"syncing", "starting", "verifying"} ->
         {"timeout", "transport_io_error", "protocol_error"}
    [] OTHER                  -> {}
=============================================================================
