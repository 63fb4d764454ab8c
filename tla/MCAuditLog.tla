----------------------------- MODULE MCAuditLog -----------------------------
(* Instances of AuditLog for TLC.                                          *)
EXTENDS AuditLog

CONSTANTS c1, c2, c3, evt

R2 == {"r2_entry", "r2_stream"}

(* Two calls for one event, one for the id that aliases the global key.    *)
MCStreamOf == [c \in Calls |-> IF c = c3 THEN "global" ELSE evt]

(* The deployed configuration and one of each other kind: a webhook only,  *)
(* nothing bound, relaxed modes.                                           *)
Deployments ==
  {[mode |-> "required", bound |-> R2 \union {"kv"}],
   [mode |-> "required", bound |-> R2 \union {"ingest"}],
   [mode |-> "required", bound |-> {"kv"}],
   [mode |-> "best_effort", bound |-> {"ingest"}],
   [mode |-> "best_effort", bound |-> {"kv"}],
   [mode |-> "off", bound |-> Sinks]}
=============================================================================
