-------------------------- MODULE MCAuditIntegrity --------------------------
(* Instances of AuditIntegrity for TLC.                                    *)
EXTENDS AuditIntegrity, TLC

CONSTANTS c1, c2, c3, c4, evt, other

(* Two streams, and ranks that disagree with most orders of the calls.     *)
TwoStreams == [c \in Calls |-> IF c \in {c1, c3} THEN evt ELSE other]
Ranks      == (c1 :> 2 @@ c2 :> 1 @@ c3 :> 4 @@ c4 :> 3)

Deployments == {[mode |-> "off", bound |-> {}], [mode |-> "required", bound |-> {"r2_entry", "r2_stream"}]}
=============================================================================
