---------------------------- MODULE AppendOnlyLog ----------------------------
(***************************************************************************)
(* What the audit log of the school store promises: one total order of     *)
(* recorded calls, each recorded at most once and never reordered or taken *)
(* back; only the newest recorded call can become visible to readers, so a *)
(* call that a crash kept from becoming visible never appears later.       *)
(***************************************************************************)
EXTENDS Naturals, Sequences

CONSTANT Calls

VARIABLES
  log,      (* the calls in the order they were recorded *)
  visible   (* the calls a reader of the history finds   *)

Init == log = <<>> /\ visible = {}

Record(c) ==
  /\ \A i \in DOMAIN log : log[i] # c
  /\ log' = Append(log, c)
  /\ UNCHANGED visible

Show(c) ==
  /\ log # <<>> /\ c = log[Len(log)]
  /\ visible' = visible \union {c}
  /\ UNCHANGED log

Next == \E c \in Calls : Record(c) \/ Show(c)

Spec == Init /\ [][Next]_<<log, visible>>
=============================================================================
