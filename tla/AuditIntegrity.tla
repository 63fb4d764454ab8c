--------------------------- MODULE AuditIntegrity ---------------------------
(***************************************************************************)
(* verifyAuditIntegrity: the check of the newest rows of the audit history *)
(* that GET /api/master/audit-integrity reports, on the log AuditLog       *)
(* writes: each row against its immutable copy, and the links between the  *)
(* rows. A row's own hash always matches, since a call stands for its      *)
(* entry and for its hash. In best-effort mode a row's receipt may name    *)
(* any of the sinks and the report is what it is; that mode is left out.   *)
(***************************************************************************)
EXTENDS AuditLog

CONSTANT HashRank  (* lexicographic rank of each entry's hash *)

ASSUME RankAssumption == HashRank \in [Calls -> Nat]

(* The deployments whose report is modelled.                               *)
Reported == env.mode \in {"off", "required"}

(* Mutant: the listing is not reversed.                                    *)
ListedOldestFirst(d, e) ==
  \/ entry[d].ts < entry[e].ts
  \/ entry[d].ts = entry[e].ts /\ HashRank[d] < HashRank[e]

(* Rows are keyed audit_history:<ts>:<hash> and listed in reverse.         *)
listedBefore(d, e) ==
  \/ entry[d].ts > entry[e].ts
  \/ entry[d].ts = entry[e].ts /\ HashRank[d] > HashRank[e]

window(limit) ==
  {e \in history : Cardinality({d \in history : listedBefore(d, e)}) < limit}

(* A row of required mode has a receipt that names every bound sink: one   *)
(* of them is a primary one, and its R2 object is there.                   *)
rowHolds(e) ==
  env.mode = "required" =>
    /\ env.bound \intersect Primary # {}
    /\ "r2_entry" \in env.bound => e \in sinks["r2_entry"]

(* The predecessor of each row in the global chain and in its stream.      *)
globalPrev(rows) == [e \in rows |-> entry[e].prev_hash]
streamPrev(rows) == [e \in rows |-> entry[e].stream_prev_hash]

(* The rows reached from a head by following the links within the rows.    *)
visited(rows, prev, head) ==
  LET walk[n \in 0..Cardinality(rows)] ==
        IF n = 0 THEN {head}
        ELSE walk[n - 1] \union {e \in rows : e \in {prev[d] : d \in walk[n - 1]}}
  IN walk[Cardinality(rows)]

(* Mutant: only the test for a row with two successors is left.            *)
BranchesOnly(rows, prev) ==
  \A e \in rows : Cardinality({d \in rows : prev[d] = e}) <= 1

(* One predecessor reference out of the window, no row with two            *)
(* successors, one head, and every row reached from it.                    *)
linksHold(rows, prev) ==
  LET children(e) == {d \in rows : prev[d] = e}
      external    == {e \in rows : prev[e] # GENESIS /\ prev[e] \notin rows}
      heads       == {e \in rows : children(e) = {}}
  IN /\ \A e \in rows : Cardinality(children(e)) <= 1
     /\ Cardinality(external) <= 1
     /\ rows # {} => /\ Cardinality(heads) = 1
                     /\ \A h \in heads : visited(rows, prev, h) = rows

verifyAuditIntegrity(rows) ==
  /\ \A e \in rows : rowHolds(e)
  /\ linksHold(rows, globalPrev(rows))
  /\ \A s \in {StreamOf[e] : e \in rows} :
       LET ofStream == {e \in rows : StreamOf[e] = s}
       IN linksHold(ofStream, streamPrev(ofStream))

-----------------------------------------------------------------------------
Contiguous(rows) ==
  \E i, j \in 0..Len(chain) : rows = {chain[k] : k \in (i + 1)..j}

(* Whatever rows are removed from the history, the check says ok exactly   *)
(* when the rest is an unbroken stretch of the chain, crashes and failing  *)
(* sinks included.                                                         *)
DetectsRemoval ==
  \A rows \in SUBSET history :
    Reported /\ (\A e \in rows : StreamOf[e] # "global") =>
      (verifyAuditIntegrity(rows) <=> Contiguous(rows))

(* Without a crash, and while no two entries share a millisecond, every    *)
(* window of an untouched history passes.                                  *)
UntouchedWindowPasses ==
  ( /\ Reported /\ crashes = 0
    /\ \A d, e \in history : d # e => entry[d].ts # entry[e].ts
    /\ \A e \in history : StreamOf[e] # "global" )
  => \A limit \in 1..Cardinality(Calls) :
       /\ verifyAuditIntegrity(window(limit))
       /\ history # {} => chain[Cardinality(history)] \in window(limit)
=============================================================================
