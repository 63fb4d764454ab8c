------------------------------ MODULE AuditLog ------------------------------
(***************************************************************************)
(* SchoolStore.appendAuditLog and persistImmutableAuditEntry: the hash     *)
(* chain over all API logs of the Durable Object, with its copies in the   *)
(* immutable sinks.                                                        *)
(*                                                                         *)
(* A call joins the promise chain auditLock and runs when the calls before *)
(* it have settled. Every await of the task is a step of its own, so calls *)
(* can interleave there and the object can be evicted or crash there; what *)
(* is in storage and in the sinks survives, the promises do not.           *)
(*                                                                         *)
(* SHA-256 is taken to be free of collisions and a call hashes its entry   *)
(* once, so the call stands for the entry and for its entry_hash.          *)
(***************************************************************************)
EXTENDS Integers, Sequences, FiniteSets

CONSTANTS
  Calls,         (* invocations of appendAuditLog, each with its own content  *)
  Streams,       (* event ids; the id "global" shares the global chain's key  *)
  StreamOf,      (* the eventId argument of each call                         *)
  Environments,  (* deployments: immutable mode and bound sinks               *)
  MaxTime,       (* bound: last instant of the clock                          *)
  MaxCrashes,    (* bound: crashes of the object                              *)
  GENESIS,       (* prev_hash of the first entry of a chain                   *)
  None           (* no entry computed yet                                     *)

ASSUME StreamsAssumption ==
  /\ StreamOf \in [Calls -> Streams] /\ "global" \in Streams
  /\ GENESIS \notin Calls
  /\ \A e \in Environments : e.bound \subseteq {"r2_entry", "r2_stream", "kv", "ingest"}
  /\ MaxTime \in Nat /\ MaxCrashes \in Nat

VARIABLES
  env,        (* the deployment: [mode, bound]                               *)
  clock,      (* Date.now()                                                  *)
  lastHash,   (* storage: audit:lastHash:<stream>, the global one included   *)
  history,    (* storage: audit_history:<ts>:<hash>                          *)
  byHash,     (* storage: the entry-by-hash index                            *)
  sinks,      (* external: the entries each sink holds                       *)
  auditLock,  (* calls chained on the lock that have not settled             *)
  step,       (* where each call is                                          *)
  entry,      (* the entry each call has computed: ts and the two prev hashes *)
  acked,      (* sinks recorded in the call's immutable receipt              *)
  blocked,    (* blockingErrors is not empty                                 *)
  chain,      (* history variable: the hashes put as global head, in order   *)
  crashes

vars == <<env, clock, lastHash, history, byHash, sinks, auditLock, step, entry, acked,
          blocked, chain, crashes>>

Sinks == {"r2_entry", "r2_stream", "kv", "ingest"}
Primary == {"r2_entry", "ingest"}

Settled == {"done", "failed", "lost"}
Persisting == Sinks \union {"verdict", "put_global"}
Committing == {"put_stream", "put_history", "put_by_hash"}
Running == Persisting \union Committing
Steps == {"new", "queued"} \union Running \union Settled

Hash == Calls \union {GENESIS}
Entry == [ts : Nat, prev_hash : Hash, stream_prev_hash : Hash]

ASSUME NoneAssumption == None \notin Entry

Init ==
  /\ env \in Environments
  /\ clock = 0
  /\ lastHash = [s \in Streams |-> GENESIS]
  /\ history = {} /\ byHash = {}
  /\ sinks = [s \in Sinks |-> {}]
  /\ auditLock = <<>>
  /\ step = [c \in Calls |-> "new"]
  /\ entry = [c \in Calls |-> None]
  /\ acked = [c \in Calls |-> {}]
  /\ blocked = [c \in Calls |-> FALSE]
  /\ chain = <<>>
  /\ crashes = 0

stored == <<lastHash, history, byHash>>

-----------------------------------------------------------------------------
(* The call chains its task on the lock and replaces the lock by it.       *)
appendAuditLog(c) ==
  /\ step[c] = "new"
  /\ step' = [step EXCEPT ![c] = "queued"]
  /\ auditLock' = Append(auditLock, c)
  /\ UNCHANGED <<env, clock, stored, sinks, entry, acked, blocked, chain, crashes>>

(* Mutant: a call does not wait for the one before it.                     *)
AnyTurn(c) == TRUE

MyTurn(c) == auditLock # <<>> /\ auditLock[1] = c

(* Mutant: task.then(() => {}), so that a failed task keeps the lock.      *)
ReleaseOnSuccess(c, outcome) ==
  /\ step' = [step EXCEPT ![c] = outcome]
  /\ auditLock' = IF outcome = "done" THEN Tail(auditLock) ELSE auditLock
  /\ acked' = [acked EXCEPT ![c] = {}]
  /\ blocked' = [blocked EXCEPT ![c] = FALSE]

(* task.then(() => {}, () => {}): the lock passes on whatever the outcome. *)
settle(c, outcome) ==
  /\ step' = [step EXCEPT ![c] = outcome]
  /\ auditLock' = Tail(auditLock)
  /\ acked' = [acked EXCEPT ![c] = {}]
  /\ blocked' = [blocked EXCEPT ![c] = FALSE]

(* The task goes on to its next await.                                     *)
goto(c, next) ==
  /\ step' = [step EXCEPT ![c] = next]
  /\ UNCHANGED auditLock

(* Where persistImmutableAuditEntry goes before it writes to any sink.     *)
persistStart ==
  IF env.mode = "off" THEN "put_global"
  ELSE IF env.bound \intersect Primary # {} THEN "r2_entry"
  ELSE IF env.mode = "required" THEN "failed" ELSE "put_global"

ComputeEntry(c) ==
  /\ step[c] = "queued" /\ MyTurn(c)
  /\ entry' = [entry EXCEPT ![c] = [ts |-> clock, prev_hash |-> lastHash["global"],
                                    stream_prev_hash |-> lastHash[StreamOf[c]]]]
  /\ IF persistStart = "failed"
       THEN settle(c, "failed")
       ELSE goto(c, persistStart) /\ UNCHANGED <<acked, blocked>>
  /\ UNCHANGED <<env, clock, stored, sinks, chain, crashes>>

AfterSink == [r2_entry |-> "r2_stream", r2_stream |-> "kv", kv |-> "ingest",
              ingest |-> "verdict"]

(* The receipt names both R2 copies once the second one is written.        *)
AckedBy(s) == IF s = "r2_entry" THEN {} ELSE IF s = "r2_stream" THEN {"r2_entry", s} ELSE {s}

(* Mutant: a failing R2 write is a warning only, like a failing KV write.  *)
R2NotBlocking(s) == s = "ingest"

blocks(s) == s # "kv"

(* One sink write. It can be stored although the caller sees an error.     *)
writeSink(c) ==
  LET s == step[c] IN
  /\ s \in env.bound
  /\ \E written, ok \in BOOLEAN :
       /\ ok => written
       /\ sinks' = [sinks EXCEPT ![s] = @ \union (IF written THEN {c} ELSE {})]
       /\ acked' = [acked EXCEPT ![c] = @ \union (IF ok THEN AckedBy(s) ELSE {})]
       /\ blocked' = [blocked EXCEPT ![c] = @ \/ (~ok /\ blocks(s))]
       /\ goto(c, IF s = "r2_entry" /\ ~ok THEN "kv" ELSE AfterSink[s])
  /\ UNCHANGED <<env, clock, stored, entry, chain, crashes>>

skipSink(c) ==
  /\ step[c] \in Sinks \ env.bound
  /\ goto(c, AfterSink[step[c]])
  /\ UNCHANGED <<env, clock, stored, sinks, entry, acked, blocked, chain, crashes>>

(* Required mode throws on any blocking error, the others go on.           *)
verdict(c) ==
  /\ step[c] = "verdict"
  /\ IF env.mode = "required" /\ (blocked[c] \/ acked[c] \intersect Primary = {})
       THEN settle(c, "failed")
       ELSE goto(c, "put_global") /\ UNCHANGED <<acked, blocked>>
  /\ UNCHANGED <<env, clock, stored, sinks, entry, chain, crashes>>

(* Mutant: the history is written before the heads.                        *)
HistoryFirst(c) ==
  /\ step[c] = "put_global"
  /\ history' = history \union {c}
  /\ goto(c, "put_stream")
  /\ UNCHANGED <<env, clock, lastHash, byHash, sinks, entry, acked, blocked,
                 chain, crashes>>

putGlobalHead(c) ==
  /\ step[c] = "put_global"
  /\ lastHash' = [lastHash EXCEPT !["global"] = c]
  /\ chain' = Append(chain, c)
  /\ goto(c, "put_stream")
  /\ UNCHANGED <<env, clock, history, byHash, sinks, entry, acked, blocked, crashes>>

(* Mutant: the stream head is not written.                                 *)
SkipStreamHead(c) ==
  /\ step[c] = "put_stream"
  /\ goto(c, "put_history")
  /\ UNCHANGED <<env, clock, stored, sinks, entry, acked, blocked, chain, crashes>>

putStreamHead(c) ==
  /\ step[c] = "put_stream"
  /\ lastHash' = [lastHash EXCEPT ![StreamOf[c]] = c]
  /\ goto(c, "put_history")
  /\ UNCHANGED <<env, clock, history, byHash, sinks, entry, acked, blocked, chain,
                 crashes>>

putHistory(c) ==
  /\ step[c] = "put_history"
  /\ history' = history \union {c}
  /\ goto(c, "put_by_hash")
  /\ UNCHANGED <<env, clock, lastHash, byHash, sinks, entry, acked, blocked, chain,
                 crashes>>

putByHash(c) ==
  /\ step[c] = "put_by_hash"
  /\ byHash' = byHash \union {c}
  /\ settle(c, "done")
  /\ UNCHANGED <<env, clock, lastHash, history, sinks, entry, chain, crashes>>

(* The object is evicted or fails: pending promises are gone.              *)
Crash ==
  LET lost == {c \in Calls : step[c] \in {"queued"} \union Running} IN
  /\ crashes < MaxCrashes
  /\ crashes' = crashes + 1
  /\ auditLock' = <<>>
  /\ step' = [c \in Calls |-> IF c \in lost THEN "lost" ELSE step[c]]
  /\ acked' = [c \in Calls |-> {}]
  /\ blocked' = [c \in Calls |-> FALSE]
  /\ UNCHANGED <<env, clock, stored, sinks, entry, chain>>

Tick ==
  /\ clock < MaxTime
  /\ clock' = clock + 1
  /\ UNCHANGED <<env, stored, sinks, auditLock, step, entry, acked, blocked, chain, crashes>>

-----------------------------------------------------------------------------
Work(c) ==
  \/ ComputeEntry(c) \/ writeSink(c) \/ skipSink(c) \/ verdict(c)
  \/ putGlobalHead(c) \/ putStreamHead(c) \/ putHistory(c) \/ putByHash(c)

Next ==
  \/ \E c \in Calls : appendAuditLog(c) \/ Work(c)
  \/ Crash
  \/ Tick

(* Storage and R2/KV answer, and the webhook is aborted after its timeout, *)
(* so a running task goes on. Callers, crashes and the clock are free.     *)
Fairness == \A c \in Calls : WF_vars(Work(c))

Spec == Init /\ [][Next]_vars

FairSpec == Spec /\ Fairness

-----------------------------------------------------------------------------
(* Properties.                                                             *)

(* The queue holds each unsettled call once, and only the call at its head *)
(* is past the lock.                                                       *)
LockOrder ==
  /\ \A i, j \in DOMAIN auditLock : auditLock[i] = auditLock[j] => i = j
  /\ \A i \in DOMAIN auditLock : step[auditLock[i]] \in {"queued"} \union Running
  /\ \A c \in Calls : step[c] \in Running => MyTurn(c) /\ entry[c] # None

(* Types of the storage, the sinks and the tasks, and the discipline of    *)
(* the promise chain: a failing task neither stays in the queue nor lets   *)
(* two tasks past the lock.                                                *)
TypeOK ==
  /\ env \in Environments
  /\ lastHash \in [Streams -> Hash]
  /\ history \subseteq Calls /\ byHash \subseteq Calls
  /\ sinks \in [Sinks -> SUBSET Calls]
  /\ step \in [Calls -> Steps]
  /\ entry \in [Calls -> Entry \union {None}]
  /\ clock \in Nat
  /\ auditLock \in Seq(Calls)
  /\ LockOrder

(* No two entries of the history name the same predecessor in the global   *)
(* chain, whatever the interleaving of requests and wherever the object    *)
(* crashed: a writer never builds on a stale head.                         *)
NoFork ==
  \A d, e \in history : entry[d].prev_hash = entry[e].prev_hash => d = e

(* The same for the chain of every event stream.                           *)
NoStreamFork ==
  \A d, e \in history :
    /\ StreamOf[d] = StreamOf[e]
    /\ entry[d].stream_prev_hash = entry[e].stream_prev_hash
    => d = e

(* Required mode: an entry is in the history only when every configured    *)
(* immutable sink holds it.                                                *)
ImmutableFirst ==
  env.mode = "required" =>
    /\ env.bound \intersect Primary # {} \/ history = {}
    /\ \A e \in history : \A s \in env.bound \ {"kv"} : e \in sinks[s]

(* A crash costs at most one link: of the entries that became a head, no   *)
(* more are missing from the history than there were crashes, apart from   *)
(* the one being written.                                                  *)
GapsBoundedByCrashes ==
  LET missing == {i \in DOMAIN chain :
                    /\ chain[i] \notin history
                    /\ step[chain[i]] \notin Committing}
  IN Cardinality(missing) <= crashes

(* A call waiting for the lock settles: neither a failing sink nor a       *)
(* failing predecessor leaves it waiting for ever.                         *)
CallsSettle == \A c \in Calls : step[c] = "queued" ~> step[c] \in Settled

(* The audit log implements the append-only log.                           *)
Abstract == INSTANCE AppendOnlyLog
              WITH log <- chain, visible <- history

ImplementsAppendOnlyLog == Abstract!Spec
=============================================================================
