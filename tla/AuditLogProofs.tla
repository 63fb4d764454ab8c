--------------------------- MODULE AuditLogProofs ---------------------------
(***************************************************************************)
(* Proofs about AuditLog for any number of calls, streams, crashes and any *)
(* deployment: the chain never forks, required mode never records an entry *)
(* its sinks do not hold, the log implements AppendOnlyLog, and the report *)
(* of AuditIntegrity tells a broken history from an unbroken one.          *)
(***************************************************************************)
EXTENDS AuditIntegrity, FiniteSetTheorems, WellFoundedInduction, TLAPS

LEMMA TailFacts ==
  ASSUME NEW S, NEW q \in Seq(S), q # <<>>
  PROVE  /\ Tail(q) \in Seq(S) /\ Len(Tail(q)) = Len(q) - 1 /\ Len(q) \in Nat \ {0}
         /\ \A i \in 1..Len(q) - 1 : Tail(q)[i] = q[i + 1]
OBVIOUS

LEMMA AppendFacts ==
  ASSUME NEW S, NEW q \in Seq(S), NEW x \in S
  PROVE  /\ Append(q, x) \in Seq(S) /\ Len(Append(q, x)) = Len(q) + 1 /\ Len(q) \in Nat
         /\ \A i \in 1..Len(q) : Append(q, x)[i] = q[i]
         /\ Append(q, x)[Len(q) + 1] = x
OBVIOUS

-----------------------------------------------------------------------------
(* The lock.                                                               *)

LEMMA InitType == Init => TypeOK
BY StreamsAssumption DEF Init, TypeOK, LockOrder, Steps, Hash, Running, Persisting,
   Committing, Settled, Sinks

(* A task at the head of the queue goes on and keeps its place.            *)
LEMMA GotoKeepsLock ==
  ASSUME TypeOK, NEW c \in Calls, NEW next \in Running,
         step[c] \in {"queued"} \union Running, MyTurn(c), goto(c, next),
         \A d \in Calls : entry'[d] # None <=> (d = c \/ entry[d] # None)
  PROVE  step' \in [Calls -> Steps] /\ auditLock' \in Seq(Calls) /\ LockOrder'
<1>1. step' \in [Calls -> Steps] /\ auditLock' = auditLock
  BY DEF TypeOK, goto, Steps
<1>2. step'[c] = next /\ \A d \in Calls : d # c => step'[d] = step[d]
  BY DEF TypeOK, goto
<1>3. \A i \in DOMAIN auditLock : auditLock[i] \in Calls
  BY DEF TypeOK
<1>4. \A i \in DOMAIN auditLock' : step'[auditLock'[i]] \in {"queued"} \union Running
  BY <1>1, <1>2, <1>3 DEF TypeOK, LockOrder
<1>5. ASSUME NEW d \in Calls, step'[d] \in Running
      PROVE  MyTurn(d)' /\ entry'[d] # None
  <2>1. CASE d = c
    BY <1>1, <2>1 DEF MyTurn
  <2>2. CASE d # c
    BY <1>1, <1>2, <1>5, <2>2 DEF TypeOK, LockOrder, MyTurn
  <2> QED
    BY <2>1, <2>2
<1> QED
  BY <1>1, <1>4, <1>5 DEF TypeOK, LockOrder

(* A task at the head of the queue settles: nobody else was past the lock. *)
LEMMA SettleKeepsLock ==
  ASSUME TypeOK, NEW c \in Calls, NEW outcome \in Settled, MyTurn(c), settle(c, outcome)
  PROVE  step' \in [Calls -> Steps] /\ auditLock' \in Seq(Calls) /\ LockOrder'
<1> USE DEF TypeOK, LockOrder
<1>1. step' \in [Calls -> Steps] /\ auditLock' = Tail(auditLock) /\ auditLock # <<>>
  BY DEF settle, Steps, MyTurn
<1>2. step'[c] = outcome /\ \A d \in Calls : d # c => step'[d] = step[d]
  BY DEF settle
<1>3. /\ auditLock' \in Seq(Calls) /\ Len(auditLock') = Len(auditLock) - 1
      /\ Len(auditLock) \in Nat \ {0}
      /\ \A i \in 1..Len(auditLock) - 1 : auditLock'[i] = auditLock[i + 1]
  BY <1>1, TailFacts
<1>4. DOMAIN auditLock = 1..Len(auditLock) /\ DOMAIN auditLock' = 1..(Len(auditLock) - 1)
  BY <1>3
<1>5. \A i \in DOMAIN auditLock' :
        /\ i + 1 \in DOMAIN auditLock /\ auditLock'[i] = auditLock[i + 1]
        /\ auditLock'[i] \in Calls /\ auditLock'[i] # c
  <2> SUFFICES ASSUME NEW i \in DOMAIN auditLock'
               PROVE  /\ i + 1 \in DOMAIN auditLock /\ auditLock'[i] = auditLock[i + 1]
                      /\ auditLock'[i] \in Calls /\ auditLock'[i] # c
    OBVIOUS
  <2>1. i + 1 \in DOMAIN auditLock /\ 1 \in DOMAIN auditLock /\ i + 1 # 1
    BY <1>3, <1>4
  <2>2. auditLock'[i] = auditLock[i + 1]
    BY <1>3, <1>4
  <2> QED
    BY <2>1, <2>2 DEF MyTurn
<1>6. ASSUME NEW i \in DOMAIN auditLock'
      PROVE  step'[auditLock'[i]] \in {"queued"} \union Running
  <2>1. step'[auditLock'[i]] = step[auditLock[i + 1]]
    BY <1>2, <1>5
  <2> QED
    BY <1>5, <2>1
<1>7. ASSUME NEW i \in DOMAIN auditLock', NEW j \in DOMAIN auditLock',
             auditLock'[i] = auditLock'[j]
      PROVE  i = j
  <2>1. i + 1 = j + 1
    BY <1>5, <1>7
  <2> QED
    BY <1>4, <2>1
<1>8. \A d \in Calls : step'[d] \notin Running
  <2> SUFFICES ASSUME NEW d \in Calls, step'[d] \in Running PROVE FALSE
    OBVIOUS
  <2>1. d # c
    BY <1>2 DEF Settled, Running, Persisting, Committing, Sinks
  <2>2. MyTurn(d)
    BY <1>2, <2>1
  <2> QED
    BY <2>1, <2>2 DEF MyTurn
<1> QED
  BY <1>1, <1>3, <1>6, <1>7, <1>8

(* A new call joins at the end of the queue.                               *)
LEMMA JoinKeepsLock ==
  ASSUME TypeOK, NEW c \in Calls, appendAuditLog(c)
  PROVE  step' \in [Calls -> Steps] /\ auditLock' \in Seq(Calls) /\ LockOrder'
<1> USE DEF TypeOK, LockOrder
<1>1. /\ auditLock' = Append(auditLock, c) /\ entry' = entry /\ step[c] = "new"
      /\ step' \in [Calls -> Steps]
  BY DEF appendAuditLog, Steps
<1>2. step'[c] = "queued" /\ \A d \in Calls : d # c => step'[d] = step[d]
  BY DEF appendAuditLog
<1>3. /\ auditLock' \in Seq(Calls) /\ Len(auditLock') = Len(auditLock) + 1
      /\ Len(auditLock) \in Nat /\ auditLock'[Len(auditLock) + 1] = c
      /\ \A i \in 1..Len(auditLock) : auditLock'[i] = auditLock[i]
  BY <1>1, AppendFacts
<1>4. DOMAIN auditLock = 1..Len(auditLock) /\ DOMAIN auditLock' = 1..(Len(auditLock) + 1)
  BY <1>3
<1>5. \A i \in DOMAIN auditLock : auditLock[i] \in Calls /\ auditLock[i] # c
  BY <1>1 DEF Running, Persisting, Committing, Sinks
<1>6. ASSUME NEW i \in DOMAIN auditLock'
      PROVE  step'[auditLock'[i]] \in {"queued"} \union Running
  <2>1. CASE i = Len(auditLock) + 1
    BY <1>2, <1>3, <2>1
  <2>2. CASE i # Len(auditLock) + 1
    <3>1. i \in DOMAIN auditLock /\ auditLock'[i] = auditLock[i]
      BY <1>3, <1>4, <2>2
    <3> QED
      BY <1>2, <1>5, <3>1
  <2> QED
    BY <2>1, <2>2
<1>7. ASSUME NEW i \in DOMAIN auditLock', NEW j \in DOMAIN auditLock',
             auditLock'[i] = auditLock'[j]
      PROVE  i = j
  <2>1. \A k \in DOMAIN auditLock' :
          \/ k = Len(auditLock) + 1 /\ auditLock'[k] = c
          \/ k \in DOMAIN auditLock /\ auditLock'[k] = auditLock[k] /\ auditLock[k] # c
    BY <1>3, <1>4, <1>5
  <2> QED
    BY <1>7, <2>1
<1>8. ASSUME NEW d \in Calls, step'[d] \in Running
      PROVE  MyTurn(d)' /\ entry'[d] # None
  <2>1. d # c
    BY <1>2, <1>8 DEF Running, Persisting, Committing, Sinks
  <2>2. MyTurn(d) /\ entry[d] # None
    BY <1>2, <1>8, <2>1
  <2>3. 1 \in 1..Len(auditLock)
    BY <1>3, <2>2 DEF MyTurn
  <2>4. auditLock'[1] = auditLock[1] /\ auditLock' # <<>>
    BY <1>3, <2>3
  <2> QED
    BY <1>1, <2>2, <2>4 DEF MyTurn
<1> QED
  BY <1>1, <1>3, <1>6, <1>7, <1>8

(* After a crash nobody is in the queue and nobody runs.                   *)
LEMMA CrashKeepsLock ==
  ASSUME TypeOK, Crash
  PROVE  step' \in [Calls -> Steps] /\ auditLock' \in Seq(Calls) /\ LockOrder'
<1>1. auditLock' = <<>>
  BY DEF Crash
<1>2. \A c \in Calls : step'[c] = IF step[c] \in {"queued"} \union Running THEN "lost" ELSE step[c]
  BY DEF Crash
<1>3. step' \in [Calls -> Steps]
  BY DEF TypeOK, Crash, Steps, Settled
<1>4. \A c \in Calls : step'[c] \notin Running
  BY <1>2 DEF Running, Persisting, Committing, Sinks
<1> QED
  BY <1>1, <1>3, <1>4 DEF LockOrder

(* A running task is at the head of the queue.                             *)
LEMMA RunningHasTurn ==
  ASSUME TypeOK, NEW c \in Calls, step[c] \in Running
  PROVE  MyTurn(c) /\ entry[c] # None
BY DEF TypeOK, LockOrder

(* The sinks a task can be at, and where it goes from there.               *)
LEMMA SinkStep ==
  ASSUME TypeOK, NEW c \in Calls, step[c] \in Sinks
  PROVE  AfterSink[step[c]] \in Running /\ step[c] \in Running /\ "kv" \in Running
BY DEF AfterSink, Running, Persisting, Sinks

LEMMA NextType == TypeOK /\ [Next]_vars => TypeOK'
<1> SUFFICES ASSUME TypeOK, [Next]_vars PROVE TypeOK'
  OBVIOUS
<1>1. ASSUME NEW c \in Calls, appendAuditLog(c) PROVE TypeOK'
  BY <1>1, JoinKeepsLock DEF TypeOK, appendAuditLog, stored
<1>2. ASSUME NEW c \in Calls, ComputeEntry(c) PROVE TypeOK'
  <2> DEFINE new == [ts |-> clock, prev_hash |-> lastHash["global"],
                     stream_prev_hash |-> lastHash[StreamOf[c]]]
  <2>1. new \in Entry
    BY StreamsAssumption DEF TypeOK, Entry
  <2>2. entry' = [entry EXCEPT ![c] = new]
    BY <1>2 DEF ComputeEntry
  <2> HIDE DEF new
  <2>3. entry' \in [Calls -> Entry \union {None}]
    BY <2>1, <2>2 DEF TypeOK
  <2>4. \A d \in Calls : entry'[d] # None <=> (d = c \/ entry[d] # None)
    BY <2>1, <2>2, NoneAssumption DEF TypeOK
  <2>5. step[c] = "queued" /\ MyTurn(c)
    BY <1>2 DEF ComputeEntry
  <2>6. step' \in [Calls -> Steps] /\ auditLock' \in Seq(Calls) /\ LockOrder'
    <3>1. CASE persistStart = "failed"
      BY <1>2, <2>5, <3>1, SettleKeepsLock DEF ComputeEntry, Settled
    <3>2. CASE persistStart # "failed"
      <4>1. persistStart \in Running
        BY <3>2 DEF persistStart, Running, Persisting, Sinks
      <4>2. goto(c, persistStart)
        BY <1>2, <3>2 DEF ComputeEntry
      <4> HIDE DEF persistStart
      <4> QED
        BY <2>4, <2>5, <4>1, <4>2, GotoKeepsLock
    <3> QED
      BY <3>1, <3>2
  <2> QED
    BY <1>2, <2>3, <2>6 DEF TypeOK, ComputeEntry, stored
<1>3. ASSUME NEW c \in Calls, writeSink(c) PROVE TypeOK'
  <2>1. step[c] \in Sinks
    BY <1>3, StreamsAssumption DEF TypeOK, writeSink, Sinks
  <2>2. PICK written \in BOOLEAN, ok \in BOOLEAN :
          /\ sinks' = [sinks EXCEPT ![step[c]] = @ \union (IF written THEN {c} ELSE {})]
          /\ goto(c, IF step[c] = "r2_entry" /\ ~ok THEN "kv" ELSE AfterSink[step[c]])
    BY <1>3 DEF writeSink
  <2>3. sinks' \in [Sinks -> SUBSET Calls]
    BY <2>1, <2>2 DEF TypeOK
  <2>4. step' \in [Calls -> Steps] /\ auditLock' \in Seq(Calls) /\ LockOrder'
    <3>1. /\ MyTurn(c) /\ entry[c] # None /\ step[c] \in Running
          /\ \E next \in Running : goto(c, next)
      BY <2>1, <2>2, SinkStep, RunningHasTurn
    <3>2. \A d \in Calls : entry'[d] # None <=> (d = c \/ entry[d] # None)
      BY <1>3, <3>1 DEF writeSink
    <3> QED
      BY <3>1, <3>2, GotoKeepsLock
  <2> QED
    BY <1>3, <2>3, <2>4 DEF TypeOK, writeSink, stored
<1>4. ASSUME NEW c \in Calls, skipSink(c) PROVE TypeOK'
  <2>1. MyTurn(c) /\ entry[c] # None /\ step[c] \in Running /\ AfterSink[step[c]] \in Running
    BY <1>4, SinkStep, RunningHasTurn DEF skipSink
  <2>2. goto(c, AfterSink[step[c]]) /\ entry' = entry
    BY <1>4 DEF skipSink
  <2>3. step' \in [Calls -> Steps] /\ auditLock' \in Seq(Calls) /\ LockOrder'
    BY <2>1, <2>2, GotoKeepsLock
  <2> QED
    BY <1>4, <2>3 DEF TypeOK, skipSink, stored
<1>5. ASSUME NEW c \in Calls, verdict(c) PROVE TypeOK'
  <2>1. MyTurn(c) /\ entry[c] # None /\ step[c] \in Running
    BY <1>5, RunningHasTurn DEF verdict, Running, Persisting
  <2>2. "put_global" \in Running /\ "failed" \in Settled /\ entry' = entry
    BY <1>5 DEF verdict, Running, Persisting, Settled
  <2>3. settle(c, "failed") \/ goto(c, "put_global")
    BY <1>5 DEF verdict
  <2>4. step' \in [Calls -> Steps] /\ auditLock' \in Seq(Calls) /\ LockOrder'
    BY <2>1, <2>2, <2>3, GotoKeepsLock, SettleKeepsLock
  <2> QED
    BY <1>5, <2>4 DEF TypeOK, verdict, stored
<1>6. ASSUME NEW c \in Calls, putGlobalHead(c) \/ putStreamHead(c) \/ putHistory(c)
      PROVE  TypeOK'
  <2>1. MyTurn(c) /\ entry[c] # None /\ step[c] \in Running /\ entry' = entry
    BY <1>6, RunningHasTurn
       DEF putGlobalHead, putStreamHead, putHistory, Running, Persisting, Committing
  <2>2. \E next \in Running : goto(c, next)
    BY <1>6 DEF putGlobalHead, putStreamHead, putHistory, Running, Committing
  <2>3. step' \in [Calls -> Steps] /\ auditLock' \in Seq(Calls) /\ LockOrder'
    BY <2>1, <2>2, GotoKeepsLock
  <2>4. lastHash' \in [Streams -> Hash] /\ history' \subseteq Calls
    BY <1>6, StreamsAssumption
       DEF TypeOK, putGlobalHead, putStreamHead, putHistory, Hash
  <2> QED
    BY <1>6, <2>1, <2>3, <2>4 DEF TypeOK, putGlobalHead, putStreamHead, putHistory
<1>7. ASSUME NEW c \in Calls, putByHash(c) PROVE TypeOK'
  <2>1. MyTurn(c)
    BY <1>7, RunningHasTurn DEF putByHash, Running, Committing
  <2>2. step' \in [Calls -> Steps] /\ auditLock' \in Seq(Calls) /\ LockOrder'
    BY <1>7, <2>1, SettleKeepsLock DEF putByHash, Settled
  <2> QED
    BY <1>7, <2>2 DEF TypeOK, putByHash
<1>8. CASE Crash
  BY <1>8, CrashKeepsLock DEF TypeOK, Crash, stored
<1>9. CASE Tick
  BY <1>9 DEF TypeOK, LockOrder, MyTurn, Tick, stored
<1>10. CASE UNCHANGED vars
  BY <1>10 DEF TypeOK, LockOrder, MyTurn, vars
<1> QED
  BY <1>1, <1>2, <1>3, <1>4, <1>5, <1>6, <1>7, <1>8, <1>9, <1>10 DEF Next, Work

-----------------------------------------------------------------------------
(* The chain. What every step keeps about the hashes put as global head.   *)

HeadOf(s) == IF s = <<>> THEN GENESIS ELSE s[Len(s)]

(* The stored head is the last hash put.                                   *)
HeadStored == lastHash["global"] = HeadOf(chain)

(* Each entry that became the head names the head before it.               *)
Linked ==
  /\ chain \in Seq(Calls)
  /\ \A i, j \in DOMAIN chain : chain[i] = chain[j] => i = j
  /\ \A i \in DOMAIN chain :
       /\ step[chain[i]] \in Committing \union {"done", "lost"}
       /\ entry[chain[i]].prev_hash = IF i = 1 THEN GENESIS ELSE chain[i - 1]

(* A task that has not put its head yet was computed on the present head;  *)
(* one that has put it, and is still writing, is the present head.         *)
TaskOnHead ==
  \A c \in Calls :
    /\ step[c] \in Persisting => entry[c].prev_hash = HeadOf(chain)
    /\ step[c] \in Committing => chain # <<>> /\ c = HeadOf(chain)

HistoryInChain == \A c \in history : \E i \in DOMAIN chain : chain[i] = c

ChainInv == HeadStored /\ Linked /\ TaskOnHead /\ HistoryInChain

LEMMA InitChain == Init => ChainInv
BY StreamsAssumption
   DEF Init, ChainInv, HeadStored, HeadOf, Linked, TaskOnHead, HistoryInChain, Persisting,
       Committing, Sinks

(* Steps that leave the chain, the heads and the history alone, and move   *)
(* tasks within the same phase or out of the running ones.                 *)
QuietMove(from, to) ==
  \/ to = from
  \/ to \in Persisting /\ from \in Persisting
  \/ to \in {"queued", "failed", "lost"} /\ from \notin {"done", "lost"} \union Committing
  \/ to \in {"lost", "done"} /\ from \in Committing

QuietStep ==
  /\ UNCHANGED <<chain, lastHash, history>>
  /\ \A c \in Calls : QuietMove(step[c], step'[c])
  /\ \A c \in Calls : entry'[c] = entry[c] \/ (step[c] = "queued" /\ step'[c] = "failed")

LEMMA QuietKeepsChain ==
  ASSUME TypeOK, ChainInv, QuietStep
  PROVE  ChainInv'
<1> USE DEF ChainInv
<1>1. chain' = chain /\ lastHash' = lastHash /\ history' = history
  BY DEF QuietStep
<1>2. HeadStored' /\ HistoryInChain'
  BY <1>1 DEF HeadStored, HeadOf, HistoryInChain
<1>3. ASSUME NEW i \in DOMAIN chain
      PROVE  /\ step'[chain[i]] \in Committing \union {"done", "lost"}
             /\ entry'[chain[i]] = entry[chain[i]]
  <2>1. chain[i] \in Calls /\ step[chain[i]] \in Committing \union {"done", "lost"}
    BY DEF Linked
  <2>2. /\ QuietMove(step[chain[i]], step'[chain[i]])
        /\ \/ entry'[chain[i]] = entry[chain[i]]
           \/ step[chain[i]] = "queued"
    BY <2>1 DEF QuietStep
  <2> QED
    BY <2>1, <2>2 DEF QuietMove, Committing, Persisting, Sinks
<1>4. Linked'
  BY <1>1, <1>3 DEF Linked
<1>5. ASSUME NEW c \in Calls
      PROVE  /\ step'[c] \in Persisting => entry'[c].prev_hash = HeadOf(chain)
             /\ step'[c] \in Committing => chain # <<>> /\ c = HeadOf(chain)
  <2>1. step'[c] \in Persisting => step[c] \in Persisting /\ entry'[c] = entry[c]
    BY DEF QuietStep, QuietMove, Committing, Persisting, Sinks
  <2>2. step'[c] \in Committing => step[c] \in Committing
    BY DEF QuietStep, QuietMove, Committing, Persisting, Sinks
  <2> QED
    BY <2>1, <2>2 DEF TaskOnHead
<1>6. TaskOnHead'
  BY <1>1, <1>5 DEF TaskOnHead, HeadOf
<1> QED
  BY <1>2, <1>4, <1>6

(* The other steps of one task: compute, put the head, put the history.    *)
LEMMA ComputeKeepsChain ==
  ASSUME TypeOK, ChainInv, NEW c \in Calls, ComputeEntry(c), persistStart # "failed"
  PROVE  ChainInv'
<1> USE DEF ChainInv
<1> DEFINE new == [ts |-> clock, prev_hash |-> lastHash["global"],
                   stream_prev_hash |-> lastHash[StreamOf[c]]]
<1>1. /\ chain' = chain /\ lastHash' = lastHash /\ history' = history
      /\ entry' = [entry EXCEPT ![c] = new] /\ step[c] = "queued"
      /\ step' = [step EXCEPT ![c] = persistStart]
  BY DEF ComputeEntry, goto, stored
<1>2. new.prev_hash = HeadOf(chain)
  BY DEF HeadStored
<1>3. persistStart \in Persisting /\ persistStart \notin Committing
  BY DEF persistStart, Persisting, Committing, Sinks
<1> HIDE DEF new, persistStart
<1>4. \A d \in Calls : d # c => step'[d] = step[d] /\ entry'[d] = entry[d]
  BY <1>1 DEF TypeOK
<1>5. step'[c] = persistStart /\ entry'[c] = new
  BY <1>1 DEF TypeOK
<1>6. HeadStored' /\ HistoryInChain'
  BY <1>1 DEF HeadStored, HeadOf, HistoryInChain
<1>7. \A i \in DOMAIN chain : chain[i] \in Calls /\ chain[i] # c
  BY <1>1 DEF Linked, Committing
<1>8. Linked'
  BY <1>1, <1>4, <1>7 DEF Linked
<1>9. TaskOnHead'
  BY <1>1, <1>2, <1>3, <1>4, <1>5 DEF TaskOnHead, HeadOf
<1> QED
  BY <1>6, <1>8, <1>9

(* A new head: the only running task was computed on the old one.          *)
LEMMA PutHeadKeepsChain ==
  ASSUME TypeOK, ChainInv, NEW c \in Calls, putGlobalHead(c)
  PROVE  ChainInv'
<1> USE DEF ChainInv
<1>1. /\ chain' = Append(chain, c) /\ lastHash' = [lastHash EXCEPT !["global"] = c]
      /\ history' = history /\ entry' = entry /\ step[c] = "put_global"
      /\ step' = [step EXCEPT ![c] = "put_stream"]
  BY DEF putGlobalHead, goto
<1>2. step'[c] = "put_stream" /\ \A d \in Calls : d # c => step'[d] = step[d]
  BY <1>1 DEF TypeOK
<1>3. /\ chain' \in Seq(Calls) /\ Len(chain') = Len(chain) + 1 /\ Len(chain) \in Nat
      /\ chain'[Len(chain) + 1] = c
      /\ \A i \in 1..Len(chain) : chain'[i] = chain[i]
  BY <1>1, AppendFacts DEF Linked
<1>4. /\ DOMAIN chain = 1..Len(chain) /\ DOMAIN chain' = 1..(Len(chain) + 1)
      /\ chain' # <<>>
  BY <1>3 DEF Linked
<1>5. HeadOf(chain)' = c
  BY <1>3, <1>4 DEF HeadOf
<1>6. HeadStored'
  BY <1>1, <1>5, StreamsAssumption DEF HeadStored, TypeOK
<1>7. \A i \in DOMAIN chain : chain[i] \in Calls /\ chain[i] # c
  BY <1>1 DEF Linked, Committing
<1>8. entry[c].prev_hash = HeadOf(chain)
  BY <1>1 DEF TaskOnHead, Persisting
<1>9. \A k \in DOMAIN chain' :
        \/ k = Len(chain) + 1 /\ chain'[k] = c
        \/ k \in DOMAIN chain /\ chain'[k] = chain[k] /\ chain[k] # c
  BY <1>3, <1>4, <1>7
<1>10. ASSUME NEW i \in DOMAIN chain'
       PROVE  /\ step'[chain'[i]] \in Committing \union {"done", "lost"}
              /\ entry'[chain'[i]].prev_hash = IF i = 1 THEN GENESIS ELSE chain'[i - 1]
  <2>1. CASE i = Len(chain) + 1
    <3>1. chain'[i] = c /\ step'[c] \in Committing
      BY <1>2, <1>3, <2>1 DEF Committing
    <3>2. entry'[c].prev_hash = IF i = 1 THEN GENESIS ELSE chain'[i - 1]
      <4>1. CASE chain = <<>>
        <5>1. i = 1
          BY <2>1, <4>1
        <5> QED
          BY <1>1, <1>8, <4>1, <5>1 DEF HeadOf
      <4>2. CASE chain # <<>>
        <5>1. Len(chain) # 0
          BY <4>2 DEF Linked
        <5>2. i # 1 /\ i - 1 = Len(chain) /\ i - 1 \in 1..Len(chain)
          BY <1>3, <2>1, <5>1
        <5>3. chain'[i - 1] = chain[Len(chain)]
          BY <1>3, <5>2
        <5> QED
          BY <1>1, <1>8, <4>2, <5>2, <5>3 DEF HeadOf
      <4> QED
        BY <4>1, <4>2
    <3> QED
      BY <3>1, <3>2
  <2>2. CASE i # Len(chain) + 1
    <3>1. i \in DOMAIN chain /\ chain'[i] = chain[i] /\ chain[i] # c /\ chain[i] \in Calls
      BY <1>7, <1>9, <2>2
    <3>2. step'[chain[i]] = step[chain[i]] /\ entry'[chain[i]] = entry[chain[i]]
      BY <1>1, <1>2, <3>1
    <3>3. i # 1 => chain'[i - 1] = chain[i - 1]
      BY <1>3, <1>4, <3>1
    <3> QED
      BY <3>1, <3>2, <3>3 DEF Linked
  <2> QED
    BY <2>1, <2>2
<1>11. Linked'
  <2>1. \A i, j \in DOMAIN chain' : chain'[i] = chain'[j] => i = j
    BY <1>9 DEF Linked
  <2> QED
    BY <1>3, <1>10, <2>1 DEF Linked
<1>12. \A d \in Calls : d # c => step'[d] \notin Running
  <2> SUFFICES ASSUME NEW d \in Calls, d # c, step'[d] \in Running PROVE FALSE
    OBVIOUS
  <2>1. MyTurn(d) /\ MyTurn(c)
    BY <1>1, <1>2, RunningHasTurn DEF Running, Persisting
  <2> QED
    BY <2>1 DEF MyTurn
<1>13. TaskOnHead'
  BY <1>2, <1>4, <1>5, <1>12 DEF TaskOnHead, Running, Persisting, Committing, Sinks
<1>14. HistoryInChain'
  <2> SUFFICES ASSUME NEW d \in history PROVE \E i \in DOMAIN chain' : chain'[i] = d
    BY <1>1 DEF HistoryInChain
  <2>1. PICK i \in DOMAIN chain : chain[i] = d
    BY DEF HistoryInChain
  <2>2. i \in DOMAIN chain' /\ chain'[i] = d
    BY <1>3, <1>4, <2>1
  <2> QED
    BY <2>2
<1> QED
  BY <1>6, <1>11, <1>13, <1>14

(* The stream head and the history of the entry that is the present head.  *)
LEMMA PublishKeepsChain ==
  ASSUME TypeOK, ChainInv, NEW c \in Calls, putStreamHead(c) \/ putHistory(c)
  PROVE  ChainInv'
<1> USE DEF ChainInv
<1>1. /\ chain' = chain /\ entry' = entry /\ step[c] \in Committing
      /\ \E next \in Committing : step' = [step EXCEPT ![c] = next]
      /\ lastHash' = lastHash \/ lastHash' = [lastHash EXCEPT ![StreamOf[c]] = c]
      /\ history' \subseteq history \union {c}
  BY DEF putStreamHead, putHistory, goto, Committing
<1>2. step'[c] \in Committing /\ \A d \in Calls : d # c => step'[d] = step[d]
  BY <1>1 DEF TypeOK
<1>3. chain # <<>> /\ c = HeadOf(chain)
  BY <1>1 DEF TaskOnHead
<1>4. HeadStored'
  BY <1>1, <1>3, StreamsAssumption DEF HeadStored, HeadOf, TypeOK
<1>5. Linked'
  BY <1>1, <1>2 DEF Linked
<1>6. TaskOnHead'
  BY <1>1, <1>2, <1>3 DEF TaskOnHead, HeadOf, Persisting, Committing, Sinks
<1>7. Len(chain) \in DOMAIN chain /\ chain[Len(chain)] = c
  BY <1>3 DEF HeadOf, Linked
<1>8. HistoryInChain'
  BY <1>1, <1>7 DEF HistoryInChain
<1> QED
  BY <1>4, <1>5, <1>6, <1>8

(* One task makes such a move.                                             *)
LEMMA OneQuietMove ==
  ASSUME TypeOK, NEW c \in Calls, NEW next,
         step' = [step EXCEPT ![c] = next], QuietMove(step[c], next),
         UNCHANGED <<chain, lastHash, history>>, entry' = entry
  PROVE  QuietStep
<1>1. step'[c] = next /\ \A d \in Calls : d # c => step'[d] = step[d]
  BY DEF TypeOK
<1>2. \A d \in Calls : QuietMove(step[d], step'[d])
  BY <1>1 DEF QuietMove
<1> QED
  BY <1>2 DEF QuietStep

LEMMA NextChain == TypeOK /\ ChainInv /\ [Next]_vars => ChainInv'
<1> SUFFICES ASSUME TypeOK, ChainInv, [Next]_vars PROVE ChainInv'
  OBVIOUS
<1>1. ASSUME NEW c \in Calls, appendAuditLog(c) PROVE ChainInv'
  <2>1. step' = [step EXCEPT ![c] = "queued"] /\ QuietMove(step[c], "queued")
    BY <1>1 DEF appendAuditLog, QuietMove, Committing
  <2>2. UNCHANGED <<chain, lastHash, history>> /\ entry' = entry
    BY <1>1 DEF appendAuditLog, stored
  <2> QED
    BY <2>1, <2>2, OneQuietMove, QuietKeepsChain
<1>2. ASSUME NEW c \in Calls, ComputeEntry(c) PROVE ChainInv'
  <2>1. CASE persistStart = "failed"
    <3> DEFINE new == [ts |-> clock, prev_hash |-> lastHash["global"],
                       stream_prev_hash |-> lastHash[StreamOf[c]]]
    <3>1. /\ step[c] = "queued" /\ step' = [step EXCEPT ![c] = "failed"]
          /\ entry' = [entry EXCEPT ![c] = new]
          /\ UNCHANGED <<chain, lastHash, history>>
      BY <1>2, <2>1 DEF ComputeEntry, settle, stored
    <3> HIDE DEF new
    <3>2. /\ step'[c] = "failed"
          /\ \A d \in Calls : d # c => step'[d] = step[d] /\ entry'[d] = entry[d]
      BY <3>1 DEF TypeOK
    <3>3. \A d \in Calls : QuietMove(step[d], step'[d])
      BY <3>1, <3>2 DEF QuietMove, Committing
    <3>4. QuietStep
      BY <3>1, <3>2, <3>3 DEF QuietStep
    <3> QED
      BY <3>4, QuietKeepsChain
  <2> QED
    BY <1>2, <2>1, ComputeKeepsChain
<1>3. ASSUME NEW c \in Calls, writeSink(c) PROVE ChainInv'
  <2>1. step[c] \in Sinks
    BY <1>3, StreamsAssumption DEF TypeOK, writeSink, Sinks
  <2>2. PICK ok \in BOOLEAN :
          step' = [step EXCEPT ![c] = IF step[c] = "r2_entry" /\ ~ok THEN "kv" ELSE AfterSink[step[c]]]
    BY <1>3 DEF writeSink, goto
  <2>3. (IF step[c] = "r2_entry" /\ ~ok THEN "kv" ELSE AfterSink[step[c]]) \in Persisting
    BY <2>1 DEF AfterSink, Sinks, Persisting
  <2>4. PICK next \in Persisting : step' = [step EXCEPT ![c] = next]
    BY <2>2, <2>3
  <2>5. QuietMove(step[c], next)
    BY <2>1 DEF QuietMove, Persisting
  <2>6. UNCHANGED <<chain, lastHash, history>> /\ entry' = entry
    BY <1>3 DEF writeSink, stored
  <2> QED
    BY <2>4, <2>5, <2>6, OneQuietMove, QuietKeepsChain
<1>4. ASSUME NEW c \in Calls, skipSink(c) PROVE ChainInv'
  <2>1. step[c] \in Sinks /\ step' = [step EXCEPT ![c] = AfterSink[step[c]]]
    BY <1>4 DEF skipSink, goto
  <2>2. AfterSink[step[c]] \in Persisting
    BY <2>1 DEF AfterSink, Sinks, Persisting
  <2>3. QuietMove(step[c], AfterSink[step[c]])
    BY <2>1, <2>2 DEF QuietMove, Persisting
  <2>4. UNCHANGED <<chain, lastHash, history>> /\ entry' = entry
    BY <1>4 DEF skipSink, stored
  <2> QED
    BY <2>1, <2>3, <2>4, OneQuietMove, QuietKeepsChain
<1>5. ASSUME NEW c \in Calls, verdict(c) PROVE ChainInv'
  <2>1. PICK next \in {"put_global", "failed"} :
          step[c] = "verdict" /\ step' = [step EXCEPT ![c] = next]
    BY <1>5 DEF verdict, goto, settle
  <2>2. QuietMove(step[c], next)
    BY <2>1 DEF QuietMove, Persisting, Committing
  <2>3. UNCHANGED <<chain, lastHash, history>> /\ entry' = entry
    BY <1>5 DEF verdict, stored
  <2> QED
    BY <2>1, <2>2, <2>3, OneQuietMove, QuietKeepsChain
<1>6. ASSUME NEW c \in Calls, putByHash(c) PROVE ChainInv'
  <2>1. step[c] = "put_by_hash" /\ step' = [step EXCEPT ![c] = "done"]
    BY <1>6 DEF putByHash, settle
  <2>2. QuietMove(step[c], "done")
    BY <2>1 DEF QuietMove, Committing
  <2>3. UNCHANGED <<chain, lastHash, history>> /\ entry' = entry
    BY <1>6 DEF putByHash
  <2> QED
    BY <2>1, <2>2, <2>3, OneQuietMove, QuietKeepsChain
<1>7. CASE Crash
  <2>1. \A c \in Calls : step'[c] = IF step[c] \in {"queued"} \union Running THEN "lost" ELSE step[c]
    BY <1>7 DEF Crash
  <2>2. \A c \in Calls : QuietMove(step[c], step'[c])
    BY <2>1 DEF QuietMove, Running, Persisting, Committing, Sinks
  <2>3. QuietStep
    BY <1>7, <2>2 DEF QuietStep, Crash, stored
  <2> QED
    BY <2>3, QuietKeepsChain
<1>8. CASE Tick \/ UNCHANGED vars
  <2>1. QuietStep
    BY <1>8 DEF QuietStep, QuietMove, Tick, stored, vars
  <2> QED
    BY <2>1, QuietKeepsChain
<1> QED
  BY <1>1, <1>2, <1>3, <1>4, <1>5, <1>6, <1>7, <1>8, QuietKeepsChain, PutHeadKeepsChain,
     PublishKeepsChain DEF Next, Work

-----------------------------------------------------------------------------
(* The sinks. The blocking sinks a task has passed when it is at step s.   *)
Passed(s) ==
  {b \in Sinks \ {"kv"} :
     \/ s \in {"verdict", "put_global"} \union Committing
     \/ s \in {"kv", "ingest"} /\ b # "ingest"
     \/ s = "r2_stream" /\ b = "r2_entry"}

(* In required mode a task has stored its entry in every bound blocking    *)
(* sink it passed, or has an error on record; past the verdict, no error.  *)
TaskSink(c) ==
  /\ step[c] \in Running => env.bound \intersect Primary # {}
  /\ \A s \in env.bound \intersect Passed(step[c]) :
       \/ c \in sinks[s]
       \/ blocked[c] /\ step[c] \in Sinks \union {"verdict"}

SinkInv ==
  /\ blocked \in [Calls -> BOOLEAN]
  /\ env.mode = "required" => \A c \in Calls : TaskSink(c)
  /\ ImmutableFirst

LEMMA InitSink == Init => SinkInv
BY DEF Init, SinkInv, TaskSink, ImmutableFirst, Passed, Running, Persisting, Committing,
       Sinks

(* What one task has to show when it moves, in required mode.              *)
LEMMA SinkMove ==
  ASSUME TypeOK, SinkInv, NEW c \in Calls, env' = env,
         \A d \in Calls : d # c => step'[d] = step[d] /\ blocked'[d] = blocked[d],
         \A s \in Sinks : sinks[s] \subseteq sinks'[s],
         blocked' \in [Calls -> BOOLEAN],
         env.mode = "required" => TaskSink(c)',
         history' = history \/ (history' = history \union {c} /\ step[c] = "put_history")
  PROVE  SinkInv'
<1> SUFFICES ASSUME env.mode = "required" PROVE (\A d \in Calls : TaskSink(d)') /\ ImmutableFirst'
  BY DEF SinkInv, ImmutableFirst
<1>1. env.bound \subseteq Sinks
  BY StreamsAssumption DEF TypeOK, Sinks
<1>2. ASSUME NEW d \in Calls PROVE TaskSink(d)'
  <2>1. CASE d # c
    <3>1. TaskSink(d) /\ step'[d] = step[d] /\ blocked'[d] = blocked[d]
      BY <2>1 DEF SinkInv
    <3> QED
      BY <1>1, <3>1 DEF TaskSink, Passed
  <2> QED
    BY <2>1
<1>3. ASSUME step[c] = "put_history"
      PROVE  env.bound \intersect Primary # {} /\ \A s \in env.bound \ {"kv"} : c \in sinks[s]
  <2>1. TaskSink(c)
    BY DEF SinkInv
  <2> QED
    BY <1>1, <1>3, <2>1 DEF TaskSink, Passed, Running, Committing, Persisting, Sinks
<1>4. ImmutableFirst'
  BY <1>1, <1>3 DEF SinkInv, ImmutableFirst
<1> QED
  BY <1>2, <1>4

(* A task that is not running has nothing to show.                         *)
LEMMA IdleTask ==
  ASSUME NEW c \in Calls, step'[c] \in {"queued"} \union Settled
  PROVE  TaskSink(c)'
BY DEF TaskSink, Passed, Running, Persisting, Committing, Settled, Sinks

LEMMA NextSink == TypeOK /\ SinkInv /\ [Next]_vars => SinkInv'
<1> SUFFICES ASSUME TypeOK, SinkInv, [Next]_vars PROVE SinkInv'
  OBVIOUS
<1>0. env.bound \subseteq Sinks /\ blocked \in [Calls -> BOOLEAN]
  BY StreamsAssumption DEF TypeOK, SinkInv, Sinks
<1>1. ASSUME NEW c \in Calls, appendAuditLog(c) PROVE SinkInv'
  <2>1. /\ env' = env /\ history' = history /\ sinks' = sinks /\ blocked' = blocked
        /\ step' = [step EXCEPT ![c] = "queued"]
    BY <1>1 DEF appendAuditLog, stored
  <2>2. step'[c] = "queued" /\ \A d \in Calls : d # c => step'[d] = step[d]
    BY <2>1 DEF TypeOK
  <2>3. TaskSink(c)'
    BY <2>2, IdleTask
  <2> QED
    BY <1>0, <2>1, <2>2, <2>3, SinkMove
<1>2. ASSUME NEW c \in Calls, NEW outcome \in Settled, settle(c, outcome),
             env' = env, history' = history, sinks' = sinks
      PROVE  SinkInv'
  <2>1. /\ step'[c] = outcome /\ blocked' \in [Calls -> BOOLEAN]
        /\ \A d \in Calls : d # c => step'[d] = step[d] /\ blocked'[d] = blocked[d]
    BY <1>0, <1>2 DEF settle, TypeOK
  <2>2. TaskSink(c)'
    BY <2>1, IdleTask
  <2> QED
    BY <1>2, <2>1, <2>2, SinkMove
<1>3. ASSUME NEW c \in Calls, NEW next \in Steps, goto(c, next), env' = env,
             history' = history \/ (history' = history \union {c} /\ step[c] = "put_history"),
             sinks' = sinks, blocked' = blocked,
             env.mode = "required" =>
               /\ next \in Running => env.bound \intersect Primary # {}
               /\ \A s \in env.bound \intersect Passed(next) :
                    \/ c \in sinks[s]
                    \/ blocked[c] /\ next \in Sinks \union {"verdict"}
      PROVE  SinkInv'
  <2>1. step'[c] = next /\ \A d \in Calls : d # c => step'[d] = step[d]
    BY <1>3 DEF goto, TypeOK
  <2>2. env.mode = "required" => TaskSink(c)'
    BY <1>3, <2>1 DEF TaskSink, Passed
  <2> QED
    BY <1>0, <1>3, <2>1, <2>2, SinkMove
<1>4. ASSUME NEW c \in Calls, ComputeEntry(c) PROVE SinkInv'
  <2>1. env' = env /\ history' = history /\ sinks' = sinks
    BY <1>4 DEF ComputeEntry, stored
  <2>2. CASE persistStart = "failed"
    BY <1>2, <1>4, <2>1, <2>2 DEF ComputeEntry, Settled
  <2>3. CASE persistStart # "failed"
    <3>1. goto(c, persistStart) /\ blocked' = blocked
      BY <1>4, <2>3 DEF ComputeEntry
    <3>2. persistStart \in Steps
      BY DEF persistStart, Steps, Running, Persisting, Sinks, Settled
    <3>3. env.mode = "required" => persistStart = "r2_entry" /\ env.bound \intersect Primary # {}
      BY <2>3 DEF persistStart
    <3>4. Passed("r2_entry") = {}
      BY DEF Passed, Committing
    <3> HIDE DEF persistStart
    <3> QED
      BY <1>3, <2>1, <3>1, <3>2, <3>3, <3>4
  <2> QED
    BY <2>2, <2>3
<1>5. ASSUME NEW c \in Calls, skipSink(c) PROVE SinkInv'
  <2>1. /\ env' = env /\ history' = history /\ sinks' = sinks /\ blocked' = blocked
        /\ step[c] \in Sinks /\ step[c] \notin env.bound /\ goto(c, AfterSink[step[c]])
    BY <1>5 DEF skipSink, stored
  <2>2. AfterSink[step[c]] \in Sinks \union {"verdict"} /\ step[c] \in Running
    BY <2>1 DEF AfterSink, Sinks, Running, Persisting
  <2>3. Passed(AfterSink[step[c]]) \subseteq Passed(step[c]) \union {step[c]}
    BY <2>1 DEF Passed, AfterSink, Sinks, Committing
  <2>4. env.mode = "required" => TaskSink(c)
    BY DEF SinkInv
  <2>5. AfterSink[step[c]] \in Steps
    BY <2>2 DEF Steps, Running, Persisting
  <2> QED
    BY <1>3, <2>1, <2>2, <2>3, <2>4, <2>5 DEF TaskSink
<1>6. ASSUME NEW c \in Calls, verdict(c) PROVE SinkInv'
  <2>1. env' = env /\ history' = history /\ sinks' = sinks /\ step[c] = "verdict"
    BY <1>6 DEF verdict, stored
  <2>2. CASE settle(c, "failed")
    BY <1>2, <2>1, <2>2 DEF Settled
  <2>3. CASE ~settle(c, "failed")
    <3>1. goto(c, "put_global") /\ blocked' = blocked /\ (env.mode = "required" => ~blocked[c])
      BY <1>6, <2>3 DEF verdict
    <3>2. Passed("put_global") = Passed("verdict") /\ "verdict" \in Running /\ "put_global" \in Steps
      BY DEF Passed, Running, Persisting, Steps
    <3>3. env.mode = "required" => TaskSink(c)
      BY DEF SinkInv
    <3> QED
      BY <1>3, <2>1, <3>1, <3>2, <3>3 DEF TaskSink
  <2> QED
    BY <2>2, <2>3
<1>7. ASSUME NEW c \in Calls, putGlobalHead(c) \/ putStreamHead(c) \/ putHistory(c)
      PROVE  SinkInv'
  <2>1. PICK next \in Committing :
          /\ goto(c, next) /\ step[c] \in {"put_global", "put_stream", "put_history"}
          /\ history' = history \/ (history' = history \union {c} /\ step[c] = "put_history")
    BY <1>7 DEF putGlobalHead, putStreamHead, putHistory, Committing
  <2>2. env' = env /\ sinks' = sinks /\ blocked' = blocked
    BY <1>7 DEF putGlobalHead, putStreamHead, putHistory
  <2>3. /\ Passed(next) = Passed(step[c]) /\ step[c] \in Running /\ next \in Steps
        /\ step[c] \notin Sinks \union {"verdict"}
    BY <2>1 DEF Passed, Running, Persisting, Committing, Steps, Sinks
  <2>4. env.mode = "required" => TaskSink(c)
    BY DEF SinkInv
  <2> QED
    BY <1>3, <2>1, <2>2, <2>3, <2>4 DEF TaskSink
<1>8. ASSUME NEW c \in Calls, putByHash(c) PROVE SinkInv'
  BY <1>2, <1>8 DEF putByHash, Settled
<1>9. ASSUME NEW c \in Calls, writeSink(c) PROVE SinkInv'
  <2>1. step[c] \in Sinks /\ step[c] \in env.bound /\ step[c] \in Running
    BY <1>0, <1>9 DEF writeSink, Running, Persisting
  <2>2. PICK written \in BOOLEAN, ok \in BOOLEAN :
          /\ ok => written
          /\ sinks' = [sinks EXCEPT ![step[c]] = @ \union (IF written THEN {c} ELSE {})]
          /\ blocked' = [blocked EXCEPT ![c] = @ \/ (~ok /\ blocks(step[c]))]
          /\ step' = [step EXCEPT ![c] = IF step[c] = "r2_entry" /\ ~ok THEN "kv"
                                         ELSE AfterSink[step[c]]]
    BY <1>9 DEF writeSink, goto
  <2>3. env' = env /\ history' = history
    BY <1>9 DEF writeSink, stored
  <2>4. /\ blocked' \in [Calls -> BOOLEAN]
        /\ \A d \in Calls : d # c => blocked'[d] = blocked[d]
        /\ blocked[c] => blocked'[c]
        /\ ~ok /\ step[c] # "kv" => blocked'[c]
    BY <1>0, <2>2, Zenon DEF blocks
  <2>5. \A s \in Sinks : sinks[s] \subseteq sinks'[s]
    BY <2>2 DEF TypeOK
  <2>6. ok => c \in sinks'[step[c]]
    BY <2>1, <2>2 DEF TypeOK
  <2>7. /\ step'[c] = IF step[c] = "r2_entry" /\ ~ok THEN "kv" ELSE AfterSink[step[c]]
        /\ \A d \in Calls : d # c => step'[d] = step[d]
    BY <2>2 DEF TypeOK
  <2>8. /\ step'[c] \in Sinks \union {"verdict"}
        /\ ok \/ step[c] = "kv" => Passed(step'[c]) \subseteq Passed(step[c]) \union {step[c]}
        /\ step[c] = "kv" => Passed(step'[c]) \subseteq Passed(step[c])
    BY <2>1, <2>7 DEF Passed, AfterSink, Sinks, Committing
  <2>9. env.mode = "required" => TaskSink(c)'
    <3> SUFFICES ASSUME env.mode = "required" PROVE TaskSink(c)'
      OBVIOUS
    <3>1. TaskSink(c)
      BY DEF SinkInv
    <3>2. ASSUME NEW s \in env.bound \intersect Passed(step'[c])
          PROVE  c \in sinks'[s] \/ blocked'[c]
      <4>1. CASE ok \/ step[c] = "kv"
        <5>1. CASE s \in Passed(step[c])
          BY <1>0, <2>4, <2>5, <3>1, <5>1 DEF TaskSink
        <5>2. CASE s \notin Passed(step[c])
          BY <2>6, <2>8, <3>2, <4>1, <5>2
        <5> QED
          BY <5>1, <5>2
      <4> QED
        BY <2>4, <4>1
    <3>3. env.bound \intersect Primary # {}
      BY <2>1, <3>1 DEF TaskSink
    <3> QED
      BY <2>3, <2>8, <3>2, <3>3 DEF TaskSink, Passed
  <2> QED
    BY <2>3, <2>4, <2>5, <2>7, <2>9, SinkMove
<1>10. CASE Crash
  <2>1. \A c \in Calls : step'[c] = IF step[c] \in {"queued"} \union Running THEN "lost" ELSE step[c]
    BY <1>10 DEF Crash
  <2>2. \A c \in Calls : TaskSink(c)'
    BY <2>1 DEF TypeOK, Steps, TaskSink, Passed, Running, Persisting, Committing, Settled, Sinks
  <2> QED
    BY <1>10, <2>2 DEF Crash, SinkInv, ImmutableFirst, stored
<1>11. CASE Tick \/ UNCHANGED vars
  BY <1>11 DEF Tick, vars, stored, SinkInv, TaskSink, Passed, ImmutableFirst
<1> QED
  BY <1>1, <1>4, <1>5, <1>6, <1>7, <1>8, <1>9, <1>10, <1>11 DEF Next, Work
-----------------------------------------------------------------------------
(* Two entries of the history name the same predecessor only when they are *)
(* at the same place of the chain.                                         *)
LEMMA ChainImpliesNoFork ==
  ASSUME ChainInv PROVE NoFork
<1> SUFFICES ASSUME NEW d \in history, NEW e \in history,
                    entry[d].prev_hash = entry[e].prev_hash
             PROVE  d = e
  BY DEF NoFork
<1>1. PICK i \in DOMAIN chain : chain[i] = d
  BY DEF ChainInv, HistoryInChain
<1>2. PICK j \in DOMAIN chain : chain[j] = e
  BY DEF ChainInv, HistoryInChain
<1>3. i \in 1..Len(chain) /\ j \in 1..Len(chain) /\ Len(chain) \in Nat
  BY DEF ChainInv, Linked
<1>4. /\ d = chain[i] /\ entry[d].prev_hash = IF i = 1 THEN GENESIS ELSE chain[i - 1]
      /\ e = chain[j] /\ entry[e].prev_hash = IF j = 1 THEN GENESIS ELSE chain[j - 1]
  BY <1>1, <1>2 DEF ChainInv, Linked
<1>5. \A k \in 1..Len(chain) : chain[k] \in Calls /\ chain[k] # GENESIS
  BY StreamsAssumption DEF ChainInv, Linked
<1>6. i # 1 => i - 1 \in DOMAIN chain
  BY <1>3 DEF ChainInv, Linked
<1>7. j # 1 => j - 1 \in DOMAIN chain
  BY <1>3 DEF ChainInv, Linked
<1>8. i = j
  <2>1. CASE i = 1 \/ j = 1
    BY <1>3, <1>4, <1>5, <1>6, <1>7, <2>1
  <2>2. CASE i # 1 /\ j # 1
    <3>1. chain[i - 1] = chain[j - 1]
      BY <1>4, <2>2
    <3>2. i - 1 = j - 1
      BY <1>6, <1>7, <2>2, <3>1 DEF ChainInv, Linked
    <3> QED
      BY <1>3, <3>2
  <2> QED
    BY <2>1, <2>2
<1> QED
  BY <1>4, <1>8

-----------------------------------------------------------------------------
(* The chain of an event stream. A task puts the stream head after the     *)
(* global one, so a crash can leave a global head that its stream never    *)
(* had; what counts are the entries that have put their stream head.       *)

Published == {"put_history", "put_by_hash", "done", "lost"}
Waiting == Persisting \union {"put_stream"}

InStream(c) == c \in history \/ step[c] \in {"put_history", "put_by_hash"}

(* Entries name only heads that were put, the present head is named by no  *)
(* entry that put its own, and a task that has still to put it was         *)
(* computed on the present head.                                           *)
StreamInv ==
  /\ \A c \in Calls : StreamOf[c] = "global" /\ entry[c] # None =>
       entry[c].stream_prev_hash = entry[c].prev_hash
  /\ \A s \in Streams \ {"global"} : lastHash[s] \in Calls => step[lastHash[s]] \in Published
  /\ \A e \in Calls : StreamOf[e] # "global" /\ entry[e] # None =>
       (entry[e].stream_prev_hash \in Calls => step[entry[e].stream_prev_hash] \in Published)
  /\ \A e \in Calls : InStream(e) => entry[e] # None
  /\ \A e \in Calls : StreamOf[e] # "global" /\ InStream(e) =>
       entry[e].stream_prev_hash # lastHash[StreamOf[e]]
  /\ \A e \in Calls : StreamOf[e] # "global" /\ step[e] \in Waiting =>
       entry[e].stream_prev_hash = lastHash[StreamOf[e]]
  /\ \A d, e \in Calls :
       /\ StreamOf[d] # "global" /\ StreamOf[d] = StreamOf[e] /\ InStream(d) /\ InStream(e)
       /\ entry[d].stream_prev_hash = entry[e].stream_prev_hash
       => d = e

LEMMA InitStream == Init => StreamInv
BY StreamsAssumption
   DEF Init, StreamInv, InStream, Published, Waiting, Persisting, Sinks

(* Steps that neither compute an entry nor put a stream head.              *)
LEMMA OtherKeepsStream ==
  ASSUME TypeOK, StreamInv, entry' = entry,
         \A s \in Streams \ {"global"} : lastHash'[s] = lastHash[s],
         \A c \in Calls : /\ step[c] \in Published => step'[c] \in Published
                          /\ step'[c] \in Waiting => step[c] \in Waiting
                          /\ InStream(c)' => InStream(c)
  PROVE  StreamInv'
<1> USE StreamsAssumption
<1>1. \A c \in Calls : StreamOf[c] \in Streams
  OBVIOUS
<1>2. \A s \in Streams \ {"global"} : lastHash'[s] \in Calls => step'[lastHash'[s]] \in Published
  BY DEF StreamInv
<1>3. \A e \in Calls : StreamOf[e] # "global" /\ entry'[e] # None =>
        (entry'[e].stream_prev_hash \in Calls => step'[entry'[e].stream_prev_hash] \in Published)
  BY DEF StreamInv
<1>4. \A e \in Calls : StreamOf[e] # "global" /\ InStream(e)' =>
        entry'[e].stream_prev_hash # lastHash'[StreamOf[e]]
  BY <1>1 DEF StreamInv
<1>8. \A e \in Calls : InStream(e)' => entry'[e] # None
  BY DEF StreamInv
<1>5. \A e \in Calls : StreamOf[e] # "global" /\ step'[e] \in Waiting =>
        entry'[e].stream_prev_hash = lastHash'[StreamOf[e]]
  BY <1>1 DEF StreamInv
<1>6. \A d, e \in Calls :
        /\ StreamOf[d] # "global" /\ StreamOf[d] = StreamOf[e] /\ InStream(d)' /\ InStream(e)'
        /\ entry'[d].stream_prev_hash = entry'[e].stream_prev_hash
        => d = e
  BY DEF StreamInv
<1>7. \A c \in Calls : StreamOf[c] = "global" /\ entry'[c] # None =>
        entry'[c].stream_prev_hash = entry'[c].prev_hash
  BY DEF StreamInv
<1> QED
  BY <1>2, <1>3, <1>4, <1>5, <1>6, <1>7, <1>8 DEF StreamInv

LEMMA ComputeKeepsStream ==
  ASSUME TypeOK, ChainInv, StreamInv, NEW c \in Calls, ComputeEntry(c)
  PROVE  StreamInv'
<1> USE StreamsAssumption
<1> DEFINE new == [ts |-> clock, prev_hash |-> lastHash["global"],
                   stream_prev_hash |-> lastHash[StreamOf[c]]]
<1>1. /\ lastHash' = lastHash /\ history' = history /\ step[c] = "queued"
      /\ entry' = [entry EXCEPT ![c] = new]
      /\ \E next \in Persisting \union {"failed"} : step' = [step EXCEPT ![c] = next]
  BY DEF ComputeEntry, goto, settle, stored, persistStart, Persisting, Sinks
<1>2. /\ new.prev_hash = lastHash["global"] /\ new.stream_prev_hash = lastHash[StreamOf[c]]
      /\ entry'[c] = new /\ \A d \in Calls : d # c => entry'[d] = entry[d] /\ step'[d] = step[d]
  BY <1>1 DEF TypeOK
<1> HIDE DEF new
<1>3. step'[c] \in Persisting \union {"failed"}
  BY <1>1 DEF TypeOK
<1>4. c \notin history
  BY <1>1 DEF ChainInv, HistoryInChain, Linked, Committing
<1>5. ~InStream(c)' /\ \A d \in Calls : InStream(d)' => InStream(d) /\ d # c
  BY <1>1, <1>2, <1>3, <1>4 DEF InStream, Persisting, Sinks
<1>6. step[c] \notin Published /\ \A d \in Calls : step[d] \in Published => step'[d] \in Published
  BY <1>1, <1>2 DEF Published
<1>7. \A d \in Calls : StreamOf[d] = "global" /\ entry'[d] # None =>
        entry'[d].stream_prev_hash = entry'[d].prev_hash
  BY <1>2 DEF StreamInv
<1>8. \A s \in Streams \ {"global"} : lastHash'[s] \in Calls => step'[lastHash'[s]] \in Published
  BY <1>1, <1>6 DEF StreamInv
<1>9. \A e \in Calls : StreamOf[e] # "global" /\ entry'[e] # None =>
        (entry'[e].stream_prev_hash \in Calls => step'[entry'[e].stream_prev_hash] \in Published)
  BY <1>1, <1>2, <1>6 DEF StreamInv
<1>10. \A e \in Calls : StreamOf[e] # "global" /\ InStream(e)' =>
         entry'[e].stream_prev_hash # lastHash'[StreamOf[e]]
  BY <1>1, <1>2, <1>5 DEF StreamInv
<1>13. \A e \in Calls : InStream(e)' => entry'[e] # None
  BY <1>2, <1>5 DEF StreamInv
<1>11. \A e \in Calls : StreamOf[e] # "global" /\ step'[e] \in Waiting =>
         entry'[e].stream_prev_hash = lastHash'[StreamOf[e]]
  BY <1>1, <1>2 DEF StreamInv
<1>12. \A d, e \in Calls :
         /\ StreamOf[d] # "global" /\ StreamOf[d] = StreamOf[e] /\ InStream(d)' /\ InStream(e)'
         /\ entry'[d].stream_prev_hash = entry'[e].stream_prev_hash
         => d = e
  BY <1>2, <1>5 DEF StreamInv
<1> QED
  BY <1>7, <1>8, <1>9, <1>10, <1>11, <1>12, <1>13 DEF StreamInv

LEMMA PutStreamKeepsStream ==
  ASSUME TypeOK, StreamInv, NEW c \in Calls, putStreamHead(c)
  PROVE  StreamInv'
<1> USE StreamsAssumption
<1>1. /\ lastHash' = [lastHash EXCEPT ![StreamOf[c]] = c] /\ history' = history
      /\ step[c] = "put_stream" /\ entry' = entry
      /\ step' = [step EXCEPT ![c] = "put_history"]
  BY DEF putStreamHead, goto
<1>2. /\ step'[c] = "put_history" /\ \A d \in Calls : d # c => step'[d] = step[d]
      /\ StreamOf[c] \in Streams /\ lastHash'[StreamOf[c]] = c
      /\ \A s \in Streams : s # StreamOf[c] => lastHash'[s] = lastHash[s]
  BY <1>1 DEF TypeOK
<1>3. \A d \in Calls : d # c => step[d] \notin Waiting
  <2> SUFFICES ASSUME NEW d \in Calls, d # c, step[d] \in Waiting PROVE FALSE
    OBVIOUS
  <2>1. step[d] \in Running /\ step[c] \in Running
    BY <1>1 DEF Waiting, Running, Committing
  <2>2. MyTurn(d) /\ MyTurn(c)
    BY <2>1, RunningHasTurn
  <2> QED
    BY <2>2 DEF MyTurn
<1>4. step[c] \in Waiting /\ step[c] \notin Published /\ entry[c] # None
  <2>1. step[c] \in Running
    BY <1>1 DEF Running, Committing
  <2> QED
    BY <1>1, <2>1 DEF Waiting, Published, TypeOK, LockOrder
<1>5. \A d \in Calls : InStream(d)' => InStream(d) \/ d = c
  BY <1>1, <1>2 DEF InStream
<1>6. /\ step'[c] \in Published /\ step'[c] \notin Waiting
      /\ \A d \in Calls : step[d] \in Published => step'[d] \in Published
  BY <1>2 DEF Published, Waiting, Persisting, Sinks
<1>7. \A d \in Calls : StreamOf[d] = "global" /\ entry'[d] # None =>
        entry'[d].stream_prev_hash = entry'[d].prev_hash
  BY <1>1 DEF StreamInv
<1>8. \A s \in Streams \ {"global"} : lastHash'[s] \in Calls => step'[lastHash'[s]] \in Published
  BY <1>2, <1>6 DEF StreamInv
<1>9. \A e \in Calls : StreamOf[e] # "global" /\ entry'[e] # None =>
        (entry'[e].stream_prev_hash \in Calls => step'[entry'[e].stream_prev_hash] \in Published)
  BY <1>1, <1>6 DEF StreamInv
<1>10. ASSUME NEW e \in Calls, StreamOf[e] # "global", InStream(e)'
       PROVE  entry'[e].stream_prev_hash # lastHash'[StreamOf[e]]
  <2>1. entry[e] # None
    BY <1>4, <1>5, <1>10 DEF StreamInv
  <2>2. entry[e].stream_prev_hash # c
    BY <1>4, <1>10, <2>1 DEF StreamInv
  <2>3. CASE StreamOf[e] = StreamOf[c]
    BY <1>1, <1>2, <2>1, <2>2, <2>3
  <2>4. CASE StreamOf[e] # StreamOf[c]
    BY <1>1, <1>2, <1>5, <1>10, <2>1, <2>4 DEF StreamInv
  <2> QED
    BY <2>3, <2>4
<1>13. \A e \in Calls : InStream(e)' => entry'[e] # None
  BY <1>1, <1>4, <1>5 DEF StreamInv
<1>11. \A e \in Calls : step'[e] \notin Waiting
  BY <1>2, <1>3, <1>6
<1>12. \A d, e \in Calls :
         /\ StreamOf[d] # "global" /\ StreamOf[d] = StreamOf[e] /\ InStream(d)' /\ InStream(e)'
         /\ entry'[d].stream_prev_hash = entry'[e].stream_prev_hash
         => d = e
  BY <1>1, <1>4, <1>5 DEF StreamInv
<1> QED
  BY <1>7, <1>8, <1>9, <1>10, <1>11, <1>12, <1>13 DEF StreamInv

(* A task goes from one sink to the next, or fails after the last.         *)
LEMMA SinkMoves ==
  ASSUME TypeOK, NEW c \in Calls, writeSink(c) \/ skipSink(c) \/ verdict(c)
  PROVE  \E next \in Persisting \union {"failed"} : step' = [step EXCEPT ![c] = next]
<1>1. CASE writeSink(c)
  <2>0. step[c] \in Sinks
    BY <1>1, StreamsAssumption DEF TypeOK, writeSink, Sinks
  <2>1. PICK ok \in BOOLEAN :
          step' = [step EXCEPT ![c] = IF step[c] = "r2_entry" /\ ~ok THEN "kv" ELSE AfterSink[step[c]]]
    BY <1>1 DEF writeSink, goto
  <2>2. (IF step[c] = "r2_entry" /\ ~ok THEN "kv" ELSE AfterSink[step[c]]) \in Persisting
    BY <2>0 DEF AfterSink, Sinks, Persisting
  <2> QED
    BY <2>1, <2>2
<1>2. CASE skipSink(c)
  <2>1. step[c] \in Sinks /\ step' = [step EXCEPT ![c] = AfterSink[step[c]]]
    BY <1>2 DEF skipSink, goto
  <2>2. AfterSink[step[c]] \in Persisting
    BY <2>1 DEF AfterSink, Sinks, Persisting
  <2> QED
    BY <2>1, <2>2
<1>3. CASE verdict(c)
  BY <1>3 DEF verdict, settle, goto, Persisting
<1> QED
  BY <1>1, <1>2, <1>3

LEMMA NextStream ==
  ASSUME TypeOK, ChainInv, StreamInv, [Next]_vars
  PROVE  StreamInv'
<1>1. ASSUME NEW c \in Calls, NEW next, step' = [step EXCEPT ![c] = next], entry' = entry,
             \A s \in Streams \ {"global"} : lastHash'[s] = lastHash[s],
             step[c] \in Published => next \in Published,
             next \in Waiting => step[c] \in Waiting,
             history' = history \/ (history' = history \union {c} /\ step[c] = "put_history"),
             next \in {"put_history", "put_by_hash"} => step[c] \in {"put_history", "put_by_hash"}
      PROVE  StreamInv'
  <2>1. step'[c] = next /\ \A d \in Calls : d # c => step'[d] = step[d]
    BY <1>1 DEF TypeOK
  <2>2. \A d \in Calls : InStream(d)' => InStream(d)
    BY <1>1, <2>1 DEF InStream
  <2> QED
    BY <1>1, <2>1, <2>2, OtherKeepsStream
<1>2. ASSUME NEW c \in Calls, appendAuditLog(c) PROVE StreamInv'
  BY <1>1, <1>2 DEF appendAuditLog, stored, Published, Waiting, Persisting, Sinks
<1>3. ASSUME NEW c \in Calls, writeSink(c) \/ skipSink(c) \/ verdict(c) PROVE StreamInv'
  <2>1. step[c] \in Sinks \union {"verdict"}
    BY <1>3, StreamsAssumption DEF TypeOK, writeSink, skipSink, verdict, Sinks
  <2>2. PICK next \in Persisting \union {"failed"} : step' = [step EXCEPT ![c] = next]
    BY <1>3, SinkMoves
  <2>3. entry' = entry /\ lastHash' = lastHash /\ history' = history
    BY <1>3 DEF writeSink, skipSink, verdict, stored
  <2>4. /\ step[c] \notin Published /\ step[c] \in Waiting
        /\ next \notin {"put_history", "put_by_hash"}
    BY <2>1 DEF Published, Waiting, Persisting, Sinks
  <2> QED
    BY <1>1, <2>2, <2>3, <2>4
<1>4. ASSUME NEW c \in Calls, putGlobalHead(c) PROVE StreamInv'
  <2>1. /\ step[c] = "put_global" /\ step' = [step EXCEPT ![c] = "put_stream"]
        /\ entry' = entry /\ history' = history
        /\ \A s \in Streams \ {"global"} : lastHash'[s] = lastHash[s]
    BY <1>4 DEF putGlobalHead, goto, TypeOK
  <2> QED
    BY <1>1, <2>1 DEF Published, Waiting, Persisting
<1>5. ASSUME NEW c \in Calls, putHistory(c) PROVE StreamInv'
  <2>1. /\ step[c] = "put_history" /\ step' = [step EXCEPT ![c] = "put_by_hash"]
        /\ entry' = entry /\ history' = history \union {c} /\ lastHash' = lastHash
    BY <1>5 DEF putHistory, goto
  <2> QED
    BY <1>1, <2>1 DEF Published, Waiting, Persisting, Sinks
<1>6. ASSUME NEW c \in Calls, putByHash(c) PROVE StreamInv'
  <2>1. /\ step[c] = "put_by_hash" /\ step' = [step EXCEPT ![c] = "done"]
        /\ entry' = entry /\ history' = history /\ lastHash' = lastHash
    BY <1>6 DEF putByHash, settle
  <2> QED
    BY <1>1, <2>1 DEF Published, Waiting, Persisting, Sinks
<1>7. CASE Crash
  <2>1. /\ entry' = entry /\ history' = history /\ lastHash' = lastHash
        /\ \A c \in Calls : step'[c] = IF step[c] \in {"queued"} \union Running THEN "lost" ELSE step[c]
    BY <1>7 DEF Crash, stored
  <2>2. \A c \in Calls : /\ step[c] \in Published => step'[c] \in Published
                         /\ step'[c] \notin Waiting
                         /\ step'[c] \notin {"put_history", "put_by_hash"}
    BY <2>1 DEF Published, Waiting, Running, Persisting, Committing, Sinks
  <2>3. \A c \in Calls : InStream(c)' => InStream(c)
    BY <2>1, <2>2 DEF InStream
  <2> QED
    BY <2>1, <2>2, <2>3, OtherKeepsStream
<1>8. CASE Tick \/ UNCHANGED vars
  <2>1. UNCHANGED <<entry, history, lastHash, step>>
    BY <1>8 DEF Tick, stored, vars
  <2> QED
    BY <2>1, OtherKeepsStream DEF InStream
<1> QED
  BY <1>2, <1>3, <1>4, <1>5, <1>6, <1>7, <1>8, ComputeKeepsStream, PutStreamKeepsStream
     DEF Next, Work

LEMMA StreamImpliesNoFork ==
  ASSUME TypeOK, ChainInv, StreamInv PROVE NoStreamFork
<1> SUFFICES ASSUME NEW d \in history, NEW e \in history, StreamOf[d] = StreamOf[e],
                    entry[d].stream_prev_hash = entry[e].stream_prev_hash
             PROVE  d = e
  BY DEF NoStreamFork
<1>1. d \in Calls /\ e \in Calls /\ InStream(d) /\ InStream(e)
  BY DEF TypeOK, InStream
<1>2. CASE StreamOf[d] # "global"
  BY <1>1, <1>2 DEF StreamInv
<1>3. CASE StreamOf[d] = "global"
  <2>1. entry[d] # None /\ entry[e] # None
    BY <1>1 DEF StreamInv
  <2>2. entry[d].prev_hash = entry[e].prev_hash
    BY <1>1, <1>3, <2>1 DEF StreamInv
  <2> QED
    BY <2>2, ChainImpliesNoFork DEF NoFork
<1> QED
  BY <1>2, <1>3

-----------------------------------------------------------------------------
(* The gaps. The places of the chain whose entry will never be shown.      *)
Missing ==
  {i \in DOMAIN chain : chain[i] \notin history /\ step[chain[i]] \notin Committing}

GapInv ==
  /\ crashes \in Nat
  /\ \A c \in Calls : step[c] \in {"put_by_hash", "done"} => c \in history
  /\ Cardinality(Missing) <= crashes

LEMMA MissingFinite ==
  ASSUME ChainInv PROVE IsFiniteSet(Missing) /\ Cardinality(Missing) \in Nat
<1>1. Missing \subseteq 1..Len(chain) /\ Len(chain) \in Nat
  BY DEF Missing, ChainInv, Linked
<1>2. IsFiniteSet(1..Len(chain))
  BY <1>1, FS_Interval
<1> QED
  BY <1>1, <1>2, FS_Subset, FS_CardinalityType

LEMMA InitGap == Init => GapInv
<1> SUFFICES ASSUME Init PROVE GapInv
  OBVIOUS
<1>1. Missing = {} /\ crashes = 0 /\ \A c \in Calls : step[c] = "new"
  BY DEF Init, Missing
<1>2. Cardinality(Missing) = 0
  BY <1>1, FS_EmptySet
<1> QED
  BY <1>1, <1>2 DEF GapInv

(* While the object lives a task that put its head shows its entry.        *)
LEMMA LivingKeepsGaps ==
  ASSUME ChainInv, GapInv, crashes' = crashes, history \subseteq history',
         \A c \in Calls : step'[c] \in {"put_by_hash", "done"} => c \in history',
         \A i \in DOMAIN chain' : \/ i \in DOMAIN chain /\ chain'[i] = chain[i]
                                  \/ step'[chain'[i]] \in Committing,
         \A c \in Calls : step[c] \in Committing => step'[c] \in Committing \/ c \in history'
  PROVE  GapInv'
<1>1. Missing' \subseteq Missing
  <2> SUFFICES ASSUME NEW i \in Missing' PROVE i \in Missing
    OBVIOUS
  <2>1. /\ i \in DOMAIN chain' /\ chain'[i] \notin history' /\ step'[chain'[i]] \notin Committing
    BY DEF Missing
  <2>2. i \in DOMAIN chain /\ chain'[i] = chain[i] /\ chain[i] \in Calls
    BY <2>1 DEF ChainInv, Linked
  <2> QED
    BY <2>1, <2>2 DEF Missing
<1>2. Cardinality(Missing') <= Cardinality(Missing) /\ Cardinality(Missing') \in Nat
  BY <1>1, MissingFinite, FS_Subset, FS_CardinalityType
<1>3. Cardinality(Missing) \in Nat
  BY MissingFinite
<1> QED
  BY <1>2, <1>3 DEF GapInv

LEMMA CrashKeepsGaps ==
  ASSUME TypeOK, ChainInv, GapInv, Crash
  PROVE  GapInv'
<1>1. /\ crashes' = crashes + 1 /\ chain' = chain /\ history' = history
      /\ \A c \in Calls : step'[c] = IF step[c] \in {"queued"} \union Running THEN "lost" ELSE step[c]
  BY DEF Crash, stored
<1>2. Missing' \subseteq Missing \union {Len(chain)}
  <2> SUFFICES ASSUME NEW i \in Missing', i # Len(chain) PROVE i \in Missing
    OBVIOUS
  <2>1. i \in DOMAIN chain /\ chain[i] \notin history /\ chain[i] \in Calls
    BY <1>1 DEF Missing, ChainInv, Linked
  <2>2. CASE step[chain[i]] \in Committing
    <3>1. chain # <<>> /\ chain[i] = chain[Len(chain)] /\ Len(chain) \in DOMAIN chain
      BY <2>1, <2>2 DEF ChainInv, TaskOnHead, HeadOf, Linked
    <3> QED
      BY <2>1, <3>1 DEF ChainInv, Linked
  <2> QED
    BY <2>1, <2>2 DEF Missing
<1>3. /\ IsFiniteSet(Missing) /\ Cardinality(Missing) \in Nat
  BY MissingFinite
<1>4. /\ IsFiniteSet(Missing \union {Len(chain)})
      /\ Cardinality(Missing \union {Len(chain)}) <= Cardinality(Missing) + 1
      /\ Cardinality(Missing \union {Len(chain)}) \in Nat
  <2>1. /\ IsFiniteSet(Missing \union {Len(chain)})
        /\ Cardinality(Missing \union {Len(chain)}) =
             IF Len(chain) \in Missing THEN Cardinality(Missing) ELSE Cardinality(Missing) + 1
    BY <1>3, FS_AddElement
  <2> QED
    BY <1>3, <2>1
<1>5. /\ Cardinality(Missing') <= Cardinality(Missing \union {Len(chain)})
      /\ Cardinality(Missing') \in Nat
  BY <1>2, <1>4, FS_Subset, FS_CardinalityType
<1>6. \A c \in Calls : step'[c] \in {"put_by_hash", "done"} => c \in history'
  BY <1>1 DEF GapInv, Running, Committing
<1>7. crashes \in Nat /\ Cardinality(Missing) <= crashes
  BY DEF GapInv
<1>8. crashes' \in Nat /\ Cardinality(Missing') <= crashes'
  BY <1>1, <1>3, <1>4, <1>5, <1>7
<1> QED
  BY <1>6, <1>8 DEF GapInv

LEMMA NextGap ==
  ASSUME TypeOK, ChainInv, GapInv, [Next]_vars
  PROVE  GapInv'
<1>1. ASSUME NEW c \in Calls, NEW next, step' = [step EXCEPT ![c] = next],
             crashes' = crashes, chain' = chain, history \subseteq history',
             next \in {"put_by_hash", "done"} => c \in history',
             step[c] \in Committing => next \in Committing \/ c \in history'
      PROVE  GapInv'
  <2>1. step'[c] = next /\ \A d \in Calls : d # c => step'[d] = step[d]
    BY <1>1 DEF TypeOK
  <2>2. \A d \in Calls : step'[d] \in {"put_by_hash", "done"} => d \in history'
    BY <1>1, <2>1 DEF GapInv
  <2>3. \A d \in Calls : step[d] \in Committing => step'[d] \in Committing \/ d \in history'
    BY <1>1, <2>1
  <2> QED
    BY <1>1, <2>2, <2>3, LivingKeepsGaps
<1>2. ASSUME NEW c \in Calls, appendAuditLog(c) \/ ComputeEntry(c) PROVE GapInv'
  <2>1. /\ step[c] \in {"new", "queued"} /\ UNCHANGED <<crashes, chain, history>>
        /\ \E next \in {"queued", "failed"} \union Persisting : step' = [step EXCEPT ![c] = next]
    BY <1>2 DEF appendAuditLog, ComputeEntry, stored, settle, goto, persistStart, Persisting, Sinks
  <2> QED
    BY <1>1, <2>1 DEF Committing, Persisting, Sinks
<1>3. ASSUME NEW c \in Calls, writeSink(c) \/ skipSink(c) \/ verdict(c) PROVE GapInv'
  <2>1. /\ step[c] \in Sinks \union {"verdict"} /\ UNCHANGED <<crashes, chain, history>>
    BY <1>3, StreamsAssumption DEF TypeOK, writeSink, skipSink, verdict, Sinks, stored
  <2>2. PICK next \in Persisting \union {"failed"} : step' = [step EXCEPT ![c] = next]
    BY <1>3, SinkMoves
  <2> QED
    BY <1>1, <2>1, <2>2 DEF Committing, Persisting, Sinks
<1>4. ASSUME NEW c \in Calls, putGlobalHead(c) PROVE GapInv'
  <2>1. /\ step[c] = "put_global" /\ step' = [step EXCEPT ![c] = "put_stream"]
        /\ crashes' = crashes /\ history' = history /\ chain' = Append(chain, c)
    BY <1>4 DEF putGlobalHead, goto
  <2>2. step'[c] = "put_stream" /\ \A d \in Calls : d # c => step'[d] = step[d]
    BY <2>1 DEF TypeOK
  <2>3. /\ DOMAIN chain' = 1..(Len(chain) + 1) /\ DOMAIN chain = 1..Len(chain)
        /\ Len(chain) \in Nat /\ chain'[Len(chain) + 1] = c
        /\ \A i \in 1..Len(chain) : chain'[i] = chain[i]
    BY <2>1 DEF ChainInv, Linked
  <2>4. \A i \in DOMAIN chain' : \/ i \in DOMAIN chain /\ chain'[i] = chain[i]
                                 \/ step'[chain'[i]] \in Committing
    BY <2>2, <2>3 DEF Committing
  <2>5. \A d \in Calls : step'[d] \in {"put_by_hash", "done"} => d \in history'
    BY <2>1, <2>2 DEF GapInv
  <2>6. \A d \in Calls : step[d] \in Committing => step'[d] \in Committing \/ d \in history'
    BY <2>2 DEF Committing
  <2> QED
    BY <2>1, <2>4, <2>5, <2>6, LivingKeepsGaps
<1>5. ASSUME NEW c \in Calls, putStreamHead(c) \/ putHistory(c) \/ putByHash(c) PROVE GapInv'
  <2>1. /\ crashes' = crashes /\ chain' = chain /\ history \subseteq history'
        /\ \/ step' = [step EXCEPT ![c] = "put_history"]
           \/ step' = [step EXCEPT ![c] = "put_by_hash"] /\ c \in history'
           \/ step' = [step EXCEPT ![c] = "done"] /\ c \in history'
    BY <1>5 DEF putStreamHead, putHistory, putByHash, goto, settle, GapInv
  <2> QED
    BY <1>1, <2>1 DEF Committing
<1>6. CASE Tick \/ UNCHANGED vars
  <2>1. UNCHANGED <<crashes, chain, history, step>>
    BY <1>6 DEF Tick, stored, vars
  <2> QED
    BY <2>1, LivingKeepsGaps DEF GapInv
<1> QED
  BY <1>2, <1>3, <1>4, <1>5, <1>6, CrashKeepsGaps DEF Next, Work

-----------------------------------------------------------------------------
(* Only putGlobalHead and putHistory move the abstract log.                *)
LEMMA StepImplementsLog ==
  ASSUME TypeOK, ChainInv, [Next]_vars
  PROVE  [Abstract!Next]_<<chain, history>>
<1>1. ASSUME NEW c \in Calls, putGlobalHead(c) PROVE Abstract!Next
  <2>1. \A i \in DOMAIN chain : chain[i] # c
    BY <1>1 DEF ChainInv, Linked, putGlobalHead, Committing
  <2>2. Abstract!Record(c)
    BY <1>1, <2>1 DEF putGlobalHead, Abstract!Record
  <2> QED
    BY <2>2 DEF Abstract!Next
<1>2. ASSUME NEW c \in Calls, putHistory(c) PROVE Abstract!Next
  <2>1. chain # <<>> /\ c = chain[Len(chain)]
    BY <1>2 DEF ChainInv, TaskOnHead, HeadOf, putHistory, Committing
  <2>2. Abstract!Show(c)
    BY <1>2, <2>1 DEF putHistory, Abstract!Show
  <2> QED
    BY <2>2 DEF Abstract!Next
<1>3. ASSUME NEW c \in Calls,
             \/ appendAuditLog(c) \/ ComputeEntry(c) \/ writeSink(c) \/ skipSink(c)
             \/ verdict(c) \/ putStreamHead(c) \/ putByHash(c)
      PROVE  UNCHANGED <<chain, history>>
  BY <1>3 DEF appendAuditLog, ComputeEntry, writeSink, skipSink, verdict, putStreamHead,
              putByHash, stored
<1>4. CASE Crash \/ Tick \/ UNCHANGED vars
  BY <1>4 DEF Crash, Tick, vars, stored
<1> QED
  BY <1>1, <1>2, <1>3, <1>4 DEF Next, Work

-----------------------------------------------------------------------------
(* The check of the links. Every nonempty set of naturals has a least      *)
(* element, and a bounded one a greatest.                                  *)
LEMMA LeastNatural ==
  ASSUME NEW T, T \subseteq Nat, T # {}
  PROVE  \E n \in T : \A m \in T : n <= m
<1>1. PICK n \in T : \A m \in T : ~ (<<m, n>> \in OpToRel(<, Nat))
  BY NatLessThanWellFounded, WFMin, Zenon
<1>2. \A m \in T : ~ (m < n)
  BY <1>1 DEF OpToRel
<1> QED
  BY <1>2

LEMMA GreatestNatural ==
  ASSUME NEW T, T \subseteq Nat, T # {}, NEW b \in Nat, \A m \in T : m <= b
  PROVE  \E n \in T : \A m \in T : m <= n
<1> DEFINE U == {k \in Nat : \E m \in T : k = b - m}
<1>1. U # {}
  <2>1. PICK m : m \in T
    OBVIOUS
  <2>2. b - m \in U
    BY <2>1
  <2> QED
    BY <2>2
<1>2. PICK k \in U : \A j \in U : k <= j
  BY <1>1, LeastNatural
<1>3. PICK n \in T : k = b - n
  BY <1>2
<1>4. ASSUME NEW m \in T PROVE m <= n
  <2>1. b - m \in U
    OBVIOUS
  <2>2. k <= b - m /\ m \in Nat /\ n \in Nat
    BY <1>2, <1>3, <2>1
  <2> QED
    BY <1>3, <2>2
<1> QED
  BY <1>3, <1>4

(* Rows that follow each other: pos tells their order, and the link of     *)
(* each row leads to the row before it, if there is one.                   *)
Places(R, pos) ==
  /\ IsFiniteSet(R) /\ \A e \in R : pos[e] \in Nat
  /\ \A d, e \in R : pos[d] = pos[e] => d = e

Follows(R, prev, pos) ==
  \A e \in R :
    \/ /\ prev[e] \in R /\ pos[prev[e]] < pos[e]
       /\ \A d \in R : pos[d] < pos[e] => pos[d] <= pos[prev[e]]
    \/ prev[e] \notin R /\ \A d \in R : ~(pos[d] < pos[e])

(* The last row, and the row after any other.                              *)
LEMMA LastRow ==
  ASSUME NEW R, NEW pos, Places(R, pos), R # {}
  PROVE  \E h \in R : \A d \in R : pos[d] <= pos[h]
<1> DEFINE Above(e) == {d \in R : pos[e] < pos[d]}
           T == {Cardinality(Above(e)) : e \in R}
<1>1. ASSUME NEW e \in R PROVE IsFiniteSet(Above(e)) /\ Cardinality(Above(e)) \in Nat
  BY FS_Subset, FS_CardinalityType DEF Places
<1>2. T \subseteq Nat /\ T # {}
  BY <1>1
<1>3. PICK n \in T : \A m \in T : n <= m
  BY <1>2, LeastNatural
<1>4. PICK h \in R : n = Cardinality(Above(h))
  BY <1>3
<1>5. ASSUME NEW d \in R, pos[h] < pos[d] PROVE FALSE
  <2>1. Above(d) \subseteq Above(h) \ {d} /\ d \in Above(h)
    BY <1>5 DEF Places
  <2>2. /\ IsFiniteSet(Above(h) \ {d})
        /\ Cardinality(Above(h) \ {d}) = Cardinality(Above(h)) - 1
    BY <1>1, <2>1, FS_RemoveElement
  <2>3. Cardinality(Above(d)) <= Cardinality(Above(h)) - 1
    BY <2>1, <2>2, FS_Subset
  <2>4. n <= Cardinality(Above(d)) /\ n \in Nat /\ Cardinality(Above(d)) \in Nat
    BY <1>1, <1>2, <1>3
  <2> QED
    BY <1>4, <2>3, <2>4
<1>6. \A d \in R : pos[d] \in Nat /\ pos[h] \in Nat
  BY DEF Places
<1> QED
  BY <1>5, <1>6

LEMMA NextRow ==
  ASSUME NEW R, NEW pos, Places(R, pos), NEW e \in R, NEW f \in R, pos[e] < pos[f]
  PROVE  \E d \in R : pos[e] < pos[d] /\ \A g \in R : pos[e] < pos[g] => pos[d] <= pos[g]
<1> DEFINE T == {pos[g] : g \in {g \in R : pos[e] < pos[g]}}
<1>1. T \subseteq Nat /\ T # {}
  BY DEF Places
<1>2. PICK n \in T : \A m \in T : n <= m
  BY <1>1, LeastNatural
<1>3. PICK d \in R : pos[e] < pos[d] /\ n = pos[d]
  BY <1>2
<1> QED
  BY <1>2, <1>3

(* The link of the row after e leads to e.                                 *)
LEMMA NextLinks ==
  ASSUME NEW R, NEW prev, NEW pos, Places(R, pos), Follows(R, prev, pos), NEW e \in R, NEW d \in R,
         pos[e] < pos[d], \A g \in R : pos[e] < pos[g] => pos[d] <= pos[g]
  PROVE  prev[d] = e
<1>1. prev[d] \in R /\ pos[prev[d]] < pos[d] /\ pos[e] <= pos[prev[d]]
  BY DEF Follows
<1>2. pos[e] \in Nat /\ pos[d] \in Nat /\ pos[prev[d]] \in Nat
  BY <1>1 DEF Places
<1>3. ~(pos[e] < pos[prev[d]])
  BY <1>1, <1>2
<1>4. pos[prev[d]] = pos[e]
  BY <1>1, <1>2, <1>3
<1> QED
  BY <1>1, <1>4 DEF Places

LEMMA AtMostOne ==
  ASSUME NEW S, NEW R, S \subseteq R, IsFiniteSet(R), \A x, y \in S : x = y
  PROVE  Cardinality(S) <= 1
<1>1. CASE S = {}
  BY <1>1, FS_EmptySet
<1>2. CASE S # {}
  <2>1. PICK x \in S : S = {x}
    BY <1>2
  <2>2. Cardinality(S) = 1
    BY <2>1, FS_Singleton, Zenon
  <2> QED
    BY <2>2
<1> QED
  BY <1>1, <1>2

-----------------------------------------------------------------------------
(* The walk over the links, n steps of it.                                 *)
Reach(w, R, prev, h, n) ==
  w = [k \in 0..n |-> IF k = 0 THEN {h} ELSE w[k - 1] \union {e \in R : e \in {prev[d] : d \in w[k - 1]}}]

LEMMA ReachExists ==
  ASSUME NEW R, NEW prev, NEW h, NEW n \in Nat
  PROVE  \E w : Reach(w, R, prev, h, n)
<1> DEFINE T == {k \in Nat : ~ \E w : Reach(w, R, prev, h, k)}
           More(s) == s \union {e \in R : e \in {prev[d] : d \in s}}
<1> SUFFICES ASSUME n \in T PROVE FALSE
  OBVIOUS
<1>1. PICK k \in T : \A j \in T : k <= j
  BY LeastNatural
<1>2. k # 0
  <2>1. Reach([i \in 0..0 |-> {h}], R, prev, h, 0)
    BY DEF Reach
  <2> QED
    BY <1>1, <2>1
<1>3. k \in Nat /\ k - 1 \in Nat /\ k - 1 \notin T
  BY <1>1, <1>2
<1>4. PICK w : Reach(w, R, prev, h, k - 1)
  BY <1>3
<1>5. w = [i \in 0..(k - 1) |-> IF i = 0 THEN {h} ELSE More(w[i - 1])]
  BY <1>4 DEF Reach
<1> DEFINE d == [i \in 0..k |-> IF i = k THEN More(w[k - 1]) ELSE w[i]]
<1>6. \A i \in 0..k : d[i] = IF i = 0 THEN {h} ELSE More(d[i - 1])
  <2> HIDE DEF More
  <2> SUFFICES ASSUME NEW i \in 0..k
               PROVE  d[i] = IF i = 0 THEN {h} ELSE More(d[i - 1])
    OBVIOUS
  <2>1. CASE i = k
    BY <1>2, <1>3, <2>1
  <2>2. CASE i # k
    <3>1. i \in 0..(k - 1) /\ d[i] = w[i]
      BY <1>3, <2>2
    <3>2. w[i] = IF i = 0 THEN {h} ELSE More(w[i - 1])
      BY <1>5, <3>1
    <3>3. i # 0 => d[i - 1] = w[i - 1]
      BY <1>3, <3>1
    <3> QED
      BY <3>1, <3>2, <3>3
  <2> QED
    BY <2>1, <2>2
<1>7. d = [i \in 0..k |-> IF i = 0 THEN {h} ELSE More(d[i - 1])]
  <2> HIDE DEF More
  <2> QED
    BY <1>6
<1>8. Reach(d, R, prev, h, k)
  BY <1>7 DEF Reach
<1> QED
  BY <1>1, <1>8

(* From the last row the walk reaches every row, in as many steps as there *)
(* are rows after it.                                                      *)
LEMMA ReachAll ==
  ASSUME NEW R, NEW prev, NEW pos, Places(R, pos), Follows(R, prev, pos),
         NEW h \in R, \A d \in R : pos[d] <= pos[h], NEW n \in Nat, NEW w, Reach(w, R, prev, h, n),
         Cardinality(R) <= n
  PROVE  w[n] = R
<1> DEFINE Above(e) == {d \in R : pos[e] < pos[d]}
<1>1. /\ w[0] = {h} 
      /\ \A k \in 1..n : w[k] = w[k - 1] \union {e \in R : e \in {prev[d] : d \in w[k - 1]}}
  BY DEF Reach
<1>2. \A k \in 0..n : w[k] \subseteq R /\ h \in w[k]
  <2> DEFINE T == {k \in Nat : k <= n /\ ~(w[k] \subseteq R /\ h \in w[k])}
  <2> SUFFICES ASSUME T # {} PROVE FALSE
    OBVIOUS
  <2>1. PICK k \in T : \A j \in T : k <= j
    BY LeastNatural
  <2>2. k # 0
    BY <1>1, <2>1
  <2>3. k - 1 \in Nat /\ k - 1 \notin T /\ k - 1 <= n /\ k \in 1..n
    BY <2>1, <2>2
  <2>4. w[k - 1] \subseteq R /\ h \in w[k - 1]
    BY <2>3
  <2> QED
    BY <1>1, <2>1, <2>3, <2>4
<1>3. ASSUME NEW e \in R PROVE IsFiniteSet(Above(e)) /\ Cardinality(Above(e)) \in Nat
  BY FS_Subset, FS_CardinalityType DEF Places
<1> DEFINE Missed(c) == \E e \in R, k \in 0..n : Cardinality(Above(e)) = c /\ c <= k /\ e \notin w[k]
           T == {c \in Nat : Missed(c)}
<1>4. T = {}
  <2> SUFFICES ASSUME T # {} PROVE FALSE
    OBVIOUS
  <2>1. PICK c \in T : \A m \in T : c <= m
    BY LeastNatural
  <2>2. PICK e \in R, k \in 0..n : Cardinality(Above(e)) = c /\ c <= k /\ e \notin w[k]
    BY <2>1
  <2>3. e # h
    BY <1>2, <2>2
  <2>4. pos[e] < pos[h]
    <3>1. pos[e] \in Nat /\ pos[h] \in Nat /\ pos[e] <= pos[h] /\ pos[e] # pos[h]
      BY <2>3 DEF Places
    <3> QED
      BY <3>1
  <2>5. PICK d \in R : pos[e] < pos[d] /\ \A g \in R : pos[e] < pos[g] => pos[d] <= pos[g]
    BY <2>4, NextRow
  <2>6. prev[d] = e
    BY <2>5, NextLinks
  <2>7. Above(d) \subseteq Above(e) \ {d} /\ d \in Above(e)
    BY <2>5 DEF Places
  <2>8. /\ IsFiniteSet(Above(e) \ {d})
        /\ Cardinality(Above(e) \ {d}) = Cardinality(Above(e)) - 1
    BY <1>3, <2>7, FS_RemoveElement
  <2>9. Cardinality(Above(d)) <= c - 1 /\ Cardinality(Above(d)) \in Nat /\ c \in Nat
    BY <1>3, <2>1, <2>2, <2>7, <2>8, FS_Subset
  <2>10. PICK a : a = Cardinality(Above(d))
    OBVIOUS
  <2>11. a \notin T /\ a \in Nat /\ a <= c - 1
    <3>1. a \in Nat /\ a <= c - 1
      BY <2>9, <2>10
    <3>2. ~(c <= a)
      BY <2>9, <3>1
    <3> HIDE DEF T
    <3> QED
      BY <2>1, <3>1, <3>2
  <2>12. k \in 1..n /\ k - 1 \in 0..n /\ a <= k - 1
    BY <2>2, <2>9, <2>11
  <2>13. d \in w[k - 1]
    BY <2>10, <2>11, <2>12
  <2>14. e \in w[k]
    BY <1>1, <2>6, <2>12, <2>13
  <2> QED
    BY <2>2, <2>14
<1>5. ASSUME NEW e \in R PROVE e \in w[n]
  <2>1. Cardinality(Above(e)) <= Cardinality(R) /\ Cardinality(R) \in Nat
    BY FS_Subset, FS_CardinalityType DEF Places
  <2>2. PICK c : c = Cardinality(Above(e))
    OBVIOUS
  <2>3. c \in Nat /\ c <= n /\ n \in 0..n
    BY <1>3, <2>1, <2>2
  <2> QED
    BY <1>4, <2>2, <2>3
<1> QED
  BY <1>2, <1>5

-----------------------------------------------------------------------------
(* Rows that follow each other pass.                                       *)
LEMMA FollowingHolds ==
  ASSUME NEW R, NEW prev, NEW pos, Places(R, pos), Follows(R, prev, pos)
  PROVE  linksHold(R, prev)
<1> DEFINE children(e) == {d \in R : prev[d] = e}
           external == {e \in R : prev[e] # GENESIS /\ prev[e] \notin R}
           heads == {e \in R : children(e) = {}}
<1>1. IsFiniteSet(R) /\ Cardinality(R) \in Nat
  BY FS_CardinalityType DEF Places
<1>2. ASSUME NEW e \in R PROVE Cardinality(children(e)) <= 1
  <2>1. ASSUME NEW x \in children(e), NEW y \in children(e), pos[x] < pos[y] PROVE FALSE
    <3>1. x \in R /\ y \in R /\ prev[x] = e /\ prev[y] = e /\ pos[e] \in Nat /\ pos[x] \in Nat
      BY DEF Places
    <3>2. pos[x] <= pos[e] /\ pos[e] < pos[x]
      BY <2>1, <3>1 DEF Follows
    <3> QED
      BY <3>1, <3>2
  <2>2. ASSUME NEW x \in children(e), NEW y \in children(e) PROVE x = y
    <3>1. pos[x] \in Nat /\ pos[y] \in Nat
      BY DEF Places
    <3>2. pos[x] = pos[y]
      BY <2>1, <3>1
    <3> QED
      BY <3>2 DEF Places
  <2> QED
    BY <1>1, <2>2, AtMostOne
<1>3. Cardinality(external) <= 1
  <2>1. ASSUME NEW x \in external, NEW y \in external PROVE x = y
    <3>1. ~(pos[x] < pos[y]) /\ ~(pos[y] < pos[x]) /\ pos[x] \in Nat /\ pos[y] \in Nat
      BY DEF Follows, Places
    <3>2. pos[x] = pos[y]
      BY <3>1
    <3> QED
      BY <3>2 DEF Places
  <2> QED
    BY <1>1, <2>1, AtMostOne
<1>4. ASSUME R # {}
      PROVE  Cardinality(heads) = 1 /\ \A h \in heads : visited(R, prev, h) = R
  <2>1. PICK h \in R : \A d \in R : pos[d] <= pos[h]
    BY <1>4, LastRow
  <2>2. children(h) = {}
    <3> SUFFICES ASSUME NEW d \in children(h) PROVE FALSE
      OBVIOUS
    <3>1. d \in R /\ prev[d] = h /\ pos[d] \in Nat /\ pos[h] \in Nat
      BY <2>1 DEF Places
    <3>2. pos[h] < pos[d] /\ pos[d] <= pos[h]
      BY <2>1, <3>1 DEF Follows
    <3> QED
      BY <3>1, <3>2
  <2>3. ASSUME NEW e \in R, e # h PROVE children(e) # {}
    <3>1. pos[e] \in Nat /\ pos[h] \in Nat /\ pos[e] # pos[h] /\ pos[e] <= pos[h]
      BY <2>1, <2>3 DEF Places
    <3>2. pos[e] < pos[h]
      BY <3>1
    <3>3. PICK d \in R : pos[e] < pos[d] /\ \A g \in R : pos[e] < pos[g] => pos[d] <= pos[g]
      BY <3>2, NextRow
    <3>4. prev[d] = e
      BY <3>3, NextLinks
    <3> QED
      BY <3>4
  <2>4. heads = {h}
    BY <2>2, <2>3
  <2>5. Cardinality(heads) = 1
    BY <2>4, FS_Singleton, Zenon
  <2>6. visited(R, prev, h) = R
    <3> DEFINE n == Cardinality(R)
               walk == CHOOSE w : Reach(w, R, prev, h, n)
    <3>1. Reach(walk, R, prev, h, n)
      BY <1>1, ReachExists
    <3>2. visited(R, prev, h) = walk[n]
      BY DEF visited, Reach
    <3>3. n <= n
      BY <1>1
    <3> HIDE DEF walk, n
    <3>4. n \in Nat /\ Cardinality(R) <= n
      BY <1>1, <3>3 DEF n
    <3> QED
      BY <2>1, <3>1, <3>2, <3>4, ReachAll
  <2> QED
    BY <2>4, <2>5, <2>6
<1> QED
  BY <1>2, <1>3, <1>4 DEF linksHold

-----------------------------------------------------------------------------
(* The chain by its places.                                                *)
Place(e) == CHOOSE i \in DOMAIN chain : chain[i] = e

LEMMA PlaceOf ==
  ASSUME ChainInv
  PROVE  /\ chain \in Seq(Calls) /\ Len(chain) \in Nat /\ DOMAIN chain = 1..Len(chain)
         /\ \A i \in 1..Len(chain) : Place(chain[i]) = i /\ chain[i] \in Calls /\ chain[i] # GENESIS
         /\ \A e \in history : Place(e) \in 1..Len(chain) /\ chain[Place(e)] = e
         /\ \A i \in 1..Len(chain) : entry[chain[i]].prev_hash = IF i = 1 THEN GENESIS ELSE chain[i - 1]
<1>1. chain \in Seq(Calls) /\ Len(chain) \in Nat /\ DOMAIN chain = 1..Len(chain)
  BY DEF ChainInv, Linked
<1>2. \A i \in 1..Len(chain) : Place(chain[i]) = i
  BY <1>1 DEF Place, ChainInv, Linked
<1>3. \A i \in 1..Len(chain) : chain[i] \in Calls /\ chain[i] # GENESIS
  BY <1>1, StreamsAssumption
<1>4. \A e \in history : Place(e) \in 1..Len(chain) /\ chain[Place(e)] = e
  BY <1>1, <1>2 DEF ChainInv, HistoryInChain
<1>5. \A i \in 1..Len(chain) : entry[chain[i]].prev_hash = IF i = 1 THEN GENESIS ELSE chain[i - 1]
  BY <1>1 DEF ChainInv, Linked
<1> QED
  BY <1>1, <1>2, <1>3, <1>4, <1>5

(* A stretch of the chain.                                                 *)
LEMMA PartOfChainFinite ==
  ASSUME ChainInv, NEW rows, rows \subseteq history
  PROVE  IsFiniteSet(rows)
<1>1. Len(chain) \in Nat
  BY PlaceOf
<1>2. PICK I : I = 1..Len(chain) /\ IsFiniteSet(I)
  BY <1>1, FS_Interval
<1>3. [i \in I |-> chain[i]] \in Surjection(I, {chain[i] : i \in I})
  BY DEF Surjection
<1>4. IsFiniteSet({chain[i] : i \in I})
  BY <1>2, <1>3, FS_Surjection
<1>5. rows \subseteq {chain[i] : i \in I}
  BY <1>2, PlaceOf
<1> QED
  BY <1>4, <1>5, FS_Subset

LEMMA StretchFollows ==
  ASSUME ChainInv, NEW rows, rows \subseteq history, NEW a \in 0..Len(chain), NEW b \in 0..Len(chain),
         rows = {chain[k] : k \in (a + 1)..b}
  PROVE  /\ Places(rows, [e \in rows |-> Place(e)])
         /\ Follows(rows, globalPrev(rows), [e \in rows |-> Place(e)])
<1> DEFINE pos == [e \in rows |-> Place(e)]
<1>1. /\ Len(chain) \in Nat /\ a \in Nat /\ b \in Nat
      /\ \A k \in (a + 1)..b : k \in 1..Len(chain) /\ k \in Nat
  BY PlaceOf
<1>2. \A e \in rows : pos[e] \in (a + 1)..b /\ chain[pos[e]] = e /\ pos[e] \in Nat
  BY <1>1, PlaceOf
<1>3. IsFiniteSet(rows)
  BY PartOfChainFinite
<1>4. Places(rows, pos)
  BY <1>2, <1>3 DEF Places
<1>5. ASSUME NEW e \in rows
      PROVE  \/ /\ globalPrev(rows)[e] \in rows /\ pos[globalPrev(rows)[e]] < pos[e]
                /\ \A d \in rows : pos[d] < pos[e] => pos[d] <= pos[globalPrev(rows)[e]]
             \/ globalPrev(rows)[e] \notin rows /\ \A d \in rows : ~(pos[d] < pos[e])
  <2>1. PICK k : k = pos[e]
    OBVIOUS
  <2>2. k \in (a + 1)..b /\ k \in Nat /\ k \in 1..Len(chain) /\ chain[k] = e
    BY <1>1, <1>2, <2>1
  <2>3. globalPrev(rows)[e] = IF k = 1 THEN GENESIS ELSE chain[k - 1]
    BY <2>2, PlaceOf DEF globalPrev
  <2>4. CASE k = a + 1
    <3>1. \A d \in rows : ~(pos[d] < pos[e])
      <4> SUFFICES ASSUME NEW d \in rows PROVE ~(pos[d] < pos[e])
        OBVIOUS
      <4>1. pos[d] \in (a + 1)..b /\ pos[e] = a + 1
        BY <1>2, <2>1, <2>4
      <4> HIDE DEF pos
      <4> QED
        BY <1>1, <4>1
    <3>2. GENESIS \notin rows
      BY <1>1, <1>2, PlaceOf
    <3>3. k # 1 => chain[k - 1] \notin rows
      <4> SUFFICES ASSUME k # 1, chain[k - 1] \in rows PROVE FALSE
        OBVIOUS
      <4>1. k - 1 \in 1..Len(chain)
        BY <2>2
      <4>2. pos[chain[k - 1]] = k - 1
        BY <4>1, PlaceOf
      <4> QED
        <5>1. k - 1 \in (a + 1)..b
          BY <1>2, <4>2
        <5> QED
          BY <1>1, <2>4, <5>1
    <3> QED
      BY <2>3, <3>1, <3>2, <3>3
  <2>5. CASE k # a + 1
    <3>1. k - 1 \in (a + 1)..b /\ k # 1 /\ k - 1 \in 1..Len(chain)
      BY <1>1, <2>2, <2>5
    <3>2. chain[k - 1] \in rows
      BY <3>1
    <3>3. pos[chain[k - 1]] = k - 1
      BY <3>1, <3>2, PlaceOf
    <3>4. k - 1 < k /\ \A m \in Nat : m < k => m <= k - 1
      BY <2>2
    <3>5. \A d \in rows : pos[d] < k => pos[d] <= k - 1
      BY <1>2, <3>4
    <3> HIDE DEF pos
    <3> QED
      BY <2>1, <2>3, <3>1, <3>2, <3>3, <3>4, <3>5
  <2> QED
    BY <2>4, <2>5
<1>6. Follows(rows, globalPrev(rows), pos)
  BY <1>5 DEF Follows
<1> QED
  BY <1>4, <1>6

(* Rows with a hole among them have two heads.                             *)
LEMMA HoleFound ==
  ASSUME ChainInv, NEW rows, rows \subseteq history, rows # {}, linksHold(rows, globalPrev(rows))
  PROVE  Contiguous(rows)
<1> DEFINE P == {Place(e) : e \in rows}
           children(e) == {d \in rows : globalPrev(rows)[d] = e}
           heads == {e \in rows : children(e) = {}}
<1>1. /\ P \subseteq 1..Len(chain) /\ P \subseteq Nat /\ P # {} /\ Len(chain) \in Nat
      /\ \A i \in P : chain[i] \in rows /\ i <= Len(chain)
  <2>1. \A e \in rows : Place(e) \in 1..Len(chain) /\ Place(e) \in Nat /\ chain[Place(e)] = e
    BY PlaceOf
  <2> QED
    BY <2>1, PlaceOf
<1>2. \A i \in 1..Len(chain) : chain[i] \in rows => i \in P
  BY PlaceOf
<1>3. PICK m \in P : \A i \in P : m <= i
  BY <1>1, LeastNatural
<1>4. PICK M \in P : \A i \in P : i <= M
  BY <1>1, GreatestNatural
<1>5. ASSUME NEW i \in P, i + 1 \notin P PROVE chain[i] \in heads
  <2>1. chain[i] \in rows /\ i \in 1..Len(chain)
    BY <1>1
  <2>2. ASSUME NEW d \in children(chain[i]) PROVE FALSE
    <3>1. d \in rows /\ globalPrev(rows)[d] = chain[i]
      OBVIOUS
    <3>2. PICK j : j = Place(d)
      OBVIOUS
    <3>3. j \in P /\ j \in 1..Len(chain) /\ chain[j] = d
      BY <1>1, <3>1, <3>2, PlaceOf
    <3>4. entry[d].prev_hash = chain[i]
      BY <3>1 DEF globalPrev
    <3>5. j # 1 /\ chain[j - 1] = chain[i]
      BY <2>1, <3>3, <3>4, PlaceOf
    <3>6. j - 1 \in 1..Len(chain)
      BY <1>1, <3>3, <3>5
    <3>7. j - 1 = i
      BY <2>1, <3>5, <3>6, PlaceOf
    <3>8. j = i + 1
      BY <1>1, <3>3, <3>7
    <3> QED
      BY <1>5, <3>3, <3>8
  <2> QED
    BY <2>1, <2>2
<1>6. \A x, y \in heads : x = y
  <2>1. Cardinality(heads) = 1 /\ IsFiniteSet(rows)
    <3>1. Cardinality(heads) = 1
      BY DEF linksHold
    <3> QED
      BY <3>1, PartOfChainFinite
  <2>2. IsFiniteSet(heads)
    BY <2>1, FS_Subset
  <2>3. PICK x : heads = {x}
    BY <2>1, <2>2, FS_Singleton, Zenon
  <2> QED
    BY <2>3
<1> HIDE DEF heads
<1>7. ASSUME NEW k \in m..M PROVE k \in P
  <2> SUFFICES ASSUME k \notin P PROVE FALSE
    OBVIOUS
  <2>0. k \in Nat /\ m < k /\ k < M /\ m \in Nat /\ M \in Nat
    BY <1>1, <1>3, <1>4
  <2> DEFINE Q == {i \in P : i < k}
  <2>1. PICK p \in Q : \A i \in Q : i <= p
    <3>0. m \in Q
      BY <1>3, <2>0
    <3>1. Q # {} /\ Q \subseteq Nat /\ \A i \in Q : i <= k
      <4>1. Q \subseteq Nat
        BY <1>1
      <4> QED
        BY <2>0, <3>0, <4>1
    <3> HIDE DEF Q
    <3> QED
      BY <2>0, <3>1, GreatestNatural
  <2>2. p \in P /\ p \in Nat /\ p < k
    BY <1>1, <2>1
  <2>3. p + 1 \notin P
    <3> SUFFICES ASSUME p + 1 \in P PROVE FALSE
      OBVIOUS
    <3>1. p + 1 # k /\ p + 1 < k
      BY <2>0, <2>2
    <3>2. p + 1 \in Q
      BY <3>1
    <3> QED
      BY <2>1, <2>2, <3>2
  <2>4. M + 1 \notin P
    BY <1>4, <2>0
  <2>5. chain[p] = chain[M]
    BY <1>4, <1>5, <1>6, <2>2, <2>3, <2>4
  <2>6. p = M
    BY <1>1, <1>4, <2>2, <2>5, PlaceOf
  <2> QED
    BY <2>0, <2>2, <2>6
<1>8. m - 1 \in 0..Len(chain) /\ M \in 0..Len(chain) /\ (m - 1) + 1 = m
  <2>1. m \in 1..Len(chain) /\ M \in 1..Len(chain) /\ Len(chain) \in Nat
    BY <1>1, <1>3, <1>4
  <2> QED
    BY <2>1
<1>9. rows = {chain[k] : k \in m..M}
  <2>1. ASSUME NEW e \in rows PROVE e \in {chain[k] : k \in m..M}
    <3>1. PICK k : k = Place(e)
      OBVIOUS
    <3>2. k \in P /\ chain[k] = e /\ k \in Nat /\ m \in Nat /\ M \in Nat
      BY <1>1, <1>3, <1>4, <3>1, PlaceOf
    <3>3. k \in m..M
      BY <1>3, <1>4, <3>2
    <3> QED
      BY <3>2, <3>3
  <2>2. ASSUME NEW k \in m..M PROVE chain[k] \in rows
    BY <1>1, <1>7
  <2> QED
    BY <2>1, <2>2
<1> QED
  BY <1>8, <1>9 DEF Contiguous

-----------------------------------------------------------------------------
(* The order of the streams: a stream head is an entry of the stream, none *)
(* of those that put their stream head is newer, and each entry names the  *)
(* newest one before it.                                                   *)
OrderedHeads ==
  \A s \in Streams \ {"global"} :
    /\ \/ lastHash[s] = GENESIS
       \/ \E k \in DOMAIN chain : lastHash[s] = chain[k] /\ StreamOf[chain[k]] = s
    /\ \A j \in DOMAIN chain : InStream(chain[j]) /\ StreamOf[chain[j]] = s =>
         \E k \in DOMAIN chain : j <= k /\ lastHash[s] = chain[k]

OrderedLink(i) ==
  LET e == chain[i] IN
  /\ \/ entry[e].stream_prev_hash = GENESIS
     \/ \E k \in DOMAIN chain :
          k < i /\ entry[e].stream_prev_hash = chain[k] /\ StreamOf[chain[k]] = StreamOf[e]
  /\ \A j \in DOMAIN chain : j < i /\ InStream(chain[j]) /\ StreamOf[chain[j]] = StreamOf[e] =>
       \E k \in DOMAIN chain : j <= k /\ k < i /\ entry[e].stream_prev_hash = chain[k]

OrderInv ==
  /\ OrderedHeads
  /\ \A i \in DOMAIN chain : InStream(chain[i]) /\ StreamOf[chain[i]] # "global" => OrderedLink(i)

(* The clock only moves on, so times rise along the chain.                 *)
TimeInv ==
  /\ clock \in Nat
  /\ \A i \in DOMAIN chain : entry[chain[i]].ts \in Nat /\ entry[chain[i]].ts <= clock
  /\ \A i, j \in DOMAIN chain : i <= j => entry[chain[i]].ts <= entry[chain[j]].ts
  /\ \A c \in Calls : step[c] \in Persisting =>
       /\ entry[c].ts \in Nat /\ entry[c].ts <= clock
       /\ \A i \in DOMAIN chain : entry[chain[i]].ts <= entry[c].ts

-----------------------------------------------------------------------------
(* Steps that keep the chain or append to it, and put no stream head.      *)
StaysIn(c) == c \in history' \/ step'[c] \in {"put_history", "put_by_hash"}

GrowsOnly ==
  /\ DOMAIN chain \subseteq DOMAIN chain'
  /\ \A i \in DOMAIN chain : chain'[i] = chain[i] /\ entry'[chain[i]] = entry[chain[i]]
  /\ \A s \in Streams \ {"global"} : lastHash'[s] = lastHash[s]
  /\ \A i \in DOMAIN chain' : StaysIn(chain'[i]) => i \in DOMAIN chain /\ InStream(chain[i])

LEMMA GrowthKeepsOrder ==
  ASSUME OrderInv, GrowsOnly PROVE OrderInv'
<1>1. ASSUME NEW s \in Streams \ {"global"}
      PROVE  /\ \/ lastHash'[s] = GENESIS
                \/ \E k \in DOMAIN chain' : lastHash'[s] = chain'[k] /\ StreamOf[chain'[k]] = s
             /\ \A j \in DOMAIN chain' : StaysIn(chain'[j]) /\ StreamOf[chain'[j]] = s =>
                  \E k \in DOMAIN chain' : j <= k /\ lastHash'[s] = chain'[k]
  <2>1. \/ lastHash'[s] = GENESIS
        \/ \E k \in DOMAIN chain' : lastHash'[s] = chain'[k] /\ StreamOf[chain'[k]] = s
    BY DEF OrderInv, OrderedHeads, GrowsOnly
  <2>2. ASSUME NEW j \in DOMAIN chain', StaysIn(chain'[j]), StreamOf[chain'[j]] = s
        PROVE  \E k \in DOMAIN chain' : j <= k /\ lastHash'[s] = chain'[k]
    <3>1. j \in DOMAIN chain /\ InStream(chain[j]) /\ StreamOf[chain[j]] = s
      BY <2>2 DEF GrowsOnly
    <3>2. PICK k \in DOMAIN chain : j <= k /\ lastHash[s] = chain[k]
      BY <3>1 DEF OrderInv, OrderedHeads
    <3> QED
      BY <3>2 DEF GrowsOnly
  <2> QED
    BY <2>1, <2>2
<1>2. OrderedHeads'
  BY <1>1 DEF OrderedHeads, InStream, StaysIn
<1>3. ASSUME NEW i \in DOMAIN chain', StaysIn(chain'[i]), StreamOf[chain'[i]] # "global"
      PROVE  OrderedLink(i)'
  <2>1. i \in DOMAIN chain /\ InStream(chain[i]) /\ chain'[i] = chain[i] /\ entry'[chain[i]] = entry[chain[i]]
    BY <1>3 DEF GrowsOnly
  <2>2. OrderedLink(i)
    BY <1>3, <2>1 DEF OrderInv
  <2>3. \/ entry[chain[i]].stream_prev_hash = GENESIS
        \/ \E k \in DOMAIN chain' :
             k < i /\ entry[chain[i]].stream_prev_hash = chain'[k] /\ StreamOf[chain'[k]] = StreamOf[chain[i]]
    BY <2>2 DEF OrderedLink, GrowsOnly
  <2>4. ASSUME NEW j \in DOMAIN chain', j < i, StaysIn(chain'[j]), StreamOf[chain'[j]] = StreamOf[chain[i]]
        PROVE  \E k \in DOMAIN chain' : j <= k /\ k < i /\ entry[chain[i]].stream_prev_hash = chain'[k]
    <3>1. j \in DOMAIN chain /\ InStream(chain[j]) /\ StreamOf[chain[j]] = StreamOf[chain[i]]
      BY <2>4 DEF GrowsOnly
    <3>2. PICK k \in DOMAIN chain : j <= k /\ k < i /\ entry[chain[i]].stream_prev_hash = chain[k]
      BY <2>2, <2>4, <3>1 DEF OrderedLink
    <3> QED
      BY <3>2 DEF GrowsOnly
  <2> QED
    BY <2>1, <2>3, <2>4 DEF OrderedLink, InStream, StaysIn
<1> QED
  BY <1>2, <1>3 DEF OrderInv, InStream, StaysIn

(* A new stream head: it is the last of the chain, and was computed on the *)
(* stream head it replaces.                                                *)
LEMMA PutStreamKeepsOrder ==
  ASSUME TypeOK, ChainInv, StreamInv, OrderInv, NEW c \in Calls, putStreamHead(c)
  PROVE  OrderInv'
<1> USE StreamsAssumption
<1>1. /\ lastHash' = [lastHash EXCEPT ![StreamOf[c]] = c] /\ history' = history
      /\ step[c] = "put_stream" /\ entry' = entry /\ chain' = chain
      /\ step' = [step EXCEPT ![c] = "put_history"]
  BY DEF putStreamHead, goto
<1>2. /\ step'[c] = "put_history" /\ \A d \in Calls : d # c => step'[d] = step[d]
      /\ StreamOf[c] \in Streams /\ lastHash'[StreamOf[c]] = c
      /\ \A s \in Streams : s # StreamOf[c] => lastHash'[s] = lastHash[s]
  BY <1>1 DEF TypeOK
<1>3. chain # <<>> /\ c = chain[Len(chain)]
  BY <1>1 DEF ChainInv, TaskOnHead, HeadOf, Committing
<1>4. /\ DOMAIN chain = 1..Len(chain) /\ Len(chain) \in Nat /\ Len(chain) # 0
      /\ \A i \in DOMAIN chain : chain[i] \in Calls /\ (chain[i] = c => i = Len(chain))
  BY <1>3 DEF ChainInv, Linked
<1>5. PICK n : n = Len(chain)
  OBVIOUS
<1>6. n \in Nat /\ n \in DOMAIN chain /\ chain[n] = c /\ \A i \in DOMAIN chain : i <= n /\ i \in Nat
  BY <1>3, <1>4, <1>5
<1>7. \A d \in Calls : d # c /\ StaysIn(d) => InStream(d)
  BY <1>1, <1>2 DEF InStream, StaysIn
<1>8. OrderedHeads'
  <2> SUFFICES ASSUME NEW s \in Streams \ {"global"}
               PROVE  /\ \/ lastHash'[s] = GENESIS
                         \/ \E k \in DOMAIN chain : lastHash'[s] = chain[k] /\ StreamOf[chain[k]] = s
                      /\ \A j \in DOMAIN chain : StaysIn(chain[j]) /\ StreamOf[chain[j]] = s =>
                           \E k \in DOMAIN chain : j <= k /\ lastHash'[s] = chain[k]
    BY <1>1 DEF OrderedHeads, InStream, StaysIn
  <2>1. CASE s = StreamOf[c]
    BY <1>2, <1>6, <2>1
  <2>2. CASE s # StreamOf[c]
    <3>1. lastHash'[s] = lastHash[s]
      BY <1>2, <2>2
    <3>2. \A j \in DOMAIN chain : StaysIn(chain[j]) /\ StreamOf[chain[j]] = s => InStream(chain[j])
      BY <1>4, <1>7, <2>2
    <3> QED
      BY <3>1, <3>2 DEF OrderInv, OrderedHeads
  <2> QED
    BY <2>1, <2>2
<1>9. ASSUME NEW i \in DOMAIN chain, i # n, StaysIn(chain[i]), StreamOf[chain[i]] # "global"
      PROVE  OrderedLink(i)'
  <2>1. chain[i] # c /\ InStream(chain[i])
    BY <1>4, <1>5, <1>7, <1>9
  <2>2. OrderedLink(i)
    BY <1>9, <2>1 DEF OrderInv
  <2>3. ASSUME NEW j \in DOMAIN chain, j < i, StaysIn(chain[j]) PROVE InStream(chain[j])
    <3>1. j # n
      BY <1>6, <2>3
    <3> QED
      BY <1>4, <1>5, <1>7, <2>3, <3>1
  <2> QED
    BY <1>1, <2>2, <2>3 DEF OrderedLink, InStream, StaysIn
<1>10. ASSUME StreamOf[c] # "global" PROVE OrderedLink(n)'
  <2>1. entry[c].stream_prev_hash = lastHash[StreamOf[c]]
    BY <1>1, <1>10 DEF StreamInv, Waiting
  <2>2. lastHash[StreamOf[c]] # c
    BY <1>1, <1>2, <1>10 DEF StreamInv, Published
  <2>3. StreamOf[c] \in Streams \ {"global"}
    BY <1>2, <1>10
  <2>4. \/ lastHash[StreamOf[c]] = GENESIS
        \/ \E k \in DOMAIN chain : lastHash[StreamOf[c]] = chain[k] /\ StreamOf[chain[k]] = StreamOf[c]
    BY <2>3 DEF OrderInv, OrderedHeads
  <2>5. \A k \in DOMAIN chain : chain[k] # c => k < n
    BY <1>6
  <2>6. \/ entry[c].stream_prev_hash = GENESIS
        \/ \E k \in DOMAIN chain :
             k < n /\ entry[c].stream_prev_hash = chain[k] /\ StreamOf[chain[k]] = StreamOf[c]
    BY <2>1, <2>2, <2>4, <2>5
  <2>7. ASSUME NEW j \in DOMAIN chain, j < n, StaysIn(chain[j]), StreamOf[chain[j]] = StreamOf[c]
        PROVE  \E k \in DOMAIN chain : j <= k /\ k < n /\ entry[c].stream_prev_hash = chain[k]
    <3>1. chain[j] # c
      BY <1>4, <1>5, <1>6, <2>7
    <3>2. InStream(chain[j])
      BY <1>4, <1>7, <2>7, <3>1
    <3>3. PICK k \in DOMAIN chain : j <= k /\ lastHash[StreamOf[c]] = chain[k]
      BY <2>3, <2>7, <3>2 DEF OrderInv, OrderedHeads
    <3> QED
      BY <2>1, <2>2, <2>5, <3>3
  <2> QED
    BY <1>1, <1>6, <2>6, <2>7 DEF OrderedLink, InStream, StaysIn
<1>11. \A i \in DOMAIN chain : StaysIn(chain[i]) /\ StreamOf[chain[i]] # "global" => OrderedLink(i)'
  BY <1>6, <1>9, <1>10
<1> QED
  BY <1>1, <1>8, <1>11 DEF OrderInv, InStream, StaysIn

LEMMA InitOrder == Init => OrderInv
BY StreamsAssumption DEF Init, OrderInv, OrderedHeads

LEMMA NextOrder ==
  ASSUME TypeOK, ChainInv, StreamInv, OrderInv, [Next]_vars
  PROVE  OrderInv'
<1>0. /\ DOMAIN chain = 1..Len(chain) /\ Len(chain) \in Nat
      /\ \A i \in DOMAIN chain : chain[i] \in Calls /\ step[chain[i]] \in Committing \union {"done", "lost"}
  BY DEF ChainInv, Linked
<1>1. ASSUME chain' = chain, \A i \in DOMAIN chain : entry'[chain[i]] = entry[chain[i]],
             \A s \in Streams \ {"global"} : lastHash'[s] = lastHash[s],
             \A c \in Calls : StaysIn(c) => InStream(c)
      PROVE  OrderInv'
  BY <1>0, <1>1, GrowthKeepsOrder DEF GrowsOnly
<1>2. ASSUME NEW c \in Calls, NEW next, step' = [step EXCEPT ![c] = next], chain' = chain,
             \A i \in DOMAIN chain : entry'[chain[i]] = entry[chain[i]], lastHash' = lastHash,
             history' = history \/ (history' = history \union {c} /\ step[c] = "put_history"),
             next \in {"put_history", "put_by_hash"} => step[c] \in {"put_history", "put_by_hash"}
      PROVE  OrderInv'
  <2>1. step'[c] = next /\ \A d \in Calls : d # c => step'[d] = step[d]
    BY <1>2 DEF TypeOK
  <2>2. \A d \in Calls : StaysIn(d) => InStream(d)
    BY <1>2, <2>1 DEF InStream, StaysIn
  <2> QED
    BY <1>1, <1>2, <2>2
<1>3. ASSUME NEW c \in Calls, appendAuditLog(c) PROVE OrderInv'
  BY <1>2, <1>3 DEF appendAuditLog, stored
<1>4. ASSUME NEW c \in Calls, ComputeEntry(c) PROVE OrderInv'
  <2>1. /\ step[c] = "queued" /\ UNCHANGED <<chain, history, lastHash>>
        /\ \E next \in {"failed"} \union Persisting : step' = [step EXCEPT ![c] = next]
        /\ \A d \in Calls : d # c => entry'[d] = entry[d]
    BY <1>4 DEF ComputeEntry, stored, settle, goto, persistStart, Persisting, Sinks, TypeOK
  <2>2. \A i \in DOMAIN chain : entry'[chain[i]] = entry[chain[i]]
    BY <1>0, <2>1 DEF Committing
  <2>3. PICK next \in {"failed"} \union Persisting : step' = [step EXCEPT ![c] = next]
    BY <2>1
  <2>4. next \notin {"put_history", "put_by_hash"}
    BY DEF Persisting, Sinks
  <2> QED
    BY <1>2, <2>1, <2>2, <2>3, <2>4
<1>5. ASSUME NEW c \in Calls, writeSink(c) \/ skipSink(c) \/ verdict(c) PROVE OrderInv'
  <2>1. UNCHANGED <<chain, history, lastHash, entry>>
    BY <1>5 DEF writeSink, skipSink, verdict, stored
  <2>2. PICK next \in Persisting \union {"failed"} : step' = [step EXCEPT ![c] = next]
    BY <1>5, SinkMoves
  <2>3. next \notin {"put_history", "put_by_hash"}
    BY DEF Persisting, Sinks
  <2> QED
    BY <1>2, <2>1, <2>2, <2>3
<1>6. ASSUME NEW c \in Calls, putGlobalHead(c) PROVE OrderInv'
  <2>1. /\ step[c] = "put_global" /\ step' = [step EXCEPT ![c] = "put_stream"]
        /\ entry' = entry /\ history' = history /\ chain' = Append(chain, c)
        /\ \A s \in Streams \ {"global"} : lastHash'[s] = lastHash[s]
    BY <1>6 DEF putGlobalHead, goto, TypeOK
  <2>2. step'[c] = "put_stream" /\ \A d \in Calls : d # c => step'[d] = step[d]
    BY <2>1 DEF TypeOK
  <2>3. /\ DOMAIN chain' = 1..(Len(chain) + 1) /\ DOMAIN chain = 1..Len(chain)
        /\ Len(chain) \in Nat /\ chain'[Len(chain) + 1] = c
        /\ \A i \in 1..Len(chain) : chain'[i] = chain[i]
    BY <2>1 DEF ChainInv, Linked
  <2>4. \A i \in DOMAIN chain : chain[i] # c
    BY <1>0, <2>1 DEF Committing
  <2>5. c \notin history
    BY <2>4 DEF ChainInv, HistoryInChain
  <2>6. ~StaysIn(c) /\ \A d \in Calls : d # c => (StaysIn(d) => InStream(d))
    BY <2>1, <2>2, <2>5 DEF InStream, StaysIn
  <2>7. \A i \in DOMAIN chain' : StaysIn(chain'[i]) => i \in DOMAIN chain /\ InStream(chain[i])
    <3> SUFFICES ASSUME NEW i \in DOMAIN chain', StaysIn(chain'[i])
                 PROVE  i \in DOMAIN chain /\ InStream(chain[i])
      OBVIOUS
    <3>1. i # Len(chain) + 1
      BY <2>3, <2>6
    <3>2. i \in DOMAIN chain
      BY <2>3, <3>1
    <3> QED
      BY <1>0, <2>3, <2>4, <2>6, <3>2
  <2>8. DOMAIN chain \subseteq DOMAIN chain'
    BY <2>3
  <2>9. GrowsOnly
    BY <2>1, <2>3, <2>7, <2>8 DEF GrowsOnly
  <2> QED
    BY <2>9, GrowthKeepsOrder
<1>7. ASSUME NEW c \in Calls, putHistory(c) PROVE OrderInv'
  <2>1. /\ step[c] = "put_history" /\ step' = [step EXCEPT ![c] = "put_by_hash"]
        /\ entry' = entry /\ history' = history \union {c} /\ lastHash' = lastHash /\ chain' = chain
    BY <1>7 DEF putHistory, goto
  <2> QED
    BY <1>2, <2>1
<1>8. ASSUME NEW c \in Calls, putByHash(c) PROVE OrderInv'
  <2>1. /\ step' = [step EXCEPT ![c] = "done"]
        /\ entry' = entry /\ history' = history /\ lastHash' = lastHash /\ chain' = chain
    BY <1>8 DEF putByHash, settle
  <2> QED
    BY <1>2, <2>1
<1>9. CASE Crash
  <2>1. /\ entry' = entry /\ history' = history /\ lastHash' = lastHash /\ chain' = chain
        /\ \A c \in Calls : step'[c] = IF step[c] \in {"queued"} \union Running THEN "lost" ELSE step[c]
    BY <1>9 DEF Crash, stored
  <2>2. \A c \in Calls : StaysIn(c) => InStream(c)
    BY <2>1 DEF InStream, StaysIn
  <2> QED
    BY <1>1, <2>1, <2>2
<1>10. CASE Tick \/ UNCHANGED vars
  <2>1. UNCHANGED <<entry, history, lastHash, step, chain>>
    BY <1>10 DEF Tick, stored, vars
  <2> QED
    BY <1>1, <2>1 DEF InStream, StaysIn
<1> QED
  BY <1>3, <1>4, <1>5, <1>6, <1>7, <1>8, <1>9, <1>10, PutStreamKeepsOrder DEF Next, Work

-----------------------------------------------------------------------------
LEMMA InitTime == Init => TimeInv
BY DEF Init, TimeInv, Persisting, Sinks

LEMMA NextTime ==
  ASSUME TypeOK, ChainInv, TimeInv, [Next]_vars
  PROVE  TimeInv'
<1>0. /\ DOMAIN chain = 1..Len(chain) /\ Len(chain) \in Nat
      /\ \A i \in DOMAIN chain : chain[i] \in Calls /\ step[chain[i]] \in Committing \union {"done", "lost"}
  BY DEF ChainInv, Linked
<1>1. ASSUME clock' \in Nat, clock <= clock', chain' = chain,
             \A i \in DOMAIN chain : entry'[chain[i]] = entry[chain[i]],
             \A c \in Calls : step'[c] \in Persisting =>
               \/ step[c] \in Persisting /\ entry'[c] = entry[c]
               \/ entry'[c].ts = clock
      PROVE  TimeInv'
  <2>1. clock \in Nat /\ clock' \in Nat /\ clock <= clock'
    BY <1>1 DEF TimeInv
  <2>2. \A i \in DOMAIN chain' : entry'[chain'[i]].ts \in Nat /\ entry'[chain'[i]].ts <= clock'
    BY <1>1, <2>1 DEF TimeInv
  <2>3. \A i, j \in DOMAIN chain' : i <= j => entry'[chain'[i]].ts <= entry'[chain'[j]].ts
    BY <1>1 DEF TimeInv
  <2>4. ASSUME NEW c \in Calls, step'[c] \in Persisting
        PROVE  /\ entry'[c].ts \in Nat /\ entry'[c].ts <= clock'
               /\ \A i \in DOMAIN chain' : entry'[chain'[i]].ts <= entry'[c].ts
    <3>1. CASE step[c] \in Persisting /\ entry'[c] = entry[c]
      BY <1>1, <2>1, <3>1 DEF TimeInv
    <3>2. CASE entry'[c].ts = clock
      BY <1>1, <2>1, <3>2 DEF TimeInv
    <3> QED
      BY <1>1, <2>4, <3>1, <3>2
  <2> QED
    BY <2>1, <2>2, <2>3, <2>4 DEF TimeInv
<1>2. ASSUME NEW c \in Calls, NEW next, step' = [step EXCEPT ![c] = next], UNCHANGED <<clock, chain, entry>>,
             next \in Persisting => step[c] \in Persisting
      PROVE  TimeInv'
  <2>1. step'[c] = next /\ \A d \in Calls : d # c => step'[d] = step[d]
    BY <1>2 DEF TypeOK
  <2>2. clock' \in Nat /\ clock <= clock'
    BY <1>2 DEF TimeInv
  <2> QED
    BY <1>1, <1>2, <2>1, <2>2
<1>3. ASSUME NEW c \in Calls, appendAuditLog(c) PROVE TimeInv'
  BY <1>2, <1>3 DEF appendAuditLog, Persisting, Sinks
<1>4. ASSUME NEW c \in Calls, ComputeEntry(c) PROVE TimeInv'
  <2> DEFINE new == [ts |-> clock, prev_hash |-> lastHash["global"],
                     stream_prev_hash |-> lastHash[StreamOf[c]]]
  <2>1. /\ step[c] = "queued" /\ UNCHANGED <<chain, clock>>
        /\ \E next : step' = [step EXCEPT ![c] = next]
        /\ entry' = [entry EXCEPT ![c] = new]
    BY <1>4 DEF ComputeEntry, settle, goto
  <2>2. entry'[c].ts = clock /\ \A d \in Calls : d # c => entry'[d] = entry[d] /\ step'[d] = step[d]
    BY <2>1 DEF TypeOK
  <2>3. \A i \in DOMAIN chain : entry'[chain[i]] = entry[chain[i]]
    BY <1>0, <2>1, <2>2 DEF Committing
  <2>4. clock' \in Nat /\ clock <= clock'
    BY <2>1 DEF TimeInv
  <2> QED
    BY <1>1, <2>1, <2>2, <2>3, <2>4
<1>5. ASSUME NEW c \in Calls, writeSink(c) \/ skipSink(c) \/ verdict(c) PROVE TimeInv'
  <2>1. UNCHANGED <<chain, clock, entry>> /\ step[c] \in Persisting
    BY <1>5, StreamsAssumption DEF writeSink, skipSink, verdict, Persisting, TypeOK, Sinks
  <2>2. PICK next \in Persisting \union {"failed"} : step' = [step EXCEPT ![c] = next]
    BY <1>5, SinkMoves
  <2> QED
    BY <1>2, <2>1, <2>2
<1>6. ASSUME NEW c \in Calls, putGlobalHead(c) PROVE TimeInv'
  <2>1. /\ step[c] = "put_global" /\ step' = [step EXCEPT ![c] = "put_stream"]
        /\ entry' = entry /\ clock' = clock /\ chain' = Append(chain, c)
    BY <1>6 DEF putGlobalHead, goto
  <2>2. step'[c] = "put_stream" /\ \A d \in Calls : d # c => step'[d] = step[d]
    BY <2>1 DEF TypeOK
  <2>3. /\ DOMAIN chain' = 1..(Len(chain) + 1) /\ chain'[Len(chain) + 1] = c
        /\ \A i \in 1..Len(chain) : chain'[i] = chain[i]
    BY <2>1 DEF ChainInv, Linked
  <2>4. \A d \in Calls : step'[d] \notin Persisting
    <3> SUFFICES ASSUME NEW d \in Calls, step'[d] \in Persisting PROVE FALSE
      OBVIOUS
    <3>1. d # c /\ step[d] \in Running /\ step[c] \in Running
      BY <2>1, <2>2 DEF Persisting, Sinks, Running
    <3>2. MyTurn(d) /\ MyTurn(c)
      BY <3>1, RunningHasTurn
    <3> QED
      BY <3>1, <3>2 DEF MyTurn
  <2>5. /\ entry[c].ts \in Nat /\ entry[c].ts <= clock
        /\ \A i \in DOMAIN chain : entry[chain[i]].ts <= entry[c].ts
    BY <2>1 DEF TimeInv, Persisting
  <2>6. \A i \in DOMAIN chain' : \/ i \in DOMAIN chain /\ chain'[i] = chain[i]
                                 \/ i = Len(chain) + 1 /\ chain'[i] = c
    BY <1>0, <2>3
  <2>7. \A i \in DOMAIN chain' : entry'[chain'[i]].ts \in Nat /\ entry'[chain'[i]].ts <= clock'
    BY <2>1, <2>5, <2>6 DEF TimeInv
  <2>8. ASSUME NEW i \in DOMAIN chain', NEW j \in DOMAIN chain', i <= j
        PROVE  entry'[chain'[i]].ts <= entry'[chain'[j]].ts
    <3>1. CASE j \in DOMAIN chain /\ chain'[j] = chain[j]
      <4>1. i # Len(chain) + 1
        BY <1>0, <2>8, <3>1
      <4>2. i \in DOMAIN chain /\ chain'[i] = chain[i]
        BY <2>6, <4>1
      <4> QED
        BY <2>1, <2>8, <3>1, <4>2 DEF TimeInv
    <3>2. CASE chain'[j] = c
      BY <2>1, <2>5, <2>6, <3>2
    <3> QED
      BY <2>6, <3>1, <3>2
  <2> QED
    BY <2>1, <2>4, <2>7, <2>8 DEF TimeInv
<1>7. ASSUME NEW c \in Calls, putStreamHead(c) \/ putHistory(c) \/ putByHash(c) PROVE TimeInv'
  <2>1. UNCHANGED <<chain, clock, entry>>
        /\ \E next \in {"put_history", "put_by_hash", "done"} : step' = [step EXCEPT ![c] = next]
    BY <1>7 DEF putStreamHead, putHistory, putByHash, goto, settle
  <2> QED
    BY <1>2, <2>1 DEF Persisting, Sinks
<1>8. CASE Crash
  <2>1. /\ UNCHANGED <<clock, entry, chain>>
        /\ \A c \in Calls : step'[c] = IF step[c] \in {"queued"} \union Running THEN "lost" ELSE step[c]
    BY <1>8 DEF Crash
  <2>2. \A c \in Calls : step'[c] \notin Persisting
    BY <2>1 DEF Persisting, Running, Sinks
  <2>3. clock' \in Nat /\ clock <= clock'
    BY <2>1 DEF TimeInv
  <2> QED
    BY <1>1, <2>1, <2>2, <2>3
<1>9. CASE Tick
  <2>1. /\ UNCHANGED <<step, entry, chain>> /\ clock' = clock + 1
    BY <1>9 DEF Tick
  <2>2. clock' \in Nat /\ clock <= clock'
    BY <2>1 DEF TimeInv
  <2> QED
    BY <1>1, <2>1, <2>2
<1>10. CASE UNCHANGED vars
  <2>1. UNCHANGED <<step, entry, chain, clock>>
    BY <1>10 DEF vars
  <2>2. clock' \in Nat /\ clock <= clock'
    BY <2>1 DEF TimeInv
  <2> QED
    BY <1>1, <2>1, <2>2
<1> QED
  BY <1>3, <1>4, <1>5, <1>6, <1>7, <1>8, <1>9, <1>10 DEF Next, Work

-----------------------------------------------------------------------------
(* The rows of one stream in a stretch of the chain follow each other.     *)
Stretch(rows, a, b) == rows = {chain[k] : k \in (a + 1)..b}
OfStream(rows, s) == {e \in rows : StreamOf[e] = s}

LEMMA StreamFollows ==
  ASSUME ChainInv, OrderInv, NEW rows, rows \subseteq history,
         NEW a \in 0..Len(chain), NEW b \in 0..Len(chain), Stretch(rows, a, b),
         NEW s, s # "global", NEW R, R = OfStream(rows, s)
  PROVE  /\ Places(R, [e \in R |-> Place(e)])
         /\ Follows(R, streamPrev(R), [e \in R |-> Place(e)])
<1> USE DEF Stretch, OfStream
<1> DEFINE pos == [e \in R |-> Place(e)]
<1>1. /\ Len(chain) \in Nat /\ a \in Nat /\ b \in Nat /\ DOMAIN chain = 1..Len(chain)
      /\ \A k \in (a + 1)..b : k \in 1..Len(chain) /\ k \in Nat
  BY PlaceOf
<1>2. \A e \in R : pos[e] \in (a + 1)..b /\ chain[pos[e]] = e /\ pos[e] \in Nat /\ pos[e] \in DOMAIN chain
  BY <1>1, PlaceOf
<1>3. IsFiniteSet(R)
  BY PartOfChainFinite
<1>4. Places(R, pos)
  <2>1. \A e \in R : pos[e] \in Nat /\ chain[pos[e]] = e
    BY <1>2
  <2> HIDE DEF pos
  <2>2. \A d, e \in R : pos[d] = pos[e] => d = e
    BY <2>1
  <2> QED
    BY <1>3, <2>1, <2>2 DEF Places
<1>5. \A k \in DOMAIN chain : chain[k] # GENESIS /\ (chain[k] \in R => pos[chain[k]] = k)
  BY <1>1, PlaceOf
<1>6. \A e \in R : InStream(e) /\ StreamOf[e] = s
  BY DEF InStream
<1>7. \A k \in (a + 1)..b : chain[k] \in rows
  OBVIOUS
<1>8. \A k, l \in DOMAIN chain : chain[k] = chain[l] => k = l
  BY DEF ChainInv, Linked
<1>9. \A e \in R : streamPrev(R)[e] = entry[e].stream_prev_hash
  BY DEF streamPrev
<1>10. \A e \in rows : StreamOf[e] = s => e \in R
  OBVIOUS
<1> HIDE DEF pos
<1>11. ASSUME NEW e \in R
       PROVE  \/ /\ streamPrev(R)[e] \in R /\ pos[streamPrev(R)[e]] < pos[e]
                 /\ \A d \in R : pos[d] < pos[e] => pos[d] <= pos[streamPrev(R)[e]]
              \/ streamPrev(R)[e] \notin R /\ \A d \in R : ~(pos[d] < pos[e])
  <2>1. PICK k, p : k = pos[e] /\ p = entry[e].stream_prev_hash
    OBVIOUS
  <2>2. k \in DOMAIN chain /\ chain[k] = e /\ k \in (a + 1)..b /\ k \in Nat
    BY <1>2, <2>1
  <2>3. OrderedLink(k)
    BY <1>6, <2>2 DEF OrderInv
  <2>4. p = GENESIS \/ \E l \in DOMAIN chain : l < k /\ p = chain[l] /\ StreamOf[chain[l]] = s
    BY <1>6, <2>1, <2>2, <2>3 DEF OrderedLink
  <2>5. \A j \in DOMAIN chain : j < k /\ InStream(chain[j]) /\ StreamOf[chain[j]] = s =>
          \E l \in DOMAIN chain : j <= l /\ l < k /\ p = chain[l]
    BY <1>6, <2>1, <2>2, <2>3 DEF OrderedLink
  <2>6. ASSUME NEW d \in R, pos[d] < k
        PROVE  \E l \in DOMAIN chain : pos[d] <= l /\ l < k /\ p = chain[l]
    BY <1>2, <1>6, <2>5, <2>6
  <2>7. CASE \E d \in R : pos[d] < k
    <3>1. PICK d \in R : pos[d] < k
      BY <2>7
    <3>2. PICK l \in DOMAIN chain : pos[d] <= l /\ l < k /\ p = chain[l]
      BY <2>6, <3>1
    <3>3. l \in (a + 1)..b
      <4>1. pos[d] \in (a + 1)..b /\ l \in 1..Len(chain)
        BY <1>1, <1>2, <3>2
      <4> QED
        BY <1>1, <2>2, <3>2, <4>1
    <3>4. StreamOf[p] = s
      BY <1>5, <2>4, <3>2
    <3>5. p \in R /\ pos[p] = l
      BY <1>5, <1>7, <1>10, <3>2, <3>3, <3>4
    <3>6. ASSUME NEW g \in R, pos[g] < k PROVE pos[g] <= l
      <4>1. PICK m \in DOMAIN chain : pos[g] <= m /\ m < k /\ p = chain[m]
        BY <2>6, <3>6
      <4>2. m = l
        BY <1>8, <3>2, <4>1
      <4> QED
        BY <4>1, <4>2
    <3> QED
      BY <1>9, <2>1, <3>2, <3>5, <3>6
  <2>8. CASE ~ \E d \in R : pos[d] < k
    <3>1. p \notin R
      <4> SUFFICES ASSUME p \in R PROVE FALSE
        OBVIOUS
      <4>1. p # GENESIS
        BY <1>2, <1>5
      <4>2. PICK l \in DOMAIN chain : l < k /\ p = chain[l]
        BY <2>4, <4>1
      <4>3. pos[p] = l
        BY <1>5, <4>2
      <4> QED
        BY <2>8, <4>2, <4>3
    <3> QED
      BY <1>9, <2>1, <2>8, <3>1
  <2> QED
    BY <2>7, <2>8
<1>12. Follows(R, streamPrev(R), pos)
  BY <1>11 DEF Follows
<1> QED
  BY <1>4, <1>12 DEF pos

(* An unbroken stretch passes the whole check.                             *)
LEMMA StretchPasses ==
  ASSUME TypeOK, ChainInv, OrderInv, SinkInv, NEW rows, rows \subseteq history,
         \A e \in rows : StreamOf[e] # "global", Contiguous(rows)
  PROVE  verifyAuditIntegrity(rows)
<1>1. PICK a \in 0..Len(chain), b \in 0..Len(chain) : rows = {chain[k] : k \in (a + 1)..b}
  BY DEF Contiguous
<1>2. ASSUME NEW e \in rows PROVE rowHolds(e)
  <2>1. env.mode = "required" =>
          env.bound \intersect Primary # {} /\ \A s \in env.bound \ {"kv"} : e \in sinks[s]
    BY DEF SinkInv, ImmutableFirst
  <2> QED
    BY <2>1 DEF rowHolds
<1>3. linksHold(rows, globalPrev(rows))
  BY <1>1, StretchFollows, FollowingHolds
<1>4. ASSUME NEW s \in {StreamOf[e] : e \in rows}
      PROVE  linksHold({e \in rows : StreamOf[e] = s}, streamPrev({e \in rows : StreamOf[e] = s}))
  <2>1. s # "global"
    OBVIOUS
  <2>2. PICK R : R = OfStream(rows, s)
    OBVIOUS
  <2>3. Stretch(rows, a, b)
    BY <1>1 DEF Stretch
  <2>4. Places(R, [e \in R |-> Place(e)]) /\ Follows(R, streamPrev(R), [e \in R |-> Place(e)])
    BY <2>1, <2>2, <2>3, StreamFollows
  <2> QED
    BY <2>2, <2>4, FollowingHolds DEF OfStream
<1> QED
  BY <1>2, <1>3, <1>4 DEF verifyAuditIntegrity

LEMMA RemovalSeen ==
  ASSUME TypeOK, ChainInv, OrderInv, SinkInv PROVE DetectsRemoval
<1> SUFFICES ASSUME NEW rows \in SUBSET history, \A e \in rows : StreamOf[e] # "global"
             PROVE  verifyAuditIntegrity(rows) <=> Contiguous(rows)
  BY DEF DetectsRemoval
<1>1. ASSUME Contiguous(rows) PROVE verifyAuditIntegrity(rows)
  BY <1>1, StretchPasses
<1>2. ASSUME verifyAuditIntegrity(rows) PROVE Contiguous(rows)
  <2>1. CASE rows = {}
    <3>1. Len(chain) \in Nat
      BY PlaceOf
    <3>2. 0 \in 0..Len(chain) /\ (0 + 1)..0 = {}
      BY <3>1
    <3>3. rows = {chain[k] : k \in (0 + 1)..0}
      BY <2>1, <3>2
    <3> QED
      BY <3>2, <3>3 DEF Contiguous
  <2>2. CASE rows # {}
    BY <1>2, <2>2, HoleFound DEF verifyAuditIntegrity
  <2> QED
    BY <2>1, <2>2
<1> QED
  BY <1>1, <1>2

-----------------------------------------------------------------------------
(* Without a crash the history is the chain, up to the entry that is being *)
(* written.                                                                *)
LEMMA HistoryIsChain ==
  ASSUME ChainInv, GapInv, crashes = 0
  PROVE  \E n \in 0..Len(chain) : history = {chain[k] : k \in 1..n}
<1>1. Len(chain) \in Nat /\ DOMAIN chain = 1..Len(chain) /\ chain \in Seq(Calls)
  BY PlaceOf
<1>2. Missing = {}
  <2>1. Cardinality(Missing) = 0
    BY MissingFinite DEF GapInv
  <2> QED
    BY <2>1, MissingFinite, FS_EmptySet
<1>3. \A i \in DOMAIN chain : chain[i] \in history \/ i = Len(chain)
  <2> SUFFICES ASSUME NEW i \in DOMAIN chain, chain[i] \notin history PROVE i = Len(chain)
    OBVIOUS
  <2>1. step[chain[i]] \in Committing /\ chain[i] \in Calls
    BY <1>1, <1>2 DEF Missing
  <2>2. chain[i] = chain[Len(chain)] /\ Len(chain) \in DOMAIN chain
    BY <1>1, <2>1 DEF ChainInv, TaskOnHead, HeadOf
  <2> QED
    BY <2>2 DEF ChainInv, Linked
<1>4. \A e \in history : \E i \in DOMAIN chain : chain[i] = e
  BY DEF ChainInv, HistoryInChain
<1>5. \A i, j \in DOMAIN chain : chain[i] = chain[j] => i = j
  BY DEF ChainInv, Linked
<1>6. CASE Len(chain) = 0 \/ chain[Len(chain)] \in history
  <2>1. \A i \in 1..Len(chain) : chain[i] \in history
    BY <1>1, <1>3, <1>6
  <2>2. history = {chain[k] : k \in 1..Len(chain)}
    BY <1>1, <1>4, <2>1
  <2> QED
    BY <1>1, <2>2
<1>7. CASE Len(chain) # 0 /\ chain[Len(chain)] \notin history
  <2>1. Len(chain) - 1 \in 0..Len(chain) /\ Len(chain) \in DOMAIN chain
    BY <1>1, <1>7
  <2>2. \A i \in 1..(Len(chain) - 1) : i \in DOMAIN chain /\ i # Len(chain)
    <3>1. PICK l : l = Len(chain) /\ l \in Nat /\ DOMAIN chain = 1..l
      BY <1>1
    <3>2. \A i \in 1..(l - 1) : i \in 1..l /\ i # l
      BY <3>1
    <3> QED
      BY <3>1, <3>2
  <2>3. \A i \in DOMAIN chain : i # Len(chain) => i \in 1..(Len(chain) - 1)
    <3>1. PICK l : l = Len(chain) /\ l \in Nat /\ DOMAIN chain = 1..l
      BY <1>1
    <3>2. \A i \in 1..l : i # l => i \in 1..(l - 1)
      BY <3>1
    <3> QED
      BY <3>1, <3>2
  <2>4. history = {chain[k] : k \in 1..(Len(chain) - 1)}
    BY <1>3, <1>4, <1>7, <2>2, <2>3
  <2> QED
    BY <2>1, <2>4
<1> QED
  BY <1>6, <1>7

LEMMA HistorySize ==
  ASSUME ChainInv, NEW n \in 0..Len(chain), history = {chain[k] : k \in 1..n}
  PROVE  Cardinality(history) = n
<1>1. n \in Nat /\ n \in Int /\ 1 \in Int /\ 1..n \subseteq DOMAIN chain
  BY PlaceOf
<1>2. PICK I : I = 1..n
  OBVIOUS
<1>3. IsFiniteSet(I) /\ Cardinality(I) = n
  BY <1>1, <1>2, FS_Interval
<1>4. [i \in I |-> chain[i]] \in Bijection(I, history)
  <2>1. \A i, j \in I : chain[i] = chain[j] => i = j
    BY <1>1, <1>2 DEF ChainInv, Linked
  <2> QED
    <3>1. [i \in I |-> chain[i]] \in [I -> history]
      BY <1>2
    <3>2. \A e \in history : \E i \in I : [k \in I |-> chain[k]][i] = e
      BY <1>2
    <3>3. [i \in I |-> chain[i]] \in Surjection(I, history)
      BY <3>1, <3>2 DEF Surjection
    <3>4. [i \in I |-> chain[i]] \in Injection(I, history)
      <4>1. \A i, j \in I : [k \in I |-> chain[k]][i] = [k \in I |-> chain[k]][j] => i = j
        BY <2>1
      <4> QED
        BY <3>1, <4>1 DEF Injection, IsInjective
    <3> QED
      BY <3>3, <3>4 DEF Bijection
<1> QED
  BY <1>3, <1>4, FS_Bijection DEF ExistsBijection

(* Times rise along the chain, so the window is its newest stretch.        *)
LEMMA WindowIsStretch ==
  ASSUME TypeOK, ChainInv, TimeInv, NEW n \in 0..Len(chain), history = {chain[k] : k \in 1..n},
         \A d, e \in history : d # e => entry[d].ts # entry[e].ts,
         NEW limit \in Int, 1 <= limit
  PROVE  /\ Contiguous(window(limit))
         /\ history # {} => chain[n] \in window(limit)
<1> DEFINE before(e) == {d \in history : listedBefore(d, e)}
<1>1. /\ n \in Nat /\ Len(chain) \in Nat /\ 1..n \subseteq DOMAIN chain
      /\ \A i \in 1..n : i \in 1..Len(chain) /\ i \in Nat /\ chain[i] \in history /\ Place(chain[i]) = i
  BY PlaceOf
<1>2. \A i, j \in 1..n : chain[i] = chain[j] => i = j
  BY <1>1
<1>3. ASSUME NEW i \in 1..n, NEW j \in 1..n, i < j PROVE entry[chain[i]].ts < entry[chain[j]].ts
  <2>1. entry[chain[i]].ts <= entry[chain[j]].ts /\ entry[chain[i]].ts \in Nat /\ entry[chain[j]].ts \in Nat
    BY <1>1, <1>3 DEF TimeInv
  <2>2. entry[chain[i]].ts # entry[chain[j]].ts
    BY <1>1, <1>2, <1>3
  <2> QED
    BY <2>1, <2>2
<1>4. \A i \in 1..n : entry[chain[i]].ts \in Nat /\ HashRank[chain[i]] \in Nat
  BY <1>1, RankAssumption DEF TimeInv, TypeOK
<1>5. ASSUME NEW i \in 1..n, NEW j \in 1..n PROVE listedBefore(chain[j], chain[i]) <=> i < j
  <2>1. CASE i < j
    BY <1>3, <1>4, <2>1 DEF listedBefore
  <2>2. CASE j < i
    <3>1. entry[chain[j]].ts < entry[chain[i]].ts
      BY <1>3, <2>2
    <3> QED
      BY <1>1, <1>4, <2>2, <3>1 DEF listedBefore
  <2>3. CASE i = j
    BY <1>1, <1>4, <2>3 DEF listedBefore
  <2> QED
    BY <1>1, <2>1, <2>2, <2>3
<1>6. IsFiniteSet(history)
  BY PartOfChainFinite
<1>7. \A e \in history : IsFiniteSet(before(e)) /\ Cardinality(before(e)) \in Nat
  BY <1>6, FS_Subset, FS_CardinalityType
<1>8. ASSUME NEW i \in 1..n, NEW j \in 1..n, i <= j, chain[i] \in window(limit)
      PROVE  chain[j] \in window(limit)
  <2>1. \A d \in before(chain[j]) : d \in before(chain[i])
    <3> SUFFICES ASSUME NEW d \in before(chain[j]) PROVE listedBefore(d, chain[i])
      OBVIOUS
    <3>1. PICK k \in 1..n : d = chain[k]
      OBVIOUS
    <3>2. j < k
      BY <1>5, <3>1
    <3>3. i < k
      BY <1>1, <1>8, <3>2
    <3> QED
      BY <1>5, <3>1, <3>3
  <2>2. Cardinality(before(chain[j])) <= Cardinality(before(chain[i]))
    BY <1>1, <1>7, <2>1, FS_Subset
  <2>3. Cardinality(before(chain[i])) < limit
    BY <1>8 DEF window
  <2>4. Cardinality(before(chain[i])) \in Nat /\ Cardinality(before(chain[j])) \in Nat
    BY <1>1, <1>7
  <2>5. Cardinality(before(chain[j])) < limit
    BY <2>2, <2>3, <2>4
  <2> QED
    BY <1>1, <2>5 DEF window
<1>9. ASSUME n # 0 PROVE chain[n] \in window(limit)
  <2>1. n \in 1..n
    BY <1>1, <1>9
  <2>2. before(chain[n]) = {}
    <3> SUFFICES ASSUME NEW d \in before(chain[n]) PROVE FALSE
      OBVIOUS
    <3>1. PICK k \in 1..n : d = chain[k]
      OBVIOUS
    <3>2. n < k
      BY <1>5, <2>1, <3>1
    <3> QED
      BY <1>1, <3>2
  <2>3. Cardinality(before(chain[n])) < limit
    BY <2>2, FS_EmptySet
  <2> QED
    BY <1>1, <2>1, <2>3 DEF window
<1>10. n = 0 => history = {}
  BY <1>1
<1>11. window(limit) \subseteq history
  BY DEF window
<1>12. Contiguous(window(limit))
  <2>1. CASE n = 0
    <3>1. window(limit) = {chain[k] : k \in (0 + 1)..0}
      BY <1>10, <1>11, <2>1
    <3>2. 0 \in 0..Len(chain)
      BY <1>1
    <3> QED
      BY <3>1, <3>2 DEF Contiguous
  <2>2. CASE n # 0
    <3> DEFINE P == {i \in 1..n : chain[i] \in window(limit)}
    <3>1. P # {} /\ P \subseteq Nat
      BY <1>1, <1>9, <2>2
    <3>2. PICK m \in P : \A i \in P : m <= i
      BY <3>1, LeastNatural
    <3>3. m \in 1..n /\ chain[m] \in window(limit) /\ m \in Nat
      BY <1>1, <3>2
    <3>4. m - 1 \in 0..Len(chain) /\ (m - 1) + 1 = m
      BY <1>1, <3>3
    <3>5. ASSUME NEW k \in m..n PROVE chain[k] \in window(limit)
      <4>1. k \in 1..n /\ m <= k
        BY <1>1, <3>3
      <4> QED
        BY <1>8, <3>3, <4>1
    <3>6. ASSUME NEW e \in window(limit) PROVE \E k \in m..n : e = chain[k]
      <4>1. PICK k \in 1..n : e = chain[k]
        BY <1>11
      <4>2. m <= k
        BY <3>2, <4>1
      <4>3. k \in m..n
        BY <1>1, <3>3, <4>1, <4>2
      <4> QED
        BY <4>1, <4>3
    <3>7. window(limit) = {chain[k] : k \in m..n}
      BY <3>5, <3>6
    <3> QED
      BY <3>4, <3>7 DEF Contiguous
  <2> QED
    BY <2>1, <2>2
<1> QED
  BY <1>9, <1>10, <1>12

LEMMA WindowsPass ==
  ASSUME TypeOK, ChainInv, OrderInv, TimeInv, SinkInv, GapInv
  PROVE  UntouchedWindowPasses
<1> SUFFICES ASSUME crashes = 0, \A d, e \in history : d # e => entry[d].ts # entry[e].ts,
                    \A e \in history : StreamOf[e] # "global", NEW limit \in 1..Cardinality(Calls)
             PROVE  /\ verifyAuditIntegrity(window(limit))
                    /\ history # {} => chain[Cardinality(history)] \in window(limit)
  BY DEF UntouchedWindowPasses
<1>1. PICK n \in 0..Len(chain) : history = {chain[k] : k \in 1..n}
  BY HistoryIsChain
<1>2. Cardinality(history) = n
  BY <1>1, HistorySize
<1>3. limit \in Int /\ 1 <= limit
  OBVIOUS
<1>4. Contiguous(window(limit)) /\ (history # {} => chain[n] \in window(limit))
  BY <1>1, <1>3, WindowIsStretch
<1>5. window(limit) \subseteq history
  BY DEF window
<1>6. verifyAuditIntegrity(window(limit))
  BY <1>4, <1>5, StretchPasses
<1> QED
  BY <1>2, <1>4, <1>6

-----------------------------------------------------------------------------
(* The promise chain auditLock keeps its discipline whichever tasks fail   *)
(* and whenever the object crashes: at most one task is past the lock, and *)
(* it is the oldest one that has not settled.                              *)
THEOREM TypeCorrect == Spec => []TypeOK
<1>1. Init => TypeOK
  BY InitType
<1>2. TypeOK /\ [Next]_vars => TypeOK'
  BY NextType
<1> QED
  BY <1>1, <1>2, PTL DEF Spec

(* The invariant that carries the chain: each head names the head before   *)
(* it, and the task past the lock was computed on the present head.        *)
THEOREM ChainHolds == Spec => []ChainInv
<1>1. Init => ChainInv
  BY InitChain
<1>2. TypeOK /\ ChainInv /\ [Next]_vars => ChainInv'
  BY NextChain
<1> QED
  BY <1>1, <1>2, TypeCorrect, PTL DEF Spec

(* appendAuditLog never forks the global chain: no two entries of the      *)
(* history have the same prev_hash, for any number of concurrent calls,    *)
(* streams, failing sinks and crashes.                                     *)
THEOREM ChainNeverForks == Spec => []NoFork
<1>1. ChainInv => NoFork
  BY ChainImpliesNoFork
<1> QED
  BY <1>1, ChainHolds, PTL

(* appendAuditLog never forks the chain of an event either, although its   *)
(* head is put after the global one and a crash can come in between.       *)
THEOREM StreamsNeverFork == Spec => []NoStreamFork
<1>1. Init => StreamInv
  BY InitStream
<1>2. TypeOK /\ ChainInv /\ StreamInv /\ [Next]_vars => StreamInv'
  BY NextStream
<1>3. TypeOK /\ ChainInv /\ StreamInv => NoStreamFork
  BY StreamImpliesNoFork
<1> QED
  BY <1>1, <1>2, <1>3, TypeCorrect, ChainHolds, PTL DEF Spec

(* appendAuditLog puts the head before the history: each crash costs the   *)
(* history at most one entry that became a head, for any number of calls.  *)
THEOREM GapsBounded == Spec => []GapsBoundedByCrashes
<1>1. Init => GapInv
  BY InitGap
<1>2. TypeOK /\ ChainInv /\ GapInv /\ [Next]_vars => GapInv'
  BY NextGap
<1>3. GapInv => GapsBoundedByCrashes
  BY DEF GapInv, Missing, GapsBoundedByCrashes
<1> QED
  BY <1>1, <1>2, <1>3, TypeCorrect, ChainHolds, PTL DEF Spec

(* In required mode persistImmutableAuditEntry comes before the history:   *)
(* an entry a reader finds is in every configured blocking sink.           *)
THEOREM RequiredMeansImmutable == Spec => []ImmutableFirst
<1>1. Init => SinkInv
  BY InitSink
<1>2. TypeOK /\ SinkInv /\ [Next]_vars => SinkInv'
  BY NextSink
<1>3. SinkInv => ImmutableFirst
  BY DEF SinkInv
<1> QED
  BY <1>1, <1>2, <1>3, TypeCorrect, PTL DEF Spec

(* The audit log is an append-only log: heads are recorded once, in one    *)
(* order, and only the newest one can become visible in the history.       *)
THEOREM Refinement == Spec => ImplementsAppendOnlyLog
<1>1. Init => Abstract!Init
  BY DEF Init, Abstract!Init
<1>2. TypeOK /\ ChainInv /\ [Next]_vars => [Abstract!Next]_<<chain, history>>
  BY StepImplementsLog
<1> QED
  BY <1>1, <1>2, TypeCorrect, ChainHolds, PTL
     DEF Spec, ImplementsAppendOnlyLog, Abstract!Spec
-----------------------------------------------------------------------------
(* The report on the history: verifyAuditIntegrity says ok of what is left *)
(* of the history, after any removal of rows, exactly when that is an      *)
(* unbroken stretch of the chain, for any number of calls, streams and     *)
(* crashes, whichever sinks fail.                                          *)
THEOREM RemovalDetected == Spec => []DetectsRemoval
<1>1. Init => StreamInv /\ OrderInv /\ SinkInv
  BY InitStream, InitOrder, InitSink
<1>2. TypeOK /\ ChainInv /\ StreamInv /\ [Next]_vars => StreamInv'
  BY NextStream
<1>3. TypeOK /\ ChainInv /\ StreamInv /\ OrderInv /\ [Next]_vars => OrderInv'
  BY NextOrder
<1>4. TypeOK /\ ChainInv /\ OrderInv /\ SinkInv => DetectsRemoval
  BY RemovalSeen
<1> QED
  BY <1>1, <1>2, <1>3, <1>4, NextSink, TypeCorrect, ChainHolds, PTL DEF Spec

(* verifyAuditIntegrity raises no false alarm: without a crash, and while  *)
(* no two rows share a millisecond, it passes the newest rows of an        *)
(* untouched history whatever their number, the newest row among them.     *)
THEOREM UntouchedPasses == Spec => []UntouchedWindowPasses
<1>1. Init => StreamInv /\ OrderInv /\ TimeInv /\ SinkInv /\ GapInv
  BY InitStream, InitOrder, InitTime, InitSink, InitGap
<1>2. TypeOK /\ ChainInv /\ StreamInv /\ [Next]_vars => StreamInv'
  BY NextStream
<1>3. TypeOK /\ ChainInv /\ StreamInv /\ OrderInv /\ [Next]_vars => OrderInv'
  BY NextOrder
<1>4. TypeOK /\ ChainInv /\ TimeInv /\ [Next]_vars => TimeInv'
  BY NextTime
<1>5. TypeOK /\ ChainInv /\ GapInv /\ [Next]_vars => GapInv'
  BY NextGap
<1>6. TypeOK /\ ChainInv /\ OrderInv /\ TimeInv /\ SinkInv /\ GapInv => UntouchedWindowPasses
  BY WindowsPass
<1> QED
  BY <1>1, <1>2, <1>3, <1>4, <1>5, <1>6, NextSink, TypeCorrect, ChainHolds, PTL DEF Spec
=============================================================================
