---------------------------- MODULE MasterSearch ----------------------------
(***************************************************************************)
(* GET /api/master/search over what ClaimFlow writes: the disclosures of   *)
(* the admin who owns the event, with the event, its claims and the        *)
(* transfers found in the audit history, indexed in SQL and in memory.     *)
(*                                                                         *)
(* An index is keyed by the head of the audit log, so it is replaced when  *)
(* the log moves and not when the data does. Neither the search nor the    *)
(* revocation of an admin code is on a fail-closed route: when the         *)
(* immutable sinks refuse the entry, both are answered all the same and    *)
(* the head stays. A search waits for storage only, so it is one step up   *)
(* to its own audit entry. What a query matches and how hits are ranked is *)
(* left out: an answer is the documents it could be chosen from.           *)
(***************************************************************************)
EXTENDS ClaimFlow

CONSTANTS
  TransferLimits,   (* values of ?transferLimit=                             *)
  RowsPerTransfer,  (* scanMultiplier of getTransferLogs                     *)
  KeepKeys,         (* MASTER_SEARCH_SQL_KEEP_KEYS                           *)
  IndexTtl          (* MASTER_SEARCH_INDEX_TTL_MS, in ticks                  *)

ASSUME MasterSearchAssumption ==
  /\ TransferLimits \subseteq Nat \ {0} /\ RowsPerTransfer \in Nat \ {0}
  /\ KeepKeys \in Nat \ {0} /\ IndexTtl \in Nat
  /\ None \notin Int \X [includeRevoked : BOOLEAN, transferLimit : TransferLimits]

VARIABLES
  hasSql,    (* the object has SQL storage                                   *)
  revoked,   (* the owner's admin code is revoked                            *)
  sql,       (* the indexes in SQL that have their meta row                  *)
  sqlMeta,   (* memory: masterSearchSqlMetaCache, the key or None            *)
  memory,    (* memory: masterSearchIndexCache or None                       *)
  found,     (* the latest answer                                            *)
  behind,    (* something a search shows changed since the log last moved    *)
  squeezed   (* the log has not moved since a millisecond was crowded        *)

caches == <<sql, sqlMeta, memory>>
searchVars == <<vars, hasSql, revoked, caches, found, behind, squeezed>>

SearchInit ==
  /\ Init
  /\ hasSql \in BOOLEAN /\ revoked = FALSE
  /\ sql = {} /\ sqlMeta = None /\ memory = None
  /\ found = None /\ behind = FALSE /\ squeezed = FALSE

-----------------------------------------------------------------------------
(* Documents.                                                              *)

Options == [includeRevoked : BOOLEAN, transferLimit : TransferLimits]

(* toTransferLogView: only the entries of a claim carry a transfer.        *)
isTransfer(i) == audit[i].subject # None

(* The newest transfers, up to limit, among the newest rows.               *)
getTransferLogs(limit) ==
  {i \in DOMAIN audit :
     /\ isTransfer(i)
     /\ i > Len(audit) - limit * RowsPerTransfer
     /\ Cardinality({j \in DOMAIN audit : j > i /\ isTransfer(j)}) < limit}

(* getMasterAdminDisclosures: the owner, the event with its state and its  *)
(* claimants, and the transfers, or nothing when the owner is left out.    *)
getMasterAdminDisclosures(o) ==
  IF revoked /\ ~o.includeRevoked THEN {}
  ELSE {<<"admin", revoked>>, <<"event", published>>}
         \union {<<"claimed", s>> : s \in {t \in Subjects : claims[t].history # <<>>}}
         \union {<<"claim", i>> : i \in getTransferLogs(o.transferLimit)}

auditHead == lastHash["global"]

(* Mutant: the audit head is not part of the key.                          *)
KeyOfOptions(o) == o

indexKey(o) == <<auditHead, o>>

newIndex(o) == [key |-> indexKey(o), builtAt |-> clock, docs |-> getMasterAdminDisclosures(o)]

-----------------------------------------------------------------------------
(* The index.                                                              *)

(* pruneMasterSearchSqlIndexes: the KeepKeys built last stay; which of     *)
(* those built in one millisecond is up to the database.                   *)
pruned(indexes) ==
  {kept \in SUBSET indexes :
     /\ Cardinality(kept) = IF Cardinality(indexes) < KeepKeys THEN Cardinality(indexes) ELSE KeepKeys
     /\ \A x \in kept, y \in indexes \ kept : x.builtAt >= y.builtAt}

(* What SQL may hold once a new index is inserted, its meta row last.      *)
persistMasterSearchSqlIndex(new) == pruned(sql \union {new})

(* ensureMasterSearchSqlIndex: the caches after it.                        *)
ensureMasterSearchSqlIndex(o) ==
  LET key == indexKey(o)
      hit == sqlMeta = key \/ \E x \in sql : x.key = key
  IN {[sql |-> s, meta |-> key, memory |-> IF hit THEN memory ELSE newIndex(o)] :
        s \in IF hit THEN {sql} ELSE persistMasterSearchSqlIndex(newIndex(o))}

searchMasterIndexSql(s, key) == UNION {x.docs : x \in {y \in s : y.key = key}}

(* getMasterSearchIndex: the index in memory, m, unless it is of another   *)
(* key or too old.                                                         *)
getMasterSearchIndex(m, o) ==
  IF m # None /\ m.key = indexKey(o) /\ clock - m.builtAt <= IndexTtl THEN m ELSE newIndex(o)

(* A search that is answered from SQL, or from memory when there is no SQL *)
(* storage, an insert fails before the meta row, or the query fails.       *)
search(r, o) ==
  /\ at(r, "idle")
  /\ \/ /\ hasSql
        /\ \E c \in ensureMasterSearchSqlIndex(o) :
             /\ sql' = c.sql /\ sqlMeta' = c.meta /\ memory' = c.memory
             /\ found' = [by |-> r, options |-> o, docs |-> searchMasterIndexSql(c.sql, c.meta)]
     \/ \E c \in {[sql |-> sql, meta |-> sqlMeta, memory |-> memory]}
                   \union (IF hasSql THEN ensureMasterSearchSqlIndex(o) ELSE {}) :
          LET built == getMasterSearchIndex(c.memory, o) IN
          /\ sql' = c.sql /\ sqlMeta' = c.meta /\ memory' = built
          /\ found' = [by |-> r, options |-> o, docs |-> built.docs]
  /\ goto(r, "answer_open", [req[r] EXCEPT !.stream = "system", !.reply = "found"])
  /\ UNCHANGED <<env, clock, crashes, stored, auditLog, hasSql, revoked>>

(* POST /api/admin/revoke: audited by the API trail only.                  *)
revokeCode(r) ==
  /\ at(r, "idle")
  /\ revoked' = TRUE
  /\ goto(r, "answer_open", [req[r] EXCEPT !.stream = "system", !.reply = "revoked"])
  /\ UNCHANGED <<env, clock, crashes, stored, auditLog, hasSql, caches, found>>

(* appendApiAuditTrail on a route that is not fail-closed: without the     *)
(* entry, when required mode refuses it, the answer is the same.           *)
answerOpen(r) ==
  /\ at(r, "answer_open")
  /\ \/ serving /\ trail(r)
     \/ failClosed /\ UNCHANGED auditLog
  /\ goto(r, "done", req[r])
  /\ UNCHANGED <<env, clock, crashes, stored, hasSql, revoked, caches, found>>

(* The object is lost with what it kept in memory.                         *)
CrashSearch ==
  /\ Crash
  /\ sqlMeta' = None /\ memory' = None
  /\ UNCHANGED <<hasSql, revoked, sql, found>>

SearchStep ==
  \/ \E r \in Requests : revokeCode(r) \/ answerOpen(r) \/ \E o \in Options : search(r, o)
  \/ CrashSearch
  \/ /\ (\E r \in Requests : Receive(r) \/ Proceed(r)) \/ Tick
     /\ UNCHANGED <<hasSql, revoked, caches, found>>

(* What getMasterAdminDisclosures reads apart from the log.                *)
shown == <<published, {s \in Subjects : claims[s].history # <<>>}, revoked>>

(* As many indexes as are kept were built in this millisecond.             *)
crowded == Cardinality({x \in sql : x.builtAt = clock}) >= KeepKeys

SearchNext ==
  /\ SearchStep
  /\ behind' = (auditHead' = auditHead /\ (behind \/ shown' # shown))
  /\ squeezed' = (auditHead' = auditHead /\ (squeezed \/ crowded))

SearchSpec == SearchInit /\ [][SearchNext]_searchVars

-----------------------------------------------------------------------------
(* Properties.                                                             *)

(* Changes nobody was told have succeeded, and the revocation of a code,   *)
(* which is answered with or without its audit entry.                      *)
Unsettled ==
  \/ revoked
  \/ \E r \in Requests : \/ req[r].pc \in (Working \ {"answer_open"}) \union {"lost"}
                         \/ req[r].reply \in {"500", "503"}

(* A search shows the data as it is, every claim and close that was        *)
(* answered with success included. It may miss only a change that is not   *)
(* followed by an audit entry and is still running, failed, or is a        *)
(* revocation. It may find nothing at all when more than KeepKeys indexes  *)
(* share a millisecond: the new one may be the one that is pruned, and     *)
(* masterSearchSqlMetaCache remembers its key until the log moves.         *)
SearchCurrent ==
  [][found' # found =>
       \/ behind /\ Unsettled
       \/ found'.docs = {} /\ (squeezed \/ crowded)
       \/ found'.docs = getMasterAdminDisclosures(found'.options)]_searchVars
=============================================================================
