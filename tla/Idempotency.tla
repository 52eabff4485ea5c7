----------------------------- MODULE Idempotency -----------------------------
(***************************************************************************)
(* At-most-once mutations by Idempotency-Key (common/idempotency), inside  *)
(* the request transaction of tenancy/tenant-transaction.interceptor.ts.   *)
(*                                                                         *)
(* The interceptor looks the key up, runs the handler and stores the       *)
(* response, all in one READ COMMITTED transaction.  The lookup locks      *)
(* nothing, and the upsert of store() never fails on a duplicate.  One     *)
(* user of one tenant is modelled: (tenant_id, user_id) only partitions    *)
(* the records.                                                            *)
(***************************************************************************)
EXTENDS Integers

CONSTANTS
  Keys,      \* Idempotency-Key values a client sends
  Targets,   \* method and path of a mutating endpoint
  Bodies,    \* request payloads, up to the SHA-256 of their JSON
  Requests,  \* concurrently running requests
  MaxRuns    \* bound: handler runs explored per key lifetime

ASSUME IdempotencyAssumptions == MaxRuns \in Nat \ {0}

VARIABLES
  record,    \* per key: the stored request and its response, or {}
  expired,   \* keys whose record is past expiresAt
  runs,      \* per key: committed handler runs since its record last expired
  replayed,  \* pairs <<request answered, request whose response was used>>
  tx,        \* per request: the request it is handling, or {}
  raced      \* ghost: keys under which a request committed while another one
             \*   that had found no record was still running

keyVars == <<record, expired, runs, replayed, tx, raced>>

Call == [target : Targets, body : Bodies]
Held == [key : Keys, call : Call]

KeyTypeOK ==
  /\ record \in [Keys -> {{}} \cup {{c} : c \in Call}]
  /\ expired \subseteq {k \in Keys : record[k] # {}}
  /\ runs \in [Keys -> Nat]
  /\ replayed \subseteq Call \X Call
  /\ tx \in [Requests -> {{}} \cup {{h} : h \in Held}]
  /\ raced \subseteq Keys

KeyInit ==
  /\ record = [k \in Keys |-> {}]
  /\ expired = {}
  /\ runs = [k \in Keys |-> 0]
  /\ replayed = {}
  /\ tx = [r \in Requests |-> {}]
  /\ raced = {}

-----------------------------------------------------------------------------
(* hashRequest covers the body only.                                       *)
hashRequest(call) == call.body

(* lookup: null for no record; an expired record is deleted and treated as *)
(* first use (the delete is undone if the request fails).                  *)
FirstUse(r, k, call) ==
  /\ tx[r] = {}
  /\ record[k] = {} \/ k \in expired
  /\ k \in expired \/ runs[k] < MaxRuns
  /\ tx' = [tx EXCEPT ![r] = {[key |-> k, call |-> call]}]
  /\ UNCHANGED <<record, expired, runs, replayed, raced>>

(* An exact replay answers with the stored response, whatever else it is.  *)
(* A different hash is a 409, which changes nothing.                       *)
Replay(r, k, call) ==
  /\ tx[r] = {}
  /\ k \notin expired
  /\ \E original \in record[k] :
       /\ hashRequest(original) = hashRequest(call)
       /\ replayed' = replayed \cup {<<call, original>>}
  /\ UNCHANGED <<record, expired, runs, tx, raced>>

(* COMMIT; the ghost notes that another request uses the key.              *)
Commit(r, k) ==
  /\ tx' = [tx EXCEPT ![r] = {}]
  /\ raced' = IF \E q \in Requests \ {r} : \E h \in tx[q] : h.key = k
              THEN raced \cup {k} ELSE raced

(* Mutant: the response is not stored with the effect.                     *)
StoreNothing(r) ==
  \E h \in tx[r] :
    /\ runs' = [runs EXCEPT ![h.key] = @ + 1]
    /\ Commit(r, h.key)
    /\ UNCHANGED <<record, expired, replayed>>

(* The handler ran; its effect and the upserted record commit together.    *)
Store(r) ==
  \E h \in tx[r] :
    /\ record' = [record EXCEPT ![h.key] = {h.call}]
    /\ expired' = expired \ {h.key}
    /\ runs' = [runs EXCEPT ![h.key] = IF h.key \in expired THEN 1 ELSE @ + 1]
    /\ Commit(r, h.key)
    /\ UNCHANGED replayed

(* Mutant: a failed request's response is stored as well.                  *)
FailStored(r) ==
  \E h \in tx[r] :
    /\ record' = [record EXCEPT ![h.key] = {h.call}]
    /\ tx' = [tx EXCEPT ![r] = {}]
    /\ UNCHANGED <<expired, runs, replayed, raced>>

(* The handler threw: neither effect nor record remains.                   *)
Fail(r) ==
  /\ tx[r] # {}
  /\ tx' = [tx EXCEPT ![r] = {}]
  /\ UNCHANGED <<record, expired, runs, replayed, raced>>

(* 24 hours pass for a record.                                             *)
Expire(k) ==
  /\ record[k] # {} /\ k \notin expired
  /\ expired' = expired \cup {k}
  /\ UNCHANGED <<record, runs, replayed, tx, raced>>

KeyNext ==
  \/ \E k \in Keys : Expire(k)
  \/ \E r \in Requests : Store(r) \/ Fail(r)
  \/ \E r \in Requests, k \in Keys, call \in Call : FirstUse(r, k, call) \/ Replay(r, k, call)

KeySpec == KeyInit /\ [][KeyNext]_keyVars

-----------------------------------------------------------------------------
(* A record stands for a committed effect: replaying it never hides a      *)
(* request that did not happen.                                            *)
RecordHasRun == \A k \in Keys : record[k] # {} => runs[k] > 0

(* "a key reused with a different request hash is a 409": a replayed       *)
(* response always belongs to a request with the same body.                *)
ReplayHasSameBody == \A p \in replayed : p[1].body = p[2].body

(* A replayed answer is the answer to this request: it was computed for    *)
(* the same body and its effect is committed (lookup, store).              *)
ReplayIsFaithful == RecordHasRun /\ ReplayHasSameBody

(* "At-most-once mutations": one handler run per key lifetime, unless a    *)
(* retry overlaps the request it repeats.                                  *)
AtMostOnce == \A k \in Keys \ raced : runs[k] <= 1
==============================================================================
