------------------------ MODULE Infrastructure_proofs ------------------------
(***************************************************************************)
(* Theorems about the three mechanisms every module of the API is built    *)
(* on: the job queues (JobQueue), the idempotency keys of mutating         *)
(* requests (Idempotency) and document numbering (DocumentSequence).  They *)
(* share no state.                                                         *)
(***************************************************************************)
EXTENDS JobQueue, Idempotency, DocumentSequence, FiniteSetTheorems, TLAPS

-----------------------------------------------------------------------------
(* Part 1.  The job queue.                                                 *)

(* A worker that is handed a job which may run knows its name.  It is a    *)
(* condition on how queues are shared: the pdf queue does not meet it      *)
(* (queue.constants.ts, payslip-pdf.worker.ts).                            *)
WorkersKnowTheirQueue ==
  \A w \in Workers, j \in Jobs :
    Subscribed[w] = JobQueueOf[j] /\ withTenantJob(j) => j \in Handles[w]

JobState == {"none", "waiting", "active", "completed", "failed"}

QueueTypes ==
  /\ state \in [Jobs -> JobState]
  /\ tries \in [Jobs -> Nat]
  /\ stalls \in [Jobs -> Nat]
  /\ effects \in [Jobs -> Nat]
  /\ holds \in [Workers -> SUBSET Jobs]
  /\ handled \subseteq Workers
  /\ draining \subseteq Workers
  /\ crashes \in 0 .. MaxCrashes

(* A worker holds one job at most, an active one of its own queue, and no  *)
(* job is held twice.                                                      *)
HeldOnce ==
  \A w \in Workers : \A j \in holds[w] :
    /\ holds[w] = {j}
    /\ state[j] = "active"
    /\ Subscribed[w] = JobQueueOf[j]
    /\ \A v \in Workers \ {w} : j \notin holds[v]

(* A job that may still run has attempts left, and stalled once at most.   *)
AttemptsLeft ==
  \A j \in Jobs :
    /\ tries[j] <= Attempts
    /\ stalls[j] <= 2
    /\ state[j] \in {"none", "waiting", "active"} => tries[j] < Attempts /\ stalls[j] <= 1

(* The worker has run the body of the job it holds.                        *)
BodyRan(j) == \E w \in handled : j \in holds[w]

(* Every run of a body that is not the last one was followed by a throw or *)
(* a stall.                                                                *)
RunsCounted ==
  \A j \in Jobs :
    /\ effects[j] <= 1 + stalls[j] + tries[j]
    /\ state[j] \in {"none", "waiting"} => effects[j] <= stalls[j] + tries[j]
    /\ state[j] = "active" /\ ~ BodyRan(j) => effects[j] <= stalls[j] + tries[j]

(* Only a worker that holds a job has run a body, and a body that ran to   *)
(* its end has committed its effect.                                       *)
BodyHasEffect ==
  /\ \A w \in handled : holds[w] # {}
  /\ \A j \in Jobs : BodyRan(j) \/ state[j] = "completed" => effects[j] > 0

QueueInv == QueueTypes /\ HeldOnce /\ AttemptsLeft /\ RunsCounted

(* No queue holds a job at first.                                          *)
LEMMA QueueInit == Init => QueueInv /\ BodyHasEffect
  BY JobQueueAssumptions
  DEF Init, QueueInv, QueueTypes, JobState, HeldOnce, AttemptsLeft, RunsCounted, BodyRan,
      BodyHasEffect

(* Every step of a queue or a worker keeps the invariant.                  *)
LEMMA QueueStep == QueueInv /\ [Next]_vars => QueueInv'
<1> SUFFICES ASSUME QueueInv, [Next]_vars
             PROVE  QueueInv'
  OBVIOUS
<1> USE JobQueueAssumptions DEF QueueInv, QueueTypes, JobState
<1>1. ASSUME NEW j \in Jobs, Enqueue(j)
      PROVE  QueueInv'
  BY <1>1 DEF Enqueue, HeldOnce, AttemptsLeft, RunsCounted, BodyRan
<1>2. ASSUME NEW w \in Workers, NEW j \in Jobs, Take(w, j)
      PROVE  QueueInv'
  <2>1. QueueTypes'
    BY <1>2 DEF Take
  <2>2. HeldOnce'
    BY <1>2 DEF Take, HeldOnce
  <2>3. AttemptsLeft' /\ RunsCounted'
    BY <1>2 DEF Take, AttemptsLeft, RunsCounted, BodyRan
  <2> QED
    BY <2>1, <2>2, <2>3
<1>3. ASSUME NEW w \in Workers, NEW j \in Jobs, Handle(w, j)
      PROVE  QueueInv'
  <2>1. QueueTypes'
    BY <1>3 DEF Handle
  <2>2. HeldOnce' /\ AttemptsLeft'
    BY <1>3 DEF Handle, HeldOnce, AttemptsLeft
  <2>3. RunsCounted'
    <3>1. state[j] = "active" /\ ~ BodyRan(j)
      BY <1>3 DEF Handle, HeldOnce, BodyRan
    <3>2. BodyRan(j)'
      BY <1>3 DEF Handle, BodyRan
    <3>3. effects'[j] <= 1 + stalls[j] + tries[j]
      BY <1>3, <3>1 DEF Handle, RunsCounted
    <3>4. \A i \in Jobs \ {j} : effects'[i] = effects[i] /\ (BodyRan(i)' <=> BodyRan(i))
      BY <1>3 DEF Handle, BodyRan, HeldOnce
    <3> QED
      BY <1>3, <3>1, <3>2, <3>3, <3>4 DEF Handle, RunsCounted
  <2> QED
    BY <2>1, <2>2, <2>3
<1>4. ASSUME NEW w \in Workers, NEW j \in Jobs, Complete(w, j)
      PROVE  QueueInv'
  <2>1. QueueTypes' /\ HeldOnce' /\ AttemptsLeft'
    BY <1>4 DEF Complete, Release, HeldOnce, AttemptsLeft
  <2>2. \A i \in Jobs \ {j} : BodyRan(i)' <=> BodyRan(i)
    BY <1>4 DEF Complete, Release, BodyRan, HeldOnce
  <2>3. RunsCounted'
    BY <1>4, <2>2 DEF Complete, Release, RunsCounted
  <2> QED
    BY <2>1, <2>3
<1>5. ASSUME NEW w \in Workers, NEW j \in Jobs, Throw(w, j)
      PROVE  QueueInv'
  <2>1. throws(j) \in {"failed", "waiting"} /\ (throws(j) = "waiting" => tries[j] + 1 < Attempts)
    BY DEF throws
  <2>2. state[j] = "active"
    BY <1>5 DEF Throw, HeldOnce
  <2>3. QueueTypes' /\ HeldOnce'
    BY <1>5, <2>1 DEF Throw, Release, HeldOnce
  <2>4. AttemptsLeft'
    BY <1>5, <2>1, <2>2 DEF Throw, Release, AttemptsLeft
  <2>5. \A i \in Jobs \ {j} : BodyRan(i)' <=> BodyRan(i)
    BY <1>5 DEF Throw, Release, BodyRan, HeldOnce
  <2>6. RunsCounted'
    BY <1>5, <2>1, <2>5 DEF Throw, Release, RunsCounted
  <2> QED
    BY <2>3, <2>4, <2>6
<1>6. ASSUME NEW w \in Workers, Crash(w)
      PROVE  QueueInv'
  <2>1. \A j \in holds[w] : state[j] = "active"
    BY DEF HeldOnce
  <2>2. QueueTypes'
    BY <1>6 DEF Crash
  <2>3. HeldOnce'
    BY <1>6 DEF Crash, HeldOnce
  <2>4. AttemptsLeft'
    BY <1>6, <2>1 DEF Crash, AttemptsLeft
  <2>5. \A i \in Jobs \ holds[w] : BodyRan(i)' <=> BodyRan(i)
    BY <1>6 DEF Crash, BodyRan, HeldOnce
  <2>6. RunsCounted'
    BY <1>6, <2>5 DEF Crash, RunsCounted
  <2> QED
    BY <2>2, <2>3, <2>4, <2>6
<1>7. ASSUME NEW w \in Workers, Drain(w) \/ Restart(w)
      PROVE  QueueInv'
  BY <1>7 DEF Drain, Restart, HeldOnce, AttemptsLeft, RunsCounted, BodyRan
<1>8. CASE UNCHANGED vars
  <2>1. UNCHANGED <<state, tries, stalls, effects, holds, handled, draining, crashes>>
    BY <1>8 DEF vars
  <2> QED
    BY <2>1 DEF HeldOnce, AttemptsLeft, RunsCounted, BodyRan
<1> QED
  BY <1>1, <1>2, <1>3, <1>4, <1>5, <1>6, <1>7, <1>8 DEF Next, Settle

(* A job is completed only by the worker that ran its body, and that body  *)
(* commits because the worker knows the job.                               *)
LEMMA EffectStep ==
  WorkersKnowTheirQueue /\ QueueInv /\ BodyHasEffect /\ [Next]_vars => BodyHasEffect'
<1> SUFFICES ASSUME WorkersKnowTheirQueue, QueueInv, BodyHasEffect, [Next]_vars
             PROVE  BodyHasEffect'
  OBVIOUS
<1> USE JobQueueAssumptions DEF QueueInv, QueueTypes, JobState
<1>1. ASSUME NEW j \in Jobs, Enqueue(j)
      PROVE  BodyHasEffect'
  BY <1>1 DEF Enqueue, BodyHasEffect, BodyRan
<1>2. ASSUME NEW w \in Workers, NEW j \in Jobs, Take(w, j)
      PROVE  BodyHasEffect'
  BY <1>2 DEF Take, BodyHasEffect, BodyRan
<1>3. ASSUME NEW w \in Workers, NEW j \in Jobs, Handle(w, j)
      PROVE  BodyHasEffect'
  <2>1. j \in Handles[w]
    BY <1>3 DEF Handle, HeldOnce, WorkersKnowTheirQueue
  <2>2. effects'[j] = effects[j] + 1 /\ \A i \in Jobs \ {j} : effects'[i] = effects[i]
    BY <1>3, <2>1 DEF Handle
  <2>3. \A i \in Jobs \ {j} : BodyRan(i)' <=> BodyRan(i)
    BY <1>3 DEF Handle, BodyRan, HeldOnce
  <2> QED
    BY <1>3, <2>2, <2>3 DEF Handle, BodyHasEffect
<1>4. ASSUME NEW w \in Workers, NEW j \in Jobs, Settle(w, j)
      PROVE  BodyHasEffect'
  <2>1. \A i \in Jobs : BodyRan(i)' => BodyRan(i)
    BY <1>4 DEF Settle, Complete, Throw, Release, BodyRan
  <2>2. \A v \in handled' : holds'[v] # {}
    BY <1>4 DEF Settle, Complete, Throw, Release, BodyHasEffect
  <2>3. \A i \in Jobs : state'[i] = "completed" => state[i] = "completed" \/ BodyRan(i)
    BY <1>4 DEF Settle, Complete, Throw, Release, throws, BodyRan
  <2>4. effects' = effects
    BY <1>4 DEF Settle, Complete, Throw
  <2> QED
    BY <2>1, <2>2, <2>3, <2>4 DEF BodyHasEffect
<1>5. ASSUME NEW w \in Workers, Crash(w)
      PROVE  BodyHasEffect'
  BY <1>5 DEF Crash, BodyHasEffect, BodyRan
<1>6. ASSUME NEW w \in Workers, Drain(w) \/ Restart(w)
      PROVE  BodyHasEffect'
  BY <1>6 DEF Drain, Restart, BodyHasEffect, BodyRan
<1>7. CASE UNCHANGED vars
  <2>1. UNCHANGED <<state, effects, holds, handled>>
    BY <1>7 DEF vars
  <2> QED
    BY <2>1 DEF BodyHasEffect, BodyRan
<1> QED
  BY <1>1, <1>2, <1>3, <1>4, <1>5, <1>6, <1>7 DEF Next

(* Every reachable state of the queues satisfies the inductive invariant.  *)
LEMMA QueueInvariant == Spec => []QueueInv
  BY QueueInit, QueueStep, PTL DEF Spec

(* The variables of the queue keep their types; in particular a worker     *)
(* never processes two jobs at once, and a job is tried at most Attempts   *)
(* times and stalls at most twice (DEFAULT_JOB_OPTIONS).                   *)
THEOREM QueueTypeCorrect == Spec => []TypeOK
<1>1. QueueInv => TypeOK
  <2> SUFFICES ASSUME QueueInv
               PROVE  TypeOK
    OBVIOUS
  <2>1. \A w \in Workers : Cardinality(holds[w]) <= 1
    <3> SUFFICES ASSUME NEW w \in Workers
                 PROVE  Cardinality(holds[w]) <= 1
      OBVIOUS
    <3>1. CASE holds[w] = {}
      BY <3>1, FS_EmptySet
    <3>2. CASE holds[w] # {}
      <4>1. PICK j : holds[w] = {j}
        BY <3>2 DEF QueueInv, HeldOnce
      <4>2. Cardinality({j}) = 1
        BY FS_Singleton
      <4> QED
        BY <4>1, <4>2
    <3> QED
      BY <3>1, <3>2
  <2>2. tries \in [Jobs -> 0 .. Attempts] /\ stalls \in [Jobs -> 0 .. 2]
    BY JobQueueAssumptions DEF QueueInv, QueueTypes, AttemptsLeft
  <2> QED
    BY <2>1, <2>2 DEF QueueInv, QueueTypes, JobState, TypeOK
<1> QED
  BY <1>1, QueueInvariant, PTL

(* However jobs are retried, stalled and drained, an effect that was       *)
(* committed twice was followed by a retry or a crash (withTenantJob,      *)
(* BaseWorker.process, DEFAULT_JOB_OPTIONS).                               *)
THEOREM RepeatsCounted == Spec => []RepeatsAreRetries
<1>1. QueueInv => RepeatsAreRetries
  BY DEF QueueInv, RunsCounted, RepeatsAreRetries
<1> QED
  BY <1>1, QueueInvariant, PTL

(* On queues whose workers know every job of the queue, how a job ends     *)
(* tells what it did: a completed job committed its effect, and only a     *)
(* retry or a crash repeated it (BaseWorker.process and the dispatchers).  *)
THEOREM EffectsMatch ==
  ASSUME WorkersKnowTheirQueue
  PROVE  Spec => []EffectMatchesOutcome
<1>1. QueueInv /\ BodyHasEffect /\ [Next]_vars => (QueueInv /\ BodyHasEffect)'
  BY QueueStep, EffectStep
<1>2. QueueInv /\ BodyHasEffect => EffectMatchesOutcome
  BY DEF QueueInv, RunsCounted, BodyHasEffect, EffectMatchesOutcome, CompletedHasEffect,
         RepeatsAreRetries
<1> QED
  BY QueueInit, <1>1, <1>2, PTL DEF Spec

-----------------------------------------------------------------------------
(* Part 2.  Idempotency keys.                                              *)

(* A key without a record has had no run since its record last expired.    *)
RunsAreRecorded == \A k \in Keys : record[k] = {} => runs[k] = 0

(* A request that found no live record under its key will not find one at  *)
(* its commit, unless another request committed under that key meanwhile.  *)
LookupIsCurrent ==
  \A r \in Requests : \A h \in tx[r] :
    h.key \in raced \/ record[h.key] = {} \/ h.key \in expired

KeyInv ==
  KeyTypeOK /\ RunsAreRecorded /\ LookupIsCurrent /\ ReplayIsFaithful /\ AtMostOnce

(* No key has a record at first.                                           *)
LEMMA KeyStart == KeyInit => KeyInv
  BY DEF KeyInit, KeyInv, KeyTypeOK, RunsAreRecorded, LookupIsCurrent, ReplayIsFaithful,
         RecordHasRun, ReplayHasSameBody, AtMostOnce

(* Every step of a request, and expiry, keep the invariant.                *)
LEMMA KeyStep == KeyInv /\ [KeyNext]_keyVars => KeyInv'
<1> SUFFICES ASSUME KeyInv, [KeyNext]_keyVars
             PROVE  KeyInv'
  OBVIOUS
<1> USE DEF KeyInv, ReplayIsFaithful
<1>1. ASSUME NEW k \in Keys, Expire(k)
      PROVE  KeyInv'
  <2>1. KeyTypeOK'
    BY <1>1 DEF Expire, KeyTypeOK
  <2>2. RunsAreRecorded' /\ LookupIsCurrent' /\ ReplayIsFaithful' /\ AtMostOnce'
    BY <1>1 DEF Expire, KeyTypeOK, RunsAreRecorded, LookupIsCurrent, RecordHasRun,
                ReplayHasSameBody, AtMostOnce
  <2> QED
    BY <2>1, <2>2
<1>2. ASSUME NEW r \in Requests, Store(r)
      PROVE  KeyInv'
  <2>1. PICK h \in tx[r] :
          /\ record' = [record EXCEPT ![h.key] = {h.call}]
          /\ expired' = expired \ {h.key}
          /\ runs' = [runs EXCEPT ![h.key] = IF h.key \in expired THEN 1 ELSE @ + 1]
          /\ Commit(r, h.key)
          /\ UNCHANGED replayed
    BY <1>2 DEF Store
  <2>2. h.key \in Keys /\ h.call \in Call /\ tx[r] = {h}
    BY DEF KeyTypeOK, Held
  <2>3. tx' = [tx EXCEPT ![r] = {}] /\ raced \subseteq raced' /\ raced' \subseteq raced \cup {h.key}
    BY <2>1 DEF Commit
  <2>4. KeyTypeOK'
    BY <2>1, <2>2, <2>3 DEF KeyTypeOK
  <2>5. RunsAreRecorded' /\ ReplayIsFaithful'
    BY <2>1, <2>2 DEF KeyTypeOK, RunsAreRecorded, RecordHasRun, ReplayHasSameBody
  <2>6. LookupIsCurrent'
    <3> SUFFICES ASSUME NEW q \in Requests, NEW g \in tx'[q]
                 PROVE  (g.key \in raced \/ record[g.key] = {} \/ g.key \in expired)'
      BY DEF LookupIsCurrent
    <3>1. q # r /\ g \in tx[q] /\ g.key \in Keys
      BY <2>3 DEF KeyTypeOK, Held
    <3>2. CASE g.key = h.key
      BY <2>1, <3>1, <3>2 DEF Commit
    <3>3. CASE g.key # h.key
      BY <2>1, <2>2, <2>3, <3>1, <3>3 DEF LookupIsCurrent, KeyTypeOK
    <3> QED
      BY <3>2, <3>3
  <2>7. AtMostOnce'
    <3>1. h.key \notin raced => runs'[h.key] = 1
      BY <2>1, <2>2 DEF LookupIsCurrent, RunsAreRecorded, KeyTypeOK
    <3> QED
      BY <2>1, <2>2, <2>3, <3>1 DEF KeyTypeOK, AtMostOnce
  <2> QED
    BY <2>4, <2>5, <2>6, <2>7
<1>3. ASSUME NEW r \in Requests, Fail(r)
      PROVE  KeyInv'
  BY <1>3 DEF Fail, KeyTypeOK, RunsAreRecorded, LookupIsCurrent, RecordHasRun,
              ReplayHasSameBody, AtMostOnce
<1>4. ASSUME NEW r \in Requests, NEW k \in Keys, NEW call \in Call,
             FirstUse(r, k, call)
      PROVE  KeyInv'
  <2>1. [key |-> k, call |-> call] \in Held
    BY DEF Held
  <2>2. KeyTypeOK'
    BY <1>4, <2>1 DEF FirstUse, KeyTypeOK
  <2>3. LookupIsCurrent'
    BY <1>4 DEF FirstUse, KeyTypeOK, LookupIsCurrent
  <2>4. RunsAreRecorded' /\ ReplayIsFaithful' /\ AtMostOnce'
    BY <1>4 DEF FirstUse, RunsAreRecorded, RecordHasRun, ReplayHasSameBody,
                AtMostOnce
  <2> QED
    BY <2>2, <2>3, <2>4
<1>5. ASSUME NEW r \in Requests, NEW k \in Keys, NEW call \in Call,
             Replay(r, k, call)
      PROVE  KeyInv'
  <2>1. PICK original \in record[k] :
          original.body = call.body /\ replayed' = replayed \cup {<<call, original>>}
    BY <1>5 DEF Replay, hashRequest
  <2>2. original \in Call /\ UNCHANGED <<record, expired, runs, tx, raced>>
    BY <1>5 DEF Replay, KeyTypeOK
  <2>3. KeyTypeOK' /\ ReplayHasSameBody'
    BY <2>1, <2>2 DEF KeyTypeOK, ReplayHasSameBody
  <2> QED
    BY <2>2, <2>3 DEF RunsAreRecorded, LookupIsCurrent, RecordHasRun, AtMostOnce
<1>6. CASE UNCHANGED keyVars
  <2>1. UNCHANGED <<record, expired, runs, replayed, tx, raced>>
    BY <1>6 DEF keyVars
  <2> QED
    BY <2>1 DEF KeyTypeOK, RunsAreRecorded, LookupIsCurrent, RecordHasRun,
                ReplayHasSameBody, AtMostOnce
<1> QED
  BY <1>1, <1>2, <1>3, <1>4, <1>5, <1>6 DEF KeyNext

(* Every reachable state of the keys satisfies the inductive invariant.    *)
LEMMA KeyInvariant == KeySpec => []KeyInv
  BY KeyStart, KeyStep, PTL DEF KeySpec

(* The idempotency records keep their types: one record per key, whatever  *)
(* the order in which requests look it up, store it and let it expire.     *)
THEOREM KeyTypeCorrect == KeySpec => []KeyTypeOK
<1>1. KeyInv => KeyTypeOK
  BY DEF KeyInv
<1> QED
  BY <1>1, KeyInvariant, PTL

(* A replayed response was computed for the same body, and the effect it   *)
(* reports is committed (IdempotencyService.lookup and store).             *)
THEOREM ReplaysAreFaithful == KeySpec => []ReplayIsFaithful
<1>1. KeyInv => ReplayIsFaithful
  BY DEF KeyInv
<1> QED
  BY <1>1, KeyInvariant, PTL

(* A key runs its handler at most once in the lifetime of its record,      *)
(* unless a retry overlaps the request it repeats: lookup takes no lock    *)
(* (IdempotencyInterceptor.intercept).                                     *)
THEOREM RunsAtMostOnce == KeySpec => []AtMostOnce
<1>1. KeyInv => AtMostOnce
  BY DEF KeyInv
<1> QED
  BY <1>1, KeyInvariant, PTL

-----------------------------------------------------------------------------
(* Part 3.  Document numbering: numbers are unique, contiguous and         *)
(* committed in order, for every set of tenants, keys and transactions.    *)

USE SequenceAssumptions

(* Two numbers of sequence rows that keep their year unless they reset     *)
(* yearly print alike only if they are the same number.                    *)
LEMMA RenderInjective ==
  ASSUME NEW n \in Number, NEW m \in Number,
         ~ ResetYearly[n.key] => n.year = SeedYear,
         ~ ResetYearly[m.key] => m.year = SeedYear,
         DocNo(n) = DocNo(m)
  PROVE  n = m
<1>1. n.tenant = m.tenant /\ renderSequenceFormat(n) = renderSequenceFormat(m)
  BY DEF DocNo
<1>2. n.key = m.key
  BY <1>1 DEF renderSequenceFormat, Number
<1>3. n.seq = m.seq
  BY <1>1, <1>2 DEF renderSequenceFormat, Number
<1>4. n.year = m.year
  BY <1>1, <1>2 DEF renderSequenceFormat, Number
<1> QED
  BY <1>1, <1>2, <1>3, <1>4 DEF Number

(* The counter arithmetic of next() keeps a row a row and moves it forward *)
(* by one number, never past the clock's year.                             *)
LEMMA NextRowAdvances ==
  ASSUME NEW key \in SequenceKeys, NEW row \in SequenceRow, NEW y \in Nat,
         row.yearScope <= y
  PROVE  LET new == nextRow(key, row, y)
         IN /\ new \in SequenceRow
            /\ new.yearScope <= y
            /\ new.currentValue >= 1
            /\ \/ row.yearScope < new.yearScope /\ new.currentValue = 1
               \/ new.yearScope = row.yearScope /\ new.currentValue = row.currentValue + 1
            /\ ~ ResetYearly[key] => new.yearScope = row.yearScope
  BY DEF nextRow, SequenceRow

(* Every step keeps the types of rows and numbers.                         *)
LEMMA NumberTypeStep == NumberTypeOK /\ NumberInv /\ [NumberNext]_numberVars => NumberTypeOK'
<1> SUFFICES ASSUME NumberTypeOK, NumberInv, [NumberNext]_numberVars PROVE NumberTypeOK'
  OBVIOUS
<1>1. CASE UNCHANGED numberVars
  BY <1>1 DEF NumberTypeOK, numberVars
<1>2. ASSUME NEW p \in Txs, NEW t \in Tenants \cup {NoTenant}, Begin(p, t)
      PROVE NumberTypeOK'
  BY <1>2 DEF NumberTypeOK, Begin
<1>3. ASSUME NEW p \in Txs, NEW k \in SequenceKeys, NextNumber(p, k)
      PROVE NumberTypeOK'
  <2> DEFINE s == sequenceScope(p, k)
             row == nextRow(k, dirty[s], year)
  <2>1. s \in Seeded /\ tenantOf[p] \in Tenants
    BY <1>3 DEF NextNumber, sequenceScope, NumberTypeOK
  <2>2. row \in SequenceRow
    BY <2>1, NextRowAdvances DEF NumberTypeOK, NumberInv, RowVersions
  <2>3. [tenant |-> tenantOf[p], key |-> k, year |-> row.yearScope,
         seq |-> row.currentValue] \in Number
    BY <2>1, <2>2 DEF Number, SequenceRow
  <2> QED
    BY <1>3, <2>1, <2>2, <2>3 DEF NumberTypeOK, NextNumber
<1>4. ASSUME NEW p \in Txs, CommitTx(p) PROVE NumberTypeOK'
  BY <1>4 DEF NumberTypeOK, CommitTx, ReleaseLocks
<1>5. ASSUME NEW p \in Txs, Rollback(p) PROVE NumberTypeOK'
  BY <1>5 DEF NumberTypeOK, Rollback, ReleaseLocks
<1>6. CASE NewYear
  BY <1>6 DEF NumberTypeOK, NewYear
<1> QED
  BY <1>1, <1>2, <1>3, <1>4, <1>5, <1>6 DEF NumberNext, NotFound

-----------------------------------------------------------------------------
(* One lemma per action that touches counters, locks or numbers.           *)

(* Fresh rows satisfy the invariant.                                       *)
LEMMA NumberingInit == NumberInit => NumberInv
<1> SUFFICES ASSUME NumberInit PROVE NumberInv
  OBVIOUS
<1>1. NumberTypeOK
  BY DEF NumberInit, NumberTypeOK, SequenceRow
<1>2. InFlight = {}
  BY DEF NumberInit, InFlight
<1>3. TakenUnderLock /\ RowVersions /\ YearKept
  BY <1>2 DEF NumberInit, TakenUnderLock, RowVersions, YearKept
<1>4. Numbered(sequence, issued) /\ Numbered(dirty, issued \cup InFlight)
  BY <1>2 DEF NumberInit, Numbered
<1> QED
  BY <1>1, <1>3, <1>4 DEF NumberInv

(* next(key) under the row lock.                                           *)
LEMMA NextNumberStep ==
  ASSUME NumberInv, NEW p \in Txs, NEW k \in SequenceKeys, NextNumber(p, k), NumberTypeOK'
  PROVE  NumberInv'
<1> DEFINE s == sequenceScope(p, k)
           old == dirty[s]
           row == nextRow(k, old, year)
           number == [tenant |-> tenantOf[p], key |-> k,
                      year |-> row.yearScope, seq |-> row.currentValue]
<1> USE DEF NumberInv
<1>1. /\ s = <<tenantOf[p], k>> /\ s \in Seeded /\ tenantOf[p] \in Tenants
      /\ lock[s] \in {NoTx, p}
      /\ lock' = [lock EXCEPT ![s] = p]
      /\ dirty' = [dirty EXCEPT ![s] = row]
      /\ taken' = [taken EXCEPT ![p] = @ \cup {number}]
      /\ UNCHANGED <<sequence, issued, year>>
  BY DEF NextNumber, sequenceScope, NumberTypeOK
<1>2. old \in SequenceRow /\ year \in Nat /\ old.yearScope <= year
      /\ sequence[s] \in SequenceRow
  BY <1>1 DEF NumberTypeOK, RowVersions
<1>3. /\ row \in SequenceRow /\ row.yearScope <= year /\ row.currentValue >= 1
      /\ \/ old.yearScope < row.yearScope /\ row.currentValue = 1
         \/ row.yearScope = old.yearScope /\ row.currentValue = old.currentValue + 1
      /\ ~ ResetYearly[k] => row.yearScope = old.yearScope
  BY <1>2, NextRowAdvances
<1>4. number \in Number /\ Scope(number) = s
  BY <1>1, <1>3 DEF Number, SequenceRow, Scope
<1>5. InFlight' = InFlight \cup {number}
  BY <1>1 DEF InFlight, NumberTypeOK
<1>6. ~ NotAfter(number, old) /\ ~ NotAfter(number, sequence[s]) /\ NotAfter(number, row)
  BY <1>1, <1>2, <1>3 DEF NotAfter, RowVersions, SequenceRow
<1>7. TakenUnderLock'
  <2>1. ASSUME NEW q \in Txs, NEW n \in taken'[q]
        PROVE  Scope(n) \in Seeded /\ lock'[Scope(n)] = q
               /\ ~ NotAfter(n, sequence[Scope(n)])
    <3>1. CASE n \in taken[q]
      BY <1>1, <3>1 DEF TakenUnderLock, NumberTypeOK
    <3>2. CASE n \notin taken[q]
      <4>1. q = p /\ n = number
        BY <1>1, <2>1, <3>2 DEF NumberTypeOK
      <4> QED
        BY <1>1, <1>4, <1>6, <4>1 DEF NumberTypeOK
    <3> QED
      BY <3>1, <3>2
  <2> QED
    BY <1>1, <2>1 DEF TakenUnderLock, NotAfter, Scope
<1>8. RowVersions'
  <2>1. ASSUME NEW r \in Seeded, r # s
        PROVE  lock'[r] = lock[r] /\ dirty'[r] = dirty[r]
    BY <1>1, <2>1 DEF NumberTypeOK
  <2>2. lock'[s] = p /\ dirty'[s] = row
    BY <1>1 DEF NumberTypeOK
  <2>3. \/ sequence[s].yearScope < row.yearScope
        \/ /\ sequence[s].yearScope = row.yearScope
           /\ sequence[s].currentValue <= row.currentValue
    BY <1>1, <1>2, <1>3 DEF RowVersions, SequenceRow
  <2>4. ~ ResetYearly[s[2]] => row.yearScope = SeedYear
    BY <1>1, <1>3 DEF RowVersions
  <2> HIDE DEF s, row
  <2> QED
    BY <1>1, <1>3, <2>1, <2>2, <2>3, <2>4 DEF RowVersions
<1>9. YearKept'
  BY <1>1, <1>3, <1>5 DEF YearKept, RowVersions
<1>10. Numbered(dirty, issued \cup InFlight)'
  <2> DEFINE ns == issued \cup InFlight
  <2>1. (issued \cup InFlight)' = ns \cup {number}
    BY <1>1, <1>5
  <2>2. \A n \in ns : n \in Number
    BY DEF InFlight, NumberTypeOK
  <2>3. \A n \in ns : NotAfter(n, old) /\ Scope(n) = s => NotAfter(n, row)
    BY <1>2, <1>3, <2>2 DEF NotAfter, SequenceRow, Number
  <2>4. \A n \in ns \cup {number} :
          Scope(n) \in Seeded /\ n.seq >= 1 /\ NotAfter(n, dirty'[Scope(n)])
    <3>1. \A r \in Seeded : dirty'[r] = IF r = s THEN row ELSE dirty[r]
      BY <1>1 DEF NumberTypeOK
    <3>2. ASSUME NEW n \in ns
          PROVE  Scope(n) \in Seeded /\ n.seq >= 1 /\ NotAfter(n, dirty'[Scope(n)])
      BY <2>3, <3>1 DEF Numbered
    <3>3. Scope(number) \in Seeded /\ number.seq >= 1
          /\ NotAfter(number, dirty'[Scope(number)])
      BY <1>1, <1>3, <1>4, <1>6, <3>1
    <3> QED
      BY <3>2, <3>3
  <2>5. number.seq > 1 => [number EXCEPT !.seq = @ - 1] \in ns
    <3> SUFFICES ASSUME number.seq > 1 PROVE [number EXCEPT !.seq = @ - 1] \in ns
      OBVIOUS
    <3>1. row.yearScope = old.yearScope /\ row.currentValue = old.currentValue + 1
          /\ old.currentValue > 0
      BY <1>2, <1>3 DEF SequenceRow
    <3>2. [tenant |-> s[1], key |-> s[2], year |-> old.yearScope,
           seq |-> old.currentValue] \in ns
      BY <1>1, <3>1 DEF Numbered
    <3>3. [number EXCEPT !.seq = @ - 1] =
            [tenant |-> s[1], key |-> s[2], year |-> old.yearScope, seq |-> old.currentValue]
      BY <1>1, <1>2, <3>1 DEF SequenceRow
    <3> QED
      BY <3>2, <3>3
  <2>6. \A n \in ns \cup {number} :
          n.seq > 1 => [n EXCEPT !.seq = @ - 1] \in ns \cup {number}
    BY <2>5 DEF Numbered
  <2>7. \A r \in Seeded : dirty'[r].currentValue > 0 =>
          [tenant |-> r[1], key |-> r[2], year |-> dirty'[r].yearScope,
           seq |-> dirty'[r].currentValue] \in ns \cup {number}
    BY <1>1 DEF Numbered, NumberTypeOK
  <2> QED
    BY <2>1, <2>4, <2>6, <2>7 DEF Numbered
<1>11. Numbered(sequence, issued)'
  BY <1>1 DEF Numbered
<1> QED
  BY <1>7, <1>8, <1>9, <1>10, <1>11

(* COMMIT: the locked rows and the numbers taken under them are published  *)
(* together.                                                               *)
LEMMA CommitStep ==
  ASSUME NumberInv, NEW p \in Txs, CommitTx(p), NumberTypeOK'
  PROVE  NumberInv'
<1> USE DEF NumberInv
<1>1. /\ sequence' = [s \in Seeded |-> IF lock[s] = p THEN dirty[s] ELSE sequence[s]]
      /\ lock' = [s \in Seeded |-> IF lock[s] = p THEN NoTx ELSE lock[s]]
      /\ taken' = [taken EXCEPT ![p] = {}]
      /\ issued' = issued \cup taken[p]
      /\ UNCHANGED <<dirty, year>>
  BY DEF CommitTx, ReleaseLocks
<1>2. (issued \cup InFlight)' = issued \cup InFlight
  BY <1>1 DEF InFlight, NumberTypeOK
<1>3. \A n \in issued \cup InFlight :
        n \in Number /\ (lock[Scope(n)] = p => n \in issued')
  BY <1>1 DEF InFlight, TakenUnderLock, NumberTypeOK
<1>4. TakenUnderLock'
  BY <1>1 DEF TakenUnderLock, NumberTypeOK
<1>5. RowVersions'
  <2> SUFFICES ASSUME NEW s \in Seeded
      PROVE /\ lock'[s] = NoTx => dirty[s] = sequence'[s]
            /\ dirty[s].yearScope <= year
            /\ \/ sequence'[s].yearScope < dirty[s].yearScope
               \/ /\ sequence'[s].yearScope = dirty[s].yearScope
                  /\ sequence'[s].currentValue <= dirty[s].currentValue
            /\ ~ ResetYearly[s[2]] =>
                 dirty[s].yearScope = SeedYear /\ sequence'[s].yearScope = SeedYear
    BY <1>1 DEF RowVersions
  <2>1. dirty[s] \in SequenceRow /\ sequence[s] \in SequenceRow
    BY DEF NumberTypeOK
  <2> QED
    BY <1>1, <2>1 DEF RowVersions, SequenceRow
<1>6. YearKept'
  BY <1>1, <1>2 DEF YearKept
<1>7. Numbered(dirty, issued \cup InFlight)'
  BY <1>1, <1>2 DEF Numbered
<1>8. Numbered(sequence, issued)'
  <2>1. \A n \in issued' :
          Scope(n) \in Seeded /\ n.seq >= 1 /\ NotAfter(n, sequence'[Scope(n)])
    BY <1>1, <1>2 DEF Numbered, TakenUnderLock
  <2>2. ASSUME NEW n \in issued', n.seq > 1 PROVE [n EXCEPT !.seq = @ - 1] \in issued'
    <3>1. CASE n \in issued
      BY <1>1, <2>2, <3>1 DEF Numbered
    <3>2. CASE n \in taken[p]
      <4> DEFINE m == [n EXCEPT !.seq = @ - 1]
      <4>1. m \in issued \cup InFlight
        BY <2>2, <3>2 DEF Numbered, InFlight
      <4>2. Scope(m) = Scope(n)
        BY <3>2 DEF Scope, NumberTypeOK, Number
      <4> QED
        BY <1>3, <3>2, <4>1, <4>2 DEF TakenUnderLock
    <3> QED
      BY <1>1, <3>1, <3>2
  <2>3. ASSUME NEW s \in Seeded, sequence'[s].currentValue > 0
        PROVE [tenant |-> s[1], key |-> s[2], year |-> sequence'[s].yearScope,
               seq |-> sequence'[s].currentValue] \in issued'
    <3> DEFINE m == [tenant |-> s[1], key |-> s[2], year |-> sequence'[s].yearScope,
                     seq |-> sequence'[s].currentValue]
    <3>1. CASE lock[s] = p
      <4>1. sequence'[s] = dirty[s]
        BY <1>1, <3>1
      <4>2. m \in issued \cup InFlight
        BY <2>3, <4>1 DEF Numbered
      <4>3. Scope(m) = s
        BY DEF Scope
      <4> QED
        BY <1>3, <3>1, <4>2, <4>3
    <3>2. CASE lock[s] # p
      BY <1>1, <2>3, <3>2 DEF Numbered
    <3> QED
      BY <3>1, <3>2
  <2> QED
    BY <2>1, <2>2, <2>3 DEF Numbered
<1> QED
  BY <1>4, <1>5, <1>6, <1>7, <1>8

(* ROLLBACK: the locked rows return to their committed version and the     *)
(* numbers taken under them disappear with the documents.                  *)
LEMMA RollbackStep ==
  ASSUME NumberInv, NEW p \in Txs, Rollback(p), NumberTypeOK'
  PROVE  NumberInv'
<1> USE DEF NumberInv
<1>1. /\ dirty' = [s \in Seeded |-> IF lock[s] = p THEN sequence[s] ELSE dirty[s]]
      /\ lock' = [s \in Seeded |-> IF lock[s] = p THEN NoTx ELSE lock[s]]
      /\ taken' = [taken EXCEPT ![p] = {}]
      /\ UNCHANGED <<sequence, issued, year>>
  BY DEF Rollback, ReleaseLocks
<1>2. \A n \in (issued \cup InFlight)' :
        /\ n \in issued \cup InFlight /\ n \in Number
        /\ lock[Scope(n)] = p => n \in issued
  BY <1>1 DEF InFlight, TakenUnderLock, NumberTypeOK
<1>3. \A n \in issued \cup InFlight :
        lock[Scope(n)] # p => n \in (issued \cup InFlight)'
  BY <1>1 DEF InFlight, TakenUnderLock, NumberTypeOK
<1>4. TakenUnderLock'
  BY <1>1 DEF TakenUnderLock, NumberTypeOK
<1>5. RowVersions'
  <2> SUFFICES ASSUME NEW s \in Seeded
      PROVE /\ lock'[s] = NoTx => dirty'[s] = sequence[s]
            /\ dirty'[s].yearScope <= year
            /\ \/ sequence[s].yearScope < dirty'[s].yearScope
               \/ /\ sequence[s].yearScope = dirty'[s].yearScope
                  /\ sequence[s].currentValue <= dirty'[s].currentValue
            /\ ~ ResetYearly[s[2]] =>
                 dirty'[s].yearScope = SeedYear /\ sequence[s].yearScope = SeedYear
    BY <1>1 DEF RowVersions
  <2>1. dirty[s] \in SequenceRow /\ sequence[s] \in SequenceRow /\ year \in Nat
    BY DEF NumberTypeOK
  <2> QED
    BY <1>1, <2>1 DEF RowVersions, SequenceRow
<1>6. YearKept'
  BY <1>1, <1>2 DEF YearKept
<1>7. Numbered(sequence, issued)'
  BY <1>1 DEF Numbered
<1>8. Numbered(dirty, issued \cup InFlight)'
  <2> DEFINE ns == (issued \cup InFlight)'
  <2>1. \A n \in ns :
          Scope(n) \in Seeded /\ n.seq >= 1 /\ NotAfter(n, dirty'[Scope(n)])
    BY <1>1, <1>2 DEF Numbered
  <2>2. ASSUME NEW n \in ns, n.seq > 1 PROVE [n EXCEPT !.seq = @ - 1] \in ns
    <3>1. CASE n \in issued
      BY <1>1, <2>2, <3>1 DEF Numbered
    <3>2. CASE n \notin issued
      <4> DEFINE m == [n EXCEPT !.seq = @ - 1]
      <4>1. m \in issued \cup InFlight
        BY <1>2, <2>2 DEF Numbered
      <4>2. Scope(m) = Scope(n)
        BY <1>2 DEF Scope, Number
      <4> QED
        BY <1>2, <1>3, <3>2, <4>1, <4>2
    <3> QED
      BY <3>1, <3>2
  <2>3. ASSUME NEW s \in Seeded, dirty'[s].currentValue > 0
        PROVE [tenant |-> s[1], key |-> s[2], year |-> dirty'[s].yearScope,
               seq |-> dirty'[s].currentValue] \in ns
    <3> DEFINE m == [tenant |-> s[1], key |-> s[2], year |-> dirty'[s].yearScope,
                     seq |-> dirty'[s].currentValue]
    <3>1. CASE lock[s] = p
      BY <1>1, <2>3, <3>1 DEF Numbered
    <3>2. CASE lock[s] # p
      <4>1. m \in issued \cup InFlight
        BY <1>1, <2>3, <3>2 DEF Numbered
      <4>2. Scope(m) = s
        BY DEF Scope
      <4> QED
        BY <1>3, <3>2, <4>1, <4>2
    <3> QED
      BY <3>1, <3>2
  <2> QED
    BY <2>1, <2>2, <2>3 DEF Numbered
<1> QED
  BY <1>4, <1>5, <1>6, <1>7, <1>8

(* Every step keeps the invariant.                                         *)
LEMMA NumberingStep == NumberInv /\ [NumberNext]_numberVars => NumberInv'
<1> SUFFICES ASSUME NumberInv, [NumberNext]_numberVars PROVE NumberInv'
  OBVIOUS
<1>0. NumberTypeOK'
  BY NumberTypeStep DEF NumberInv
<1>1. CASE UNCHANGED numberVars
  <2>1. NumberTypeOK' /\ TakenUnderLock' /\ RowVersions' /\ YearKept'
    BY <1>0, <1>1 DEF NumberInv, numberVars, TakenUnderLock, RowVersions, YearKept,
                      InFlight, NotAfter, Scope
  <2>2. Numbered(sequence, issued)' /\ Numbered(dirty, issued \cup InFlight)'
    BY <1>1 DEF NumberInv, numberVars, Numbered, InFlight
  <2> QED
    BY <2>1, <2>2 DEF NumberInv
<1>2. ASSUME NEW p \in Txs, NEW t \in Tenants \cup {NoTenant}, Begin(p, t)
      PROVE NumberInv'
  BY <1>0, <1>2 DEF NumberInv, Begin, TakenUnderLock, RowVersions, YearKept,
                    Numbered, InFlight
<1>3. CASE NewYear
  <2>1. TakenUnderLock' /\ YearKept'
    BY <1>3 DEF NumberInv, NewYear, TakenUnderLock, YearKept, InFlight, NotAfter, Scope
  <2>2. \A s \in Seeded : dirty[s].yearScope \in Nat
    BY DEF NumberInv, NumberTypeOK, SequenceRow
  <2>3. RowVersions'
    BY <1>3, <2>2 DEF NumberInv, NewYear, NumberTypeOK, RowVersions
  <2>4. Numbered(sequence, issued)' /\ Numbered(dirty, issued \cup InFlight)'
    BY <1>3 DEF NumberInv, NewYear, Numbered, InFlight
  <2> QED
    BY <1>0, <2>1, <2>3, <2>4 DEF NumberInv
<1> QED
  BY <1>0, <1>1, <1>2, <1>3, NextNumberStep, CommitStep, RollbackStep
     DEF NumberNext, NotFound

(* The inductive invariant holds in every reachable state.                 *)
THEOREM NumberingInvariant == NumberSpec => []NumberInv
  BY NumberingInit, NumberingStep, PTL DEF NumberSpec

(* Rows, locks, transactions and numbers keep their types.                 *)
THEOREM NumberTypeCorrect == NumberSpec => []NumberTypeOK
<1>1. NumberInv => NumberTypeOK
  BY DEF NumberInv
<1> QED
  BY <1>1, NumberingInvariant, PTL

(* Concurrent callers of next() never produce a duplicate number.          *)
THEOREM NumbersUnique == NumberSpec => []NoDuplicateNumber
<1>1. ASSUME NumberInv PROVE NoDuplicateNumber
  <2> DEFINE ns == issued \cup InFlight
  <2>1. ASSUME NEW n \in ns, NEW m \in ns, DocNo(n) = DocNo(m) PROVE n = m
    <3>1. n \in Number /\ m \in Number
      BY <1>1 DEF NumberInv, NumberTypeOK, InFlight
    <3> QED
      BY <1>1, <2>1, <3>1, RenderInjective DEF NumberInv, YearKept
  <2>2. \A n \in issued : n \notin InFlight
    BY <1>1 DEF NumberInv, InFlight, TakenUnderLock, Numbered
  <2>3. ASSUME NEW p \in Txs, NEW q \in Txs, NEW n \in taken[p], n \in taken[q]
        PROVE p = q
    BY <1>1, <2>3 DEF NumberInv, TakenUnderLock
  <2> QED
    BY <2>1, <2>2, <2>3 DEF NoDuplicateNumber, InFlight
<1> QED
  BY <1>1, NumberingInvariant, PTL

(* Committed numbers of a (tenant, key, year) have no gaps.                *)
THEOREM NumbersContiguous == NumberSpec => []Contiguous
<1>1. NumberInv => Contiguous
  BY DEF NumberInv, Numbered, Contiguous
<1> QED
  BY <1>1, NumberingInvariant, PTL

(* Numbering implements the book: a commit enters the numbers of its       *)
(* transaction at the end of their books, and no other step changes what   *)
(* is issued.                                                              *)
THEOREM NumberingImplementsBook == NumberSpec => ImplementsBook
<1>1. NumberInit => Book!Init
  BY DEF NumberInit, Book!Init
<1>2. ASSUME NumberInv, NumberInv', [NumberNext]_numberVars PROVE [Book!Publish]_issued
  <2> SUFFICES ASSUME issued' # issued PROVE Book!Publish
    OBVIOUS
  <2>1. PICK p \in Txs : CommitTx(p)
    BY <1>2 DEF NumberNext, numberVars, Begin, NextNumber, Rollback, NotFound, NewYear
  <2>2. issued' = issued \cup taken[p]
    BY <2>1 DEF CommitTx
  <2>3. \A n \in issued' : n \in Number /\ n.seq >= 1
          /\ (n.seq > 1 => [n EXCEPT !.seq = @ - 1] \in issued')
    BY <1>2 DEF NumberInv, NumberTypeOK, Numbered
  <2>4. ASSUME NEW n \in issued' \ issued, NEW m \in issued, Book!SameBook(n, m)
        PROVE  Book!Earlier(m, n)
    <3>1. ~ NotAfter(n, sequence[Scope(n)]) /\ NotAfter(m, sequence[Scope(m)])
          /\ Scope(n) = Scope(m) /\ Scope(n) \in Seeded
      BY <1>2, <2>2, <2>4 DEF NumberInv, TakenUnderLock, Numbered, Scope, Book!SameBook
    <3>2. n \in Number /\ m \in Number /\ sequence[Scope(n)] \in SequenceRow
      BY <1>2, <2>2, <2>4, <3>1 DEF NumberInv, NumberTypeOK
    <3> QED
      BY <3>1, <3>2 DEF NotAfter, Book!Earlier, Number, SequenceRow
  <2> QED
    BY <2>2, <2>3, <2>4 DEF Book!Publish
<1>3. NumberInv /\ NumberInv' /\ [NumberNext]_numberVars => [Book!Publish]_issued
  BY <1>2
<1> QED
  BY <1>1, <1>3, NumberingInvariant, PTL DEF NumberSpec, ImplementsBook, Book!Spec
=============================================================================
