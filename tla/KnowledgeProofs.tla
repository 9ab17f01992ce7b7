--------------------------- MODULE KnowledgeProofs ---------------------------
(***************************************************************************)
(* Proofs about the two halves of dw_knowledge, for any number of          *)
(* consumers, uploads, versions, searches and providers: uploads run once  *)
(* and the two stores agree outside the writes in flight; breakers are     *)
(* open exactly while their provider fails, and searches return what is    *)
(* their own.                                                              *)
(***************************************************************************)
EXTENDS KnowledgeIngest, LegalSearch, TLAPS, FiniteSetTheorems, SequenceTheorems

(* Uploads: the queue *)

\* Nobody works on job j.
Free(j) == \A w \in Workers : worker[w].job # j

Stranded == {j \in Jobs : status[j] = "processing" /\ Free(j)}

\* What is queued is queued once.
QueueSound ==
    /\ \A i \in 1..Len(queue) : status[queue[i]] = "queued"
    /\ \A i, k \in 1..Len(queue) : queue[i] = queue[k] => i = k

\* A job is claimed at most once, because a claimed job is never queued again.
JobsSound ==
    /\ \A j \in Jobs : attempts[j] =< 1
    /\ \A j \in Jobs : status[j] \in {"absent", "queued"} => attempts[j] = 0
    /\ JobRunsOnce

\* Every stranded job has cost a crash.
StrandedSound == IsFiniteSet(Stranded) /\ Cardinality(Stranded) =< crashes

\* An idle consumer has no job, and a consumer does not supersede the version
\* it writes; once it embeds it has tombstoned all it superseded.
WorkerSound(w) ==
    /\ worker[w].step = "idle" <=> worker[w].job = None
    /\ worker[w].job # None => Version(w) \notin worker[w].old
    /\ worker[w].step = "embed" => worker[w].old = {}

JobInv ==
    /\ TypeOK
    /\ QueueSound
    /\ JobsSound
    /\ StrandedSound
    /\ \A w \in Workers : WorkerSound(w)

WorkerRow == [step : Steps, job : Jobs \union {None}, old : SUBSET Versions]

\* A consumer goes to step s with the versions old still to tombstone.
Moves(w, s, old) ==
    /\ worker' \in [Workers -> WorkerRow]
    /\ worker'[w].step = s
    /\ worker'[w].job = worker[w].job
    /\ worker'[w].old = old
    /\ \A x \in Workers : x # w => worker'[x] = worker[x]

\* A consumer ends with its job.
LetsGo(w) ==
    /\ worker' \in [Workers -> WorkerRow]
    /\ worker'[w] = Idle
    /\ \A x \in Workers : x # w => worker'[x] = worker[x]

LEMMA IdleRow == Idle \in WorkerRow
    BY DEF Idle, WorkerRow, Steps

LEMMA WorkerTyped ==
    ASSUME TypeOK
    PROVE  /\ worker \in [Workers -> WorkerRow]
           /\ \A w \in Workers : worker[w] \in WorkerRow
    BY DEF TypeOK, WorkerRow

LEMMA StepOnly ==
    ASSUME TypeOK, NEW w \in Workers, NEW s \in Steps,
           worker' = [worker EXCEPT ![w].step = s]
    PROVE  Moves(w, s, worker[w].old)
  <1> DEFINE r == [worker[w] EXCEPT !.step = s]
  <1>1. worker' = [worker EXCEPT ![w] = r] /\ worker \in [Workers -> WorkerRow]
    BY WorkerTyped
  <1>2. r \in WorkerRow /\ r.step = s /\ r.job = worker[w].job /\ r.old = worker[w].old
    BY WorkerTyped DEF WorkerRow
  <1> HIDE DEF r
  <1> QED BY <1>1, <1>2 DEF Moves

LEMMA StepAndOld ==
    ASSUME TypeOK, NEW w \in Workers, NEW s \in Steps, NEW old \in SUBSET Versions,
           worker' = [worker EXCEPT ![w].step = s, ![w].old = old]
    PROVE  Moves(w, s, old)
  <1> DEFINE r == [worker[w] EXCEPT !.step = s, !.old = old]
  <1>1. worker' = [worker EXCEPT ![w] = r] /\ worker \in [Workers -> WorkerRow]
    BY WorkerTyped
  <1>2. r \in WorkerRow /\ r.step = s /\ r.job = worker[w].job /\ r.old = old
    BY WorkerTyped DEF WorkerRow
  <1> HIDE DEF r
  <1> QED BY <1>1, <1>2 DEF Moves

LEMMA OldOnly ==
    ASSUME TypeOK, NEW w \in Workers, NEW old \in SUBSET Versions,
           worker' = [worker EXCEPT ![w].old = old]
    PROVE  Moves(w, worker[w].step, old)
  <1> DEFINE r == [worker[w] EXCEPT !.old = old]
  <1>1. worker' = [worker EXCEPT ![w] = r] /\ worker \in [Workers -> WorkerRow]
    BY WorkerTyped
  <1>2. /\ r \in WorkerRow /\ r.step = worker[w].step /\ r.job = worker[w].job
        /\ r.old = old
    BY WorkerTyped DEF WorkerRow
  <1> HIDE DEF r
  <1> QED BY <1>1, <1>2 DEF Moves

LEMMA Resting ==
    ASSUME TypeOK, NEW w \in Workers, worker' = [worker EXCEPT ![w] = Idle]
    PROVE  LetsGo(w)
    BY WorkerTyped, IdleRow DEF LetsGo

\* Where the steps of an ingest that keep its job lead.
LEMMA IngestMoves ==
    ASSUME JobInv, NEW w \in Workers
    PROVE  /\ ReadCurrent(w) =>
                Moves(w, "update", {v \in Versions \ {Version(w)} : docs[v] = "active"})
           /\ LockCurrent(w) =>
                Moves(w, "txn", {v \in worker[w].old : docs[v] = "active"})
           /\ Commit(w) => Moves(w, "tombstone", worker[w].old)
           /\ DeadlockVictim(w) => Moves(w, "failing", worker[w].old)
           /\ tombstone_document(w) =>
                \E v \in worker[w].old :
                    Moves(w, "tombstone", worker[w].old \ {v}) /\ Tombstone(v)
           /\ delete_document(w) => Moves(w, "embed", worker[w].old)
           /\ upsert(w) => Moves(w, "indexed", worker[w].old)
           /\ Fail(w) => Moves(w, "failing", worker[w].old)
  <1>1. TypeOK /\ worker[w].old \in SUBSET Versions
    BY WorkerTyped DEF JobInv, WorkerRow
  <1>2. /\ "update" \in Steps /\ "txn" \in Steps /\ "tombstone" \in Steps
        /\ "failing" \in Steps /\ "embed" \in Steps /\ "indexed" \in Steps
    BY DEF Steps
  <1>3. ReadCurrent(w) =>
          Moves(w, "update", {v \in Versions \ {Version(w)} : docs[v] = "active"})
    <2>1. {v \in Versions \ {Version(w)} : docs[v] = "active"} \in SUBSET Versions
      OBVIOUS
    <2> QED BY <1>1, <1>2, <2>1, StepAndOld DEF ReadCurrent
  <1>4. LockCurrent(w) => Moves(w, "txn", {v \in worker[w].old : docs[v] = "active"})
    <2>1. {v \in worker[w].old : docs[v] = "active"} \in SUBSET Versions
      BY <1>1
    <2>2. LockCurrent(w) =>
            worker' = [worker EXCEPT ![w].step = "txn",
                         ![w].old = {v \in worker[w].old : docs[v] = "active"}]
      BY DEF LockCurrent
    <2> QED BY <1>1, <1>2, <2>1, <2>2, StepAndOld
  <1>5. Commit(w) => Moves(w, "tombstone", worker[w].old)
    BY <1>1, <1>2, StepOnly DEF Commit
  <1>6. DeadlockVictim(w) => Moves(w, "failing", worker[w].old)
    BY <1>1, <1>2, StepOnly DEF DeadlockVictim
  <1>7. ASSUME tombstone_document(w)
        PROVE  \E v \in worker[w].old :
                 Moves(w, "tombstone", worker[w].old \ {v}) /\ Tombstone(v)
    <2>1. PICK v \in worker[w].old :
            Tombstone(v) /\ worker' = [worker EXCEPT ![w].old = worker[w].old \ {v}]
      BY <1>7 DEF tombstone_document
    <2>2. worker[w].old \ {v} \in SUBSET Versions /\ worker[w].step = "tombstone"
      BY <1>1, <1>7 DEF tombstone_document
    <2> QED BY <1>1, <2>1, <2>2, OldOnly
  <1>8. delete_document(w) => Moves(w, "embed", worker[w].old)
    BY <1>1, <1>2, StepOnly DEF delete_document
  <1>9. upsert(w) => Moves(w, "indexed", worker[w].old)
    BY <1>1, <1>2, StepOnly DEF upsert
  <1>10. Fail(w) => Moves(w, "failing", worker[w].old)
    BY <1>1, <1>2, StepOnly DEF Fail
  <1> QED BY <1>3, <1>4, <1>5, <1>6, <1>7, <1>8, <1>9, <1>10

\* A step that keeps the jobs and who works on them.
LEMMA JobsKept ==
    ASSUME JobInv, TypeOK', UNCHANGED jobVars, crashes' = crashes,
           \A x \in Workers : worker'[x].job = worker[x].job
    PROVE  /\ QueueSound'
           /\ JobsSound'
           /\ StrandedSound'
  <1> USE DEF jobVars
  <1>1. QueueSound'
    BY DEF JobInv, QueueSound
  <1>2. JobsSound'
    BY DEF JobInv, JobsSound, JobRunsOnce
  <1>3. Stranded' = Stranded
    BY DEF Stranded, Free
  <1>4. StrandedSound'
    BY <1>3 DEF JobInv, StrandedSound
  <1> QED BY <1>1, <1>2, <1>4

LEMMA JobMoves ==
    ASSUME JobInv, TypeOK', UNCHANGED jobVars, crashes' = crashes,
           NEW w \in Workers, NEW s \in Steps \ {"idle"}, NEW old, Moves(w, s, old),
           worker[w].step # "idle", Version(w) \notin old, s = "embed" => old = {}
    PROVE  JobInv'
  <1>1. \A x \in Workers : worker'[x].job = worker[x].job
    BY DEF Moves
  <1>2. ASSUME NEW x \in Workers PROVE WorkerSound(x)'
    <2>1. CASE x = w
      BY <2>1 DEF Moves, JobInv, WorkerSound, Version
    <2>2. CASE x # w
      BY <2>2 DEF Moves, JobInv, WorkerSound, Version
    <2> QED BY <2>1, <2>2
  <1> QED BY <1>1, <1>2, JobsKept DEF JobInv

LEMMA JobStill ==
    ASSUME JobInv, TypeOK', UNCHANGED <<jobVars, worker, crashes>>
    PROVE  JobInv'
  <1>1. ASSUME NEW x \in Workers PROVE WorkerSound(x)'
    BY DEF JobInv, WorkerSound, Version
  <1> QED BY <1>1, JobsKept DEF JobInv

LEMMA UploadJob ==
    ASSUME JobInv, NEW j \in Jobs, upload_document(j)
    PROVE  JobInv'
  <1> USE DEF upload_document, pg, qdrant, bounds
  <1>1. TypeOK /\ queue \in Seq(Jobs) /\ status \in [Jobs -> {"absent", "queued", "processing", "done", "failed"}]
    BY DEF JobInv, TypeOK
  <1>2. /\ queue' \in Seq(Jobs) /\ Len(queue') = Len(queue) + 1
        /\ \A i \in 1..Len(queue) : queue'[i] = queue[i]
        /\ queue'[Len(queue) + 1] = j
    BY <1>1, AppendProperties
  <1>3. /\ status' \in [Jobs -> {"absent", "queued", "processing", "done", "failed"}]
        /\ status'[j] = "queued"
        /\ \A i \in Jobs : i # j => status'[i] = status[i]
    BY <1>1
  <1>4. TypeOK'
    BY <1>1, <1>2, <1>3 DEF TypeOK
  <1>5. Len(queue) \in Nat /\ \A i \in 1..Len(queue) : queue[i] \in Jobs /\ queue[i] # j
    BY <1>1, LenProperties, ElementOfSeq DEF JobInv, QueueSound
  <1>6. QueueSound'
    <2>1. ASSUME NEW i \in 1..(Len(queue) + 1)
          PROVE  i \in 1..Len(queue) \/ i = Len(queue) + 1
      BY <1>5
    <2>2. \A i \in 1..Len(queue') : status'[queue'[i]] = "queued"
      BY <1>2, <1>3, <1>5, <2>1 DEF JobInv, QueueSound
    <2>3. \A i, k \in 1..Len(queue') : queue'[i] = queue'[k] => i = k
      BY <1>2, <1>5, <2>1 DEF JobInv, QueueSound
    <2> QED BY <2>2, <2>3 DEF QueueSound
  <1>7. JobsSound'
    BY <1>3 DEF JobInv, JobsSound, JobRunsOnce
  <1>8. StrandedSound'
    <2>1. Stranded' = Stranded
      BY <1>3 DEF Stranded, Free
    <2> QED BY <2>1 DEF JobInv, StrandedSound
  <1>9. ASSUME NEW x \in Workers PROVE WorkerSound(x)'
    BY DEF JobInv, WorkerSound, Version
  <1> QED BY <1>4, <1>6, <1>7, <1>8, <1>9 DEF JobInv

LEMMA ClaimJob ==
    ASSUME JobInv, NEW w \in Workers, claim_next(w)
    PROVE  JobInv'
  <1> USE DEF claim_next, pg, qdrant, bounds
  <1>0. PICK j : j = Head(queue)
    OBVIOUS
  <1> DEFINE r == [Idle EXCEPT !.step = "claimed", !.job = j]
  <1>1. /\ TypeOK /\ queue \in Seq(Jobs) /\ queue # <<>>
        /\ status \in [Jobs -> {"absent", "queued", "processing", "done", "failed"}]
        /\ attempts \in [Jobs -> Nat] /\ worker \in [Workers -> WorkerRow]
    BY WorkerTyped DEF JobInv, TypeOK
  <1>2. /\ j \in Jobs /\ Tail(queue) \in Seq(Jobs) /\ j = queue[1]
        /\ Len(queue) \in Nat /\ Len(queue) >= 1
        /\ Len(Tail(queue)) = Len(queue) - 1
        /\ \A i \in 1..(Len(queue) - 1) : Tail(queue)[i] = queue[i + 1]
    BY <1>0, <1>1, HeadTailProperties, LenProperties, EmptySeq
  <1>3. /\ r \in WorkerRow /\ r.step = "claimed" /\ r.job = j /\ r.old = {}
    BY <1>2 DEF Idle, WorkerRow, Steps
  <1>4. worker' = [worker EXCEPT ![w] = r]
    BY <1>0
  <1>5. status[j] = "queued"
    BY <1>2 DEF JobInv, QueueSound
  <1>6. status' = [status EXCEPT ![j] = "processing"] /\ queue' = Tail(queue)
        /\ attempts' = [attempts EXCEPT ![j] = attempts[j] + 1]
    BY <1>0
  <1> HIDE DEF r
  <1>7. /\ worker' \in [Workers -> WorkerRow] /\ worker'[w] = r
        /\ \A x \in Workers : x # w => worker'[x] = worker[x]
    BY <1>1, <1>3, <1>4
  <1>8. /\ status'[j] = "processing" /\ attempts'[j] = attempts[j] + 1
        /\ \A i \in Jobs : i # j => status'[i] = status[i] /\ attempts'[i] = attempts[i]
    BY <1>1, <1>2, <1>6
  <1>9. attempts[j] = 0
    BY <1>2, <1>5 DEF JobInv, JobsSound
  <1>10. TypeOK'
    <2>1. status' \in [Jobs -> {"absent", "queued", "processing", "done", "failed"}]
          /\ attempts' \in [Jobs -> Nat]
      BY <1>1, <1>2, <1>6, <1>9
    <2> QED BY <1>1, <1>2, <1>6, <1>7, <2>1 DEF TypeOK, WorkerRow
  <1>11. QueueSound'
    <2>1. \A i \in 1..Len(queue') : queue'[i] = queue[i + 1] /\ i + 1 \in 1..Len(queue) /\ i + 1 # 1
      BY <1>2, <1>6
    <2>2. \A i \in 1..Len(queue) : queue[i] \in Jobs
      BY <1>1, ElementOfSeq
    <2>3. 1 \in 1..Len(queue)
      BY <1>2
    <2>4. \A i \in 1..Len(queue') : queue'[i] \in Jobs /\ queue'[i] # j /\ status[queue'[i]] = "queued"
      BY <1>2, <2>1, <2>2, <2>3 DEF JobInv, QueueSound
    <2>5. \A i \in 1..Len(queue') : status'[queue'[i]] = "queued"
      BY <1>8, <2>4
    <2>6. ASSUME NEW i \in 1..Len(queue'), NEW k \in 1..Len(queue'), queue'[i] = queue'[k]
          PROVE  i = k
      <3>1. i + 1 = k + 1
        BY <2>1, <2>6 DEF JobInv, QueueSound
      <3>2. i \in Int /\ k \in Int
        OBVIOUS
      <3> QED BY <3>1, <3>2
    <2> QED BY <2>5, <2>6 DEF QueueSound
  <1>12. worker[w].job = None /\ \A x \in Workers : worker[x].job # j
    <2>1. worker[w].job = None
      BY DEF JobInv, WorkerSound
    <2>2. \A x \in Workers : worker[x].job # j
      BY <1>2, <1>5 DEF JobInv, JobsSound, JobRunsOnce
    <2> QED BY <2>1, <2>2
  <1>16. /\ worker'[w].job = j
         /\ \A x \in Workers : x # w => worker'[x].job = worker[x].job
    <2>1. worker'[w].job = j
      BY <1>3, <1>7, Zenon
    <2>2. \A x \in Workers : x # w => worker'[x].job = worker[x].job
      BY <1>7, Zenon
    <2> QED BY <2>1, <2>2
  <1>13. JobsSound'
    <2>1. \A i \in Jobs : attempts'[i] =< 1
      BY <1>8, <1>9, <1>1 DEF JobInv, JobsSound
    <2>2. \A i \in Jobs : status'[i] \in {"absent", "queued"} => attempts'[i] = 0
      BY <1>8 DEF JobInv, JobsSound
    <2>3. ASSUME NEW i \in Jobs, NEW x \in Workers, NEW y \in Workers,
                 worker'[x].job = i, worker'[y].job = i
          PROVE  x = y
      BY <2>3, <1>12, <1>16 DEF JobInv, JobsSound, JobRunsOnce
    <2>4. ASSUME NEW i \in Jobs, NEW x \in Workers, worker'[x].job = i
          PROVE  status'[i] = "processing"
      BY <2>4, <1>8, <1>12, <1>16 DEF JobInv, JobsSound, JobRunsOnce
    <2> QED BY <2>1, <2>2, <2>3, <2>4 DEF JobsSound, JobRunsOnce
  <1>14. StrandedSound'
    <2>1. Stranded' = Stranded
      <3>1. ASSUME NEW i \in Jobs, i # j
            PROVE  Free(i)' <=> Free(i)
        <4>1. worker[w].job # i
          BY <1>12, IngestAssumption
        <4>2. \A x \in Workers : worker'[x].job = i <=> worker[x].job = i
          BY <1>16, <3>1, <4>1
        <4> QED BY <4>2 DEF Free
      <3>2. ~Free(j)' /\ status[j] # "processing"
        <4>1. worker'[w].job = j
          BY <1>16
        <4> QED BY <1>5, <4>1 DEF Free
      <3>3. \A i \in Jobs : (status'[i] = "processing" /\ Free(i)')
                             <=> (status[i] = "processing" /\ Free(i))
        BY <1>8, <3>1, <3>2
      <3> QED BY <3>3 DEF Stranded
    <2> QED BY <2>1 DEF JobInv, StrandedSound
  <1>15. ASSUME NEW x \in Workers PROVE WorkerSound(x)'
    <2>1. CASE x = w
      BY <2>1, <1>2, <1>3, <1>7, IngestAssumption DEF WorkerSound
    <2>2. CASE x # w
      BY <2>2, <1>7 DEF JobInv, WorkerSound, Version
    <2> QED BY <2>1, <2>2
  <1> QED BY <1>10, <1>11, <1>13, <1>14, <1>15 DEF JobInv

\* What a consumer that lets go of its job leaves of the others.
LEMMA LetGoJobs ==
    ASSUME JobInv, NEW w \in Workers, LetsGo(w), worker[w].step # "idle"
    PROVE  /\ worker[w].job \in Jobs
           /\ \A x \in Workers : WorkerSound(x)'
           /\ \A x \in Workers : worker'[x].job # None =>
                x # w /\ worker'[x].job = worker[x].job
           /\ \A j \in Jobs \ {worker[w].job} : Free(j)' <=> Free(j)
  <1>1. worker[w].job \in Jobs
    BY WorkerTyped DEF JobInv, WorkerRow, WorkerSound
  <1>2. \A x \in Workers : WorkerSound(x)'
    BY DEF JobInv, WorkerSound, Version, LetsGo, Idle
  <1>3. \A x \in Workers : worker'[x].job # None =>
          x # w /\ worker'[x].job = worker[x].job
    BY DEF LetsGo, Idle
  <1>4. \A j \in Jobs \ {worker[w].job} : Free(j)' <=> Free(j)
    <2>1. ASSUME NEW j \in Jobs \ {worker[w].job} PROVE Free(j)' <=> Free(j)
      <3>1. worker'[w].job # j /\ worker[w].job # j
        BY IngestAssumption DEF LetsGo, Idle
      <3> QED BY <3>1 DEF Free, LetsGo
    <2> QED BY <2>1
  <1> QED BY <1>1, <1>2, <1>3, <1>4

LEMMA MarkJob ==
    ASSUME JobInv, NEW w \in Workers, NEW to \in {"done", "failed"}, Mark(w, to),
           worker[w].step # "idle"
    PROVE  JobInv'
  <1> USE DEF Mark, pg, qdrant, bounds
  <1> DEFINE j == worker[w].job
  <1>1. LetsGo(w)
    BY Resting DEF JobInv
  <1>2. /\ j \in Jobs
        /\ \A x \in Workers : WorkerSound(x)'
        /\ \A x \in Workers : worker'[x].job # None =>
                x # w /\ worker'[x].job = worker[x].job
        /\ \A i \in Jobs \ {j} : Free(i)' <=> Free(i)
    BY <1>1, LetGoJobs
  <1>3. /\ status' \in [Jobs -> {"absent", "queued", "processing", "done", "failed"}]
        /\ status'[j] = to
        /\ \A i \in Jobs : i # j => status'[i] = status[i]
    BY <1>2 DEF JobInv, TypeOK
  <1>4. status[j] = "processing"
    BY <1>2 DEF JobInv, JobsSound, JobRunsOnce
  <1> HIDE DEF j
  <1>5. TypeOK'
    BY <1>1, <1>3 DEF JobInv, TypeOK, LetsGo, WorkerRow
  <1>6. QueueSound'
    <2>1. \A i \in 1..Len(queue) : queue[i] \in Jobs /\ queue[i] # j
      BY <1>4, ElementOfSeq DEF JobInv, TypeOK, QueueSound
    <2> QED BY <1>3, <2>1 DEF JobInv, QueueSound
  <1>7. JobsSound'
    <2>1. \A i \in Jobs : attempts'[i] =< 1
      BY DEF JobInv, JobsSound
    <2>2. \A i \in Jobs : status'[i] \in {"absent", "queued"} => attempts'[i] = 0
      BY <1>3 DEF JobInv, JobsSound
    <2>3. ASSUME NEW i \in Jobs, NEW x \in Workers, worker'[x].job = i
          PROVE  /\ status'[i] = "processing"
                 /\ \A y \in Workers : worker'[y].job = i => x = y
      <3>1. x # w /\ worker[x].job = i /\ i # None
        BY <1>2, <2>3, IngestAssumption
      <3>2. i # j
        BY <3>1, <1>2 DEF JobInv, JobsSound, JobRunsOnce, j
      <3>3. status'[i] = "processing"
        BY <1>3, <3>1, <3>2 DEF JobInv, JobsSound, JobRunsOnce
      <3>4. \A y \in Workers : worker'[y].job = i => worker[y].job = i
        BY <1>2, <3>1
      <3> QED BY <3>1, <3>3, <3>4 DEF JobInv, JobsSound, JobRunsOnce
    <2> QED BY <2>1, <2>2, <2>3 DEF JobsSound, JobRunsOnce
  <1>8. StrandedSound'
    <2>1. ~Free(j)
      BY <1>2 DEF Free, j
    <2>2. Stranded' = Stranded
      BY <1>2, <1>3, <2>1 DEF Stranded
    <2> QED BY <2>2 DEF JobInv, StrandedSound
  <1> QED BY <1>2, <1>5, <1>6, <1>7, <1>8 DEF JobInv

\* A crash strands one job, and is counted.
LEMMA CrashJob ==
    ASSUME JobInv, TypeOK', NEW w \in Workers, Crash(w)
    PROVE  JobInv'
  <1> USE DEF Crash, jobVars
  <1> DEFINE j == worker[w].job
  <1>1. LetsGo(w)
    BY Resting DEF JobInv
  <1>2. /\ j \in Jobs
        /\ \A x \in Workers : WorkerSound(x)'
        /\ \A x \in Workers : worker'[x].job # None =>
                x # w /\ worker'[x].job = worker[x].job
        /\ \A i \in Jobs \ {j} : Free(i)' <=> Free(i)
    BY <1>1, LetGoJobs
  <1> HIDE DEF j
  <1>3. QueueSound'
    BY DEF JobInv, QueueSound
  <1>4. JobsSound'
    <2>1. ASSUME NEW i \in Jobs, NEW x \in Workers, worker'[x].job = i
          PROVE  /\ status'[i] = "processing"
                 /\ \A y \in Workers : worker'[y].job = i => x = y
      <3>1. worker[x].job = i /\ i # None
        BY <1>2, <2>1, IngestAssumption
      <3>2. \A y \in Workers : worker'[y].job = i => worker[y].job = i
        BY <1>2, <3>1
      <3> QED BY <3>1, <3>2 DEF JobInv, JobsSound, JobRunsOnce
    <2> QED BY <2>1 DEF JobInv, JobsSound, JobRunsOnce
  <1>5. StrandedSound'
    <2>1. Stranded' \subseteq Stranded \union {j}
      BY <1>2 DEF Stranded
    <2>2. IsFiniteSet(Stranded) /\ Cardinality(Stranded) =< crashes
      BY DEF JobInv, StrandedSound
    <2>3. /\ IsFiniteSet(Stranded \union {j})
          /\ Cardinality(Stranded \union {j}) =< Cardinality(Stranded) + 1
          /\ Cardinality(Stranded) \in Nat
      <3>1. Cardinality(Stranded) \in Nat
        BY <2>2, FS_CardinalityType
      <3>2. /\ IsFiniteSet(Stranded \union {j})
            /\ Cardinality(Stranded \union {j}) =
                 IF j \in Stranded THEN Cardinality(Stranded) ELSE Cardinality(Stranded) + 1
        BY <2>2, FS_AddElement, Zenon
      <3> QED BY <3>1, <3>2
    <2>4. /\ IsFiniteSet(Stranded')
          /\ Cardinality(Stranded') =< Cardinality(Stranded \union {j})
      BY <2>1, <2>3, FS_Subset
    <2>5. /\ Cardinality(Stranded') \in Nat
          /\ Cardinality(Stranded \union {j}) \in Nat
          /\ crashes \in Nat
      BY <2>3, <2>4, FS_CardinalityType DEF JobInv, TypeOK
    <2> QED BY <2>2, <2>3, <2>4, <2>5 DEF StrandedSound
  <1> QED BY <1>2, <1>3, <1>4, <1>5 DEF JobInv

-----------------------------------------------------------------------------
(* Uploads: the two stores *)

\* Whoever is writing a version nobody interfered with is alone in it, and
\* PostgreSQL holds what he committed.
WritesSound ==
    /\ \A w \in Workers : \A v \in WriteSet(w) \ mixed :
        /\ \A x \in Workers \ {w} : v \notin WriteSet(x)
        /\ \A u \in Users : user[u] # v
        /\ v = Version(w) => docs[v] = "active" /\ content[v] = worker[w].job
        /\ v # Version(w) => docs[v] = "superseded"
    /\ \A u \in Users : user[u] # None /\ user[u] \notin mixed =>
        /\ docs[user[u]] = "deleted"
        /\ \A t \in Users \ {u} : user[t] # user[u]

StoreInv == WritesSound /\ StoresAgree

IngestInv == JobInv /\ StoreInv

\* A version is in flight in a consumer, or in a delete.
InFlightOf(v) ==
    \/ \E w \in Workers : v \in WriteSet(w)
    \/ \E u \in Users : user[u] = v

LEMMA FlightParts ==
    ASSUME NEW v \in Versions
    PROVE  /\ v \in InFlight <=> InFlightOf(v)
           /\ v \in InFlight' <=> InFlightOf(v)'
    BY IngestAssumption DEF InFlight, InFlightOf

LEMMA WriteSetTyped ==
    ASSUME JobInv, NEW w \in Workers
    PROVE  /\ WriteSet(w) \in SUBSET Versions
           /\ worker[w].step = "idle" => WriteSet(w) = {}
           /\ worker[w].step # "idle" => worker[w].job \in Jobs /\ Version(w) \in Versions
  <1>1. worker[w] \in WorkerRow /\ WorkerSound(w)
    BY WorkerTyped DEF JobInv
  <1>2. worker[w].step # "idle" => worker[w].job \in Jobs /\ Version(w) \in Versions
    BY <1>1, IngestAssumption DEF WorkerRow, WorkerSound, Version
  <1> QED BY <1>1, <1>2 DEF WriteSet, WorkerRow

\* Writes that end, or are given up, and leave what they had half written mixed.
LEMMA FlightEnds ==
    ASSUME JobInv, StoreInv, UNCHANGED <<pg, qdrant>>, mixed \subseteq mixed',
           \A x \in Workers : WriteSet(x)' = {}
             \/ (WriteSet(x)' = WriteSet(x) /\ worker'[x].job = worker[x].job),
           \A u \in Users : user'[u] = None \/ user'[u] = user[u],
           \A x \in Workers : WriteSet(x) \subseteq mixed' \union WriteSet(x)',
           \A u \in Users : user[u] = None \/ user[u] \in mixed' \/ user'[u] = user[u]
    PROVE  StoreInv'
  <1> USE DEF pg, qdrant
  <1>1. ASSUME NEW w \in Workers, NEW v \in WriteSet(w)' \ mixed'
        PROVE  /\ \A x \in Workers \ {w} : v \notin WriteSet(x)'
               /\ \A u \in Users : user'[u] # v
               /\ v = Version(w)' => docs'[v] = "active" /\ content'[v] = worker'[w].job
               /\ v # Version(w)' => docs'[v] = "superseded"
    <2>1. v \in WriteSet(w) \ mixed /\ worker'[w].job = worker[w].job
      BY <1>1
    <2>2. v \in Versions
      BY <2>1, WriteSetTyped
    <2>3. v # None
      BY <2>2, IngestAssumption
    <2>4. Version(w)' = Version(w)
      BY <2>1 DEF Version
    <2>5. \A x \in Workers \ {w} : v \notin WriteSet(x)'
      BY <2>1 DEF StoreInv, WritesSound
    <2>6. \A u \in Users : user'[u] # v
      BY <2>1, <2>3 DEF StoreInv, WritesSound
    <2> QED BY <2>1, <2>4, <2>5, <2>6 DEF StoreInv, WritesSound
  <1>2. ASSUME NEW u \in Users, user'[u] # None, user'[u] \notin mixed'
        PROVE  /\ docs'[user'[u]] = "deleted"
               /\ \A t \in Users \ {u} : user'[t] # user'[u]
    BY <1>2 DEF StoreInv, WritesSound
  <1>3. ASSUME NEW v \in Versions, v \notin mixed', v \notin InFlight'
        PROVE  v \notin mixed /\ v \notin InFlight
    <2>1. ~InFlightOf(v)'
      BY <1>3, FlightParts
    <2>2. \A w \in Workers : v \notin WriteSet(w)
      BY <1>3, <2>1 DEF InFlightOf
    <2>3. \A u \in Users : user[u] # v
      BY <1>3, <2>1, IngestAssumption DEF InFlightOf
    <2>4. ~InFlightOf(v)
      BY <2>2, <2>3 DEF InFlightOf
    <2> QED BY <1>3, <2>4, FlightParts
  <1>4. StoresAgree'
    BY <1>3 DEF StoreInv, StoresAgree
  <1> QED BY <1>1, <1>2, <1>4 DEF StoreInv, WritesSound

\* A commit that puts the versions vs in flight: overlapped ones become mixed.
LEMMA FlightBegins ==
    ASSUME JobInv, StoreInv, NEW vs \in SUBSET Versions, Overlap(vs), UNCHANGED qdrant,
           \A v \in Versions \ vs : docs'[v] = docs[v] /\ content'[v] = content[v],
           \A v \in Versions : v \in InFlight' <=> v \in InFlight \/ v \in vs
    PROVE  StoresAgree'
  <1> USE DEF qdrant
  <1> SUFFICES ASSUME NEW v \in Versions, v \notin mixed', v \notin InFlight'
               PROVE  /\ points'[v] = "live" <=> docs'[v] = "active"
                      /\ points'[v] = "live" => indexed'[v] = content'[v]
    BY DEF StoresAgree
  <1>1. v \notin vs /\ v \notin InFlight /\ v \notin mixed
    BY DEF Overlap
  <1> QED BY <1>1 DEF StoreInv, StoresAgree

\* A consumer whose write set changes to vs, alone of all.
LEMMA CommitStores ==
    ASSUME JobInv, StoreInv, NEW w \in Workers, Commit(w)
    PROVE  StoreInv'
  <1> USE DEF Commit, qdrant
  <1> DEFINE vs == worker[w].old \union {Version(w)}
  <1>1. Moves(w, "tombstone", worker[w].old)
    BY IngestMoves
  <1>2. /\ worker[w].job \in Jobs /\ Version(w) \in Versions /\ worker[w] \in WorkerRow
        /\ Version(w) \notin worker[w].old /\ WriteSet(w) = {}
    BY WriteSetTyped, WorkerTyped, IngestAssumption
    DEF JobInv, WorkerSound, WriteSet
  <1>3. worker[w].old \in SUBSET Versions
    BY <1>2 DEF WorkerRow
  <1>4. Version(w)' = Version(w) /\ worker'[w].job = worker[w].job
    BY <1>1 DEF Moves, Version
  <1>5. WriteSet(w)' = vs
    BY <1>1, <1>4 DEF Moves, WriteSet
  <1>6. \A x \in Workers : x # w =>
          /\ WriteSet(x)' = WriteSet(x)
          /\ Version(x)' = Version(x)
          /\ worker'[x].job = worker[x].job
    BY <1>1 DEF Moves, WriteSet, Version
  <1>7. /\ \A v \in Versions : docs'[v] = IF v = Version(w) THEN "active"
                               ELSE IF v \in worker[w].old THEN "superseded"
                               ELSE docs[v]
        /\ content'[Version(w)] = worker[w].job
        /\ \A v \in Versions : v # Version(w) => content'[v] = content[v]
    BY <1>2 DEF JobInv, TypeOK
  <1>8. mixed' = (mixed \ vs) \union (vs \intersect InFlight)
    BY DEF Overlap
  <1>9. user' = user /\ vs \in SUBSET Versions
    BY <1>2, <1>3
  <1> HIDE DEF vs
  <1>10. \A v \in Versions : v \in InFlight' <=> v \in InFlight \/ v \in vs
    <2> SUFFICES ASSUME NEW v \in Versions
                 PROVE  InFlightOf(v)' <=> InFlightOf(v) \/ v \in vs
      BY FlightParts
    <2> QED BY <1>2, <1>5, <1>6, <1>9 DEF InFlightOf
  <1>11. ASSUME NEW v \in Versions, v \in vs, v \notin mixed'
         PROVE  (\A x \in Workers : v \notin WriteSet(x)) /\ \A u \in Users : user[u] # v
    BY <1>8, <1>11, FlightParts DEF InFlightOf
  <1>12. ASSUME NEW x \in Workers, NEW v \in WriteSet(x)' \ mixed'
         PROVE  /\ \A y \in Workers \ {x} : v \notin WriteSet(y)'
                /\ \A u \in Users : user'[u] # v
                /\ v = Version(x)' => docs'[v] = "active" /\ content'[v] = worker'[x].job
                /\ v # Version(x)' => docs'[v] = "superseded"
    <2>1. CASE x = w
      <3>1. v \in vs /\ v \in Versions
        BY <2>1, <1>5, <1>9
      <3>2. (\A y \in Workers : v \notin WriteSet(y)) /\ \A u \in Users : user[u] # v
        BY <3>1, <1>11, <1>12
      <3>3. \A y \in Workers \ {x} : v \notin WriteSet(y)'
        BY <2>1, <3>2, <1>6
      <3>4. v # Version(w) => v \in worker[w].old
        BY <3>1 DEF vs
      <3> QED BY <2>1, <3>1, <3>2, <3>3, <3>4, <1>4, <1>7, <1>9
    <2>2. CASE x # w
      <3>1. v \in WriteSet(x) /\ v \in Versions
        BY <2>2, <1>6, <1>12, WriteSetTyped
      <3>2. v \notin vs
        BY <3>1, <1>11, <1>12
      <3>3. v \notin mixed
        BY <3>2, <1>8, <1>12
      <3>4. v # Version(w) /\ v \notin worker[w].old
        BY <3>2 DEF vs
      <3>5. docs'[v] = docs[v] /\ content'[v] = content[v]
        BY <3>1, <3>4, <1>7
      <3>6. \A y \in Workers \ {x} : v \notin WriteSet(y)'
        BY <3>1, <3>2, <3>3, <1>5, <1>6 DEF StoreInv, WritesSound
      <3> QED BY <2>2, <3>1, <3>3, <3>5, <3>6, <1>6, <1>9 DEF StoreInv, WritesSound
    <2> QED BY <2>1, <2>2
  <1>13. ASSUME NEW u \in Users, user'[u] # None, user'[u] \notin mixed'
         PROVE  /\ docs'[user'[u]] = "deleted"
                /\ \A t \in Users \ {u} : user'[t] # user'[u]
    <2>1. user[u] \in Versions /\ user'[u] = user[u]
      BY <1>9, <1>13 DEF JobInv, TypeOK
    <2>2. user[u] \notin vs
      BY <2>1, <1>11, <1>13
    <2>3. user[u] \notin mixed /\ user[u] # Version(w) /\ user[u] \notin worker[w].old
      BY <2>1, <2>2, <1>8, <1>13 DEF vs
    <2> QED BY <2>1, <2>3, <1>7, <1>9, <1>13 DEF StoreInv, WritesSound
  <1>14. WritesSound'
    BY <1>12, <1>13 DEF WritesSound
  <1>15. StoresAgree'
    <2>1. \A v \in Versions \ vs : docs'[v] = docs[v] /\ content'[v] = content[v]
      BY <1>7 DEF vs
    <2>2. Overlap(vs)
      BY <1>8 DEF Overlap
    <2> QED BY <1>9, <1>10, <2>1, <2>2, FlightBegins
  <1> QED BY <1>14, <1>15 DEF StoreInv

LEMMA DeleteStores ==
    ASSUME JobInv, StoreInv, NEW u \in Users, NEW v \in Versions,
           soft_delete_document(u, v)
    PROVE  StoreInv'
  <1> USE DEF soft_delete_document, qdrant
  <1>1. /\ user'[u] = v /\ user[u] = None
        /\ \A t \in Users : t # u => user'[t] = user[t]
        /\ docs'[v] = "deleted"
        /\ \A x \in Versions : x # v => docs'[x] = docs[x]
        /\ worker' = worker /\ content' = content
    BY DEF JobInv, TypeOK
  <1>2. mixed' = (mixed \ {v}) \union ({v} \intersect InFlight)
    BY DEF Overlap
  <1>3. \A x \in Workers : WriteSet(x)' = WriteSet(x) /\ Version(x)' = Version(x)
    BY <1>1 DEF WriteSet, Version
  <1>4. \A x \in Versions : x \in InFlight' <=> x \in InFlight \/ x \in {v}
    <2> SUFFICES ASSUME NEW x \in Versions
                 PROVE  InFlightOf(x)' <=> InFlightOf(x) \/ x = v
      BY FlightParts
    <2>1. (\E t \in Users : user'[t] = x) <=> (\E t \in Users : user[t] = x) \/ x = v
      BY <1>1, IngestAssumption
    <2> QED BY <1>3, <2>1 DEF InFlightOf
  <1>5. v \notin mixed' => (\A x \in Workers : v \notin WriteSet(x))
                             /\ \A t \in Users : user[t] # v
    BY <1>2, FlightParts DEF InFlightOf
  <1>6. ASSUME NEW x \in Workers, NEW y \in WriteSet(x)' \ mixed'
        PROVE  /\ \A z \in Workers \ {x} : y \notin WriteSet(z)'
               /\ \A t \in Users : user'[t] # y
               /\ y = Version(x)' => docs'[y] = "active" /\ content'[y] = worker'[x].job
               /\ y # Version(x)' => docs'[y] = "superseded"
    <2>1. y \in WriteSet(x) /\ y \in Versions
      BY <1>3, WriteSetTyped
    <2>2. y # v
      BY <1>5, <2>1, <1>6
    <2>3. y \notin mixed /\ docs'[y] = docs[y]
      BY <1>1, <1>2, <2>1, <2>2
    <2>4. \A t \in Users : user'[t] # y
      BY <1>1, <2>1, <2>2, <2>3 DEF StoreInv, WritesSound
    <2> QED BY <1>1, <1>3, <2>1, <2>3, <2>4 DEF StoreInv, WritesSound
  <1>7. ASSUME NEW t \in Users, user'[t] # None, user'[t] \notin mixed'
        PROVE  /\ docs'[user'[t]] = "deleted"
               /\ \A r \in Users \ {t} : user'[r] # user'[t]
    <2>1. CASE t = u
      BY <2>1, <1>1, <1>5, <1>7
    <2>2. CASE t # u
      <3>1. user'[t] = user[t] /\ user[t] \in Versions
        BY <2>2, <1>1, <1>7 DEF JobInv, TypeOK
      <3>2. user[t] # v
        BY <1>5, <1>7, <3>1
      <3>3. user[t] \notin mixed /\ docs'[user[t]] = docs[user[t]]
        BY <1>1, <1>2, <1>7, <3>1, <3>2
      <3> QED BY <1>1, <1>7, <3>1, <3>2, <3>3 DEF StoreInv, WritesSound
    <2> QED BY <2>1, <2>2
  <1>8. StoresAgree'
    <2>1. {v} \in SUBSET Versions /\ Overlap({v})
      OBVIOUS
    <2>2. \A x \in Versions \ {v} : docs'[x] = docs[x] /\ content'[x] = content[x]
      BY <1>1
    <2> QED BY <1>4, <2>1, <2>2, FlightBegins
  <1> QED BY <1>6, <1>7, <1>8 DEF StoreInv, WritesSound

\* A Qdrant call for the versions vs that are in flight, which keeps PostgreSQL:
\* what it finishes the stores agree on.
LEMMA QdrantCall ==
    ASSUME JobInv, StoreInv, UNCHANGED <<pg, mixed>>,
           NEW z \in Versions,
           \A v \in Versions : v # z =>
             /\ points'[v] = points[v]
             /\ indexed'[v] = indexed[v]
             /\ v \in InFlight' <=> v \in InFlight,
           z \notin mixed /\ z \notin InFlight' =>
             /\ points'[z] = "live" <=> docs[z] = "active"
             /\ points'[z] = "live" => indexed'[z] = content[z]
    PROVE  StoresAgree'
  <1> USE DEF pg
  <1> SUFFICES ASSUME NEW v \in Versions, v \notin mixed', v \notin InFlight'
               PROVE  /\ points'[v] = "live" <=> docs'[v] = "active"
                      /\ points'[v] = "live" => indexed'[v] = content'[v]
    BY DEF StoresAgree
  <1>1. CASE v = z
    BY <1>1
  <1>2. CASE v # z
    <2>1. v \notin mixed /\ v \notin InFlight
      BY <1>2
    <2> QED BY <1>2, <2>1 DEF StoreInv, StoresAgree
  <1> QED BY <1>1, <1>2

\* The write sets of a consumer's Qdrant calls only shrink.
LEMMA WritesShrink ==
    ASSUME JobInv, StoreInv, UNCHANGED <<pg, mixed, user>>,
           \A x \in Workers : WriteSet(x)' \subseteq WriteSet(x)
             /\ worker'[x].job = worker[x].job
    PROVE  WritesSound'
  <1> USE DEF pg
  <1>1. \A x \in Workers : Version(x)' = Version(x)
    BY DEF Version
  <1> QED BY <1>1 DEF StoreInv, WritesSound

LEMMA TombstoneStores ==
    ASSUME JobInv, StoreInv, NEW w \in Workers, tombstone_document(w)
    PROVE  StoreInv'
  <1> USE DEF tombstone_document
  <1>1. PICK z \in worker[w].old :
          Moves(w, "tombstone", worker[w].old \ {z}) /\ Tombstone(z)
    BY IngestMoves
  <1>2. /\ worker[w].old \in SUBSET Versions /\ z \in Versions
        /\ Version(w) \notin worker[w].old
        /\ WriteSet(w) = worker[w].old \union {Version(w)}
    BY WriteSetTyped, WorkerTyped, IngestAssumption
    DEF JobInv, WorkerSound, WriteSet, WorkerRow
  <1>3. /\ \A x \in Workers : worker'[x].job = worker[x].job
        /\ WriteSet(w)' = (worker[w].old \ {z}) \union {Version(w)}
        /\ \A x \in Workers : x # w => WriteSet(x)' = WriteSet(x)
    BY <1>1 DEF Moves, WriteSet, Version
  <1>4. WriteSet(w)' = WriteSet(w) \ {z}
    BY <1>2, <1>3
  <1>5. user' = user /\ docs' = docs /\ content' = content /\ mixed' = mixed
        /\ indexed' = indexed
    BY DEF pg
  <1>6. WritesSound'
    BY <1>3, <1>4, <1>5, WritesShrink DEF pg
  <1>7. /\ points'[z] # "live"
        /\ \A v \in Versions : v # z => points'[v] = points[v]
    BY <1>1, <1>2 DEF Tombstone, JobInv, TypeOK
  <1>8. \A v \in Versions : v # z => (v \in InFlight' <=> v \in InFlight)
    <2> SUFFICES ASSUME NEW v \in Versions, v # z
                 PROVE  InFlightOf(v)' <=> InFlightOf(v)
      BY FlightParts
    <2>1. \A x \in Workers : v \in WriteSet(x)' <=> v \in WriteSet(x)
      BY <1>3, <1>4
    <2> QED BY <1>5, <2>1 DEF InFlightOf
  <1>9. z \notin mixed => docs[z] = "superseded"
    BY <1>2 DEF StoreInv, WritesSound
  <1>10. StoresAgree'
    BY <1>2, <1>5, <1>7, <1>8, <1>9, QdrantCall DEF pg
  <1> QED BY <1>6, <1>10 DEF StoreInv

LEMMA DeletePointsStores ==
    ASSUME JobInv, StoreInv, NEW w \in Workers, delete_document(w)
    PROVE  StoreInv'
  <1> USE DEF delete_document
  <1>1. Moves(w, "embed", worker[w].old)
    BY IngestMoves
  <1>2. /\ Version(w) \in Versions
        /\ WriteSet(w) = {Version(w)}
    BY WriteSetTyped DEF WriteSet
  <1>3. /\ \A x \in Workers : worker'[x].job = worker[x].job
        /\ WriteSet(w)' = WriteSet(w)
        /\ \A x \in Workers : x # w => WriteSet(x)' = WriteSet(x)
    BY <1>1, <1>2 DEF Moves, WriteSet, Version
  <1>4. user' = user /\ docs' = docs /\ content' = content /\ mixed' = mixed
    BY DEF pg
  <1>5. WritesSound'
    BY <1>3, <1>4, WritesShrink DEF pg
  <1>6. PICK z \in Versions : z = Version(w)
    BY <1>2
  <1>7. \A v \in Versions : v # z => points'[v] = points[v] /\ indexed'[v] = indexed[v]
    BY <1>6 DEF JobInv, TypeOK
  <1>8. \A v \in Versions : v \in InFlight' <=> v \in InFlight
    <2> SUFFICES ASSUME NEW v \in Versions PROVE InFlightOf(v)' <=> InFlightOf(v)
      BY FlightParts
    <2>1. \A x \in Workers : v \in WriteSet(x)' <=> v \in WriteSet(x)
      BY <1>3
    <2> QED BY <1>4, <2>1 DEF InFlightOf
  <1>9. z \in InFlight'
    <2>1. z \in WriteSet(w)'
      BY <1>2, <1>3, <1>6
    <2> QED BY <2>1, FlightParts DEF InFlightOf
  <1>10. StoresAgree'
    BY <1>4, <1>7, <1>8, <1>9, QdrantCall DEF pg
  <1> QED BY <1>5, <1>10 DEF StoreInv

LEMMA UpsertStores ==
    ASSUME JobInv, StoreInv, NEW w \in Workers, upsert(w)
    PROVE  StoreInv'
  <1> USE DEF upsert
  <1>1. Moves(w, "indexed", worker[w].old)
    BY IngestMoves
  <1>2. /\ Version(w) \in Versions
        /\ WriteSet(w) = {Version(w)}
    BY WriteSetTyped DEF WriteSet, JobInv, WorkerSound
  <1>3. /\ \A x \in Workers : worker'[x].job = worker[x].job
        /\ WriteSet(w)' = {}
        /\ \A x \in Workers : x # w => WriteSet(x)' = WriteSet(x)
    BY <1>1 DEF Moves, WriteSet, Version
  <1>4. user' = user /\ docs' = docs /\ content' = content /\ mixed' = mixed
    BY DEF pg
  <1>5. WritesSound'
    BY <1>3, <1>4, WritesShrink DEF pg
  <1>6. PICK z \in Versions : z = Version(w)
    BY <1>2
  <1>7. /\ \A v \in Versions : v # z => points'[v] = points[v] /\ indexed'[v] = indexed[v]
        /\ points'[z] = "live" /\ indexed'[z] = worker[w].job
    BY <1>6 DEF JobInv, TypeOK
  <1>8. \A v \in Versions : v # z => (v \in InFlight' <=> v \in InFlight)
    <2> SUFFICES ASSUME NEW v \in Versions, v # z
                 PROVE  InFlightOf(v)' <=> InFlightOf(v)
      BY FlightParts
    <2>1. \A x \in Workers : v \in WriteSet(x)' <=> v \in WriteSet(x)
      BY <1>2, <1>3, <1>6
    <2> QED BY <1>4, <2>1 DEF InFlightOf
  <1>9. z \notin mixed => docs[z] = "active" /\ content[z] = worker[w].job
    BY <1>2, <1>6 DEF StoreInv, WritesSound
  <1>10. StoresAgree'
    BY <1>4, <1>7, <1>8, <1>9, QdrantCall DEF pg
  <1> QED BY <1>5, <1>10 DEF StoreInv

LEMMA DeletedStores ==
    ASSUME JobInv, StoreInv, NEW u \in Users, TombstoneDeleted(u)
    PROVE  StoreInv'
  <1> USE DEF TombstoneDeleted
  <1>1. PICK z : z = user[u]
    OBVIOUS
  <1>2. z \in Versions /\ z # None
    BY <1>1 DEF JobInv, TypeOK
  <1>3. /\ user'[u] = None /\ \A t \in Users : t # u => user'[t] = user[t]
        /\ worker' = worker /\ docs' = docs /\ content' = content
        /\ mixed' = mixed /\ indexed' = indexed
    BY DEF pg, JobInv, TypeOK
  <1>4. /\ points'[z] # "live"
        /\ \A v \in Versions : v # z => points'[v] = points[v]
    BY <1>1, <1>2 DEF Tombstone, JobInv, TypeOK
  <1>5. \A x \in Workers : WriteSet(x)' = WriteSet(x) /\ Version(x)' = Version(x)
    BY <1>3 DEF WriteSet, Version
  <1>6. WritesSound'
    <2>1. ASSUME NEW x \in Workers, NEW v \in WriteSet(x)' \ mixed'
          PROVE  /\ \A y \in Workers \ {x} : v \notin WriteSet(y)'
                 /\ \A t \in Users : user'[t] # v
                 /\ v = Version(x)' => docs'[v] = "active" /\ content'[v] = worker'[x].job
                 /\ v # Version(x)' => docs'[v] = "superseded"
      <3>1. v \in WriteSet(x) \ mixed /\ v \in Versions
        BY <1>3, <1>5, <2>1, WriteSetTyped
      <3>2. \A t \in Users : user'[t] # v
        BY <1>3, <3>1, IngestAssumption DEF StoreInv, WritesSound
      <3> QED BY <1>3, <1>5, <3>1, <3>2 DEF StoreInv, WritesSound
    <2>2. ASSUME NEW t \in Users, user'[t] # None, user'[t] \notin mixed'
          PROVE  /\ docs'[user'[t]] = "deleted"
                 /\ \A r \in Users \ {t} : user'[r] # user'[t]
      BY <1>3, <2>2 DEF StoreInv, WritesSound
    <2> QED BY <2>1, <2>2 DEF WritesSound
  <1>7. \A v \in Versions : v # z => (v \in InFlight' <=> v \in InFlight)
    <2> SUFFICES ASSUME NEW v \in Versions, v # z
                 PROVE  InFlightOf(v)' <=> InFlightOf(v)
      BY FlightParts
    <2>1. (\E t \in Users : user'[t] = v) <=> \E t \in Users : user[t] = v
      BY <1>1, <1>3, IngestAssumption
    <2> QED BY <1>5, <2>1 DEF InFlightOf
  <1>8. z \notin mixed => docs[z] = "deleted"
    BY <1>1, <1>2 DEF StoreInv, WritesSound
  <1>9. StoresAgree'
    BY <1>2, <1>3, <1>4, <1>7, <1>8, QdrantCall DEF pg
  <1> QED BY <1>6, <1>9 DEF StoreInv

\* The steps of a job that keep it: their types, and the queue's invariant.
LEMMA IngestTypes ==
    ASSUME JobInv, NEW w \in Workers,
           \/ ReadCurrent(w) \/ LockCurrent(w) \/ Commit(w) \/ DeadlockVictim(w)
           \/ tombstone_document(w) \/ delete_document(w) \/ upsert(w) \/ Fail(w)
    PROVE  TypeOK'
  <1> USE DEF jobVars, pg, qdrant, bounds
  <1>1. worker' \in [Workers -> WorkerRow]
    BY IngestMoves DEF Moves
  <1>2. TypeOK /\ (worker[w].step # "idle" => Version(w) \in Versions /\ worker[w].job \in Jobs)
    BY WriteSetTyped DEF JobInv
  <1>3. CASE ReadCurrent(w) \/ LockCurrent(w) \/ DeadlockVictim(w)
    BY <1>1, <1>2, <1>3 DEF TypeOK, WorkerRow, ReadCurrent, LockCurrent, DeadlockVictim
  <1>4. CASE Commit(w)
    <2>1. worker[w].old \in SUBSET Versions
      BY WorkerTyped DEF JobInv, WorkerRow
    <2>2. mixed' \subseteq Versions
      BY <1>2, <1>4, <2>1 DEF TypeOK, Commit, Overlap
    <2>3. docs' \in [Versions -> {"absent", "active", "superseded", "deleted"}]
          /\ content' \in [Versions -> Jobs \union {None}]
      BY <1>2, <1>4 DEF TypeOK, Commit
    <2> QED BY <1>1, <1>2, <1>4, <2>2, <2>3 DEF TypeOK, WorkerRow, Commit
  <1>5. CASE tombstone_document(w)
    <2>1. points' \in [Versions -> {"none", "live", "tombstoned"}]
      BY <1>2, <1>5 DEF TypeOK, tombstone_document, Tombstone
    <2> QED BY <1>1, <1>2, <1>5, <2>1 DEF TypeOK, WorkerRow, tombstone_document
  <1>6. CASE delete_document(w)
    <2>1. points' \in [Versions -> {"none", "live", "tombstoned"}]
          /\ indexed' \in [Versions -> Jobs \union {None}]
      BY <1>2, <1>6 DEF TypeOK, delete_document
    <2> QED BY <1>1, <1>2, <1>6, <2>1 DEF TypeOK, WorkerRow, delete_document
  <1>7. CASE upsert(w)
    <2>1. points' \in [Versions -> {"none", "live", "tombstoned"}]
          /\ indexed' \in [Versions -> Jobs \union {None}]
      BY <1>2, <1>7 DEF TypeOK, upsert
    <2> QED BY <1>1, <1>2, <1>7, <2>1 DEF TypeOK, WorkerRow, upsert
  <1>8. CASE Fail(w)
    <2>1. mixed' \subseteq Versions
      BY <1>2, <1>8, WriteSetTyped DEF TypeOK, Fail, LeaveBehind
    <2>2. /\ UNCHANGED <<jobVars, user, pg, qdrant, deletes, crashes>>
          /\ faults' \in Nat
      BY <1>2, <1>8 DEF TypeOK, Fail
    <2> QED BY <1>1, <1>2, <2>1, <2>2 DEF TypeOK, WorkerRow
  <1> QED BY <1>3, <1>4, <1>5, <1>6, <1>7, <1>8

LEMMA IngestJobs ==
    ASSUME JobInv, NEW w \in Workers,
           \/ ReadCurrent(w) \/ LockCurrent(w) \/ Commit(w) \/ DeadlockVictim(w)
           \/ tombstone_document(w) \/ delete_document(w) \/ upsert(w) \/ Fail(w)
    PROVE  JobInv'
  <1>1. TypeOK' /\ UNCHANGED jobVars /\ crashes' = crashes /\ worker[w].step # "idle"
    BY IngestTypes DEF ReadCurrent, LockCurrent, Commit, DeadlockVictim,
       tombstone_document, delete_document, upsert, Fail, bounds
  <1>2. worker[w].job # None /\ Version(w) \notin worker[w].old
    BY <1>1 DEF JobInv, WorkerSound
  <1>3. PICK s \in Steps \ {"idle"}, old \in SUBSET Versions :
          Moves(w, s, old) /\ Version(w) \notin old /\ (s = "embed" => old = {})
    <2>1. /\ "update" \in Steps /\ "txn" \in Steps /\ "tombstone" \in Steps
          /\ "failing" \in Steps /\ "embed" \in Steps /\ "indexed" \in Steps
      BY DEF Steps
    <2>2. worker[w].old \in SUBSET Versions
      BY WorkerTyped DEF JobInv, WorkerRow
    <2>3. CASE ReadCurrent(w)
      <3> DEFINE old == {v \in Versions \ {Version(w)} : docs[v] = "active"}
      <3>1. Moves(w, "update", old)
        BY <2>3, IngestMoves
      <3>2. old \in SUBSET Versions /\ Version(w) \notin old
        OBVIOUS
      <3> HIDE DEF old
      <3> QED BY <2>1, <3>1, <3>2
    <2>4. CASE LockCurrent(w)
      <3> DEFINE old == {v \in worker[w].old : docs[v] = "active"}
      <3>1. Moves(w, "txn", old)
        BY <2>4, IngestMoves
      <3>2. old \in SUBSET Versions /\ Version(w) \notin old
        BY <1>2, <2>2
      <3> HIDE DEF old
      <3> QED BY <2>1, <3>1, <3>2
    <2>5. CASE tombstone_document(w)
      <3>1. PICK v \in worker[w].old : Moves(w, "tombstone", worker[w].old \ {v})
        BY <2>5, IngestMoves
      <3>2. worker[w].old \ {v} \in SUBSET Versions
            /\ Version(w) \notin worker[w].old \ {v}
        BY <1>2, <2>2
      <3> QED BY <2>1, <3>1, <3>2
    <2>6. CASE delete_document(w)
      <3>1. Moves(w, "embed", worker[w].old) /\ worker[w].old = {}
        BY <2>6, IngestMoves DEF delete_document
      <3> QED BY <1>2, <2>1, <2>2, <3>1
    <2>7. CASE Commit(w) \/ DeadlockVictim(w) \/ upsert(w) \/ Fail(w)
      <3>1. \/ Moves(w, "tombstone", worker[w].old)
            \/ Moves(w, "failing", worker[w].old)
            \/ Moves(w, "indexed", worker[w].old)
        BY <2>7, IngestMoves
      <3> QED BY <1>2, <2>1, <2>2, <3>1
    <2> QED BY <2>3, <2>4, <2>5, <2>6, <2>7
  <1> QED BY <1>1, <1>3, JobMoves

\* A step of one consumer that writes neither store, and is in no write after
\* it: what it had half written is mixed.
LEMMA ConsumerEnds ==
    ASSUME JobInv, StoreInv, NEW w \in Workers, UNCHANGED <<pg, qdrant, user>>,
           mixed \subseteq mixed', WriteSet(w) \subseteq mixed',
           worker'[w].step \notin {"tombstone", "embed"},
           \A x \in Workers : x # w => worker'[x] = worker[x]
    PROVE  StoreInv'
  <1>1. WriteSet(w)' = {}
    BY DEF WriteSet
  <1>2. \A x \in Workers : x # w =>
          WriteSet(x)' = WriteSet(x) /\ worker'[x].job = worker[x].job
    BY DEF WriteSet, Version
  <1>3. \A x \in Workers : WriteSet(x)' = {}
             \/ (WriteSet(x)' = WriteSet(x) /\ worker'[x].job = worker[x].job)
    BY <1>1, <1>2
  <1>4. \A x \in Workers : WriteSet(x) \subseteq mixed' \union WriteSet(x)'
    BY <1>2
  <1> QED BY <1>3, <1>4, FlightEnds

LEMMA StoresStill ==
    ASSUME JobInv, StoreInv, UNCHANGED <<pg, qdrant, user, worker, mixed>>
    PROVE  StoreInv'
  <1>1. \A x \in Workers : WriteSet(x)' = WriteSet(x)
    BY DEF WriteSet, Version
  <1> QED BY <1>1, FlightEnds

LEMMA IngestStores ==
    ASSUME JobInv, StoreInv, NEW w \in Workers,
           \/ ReadCurrent(w) \/ LockCurrent(w) \/ DeadlockVictim(w) \/ Fail(w)
           \/ claim_next(w) \/ mark_done(w) \/ mark_failed(w) \/ Crash(w)
    PROVE  StoreInv'
  <1>1. UNCHANGED <<pg, qdrant, user>>
    BY DEF ReadCurrent, LockCurrent, DeadlockVictim, Fail, claim_next, mark_done,
       mark_failed, Mark, Crash
  <1>2. mixed \subseteq mixed' /\ WriteSet(w) \subseteq mixed'
    <2>1. CASE Fail(w) \/ Crash(w)
      BY <2>1 DEF Fail, Crash, LeaveBehind
    <2>2. CASE ~(Fail(w) \/ Crash(w))
      BY <2>2 DEF ReadCurrent, LockCurrent, DeadlockVictim, claim_next, mark_done,
         mark_failed, Mark, WriteSet
    <2> QED BY <2>1, <2>2
  <1>3. /\ worker'[w].step \notin {"tombstone", "embed"}
        /\ \A x \in Workers : x # w => worker'[x] = worker[x]
    <2>1. CASE ReadCurrent(w) \/ LockCurrent(w) \/ DeadlockVictim(w) \/ Fail(w)
      BY <2>1, IngestMoves DEF Moves
    <2>2. CASE mark_done(w) \/ mark_failed(w) \/ Crash(w)
      <3>1. LetsGo(w)
        BY <2>2, Resting DEF JobInv, mark_done, mark_failed, Mark, Crash
      <3> QED BY <3>1 DEF LetsGo, Idle
    <2>3. CASE claim_next(w)
      BY <2>3, WorkerTyped DEF JobInv, claim_next, Idle
    <2> QED BY <2>1, <2>2, <2>3
  <1> QED BY <1>1, <1>2, <1>3, ConsumerEnds

LEMMA UserJobs ==
    ASSUME JobInv, NEW u \in Users,
           \/ \E v \in Versions : soft_delete_document(u, v)
           \/ TombstoneDeleted(u) \/ DeleteFails(u)
    PROVE  JobInv'
  <1> USE DEF jobVars, pg, qdrant, bounds
  <1>1. UNCHANGED <<jobVars, worker, crashes>> /\ TypeOK
    BY DEF soft_delete_document, TombstoneDeleted, DeleteFails, JobInv
  <1>2. TypeOK'
    <2>1. ASSUME NEW v \in Versions, soft_delete_document(u, v) PROVE TypeOK'
      <3>1. mixed' \subseteq Versions
        BY <1>1, <2>1 DEF TypeOK, soft_delete_document, Overlap
      <3> QED BY <1>1, <2>1, <3>1 DEF TypeOK, soft_delete_document
    <2>2. CASE TombstoneDeleted(u)
      BY <1>1, <2>2 DEF TypeOK, TombstoneDeleted, Tombstone
    <2>3. CASE DeleteFails(u)
      BY <1>1, <2>3 DEF TypeOK, DeleteFails
    <2> QED BY <2>1, <2>2, <2>3
  <1> QED BY <1>1, <1>2, JobStill

LEMMA DeleteFailsStores ==
    ASSUME JobInv, StoreInv, NEW u \in Users, DeleteFails(u)
    PROVE  StoreInv'
  <1>1. /\ \A x \in Workers : WriteSet(x)' = WriteSet(x) /\ worker'[x].job = worker[x].job
        /\ UNCHANGED <<pg, qdrant>> /\ mixed \subseteq mixed' /\ user[u] \in mixed'
    BY DEF DeleteFails, WriteSet, Version
  <1>2. \A t \in Users : user'[t] = IF t = u THEN None ELSE user[t]
    BY DEF DeleteFails, JobInv, TypeOK
  <1>3. \A x \in Workers : WriteSet(x) \subseteq mixed' \union WriteSet(x)'
    BY <1>1
  <1> QED BY <1>1, <1>2, <1>3, FlightEnds

LEMMA IngestStart == Init => IngestInv
  <1> SUFFICES ASSUME Init PROVE IngestInv
    OBVIOUS
  <1> USE DEF Init
  <1>1. TypeOK
    BY IngestAssumption DEF TypeOK, Idle, Steps
  <1>2. QueueSound
    BY DEF QueueSound
  <1>3. JobsSound
    BY IngestAssumption DEF JobsSound, JobRunsOnce, Idle
  <1>4. StrandedSound
    <2>1. Stranded = {}
      BY DEF Stranded
    <2> QED BY <2>1, FS_EmptySet DEF StrandedSound
  <1>5. \A w \in Workers : WorkerSound(w)
    BY DEF WorkerSound, Idle
  <1>6. \A w \in Workers : WriteSet(w) = {}
    BY DEF WriteSet, Idle
  <1>7. StoreInv
    BY <1>6 DEF StoreInv, WritesSound, StoresAgree
  <1> QED BY <1>1, <1>2, <1>3, <1>4, <1>5, <1>7 DEF IngestInv, JobInv

LEMMA IngestStep == IngestInv /\ [Next]_vars => IngestInv'
  <1> SUFFICES ASSUME JobInv, StoreInv, [Next]_vars PROVE JobInv' /\ StoreInv'
    BY DEF IngestInv
  <1>1. CASE UNCHANGED vars
    <2>1. TypeOK'
      BY <1>1 DEF JobInv, TypeOK, vars, jobVars, pg, qdrant, bounds
    <2> QED BY <1>1, <2>1, JobStill, StoresStill DEF vars, bounds
  <1>2. ASSUME NEW j \in Jobs, upload_document(j) PROVE JobInv' /\ StoreInv'
    BY <1>2, UploadJob, StoresStill DEF upload_document
  <1>3. ASSUME NEW w \in Workers, claim_next(w) \/ Ingest(w) \/ Fail(w) \/ Crash(w)
        PROVE  JobInv' /\ StoreInv'
    <2>1. CASE claim_next(w)
      BY <2>1, ClaimJob, IngestStores
    <2>2. CASE mark_done(w) \/ mark_failed(w)
      <3>1. JobInv'
        BY <2>2, MarkJob DEF mark_done, mark_failed
      <3> QED BY <2>2, <3>1, IngestStores
    <2>3. CASE Crash(w)
      <3>1. TypeOK'
        <4>1. TypeOK /\ worker' \in [Workers -> WorkerRow]
          BY <2>3, Resting DEF JobInv, Crash, LetsGo
        <4>2. mixed' \subseteq Versions
          BY <2>3, WriteSetTyped DEF JobInv, TypeOK, Crash, LeaveBehind
        <4>3. /\ UNCHANGED <<jobVars, user, pg, qdrant, deletes, faults>>
              /\ crashes' \in Nat
          BY <2>3, <4>1 DEF TypeOK, Crash
        <4> QED BY <4>1, <4>2, <4>3 DEF TypeOK, WorkerRow, jobVars, pg, qdrant
      <3> QED BY <2>3, <3>1, CrashJob, IngestStores
    <2>4. CASE ReadCurrent(w) \/ LockCurrent(w) \/ DeadlockVictim(w) \/ Fail(w)
      BY <2>4, IngestJobs, IngestStores
    <2>5. CASE Commit(w)
      BY <2>5, IngestJobs, CommitStores
    <2>6. CASE tombstone_document(w)
      BY <2>6, IngestJobs, TombstoneStores
    <2>7. CASE delete_document(w)
      BY <2>7, IngestJobs, DeletePointsStores
    <2>8. CASE upsert(w)
      BY <2>8, IngestJobs, UpsertStores
    <2> QED BY <1>3, <2>1, <2>2, <2>3, <2>4, <2>5, <2>6, <2>7, <2>8 DEF Ingest
  <1>4. ASSUME NEW u \in Users,
               \/ \E v \in Versions : soft_delete_document(u, v)
               \/ TombstoneDeleted(u) \/ DeleteFails(u)
        PROVE  JobInv' /\ StoreInv'
    <2>1. JobInv'
      BY <1>4, UserJobs
    <2>2. StoreInv'
      BY <1>4, DeleteStores, DeletedStores, DeleteFailsStores
    <2> QED BY <2>1, <2>2
  <1> QED BY <1>1, <1>2, <1>3, <1>4 DEF Next

\* The inductive invariant of the ingest: one claim per upload, a count of
\* crashes that covers the stranded ones, and who writes which version.
THEOREM IngestInvariant == Spec => []IngestInv
  BY IngestStart, IngestStep, PTL DEF Spec

\* claim_next gives an upload to one consumer once, and only a crash leaves one
\* in "processing".
THEOREM UploadsOnce == Spec => []UploadsRunOnce
  <1>1. IngestInv => UploadsRunOnce
    BY DEF IngestInv, JobInv, JobsSound, StrandedSound, Stranded, Free,
       UploadsRunOnce, StrandedByCrashOnly
  <1> QED BY <1>1, IngestInvariant, PTL

\* Outside the writes in flight, and those that overlapped or failed half-way,
\* Qdrant returns exactly what PostgreSQL has active.
THEOREM StoresInStep == Spec => []StoresAgree
  <1>1. IngestInv => StoresAgree
    BY DEF IngestInv, StoreInv
  <1> QED BY <1>1, IngestInvariant, PTL

-----------------------------------------------------------------------------
(* Sequences of keyed entries *)

OneKey(s) == \A i, j \in DOMAIN s : s[i].key = s[j].key => i = j

NoKey(s, k) == \A i \in DOMAIN s : s[i].key # k

\* t is what a and b, the parts of s before and behind its i-th element, make.
IsJoin(t, a, b, s, i, l) ==
    /\ l \in Nat /\ i \in 1..l
    /\ \A j \in 1..(i - 1) : a[j] = s[j]
    /\ \A j \in 1..(l - i) : b[j] = s[j + i]
    /\ \A j \in 1..(i - 1 + (l - i)) : t[j] = IF j =< i - 1 THEN a[j] ELSE b[j - (i - 1)]

Skips(t, s, i, l) == \A j \in 1..(l - 1) : t[j] = IF j < i THEN s[j] ELSE s[j + 1]

LEMMA Joined ==
    ASSUME NEW l, NEW i, NEW a, NEW b, NEW s, NEW t, IsJoin(t, a, b, s, i, l)
    PROVE  Skips(t, s, i, l)
  <1> USE DEF IsJoin, Skips
  <1> SUFFICES ASSUME NEW j \in 1..(l - 1) PROVE t[j] = IF j < i THEN s[j] ELSE s[j + 1]
    OBVIOUS
  <1>1. j \in 1..(i - 1 + (l - i))
    OBVIOUS
  <1>2. CASE j < i
    BY <1>1, <1>2
  <1>3. CASE ~(j < i)
    <2>1. j - (i - 1) \in 1..(l - i) /\ j - (i - 1) + i = j + 1
      BY <1>3
    <2>2. t[j] = s[j - (i - 1) + i]
      BY <1>1, <1>3, <2>1
    <2> QED BY <1>3, <2>1, <2>2
  <1> QED BY <1>2, <1>3

\* t is s, of length l and with no key twice, without its i-th entry.
IsCut(t, s, i, l) ==
    /\ l \in Nat /\ i \in 1..l
    /\ \A x, y \in 1..l : s[x].key = s[y].key => x = y
    /\ DOMAIN t = 1..(l - 1)
    /\ Skips(t, s, i, l)

LEMMA CutKeys ==
    ASSUME NEW l, NEW i, NEW s, NEW t, IsCut(t, s, i, l)
    PROVE  OneKey(t) /\ NoKey(t, s[i].key)
  <1> USE DEF IsCut, Skips
  <1>1. ASSUME NEW j \in DOMAIN t
        PROVE  \/ j < i /\ t[j] = s[j] /\ j \in 1..l
               \/ j >= i /\ t[j] = s[j + 1] /\ j + 1 \in 1..l
    OBVIOUS
  <1>2. NoKey(t, s[i].key)
    <2> SUFFICES ASSUME NEW j \in DOMAIN t PROVE t[j].key # s[i].key
      BY DEF NoKey
    <2> QED BY <1>1
  <1>3. OneKey(t)
    <2> SUFFICES ASSUME NEW j \in DOMAIN t, NEW h \in DOMAIN t, t[j].key = t[h].key
                 PROVE  j = h
      BY DEF OneKey
    <2>1. j \in Int /\ h \in Int
      OBVIOUS
    <2>2. CASE j < i /\ h < i
      BY <1>1, <2>2
    <2>3. CASE j < i /\ h >= i
      BY <1>1, <2>3
    <2>4. CASE j >= i /\ h < i
      BY <1>1, <2>4
    <2>5. CASE j >= i /\ h >= i
      BY <1>1, <2>5
    <2> QED BY <2>1, <2>2, <2>3, <2>4, <2>5
  <1> QED BY <1>2, <1>3

\* Without one of its entries a sequence is one shorter and that key is gone.
LEMMA CutOne ==
    ASSUME NEW S, NEW s \in Seq(S), OneKey(s), NEW i \in DOMAIN s,
           NEW t, t = SubSeq(s, 1, i - 1) \o SubSeq(s, i + 1, Len(s))
    PROVE  t \in Seq(S) /\ OneKey(t) /\ NoKey(t, s[i].key) /\ Len(t) = Len(s) - 1
  <1> DEFINE l == Len(s)
             a == SubSeq(s, 1, i - 1)
             b == SubSeq(s, i + 1, l)
  <1>1. l \in Nat /\ DOMAIN s = 1..l /\ i \in 1..l /\ \A j \in 1..l : s[j] \in S
    BY LenProperties, ElementOfSeq
  <1>2. /\ a \in Seq(S) /\ Len(a) = IF 1 =< i - 1 THEN i - 1 - 1 + 1 ELSE 0
        /\ \A j \in 1..(i - 1 - 1 + 1) : a[j] = s[1 + j - 1]
    <2>1. 1 \in Int /\ i - 1 \in Int /\ \A j \in 1..(i - 1) : s[j] \in S
      BY <1>1
    <2> QED BY <2>1, SubSeqProperties
  <1>3. /\ b \in Seq(S) /\ Len(b) = IF i + 1 =< l THEN l - (i + 1) + 1 ELSE 0
        /\ \A j \in 1..(l - (i + 1) + 1) : b[j] = s[i + 1 + j - 1]
    <2>1. i + 1 \in Int /\ l \in Int /\ \A j \in (i + 1)..l : s[j] \in S
      BY <1>1
    <2> QED BY <2>1, SubSeqProperties
  <1>4. t = a \o b
    OBVIOUS
  <1> HIDE DEF a, b, l
  <1>5. /\ t \in Seq(S) /\ Len(t) = Len(a) + Len(b)
        /\ \A j \in 1..(Len(a) + Len(b)) : t[j] = IF j =< Len(a) THEN a[j] ELSE b[j - Len(a)]
    <2>1. /\ a \o b \in Seq(S) /\ Len(a \o b) = Len(a) + Len(b)
          /\ \A j \in 1..(Len(a) + Len(b)) :
                (a \o b)[j] = IF j =< Len(a) THEN a[j] ELSE b[j - Len(a)]
      BY <1>2, <1>3, ConcatProperties, Zenon
    <2> QED BY <1>4, <2>1, Zenon
  <1>6. Len(a) = i - 1 /\ \A j \in 1..(i - 1) : a[j] = s[j]
    BY <1>1, <1>2
  <1>7. Len(b) = l - i
    BY <1>1, <1>3
  <1>8. ASSUME NEW j \in 1..(l - i) PROVE b[j] = s[j + i]
    <2>1. j \in 1..(l - (i + 1) + 1) /\ i + 1 + j - 1 = j + i
      BY <1>1
    <2> QED BY <1>3, <2>1
  <1>9. DOMAIN t = 1..(l - 1) /\ Len(t) = l - 1
    <2>1. Len(t) = l - 1
      BY <1>1, <1>5, <1>6, <1>7
    <2> QED BY <1>5, <2>1, LenProperties
  <1>10. Skips(t, s, i, l)
    <2>1. \A j \in 1..(i - 1 + (l - i)) :
            t[j] = IF j =< i - 1 THEN a[j] ELSE b[j - (i - 1)]
      BY <1>5, <1>6, <1>7
    <2>2. IsJoin(t, a, b, s, i, l)
      BY <1>1, <1>6, <1>8, <2>1, Zenon DEF IsJoin
    <2> QED BY <2>2, Joined, Zenon
  <1>11. \A x, y \in 1..l : s[x].key = s[y].key => x = y
    BY <1>1, Zenon DEF OneKey
  <1>12. IsCut(t, s, i, l)
    BY <1>1, <1>9, <1>10, <1>11, Zenon DEF IsCut
  <1> QED BY <1>5, <1>9, <1>12, CutKeys, Zenon DEF l

\* An entry with a new key is appended.
LEMMA AppendKey ==
    ASSUME NEW S, NEW s \in Seq(S), OneKey(s), NEW e \in S, NoKey(s, e.key),
           NEW t, t = Append(s, e)
    PROVE  t \in Seq(S) /\ OneKey(t) /\ Len(t) = Len(s) + 1
  <1>1. /\ t \in Seq(S) /\ Len(t) = Len(s) + 1
        /\ \A i \in 1..Len(s) : t[i] = s[i]
        /\ t[Len(s) + 1] = e
    BY AppendProperties
  <1>2. DOMAIN s = 1..Len(s) /\ DOMAIN t = 1..(Len(s) + 1) /\ Len(s) \in Nat
    BY <1>1, LenProperties
  <1>3. ASSUME NEW i \in DOMAIN t
        PROVE  (i \in DOMAIN s /\ t[i] = s[i]) \/ (i = Len(s) + 1 /\ t[i] = e)
    BY <1>1, <1>2
  <1>4. OneKey(t)
    <2> SUFFICES ASSUME NEW i \in DOMAIN t, NEW j \in DOMAIN t, t[i].key = t[j].key
                 PROVE  i = j
      BY DEF OneKey
    <2> QED BY <1>3 DEF OneKey, NoKey
  <1> QED BY <1>1, <1>4

\* The last n entries, or all there are.
LEMMA LastKeys ==
    ASSUME NEW S, NEW s \in Seq(S), OneKey(s), NEW n \in Nat, NEW t,
           t = SubSeq(s, IF Len(s) > n THEN Len(s) - n + 1 ELSE 1, Len(s))
    PROVE  t \in Seq(S) /\ OneKey(t) /\ Len(t) =< n
  <1> DEFINE l == Len(s)
             m == IF l > n THEN l - n + 1 ELSE 1
  <1>1. l \in Nat /\ DOMAIN s = 1..l /\ m \in Int /\ m >= 1
        /\ \A j \in m..l : s[j] \in S
    BY LenProperties, ElementOfSeq
  <1>2. /\ t \in Seq(S) /\ Len(t) = IF m =< l THEN l - m + 1 ELSE 0
        /\ \A j \in 1..(l - m + 1) : t[j] = s[m + j - 1]
    BY <1>1, SubSeqProperties
  <1>3. Len(t) =< n
    BY <1>1, <1>2
  <1> HIDE DEF m, l
  <1>4. ASSUME NEW j \in DOMAIN t PROVE m + j - 1 \in DOMAIN s /\ t[j] = s[m + j - 1]
                                        /\ j \in Int
    <2>1. DOMAIN t = 1..Len(t)
      BY <1>2, LenProperties
    <2>2. Len(t) = 0 \/ Len(t) = l - m + 1
      <3>1. CASE m =< l
        BY <1>2, <3>1, Zenon
      <3>2. CASE ~(m =< l)
        BY <1>2, <3>2, Zenon
      <3> QED BY <3>1, <3>2, Zenon
    <2>3. j \in 1..(l - m + 1)
      <3>1. j \in 1..Len(t)
        BY <2>1, Zenon
      <3>2. j \notin 1..0
        OBVIOUS
      <3>3. Len(t) = l - m + 1
        BY <2>2, <3>1, <3>2, Zenon
      <3> QED BY <3>1, <3>3, Zenon
    <2>4. m + j - 1 \in 1..l /\ j \in Int
      BY <1>1, <2>3
    <2>5. t[j] = s[m + j - 1]
      BY <1>2, <2>3
    <2> QED BY <1>1, <2>4, <2>5
  <1>5. OneKey(t)
    <2> SUFFICES ASSUME NEW i \in DOMAIN t, NEW j \in DOMAIN t, t[i].key = t[j].key
                 PROVE  i = j
      BY DEF OneKey
    <2>1. m + i - 1 = m + j - 1
      BY <1>4 DEF OneKey
    <2> QED BY <1>1, <1>4, <2>1
  <1> QED BY <1>2, <1>3, <1>5

-----------------------------------------------------------------------------
(* The inductive invariant of the searches *)

\* What one call leaves in the cache: found for one of the questions asked, and
\* kept under that question's key.
Entry == [key : {_cache_key(q) : q \in Asked}, refs : SUBSET AllowedHosts,
          for : Asked, expires : Nat]
SoundEntry == {e \in Entry : e.key = _cache_key(e.for)}

CacheSound == entries \in Seq(SoundEntry) /\ Len(entries) <= MaxEntries /\ OneKey(entries)

Search == [pc : {"idle", "cache", "chain", "sent", "read", "done"},
           asked : Asked \union {NoQuestion}, next : Nat \ {0}, hits : SUBSET AllowedHosts,
           passed : SUBSET Provider, live : SUBSET AllowedHosts,
           for : Asked \union {NoQuestion}, age : Int, kept : BOOLEAN, corpus : BOOLEAN]

\* A search under way has passed the first engines of the chain, in order.
Underway(x) ==
    /\ x.pc \in {"cache", "chain", "sent", "read"} => x.asked \in Asked
    /\ x.pc = "cache" => x.next = 1 /\ x.passed = {}
    /\ x.pc \in {"chain", "sent"} =>
          /\ x.passed = {Chain[i] : i \in 1..(x.next - 1)}
          /\ x.next <= Len(Chain) + 1
    /\ x.pc = "sent" => x.next \in DOMAIN Chain
    /\ x.pc = "read" => x.hits # {}

Own(x) ==
    x.pc = "done" /\ x.live # {} =>
        /\ x.asked.tenant = x.for.tenant
        /\ x.asked.text = x.for.text
        /\ x.asked.domain = x.for.domain
        /\ IF x.kept THEN x.age < TtlTime ELSE x.for = x.asked

FellBack(x) ==
    x.pc = "done" /\ _where(x.asked) # "corpus" /\ x.live = {} =>
        x.passed = Provider \/ x.hits # {} \/ x.kept

SoundSearch == {x \in Search : Underway(x) /\ Own(x) /\ FellBack(x)}

\* A closed breaker has counted the failures in a row; any other had as many as
\* open it.
Counted(b, n) ==
    IF b.state = "closed" THEN b.fails = n /\ n < failure_threshold
    ELSE n = failure_threshold

BreakerRow == [state : CircuitState, fails : Nat, opened : Nat]

BreakersSound ==
    /\ breaker \in [Provider -> BreakerRow]
    /\ streak \in [Provider -> Nat]
    /\ \A p \in Provider : breaker[p].opened <= clock /\ Counted(breaker[p], streak[p])

SearchesSound == search \in [Searchers -> SoundSearch]

ClockSound == clock \in 0..LastTick

SearchInv == ClockSound /\ BreakersSound /\ CacheSound /\ SearchesSound

LEMMA ChainFacts ==
    /\ Len(Chain) \in Nat /\ DOMAIN Chain = 1..Len(Chain)
    /\ \A i \in DOMAIN Chain : Chain[i] \in Provider
    /\ Provider = {Chain[i] : i \in 1..Len(Chain)}
  <1>1. Chain \in Seq({Chain[i] : i \in DOMAIN Chain})
    BY SearchAssumption
  <1>2. Len(Chain) \in Nat /\ DOMAIN Chain = 1..Len(Chain)
    BY <1>1, LenProperties
  <1> QED BY <1>2 DEF Provider

LEMMA SearchBounds ==
    /\ TtlTime \in Nat /\ MaxEntries \in Nat /\ LastTick \in Nat
    /\ failure_threshold \in Nat /\ failure_threshold > 0
  BY SearchAssumption, BreakerAssumption

LEMMA SearchStart == SearchInit => SearchInv
  <1> SUFFICES ASSUME SearchInit PROVE SearchInv
    OBVIOUS
  <1> USE DEF SearchInit
  <1>1. ClockSound
    BY SearchBounds DEF ClockSound
  <1>2. BreakersSound
    BY SearchBounds DEF BreakersSound, BreakerRow, Closed, Counted, CircuitState
  <1>3. CacheSound
    <2>1. entries \in Seq(SoundEntry) /\ Len(entries) = 0 /\ DOMAIN entries = {}
      OBVIOUS
    <2> QED BY <2>1, SearchBounds DEF CacheSound, OneKey
  <1>4. SearchesSound
    <2>1. NoSearch \in SoundSearch
      BY DEF NoSearch, SoundSearch, Search, Underway, Own, FellBack
    <2> QED BY <2>1 DEF SearchesSound
  <1> QED BY <1>1, <1>2, <1>3, <1>4 DEF SearchInv

\* One search moves on to a record that is sound.
LEMMA SearchUpdate ==
    ASSUME SearchesSound, NEW s \in Searchers, NEW r \in SoundSearch, Set(s, r)
    PROVE  SearchesSound'
  BY DEF SearchesSound, Set

LEMMA SearchRecord ==
    ASSUME SearchesSound, NEW s \in Searchers
    PROVE  /\ search[s] \in Search /\ Underway(search[s])
           /\ search[s] \in SoundSearch
  BY DEF SearchesSound, SoundSearch

LEMMA FirstOfSubset ==
    ASSUME NEW S, NEW n PROVE FirstOf(S, n) \subseteq S
  BY DEF FirstOf

LEMMA WithoutFacts ==
    ASSUME CacheSound, NEW k
    PROVE  /\ Without(k) \in Seq(SoundEntry) /\ OneKey(Without(k)) /\ NoKey(Without(k), k)
           /\ Len(Without(k)) \in Nat /\ Len(Without(k)) =< Len(entries)
           /\ Positions(k) # {} => Len(Without(k)) = Len(entries) - 1
  <1>0. entries \in Seq(SoundEntry) /\ OneKey(entries) /\ Len(entries) \in Nat
    BY LenProperties DEF CacheSound
  <1>1. CASE Positions(k) = {}
    <2>1. Without(k) = entries
      BY <1>1 DEF Without
    <2>2. NoKey(entries, k)
      BY <1>1 DEF NoKey, Positions
    <2> QED BY <1>0, <1>1, <2>1, <2>2
  <1>2. CASE Positions(k) # {}
    <2>1. PICK i : i = CHOOSE j \in Positions(k) : TRUE
      OBVIOUS
    <2>2. i \in DOMAIN entries /\ entries[i].key = k
      BY <1>2, <2>1, Zenon DEF Positions
    <2>3. Without(k) = SubSeq(entries, 1, i - 1) \o SubSeq(entries, i + 1, Len(entries))
      BY <1>2, <2>1, Zenon DEF Without
    <2>4. /\ Without(k) \in Seq(SoundEntry) /\ OneKey(Without(k))
          /\ NoKey(Without(k), entries[i].key) /\ Len(Without(k)) = Len(entries) - 1
      BY <1>0, <2>2, <2>3, CutOne, Zenon
    <2>5. Len(Without(k)) \in Nat
      BY <2>4, LenProperties, Zenon
    <2>6. NoKey(Without(k), k)
      BY <2>2, <2>4, Zenon
    <2>7. Len(entries) - 1 =< Len(entries)
      BY <1>0
    <2> QED BY <2>4, <2>5, <2>6, <2>7, Zenon
  <1> QED BY <1>1, <1>2

\* What is put into the cache is kept once, and the cache stays in its bound.
LEMMA PutFacts ==
    ASSUME CacheSound, NEW k, NEW e \in SoundEntry, e.key = k, entries' = put(k, e)
    PROVE  CacheSound'
  <1> DEFINE all == Append(Without(k), e)
  <1>1. /\ Without(k) \in Seq(SoundEntry) /\ OneKey(Without(k)) /\ NoKey(Without(k), e.key)
    BY WithoutFacts, Zenon
  <1>2. all \in Seq(SoundEntry) /\ OneKey(all)
    BY <1>1, AppendKey, Zenon
  <1>3. entries' = SubSeq(all, IF Len(all) > MaxEntries THEN Len(all) - MaxEntries + 1 ELSE 1,
                          Len(all))
    BY DEF put
  <1> HIDE DEF all
  <1>4. entries' \in Seq(SoundEntry) /\ OneKey(entries') /\ Len(entries') =< MaxEntries
    BY <1>2, <1>3, SearchBounds, LastKeys, Zenon
  <1> QED BY <1>4 DEF CacheSound, OneKey

-----------------------------------------------------------------------------
(* The steps of a search *)

LEMMA AskSound ==
    ASSUME SearchInv, NEW s \in Searchers, NEW q \in Asked, Ask(s, q) PROVE SearchInv'
  <1>0. PICK at : at = IF _where(q) = "corpus" THEN "done" ELSE "cache"
    OBVIOUS
  <1>b. PICK b \in BOOLEAN : b = (_where(q) # "web")
    OBVIOUS
  <1> DEFINE r == [NoSearch EXCEPT !.pc = at, !.asked = q, !.corpus = b]
  <1>1. r \in SoundSearch
    <2>0. at \in {"idle", "cache", "chain", "sent", "read", "done"}
      BY <1>0
    <2>1. r \in Search
      <3>1. NoSearch \in Search
        BY DEF NoSearch, Search
      <3> QED BY <2>0, <3>1 DEF Search
    <2>2. /\ r.pc \in {"done", "cache"}
          /\ r.pc = "done" => _where(q) = "corpus"
          /\ r.asked = q /\ r.next = 1 /\ r.passed = {} /\ r.live = {}
      BY <1>0 DEF NoSearch
    <2> HIDE DEF r
    <2> QED BY <2>1, <2>2 DEF SoundSearch, Underway, Own, FellBack
  <1>2. Set(s, r)
    BY <1>0, <1>b DEF Ask
  <1> HIDE DEF r
  <1>3. SearchesSound'
    BY <1>1, <1>2, SearchUpdate DEF SearchInv
  <1>4. UNCHANGED <<clock, breaker, until, entries, streak>>
    BY DEF Ask
  <1> QED BY <1>3, <1>4 DEF SearchInv, ClockSound, BreakersSound, CacheSound, OneKey

LEMMA AnswerSound ==
    ASSUME SearchesSound, NEW s \in Searchers, NEW live \in SUBSET AllowedHosts,
           NEW for \in Asked \union {NoQuestion}, NEW age \in Int, NEW kept \in BOOLEAN,
           Answer(s, live, for, age, kept),
           live # {} =>
             /\ search[s].asked.tenant = for.tenant
             /\ search[s].asked.text = for.text
             /\ search[s].asked.domain = for.domain
             /\ IF kept THEN age < TtlTime ELSE for = search[s].asked,
           live = {} => search[s].passed = Provider \/ search[s].hits # {} \/ kept
    PROVE  SearchesSound'
  <1> DEFINE r == [search[s] EXCEPT !.pc = "done", !.live = live, !.for = for, !.age = age,
                                    !.kept = kept, !.corpus = @ \/ live = {}]
  <1>1. search[s] \in Search
    BY SearchRecord
  <1>2. r \in Search
    BY <1>1 DEF Search
  <1>3. /\ r.pc = "done" /\ r.live = live /\ r.for = for /\ r.age = age /\ r.kept = kept
        /\ r.asked = search[s].asked /\ r.passed = search[s].passed
        /\ r.hits = search[s].hits
    BY <1>1 DEF Search
  <1>4. Set(s, r)
    BY DEF Answer
  <1> HIDE DEF r
  <1>5. Underway(r)
    BY <1>3 DEF Underway
  <1>6. Own(r)
    BY <1>3, Zenon DEF Own
  <1>7. FellBack(r)
    BY <1>3, Zenon DEF FellBack
  <1>8. r \in SoundSearch
    BY <1>2, <1>5, <1>6, <1>7 DEF SoundSearch
  <1> QED BY <1>4, <1>8, SearchUpdate

LEMMA GetHitSound ==
    ASSUME SearchInv, NEW s \in Searchers, search[s].pc = "cache",
           NEW k, k = _cache_key(search[s].asked), NEW i \in Positions(k),
           entries[i].expires > clock,
           entries' = Append(Without(k), entries[i]),
           Answer(s, FirstOf(entries[i].refs, search[s].asked.top_k), entries[i].for,
                  clock - (entries[i].expires - TtlTime), TRUE)
    PROVE  CacheSound' /\ SearchesSound'
  <1> DEFINE q == search[s].asked
  <1>1. CacheSound /\ SearchesSound /\ ClockSound
    BY DEF SearchInv
  <1>2. PICK e : e = entries[i]
    OBVIOUS
  <1>3. e \in SoundEntry /\ e.key = k
    <2>1. i \in DOMAIN entries /\ entries[i].key = k
      BY DEF Positions
    <2>2. entries \in Seq(SoundEntry)
      BY <1>1 DEF CacheSound
    <2>3. entries[i] \in SoundEntry
      BY <2>1, <2>2, ElementOfSeq, LenProperties
    <2> QED BY <1>2, <2>1, <2>3
  <1>4. CacheSound'
    <2>1. /\ Without(k) \in Seq(SoundEntry) /\ OneKey(Without(k)) /\ NoKey(Without(k), e.key)
          /\ Len(Without(k)) = Len(entries) - 1
      BY <1>1, <1>3, WithoutFacts
    <2>2. /\ entries' \in Seq(SoundEntry) /\ OneKey(entries')
          /\ Len(entries') = Len(Without(k)) + 1
      BY <1>2, <1>3, <2>1, AppendKey, Zenon
    <2>3. Len(entries) \in Nat
      BY <1>1, LenProperties DEF CacheSound
    <2>4. Len(entries') = Len(entries)
      BY <2>1, <2>2, <2>3
    <2> QED BY <1>1, <2>2, <2>4 DEF CacheSound, OneKey
  <1>5. q \in Asked
    BY <1>1, SearchRecord DEF Underway
  <1>6. e.refs \in SUBSET AllowedHosts /\ e.for \in Asked /\ e.expires \in Nat
        /\ e.key = _cache_key(e.for)
    BY <1>3 DEF SoundEntry, Entry
  <1>7. q.tenant = e.for.tenant /\ q.text = e.for.text /\ q.domain = e.for.domain
    <2>1. _cache_key(q) = _cache_key(e.for)
      BY <1>3, <1>6
    <2> QED BY <2>1 DEF _cache_key
  <1>8. /\ clock - (e.expires - TtlTime) \in Int
        /\ clock - (e.expires - TtlTime) < TtlTime
    BY <1>1, <1>2, <1>6, SearchBounds DEF ClockSound
  <1>9. FirstOf(e.refs, q.top_k) \in SUBSET AllowedHosts
    BY <1>6, FirstOfSubset
  <1>10. SearchesSound'
    <2>1. Answer(s, FirstOf(e.refs, q.top_k), e.for, clock - (e.expires - TtlTime), TRUE)
      BY <1>2
    <2>2. e.for \in Asked \union {NoQuestion} /\ TRUE \in BOOLEAN
      BY <1>6
    <2> HIDE DEF q
    <2> QED BY <1>1, <1>7, <1>8, <1>9, <2>1, <2>2, AnswerSound DEF q
  <1> QED BY <1>4, <1>10

LEMMA GetSound ==
    ASSUME SearchInv, NEW s \in Searchers, get(s) PROVE SearchInv'
  <1>1. PICK k : k = _cache_key(search[s].asked)
    OBVIOUS
  <1>2. /\ search[s].pc = "cache" /\ UNCHANGED <<clock, breaker, until, streak, searches>>
    BY DEF get
  <1>3. CacheSound /\ SearchesSound
    BY DEF SearchInv
  <1>4. ASSUME NEW i \in Positions(k),
               entries[i].expires > clock,
               entries' = Append(Without(k), entries[i]),
               Answer(s, FirstOf(entries[i].refs, search[s].asked.top_k), entries[i].for,
                      clock - (entries[i].expires - TtlTime), TRUE)
        PROVE  CacheSound' /\ SearchesSound'
    BY <1>1, <1>2, <1>4, GetHitSound
  <1>5. ASSUME entries' = Without(k), Set(s, [search[s] EXCEPT !.pc = "chain"])
        PROVE  CacheSound' /\ SearchesSound'
    <2>1. CacheSound'
      <3>1. /\ Without(k) \in Seq(SoundEntry) /\ OneKey(Without(k))
            /\ Len(Without(k)) \in Nat /\ Len(Without(k)) =< Len(entries)
        BY <1>3, WithoutFacts
      <3>2. Len(entries) \in Nat /\ Len(entries) <= MaxEntries
        BY <1>3, LenProperties DEF CacheSound
      <3> QED BY <1>5, <3>1, <3>2, SearchBounds DEF CacheSound, OneKey
    <2>2. SearchesSound'
      <3> DEFINE r == [search[s] EXCEPT !.pc = "chain"]
      <3>1. search[s] \in Search /\ Underway(search[s])
        BY <1>3, SearchRecord
      <3>2. r \in Search
        BY <3>1 DEF Search
      <3>3. /\ r.pc = "chain" /\ r.asked \in Asked /\ r.next = 1 /\ r.passed = {}
        BY <1>2, <3>1 DEF Underway, Search
      <3>4. Set(s, r)
        BY <1>5
      <3> HIDE DEF r
      <3>5. {Chain[i] : i \in 1..(1 - 1)} = {} /\ 1 <= Len(Chain) + 1
        BY ChainFacts
      <3>6. Underway(r)
        BY <3>3, <3>5 DEF Underway
      <3>7. r \in SoundSearch
        BY <3>2, <3>3, <3>6 DEF SoundSearch, Own, FellBack
      <3> QED BY <1>3, <3>4, <3>7, SearchUpdate
    <2> QED BY <2>1, <2>2
  <1>6. CacheSound' /\ SearchesSound'
    BY <1>1, <1>4, <1>5 DEF get
  <1> QED BY <1>2, <1>6 DEF SearchInv, ClockSound, BreakersSound

LEMMA ReadSound ==
    ASSUME SearchInv, NEW s \in Searchers, read_pages(s) PROVE SearchInv'
  <1>0. CacheSound /\ SearchesSound /\ ClockSound
    BY DEF SearchInv
  <1>1. PICK q : q = search[s].asked
    OBVIOUS
  <1>2. PICK found \in passages(search[s].hits) :
            /\ entries' = put(_cache_key(q), [key |-> _cache_key(q),
                                 refs |-> FirstOf(found, q.top_k), for |-> q,
                                 expires |-> clock + TtlTime])
            /\ Answer(s, FirstOf(found, q.top_k), q, 0, FALSE)
    BY <1>1 DEF read_pages
  <1>3. search[s].pc = "read" /\ UNCHANGED <<clock, breaker, until, streak, searches>>
    BY DEF read_pages
  <1>4. search[s] \in Search /\ q \in Asked /\ search[s].hits # {}
    BY <1>0, <1>1, <1>3, SearchRecord DEF Underway
  <1>5. PICK refs : refs = FirstOf(found, q.top_k)
    OBVIOUS
  <1>6. refs \in SUBSET AllowedHosts
    <2>1. search[s].hits \in SUBSET AllowedHosts
      BY <1>4 DEF Search
    <2>2. found \subseteq search[s].hits
      BY FirstOfSubset DEF passages
    <2> QED BY <1>5, <2>1, <2>2, FirstOfSubset
  <1>7. PICK e : e = [key |-> _cache_key(q), refs |-> refs, for |-> q,
                      expires |-> clock + TtlTime]
    OBVIOUS
  <1>8. e \in SoundEntry /\ e.key = _cache_key(q)
    <2>1. clock + TtlTime \in Nat
      BY <1>0, SearchBounds DEF ClockSound
    <2>2. PICK k : k = _cache_key(q)
      OBVIOUS
    <2>3. k \in {_cache_key(a) : a \in Asked}
      BY <1>4, <2>2
    <2> QED BY <1>4, <1>6, <1>7, <2>1, <2>2, <2>3 DEF SoundEntry, Entry
  <1>9. CacheSound'
    BY <1>0, <1>2, <1>5, <1>7, <1>8, PutFacts
  <1>10. SearchesSound'
    <2>1. q \in Asked \union {NoQuestion} /\ FALSE \in BOOLEAN /\ 0 \in Int
      BY <1>4
    <2>2. Answer(s, refs, q, 0, FALSE)
      BY <1>2, <1>5
    <2> QED BY <1>0, <1>1, <1>4, <1>6, <2>1, <2>2, AnswerSound
  <1> QED BY <1>3, <1>9, <1>10 DEF SearchInv, ClockSound, BreakersSound

LEMMA ExhaustedSound ==
    ASSUME SearchInv, NEW s \in Searchers, Exhausted(s) PROVE SearchInv'
  <1>0. SearchesSound
    BY DEF SearchInv
  <1>1. search[s] \in Search /\ Underway(search[s])
    BY <1>0, SearchRecord
  <1>2. search[s].pc = "chain" /\ search[s].next \notin DOMAIN Chain
        /\ Answer(s, {}, NoQuestion, 0, FALSE) /\ Here
    BY DEF Exhausted
  <1>3. search[s].passed = Provider
    <2>1. PICK n : n = search[s].next
      OBVIOUS
    <2>2. n \in Nat \ {0} /\ n <= Len(Chain) + 1 /\ n \notin 1..Len(Chain)
          /\ search[s].passed = {Chain[i] : i \in 1..(n - 1)}
      BY <1>1, <1>2, <2>1, ChainFacts DEF Search, Underway
    <2>3. n - 1 = Len(Chain)
      BY <2>2, ChainFacts
    <2> QED BY <2>2, <2>3, ChainFacts
  <1>4. SearchesSound'
    <2>1. {} \in SUBSET AllowedHosts /\ NoQuestion \in Asked \union {NoQuestion}
          /\ FALSE \in BOOLEAN /\ 0 \in Int
      OBVIOUS
    <2> QED BY <1>0, <1>2, <1>3, <2>1, AnswerSound
  <1> QED BY <1>2, <1>4 DEF SearchInv, Here, ClockSound, BreakersSound, CacheSound, OneKey

\* Going on to the next engine adds this one to the prefix that was passed.
LEMMA AdvanceSound ==
    ASSUME SearchesSound, NEW s \in Searchers, search[s].pc \in {"chain", "sent"},
           search[s].next \in DOMAIN Chain, Set(s, Advance(s))
    PROVE  SearchesSound'
  <1>1. search[s] \in Search /\ Underway(search[s])
    BY SearchRecord
  <1>2. PICK n : n = search[s].next
    OBVIOUS
  <1>3. /\ n \in 1..Len(Chain) /\ n <= Len(Chain) /\ n \in Nat \ {0}
        /\ search[s].passed = {Chain[i] : i \in 1..(n - 1)}
        /\ search[s].asked \in Asked
        /\ search[s].passed \in SUBSET Provider
        /\ Chain[n] \in Provider
    BY <1>1, <1>2, ChainFacts DEF Search, Underway
  <1>4. search[s].passed \union {Chain[n]} = {Chain[i] : i \in 1..(n + 1 - 1)}
    <2>1. 1..(n + 1 - 1) = 1..(n - 1) \union {n}
      BY <1>3
    <2> QED BY <1>3, <2>1, Zenon
  <1> DEFINE r == Advance(s)
  <1>5. r \in Search
    <2>1. n + 1 \in Nat \ {0} /\ search[s].passed \union {Chain[n]} \in SUBSET Provider
      BY <1>3
    <2> QED BY <1>1, <1>2, <2>1 DEF Search, Advance, At
  <1>6. /\ r.pc = "chain" /\ r.next = n + 1 /\ r.asked = search[s].asked
        /\ r.passed = search[s].passed \union {Chain[n]}
    BY <1>1, <1>2 DEF Search, Advance, At
  <1> HIDE DEF r
  <1>7. n + 1 <= Len(Chain) + 1
    BY <1>3, ChainFacts
  <1>8. Underway(r)
    <2>1. r.passed = {Chain[i] : i \in 1..(r.next - 1)}
      <3>1. 1..(r.next - 1) = 1..(n + 1 - 1)
        BY <1>3, <1>6
      <3>2. {Chain[i] : i \in 1..(r.next - 1)} = {Chain[i] : i \in 1..(n + 1 - 1)}
        BY <3>1
      <3> QED BY <1>4, <1>6, <3>2
    <2>2. r.next <= Len(Chain) + 1
      BY <1>6, <1>7
    <2>3. r.pc # "cache" /\ r.pc # "sent" /\ r.pc # "read"
      BY <1>6
    <2> QED BY <1>3, <1>6, <2>1, <2>2, <2>3, Zenon DEF Underway
  <1>9. r \in SoundSearch
    BY <1>5, <1>6, <1>8 DEF SoundSearch, Own, FellBack
  <1> QED BY <1>9, SearchUpdate DEF r

\* One provider's breaker and the count of its failures change together.
LEMMA BreakerUpdate ==
    ASSUME BreakersSound, clock \in Nat, NEW p \in Provider, NEW b \in BreakerRow, NEW n \in Nat,
           b.opened <= clock, Counted(b, n),
           breaker' = [breaker EXCEPT ![p] = b],
           streak' = [streak EXCEPT ![p] = n],
           clock' = clock
    PROVE  BreakersSound'
  <1> USE DEF BreakersSound
  <1>1. breaker' \in [Provider -> BreakerRow] /\ streak' \in [Provider -> Nat]
    OBVIOUS
  <1>2. ASSUME NEW o \in Provider
        PROVE  breaker'[o].opened <= clock' /\ Counted(breaker'[o], streak'[o])
    <2>1. CASE o = p
      BY <2>1
    <2>2. CASE o # p
      BY <2>2
    <2> QED BY <2>1, <2>2
  <1>3. \A o \in Provider : breaker[o]'.opened <= clock' /\ Counted(breaker[o], streak[o])'
    BY <1>2 DEF Counted
  <1> QED BY <1>1, <1>3

LEMMA BeforeCallSound ==
    ASSUME NEW b \in BreakerRow, NEW n \in Nat, Counted(b, n)
    PROVE  /\ before_call(b) \in BreakerRow /\ before_call(b).opened = b.opened
           /\ Counted(before_call(b), n)
  <1>1. CASE b.state = "open"
    <2> DEFINE c == before_call(b)
    <2>1. c = [b EXCEPT !.state = "half_open"]
      BY <1>1 DEF before_call
    <2>2. "half_open" \in CircuitState
      BY DEF CircuitState
    <2>3. c \in BreakerRow /\ c.opened = b.opened /\ c.state = "half_open"
      BY <2>1, <2>2 DEF BreakerRow
    <2> HIDE DEF c
    <2>4. Counted(c, n)
      BY <1>1, <2>3 DEF Counted
    <2> QED BY <2>3, <2>4 DEF c
  <1>2. CASE b.state # "open"
    BY <1>2 DEF before_call
  <1> QED BY <1>1, <1>2

\* A failure is counted, or reaches the threshold, or finds the breaker not closed.
LEMMA FailureSound ==
    ASSUME NEW b \in BreakerRow, NEW n \in Nat, NEW t \in Nat, Counted(b, n), b.opened <= t,
           NEW m, m = IF n < failure_threshold THEN n + 1 ELSE n
    PROVE  /\ record_failure(b, t) \in BreakerRow /\ record_failure(b, t).opened <= t
           /\ m \in Nat /\ Counted(record_failure(b, t), m)
  <1> DEFINE c == record_failure(b, t)
  <1>0. failure_threshold \in Nat /\ m \in Nat /\ b.fails \in Nat /\ b.state \in CircuitState
        /\ b.opened \in Nat
    BY SearchBounds DEF BreakerRow
  <1>1. CASE b.state = "half_open" \/ b.fails + 1 >= failure_threshold
    <2>1. c = [state |-> "open", fails |-> 0, opened |-> t]
      BY <1>1 DEF record_failure, _trip
    <2>2. c \in BreakerRow /\ c.opened = t /\ c.state = "open"
      BY <2>1 DEF BreakerRow, CircuitState
    <2> HIDE DEF c
    <2>3. m = failure_threshold
      BY <1>0, <1>1 DEF Counted
    <2>4. Counted(c, m)
      BY <2>2, <2>3 DEF Counted
    <2> QED BY <1>0, <2>2, <2>4 DEF c
  <1>2. CASE ~(b.state = "half_open" \/ b.fails + 1 >= failure_threshold)
    <2>1. c = [b EXCEPT !.fails = b.fails + 1]
      BY <1>2 DEF record_failure
    <2>2. b.fails + 1 \in Nat
      BY <1>0
    <2>3. c \in BreakerRow /\ c.opened = b.opened /\ c.state = b.state
          /\ c.fails = b.fails + 1
      BY <2>1, <2>2 DEF BreakerRow
    <2> HIDE DEF c
    <2>4. Counted(c, m)
      BY <1>0, <1>2, <2>3 DEF Counted
    <2> QED BY <1>0, <2>3, <2>4 DEF c
  <1> QED BY <1>1, <1>2

LEMMA ClosedSound ==
    /\ Closed \in BreakerRow /\ Closed.opened = 0 /\ Counted(Closed, 0) /\ 0 < failure_threshold
  BY SearchBounds DEF Closed, BreakerRow, CircuitState, Counted

LEMMA TrySound ==
    ASSUME SearchInv, NEW s \in Searchers, Try(s) PROVE SearchInv'
  <1>0. SearchesSound /\ BreakersSound /\ clock \in Nat
    BY SearchBounds DEF SearchInv, ClockSound
  <1>1. /\ search[s].pc = "chain" /\ search[s].next \in DOMAIN Chain
        /\ UNCHANGED <<clock, until, entries, streak, searches>>
    BY DEF Try
  <1>2. PICK p : p = At(s)
    OBVIOUS
  <1>3. p \in Provider
    BY <1>1, <1>2, ChainFacts DEF At
  <1>4. ASSUME Set(s, Advance(s)), UNCHANGED breaker
        PROVE  SearchesSound' /\ BreakersSound'
    <2>1. SearchesSound'
      BY <1>0, <1>1, <1>4, AdvanceSound
    <2> QED BY <1>0, <1>1, <1>4, <2>1 DEF BreakersSound
  <1>5. ASSUME breaker' = [breaker EXCEPT ![p] = before_call(@)],
               Set(s, [search[s] EXCEPT !.pc = "sent"])
        PROVE  SearchesSound' /\ BreakersSound'
    <2>1. BreakersSound'
      <3>1. PICK b, n : b = breaker[p] /\ n = streak[p]
        OBVIOUS
      <3>2. b \in BreakerRow /\ n \in Nat /\ b.opened <= clock /\ Counted(b, n)
        BY <1>0, <1>3, <3>1 DEF BreakersSound
      <3>3. /\ before_call(b) \in BreakerRow /\ before_call(b).opened = b.opened
            /\ Counted(before_call(b), n)
        BY <3>2, BeforeCallSound
      <3>4. breaker' = [breaker EXCEPT ![p] = before_call(b)]
        BY <1>5, <3>1
      <3>5. streak' = [streak EXCEPT ![p] = n]
        BY <1>0, <1>1, <1>3, <3>1 DEF BreakersSound
      <3>6. clock' = clock
        BY <1>1
      <3> QED BY <1>0, <1>3, <3>2, <3>3, <3>4, <3>5, <3>6, BreakerUpdate
    <2>2. SearchesSound'
      <3> DEFINE r == [search[s] EXCEPT !.pc = "sent"]
      <3>1. search[s] \in Search /\ Underway(search[s])
        BY <1>0, SearchRecord
      <3>2. r \in Search
        BY <3>1 DEF Search
      <3>3. /\ r.pc = "sent" /\ r.asked = search[s].asked /\ r.next = search[s].next
            /\ r.passed = search[s].passed
        BY <3>1 DEF Search
      <3>4. Set(s, r)
        BY <1>5
      <3> HIDE DEF r
      <3>5. Underway(r)
        BY <1>1, <3>1, <3>3 DEF Underway
      <3>6. r \in SoundSearch
        BY <3>2, <3>3, <3>5 DEF SoundSearch, Own, FellBack
      <3> QED BY <1>0, <3>4, <3>6, SearchUpdate
    <2> QED BY <2>1, <2>2
  <1>6. SearchesSound' /\ BreakersSound'
    BY <1>2, <1>4, <1>5 DEF Try
  <1> QED BY <1>1, <1>6 DEF SearchInv, ClockSound, CacheSound, OneKey

LEMMA UsableSound ==
    ASSUME SearchesSound, NEW s \in Searchers, search[s].pc = "sent",
           search[s].next \in DOMAIN Chain, NEW hits, usable(s, hits)
    PROVE  SearchesSound'
  <1>1. CASE Set(s, Advance(s))
    BY <1>1, AdvanceSound
  <1>2. CASE /\ allowed_hits(hits) # {}
             /\ Set(s, [search[s] EXCEPT !.pc = "read", !.hits = allowed_hits(hits)])
    <2> DEFINE r == [search[s] EXCEPT !.pc = "read", !.hits = allowed_hits(hits)]
    <2>1. search[s] \in Search /\ Underway(search[s])
      BY SearchRecord
    <2>2. allowed_hits(hits) \in SUBSET AllowedHosts
      BY DEF allowed_hits
    <2>3. r \in Search
      BY <2>1, <2>2 DEF Search
    <2>4. r.pc = "read" /\ r.asked = search[s].asked /\ r.hits = allowed_hits(hits)
      BY <2>1 DEF Search
    <2>5. Set(s, r)
      BY <1>2
    <2> HIDE DEF r
    <2>6. Underway(r)
      BY <1>2, <2>1, <2>4 DEF Underway
    <2>7. r \in SoundSearch
      BY <2>3, <2>4, <2>6 DEF SoundSearch, Own, FellBack
    <2> QED BY <2>5, <2>7, SearchUpdate
  <1> QED BY <1>1, <1>2 DEF usable

LEMMA RequestSound ==
    ASSUME SearchInv, NEW s \in Searchers, request(s) PROVE SearchInv'
  <1>0. SearchesSound /\ BreakersSound /\ clock \in Nat
    BY SearchBounds DEF SearchInv, ClockSound
  <1>1. search[s].pc = "sent" /\ UNCHANGED <<clock, entries, searches>> /\ clock' = clock
    BY DEF request
  <1>2. search[s].next \in DOMAIN Chain
    BY <1>0, <1>1, SearchRecord DEF Underway
  <1>3. PICK p : p = At(s)
    OBVIOUS
  <1>4. p \in Provider
    BY <1>2, <1>3, ChainFacts DEF At
  <1>5. PICK b, n : b = breaker[p] /\ n = streak[p]
    OBVIOUS
  <1>6. b \in BreakerRow /\ n \in Nat /\ b.opened <= clock /\ Counted(b, n)
    BY <1>0, <1>4, <1>5 DEF BreakersSound
  <1>7. ASSUME NEW hits, Succeeded(p), usable(s, hits)
        PROVE  SearchesSound' /\ BreakersSound'
    <2>1. SearchesSound'
      BY <1>0, <1>1, <1>2, <1>7, UsableSound
    <2>2. Closed.opened <= clock
      BY <1>0, ClosedSound
    <2>3. BreakersSound'
      <3>1. /\ breaker' = [breaker EXCEPT ![p] = Closed] /\ streak' = [streak EXCEPT ![p] = 0]
            /\ clock' = clock /\ 0 \in Nat
        BY <1>1, <1>7 DEF Succeeded
      <3> QED BY <1>0, <1>4, <2>2, <3>1, ClosedSound, BreakerUpdate, Zenon
    <2> QED BY <2>1, <2>3
  <1>8. ASSUME Set(s, Advance(s)), UNCHANGED <<breaker, streak>>
        PROVE  SearchesSound' /\ BreakersSound'
    <2>1. SearchesSound'
      BY <1>0, <1>1, <1>2, <1>8, AdvanceSound
    <2> QED BY <1>0, <1>1, <1>8, <2>1 DEF BreakersSound
  <1>9. ASSUME Set(s, Advance(s)),
               \/ /\ breaker' = [breaker EXCEPT ![p] = record_failure(@, clock)]
                  /\ streak' = [streak EXCEPT ![p] = IF @ < failure_threshold THEN @ + 1 ELSE @]
               \/ /\ breaker' = [breaker EXCEPT ![p] = record_failure(Closed, clock)]
                  /\ streak' = [streak EXCEPT ![p] = 1]
        PROVE  SearchesSound' /\ BreakersSound'
    <2>1. SearchesSound'
      BY <1>0, <1>1, <1>2, <1>9, AdvanceSound
    <2>2. ASSUME breaker' = [breaker EXCEPT ![p] = record_failure(@, clock)],
                 streak' = [streak EXCEPT ![p] = IF @ < failure_threshold THEN @ + 1 ELSE @]
          PROVE  BreakersSound'
      <3>1. PICK m : m = IF n < failure_threshold THEN n + 1 ELSE n
        OBVIOUS
      <3>2. /\ record_failure(b, clock) \in BreakerRow /\ record_failure(b, clock).opened <= clock
            /\ m \in Nat /\ Counted(record_failure(b, clock), m)
        BY <1>0, <1>6, <3>1, FailureSound
      <3>3. breaker' = [breaker EXCEPT ![p] = record_failure(b, clock)]
            /\ streak' = [streak EXCEPT ![p] = m]
        BY <1>5, <2>2, <3>1
      <3> QED BY <1>0, <1>1, <1>4, <3>2, <3>3, BreakerUpdate
    <2>3. ASSUME breaker' = [breaker EXCEPT ![p] = record_failure(Closed, clock)],
                 streak' = [streak EXCEPT ![p] = 1]
          PROVE  BreakersSound'
      <3>1. 1 = IF 0 < failure_threshold THEN 0 + 1 ELSE 0
        BY SearchBounds
      <3>2. 0 \in Nat /\ Closed.opened <= clock /\ Closed \in BreakerRow /\ Counted(Closed, 0)
        BY <1>0, ClosedSound
      <3>3. /\ record_failure(Closed, clock) \in BreakerRow
            /\ record_failure(Closed, clock).opened <= clock
            /\ 1 \in Nat /\ Counted(record_failure(Closed, clock), 1)
        BY <1>0, <3>1, <3>2, FailureSound
      <3> QED BY <1>0, <1>1, <1>4, <2>3, <3>3, BreakerUpdate
    <2> QED BY <1>9, <2>1, <2>2, <2>3
  <1>10. SearchesSound' /\ BreakersSound'
    BY <1>3, <1>7, <1>8, <1>9 DEF request
  <1> QED BY <1>1, <1>10 DEF SearchInv, ClockSound, CacheSound, OneKey

LEMMA TimePassesSound == SearchInv /\ TimePasses => SearchInv'
  <1> SUFFICES ASSUME SearchInv, TimePasses PROVE SearchInv'
    OBVIOUS
  <1>1. ClockSound' /\ clock \in Int /\ clock' = clock + 1
    BY SearchBounds DEF SearchInv, ClockSound, TimePasses
  <1>2. BreakersSound'
    <2>1. BreakersSound /\ breaker' = breaker /\ streak' = streak
      BY DEF SearchInv, TimePasses
    <2>2. ASSUME NEW p \in Provider PROVE breaker[p].opened <= clock + 1
      BY <1>1, <2>1 DEF BreakersSound, BreakerRow
    <2> QED BY <1>1, <2>1, <2>2 DEF BreakersSound, Counted
  <1> QED BY <1>1, <1>2 DEF SearchInv, TimePasses, CacheSound, OneKey, SearchesSound

LEMMA SearchStep == SearchInv /\ [SearchNext]_searchVars => SearchInv'
  <1> SUFFICES ASSUME SearchInv, [SearchNext]_searchVars PROVE SearchInv'
    OBVIOUS
  <1>1. CASE UNCHANGED searchVars
    BY <1>1 DEF searchVars, SearchInv, ClockSound, BreakersSound, CacheSound, OneKey,
       SearchesSound, Counted
  <1>2. CASE TimePasses
    BY <1>2, TimePassesSound
  <1>3. ASSUME NEW s \in Searchers,
               \/ get(s) \/ Try(s) \/ request(s) \/ read_pages(s) \/ Exhausted(s)
               \/ \E q \in Asked : Ask(s, q)
        PROVE  SearchInv'
    BY <1>3, GetSound, TrySound, RequestSound, ReadSound, ExhaustedSound, AskSound
  <1> QED BY <1>1, <1>2, <1>3 DEF SearchNext

\* The inductive invariant of the searches: what a breaker counts, under which
\* question a cache entry is kept, and which engines a search has passed.
THEOREM SearchInvariant == SearchSpec => []SearchInv
  BY SearchStart, SearchStep, PTL DEF SearchSpec

\* However late concurrent calls report to CircuitBreaker.record_success and
\* record_failure, a provider's breaker is closed exactly while its failures in a
\* row are below the threshold.
THEOREM BreakersTrustworthy == SearchSpec => []OpenIffFailing
  <1>1. SearchInv => OpenIffFailing
    <2> SUFFICES ASSUME SearchInv, NEW p \in Provider
                 PROVE  (breaker[p].state # "closed") = (streak[p] >= failure_threshold)
      BY DEF OpenIffFailing
    <2>1. streak[p] \in Nat /\ Counted(breaker[p], streak[p])
      BY DEF SearchInv, BreakersSound
    <2> QED BY <2>1, SearchBounds DEF Counted
  <1> QED BY <1>1, SearchInvariant, PTL

\* Whatever searches share WebLawGateway's cache and FailoverSearchClient's chain,
\* each returns passages found for its own tenant and question and not expired,
\* and falls back on the corpus only when every engine had its turn or a named
\* source held nothing.
THEOREM SearchesAnswer == SearchSpec => []SearchIsSound
  <1>1. SearchInv => SearchTypeOK
    <2> SUFFICES ASSUME SearchInv PROVE SearchTypeOK
      OBVIOUS
    <2>1. \A p \in Provider : breaker[p].state \in CircuitState /\ breaker[p].opened <= clock
      BY DEF SearchInv, BreakersSound, BreakerRow
    <2>2. \A s \in Searchers : search[s].live \subseteq AllowedHosts
      BY DEF SearchInv, SearchesSound, SoundSearch, Search
    <2> QED BY <2>1, <2>2 DEF SearchInv, SearchTypeOK, ClockSound, CacheSound, OneKey
  <1>2. SearchInv => AnswersOwnQuestion
    <2> SUFFICES ASSUME SearchInv, NEW s \in Searchers PROVE Own(search[s])
      BY DEF AnswersOwnQuestion, Own
    <2> QED BY DEF SearchInv, SearchesSound, SoundSearch
  <1>3. SearchInv => EveryEngineHadItsTurn
    <2> SUFFICES ASSUME SearchInv, NEW s \in Searchers PROVE FellBack(search[s])
      BY DEF EveryEngineHadItsTurn, FellBack
    <2> QED BY DEF SearchInv, SearchesSound, SoundSearch
  <1>4. SearchInv => SearchIsSound
    BY <1>1, <1>2, <1>3 DEF SearchIsSound
  <1> QED BY <1>4, SearchInvariant, PTL

=============================================================================
