-------------------------- MODULE KnowledgeIngest ---------------------------
(***************************************************************************)
(* Uploads of knowledge documents: the queue ingest_jobs, the worker's     *)
(* ingest consumer, and KnowledgeGateway, which keeps one logical document *)
(* (one doc_key) in two stores.  PostgreSQL holds its versions, of which   *)
(* the current one is active; Qdrant holds the points that search returns. *)
(* A version is written to PostgreSQL in one READ COMMITTED transaction    *)
(* and to Qdrant by the calls that follow it, with nothing that undoes the *)
(* one when the other fails.                                               *)
(***************************************************************************)
EXTENDS Integers, Sequences, FiniteSets

CONSTANTS Workers,      \* ingest consumers
          Users,        \* API requests that soft-delete a version
          Jobs,         \* uploads
          Versions,     \* document ids of one doc_key
          VersionOf,    \* the version an upload is for
          MaxDeletes,   \* bound: soft deletes
          MaxFaults,    \* bound: steps of a job or a delete that raise
          MaxCrashes,   \* bound: consumers stopped in the middle of a job
          None

ASSUME IngestAssumption ==
    /\ VersionOf \in [Jobs -> Versions]
    /\ MaxDeletes \in Nat
    /\ MaxFaults \in Nat
    /\ MaxCrashes \in Nat
    /\ None \notin Jobs
    /\ None \notin Versions

VARIABLES
    queue,      \* queued jobs, oldest created_at first
    status,     \* ingest_jobs.status
    attempts,   \* ingest_jobs.attempts
    worker,     \* where each consumer is: step, job, versions it supersedes
    user,       \* the version whose soft delete still has to reach Qdrant
    docs,       \* documents.status of each version ("active" is is_current)
    content,    \* the upload whose chunks PostgreSQL holds
    points,     \* the version's points: none, live, or tombstoned
    indexed,    \* the upload whose chunks the points come from
    mixed,      \* history: versions left behind by overlapping or failed writes
    deletes, faults, crashes

jobVars == <<queue, status, attempts>>
pg == <<docs, content>>
qdrant == <<points, indexed>>
bounds == <<deletes, faults, crashes>>
vars == <<jobVars, worker, user, pg, qdrant, mixed, bounds>>

Idle == [step |-> "idle", job |-> None, old |-> {}]
Steps == {"idle", "claimed", "update", "txn", "tombstone", "embed", "indexed", "failing"}

Version(w) == VersionOf[worker[w].job]

\* Rows that the supersede statement of an open transaction has locked.
Locked(w) == IF worker[w].step = "txn" THEN worker[w].old ELSE {}
LockedByOthers(w) == UNION {Locked(x) : x \in Workers \ {w}}

\* Versions that a consumer, or a delete, has committed to PostgreSQL and not
\* finished writing to Qdrant.
WriteSet(w) ==
    IF worker[w].step \in {"tombstone", "embed"}
    THEN worker[w].old \union {Version(w)}
    ELSE {}
InFlight ==
    (UNION {WriteSet(w) : w \in Workers}) \union ({user[u] : u \in Users} \ {None})

\* A commit that writes the versions vs overlaps with those still in flight.
Overlap(vs) == mixed' = (mixed \ vs) \union (vs \intersect InFlight)

Init ==
    /\ queue = <<>>
    /\ status = [j \in Jobs |-> "absent"]
    /\ attempts = [j \in Jobs |-> 0]
    /\ worker = [w \in Workers |-> Idle]
    /\ user = [u \in Users |-> None]
    /\ docs = [v \in Versions |-> "absent"]
    /\ content = [v \in Versions |-> None]
    /\ points = [v \in Versions |-> "none"]
    /\ indexed = [v \in Versions |-> None]
    /\ mixed = {}
    /\ deletes = 0 /\ faults = 0 /\ crashes = 0

-----------------------------------------------------------------------------
(* The queue                                                               *)

\* POST /knowledge/documents: stage the bytes, enqueue, answer 202.
upload_document(j) ==
    /\ status[j] = "absent"
    /\ status' = [status EXCEPT ![j] = "queued"]
    /\ queue' = Append(queue, j)
    /\ UNCHANGED <<attempts, worker, user, pg, qdrant, mixed, bounds>>

claim_next(w) ==
    /\ worker[w].step = "idle"
    /\ queue # <<>>
    /\ LET j == Head(queue)
       IN /\ status' = [status EXCEPT ![j] = "processing"]
          /\ attempts' = [attempts EXCEPT ![j] = @ + 1]
          /\ worker' = [worker EXCEPT ![w] = [Idle EXCEPT !.step = "claimed", !.job = j]]
    /\ queue' = Tail(queue)
    /\ UNCHANGED <<user, pg, qdrant, mixed, bounds>>

Mark(w, to) ==
    /\ status' = [status EXCEPT ![worker[w].job] = to]
    /\ worker' = [worker EXCEPT ![w] = Idle]
    /\ UNCHANGED <<queue, attempts, user, pg, qdrant, mixed, bounds>>

mark_done(w) == worker[w].step = "indexed" /\ Mark(w, "done")
mark_failed(w) == worker[w].step = "failing" /\ Mark(w, "failed")

-----------------------------------------------------------------------------
(* ingest_document: the PostgreSQL transaction                             *)

\* The UPDATE that supersedes the current versions starts: under READ
\* COMMITTED it considers the rows that are committed now.
ReadCurrent(w) ==
    /\ worker[w].step = "claimed"
    /\ worker' = [worker EXCEPT
                    ![w].step = "update",
                    ![w].old = {v \in Versions \ {Version(w)} : docs[v] = "active"}]
    /\ UNCHANGED <<jobVars, user, pg, qdrant, mixed, bounds>>

\* ... and ends: it has waited for the rows another transaction had locked,
\* and keeps those that are still current.
LockCurrent(w) ==
    /\ worker[w].step = "update"
    /\ worker[w].old \intersect LockedByOthers(w) = {}
    /\ worker' = [worker EXCEPT
                    ![w].step = "txn",
                    ![w].old = {v \in @ : docs[v] = "active"}]
    /\ UNCHANGED <<jobVars, user, pg, qdrant, mixed, bounds>>

\* A variant of Commit that leaves the superseded versions' points alone.
CommitKeepsPoints(w) ==
    LET v == Version(w)
    IN /\ worker[w].step = "txn"
       /\ v \notin LockedByOthers(w)
       /\ docs' = [u \in Versions |-> IF u = v THEN "active"
                                      ELSE IF u \in worker[w].old THEN "superseded"
                                      ELSE docs[u]]
       /\ content' = [content EXCEPT ![v] = worker[w].job]
       /\ worker' = [worker EXCEPT ![w].step = "tombstone", ![w].old = {}]
       /\ Overlap(worker[w].old \union {v})
       /\ UNCHANGED <<jobVars, user, qdrant, bounds>>

\* The version is inserted, or reactivated, with its chunks replaced.
Commit(w) ==
    LET v == Version(w)
    IN /\ worker[w].step = "txn"
       /\ v \notin LockedByOthers(w)
       /\ docs' = [u \in Versions |-> IF u = v THEN "active"
                                      ELSE IF u \in worker[w].old THEN "superseded"
                                      ELSE docs[u]]
       /\ content' = [content EXCEPT ![v] = worker[w].job]
       /\ worker' = [worker EXCEPT ![w].step = "tombstone"]
       /\ Overlap(worker[w].old \union {v})
       /\ UNCHANGED <<jobVars, user, qdrant, bounds>>

\* Two transactions wait for each other's rows: PostgreSQL aborts one.
DeadlockVictim(w) ==
    /\ worker[w].step = "txn"
    /\ \E x \in Workers \ {w} : Version(w) \in Locked(x) /\ Version(x) \in Locked(w)
    /\ worker' = [worker EXCEPT ![w].step = "failing"]
    /\ UNCHANGED <<jobVars, user, pg, qdrant, mixed, bounds>>

-----------------------------------------------------------------------------
(* ingest_document: the Qdrant calls after the transaction                 *)

Tombstone(v) == points' = [points EXCEPT ![v] = IF @ = "live" THEN "tombstoned" ELSE @]

tombstone_document(w) ==
    /\ worker[w].step = "tombstone"
    /\ \E v \in worker[w].old :
        /\ Tombstone(v)
        /\ worker' = [worker EXCEPT ![w].old = @ \ {v}]
    /\ UNCHANGED <<jobVars, user, pg, indexed, mixed, bounds>>

delete_document(w) ==
    /\ worker[w].step = "tombstone"
    /\ worker[w].old = {}
    /\ points' = [points EXCEPT ![Version(w)] = "none"]
    /\ indexed' = [indexed EXCEPT ![Version(w)] = None]
    /\ worker' = [worker EXCEPT ![w].step = "embed"]
    /\ UNCHANGED <<jobVars, user, pg, mixed, bounds>>

upsert(w) ==
    /\ worker[w].step = "embed"
    /\ points' = [points EXCEPT ![Version(w)] = "live"]
    /\ indexed' = [indexed EXCEPT ![Version(w)] = worker[w].job]
    /\ worker' = [worker EXCEPT ![w].step = "indexed"]
    /\ UNCHANGED <<jobVars, user, pg, mixed, bounds>>

\* What the steps of an interrupted job have left half written.
LeaveBehind(w) == mixed' = mixed \union WriteSet(w)

\* A variant of Fail in which the exception escapes the consumer.
FailUnrecorded(w) ==
    /\ worker[w].step \notin {"idle", "failing"}
    /\ faults < MaxFaults
    /\ faults' = faults + 1
    /\ LeaveBehind(w)
    /\ worker' = [worker EXCEPT ![w] = Idle]
    /\ UNCHANGED <<jobVars, user, pg, qdrant, deletes, crashes>>

\* Any step raises: storage, parser, transaction (which rolls back), embedding,
\* Qdrant, or mark_done.  The consumer catches it and marks the job failed.
Fail(w) ==
    /\ worker[w].step \notin {"idle", "failing"}
    /\ faults < MaxFaults
    /\ faults' = faults + 1
    /\ LeaveBehind(w)
    /\ worker' = [worker EXCEPT ![w].step = "failing"]
    /\ UNCHANGED <<jobVars, user, pg, qdrant, deletes, crashes>>

\* The process dies, shutdown cancels the task, or mark_failed raises: the
\* row stays "processing".
Crash(w) ==
    /\ worker[w].step # "idle"
    /\ crashes < MaxCrashes
    /\ crashes' = crashes + 1
    /\ LeaveBehind(w)
    /\ worker' = [worker EXCEPT ![w] = Idle]
    /\ UNCHANGED <<jobVars, user, pg, qdrant, deletes, faults>>

-----------------------------------------------------------------------------
(* DELETE /knowledge/documents/{id}: the transaction, then the tombstone.   *)

soft_delete_document(u, v) ==
    /\ user[u] = None
    /\ deletes < MaxDeletes
    /\ docs[v] # "absent"
    /\ \A w \in Workers : v \notin Locked(w)
    /\ deletes' = deletes + 1
    /\ docs' = [docs EXCEPT ![v] = "deleted"]
    /\ user' = [user EXCEPT ![u] = v]
    /\ Overlap({v})
    /\ UNCHANGED <<jobVars, worker, content, qdrant, faults, crashes>>

TombstoneDeleted(u) ==
    /\ user[u] # None
    /\ Tombstone(user[u])
    /\ user' = [user EXCEPT ![u] = None]
    /\ UNCHANGED <<jobVars, worker, pg, indexed, mixed, bounds>>

\* The call to Qdrant raises: the request ends with an error, the row deleted.
DeleteFails(u) ==
    /\ user[u] # None
    /\ faults < MaxFaults
    /\ faults' = faults + 1
    /\ mixed' = mixed \union {user[u]}
    /\ user' = [user EXCEPT ![u] = None]
    /\ UNCHANGED <<jobVars, worker, pg, qdrant, deletes, crashes>>

-----------------------------------------------------------------------------
Ingest(w) ==
    \/ ReadCurrent(w) \/ LockCurrent(w) \/ Commit(w) \/ DeadlockVictim(w)
    \/ tombstone_document(w) \/ delete_document(w) \/ upsert(w)
    \/ mark_done(w) \/ mark_failed(w)

Next ==
    \/ \E j \in Jobs : upload_document(j)
    \/ \E w \in Workers : claim_next(w) \/ Ingest(w) \/ Fail(w) \/ Crash(w)
    \/ \E u \in Users : \/ \E v \in Versions : soft_delete_document(u, v)
                        \/ TombstoneDeleted(u) \/ DeleteFails(u)

Spec == Init /\ [][Next]_vars

-----------------------------------------------------------------------------
(* Properties                                                              *)

\* The queue, the two stores and the bookkeeping keep their types.
TypeOK ==
    /\ queue \in Seq(Jobs)
    /\ status \in [Jobs -> {"absent", "queued", "processing", "done", "failed"}]
    /\ attempts \in [Jobs -> Nat]
    /\ worker \in [Workers -> [step : Steps, job : Jobs \union {None},
                               old : SUBSET Versions]]
    /\ user \in [Users -> Versions \union {None}]
    /\ docs \in [Versions -> {"absent", "active", "superseded", "deleted"}]
    /\ content \in [Versions -> Jobs \union {None}]
    /\ points \in [Versions -> {"none", "live", "tombstoned"}]
    /\ indexed \in [Versions -> Jobs \union {None}]
    /\ mixed \subseteq Versions
    /\ deletes \in Nat /\ faults \in Nat /\ crashes \in Nat

\* The claim hands a job to one consumer, once: no upload is ingested twice,
\* and a job somebody works on is neither queued nor closed.
JobRunsOnce ==
    \A j \in Jobs :
        /\ attempts[j] =< 1
        /\ \A w, x \in Workers : worker[w].job = j /\ worker[x].job = j => w = x
        /\ \A w \in Workers : worker[w].job = j => status[j] = "processing"

\* Outside the writes in flight the stores agree: search returns a version
\* exactly when PostgreSQL has it active, with the chunks of the same upload.
\* Only a version whose writes overlapped, or failed between the stores, may
\* differ, and only until its next undisturbed write, which repairs it.
StoresAgree ==
    \A v \in Versions \ (mixed \union InFlight) :
        /\ points[v] = "live" <=> docs[v] = "active"
        /\ points[v] = "live" => indexed[v] = content[v]

\* The API answers 202 and the job is durable: as long as its consumer lives,
\* some branch of it marks the job, whichever step raised.  Nobody claims a
\* job left in "processing", so a crash strands the one it was working on.
StrandedByCrashOnly ==
    Cardinality({j \in Jobs : /\ status[j] = "processing"
                              /\ \A w \in Workers : worker[w].job # j}) =< crashes

\* An accepted upload is ingested at most once and left behind by a crash only.
UploadsRunOnce == TypeOK /\ JobRunsOnce /\ StrandedByCrashOnly
=============================================================================
