------------------------- MODULE NotificationQueue -------------------------
(***************************************************************************)
(* The durable queue of Slack cards of a preparation case and the worker's *)
(* SlackApprovalConsumer.  A card is a row of approval_notification_jobs,  *)
(* keyed by its idempotency key; a consumer claims a due row with FOR      *)
(* UPDATE SKIP LOCKED, reads the case state in the same transaction, posts *)
(* the card and then marks the row in a transaction of its own.  A row     *)
(* left in "processing" for longer than the lease is claimed again,        *)
(* whether its consumer died or is only slow.                              *)
(*                                                                         *)
(* Time is kept relative: wait[j] is what is left until due_at, age[j] how *)
(* long ago the row was claimed, saturating just past the lease.           *)
(***************************************************************************)
EXTENDS Integers, FiniteSetsExt

CONSTANTS Workers,      \* consumers (one loop per worker process)
          Jobs,         \* idempotency keys of the cards
          CaseStates,   \* the states of the case that the cards tell apart
          Expected,     \* the case state a card is for, or AnyState
          AnyState,     \* a card attached to a person: no case state cancels it
          Unmapped,     \* cards whose recipient has no Slack member id
          DueIn,        \* delay of a card at enqueue (the escalation reminder)
          MaxAttempts,  \* max_attempts of a job
          MaxDelay,     \* cap of the retry backoff
          StaleAfter,   \* stale_after_seconds: the lease of a claim
          MaxAbandons,  \* bound: claims left behind by a crash or a lost mark
          None

ASSUME QueueAssumption ==
    /\ Expected \in [Jobs -> CaseStates \union {AnyState}]
    /\ DueIn \in [Jobs -> Nat]
    /\ Unmapped \subseteq Jobs
    /\ MaxAttempts \in Nat \ {0}
    /\ MaxDelay \in Nat \ {0}
    /\ StaleAfter \in Nat
    /\ MaxAbandons \in Nat
    /\ None \notin Jobs
    /\ None \notin CaseStates
    /\ AnyState \notin CaseStates

VARIABLES
    status,     \* the row's status; "absent" before it is enqueued
    wait,       \* time left until due_at
    age,        \* time since claimed_at
    attempts,   \* the row's attempts
    caseState,  \* preparation_cases.state
    consumer,   \* what each consumer holds: step, claimed job and its snapshot
    posted,     \* cards that Slack has accepted
    overrun,    \* history: jobs reclaimed while their consumer was still at work
    abandons    \* claims left behind so far

rows == <<status, wait, age, attempts>>
vars == <<rows, caseState, consumer, posted, overrun, abandons>>

Terminal == {"sent", "failed", "cancelled"}
Status == Terminal \union {"absent", "queued", "processing"}

\* The lease has run out: claimed_at < now - stale_after_seconds.
Expired == StaleAfter + 1

Outcomes == {"ok", "permanent", "transient"}
Idle == [step |-> "idle", job |-> None, attempts |-> 0, seen |-> None, outcome |-> "ok"]
Held(j, a) == [step |-> "claimed", job |-> j, attempts |-> a, seen |-> caseState,
               outcome |-> "ok"]

Holds(w, j) == consumer[w].job = j

\* A card for a case state is still wanted only while the case is in it.
Wanted(j, state) == Expected[j] \in {AnyState, state}

\* Doubling with every attempt, up to the cap.
Backoff(a) == Min({d \in 1..MaxDelay : d = 2 ^ (a - 1) \/ d = MaxDelay})

Init ==
    /\ status = [j \in Jobs |-> "absent"]
    /\ wait = [j \in Jobs |-> 0]
    /\ age = [j \in Jobs |-> 0]
    /\ attempts = [j \in Jobs |-> 0]
    /\ caseState \in CaseStates
    /\ consumer = [w \in Workers |-> Idle]
    /\ posted = {}
    /\ overrun = {}
    /\ abandons = 0

-----------------------------------------------------------------------------
(* The case and the clock                                                  *)

\* INSERT ... ON CONFLICT (idempotency_key) DO NOTHING: a second emission of
\* the same card changes nothing, so only the first one is a step.
Enqueue(j) ==
    /\ status[j] = "absent"
    /\ status' = [status EXCEPT ![j] = "queued"]
    /\ wait' = [wait EXCEPT ![j] = DueIn[j]]
    /\ UNCHANGED <<age, attempts, caseState, consumer, posted, overrun, abandons>>

\* Another request moves the case on, or back to a state it was in before.
CaseMoves ==
    /\ \E s \in CaseStates \ {caseState} : caseState' = s
    /\ UNCHANGED <<rows, consumer, posted, overrun, abandons>>

Tick ==
    /\ wait' = [j \in Jobs |-> IF wait[j] > 0 THEN wait[j] - 1 ELSE 0]
    /\ age' = [j \in Jobs |->
                 IF status[j] = "processing" /\ age[j] < Expired THEN age[j] + 1 ELSE age[j]]
    /\ <<wait, age>>' # <<wait, age>>
    /\ UNCHANGED <<status, attempts, caseState, consumer, posted, overrun, abandons>>

-----------------------------------------------------------------------------
(* The consumer                                                            *)

\* Variants of Claimable: without the lease, and without the reclaim.
ClaimableEarly(j) == wait[j] = 0 /\ status[j] \in {"queued", "processing"}
ClaimableOnce(j) == wait[j] = 0 /\ status[j] = "queued"

Claimable(j) ==
    /\ wait[j] = 0
    /\ \/ status[j] = "queued"
       \/ status[j] = "processing" /\ age[j] = Expired

claim_next(w, j) ==
    /\ consumer[w].step = "idle"
    /\ Claimable(j)
    /\ status' = [status EXCEPT ![j] = "processing"]
    /\ age' = [age EXCEPT ![j] = 0]
    /\ attempts' = [attempts EXCEPT ![j] = @ + 1]
    /\ consumer' = [consumer EXCEPT ![w] = Held(j, attempts[j] + 1)]
    /\ overrun' = overrun \union
                    {k \in {j} : status[k] = "processing" /\ age[k] = Expired /\ \E v \in Workers : Holds(v, k)}
    /\ UNCHANGED <<wait, caseState, posted, abandons>>

\* A variant of _update without the status test.
_updateAny(w, to, delay) ==
    LET j == consumer[w].job
    IN /\ status' = [status EXCEPT ![j] = to]
       /\ wait' = [wait EXCEPT ![j] = delay]
       /\ consumer' = [consumer EXCEPT ![w] = Idle]
       /\ UNCHANGED <<age, attempts, caseState, posted, overrun, abandons>>

\* _update: the row is written only while it is still "processing", whoever
\* claimed it last; the consumer is done either way.
_update(w, to, delay) ==
    LET j == consumer[w].job
        hit == status[j] = "processing"
    IN /\ status' = [status EXCEPT ![j] = IF hit THEN to ELSE @]
       /\ wait' = [wait EXCEPT ![j] = IF hit THEN delay ELSE @]
       /\ consumer' = [consumer EXCEPT ![w] = Idle]
       /\ UNCHANGED <<age, attempts, caseState, posted, overrun, abandons>>

\* The case has left the state the card is for, by the claim's snapshot.
CancelStale(w) ==
    /\ consumer[w].step = "claimed"
    /\ ~Wanted(consumer[w].job, consumer[w].seen)
    /\ _update(w, "cancelled", 0)

FailUnmapped(w) ==
    /\ consumer[w].step = "claimed"
    /\ Wanted(consumer[w].job, consumer[w].seen)
    /\ consumer[w].job \in Unmapped
    /\ _update(w, "failed", 0)

\* notifier.send: Slack accepts the card or rejects it for good, or the call
\* fails, possibly after Slack accepted the card.
send(w) ==
    LET j == consumer[w].job
    IN /\ consumer[w].step = "claimed"
       /\ Wanted(j, consumer[w].seen)
       /\ j \notin Unmapped
       /\ \E o \in Outcomes, accepted \in BOOLEAN :
            /\ o = "ok" => accepted
            /\ o = "permanent" => ~accepted
            /\ consumer' = [consumer EXCEPT ![w].step = "answered", ![w].outcome = o]
            /\ posted' = IF accepted THEN posted \union {j} ELSE posted
       /\ UNCHANGED <<rows, caseState, overrun, abandons>>

\* A variant of MarkSent that does not look at the answer.
MarkSentAnyway(w) == consumer[w].step = "answered" /\ _update(w, "sent", 0)

MarkSent(w) ==
    /\ consumer[w].step = "answered"
    /\ consumer[w].outcome = "ok"
    /\ _update(w, "sent", 0)

MarkFailed(w) ==
    /\ consumer[w].step = "answered"
    /\ \/ consumer[w].outcome = "permanent"
       \/ consumer[w].outcome = "transient" /\ consumer[w].attempts >= MaxAttempts
    /\ _update(w, "failed", 0)

\* A variant of mark_retry that never gives up.
mark_retryForever(w) ==
    /\ consumer[w].step = "answered"
    /\ consumer[w].outcome = "transient"
    /\ _update(w, "queued", Backoff(consumer[w].attempts))

mark_retry(w) ==
    /\ consumer[w].step = "answered"
    /\ consumer[w].outcome = "transient"
    /\ consumer[w].attempts < MaxAttempts
    /\ _update(w, "queued", Backoff(consumer[w].attempts))

\* The process dies or is cancelled at shutdown, or the marking transaction
\* fails: the consumer starts over and the row stays "processing".
Abandon(w) ==
    /\ consumer[w].step # "idle"
    /\ abandons < MaxAbandons
    /\ abandons' = abandons + 1
    /\ consumer' = [consumer EXCEPT ![w] = Idle]
    /\ UNCHANGED <<rows, caseState, posted, overrun>>

Consume(w) ==
    \/ CancelStale(w) \/ FailUnmapped(w) \/ send(w)
    \/ MarkSent(w) \/ MarkFailed(w) \/ mark_retry(w)

Next ==
    \/ \E j \in Jobs : Enqueue(j)
    \/ CaseMoves
    \/ Tick
    \/ \E w \in Workers, j \in Jobs : claim_next(w, j)
    \/ \E w \in Workers : Consume(w) \/ Abandon(w)

Spec == Init /\ [][Next]_vars

\* The poll loop of every worker goes on, the clock runs, and the claim takes
\* the oldest due row first, so no due row is passed over for ever.
Fairness ==
    /\ WF_vars(Tick)
    /\ \A w \in Workers : WF_vars(Consume(w))
    /\ \A j \in Jobs : SF_vars(\E w \in Workers : claim_next(w, j))

FairSpec == Spec /\ Fairness

-----------------------------------------------------------------------------
(* Properties                                                              *)

\* The rows, the snapshots and the bookkeeping keep their types.
TypeOK ==
    /\ status \in [Jobs -> Status]
    /\ wait \in [Jobs -> Nat]
    /\ age \in [Jobs -> 0..Expired]
    /\ attempts \in [Jobs -> Nat]
    /\ caseState \in CaseStates
    /\ consumer \in [Workers -> [step : {"idle", "claimed", "answered"},
                                 job : Jobs \union {None}, attempts : Nat,
                                 seen : CaseStates \union {None}, outcome : Outcomes]]
    /\ posted \subseteq Jobs
    /\ overrun \subseteq Jobs
    /\ abandons \in Nat

\* A row that is sent, failed or cancelled keeps that status, although a slow
\* consumer may mark it long after another one has closed it: the WHERE
\* status = 'processing' of _update is all that protects it.
TerminalIsFinal ==
    [][\A j \in Jobs : status[j] \in Terminal => status'[j] = status[j]]_status

\* Unless a consumer outlives its lease, a job is in the hands of at most one
\* consumer, and a row waiting in the queue is in the hands of none.
Exclusive ==
    \A j \in Jobs \ overrun :
        /\ \A v, w \in Workers : Holds(v, j) /\ Holds(w, j) => v = w
        /\ status[j] # "processing" => \A w \in Workers : ~Holds(w, j)

\* What the log shows is what happened: a row says "sent" only if Slack has
\* the card, whichever of its consumers wrote the status.
SentIsPosted == \A j \in Jobs : status[j] = "sent" => j \in posted

\* max_attempts holds as long as no consumer outlives its lease, but for the
\* claims that were left behind: claim_next itself never looks at it.
AttemptsBounded ==
    \A j \in Jobs \ overrun : attempts[j] =< MaxAttempts + abandons

\* Every card that is queued ends sent, failed or cancelled, whatever the
\* crashes, the timeouts and the overlapping claims.
EveryCardEnds == \A j \in Jobs : status[j] = "queued" ~> status[j] \in Terminal
=============================================================================
