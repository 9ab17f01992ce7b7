---------------------- MODULE NotificationQueueProofs ----------------------
(***************************************************************************)
(* What the card queue keeps for any number of consumers and of cards, any *)
(* lease, backoff and max_attempts.  The inductive invariant ties a        *)
(* consumer's snapshot to its row (ConsumerSound), and the attempts of a   *)
(* row that no consumer has outlived to the claims left behind (RowSound). *)
(***************************************************************************)
EXTENDS NotificationQueue, TLAPS

Consumers == [step : {"idle", "claimed", "answered"},
              job : Jobs \union {None}, attempts : Nat,
              seen : CaseStates \union {None}, outcome : Outcomes]

\* An idle consumer holds nothing, a busy one holds a job, and an "ok" answer
\* was given for a card that Slack has.
ConsumerSound(w) ==
    /\ consumer[w].step = "idle" <=> consumer[w].job = None
    /\ consumer[w].step = "answered" /\ consumer[w].outcome = "ok"
         => consumer[w].job \in posted

\* The row of a job that nobody has outlived: its one consumer knows its
\* attempts, and while it waits to be claimed another attempt is in bounds.
RowSound(j) ==
    /\ \A v, w \in Workers : Holds(v, j) /\ Holds(w, j) => v = w
    /\ \A w \in Workers : Holds(w, j) => /\ status[j] = "processing"
                                         /\ consumer[w].attempts = attempts[j]
    /\ attempts[j] =< MaxAttempts + abandons
    /\ status[j] = "absent" => attempts[j] = 0
    /\ status[j] \in {"queued", "processing"} /\ (\A w \in Workers : ~Holds(w, j))
         => attempts[j] < MaxAttempts + abandons

IInv ==
    /\ TypeOK
    /\ SentIsPosted
    /\ \A w \in Workers : ConsumerSound(w)
    /\ \A j \in Jobs \ overrun : RowSound(j)

-----------------------------------------------------------------------------
(* Types                                                                   *)

LEMMA BackoffType == ASSUME NEW a \in Nat PROVE Backoff(a) \in Nat
<1> DEFINE e == 2 ^ (a - 1)
           S == {d \in 1..MaxDelay : d = e \/ d = MaxDelay}
<1>1. MaxDelay \in S /\ S \subseteq Nat
  BY QueueAssumption
<1>2. \E d \in S : \A x \in S : d =< x
  <2>1. CASE e \in 1..MaxDelay
    BY <2>1, QueueAssumption
  <2>2. CASE e \notin 1..MaxDelay
    BY <2>2, QueueAssumption
  <2>3. QED
    BY <2>1, <2>2
<1>3. Min(S) \in S
  BY <1>2 DEF Min
<1>4. QED
  BY <1>1, <1>3 DEF Backoff

LEMMA IdleType == Idle \in Consumers /\ Idle.step = "idle" /\ Idle.job = None
BY DEF Idle, Consumers, Outcomes

LEMMA HeldType ==
    ASSUME TypeOK, NEW j \in Jobs, NEW a \in Nat
    PROVE /\ Held(j, a) \in Consumers /\ Held(j, a).job = j
          /\ Held(j, a).attempts = a /\ Held(j, a).step = "claimed"
BY DEF Held, Consumers, Outcomes, TypeOK

LEMMA ConsumerType == TypeOK <=> TypeOK /\ consumer \in [Workers -> Consumers]
BY DEF TypeOK, Consumers

\* What a busy consumer's _update does, whichever mark it is for.
LEMMA UpdateTypes ==
    ASSUME TypeOK, NEW w \in Workers, consumer[w].job \in Jobs,
           NEW to \in Status, NEW delay \in Nat, _update(w, to, delay)
    PROVE TypeOK'
<1> USE DEF _update
<1>1. status' \in [Jobs -> Status] /\ wait' \in [Jobs -> Nat]
  BY DEF TypeOK
<1>2. consumer' \in [Workers -> Consumers]
  <2> HIDE DEF Idle
  <2>1. QED
    BY IdleType, ConsumerType
<1>3. UNCHANGED <<age, attempts, caseState, posted, overrun, abandons>>
  OBVIOUS
<1> HIDE DEF _update
<1>4. QED
  BY <1>1, <1>2, <1>3 DEF TypeOK, Consumers

-----------------------------------------------------------------------------
(* Every action keeps the invariant                                        *)

LEMMA InitInv == ASSUME Init PROVE IInv
<1>1. consumer \in [Workers -> Consumers] /\ \A w \in Workers : consumer[w] = Idle
  BY IdleType DEF Init
<1>2. TypeOK
  BY <1>1, QueueAssumption DEF Init, TypeOK, Status, Consumers, Expired
<1>3. \A w \in Workers : ConsumerSound(w) /\ \A j \in Jobs : ~Holds(w, j)
  BY <1>1, IdleType, QueueAssumption DEF ConsumerSound, Holds
<1>4. \A j \in Jobs : status[j] = "absent" /\ attempts[j] = 0
  BY DEF Init
<1>5. \A j \in Jobs : RowSound(j)
  BY <1>3, <1>4, QueueAssumption DEF RowSound, Init
<1>6. QED
  BY <1>2, <1>3, <1>4, <1>5 DEF IInv, SentIsPosted

\* A mark, by the consumer w, of the row it holds or has lost.
LEMMA UpdateInv ==
    ASSUME IInv, NEW w \in Workers, consumer[w].job \in Jobs,
           NEW to \in Terminal \union {"queued"}, NEW delay \in Nat, _update(w, to, delay),
           to = "queued" => consumer[w].attempts < MaxAttempts,
           to = "sent" => consumer[w].job \in posted
    PROVE IInv'
<1> DEFINE j == consumer[w].job
<1>1. TypeOK /\ SentIsPosted /\ \A v \in Workers : ConsumerSound(v)
  BY DEF IInv
<1>2. TypeOK'
  BY <1>1, UpdateTypes DEF Status
<1>3. \A v \in Workers : consumer'[v] = IF v = w THEN Idle ELSE consumer[v]
  BY <1>1, ConsumerType DEF _update
<1>4. /\ \A k \in Jobs : k # j => status'[k] = status[k]
      /\ status[j] = "processing" => status'[j] = to
      /\ status[j] # "processing" => status'[j] = status[j]
  BY <1>1 DEF _update, TypeOK
<1>5. UNCHANGED <<attempts, posted, overrun, abandons>>
  BY DEF _update
<1>6. SentIsPosted'
  BY <1>1, <1>4, <1>5 DEF SentIsPosted
<1>7. ASSUME NEW v \in Workers PROVE ConsumerSound(v)'
  BY <1>1, <1>3, <1>5, IdleType DEF ConsumerSound
<1>8. ASSUME NEW v \in Workers, NEW k \in Jobs PROVE Holds(v, k)' <=> v # w /\ Holds(v, k)
  BY <1>3, IdleType, QueueAssumption DEF Holds
<1>9. ASSUME NEW k \in Jobs \ overrun' PROVE RowSound(k)'
  <2>1. RowSound(k) /\ attempts[k] \in Nat /\ abandons \in Nat
    BY <1>1, <1>5 DEF IInv, TypeOK
  <2>2. CASE k = j
    <3>1. Holds(w, k)
      BY <2>2 DEF Holds
    <3>2. status[k] = "processing" /\ consumer[w].attempts = attempts[k]
      BY <2>1, <3>1 DEF RowSound
    <3>3. \A v \in Workers : ~Holds(v, k)'
      BY <1>8, <2>1, <3>1 DEF RowSound
    <3>4. status'[k] = to /\ (to = "queued" => attempts[k] < MaxAttempts)
      BY <1>4, <2>2, <3>2
    <3>5. QED
      BY <1>5, <2>1, <3>3, <3>4, QueueAssumption DEF RowSound, Terminal
  <2>3. CASE k # j
    <3>1. \A v \in Workers : Holds(v, k)' <=> Holds(v, k)
      BY <1>8, <2>3 DEF Holds
    <3>2. \A v \in Workers : Holds(v, k) => consumer'[v] = consumer[v]
      BY <1>3, <2>3 DEF Holds
    <3>3. status'[k] = status[k]
      BY <1>4, <2>3
    <3>4. QED
      BY <1>5, <2>1, <3>1, <3>2, <3>3 DEF RowSound
  <2>4. QED
    BY <2>2, <2>3
<1>10. QED
  BY <1>2, <1>6, <1>7, <1>9 DEF IInv

\* The four marks of a consumer and the cancellation are such updates.
LEMMA MarkInv ==
    ASSUME IInv, NEW w \in Workers,
           \/ CancelStale(w) \/ FailUnmapped(w) \/ MarkSent(w) \/ MarkFailed(w) \/ mark_retry(w)
    PROVE IInv'
<1>1. TypeOK /\ ConsumerSound(w) /\ consumer[w] \in Consumers
  BY ConsumerType DEF IInv
<1>2. consumer[w].job \in Jobs /\ consumer[w].attempts \in Nat
  BY <1>1 DEF ConsumerSound, Consumers, CancelStale, FailUnmapped, MarkSent, MarkFailed, mark_retry
<1>3. CASE CancelStale(w)
  BY <1>2, <1>3, UpdateInv DEF CancelStale, Terminal
<1>4. CASE FailUnmapped(w) \/ MarkFailed(w)
  BY <1>2, <1>4, UpdateInv DEF FailUnmapped, MarkFailed, Terminal
<1>5. CASE MarkSent(w)
  BY <1>1, <1>2, <1>5, UpdateInv DEF MarkSent, Terminal, ConsumerSound
<1>6. CASE mark_retry(w)
  <2>1. Backoff(consumer[w].attempts) \in Nat
    BY <1>2, BackoffType
  <2>2. QED
    BY <1>2, <1>6, <2>1, UpdateInv DEF mark_retry
<1>7. QED
  BY <1>3, <1>4, <1>5, <1>6

\* A claim: either nobody holds the job, or its holder has outlived the lease
\* and the job joins overrun.
LEMMA ClaimInv ==
    ASSUME IInv, NEW w \in Workers, NEW j \in Jobs, claim_next(w, j)
    PROVE IInv'
<1>1. TypeOK /\ SentIsPosted /\ \A v \in Workers : ConsumerSound(v)
  BY DEF IInv
<1> DEFINE held == Held(j, attempts[j] + 1)
<1>2. /\ held \in Consumers /\ held.job = j /\ held.step = "claimed"
      /\ held.attempts = attempts[j] + 1 /\ attempts[j] \in Nat
  BY <1>1, HeldType DEF TypeOK
<1> HIDE DEF held
<1>3. \A v \in Workers : consumer'[v] = IF v = w THEN held ELSE consumer[v]
  BY <1>1, ConsumerType DEF claim_next, held
<1>4. \A k \in Jobs : status'[k] = IF k = j THEN "processing" ELSE status[k]
  BY <1>1 DEF claim_next, TypeOK
<1>5. \A k \in Jobs : attempts'[k] = IF k = j THEN attempts[j] + 1 ELSE attempts[k]
  BY <1>1 DEF claim_next, TypeOK
<1>6. UNCHANGED <<wait, caseState, posted, abandons>>
  BY DEF claim_next
<1>7. TypeOK'
  <2>1. consumer' \in [Workers -> Consumers]
    BY <1>1, <1>2, ConsumerType DEF claim_next, held
  <2>2. status' \in [Jobs -> Status] /\ attempts' \in [Jobs -> Nat]
    BY <1>1 DEF claim_next, TypeOK, Status
  <2>3. age' \in [Jobs -> 0..Expired]
    BY <1>1, QueueAssumption DEF claim_next, TypeOK, Expired
  <2>4. overrun' \subseteq Jobs
    BY <1>1 DEF claim_next, TypeOK
  <2>5. QED
    BY <1>1, <1>6, <2>1, <2>2, <2>3, <2>4 DEF TypeOK, Consumers
<1>8. SentIsPosted'
  BY <1>1, <1>4, <1>6 DEF SentIsPosted
<1>9. ASSUME NEW v \in Workers PROVE ConsumerSound(v)'
  BY <1>1, <1>2, <1>3, <1>6, QueueAssumption DEF ConsumerSound
<1>10. consumer[w].job = None
  BY <1>1 DEF claim_next, ConsumerSound
<1>11. ASSUME NEW v \in Workers, NEW k \in Jobs
       PROVE Holds(v, k)' <=> IF v = w THEN k = j ELSE Holds(v, k)
  BY <1>2, <1>3 DEF Holds
<1>12. ASSUME NEW k \in Jobs \ overrun' PROVE RowSound(k)'
  <2>1. k \notin overrun /\ RowSound(k) /\ attempts[k] \in Nat /\ abandons \in Nat
    BY <1>1 DEF IInv, TypeOK, claim_next
  <2>2. CASE k = j
    <3>1. \A v \in Workers : ~Holds(v, j)
      <4>1. CASE status[j] = "queued"
        BY <2>1, <2>2, <4>1 DEF RowSound
      <4>2. CASE status[j] = "processing" /\ age[j] = Expired
        BY <2>2, <4>2 DEF claim_next
      <4>3. QED
        BY <4>1, <4>2 DEF claim_next, Claimable
    <3>2. status[j] \in {"queued", "processing"}
      BY DEF claim_next, Claimable
    <3>3. attempts[j] < MaxAttempts + abandons
      BY <2>1, <2>2, <3>1, <3>2 DEF RowSound
    <3>4. \A v \in Workers : Holds(v, k)' <=> v = w
      BY <1>11, <2>2, <3>1
    <3>5. status'[k] = "processing" /\ attempts'[k] = attempts[j] + 1
          /\ consumer'[w].attempts = attempts[j] + 1
      BY <1>2, <1>3, <1>4, <1>5, <2>2
    <3>6. attempts'[k] =< MaxAttempts + abandons'
      BY <1>2, <1>6, <2>1, <3>3, <3>5, QueueAssumption
    <3>7. QED
      BY <3>4, <3>5, <3>6 DEF RowSound
  <2>3. CASE k # j
    <3>1. \A v \in Workers : Holds(v, k)' <=> Holds(v, k)
      BY <1>10, <1>11, <2>3, QueueAssumption DEF Holds
    <3>2. \A v \in Workers : Holds(v, k) => consumer'[v] = consumer[v]
      BY <1>3, <1>10, QueueAssumption DEF Holds
    <3>3. status'[k] = status[k] /\ attempts'[k] = attempts[k]
      BY <1>4, <1>5, <2>3
    <3>4. QED
      BY <1>6, <2>1, <3>1, <3>2, <3>3 DEF RowSound
  <2>4. QED
    BY <2>2, <2>3
<1>13. QED
  BY <1>7, <1>8, <1>9, <1>12 DEF IInv

\* The call to Slack: only the consumer's step and posted change.
LEMMA SendInv == ASSUME IInv, NEW w \in Workers, send(w) PROVE IInv'
<1>1. TypeOK /\ SentIsPosted /\ \A v \in Workers : ConsumerSound(v)
  BY DEF IInv
<1>2. PICK o \in Outcomes, accepted \in BOOLEAN :
        /\ o = "ok" => accepted
        /\ consumer' = [consumer EXCEPT ![w].step = "answered", ![w].outcome = o]
        /\ posted' = IF accepted THEN posted \union {consumer[w].job} ELSE posted
  BY DEF send
<1>3. consumer \in [Workers -> Consumers] /\ consumer[w].step = "claimed"
  BY <1>1, ConsumerType DEF send
<1>4. consumer[w].job \in Jobs
  BY <1>1, <1>3 DEF ConsumerSound, Consumers
<1>5. UNCHANGED <<rows, caseState, overrun, abandons>>
  BY DEF send
<1>6. /\ consumer' \in [Workers -> Consumers]
      /\ \A v \in Workers : /\ consumer'[v].job = consumer[v].job
                            /\ consumer'[v].attempts = consumer[v].attempts
                            /\ v # w => consumer'[v] = consumer[v]
      /\ consumer'[w].step = "answered" /\ consumer'[w].outcome = o
  BY <1>2, <1>3 DEF Consumers
<1>7. TypeOK'
  BY <1>1, <1>2, <1>4, <1>5, <1>6 DEF TypeOK, Consumers, rows
<1>8. SentIsPosted'
  BY <1>1, <1>2, <1>5 DEF SentIsPosted, rows
<1>9. ASSUME NEW v \in Workers PROVE ConsumerSound(v)'
  <2>1. CASE v = w
    BY <1>2, <1>4, <1>6, <2>1, QueueAssumption DEF ConsumerSound
  <2>2. CASE v # w
    BY <1>1, <1>2, <1>6, <2>2 DEF ConsumerSound
  <2>3. QED
    BY <2>1, <2>2
<1>10. ASSUME NEW k \in Jobs \ overrun' PROVE RowSound(k)'
  <2>1. RowSound(k)
    BY <1>5 DEF IInv
  <2>2. \A v \in Workers : Holds(v, k)' <=> Holds(v, k)
    BY <1>6 DEF Holds
  <2>3. QED
    BY <1>5, <1>6, <2>1, <2>2 DEF RowSound, rows
<1>11. QED
  BY <1>7, <1>8, <1>9, <1>10 DEF IInv

\* A claim left behind: one more attempt is granted to every row.
LEMMA AbandonInv == ASSUME IInv, NEW w \in Workers, Abandon(w) PROVE IInv'
<1>1. TypeOK /\ SentIsPosted /\ \A v \in Workers : ConsumerSound(v)
  BY DEF IInv
<1>2. UNCHANGED <<rows, caseState, posted, overrun>> /\ abandons' = abandons + 1
  BY DEF Abandon
<1>3. /\ consumer' \in [Workers -> Consumers]
      /\ \A v \in Workers : consumer'[v] = IF v = w THEN Idle ELSE consumer[v]
  BY <1>1, IdleType, ConsumerType DEF Abandon
<1>4. TypeOK'
  BY <1>1, <1>2, <1>3 DEF TypeOK, Consumers, rows
<1>5. SentIsPosted'
  BY <1>1, <1>2 DEF SentIsPosted, rows
<1>6. ASSUME NEW v \in Workers PROVE ConsumerSound(v)'
  BY <1>1, <1>2, <1>3, IdleType DEF ConsumerSound
<1>7. ASSUME NEW k \in Jobs \ overrun' PROVE RowSound(k)'
  <2>1. RowSound(k) /\ attempts[k] \in Nat /\ abandons \in Nat
    BY <1>1, <1>2 DEF IInv, TypeOK
  <2>2. \A v \in Workers : Holds(v, k)' <=> v # w /\ Holds(v, k)
    BY <1>3, IdleType, QueueAssumption DEF Holds
  <2>3. \A v \in Workers : Holds(v, k)' => consumer'[v] = consumer[v]
    BY <1>3, <2>2
  <2>4. status'[k] = status[k] /\ attempts'[k] = attempts[k]
    BY <1>2 DEF rows
  <2>5. attempts'[k] < MaxAttempts + abandons'
    BY <1>2, <2>1, <2>4, QueueAssumption DEF RowSound
  <2>6. QED
    BY <1>4, <2>1, <2>2, <2>3, <2>4, <2>5, QueueAssumption DEF RowSound, TypeOK
<1>8. QED
  BY <1>4, <1>5, <1>6, <1>7 DEF IInv

\* The steps that no consumer takes.
LEMMA OutsideInv ==
    ASSUME IInv, (\E j \in Jobs : Enqueue(j)) \/ CaseMoves \/ Tick PROVE IInv'
<1>1. TypeOK /\ SentIsPosted /\ \A v \in Workers : ConsumerSound(v)
  BY DEF IInv
<1>2. UNCHANGED <<attempts, consumer, posted, overrun, abandons>>
  BY DEF Enqueue, CaseMoves, Tick, rows
<1>3. \A k \in Jobs : status'[k] = status[k] \/ (status[k] = "absent" /\ status'[k] = "queued")
  <2>1. ASSUME NEW j \in Jobs, Enqueue(j), NEW k \in Jobs
        PROVE status'[k] = status[k] \/ (status[k] = "absent" /\ status'[k] = "queued")
    BY <1>1, <2>1 DEF Enqueue, TypeOK
  <2>2. CASE CaseMoves \/ Tick
    BY <2>2 DEF CaseMoves, Tick, rows
  <2>3. QED
    BY <2>1, <2>2
<1>4. TypeOK'
  <2>1. ASSUME NEW j \in Jobs, Enqueue(j) PROVE TypeOK'
    <3>1. status' \in [Jobs -> Status] /\ wait' \in [Jobs -> Nat]
      BY <1>1, <2>1, QueueAssumption DEF Enqueue, TypeOK, Status
    <3>2. QED
      BY <1>1, <2>1, <3>1 DEF Enqueue, TypeOK
  <2>2. CASE CaseMoves
    BY <1>1, <2>2 DEF CaseMoves, TypeOK, rows
  <2>3. CASE Tick
    <3>1. wait' \in [Jobs -> Nat] /\ age' \in [Jobs -> 0..Expired]
      BY <1>1, <2>3, QueueAssumption DEF Tick, TypeOK, Expired
    <3>2. QED
      BY <1>1, <2>3, <3>1 DEF Tick, TypeOK
  <2>4. QED
    BY <2>1, <2>2, <2>3
<1>5. SentIsPosted'
  BY <1>1, <1>2, <1>3 DEF SentIsPosted
<1>6. ASSUME NEW v \in Workers PROVE ConsumerSound(v)'
  BY <1>1, <1>2 DEF ConsumerSound
<1>7. ASSUME NEW k \in Jobs \ overrun' PROVE RowSound(k)'
  <2>1. RowSound(k) /\ attempts[k] \in Nat /\ abandons \in Nat
    BY <1>1, <1>2 DEF IInv, TypeOK
  <2>2. \A v \in Workers : Holds(v, k)' <=> Holds(v, k)
    BY <1>2 DEF Holds
  <2>3. QED
    BY <1>2, <1>3, <2>1, <2>2, QueueAssumption DEF RowSound
<1>8. QED
  BY <1>4, <1>5, <1>6, <1>7 DEF IInv

-----------------------------------------------------------------------------
(* Theorems                                                                *)

\* The inductive invariant of the queue holds in every reachable state, for
\* any number of consumers, cards, abandoned claims and leases.
THEOREM Invariance == Spec => []IInv
<1>1. Init => IInv
  BY InitInv
<1>2. IInv /\ [Next]_vars => IInv'
  <2>1. ASSUME IInv, Next PROVE IInv'
    <3>1. CASE (\E j \in Jobs : Enqueue(j)) \/ CaseMoves \/ Tick
      BY <2>1, <3>1, OutsideInv
    <3>2. CASE \E w \in Workers, j \in Jobs : claim_next(w, j)
      BY <2>1, <3>2, ClaimInv
    <3>3. ASSUME NEW w \in Workers, Consume(w) PROVE IInv'
      BY <2>1, <3>3, MarkInv, SendInv DEF Consume
    <3>4. ASSUME NEW w \in Workers, Abandon(w) PROVE IInv'
      BY <2>1, <3>4, AbandonInv
    <3>5. QED
      BY <2>1, <3>1, <3>2, <3>3, <3>4 DEF Next
  <2>2. ASSUME IInv, UNCHANGED vars PROVE IInv'
    BY <2>2 DEF IInv, vars, rows, TypeOK, SentIsPosted, ConsumerSound, RowSound, Holds
  <2>3. QED
    BY <2>1, <2>2
<1>3. QED
  BY <1>1, <1>2, PTL DEF Spec

\* The rows, the consumers' snapshots and the bookkeeping keep their types.
THEOREM TypeCorrect == Spec => []TypeOK
<1>1. IInv => TypeOK
  BY DEF IInv
<1>2. QED
  BY <1>1, Invariance, PTL

\* A row says "sent" only if Slack has the card, whoever marked it.
THEOREM SentWasPosted == Spec => []SentIsPosted
<1>1. IInv => SentIsPosted
  BY DEF IInv
<1>2. QED
  BY <1>1, Invariance, PTL

\* Unless a consumer outlives its lease, claim_next gives a job to one
\* consumer at a time.
THEOREM OneConsumer == Spec => []Exclusive
<1>1. IInv => Exclusive
  BY DEF IInv, RowSound, Exclusive
<1>2. QED
  BY <1>1, Invariance, PTL

\* max_attempts bounds the claims of a card, but for those left behind.
THEOREM BoundedAttempts == Spec => []AttemptsBounded
<1>1. IInv => AttemptsBounded
  BY DEF IInv, RowSound, AttemptsBounded
<1>2. QED
  BY <1>1, Invariance, PTL

\* A mark that comes late never reopens or rewrites a closed row.
THEOREM FinalStatus == Spec => TerminalIsFinal
<1>1. TypeOK /\ (\A w \in Workers : ConsumerSound(w)) /\ [Next]_vars =>
        [\A j \in Jobs : status[j] \in Terminal => status'[j] = status[j]]_status
  <2> SUFFICES ASSUME TypeOK, \A w \in Workers : ConsumerSound(w), Next,
                      NEW j \in Jobs, status[j] \in Terminal
               PROVE status'[j] = status[j]
    BY DEF vars, rows
  <2>1. status[j] \notin {"absent", "queued", "processing"}
    BY DEF Terminal
  <2>2. ASSUME NEW w \in Workers, NEW to, NEW delay, _update(w, to, delay)
        PROVE status'[j] = status[j]
    BY <2>1, <2>2 DEF _update, TypeOK
  <2>3. ASSUME NEW w \in Workers, Consume(w) PROVE status'[j] = status[j]
    BY <2>2, <2>3 DEF Consume, CancelStale, FailUnmapped, MarkSent, MarkFailed,
                      mark_retry, send, rows
  <2>4. ASSUME NEW w \in Workers, NEW k \in Jobs, claim_next(w, k)
        PROVE status'[j] = status[j]
    BY <2>1, <2>4 DEF claim_next, Claimable, TypeOK
  <2>5. QED
    BY <2>1, <2>3, <2>4 DEF Next, Enqueue, CaseMoves, Tick, Abandon, rows, TypeOK
<1>2. IInv => TypeOK /\ \A w \in Workers : ConsumerSound(w)
  BY DEF IInv
<1>3. QED
  BY <1>1, <1>2, Invariance, PTL DEF Spec, TerminalIsFinal
=============================================================================
