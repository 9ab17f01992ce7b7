------------------------------ MODULE LawWatch ------------------------------
(***************************************************************************)
(* The law watch: a background loop that re-reads the sources for cases    *)
(* that wait to be signed and reports, once per change, when the position  *)
(* a case was drafted with is no longer the current one.  The record, the  *)
(* alert and the in-memory guard _announced are written one after another; *)
(* the cases go on being amended meanwhile.                                *)
(***************************************************************************)
EXTENDS Naturals, Sequences, FiniteSets

CONSTANTS WatchedCases,
          LegalPositions, \* what the sources may say: days and article
          Unverified,     \* no verified position: an unreachable source, no quote
          ReviewLimit,    \* cases of one sweep
          MaxLawMoves, MaxAmends, MaxSilences, MaxAborts  \* bounds

ASSUME LawAssumption ==
    /\ IsFiniteSet(WatchedCases) /\ Unverified \notin LegalPositions
    /\ {ReviewLimit, MaxLawMoves, MaxAmends, MaxSilences, MaxAborts} \subseteq Nat

VARIABLES
    law,        \* what the sources say now
    drafted,    \* the position in the latest approach of each case
    waiting,    \* cases in the states of _LAW_REVIEW_STATES, by updated_at
    todo,       \* cases of this sweep still to be reviewed
    look,       \* the step of the review, and the two positions it compares
    _announced, \* keys this process has alerted
    alerts,     \* approval_notification_jobs: alerts per case and fingerprint
    staffed,    \* somebody holds the approver role or the default one
    unheard,    \* history: alerts dropped because nobody held a role
    reviewed,   \* what the last LAW_REVIEW artifact of each case says
    lawMoves, amends, silences, aborts

lawVars == <<law, drafted, waiting, todo, look, _announced, alerts, staffed, unheard, reviewed,
             lawMoves, amends, silences, aborts>>
bounds == <<lawMoves, amends, silences, aborts>>
world == <<law, drafted, waiting, staffed>>

NoLook == [at |-> "idle", old |-> Unverified, now |-> Unverified]
AlertKeys == WatchedCases \X LegalPositions

LawInit ==
    /\ law \in LegalPositions
    /\ drafted \in [WatchedCases -> {law, Unverified}]
    /\ waiting \in {s \in [1..Cardinality(WatchedCases) -> WatchedCases] :
                     \A i, j \in DOMAIN s : s[i] = s[j] => i = j}
    /\ todo = << >>
    /\ look = NoLook
    /\ _announced = {}
    /\ alerts = [k \in AlertKeys |-> 0]
    /\ staffed \in BOOLEAN
    /\ unheard = {}
    /\ reviewed = [c \in WatchedCases |-> "none"]
    /\ lawMoves = 0 /\ amends = 0 /\ silences = 0 /\ aborts = 0

-----------------------------------------------------------------------------
(* The world around the watcher                                            *)

LawMoves ==
    /\ lawMoves < MaxLawMoves
    /\ lawMoves' = lawMoves + 1
    /\ law' \in LegalPositions \ {law}
    /\ UNCHANGED <<drafted, waiting, staffed, todo, look, _announced, alerts, unheard, reviewed,
                   amends, silences, aborts>>

\* What may come of a look at the sources: their position, if the quote that is
\* to prove it is among the passages found, or nothing.
verified_constraint == {law, Unverified}

\* A run drafts the approach again, with the position of the moment; saving the
\* case moves it to the end of the order by updated_at.
Amend(c) ==
    /\ amends < MaxAmends
    /\ amends' = amends + 1
    /\ \E i \in DOMAIN waiting :
        /\ waiting[i] = c
        /\ waiting' = Append(SubSeq(waiting, 1, i - 1) \o SubSeq(waiting, i + 1, Len(waiting)), c)
    /\ \E p \in verified_constraint : drafted' = [drafted EXCEPT ![c] = p]
    /\ UNCHANGED <<law, staffed, todo, look, _announced, alerts, unheard, reviewed,
                   lawMoves, silences, aborts>>

\* The bids are opened or the case ends.
LeaveStates(c) ==
    /\ \E i \in DOMAIN waiting :
        /\ waiting[i] = c
        /\ waiting' = SubSeq(waiting, 1, i - 1) \o SubSeq(waiting, i + 1, Len(waiting))
    /\ UNCHANGED <<law, drafted, staffed, todo, look, _announced, alerts, unheard, reviewed>>
    /\ UNCHANGED bounds

Hire ==
    /\ ~staffed
    /\ staffed' = TRUE
    /\ UNCHANGED <<law, drafted, waiting, todo, look, _announced, alerts, unheard, reviewed>>
    /\ UNCHANGED bounds

-----------------------------------------------------------------------------
(* LawChangeScanner                                                        *)

Current == Head(todo)

\* What the artifact of a comparison says.
Verdict == IF look.old = look.now THEN "same" ELSE "changed"

\* The review of the first case is over.
Done ==
    /\ todo' = Tail(todo)
    /\ look' = NoLook

\* list_pending_law_review.
poll_once ==
    /\ look = NoLook
    /\ todo = << >>
    /\ waiting # << >>
    /\ todo' = SubSeq(waiting, 1, IF Len(waiting) < ReviewLimit THEN Len(waiting) ELSE ReviewLimit)
    /\ UNCHANGED <<look, _announced, alerts, unheard, reviewed>>
    /\ UNCHANGED <<world, bounds>>

\* The latest approach is read; without a verified position there is nothing
\* to compare.
ReadDrafted ==
    /\ look = NoLook
    /\ todo # << >>
    /\ \/ drafted[Current] = Unverified /\ Done
       \/ /\ drafted[Current] # Unverified
          /\ look' = [at |-> "sources", old |-> drafted[Current], now |-> Unverified]
          /\ UNCHANGED todo
    /\ UNCHANGED <<_announced, alerts, unheard, reviewed>>
    /\ UNCHANGED <<world, bounds>>

\* LiveLegalPositionReader: what the sources say, if the quote is verified.
read_current ==
    /\ look.at = "sources"
    /\ \/ /\ look' = [look EXCEPT !.at = "record", !.now = law]
          /\ UNCHANGED <<todo, silences>>
       \/ /\ silences < MaxSilences
          /\ silences' = silences + 1
          /\ Done
    /\ UNCHANGED <<_announced, alerts, unheard, reviewed, lawMoves, amends, aborts>>
    /\ UNCHANGED world

\* Every comparison is recorded; only an unannounced change goes on.
_record ==
    /\ look.at = "record"
    /\ reviewed' = [reviewed EXCEPT ![Current] = Verdict]
    /\ \/ /\ look.old # look.now /\ <<Current, look.now>> \notin _announced
          /\ look' = [look EXCEPT !.at = "alert"]
          /\ UNCHANGED todo
       \/ /\ look.old = look.now \/ <<Current, look.now>> \in _announced
          /\ Done
    /\ UNCHANGED <<_announced, alerts, unheard>>
    /\ UNCHANGED <<world, bounds>>

\* The idempotency key: the case and what the law now says.
AlertKey(c, p) == <<c, p>>

\* A variant of enqueue without the unique key.
enqueueAgain(k) == alerts' = [alerts EXCEPT ![k] = @ + 1]

\* ON CONFLICT DO NOTHING.
enqueue(k) == alerts' = [alerts EXCEPT ![k] = 1]

\* The alert is queued for whoever holds the role; the guard is set even if
\* there is nobody.
_alert ==
    LET k == AlertKey(Current, look.now)
    IN /\ look.at = "alert"
       /\ \/ staffed /\ enqueue(k) /\ UNCHANGED unheard
          \/ ~staffed /\ unheard' = unheard \union {<<Current, look.now>>} /\ UNCHANGED alerts
       /\ _announced' = _announced \union {<<Current, look.now>>}
       /\ Done
       /\ UNCHANGED <<reviewed>>
       /\ UNCHANGED <<world, bounds>>

\* A case is skipped on a DWError; another error ends the sweep; a restart also
\* forgets what was announced.  The record is written, the alert may not be.
Fails ==
    /\ todo # << >>
    /\ aborts < MaxAborts
    /\ aborts' = aborts + 1
    /\ \/ Done /\ UNCHANGED _announced
       \/ todo' = << >> /\ look' = NoLook /\ _announced' \in {_announced, {}}
    /\ UNCHANGED <<alerts, unheard, reviewed, lawMoves, amends, silences>>
    /\ UNCHANGED world

Sweep == poll_once \/ ReadDrafted \/ read_current \/ _record \/ _alert

LawNext ==
    \/ Sweep \/ Fails \/ LawMoves \/ Hire
    \/ \E c \in WatchedCases : Amend(c) \/ LeaveStates(c)

\* The background loop goes on after every exception.
LawSpec == LawInit /\ [][LawNext]_lawVars /\ WF_lawVars(Sweep)

-----------------------------------------------------------------------------
(* Properties                                                              *)

\* A review compares verified positions only, and no waiting case is twice in
\* the order.
LawTypeOK ==
    /\ law \in LegalPositions
    /\ drafted \in [WatchedCases -> LegalPositions \union {Unverified}]
    /\ \A i, j \in DOMAIN waiting : waiting[i] = waiting[j] => i = j
    /\ look.at \in {"idle", "sources", "record", "alert"}
    /\ look.at \in {"record", "alert"} => {look.old, look.now} \subseteq LegalPositions
    /\ reviewed \in [WatchedCases -> {"none", "same", "changed"}]

\* Nobody is alerted of what no review has recorded.
AlertIsOnRecord ==
    \A c \in WatchedCases, p \in LegalPositions : alerts[<<c, p>>] > 0 => reviewed[c] # "none"

\* However often the sweep runs, fails or restarts, a change is reported once.
ReportedOnce == \A k \in AlertKeys : alerts[k] =< 1

\* A case that waits, among no more than a sweep takes, with a position the law
\* has left is reported to somebody, unless it is drafted again or moves on, the
\* law goes back, or nobody held the role when the change was seen.
ChangeIsReported ==
    \A c \in WatchedCases :
        LET stale == /\ \E i \in DOMAIN waiting : waiting[i] = c /\ Len(waiting) =< ReviewLimit
                     /\ drafted[c] \notin {law, Unverified}
        IN stale ~> (~stale \/ alerts[<<c, law>>] > 0 \/ <<c, law>> \in unheard)

\* Sweeps compare what was verified and report a change once, whatever fails or
\* restarts between the record, the alert and the guard.
ReportsAreSound == LawTypeOK /\ AlertIsOnRecord /\ ReportedOnce
=============================================================================
