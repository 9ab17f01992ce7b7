--------------------------- MODULE ReworkSupport ----------------------------
(***************************************************************************)
(* Rework-frequency support of DW01 for one author of cases: returned      *)
(* cases are counted over two rolling windows of days, the guard holds     *)
(* back new filings while the larger count is too high, and an approved    *)
(* explanation lets the author file again.  Filing and deciding read in one *)
(* step and write in a later one.                                          *)
(***************************************************************************)
EXTENDS Naturals, Sequences, FiniteSets

CONSTANTS NudgeDays, NudgeAt, BlockDays, BlockAt, EnabledFrom,  \* the rule pack
          Explanations, Supporters, Author,
          LastDay, MaxReturns, MaxOpenCases, MaxOutages         \* bounds

ASSUME ReworkAssumption ==
    /\ {NudgeDays, NudgeAt, BlockDays, BlockAt, EnabledFrom, LastDay, MaxReturns,
        MaxOpenCases, MaxOutages} \subseteq Nat
    /\ "nobody" \notin Supporters
    /\ "nothing" \notin Explanations

VARIABLES
    today,
    submitted,  \* cases of the author that wait for a decision
    cleared,    \* the guard has let a filing pass that is not written yet
    returns,    \* preparation_rework_events
    expl,       \* preparation_explanations
    held,       \* the explanation each decider has read and is about to decide
    outages     \* times the guard could not compute

reworkVars == <<today, submitted, cleared, returns, expl, held, outages>>

NoExplanation == [status |-> "none", by |-> "nobody", at |-> 0, counted |-> {}]

ReworkInit ==
    /\ today = 0
    /\ submitted = 0
    /\ cleared = FALSE
    /\ returns = << >>
    /\ expl = [x \in Explanations |-> NoExplanation]
    /\ held = [d \in Supporters |-> "nothing"]
    /\ outages = 0

-----------------------------------------------------------------------------
(* assess_rework and the guard                                             *)

\* Whether a moment lies in the last n days, both ends included.
Within(d, n) == d + n >= today

\* Not voided, and not from before the mechanism was switched on.
Considered == {i \in DOMAIN returns : returns[i].voidedBy = "nobody" /\ returns[i].at >= EnabledFrom}

_counts_within(n) == IF n = 0 THEN {} ELSE {i \in Considered : Within(returns[i].at, n)}

\* The stricter threshold is looked at first; a threshold of zero is off.
assess_rework ==
    IF BlockAt > 0 /\ Cardinality(_counts_within(BlockDays)) >= BlockAt THEN "block"
    ELSE IF NudgeAt > 0 /\ Cardinality(_counts_within(NudgeDays)) >= NudgeAt THEN "nudge"
    ELSE "none"

Span == IF NudgeDays > BlockDays THEN NudgeDays ELSE BlockDays

\* A variant that forgets an approval after the shorter window.
has_approved_sinceShort ==
    \E x \in Explanations : expl[x].status = "approved" /\ Within(expl[x].at, NudgeDays)

has_approved_since ==
    \E x \in Explanations : expl[x].status = "approved" /\ Within(expl[x].at, Span)

\* ReworkGuard._assess: an approved explanation turns a block into a nudge.
Level ==
    IF assess_rework # "block" \/ ~has_approved_since THEN assess_rework
    ELSE IF _counts_within(NudgeDays) # {} THEN "nudge" ELSE "none"

-----------------------------------------------------------------------------
\* require_not_blocked, before a case is opened or submitted.  What cannot be
\* computed blocks nobody.
require_not_blocked ==
    /\ ~cleared
    /\ \/ Level # "block" /\ UNCHANGED outages
       \/ outages < MaxOutages /\ outages' = outages + 1
    /\ cleared' = TRUE
    /\ UNCHANGED <<today, submitted, returns, expl, held>>

\* The filing itself; approval of a case only takes it off the desk.
File ==
    /\ cleared
    /\ cleared' = FALSE
    /\ submitted' = IF submitted < MaxOpenCases THEN submitted + 1 ELSE submitted
    /\ UNCHANGED <<today, returns, expl, held, outages>>

ApproveCase ==
    /\ submitted > 0
    /\ submitted' = submitted - 1
    /\ UNCHANGED <<today, cleared, returns, expl, held, outages>>

\* record_rework_event, in the transaction that returns the case.
ReturnCase ==
    /\ submitted > 0
    /\ Len(returns) < MaxReturns
    /\ submitted' = submitted - 1
    /\ returns' = Append(returns, [at |-> today, voidedBy |-> "nobody"])
    /\ UNCHANGED <<today, cleared, expl, held, outages>>

\* The returns behind the level; an approval that lowers it leaves them.
counted_event_ids ==
    _counts_within(IF assess_rework = "block" THEN BlockDays ELSE NudgeDays)

\* SubmitExplanationHandler: the explanation keeps the returns counted now, or
\* none when they cannot be computed.
Explain(x, counted) ==
    expl' = [expl EXCEPT ![x] = [status |-> "pending", by |-> "nobody", at |-> today,
                                 counted |-> counted]]

SubmitExplanation(x) ==
    /\ expl[x].status = "none"
    /\ \/ Explain(x, counted_event_ids) /\ UNCHANGED outages
       \/ outages < MaxOutages /\ outages' = outages + 1 /\ Explain(x, {})
    /\ UNCHANGED <<today, submitted, cleared, returns, held>>

\* ExplanationRecord.decide looks at what was read: pending, and not one's own.
ReadExplanation(d, x) ==
    /\ held[d] = "nothing"
    /\ expl[x].status = "pending"
    /\ d # Author
    /\ held' = [held EXCEPT ![d] = x]
    /\ UNCHANGED <<today, submitted, cleared, returns, expl, outages>>

\* A variant of the write that does not pin the status.
SaveDecisionUnpinned(d, approve) ==
    LET x == held[d]
    IN /\ x # "nothing"
       /\ expl' = [expl EXCEPT ![x].status = IF approve THEN "approved" ELSE "rejected",
                               ![x].by = d, ![x].at = today]
       /\ held' = [held EXCEPT ![d] = "nothing"]
       /\ UNCHANGED <<today, submitted, cleared, returns, outages>>

\* The update is pinned to status = 'pending'; of two deciders the second
\* changes nothing, and is not told.
SaveDecision(d, approve) ==
    LET x == held[d]
    IN /\ x # "nothing"
       /\ expl' = IF expl[x].status # "pending" THEN expl
                  ELSE [expl EXCEPT ![x].status = IF approve THEN "approved" ELSE "rejected",
                                    ![x].by = d, ![x].at = today]
       /\ held' = [held EXCEPT ![d] = "nothing"]
       /\ UNCHANGED <<today, submitted, cleared, returns, outages>>

\* VoidReworkEventHandler: refused when voided already, and the update is
\* pinned to voided_at IS NULL.
Void(d, i) ==
    /\ returns[i].voidedBy = "nobody"
    /\ returns' = [returns EXCEPT ![i].voidedBy = d]
    /\ UNCHANGED <<today, submitted, cleared, expl, held, outages>>

NextDay ==
    /\ today < LastDay
    /\ today' = today + 1
    /\ UNCHANGED <<submitted, cleared, returns, expl, held, outages>>

ReworkNext ==
    \/ require_not_blocked \/ File \/ ApproveCase \/ ReturnCase \/ NextDay
    \/ \E x \in Explanations : SubmitExplanation(x)
    \/ \E d \in Supporters :
        \/ \E x \in Explanations : ReadExplanation(d, x)
        \/ \E approve \in BOOLEAN : SaveDecision(d, approve)
        \/ \E i \in DOMAIN returns : Void(d, i)

ReworkSpec == ReworkInit /\ [][ReworkNext]_reworkVars

-----------------------------------------------------------------------------
(* Properties                                                              *)

\* An explanation is decided by somebody who is not its author, and holds
\* returns that are on record.
ReworkTypeOK ==
    /\ today \in 0..LastDay /\ submitted \in 0..MaxOpenCases
    /\ \A i \in DOMAIN returns : returns[i].at =< today
    /\ \A x \in Explanations :
        /\ expl[x].status \in {"none", "pending", "approved", "rejected"}
        /\ expl[x].status \in {"approved", "rejected"} <=> expl[x].by \in Supporters \ {Author}
        /\ expl[x].counted \subseteq DOMAIN returns

\* Records only grow: a return is voided once, by one person, an explanation is
\* decided once, and neither is rewritten by somebody who read it earlier.
RecordsAreFinal ==
    [][/\ \A i \in DOMAIN returns :
            returns'[i] # returns[i] => returns[i].voidedBy = "nobody" /\ returns'[i].at = returns[i].at
       /\ \A x \in Explanations : expl'[x] # expl[x] =>
            \/ expl[x].status = "none"
            \/ expl[x].status = "pending" /\ expl'[x].counted = expl[x].counted]_reworkVars

\* The guard starts to hold somebody back only when a case of theirs comes
\* back, or when the approval that let them go on is as old as the window; no
\* correction, decision or passing day does it.
BlockStartsByReturn ==
    [][Level # "block" /\ Level' = "block" =>
        \/ Len(returns') > Len(returns)
        \/ \E x \in Explanations :
            expl[x].status = "approved" /\ today = expl[x].at + Span /\ today' > today]_reworkVars
=============================================================================
