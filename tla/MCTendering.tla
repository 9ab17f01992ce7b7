----------------------------- MODULE MCTendering -----------------------------
(***************************************************************************)
(* Small instances of the procurement components, side by side: a          *)
(* behaviour is one of Tendering, of Evaluation or of ReworkSupport, and    *)
(* the variables of the others stay where they start.                      *)
(***************************************************************************)
EXTENDS Tendering, Evaluation, ReworkSupport, TLC

CONSTANTS an, binh, chi

VARIABLE part

\* an filed the case; binh and chi work in procurement.
MCUsers == {an, binh, chi}
MCStaff == {binh, chi}
MCSymmetry == Permutations(MCStaff) \cup Permutations(Bids)

\* Two bids on one day, for a case without addenda; one bid, with days and an
\* addendum; or a deployment without SMTP, and no bids.
UsedBids == {b \in Bids : mail[b] # "unsent" \/ b \in documents \/ \E a \in Actors : task[a].receipt = b}
Scenario ==
  \/ UsedBids = {}
  \/ Cardinality(UsedBids) = 1 /\ email = "smtp"
  \/ /\ now = 0 /\ addenda = 0 /\ rfqs =< 1 /\ email = "smtp"
     /\ published = None <=> closesAt = None

Need(kind, weight) == [kind |-> kind, weight |-> weight]
\* One mandatory and one weighted code; weights that PostgreSQL rounds to more
\* than one; weights that do not sum to one.
MCMatrices ==
  {(1 :> Need("mandatory", 0)) @@ (2 :> Need("weighted", Whole)),
   (1 :> Need("weighted", 12345)) @@ (2 :> Need("weighted", 87655)),
   (1 :> Need("mandatory", 0)) @@ (2 :> Need("weighted", 50000))}

Claim(claimed, quote, score) == [claimed |-> claimed, quote |-> quote, score |-> score]
Just == Claim(TRUE, "found", 59995)
Full == Claim(TRUE, "found", 100000)
Made == Claim(TRUE, "invented", 100000)
Denied == Claim(FALSE, "found", 0)
Row(a, b) == (1 :> a) @@ (2 :> b)
Assess(a, b, c) == (1 :> a) @@ (2 :> b) @@ (3 :> c)
\* A tie at the threshold; a bidder without a finding; invented quotes, denials
\* and a supplier that never bid; a clear winner.
MCAssessments ==
  {Assess(Row(Just, Just), Row(Just, Just), Row(Absent, Absent)),
   Assess(Row(Absent, Full), Row(Just, Just), Row(Made, Made)),
   Assess(Row(Made, Full), Row(Denied, Full), Row(Absent, Made)),
   Assess(Row(Full, Full), Row(Just, Made), Row(Absent, Absent))}

MCInit == Init /\ EvalInit /\ ReworkInit /\ part \in {"tendering", "evaluation", "rework"}

MCNext ==
  /\ part' = part
  /\ \/ part = "tendering" /\ Next /\ Scenario' /\ UNCHANGED <<evalVars, reworkVars>>
     \/ part = "evaluation" /\ EvalNext /\ UNCHANGED <<vars, reworkVars>>
     \/ part = "rework" /\ ReworkNext /\ UNCHANGED <<vars, evalVars>>

MCSpec == MCInit /\ [][MCNext]_<<vars, evalVars, reworkVars, part>>

\* The three components keep their types.
TypesOK == TypeOK /\ EvalTypeOK /\ ReworkTypeOK
=============================================================================
