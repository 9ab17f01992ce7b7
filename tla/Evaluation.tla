----------------------------- MODULE Evaluation -----------------------------
(***************************************************************************)
(* Tender evaluation (DW02): the model extracts requirements and assesses  *)
(* the submissions, deterministic code grounds and scores, the gate names  *)
(* the supplier, a human approves, and the pack is exported.  A case may   *)
(* be analysed again at any time, and the runs share its requirements, its *)
(* findings, its one recommendation and the object the pack is stored in.  *)
(* What the model answers is chosen in the node that first writes it.      *)
(* ApprovalRun models the approval; a decision resumes a run once.         *)
(***************************************************************************)
EXTENDS Integers, FiniteSets, FiniteSetsExt

CONSTANTS EvalRuns,      \* runs of one case
          Bidders,       \* suppliers with a submission, numbered by name order
          Named,         \* suppliers the model may write down
          Codes,         \* requirement codes
          Matrices,      \* requirement matrices the model may extract
          Assessments,   \* assessments the model may give
          MinTotal,      \* min_total_score, in hundredths
          MaxEvalFaults, \* bound: failing nodes
          NoSupplier

\* Weights in the model's answer are in 1/100000, scores in thousandths.
Whole == 100000
Kind == {"mandatory", "weighted", "informational"}
MatrixRows == [Codes -> [kind : Kind, weight : 0..Whole]]
Claims == [claimed : BOOLEAN, quote : {"none", "invented", "found"}, score : 0..100000]
Absent == [claimed |-> FALSE, quote |-> "absent", score |-> 0]

ASSUME EvaluationAssumption ==
    /\ Bidders \subseteq Named /\ Named \subseteq Nat /\ NoSupplier \notin Named
    /\ Matrices \subseteq MatrixRows
    /\ \A a \in Assessments, n \in Named, c \in Codes :
        a[n][c] \in Claims \union {Absent} /\ (n \notin Bidders => a[n][c].quote # "found")
    /\ {MinTotal, MaxEvalFaults} \subseteq Nat
    /\ NoSupplier \notin EvalRuns

VARIABLES
    tcase,        \* status of the case
    requirements, \* the run whose matrix is stored, and the stored matrix
    findings,     \* the run whose findings are stored, and the findings
    recommended,  \* the recommendation, if stored: supplier and gate_passed
    erun,         \* node, answers, payload and decision of each run
    pack,         \* the exported object
    evalFaults

evalVars == <<tcase, requirements, findings, recommended, erun, pack, evalFaults>>

NoRow == [by |-> NoSupplier, rows |-> NoSupplier]
NoRecommendation == [stored |-> FALSE, top |-> NoSupplier, passed |-> FALSE]
NoPack == [by |-> NoSupplier, top |-> NoSupplier, basis |-> NoSupplier]
NotRun == [pc |-> "idle", claims |-> NoSupplier, shown |-> NoSupplier, basis |-> NoSupplier,
           decision |-> "none", alone |-> TRUE, read |-> NoSupplier]
Active == {"intake", "matrix", "score", "gate", "review", "export", "put", "close"}

CaseStatus == {"created", "analyzing", "recommendation_ready", "completed"}

\* A case is created with an RFQ and at least one submission.
EvalInit ==
    /\ tcase = "created"
    /\ requirements = NoRow
    /\ findings = NoRow
    /\ recommended = NoRecommendation
    /\ erun = [r \in EvalRuns |-> NotRun]
    /\ pack = NoPack
    /\ evalFaults = 0

-----------------------------------------------------------------------------
(* Grounding and scoring                                                   *)

\* A variant of locate_quote that believes every quote.
locate_quoteAny(c) == c.quote \in {"invented", "found"}

\* A quote is evidence only if the submission of that supplier contains it.
locate_quote(c) == c.quote = "found"

\* score_compliance: the status of a claim, its evidence and its score, which
\* PostgreSQL keeps in NUMERIC(6, 2).
Finding(c) ==
    [status |-> IF ~c.claimed THEN "non_compliant"
                ELSE IF locate_quote(c) THEN "compliant" ELSE "missing_evidence",
     evidence |-> locate_quote(c),
     score |-> (c.score + 5) \div 10]

\* The stored weight is NUMERIC(6, 4).
StoredWeight(w) == (w + 5) \div 10

Weighted(m) == {c \in Codes : m[c].kind = "weighted"}
Mandatory(m) == {c \in Codes : m[c].kind = "mandatory"}

\* Whether there is a weighted requirement and the weights sum to one.
validate_requirements(m, one) ==
    /\ Weighted(m) # {}
    /\ MapThenSumSet(LAMBDA c : m[c].weight, Weighted(m)) = one

\* Every mandatory requirement has a compliant finding with evidence.
MandatoryPassed(m, f, n) ==
    \A c \in Mandatory(m) : f[n][c] # Absent /\ f[n][c].status = "compliant" /\ f[n][c].evidence

\* The weighted sum, rounded half up to hundredths.
Total(m, f, n) ==
    LET points(c) == IF f[n][c] = Absent THEN 0 ELSE f[n][c].score * m[c].weight
    IN (MapThenSumSet(points, Weighted(m)) + 5000) \div 10000

\* Of a supplier with some finding.
Eligible(m, f, n) ==
    /\ \E c \in Codes : f[n][c] # Absent
    /\ Total(m, f, n) >= MinTotal
    /\ MandatoryPassed(m, f, n)

\* The supplier with the best total; of equals, the first name.
IsTop(n, m, f) ==
    LET ok == {o \in Named : Eligible(m, f, o)}
        best == {o \in ok : \A u \in ok : Total(m, f, u) =< Total(m, f, o)}
    IN IF ok = {} THEN n = NoSupplier ELSE n \in best /\ \A o \in best : n =< o

-----------------------------------------------------------------------------
\* The rows of a case are deleted and written again in one transaction.
replace_for_case(r, rows) == [by |-> r, rows |-> rows]

\* The one recommendation of a case; gate_passed only if the draft agrees.
upsert(top, draft) == [stored |-> TRUE, top |-> top, passed |-> top # NoSupplier /\ draft = top]

At(r, node) == erun[r].pc = node
Goto(r, node) == erun' = [erun EXCEPT ![r].pc = node]

\* AnalyzeCaseHandler: start_analysis asks nothing of the state of the case.
\* (History: no run is alone that overlaps another.)
analyze(r) ==
    LET others == {o \in EvalRuns \ {r} : erun[o].pc \in Active}
    IN /\ At(r, "idle")
       /\ tcase' = "analyzing"
       /\ erun' = [o \in EvalRuns |->
             IF o = r THEN [erun[r] EXCEPT !.pc = "intake", !.alone = (others = {})]
             ELSE IF o \in others THEN [erun[o] EXCEPT !.alone = FALSE] ELSE erun[o]]
       /\ UNCHANGED <<requirements, findings, recommended, pack, evalFaults>>

\* Documents are read, and ingested into the knowledge base again.
intake_case(r) ==
    /\ At(r, "intake")
    /\ Goto(r, "matrix")
    /\ UNCHANGED <<tcase, requirements, findings, recommended, pack, evalFaults>>

\* Extracted weights must sum to one before they are stored.
build_requirement_matrix(r) ==
    /\ At(r, "matrix")
    /\ \E m \in Matrices :
        \/ /\ validate_requirements(m, Whole)
           /\ requirements' = replace_for_case(r, [c \in Codes |->
                                    [m[c] EXCEPT !.weight = StoredWeight(@)]])
           /\ Goto(r, "score")
        \/ /\ ~validate_requirements(m, Whole)
           /\ Goto(r, "failed")
           /\ UNCHANGED requirements
    /\ UNCHANGED <<tcase, findings, recommended, pack, evalFaults>>

\* The assessment is grounded and replaces the findings of the case.
score_compliance(r) ==
    /\ At(r, "score")
    /\ \E a \in Assessments :
        /\ findings' = replace_for_case(r, [n \in Named |-> [c \in Codes |->
                            IF a[n][c] = Absent THEN Absent ELSE Finding(a[n][c])]])
        /\ erun' = [erun EXCEPT ![r].pc = "gate", ![r].claims = a]
    /\ UNCHANGED <<tcase, requirements, recommended, pack, evalFaults>>

\* A variant of the gate that shows the approver the draft.
GateShowsDraft(r) ==
    /\ At(r, "gate")
    /\ \E draft \in Named, top \in Named \union {NoSupplier} :
        /\ IsTop(top, requirements.rows, findings.rows)
        /\ recommended' = [stored |-> TRUE, top |-> top, passed |-> TRUE]
        /\ erun' = [erun EXCEPT ![r].pc = "review", ![r].shown = draft,
                                ![r].basis = <<requirements, findings>>]
    /\ tcase' = "recommendation_ready"
    /\ UNCHANGED <<requirements, findings, pack, evalFaults>>

\* Requirements and findings are read from the tables, whoever wrote them; the
\* stored weights are validated again; the engine, not the draft, names the
\* supplier.  The human sees this outcome.
deterministic_compliance_gate(r) ==
    /\ At(r, "gate")
    /\ LET valid == validate_requirements(requirements.rows, StoredWeight(Whole))
       IN \/ /\ valid
             /\ \E top \in Named \union {NoSupplier} :
                   /\ IsTop(top, requirements.rows, findings.rows)
                   /\ \E draft \in Named : recommended' = upsert(top, draft)
                   /\ erun' = [erun EXCEPT ![r].pc = "review", ![r].shown = top,
                                           ![r].basis = <<requirements, findings>>]
             /\ tcase' = "recommendation_ready"
          \/ ~valid /\ Goto(r, "failed") /\ UNCHANGED <<recommended, tcase>>
    /\ UNCHANGED <<requirements, findings, pack, evalFaults>>

human_review(r) ==
    /\ At(r, "review")
    /\ \E d \in {"approved", "rejected"} :
          erun' = [erun EXCEPT ![r].pc = "export", ![r].decision = d]
    /\ UNCHANGED <<tcase, requirements, findings, recommended, pack, evalFaults>>

\* export_evaluation_pack reads what the tables hold now.
ExportRead(r) ==
    /\ At(r, "export")
    /\ \/ /\ erun[r].decision = "approved"
          /\ erun' = [erun EXCEPT ![r].pc = "put",
                ![r].read = [top |-> recommended.top, basis |-> <<requirements, findings>>]]
       \/ /\ erun[r].decision # "approved"
          /\ Goto(r, "close")
    /\ UNCHANGED <<tcase, requirements, findings, recommended, pack, evalFaults>>

\* The pack goes to the key of the case.
ExportPut(r) ==
    /\ At(r, "put")
    /\ pack' = [by |-> r, top |-> erun[r].read.top, basis |-> erun[r].read.basis]
    /\ Goto(r, "close")
    /\ UNCHANGED <<tcase, requirements, findings, recommended, evalFaults>>

\* close_and_write_memory: with an export_ref the case is completed.
close(r) ==
    /\ At(r, "close")
    /\ tcase' = IF erun[r].read # NoSupplier THEN "completed" ELSE tcase
    /\ Goto(r, "done")
    /\ UNCHANGED <<requirements, findings, recommended, pack, evalFaults>>

\* A model call, the storage or a transaction fails, a lost version check among
\* them: the run has failed and what it committed stays.
EvalRaise(r) ==
    /\ erun[r].pc \in Active \ {"review"}
    /\ evalFaults < MaxEvalFaults
    /\ evalFaults' = evalFaults + 1
    /\ Goto(r, "failed")
    /\ UNCHANGED <<tcase, requirements, findings, recommended, pack>>

EvalNode(r) ==
    intake_case(r) \/ build_requirement_matrix(r) \/ score_compliance(r)
    \/ deterministic_compliance_gate(r) \/ ExportRead(r) \/ ExportPut(r) \/ close(r)

EvalNext == \E r \in EvalRuns : analyze(r) \/ EvalNode(r) \/ human_review(r) \/ EvalRaise(r)

EvalSpec == EvalInit /\ [][EvalNext]_evalVars

-----------------------------------------------------------------------------
(* Properties                                                              *)

\* The tables hold rows some run wrote, and a case that waits for a human or is
\* completed has a recommendation.
EvalTypeOK ==
    /\ tcase \in CaseStatus
    /\ \A t \in {requirements, findings} : t.by \in EvalRuns \union {NoSupplier}
    /\ \A r \in EvalRuns : erun[r].pc \in Active \union {"idle", "done", "failed"}
    /\ tcase \in {"recommendation_ready", "completed"} => recommended.stored

\* Whoever the gate names made, in one assessment, a claim for every mandatory
\* requirement it was scored by, with a quote found in its own submission;
\* silence, a denial and an invented quote all fail closed, also when the gate
\* reads one run's requirements with another run's findings.
GateFailsClosed ==
    [][recommended' # recommended /\ recommended'.top # NoSupplier =>
        LET claims == erun[findings.by].claims[recommended'.top]
        IN \A c \in Mandatory(requirements.rows) : claims[c].claimed /\ claims[c].quote = "found"
      ]_evalVars

\* The exported pack stems from an approved run; if no other run of the case
\* overlapped it, it names the supplier the approver saw, with the requirements
\* and findings that supplier was chosen by.
PackWasApproved ==
    pack # NoPack =>
        LET by == erun[pack.by]
        IN /\ by.decision = "approved"
           /\ by.alone => pack.top = by.shown /\ pack.basis = by.basis

\* A completed case has a pack, although the storage, the completion and other
\* runs of the case are separate steps.
CompletedHasPack == tcase = "completed" => pack # NoPack

\* What is exported was approved, and a completed case has it.
ExportsWhatWasApproved == PackWasApproved /\ CompletedHasPack
=============================================================================
