--------------------------- MODULE PreparationCase ---------------------------
(***************************************************************************)
(* One DW01 preparation case: the aggregate, the handlers that people call *)
(* and the preparation_v1 graph that drives it from intake to the official *)
(* solicitation package.                                                   *)
(*                                                                         *)
(* Each handler and each graph node runs in a transaction that reads the   *)
(* case afresh and saves it under an optimistic lock, so a transaction is  *)
(* one action; one that loses the race raises, which is a handler or a run *)
(* that is cut short.  Between two nodes anything may happen: a second run *)
(* may start, the case may be amended, a checkpoint may be decided.        *)
(*                                                                         *)
(* What was asked for (value, deadline, suppliers) is one generation       *)
(* number, figures, that every amendment increases.  A run works on the    *)
(* generation its load_case node saw.  Approval requests follow the gate   *)
(* discipline of GatedRun, which ApprovalRun implements.                   *)
(***************************************************************************)
EXTENDS Naturals, FiniteSets

CONSTANTS
  Runs,        \* worker run ids
  Users,       \* principals
  Creator,     \* case.created_by
  Writers,     \* principals holding tender.write
  Deciders,    \* principals holding approvals.decide
  Questions,   \* points the purchase request leaves unclear
  MaxFigures,  \* bound: generations of figures, MaxFigures - 1 amendments
  Sufficient,  \* generations with budget, deadline, owner, enough suppliers
  LowValue,    \* generations whose method asks for a single supplier
  MayApprove,  \* per generation and checkpoint, holders of the required role
  Staffed,     \* per generation, checkpoints whose role, or else the default
               \* approver role, has a recipient in the membership directory
  Autonomous,  \* autonomy_profile = "autonomous_demo"
  Interruptible, \* whether a run may be cut short
  None         \* the absent value

Figures == 1..MaxFigures
Checkpoints == 1..2

ASSUME ConstantsAssumption ==
  /\ Creator \in Users
  /\ Writers \subseteq Users
  /\ Deciders \subseteq Users
  /\ MaxFigures \in Nat \ {0}
  /\ Sufficient \subseteq Figures
  /\ LowValue \subseteq Figures
  /\ MayApprove \in [Figures -> [Checkpoints -> SUBSET Users]]
  /\ Staffed \in [Figures -> SUBSET Checkpoints]
  /\ Autonomous \in BOOLEAN
  /\ Interruptible \in BOOLEAN
  /\ None \notin Users \cup Runs

VARIABLES
  state,     \* case.state
  figures,   \* case.estimated_value_minor, deadline and SUPPLIER_INPUT
  verified,  \* case.intake_verified_by
  sealed,    \* the latest OFFICIAL_PACKAGE_MANIFEST
  snapshot,  \* unknowns of the latest DEMAND_SNAPSHOT, or None
  listing,   \* blocking questions of the latest CLARIFICATION_LIST
  latest,    \* questions of the latest CLARIFICATION_RESPONSE
  answered,  \* questions of all CLARIFICATION_RESPONSEs
  cards,     \* checkpoint cards in the notification outbox
  at,        \* where each run's graph is
  local,     \* the graph state of each run
  request,   \* per run and checkpoint, the status of its approval request
  approver,  \* per run and checkpoint, who decided it
  handler    \* what each user's request still has to do

caseVars == <<state, figures, verified>>
artifactVars == <<sealed, snapshot, listing, latest, answered>>
requestVars == <<request, approver>>
vars == <<caseVars, artifactVars, cards, at, local, requestVars, handler>>

CaseState ==
  {"draft", "intake_rejected", "intake_ready", "analyzing",
   "waiting_clarification", "approach_ready", "cp1_pending", "cp1_rejected",
   "cp1_approved", "building_solicitation", "package_ready", "cp2_pending",
   "cp2_rejected", "cp2_approved", "package_official"}

\* _AMENDABLE: everything before CP2 is signed, a rejection included.
Amendable ==
  CaseState \ {"intake_rejected", "cp2_approved", "package_official"}

\* PreparationCase.start_run refuses every other state.
Runnable == {"intake_ready", "waiting_clarification"}

\* The node a run executes next, or where it stands still.
Node ==
  {"idle", "load", "extract", "extracting", "complete", "approach", "gate1",
   "ask1", "cp1", "auto1", "package", "annexes", "gate2", "ask2", "cp2",
   "finalize", "end", "dead"}

\* The graph state: what load_case copied out of the case and what the later
\* nodes derived from it.
Local ==
  [actor : Users \cup {None}, figures : Figures \cup {0}, pr : BOOLEAN,
   questions : SUBSET Questions, answers : SUBSET Questions,
   blocking : SUBSET Questions, delegated : BOOLEAN, gate2 : BOOLEAN,
   decisions : SUBSET Checkpoints]

NoLocal ==
  [actor |-> None, figures |-> 0, pr |-> FALSE, questions |-> {},
   answers |-> {}, blocking |-> {}, delegated |-> FALSE, gate2 |-> FALSE,
   decisions |-> {}]

Manifest == [run : Runs, figures : Figures]

TypeOK ==
  /\ state \in CaseState
  /\ figures \in Figures
  /\ verified \in Users \cup {None}
  /\ sealed \in Manifest \cup {None}
  /\ snapshot \in (SUBSET Questions) \cup {None}
  /\ listing \in SUBSET Questions
  /\ latest \in SUBSET Questions
  /\ answered \in SUBSET Questions
  /\ cards \in SUBSET (Checkpoints \X Runs)
  /\ at \in [Runs -> Node]
  /\ local \in [Runs -> Local]
  /\ request \in [Runs -> [Checkpoints ->
       {"unasked", "pending", "approved", "rejected", "cancelled"}]]
  /\ approver \in [Runs -> [Checkpoints -> Users \cup {None}]]
  /\ handler \in [Users -> {"idle", "autorun", "withdraw", "rerun"}]

Init ==
  /\ state = "draft"
  /\ figures = 1
  /\ verified = None
  /\ sealed = None
  /\ snapshot = None
  /\ listing = {}
  /\ latest = {}
  /\ answered = {}
  /\ cards = {}
  /\ at = [r \in Runs |-> "idle"]
  /\ local = [r \in Runs |-> NoLocal]
  /\ request = [r \in Runs |-> [c \in Checkpoints |-> "unasked"]]
  /\ approver = [r \in Runs |-> [c \in Checkpoints |-> None]]
  /\ handler = [u \in Users |-> "idle"]

-----------------------------------------------------------------------------
(* Intake, clarification, runs and amendments: the handlers people call *)

\* VerifyPreparationIntakeHandler; its best-effort auto-start comes after the
\* commit.
VerifyIntake(u) ==
  /\ handler[u] = "idle"
  /\ u \in Deciders
  /\ u # Creator
  /\ state = "draft"
  /\ state' = "intake_ready"
  /\ verified' = u
  /\ handler' = [handler EXCEPT ![u] = "autorun"]
  /\ UNCHANGED <<figures, artifactVars, cards, at, local, requestVars>>

\* Mutant: writes the status of an approval request into the case.
RejectIntakeAsRequest(u) ==
  /\ u \in Deciders
  /\ u # Creator
  /\ state = "draft"
  /\ state' = "rejected"
  /\ UNCHANGED <<figures, verified, artifactVars, cards, at, local,
                 requestVars, handler>>

RejectIntake(u) ==
  /\ u \in Deciders
  /\ u # Creator
  /\ state = "draft"
  /\ state' = "intake_rejected"
  /\ UNCHANGED <<figures, verified, artifactVars, cards, at, local,
                 requestVars, handler>>

\* RunPreparationHandler._start: start_run is saved, then the graph is
\* entered on behalf of actor.
BeginRun(r, actor) ==
  /\ at[r] = "idle"
  /\ state \in Runnable
  /\ state' = "analyzing"
  /\ at' = [at EXCEPT ![r] = "load"]
  /\ local' = [local EXCEPT ![r].actor = actor]
  /\ UNCHANGED <<figures, verified, artifactVars, cards, requestVars>>

\* The run button, or a chat turn that starts a run.
StartRun(u, r) ==
  /\ u \in Writers
  /\ BeginRun(r, u)
  /\ UNCHANGED handler

\* handle_auto: the run is attributed to the case owner.
AutoRun(u, r) ==
  /\ handler[u] = "autorun"
  /\ BeginRun(r, Creator)
  /\ handler' = [handler EXCEPT ![u] = "idle"]

\* AnswerPreparationClarificationsHandler: every call appends a response of
\* its own; the case leaves waiting_clarification when the responses together
\* cover the blocking questions on the list.
AnswerClarifications(u, answers) ==
  /\ u \in Writers
  /\ state = "waiting_clarification"
  /\ answers # {}
  /\ latest' = answers
  /\ answered' = answered \cup answers
  /\ state' = IF listing \subseteq answered' THEN "intake_ready" ELSE state
  /\ UNCHANGED <<figures, verified, sealed, snapshot, listing, cards,
                 at, local, requestVars, handler>>

\* AmendPreparationCaseHandler.handle, first transaction: new figures, a
\* DEMAND_SNAPSHOT that carries the changes and no unknowns, and the case back
\* at intake_ready.
Amend(u) ==
  /\ handler[u] = "idle"
  /\ u \in Writers
  /\ state \in Amendable
  /\ figures < MaxFigures
  /\ figures' = figures + 1
  /\ snapshot' = {}
  /\ state' = "intake_ready"
  /\ handler' = [handler EXCEPT ![u] = "withdraw"]
  /\ UNCHANGED <<verified, sealed, listing, latest, answered, cards, at, local,
                 requestVars>>

\* Mutant: cancels the case's requests without asking whether they are pending.
WithdrawUnchecked(u) ==
  /\ handler[u] = "withdraw"
  /\ request' = [r \in Runs |-> [c \in Checkpoints |->
       IF request[r][c] # "unasked" THEN "cancelled" ELSE request[r][c]]]
  /\ handler' = [handler EXCEPT ![u] = "rerun"]
  /\ UNCHANGED <<caseVars, artifactVars, cards, at, local, approver>>

\* _withdraw_pending_checkpoint: cancels what is pending by then.
Withdraw(u) ==
  /\ handler[u] = "withdraw"
  /\ request' = [r \in Runs |-> [c \in Checkpoints |->
       IF request[r][c] = "pending" THEN "cancelled" ELSE request[r][c]]]
  /\ handler' = [handler EXCEPT ![u] = "rerun"]
  /\ UNCHANGED <<caseVars, artifactVars, cards, at, local, approver>>

\* run_case.handle(channel="amend"): attributed to whoever amended.
Rerun(u, r) ==
  /\ handler[u] = "rerun"
  /\ BeginRun(r, u)
  /\ handler' = [handler EXCEPT ![u] = "idle"]

\* The handler stops early: start_run refuses the state, the frequency guard
\* blocks the user, a save conflicts, or the process dies.
HandlerStops(u) ==
  /\ handler[u] # "idle"
  /\ handler' = [handler EXCEPT ![u] = "idle"]
  /\ UNCHANGED <<caseVars, artifactVars, cards, at, local, requestVars>>

-----------------------------------------------------------------------------
(* The preparation_v1 graph *)

\* A node that writes neither the case nor an approval moves on.
Goto(r, node) == at' = [at EXCEPT ![r] = node]

LoadCase(r) ==
  /\ at[r] = "load"
  /\ Goto(r, "extract")
  /\ local' = [local EXCEPT ![r].figures = figures,
                            ![r].pr = verified # None,
                            ![r].answers = latest]
  /\ UNCHANGED <<caseVars, artifactVars, cards, requestVars, handler>>

\* extract_requirements reuses the unknowns of an existing snapshot ...
ReuseSnapshot(r) ==
  /\ at[r] = "extract"
  /\ snapshot # None
  /\ Goto(r, "complete")
  /\ local' = [local EXCEPT ![r].questions = snapshot]
  /\ UNCHANGED <<caseVars, artifactVars, cards, requestVars, handler>>

\* ... and otherwise asks the model, outside any transaction ...
AskModel(r) ==
  /\ at[r] = "extract"
  /\ snapshot = None
  /\ Goto(r, "extracting")
  /\ UNCHANGED <<caseVars, artifactVars, cards, local, requestVars, handler>>

\* ... and writes what it found.
ExtractRequirements(r, unknowns) ==
  /\ at[r] = "extracting"
  /\ Goto(r, "complete")
  /\ snapshot' = unknowns
  /\ local' = [local EXCEPT ![r].questions = unknowns]
  /\ UNCHANGED <<caseVars, sealed, listing, latest, answered, cards,
                 requestVars, handler>>

\* The questions without an answer block; the case waits for clarification
\* whether or not there are any.
CompletenessCheck(r) ==
  LET open == local[r].questions \ local[r].answers IN
  /\ at[r] = "complete"
  /\ Goto(r, "approach")
  /\ local' = [local EXCEPT ![r].blocking = open]
  /\ listing' = open
  /\ state' = "waiting_clarification"
  /\ UNCHANGED <<figures, verified, sealed, snapshot, latest, answered,
                 cards, requestVars, handler>>

DraftApproach(r) ==
  /\ at[r] = "approach"
  /\ Goto(r, "gate1")
  /\ state' = "approach_ready"
  /\ UNCHANGED <<figures, verified, artifactVars, cards, local, requestVars,
                 handler>>

\* Mutant: the gate forgets that the purchase request must be approved.
ApproachGateWithoutPr(r) ==
  /\ local[r].figures \in Sufficient
  /\ local[r].blocking = {}

\* rules.approach_gate over the graph state.
ApproachGatePasses(r) ==
  /\ local[r].pr
  /\ local[r].figures \in Sufficient
  /\ local[r].blocking = {}

\* A variant whose idempotency key does not name the checkpoint.
EnqueueOneCard(c, r) ==
  cards' = IF c \notin Staffed[figures] \/ cards # {} THEN cards
           ELSE cards \cup {<<c, r>>}

\* _notify_cp_approval: the role is the one for the case's figures by then, and
\* nothing is enqueued where neither it nor the default role has a recipient.
\* The idempotency key is the case, the checkpoint and the hash of a passed
\* gate, so a key that exists keeps its first row.
EnqueueCard(c, r) ==
  cards' = IF c \notin Staffed[figures] \/ \E s \in Runs : <<c, s>> \in cards
             THEN cards
           ELSE cards \cup {<<c, r>>}

\* approach_gate not passed: the run closes incomplete.
ApproachIncomplete(r) ==
  /\ at[r] = "gate1"
  /\ ~ApproachGatePasses(r)
  /\ Goto(r, "end")
  /\ state' = "waiting_clarification"
  /\ UNCHANGED <<figures, verified, artifactVars, cards, local, requestVars,
                 handler>>

\* approach_gate passed: CP1 is put to a human.
ApproachPassed(r) ==
  /\ at[r] = "gate1"
  /\ ApproachGatePasses(r)
  /\ Goto(r, "ask1")
  /\ state' = "cp1_pending"
  /\ EnqueueCard(1, r)
  /\ UNCHANGED <<figures, verified, artifactVars, local, requestVars, handler>>

\* approach_gate passed with delegated autonomy: a low-value method and a
\* favourable review pre-fill the decision and skip the interrupt.
ApproachDelegated(r) ==
  /\ at[r] = "gate1"
  /\ ApproachGatePasses(r)
  /\ Autonomous
  /\ local[r].figures \in LowValue
  /\ Goto(r, "auto1")
  /\ local' = [local EXCEPT ![r].delegated = TRUE]
  /\ state' = "cp1_pending"
  /\ UNCHANGED <<figures, verified, artifactVars, cards, requestVars, handler>>

\* interrupt(): the runner raises the approval request, after the node's own
\* commit.
Ask(r, c, node, paused) ==
  /\ at[r] = node
  /\ Goto(r, paused)
  /\ request' = [request EXCEPT ![r][c] = "pending"]
  /\ UNCHANGED <<caseVars, artifactVars, cards, local, approver, handler>>

\* Mutant: the role the payload asks for is not looked at.
DecideAnyRole(u, r, c, outcome) ==
  /\ request[r][c] = "pending"
  /\ u \in Deciders
  /\ u # local[r].actor
  /\ request' = [request EXCEPT ![r][c] = outcome]
  /\ approver' = [approver EXCEPT ![r][c] = u]
  /\ UNCHANGED <<caseVars, artifactVars, cards, at, local, handler>>

\* ApproveAndResumeService.decide: scope, requester, role of the payload.  The
\* case is not consulted.
Decide(u, r, c, outcome) ==
  /\ request[r][c] = "pending"
  /\ u \in Deciders
  /\ u # local[r].actor
  /\ u \in MayApprove[local[r].figures][c]
  /\ request' = [request EXCEPT ![r][c] = outcome]
  /\ approver' = [approver EXCEPT ![r][c] = u]
  /\ UNCHANGED <<caseVars, artifactVars, cards, at, local, handler>>

\* The graph resumes with the decision: apply_cp1 or apply_cp2 writes it to
\* the case, and the routing continues or closes the run.
Apply(r, c, paused, approvedState, next, rejectedState) ==
  /\ at[r] = paused
  /\ \/ /\ request[r][c] = "approved"
        /\ state' = approvedState
        /\ Goto(r, next)
        /\ local' = [local EXCEPT ![r].decisions = @ \cup {c}]
     \/ /\ request[r][c] = "rejected"
        /\ state' = rejectedState
        /\ Goto(r, "end")
        /\ UNCHANGED local
  /\ UNCHANGED <<figures, verified, artifactVars, cards, requestVars, handler>>

ApplyCp1(r) == Apply(r, 1, "cp1", "cp1_approved", "package", "cp1_rejected")
ApplyCp2(r) == Apply(r, 2, "cp2", "cp2_approved", "finalize", "cp2_rejected")

\* apply_cp1 with the pre-filled decision of delegated autonomy.
ApplyDelegated(r) ==
  /\ at[r] = "auto1"
  /\ Goto(r, "package")
  /\ state' = "cp1_approved"
  /\ UNCHANGED <<figures, verified, artifactVars, cards, local, requestVars,
                 handler>>

DraftPackage(r) ==
  /\ at[r] = "package"
  /\ Goto(r, "annexes")
  /\ state' = "building_solicitation"
  /\ UNCHANGED <<figures, verified, artifactVars, cards, local, requestVars,
                 handler>>

\* draft_evaluation_criteria, build_supplier_shortlist and run_risk_check
\* write their artifacts and leave the case alone.
DraftAnnexes(r) ==
  /\ at[r] = "annexes"
  /\ Goto(r, "gate2")
  /\ UNCHANGED <<caseVars, artifactVars, cards, local, requestVars, handler>>

\* package_gate: weights and shortlist are those CP1 saw, so the gate fails
\* when the legal minimum retrieved now exceeds the drafted window.  The edge
\* to cp2_review is unconditional.
PackageGate(r, lawful) ==
  /\ at[r] = "gate2"
  /\ Goto(r, "ask2")
  /\ local' = [local EXCEPT ![r].gate2 = lawful]
  /\ state' = IF lawful THEN "cp2_pending" ELSE "package_ready"
  /\ IF lawful THEN EnqueueCard(2, r) ELSE UNCHANGED cards
  /\ UNCHANGED <<figures, verified, artifactVars, requestVars, handler>>

\* The manifest names the figures of the case as it is now, next to the
\* artifacts and decisions of this run.
FinalizeOfficial(r) ==
  /\ at[r] = "finalize"
  /\ Goto(r, "end")
  /\ sealed' = [run |-> r, figures |-> figures]
  /\ state' = "package_official"
  /\ UNCHANGED <<figures, verified, snapshot, listing, latest, answered,
                 cards, local, requestVars, handler>>

\* A node raises (model, database, lost optimistic lock), the process dies, or
\* the decision's resume is lost.
RunDies(r) ==
  /\ Interruptible
  /\ at[r] \notin {"idle", "end", "dead"}
  /\ \A c \in Checkpoints : request[r][c] # "pending"
  /\ Goto(r, "dead")
  /\ UNCHANGED <<caseVars, artifactVars, cards, local, requestVars, handler>>

-----------------------------------------------------------------------------
GraphStep(r) ==
  \/ LoadCase(r)
  \/ ReuseSnapshot(r)
  \/ AskModel(r)
  \/ \E unknowns \in SUBSET Questions : ExtractRequirements(r, unknowns)
  \/ CompletenessCheck(r)
  \/ DraftApproach(r)
  \/ ApproachIncomplete(r)
  \/ ApproachPassed(r)
  \/ ApproachDelegated(r)
  \/ Ask(r, 1, "ask1", "cp1")
  \/ ApplyCp1(r)
  \/ ApplyDelegated(r)
  \/ DraftPackage(r)
  \/ DraftAnnexes(r)
  \/ \E lawful \in BOOLEAN : PackageGate(r, lawful)
  \/ Ask(r, 2, "ask2", "cp2")
  \/ ApplyCp2(r)
  \/ FinalizeOfficial(r)

UserStep(u) ==
  \/ VerifyIntake(u)
  \/ RejectIntake(u)
  \/ Amend(u)
  \/ Withdraw(u)
  \/ HandlerStops(u)
  \/ \E answers \in SUBSET listing : AnswerClarifications(u, answers)
  \/ \E r \in Runs : StartRun(u, r) \/ AutoRun(u, r) \/ Rerun(u, r)
  \/ \E r \in Runs, c \in Checkpoints, outcome \in {"approved", "rejected"} :
       Decide(u, r, c, outcome)

Next ==
  \/ \E r \in Runs : GraphStep(r) \/ RunDies(r)
  \/ \E u \in Users : UserStep(u)

Spec == Init /\ [][Next]_vars

-----------------------------------------------------------------------------
(* Properties *)

\* The run that sealed the official package was approved at CP2, and at CP1 or
\* by delegation within its policy, by people who hold the role the approval
\* matrix asks for that run's figures and who did not start the run: whatever
\* amendments, second runs and withdrawn checkpoints came in between.
OfficialIsApproved ==
  sealed # None =>
    LET r == sealed.run IN
    /\ \A c \in local[r].decisions :
         /\ request[r][c] = "approved"
         /\ approver[r][c] \in Deciders \cap MayApprove[local[r].figures][c]
         /\ approver[r][c] # local[r].actor
    /\ 2 \in local[r].decisions
    /\ \/ 1 \in local[r].decisions
       \/ local[r].delegated /\ Autonomous /\ local[r].figures \in LowValue

\* CP1 is reached only by a case whose intake somebody other than its creator
\* verified, with figures that meet the rule pack and no blocking question
\* left in the run: also when an amendment took a draft past verification.
Cp1NeedsIntake ==
  \A r \in Runs :
    request[r][1] # "unasked" \/ local[r].delegated =>
      /\ verified \in Users \ {Creator}
      /\ local[r].figures \in Sufficient
      /\ local[r].blocking = {}

Decisions == [r \in Runs |-> local[r].decisions]

Gated == INSTANCE GatedRun WITH NumGates <- 2, verdict <- request,
                                acted <- Decisions

\* The graph keeps the gate discipline of GatedRun in every run: a checkpoint
\* that was rejected or withdrawn is never acted upon and is the last one the
\* run asks, even while other runs of the same case go on.
KeepsGateDiscipline == Gated!Spec

\* A pending request that passed its gate has a card in the outbox, although
\* the idempotency key drops the cards of later runs and amendments withdraw
\* requests under the graph: unless, for some figures the case has had since
\* the run loaded it, nobody holds a role to be told (_notify_cp_approval).
PendingIsAnnounced ==
  \A r \in Runs, c \in Checkpoints :
    /\ request[r][c] = "pending"
    /\ c = 2 => local[r].gate2
    /\ \A f \in local[r].figures..figures : c \in Staffed[f]
    => \E s \in Runs : <<c, s>> \in cards

\* amend.py: leaving a checkpoint standing "would let a package be approved on
\* the strength of a card describing figures that are no longer in the case".
SealsWhatWasApproved ==
  sealed # None => local[sealed.run].figures = sealed.figures
=============================================================================
