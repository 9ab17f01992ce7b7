------------------------ MODULE PreparationCaseProofs ------------------------
(***************************************************************************)
(* Proofs about PreparationCase for any number of users, runs, questions   *)
(* and generations of figures: the inductive invariant, the three safety   *)
(* properties it implies, and the refinement of GatedRun.                  *)
(***************************************************************************)
EXTENDS PreparationCase, TLAPS

(* The inductive invariant *)

\* Nodes before anything is asked of a human.
Early ==
  {"idle", "load", "extract", "extracting", "complete", "approach", "gate1"}

\* Nodes between CP1 and CP2.
Late == {"package", "annexes", "gate2", "ask2"}

\* Somebody was told that the case is at checkpoint c.
Carded(c) == \E s \in Runs : <<c, s>> \in cards

\* Somebody could be told of checkpoint c, whichever figures the case had since
\* run r loaded it.
Reachable(r, c) == \A f \in local[r].figures..figures : c \in Staffed[f]

\* What a run carries as decided is what its requests say, decided by somebody
\* who was entitled to; and where a run stands tells which checkpoints it has
\* asked and applied.
RequestsSound(r) ==
  /\ \A c \in local[r].decisions : request[r][c] = "approved"
  /\ \A c \in Checkpoints : request[r][c] = "approved" =>
       /\ approver[r][c] \in Deciders \cap MayApprove[local[r].figures][c]
       /\ approver[r][c] # local[r].actor
  /\ at[r] \in Early \cup {"ask1", "auto1"} => request[r][1] = "unasked"
  /\ at[r] \in Early \cup {"ask1", "auto1", "cp1"} \cup Late =>
       request[r][2] = "unasked"
  /\ at[r] \in Early \cup {"ask1", "auto1", "cp1"} =>
       1 \notin local[r].decisions
  /\ at[r] = "cp2" => 2 \notin local[r].decisions
  /\ at[r] = "finalize" => 2 \in local[r].decisions
  /\ at[r] \in Late \cup {"cp2", "finalize"} =>
       1 \in local[r].decisions \/ local[r].delegated

\* A run past its approach gate has passed it, on an intake that was verified
\* when it was loaded and stays so; delegation is only within its policy; it
\* works on figures the case has or had; a run about to ask, or asking, has had
\* its card if somebody could be told.
GateSound(r) ==
  /\ at[r] \in Early \cup {"ask1", "cp1"} => ~local[r].delegated
  /\ at[r] = "auto1" => local[r].delegated
  /\ local[r].delegated =>
       /\ Autonomous
       /\ local[r].figures \in LowValue
       /\ request[r][1] = "unasked"
  /\ request[r][1] # "unasked" \/ local[r].delegated \/ at[r] = "ask1" =>
       ApproachGatePasses(r)
  /\ local[r].pr => verified \in Users \ {Creator}
  /\ local[r].figures <= figures
  /\ request[r][1] = "pending" \/ at[r] = "ask1" =>
       (Reachable(r, 1) => Carded(1))
  /\ request[r][2] = "pending" \/ at[r] = "ask2" =>
       (local[r].gate2 /\ Reachable(r, 2) => Carded(2))

\* The run that sealed the package is over and was approved.
CaseSound ==
  /\ verified \in (Users \ {Creator}) \cup {None}
  /\ sealed # None =>
       /\ at[sealed.run] = "end"
       /\ 2 \in local[sealed.run].decisions
       /\ 1 \in local[sealed.run].decisions \/ local[sealed.run].delegated

PInv ==
  /\ TypeOK
  /\ CaseSound
  /\ \A r \in Runs : RequestsSound(r) /\ GateSound(r)

-----------------------------------------------------------------------------
(* What a step has to show *)

\* Everything but the graph state of runs and their requests.
CaseTyped ==
  /\ state \in CaseState
  /\ figures \in Figures
  /\ verified \in Users \cup {None}
  /\ sealed \in Manifest \cup {None}
  /\ snapshot \in (SUBSET Questions) \cup {None}
  /\ listing \in SUBSET Questions
  /\ latest \in SUBSET Questions
  /\ answered \in SUBSET Questions
  /\ cards \in SUBSET (Checkpoints \X Runs)
  /\ handler \in [Users -> {"idle", "autorun", "withdraw", "rerun"}]

RunsTyped ==
  /\ at \in [Runs -> Node]
  /\ local \in [Runs -> Local]
  /\ request \in [Runs -> [Checkpoints ->
       {"unasked", "pending", "approved", "rejected", "cancelled"}]]
  /\ approver \in [Runs -> [Checkpoints -> Users \cup {None}]]

LEMMA TypeParts == TypeOK <=> CaseTyped /\ RunsTyped
  BY DEF TypeOK, CaseTyped, RunsTyped

\* Verification, once given, is never taken back, and figures only grow.
GoesForward ==
  /\ figures <= figures'
  /\ verified' \in (Users \ {Creator}) \cup {None}
  /\ verified \in Users \ {Creator} => verified' \in Users \ {Creator}

\* More figures ask for more roles.
LEMMA ReachableBefore ==
  ASSUME NEW s \in Runs, NEW c, figures \in Nat, figures' \in Nat,
         local[s].figures \in Nat, figures <= figures',
         local'[s].figures = local[s].figures, Reachable(s, c)'
  PROVE  Reachable(s, c)
  <1> SUFFICES ASSUME NEW f \in local[s].figures..figures PROVE c \in Staffed[f]
    BY DEF Reachable
  <1>1. f \in local'[s].figures..figures'
    OBVIOUS
  <1> QED BY <1>1 DEF Reachable

\* Figures are numbers.
LEMMA FiguresAreNumbers ==
  ASSUME CaseTyped, RunsTyped, NEW s \in Runs
  PROVE  figures \in Nat /\ local[s].figures \in Nat
  <1>1. \A f : f \in Figures => f \in Nat
    BY ConstantsAssumption DEF Figures
  <1>2. local[s].figures \in Figures \cup {0}
    BY DEF RunsTyped, Local
  <1>3. figures \in Figures
    BY DEF CaseTyped
  <1>4. 0 \in Nat
    OBVIOUS
  <1> QED BY <1>1, <1>2, <1>3, <1>4

\* A run a step does not touch stays sound.
LEMMA OtherRunSound ==
  ASSUME PInv, CaseTyped', NEW s \in Runs, GoesForward,
         at'[s] = at[s], local'[s] = local[s], request'[s] = request[s],
         approver'[s] = approver[s], cards \subseteq cards'
  PROVE  RequestsSound(s)' /\ GateSound(s)'
  <1>0. RequestsSound(s) /\ GateSound(s) /\ figures <= figures'
        /\ figures \in Nat /\ figures' \in Nat /\ local[s].figures \in Nat
    <2>1. CaseTyped /\ RunsTyped
      BY TypeParts DEF PInv
    <2>2. figures' \in Nat
      BY ConstantsAssumption DEF CaseTyped, Figures
    <2> QED BY <2>1, <2>2, FiguresAreNumbers DEF PInv, GoesForward
  <1>1. RequestsSound(s)'
    BY <1>0 DEF RequestsSound
  <1>2. Carded(1) => Carded(1)'
    BY DEF Carded
  <1>3. Carded(2) => Carded(2)'
    BY DEF Carded
  <1>4. ApproachGatePasses(s) => ApproachGatePasses(s)'
    BY DEF ApproachGatePasses
  <1>5. (Reachable(s, 1)' => Reachable(s, 1))
        /\ (Reachable(s, 2)' => Reachable(s, 2))
    BY <1>0, ReachableBefore
  <1>6. local'[s].figures <= figures'
    BY <1>0 DEF GateSound
  <1>7. GateSound(s)'
    BY <1>0, <1>2, <1>3, <1>4, <1>5, <1>6 DEF GateSound, GoesForward
  <1> QED BY <1>1, <1>7

\* A step of one run, which is not over, or whose place and state it keeps.
LEMMA OneRunMoves ==
  ASSUME PInv, NEW r \in Runs, GoesForward, sealed' = sealed,
         cards \subseteq cards', CaseTyped', RunsTyped',
         at[r] = "end" => at'[r] = at[r] /\ local'[r] = local[r],
         \A s \in Runs : s # r =>
           /\ at'[s] = at[s]
           /\ local'[s] = local[s]
           /\ request'[s] = request[s]
           /\ approver'[s] = approver[s],
         RequestsSound(r)', GateSound(r)'
  PROVE  PInv'
  <1>1. TypeOK'
    BY TypeParts DEF TypeOK, CaseTyped, RunsTyped
  <1>2. CaseSound'
    <2>1. sealed # None => sealed.run \in Runs
      BY DEF PInv, TypeOK, Manifest
    <2>2. sealed # None => at'[sealed.run] = at[sealed.run]
                             /\ local'[sealed.run] = local[sealed.run]
      BY <2>1 DEF PInv, CaseSound
    <2> QED BY <2>2 DEF PInv, CaseSound, GoesForward
  <1>3. ASSUME NEW s \in Runs PROVE RequestsSound(s)' /\ GateSound(s)'
    <2>1. CASE s = r
      BY <2>1
    <2>2. CASE s # r
      BY <2>2, OtherRunSound DEF PInv
    <2> QED BY <2>1, <2>2
  <1> QED BY <1>1, <1>2, <1>3 DEF PInv

\* A step of the case, or of a handler, that no run takes part in.
LEMMA NoRunMoves ==
  ASSUME PInv, GoesForward, sealed' = sealed, cards' = cards, CaseTyped',
         UNCHANGED <<at, local, request, approver>>
  PROVE  PInv'
  <1>1. TypeOK'
    BY DEF PInv, TypeOK, CaseTyped
  <1>2. CaseSound'
    BY DEF PInv, CaseSound, GoesForward
  <1>3. ASSUME NEW s \in Runs PROVE RequestsSound(s)' /\ GateSound(s)'
    BY OtherRunSound DEF PInv
  <1> QED BY <1>1, <1>2, <1>3 DEF PInv

\* Verification and figures do not change in most steps.
LEMMA VerifiedKept ==
  ASSUME PInv, verified' = verified, figures' = figures
  PROVE  GoesForward
  <1>1. figures \in Nat
    BY ConstantsAssumption DEF PInv, TypeOK, Figures
  <1> QED BY <1>1 DEF PInv, CaseSound, GoesForward

\* A run goes to another node.
LEMMA AtUpdate ==
  ASSUME RunsTyped, NEW r \in Runs, NEW n \in Node, Goto(r, n)
  PROVE  /\ at' \in [Runs -> Node]
         /\ at'[r] = n
         /\ \A s \in Runs : s # r => at'[s] = at[s]
  BY DEF RunsTyped, Goto

\* A run gets another graph state.
LEMMA LocalUpdate ==
  ASSUME RunsTyped, NEW r \in Runs, NEW l \in Local,
         local' = [local EXCEPT ![r] = l]
  PROVE  /\ local' \in [Runs -> Local]
         /\ local'[r] = l
         /\ \A s \in Runs : s # r => local'[s] = local[s]
  BY DEF RunsTyped

\* The parts of a run's graph state and requests, in a state that is typed.
LEMMA RunParts ==
  ASSUME RunsTyped, NEW r \in Runs
  PROVE  /\ local[r] \in Local
         /\ at[r] \in Node
         /\ request[r][1] \in
              {"unasked", "pending", "approved", "rejected", "cancelled"}
         /\ request[r][2] \in
              {"unasked", "pending", "approved", "rejected", "cancelled"}
         /\ local[r].decisions \subseteq {1, 2}
         /\ local[r].delegated \in BOOLEAN
         /\ local[r].pr \in BOOLEAN
         /\ local[r].gate2 \in BOOLEAN
  <1>1. Checkpoints = {1, 2}
    BY DEF Checkpoints
  <1> QED BY <1>1 DEF RunsTyped, Local

-----------------------------------------------------------------------------
(* The handlers *)

LEMMA TypedInv == PInv => CaseTyped /\ RunsTyped
  BY TypeParts DEF PInv

LEMMA InitPInv == Init => PInv
  <1> SUFFICES ASSUME Init PROVE PInv
    OBVIOUS
  <1> USE DEF Init
  <1>1. NoLocal \in Local
    BY DEF NoLocal, Local
  <1>2. CaseTyped
    BY ConstantsAssumption DEF CaseTyped, CaseState, Figures
  <1>3. RunsTyped
    BY <1>1 DEF RunsTyped, Node
  <1>4. CaseSound
    BY DEF CaseSound
  <1>5. ASSUME NEW r \in Runs PROVE RequestsSound(r) /\ GateSound(r)
    <2>1. /\ at[r] = "idle" /\ local[r] = NoLocal
          /\ request[r] = [c \in Checkpoints |-> "unasked"]
      OBVIOUS
    <2>2. request[r][1] = "unasked" /\ request[r][2] = "unasked"
      BY <2>1 DEF Checkpoints
    <2>3. RequestsSound(r)
      BY <2>1, <2>2 DEF RequestsSound, NoLocal, Late
    <2>4. GateSound(r)
      BY <2>1, <2>2 DEF GateSound, NoLocal
    <2> QED BY <2>3, <2>4
  <1> QED BY <1>2, <1>3, <1>4, <1>5, TypeParts DEF PInv

LEMMA VerifyIntakePInv ==
  ASSUME PInv, NEW u \in Users, VerifyIntake(u) \/ RejectIntake(u)
  PROVE  PInv'
  <1> USE DEF VerifyIntake, RejectIntake, artifactVars, requestVars
  <1>1. GoesForward
    <2>1. figures \in Nat
      BY ConstantsAssumption DEF PInv, TypeOK, Figures
    <2> QED BY <2>1 DEF PInv, CaseSound, GoesForward
  <1>2. CaseTyped'
    BY TypedInv DEF CaseTyped, CaseState
  <1> QED BY <1>1, <1>2, NoRunMoves

LEMMA AnswerPInv ==
  ASSUME PInv, NEW u \in Users, NEW answers \in SUBSET listing,
         AnswerClarifications(u, answers)
  PROVE  PInv'
  <1> USE DEF AnswerClarifications, requestVars
  <1>1. answers \in SUBSET Questions
    BY TypedInv DEF CaseTyped
  <1>2. CaseTyped'
    BY <1>1, TypedInv DEF CaseTyped, CaseState
  <1> QED BY <1>2, VerifiedKept, NoRunMoves

LEMMA AmendPInv ==
  ASSUME PInv, NEW u \in Users, Amend(u)
  PROVE  PInv'
  <1> USE DEF Amend, requestVars
  <1>1. figures' \in Figures
    BY ConstantsAssumption, TypedInv DEF CaseTyped, Figures
  <1>2. CaseTyped'
    BY <1>1, TypedInv DEF CaseTyped, CaseState
  <1>3. GoesForward
    <2>1. figures \in Nat
      BY ConstantsAssumption DEF PInv, TypeOK, Figures
    <2> QED BY <2>1 DEF PInv, CaseSound, GoesForward
  <1> QED BY <1>2, <1>3, NoRunMoves

LEMMA HandlerStopsPInv ==
  ASSUME PInv, NEW u \in Users, HandlerStops(u)
  PROVE  PInv'
  <1> USE DEF HandlerStops, caseVars, artifactVars, requestVars
  <1>1. CaseTyped'
    BY TypedInv DEF CaseTyped
  <1> QED BY <1>1, VerifiedKept, NoRunMoves

\* Withdrawal turns what is pending into cancelled, which no run carries as
\* decided and which needs no card.
LEMMA WithdrawPInv ==
  ASSUME PInv, NEW u \in Users, Withdraw(u)
  PROVE  PInv'
  <1> USE DEF Withdraw, caseVars, artifactVars
  <1>1. /\ \A r \in Runs, c \in Checkpoints :
             request'[r][c] = IF request[r][c] = "pending" THEN "cancelled"
                              ELSE request[r][c]
        /\ request' \in [Runs -> [Checkpoints ->
             {"unasked", "pending", "approved", "rejected", "cancelled"}]]
    BY TypedInv DEF RunsTyped
  <1>2. CaseTyped' /\ RunsTyped'
    BY <1>1, TypedInv DEF CaseTyped, RunsTyped
  <1>3. CaseSound'
    BY DEF PInv, CaseSound
  <1>4. ASSUME NEW r \in Runs PROVE RequestsSound(r)' /\ GateSound(r)'
    <2>1. RequestsSound(r) /\ GateSound(r)
      BY DEF PInv
    <2>2. 1 \in Checkpoints /\ 2 \in Checkpoints
      BY DEF Checkpoints
    <2>3. local[r].decisions \subseteq Checkpoints
      BY TypedInv DEF RunsTyped, Local
    <2>4. RequestsSound(r)'
      BY <1>1, <2>1, <2>2, <2>3 DEF RequestsSound
    <2>5. /\ Carded(1)' = Carded(1) /\ Carded(2)' = Carded(2)
          /\ Reachable(r, 1)' = Reachable(r, 1)
          /\ Reachable(r, 2)' = Reachable(r, 2)
      BY DEF Carded, Reachable
    <2>6. GateSound(r)'
      BY <1>1, <2>1, <2>2, <2>5 DEF GateSound, ApproachGatePasses
    <2> QED BY <2>4, <2>6
  <1> QED BY <1>2, <1>3, <1>4, TypeParts DEF PInv, TypeOK, CaseTyped, RunsTyped

\* Every way a run begins: its graph state is new but for the actor.
LEMMA BeginRunPInv ==
  ASSUME PInv, NEW r \in Runs, NEW actor \in Users, BeginRun(r, actor),
         handler' \in [Users -> {"idle", "autorun", "withdraw", "rerun"}]
  PROVE  PInv'
  <1> USE DEF BeginRun, artifactVars, requestVars
  <1> DEFINE l == [local[r] EXCEPT !.actor = actor]
  <1>1. RunsTyped /\ CaseTyped /\ local[r] \in Local
        /\ RequestsSound(r) /\ GateSound(r)
    BY TypedInv DEF RunsTyped, PInv
  <1>2. l \in Local
    BY <1>1 DEF Local
  <1>3. local' = [local EXCEPT ![r] = l]
    OBVIOUS
  <1>4. /\ l.figures = local[r].figures /\ l.pr = local[r].pr
        /\ l.blocking = local[r].blocking /\ l.delegated = local[r].delegated
        /\ l.gate2 = local[r].gate2 /\ l.decisions = local[r].decisions
    BY <1>1 DEF Local
  <1> HIDE DEF l
  <1>5. /\ at' \in [Runs -> Node] /\ at'[r] = "load"
        /\ \A s \in Runs : s # r => at'[s] = at[s]
    BY <1>1, AtUpdate DEF Goto, Node
  <1>6. /\ local' \in [Runs -> Local] /\ local'[r] = l
        /\ \A s \in Runs : s # r => local'[s] = local[s]
    BY <1>1, <1>2, <1>3, LocalUpdate
  <1>7. CaseTyped' /\ RunsTyped'
    BY <1>1, <1>5, <1>6 DEF CaseTyped, RunsTyped, CaseState
  <1>8. RequestsSound(r)'
    <2>1. request[r][1] = "unasked" /\ request[r][2] = "unasked"
      BY <1>1 DEF RequestsSound, Early
    <2>2. \A c \in Checkpoints : request[r][c] = "unasked"
      BY <2>1 DEF Checkpoints
    <2>3. l.decisions \subseteq Checkpoints
      BY <1>2 DEF Local
    <2>4. \A c \in l.decisions : request[r][c] = "approved"
      BY <1>1, <1>4 DEF RequestsSound
    <2> QED BY <2>1, <2>2, <2>3, <2>4, <1>5, <1>6 DEF RequestsSound, Early, Late
  <1>9. GateSound(r)'
    <2>1. request[r][1] = "unasked" /\ request[r][2] = "unasked"
      BY <1>1 DEF RequestsSound, Early
    <2>2. ~local[r].delegated
      BY <1>1 DEF GateSound, Early
    <2> QED BY <1>1, <2>1, <2>2, <1>4, <1>5, <1>6 DEF GateSound, Early
  <1>10. GoesForward
    BY VerifiedKept
  <1> QED BY <1>5, <1>6, <1>7, <1>8, <1>9, <1>10, OneRunMoves

LEMMA StartPInv ==
  ASSUME PInv, NEW u \in Users, NEW r \in Runs,
         StartRun(u, r) \/ AutoRun(u, r) \/ Rerun(u, r)
  PROVE  PInv'
  <1>1. handler' \in [Users -> {"idle", "autorun", "withdraw", "rerun"}]
    BY TypedInv DEF CaseTyped, StartRun, AutoRun, Rerun
  <1>2. BeginRun(r, u) \/ BeginRun(r, Creator)
    BY DEF StartRun, AutoRun, Rerun
  <1> QED BY <1>1, <1>2, BeginRunPInv, ConstantsAssumption

-----------------------------------------------------------------------------
(* The graph *)

\* A run that moves and keeps its graph state and requests: what is left to
\* show is that it may stand where it goes.
LEMMA PlaceMoves ==
  ASSUME PInv, NEW r \in Runs, NEW n \in Node, Goto(r, n), at[r] # "end",
         UNCHANGED <<figures, verified, sealed, local, request, approver>>,
         cards \subseteq cards', CaseTyped',
         RequestsSound(r)', GateSound(r)'
  PROVE  PInv'
  <1>1. RunsTyped /\ RunsTyped'
    BY TypedInv, AtUpdate DEF RunsTyped
  <1>2. /\ at'[r] = n
        /\ \A s \in Runs : s # r => at'[s] = at[s]
    BY <1>1, AtUpdate
  <1> QED BY <1>1, <1>2, VerifiedKept, OneRunMoves

\* Before the gate, after it towards CP2, and out of the run.
LEMMA QuietMovePInv ==
  ASSUME PInv, NEW r \in Runs, NEW n \in Node, Goto(r, n),
         UNCHANGED <<figures, verified, sealed, cards, local, request, approver>>,
         CaseTyped',
         \/ at[r] \in Early /\ n \in Early
         \/ at[r] = "auto1" /\ n = "package"
         \/ at[r] \in Late /\ n \in Late
         \/ /\ at[r] # "end"
            /\ n \in {"end", "dead"}
            /\ \A c \in Checkpoints : request[r][c] # "pending"
         \/ /\ at[r] # "end"
            /\ n = "end"
            /\ at[r] \in Early \cup {"cp1", "cp2"},
         n = "ask2" => Carded(2) \/ ~local[r].gate2
  PROVE  PInv'
  <1>1. /\ RunsTyped /\ at'[r] = n /\ RequestsSound(r) /\ GateSound(r)
    BY TypedInv, AtUpdate DEF PInv
  <1>2. at[r] # "end"
    BY DEF Early, Late
  <1>3. /\ Carded(1)' = Carded(1) /\ Carded(2)' = Carded(2)
        /\ Reachable(r, 1)' = Reachable(r, 1)
        /\ Reachable(r, 2)' = Reachable(r, 2)
        /\ ApproachGatePasses(r)' = ApproachGatePasses(r)
    BY DEF Carded, Reachable, ApproachGatePasses
  <1>4. RequestsSound(r)'
    <2>1. at[r] = "auto1" => local[r].delegated
      BY <1>1 DEF GateSound
    <2> QED BY <1>1, <2>1 DEF RequestsSound, Early, Late
  <1>5. GateSound(r)'
    BY <1>1, <1>3 DEF GateSound, Early, Late, RequestsSound
  <1> QED BY <1>2, <1>4, <1>5, PlaceMoves

\* A run before its approach gate that gets another graph state, its decisions
\* untouched.
LEMMA LoadMovePInv ==
  ASSUME PInv, NEW r \in Runs, at[r] \in Early, NEW n \in Early, Goto(r, n),
         NEW l \in Local, local' = [local EXCEPT ![r] = l],
         l.decisions = local[r].decisions,
         l.delegated = local[r].delegated,
         l.pr => verified \in Users \ {Creator},
         l.figures <= figures,
         UNCHANGED <<figures, verified, sealed, cards, request, approver>>,
         CaseTyped'
  PROVE  PInv'
  <1>1. /\ RunsTyped /\ CaseTyped /\ RequestsSound(r) /\ GateSound(r)
    BY TypedInv DEF PInv
  <1>2. /\ at' \in [Runs -> Node] /\ at'[r] = n
        /\ \A s \in Runs : s # r => at'[s] = at[s]
    BY <1>1, AtUpdate DEF Early, Node
  <1>3. /\ local' \in [Runs -> Local] /\ local'[r] = l
        /\ \A s \in Runs : s # r => local'[s] = local[s]
    BY <1>1, LocalUpdate
  <1>4. RunsTyped'
    BY <1>1, <1>2, <1>3 DEF RunsTyped
  <1>5. request[r][1] = "unasked" /\ request[r][2] = "unasked"
    BY <1>1 DEF RequestsSound
  <1>6. RequestsSound(r)'
    <2>1. \A c \in Checkpoints : request[r][c] = "unasked"
      BY <1>5 DEF Checkpoints
    <2>2. \A c \in l.decisions : request[r][c] = "approved"
      BY <1>1 DEF RequestsSound
    <2>3. 1 \notin l.decisions
      BY <1>1 DEF RequestsSound
    <2> QED BY <1>2, <1>3, <1>5, <2>1, <2>2, <2>3 DEF RequestsSound, Early, Late
  <1>7. GateSound(r)'
    <2>1. ~l.delegated
      BY <1>1 DEF GateSound
    <2> QED BY <1>2, <1>3, <1>5, <2>1 DEF GateSound, Early
  <1>8. at[r] # "end"
    BY DEF Early
  <1> QED BY <1>2, <1>3, <1>4, <1>6, <1>7, <1>8, VerifiedKept, OneRunMoves

LEMMA LoadCasePInv ==
  ASSUME PInv, NEW r \in Runs, LoadCase(r)
  PROVE  PInv'
  <1> USE DEF LoadCase, caseVars, artifactVars, requestVars
  <1> DEFINE l == [local[r] EXCEPT !.figures = figures,
                                   !.pr = verified # None,
                                   !.answers = latest]
  <1>1. CaseTyped /\ local[r] \in Local /\ RunsTyped
    BY TypedInv DEF RunsTyped
  <1>2. l \in Local
    BY <1>1 DEF Local, CaseTyped
  <1>3. local' = [local EXCEPT ![r] = l]
    BY <1>1 DEF RunsTyped
  <1>4. l.decisions = local[r].decisions /\ l.delegated = local[r].delegated
        /\ (l.pr <=> verified # None) /\ l.figures = figures
    BY <1>1 DEF Local
  <1> HIDE DEF l
  <1>5. l.pr => verified \in Users \ {Creator}
    BY <1>4 DEF PInv, CaseSound
  <1>6. CaseTyped' /\ l.figures <= figures
    BY <1>1, <1>4, FiguresAreNumbers DEF CaseTyped
  <1> QED BY <1>2, <1>3, <1>4, <1>5, <1>6, LoadMovePInv DEF Early

\* What was found missing, whether it is read from the snapshot or asked anew.
LEMMA ExtractPInv ==
  ASSUME PInv, NEW r \in Runs, NEW unknowns \in SUBSET Questions,
         ReuseSnapshot(r) \/ ExtractRequirements(r, unknowns)
  PROVE  PInv'
  <1> USE DEF ReuseSnapshot, ExtractRequirements, caseVars, artifactVars,
              requestVars
  <1>1. CaseTyped /\ local[r] \in Local
    BY TypedInv DEF RunsTyped
  <1>2. PICK q \in SUBSET Questions :
          local' = [local EXCEPT ![r].questions = q]
    BY <1>1 DEF CaseTyped
  <1> DEFINE l == [local[r] EXCEPT !.questions = q]
  <1>3. l \in Local
    BY <1>1 DEF Local
  <1>4. local' = [local EXCEPT ![r] = l]
    BY <1>2
  <1>5. l.decisions = local[r].decisions /\ l.delegated = local[r].delegated
        /\ l.pr = local[r].pr /\ l.figures = local[r].figures
    BY <1>1 DEF Local
  <1> HIDE DEF l
  <1>6. (l.pr => verified \in Users \ {Creator}) /\ l.figures <= figures
    BY <1>5 DEF PInv, GateSound
  <1>7. CaseTyped'
    BY <1>1 DEF CaseTyped
  <1> QED BY <1>3, <1>4, <1>5, <1>6, <1>7, LoadMovePInv DEF Early

LEMMA CompletenessPInv ==
  ASSUME PInv, NEW r \in Runs, CompletenessCheck(r)
  PROVE  PInv'
  <1> USE DEF CompletenessCheck, requestVars
  <1> DEFINE open == local[r].questions \ local[r].answers
             l == [local[r] EXCEPT !.blocking = open]
  <1>1. CaseTyped /\ local[r] \in Local
    BY TypedInv DEF RunsTyped
  <1>2. open \in SUBSET Questions
    BY <1>1 DEF Local
  <1>3. l \in Local
    BY <1>1, <1>2 DEF Local
  <1>4. local' = [local EXCEPT ![r] = l]
    OBVIOUS
  <1>5. l.decisions = local[r].decisions /\ l.delegated = local[r].delegated
        /\ l.pr = local[r].pr /\ l.figures = local[r].figures
    BY <1>1 DEF Local
  <1>6. CaseTyped'
    BY <1>1, <1>2 DEF CaseTyped, CaseState
  <1> HIDE DEF l
  <1>7. (l.pr => verified \in Users \ {Creator}) /\ l.figures <= figures
    BY <1>5 DEF PInv, GateSound
  <1> QED BY <1>3, <1>4, <1>5, <1>6, <1>7, LoadMovePInv DEF Early

LEMMA QuietNodesPInv ==
  ASSUME PInv, NEW r \in Runs,
         \/ AskModel(r) \/ DraftApproach(r) \/ ApproachIncomplete(r)
         \/ ApplyDelegated(r) \/ DraftPackage(r) \/ DraftAnnexes(r)
         \/ RunDies(r)
  PROVE  PInv'
  <1> USE DEF caseVars, artifactVars, requestVars, Node, Early, Late
  <1>1. CaseTyped
    BY TypedInv
  <1>2. CASE AskModel(r)
    BY <1>1, <1>2, QuietMovePInv DEF AskModel, CaseTyped
  <1>3. CASE DraftApproach(r)
    <2>1. CaseTyped'
      BY <1>1, <1>3 DEF DraftApproach, CaseTyped, CaseState
    <2> QED BY <2>1, <1>3, QuietMovePInv DEF DraftApproach
  <1>4. CASE ApproachIncomplete(r)
    <2>1. CaseTyped'
      BY <1>1, <1>4 DEF ApproachIncomplete, CaseTyped, CaseState
    <2> QED BY <2>1, <1>4, QuietMovePInv DEF ApproachIncomplete
  <1>5. CASE ApplyDelegated(r)
    <2>1. CaseTyped'
      BY <1>1, <1>5 DEF ApplyDelegated, CaseTyped, CaseState
    <2> QED BY <2>1, <1>5, QuietMovePInv DEF ApplyDelegated
  <1>6. CASE DraftPackage(r)
    <2>1. CaseTyped'
      BY <1>1, <1>6 DEF DraftPackage, CaseTyped, CaseState
    <2> QED BY <2>1, <1>6, QuietMovePInv DEF DraftPackage
  <1>7. CASE DraftAnnexes(r)
    BY <1>1, <1>7, QuietMovePInv DEF DraftAnnexes, CaseTyped
  <1>8. CASE RunDies(r)
    BY <1>1, <1>8, QuietMovePInv DEF RunDies, CaseTyped
  <1> QED BY <1>2, <1>3, <1>4, <1>5, <1>6, <1>7, <1>8

\* The card of a checkpoint is there once the gate has enqueued it.
LEMMA CardIsThere ==
  ASSUME PInv, NEW r \in Runs, NEW c \in Checkpoints, EnqueueCard(c, r)
  PROVE  /\ c \in Staffed[figures] => Carded(c)'
         /\ cards \subseteq cards'
         /\ cards' \in SUBSET (Checkpoints \X Runs)
  <1>1. cards \in SUBSET (Checkpoints \X Runs)
    BY TypedInv DEF CaseTyped
  <1>2. CASE c \notin Staffed[figures] \/ \E s \in Runs : <<c, s>> \in cards
    BY <1>1, <1>2 DEF EnqueueCard, Carded
  <1>3. CASE c \in Staffed[figures] /\ ~\E s \in Runs : <<c, s>> \in cards
    <2>1. cards' = cards \cup {<<c, r>>}
      BY <1>3 DEF EnqueueCard
    <2>2. <<c, r>> \in cards' /\ <<c, r>> \in Checkpoints \X Runs
      BY <2>1
    <2> QED BY <1>1, <2>1, <2>2 DEF Carded
  <1> QED BY <1>2, <1>3

LEMMA ApproachPassedPInv ==
  ASSUME PInv, NEW r \in Runs, ApproachPassed(r)
  PROVE  PInv'
  <1> USE DEF ApproachPassed, artifactVars, requestVars
  <1>1. CaseTyped /\ RunsTyped /\ RequestsSound(r) /\ GateSound(r)
    BY TypedInv DEF PInv
  <1>2. /\ 1 \in Staffed[figures] => Carded(1)'
        /\ cards \subseteq cards'
        /\ cards' \in SUBSET (Checkpoints \X Runs)
    BY CardIsThere DEF Checkpoints
  <1>3. CaseTyped'
    BY <1>1, <1>2 DEF CaseTyped, CaseState
  <1>4. at'[r] = "ask1"
    BY <1>1, AtUpdate DEF Node
  <1>5. RequestsSound(r)'
    BY <1>1, <1>4 DEF RequestsSound, Early, Late
  <1>6. GateSound(r)'
    <2>1. request[r][1] = "unasked" /\ request[r][2] = "unasked" /\ ~local[r].delegated
      BY <1>1 DEF RequestsSound, GateSound, Early
    <2>2. ApproachGatePasses(r)'
      BY DEF ApproachGatePasses
    <2>3. Reachable(r, 1)' => 1 \in Staffed[figures]
      <3>1. figures \in local[r].figures..figures
        BY <1>1, FiguresAreNumbers DEF GateSound
      <3> QED BY <3>1 DEF Reachable
    <2> QED BY <1>1, <1>2, <1>4, <2>1, <2>2, <2>3 DEF GateSound, Early
  <1>7. "ask1" \in Node
    BY DEF Node
  <1> QED BY <1>2, <1>3, <1>5, <1>6, <1>7, PlaceMoves

\* Delegation skips the question, within its policy.
LEMMA ApproachDelegatedPInv ==
  ASSUME PInv, NEW r \in Runs, ApproachDelegated(r)
  PROVE  PInv'
  <1> USE DEF ApproachDelegated, artifactVars, requestVars
  <1> DEFINE l == [local[r] EXCEPT !.delegated = TRUE]
  <1>1. CaseTyped /\ RunsTyped /\ local[r] \in Local
        /\ RequestsSound(r) /\ GateSound(r)
    BY TypedInv DEF PInv, RunsTyped
  <1>2. l \in Local
    BY <1>1 DEF Local
  <1>3. local' = [local EXCEPT ![r] = l]
    OBVIOUS
  <1>4. /\ l.figures = local[r].figures /\ l.pr = local[r].pr
        /\ l.blocking = local[r].blocking /\ l.delegated = TRUE
        /\ l.decisions = local[r].decisions
    BY <1>1 DEF Local
  <1> HIDE DEF l
  <1>5. /\ at' \in [Runs -> Node] /\ at'[r] = "auto1"
        /\ \A s \in Runs : s # r => at'[s] = at[s]
    BY <1>1, AtUpdate DEF Node
  <1>6. /\ local' \in [Runs -> Local] /\ local'[r] = l
        /\ \A s \in Runs : s # r => local'[s] = local[s]
    BY <1>1, <1>2, <1>3, LocalUpdate
  <1>7. CaseTyped' /\ RunsTyped'
    BY <1>1, <1>5, <1>6 DEF CaseTyped, RunsTyped, CaseState
  <1>8. request[r][1] = "unasked" /\ request[r][2] = "unasked"
    BY <1>1 DEF RequestsSound, Early
  <1>9. RequestsSound(r)'
    <2>1. \A c \in Checkpoints : request[r][c] = "unasked"
      BY <1>8 DEF Checkpoints
    <2>2. \A c \in l.decisions : request[r][c] = "approved"
      BY <1>1, <1>4 DEF RequestsSound
    <2>3. 1 \notin l.decisions
      BY <1>1, <1>4 DEF RequestsSound, Early
    <2> QED BY <1>5, <1>6, <1>8, <2>1, <2>2, <2>3 DEF RequestsSound, Early, Late
  <1>10. GateSound(r)'
    <2>1. ApproachGatePasses(r)'
      BY <1>4, <1>6 DEF ApproachGatePasses
    <2>2. (l.pr => verified \in Users \ {Creator}) /\ l.figures <= figures
      BY <1>1, <1>4 DEF GateSound
    <2> QED BY <1>4, <1>5, <1>6, <1>8, <2>1, <2>2 DEF GateSound, Early
  <1>11. at[r] # "end"
    OBVIOUS
  <1> QED BY <1>5, <1>6, <1>7, <1>9, <1>10, <1>11, VerifiedKept, OneRunMoves

\* What a change of one request leaves of the others.
LEMMA RequestUpdate ==
  ASSUME RunsTyped, NEW r \in Runs, NEW c \in Checkpoints,
         NEW v \in {"pending", "approved", "rejected"},
         request' = [request EXCEPT ![r][c] = v]
  PROVE  /\ request' \in [Runs -> [Checkpoints ->
              {"unasked", "pending", "approved", "rejected", "cancelled"}]]
         /\ request'[r][c] = v
         /\ \A d \in Checkpoints : d # c => request'[r][d] = request[r][d]
         /\ \A s \in Runs : s # r => request'[s] = request[s]
  BY DEF RunsTyped

LEMMA AskPInv ==
  ASSUME PInv, NEW r \in Runs,
         Ask(r, 1, "ask1", "cp1") \/ Ask(r, 2, "ask2", "cp2")
  PROVE  PInv'
  <1> USE DEF Ask, caseVars, artifactVars
  <1>1. CaseTyped /\ RunsTyped /\ RequestsSound(r) /\ GateSound(r)
        /\ 1 \in Checkpoints /\ 2 \in Checkpoints /\ Checkpoints = {1, 2}
    BY TypedInv DEF PInv, Checkpoints
  <1>2. PICK c \in Checkpoints, n \in {"cp1", "cp2"} :
          /\ \/ c = 1 /\ n = "cp1" /\ at[r] = "ask1"
             \/ c = 2 /\ n = "cp2" /\ at[r] = "ask2"
          /\ Goto(r, n)
          /\ request' = [request EXCEPT ![r][c] = "pending"]
    BY <1>1
  <1>3. /\ at' \in [Runs -> Node] /\ at'[r] = n
        /\ \A s \in Runs : s # r => at'[s] = at[s]
    BY <1>1, <1>2, AtUpdate DEF Node
  <1>4. /\ request' \in [Runs -> [Checkpoints ->
              {"unasked", "pending", "approved", "rejected", "cancelled"}]]
        /\ request'[r][c] = "pending"
        /\ \A d \in Checkpoints : d # c => request'[r][d] = request[r][d]
        /\ \A s \in Runs : s # r => request'[s] = request[s]
    BY <1>1, <1>2, RequestUpdate
  <1>5. CaseTyped' /\ RunsTyped'
    BY <1>1, <1>3, <1>4 DEF CaseTyped, RunsTyped
  <1>6. request[r][c] = "unasked" /\ c \notin local[r].decisions
    BY <1>1, <1>2 DEF RequestsSound, Early, Late
  <1>7. local[r].decisions \subseteq Checkpoints
    BY <1>1 DEF RunsTyped, Local
  <1>8. RequestsSound(r)'
    BY <1>1, <1>2, <1>3, <1>4, <1>6, <1>7 DEF RequestsSound, Early, Late
  <1>9. /\ Carded(1)' = Carded(1) /\ Carded(2)' = Carded(2)
        /\ Reachable(r, 1)' = Reachable(r, 1)
        /\ Reachable(r, 2)' = Reachable(r, 2)
        /\ ApproachGatePasses(r)' = ApproachGatePasses(r)
    BY DEF Carded, Reachable, ApproachGatePasses
  <1>10. GateSound(r)'
    BY <1>1, <1>2, <1>3, <1>4, <1>9 DEF GateSound, Early
  <1>11. at[r] # "end"
    BY <1>2
  <1> QED BY <1>3, <1>4, <1>5, <1>8, <1>10, <1>11, VerifiedKept, OneRunMoves

\* A decision, by somebody who is entitled to it.
LEMMA DecidePInv ==
  ASSUME PInv, NEW u \in Users, NEW r \in Runs, NEW c \in Checkpoints,
         NEW outcome \in {"approved", "rejected"}, Decide(u, r, c, outcome)
  PROVE  PInv'
  <1> USE DEF Decide, caseVars, artifactVars
  <1>1. CaseTyped /\ RunsTyped /\ RequestsSound(r) /\ GateSound(r)
        /\ 1 \in Checkpoints /\ 2 \in Checkpoints
    BY TypedInv DEF PInv, Checkpoints
  <1>2. /\ request' \in [Runs -> [Checkpoints ->
              {"unasked", "pending", "approved", "rejected", "cancelled"}]]
        /\ request'[r][c] = outcome
        /\ \A d \in Checkpoints : d # c => request'[r][d] = request[r][d]
        /\ \A s \in Runs : s # r => request'[s] = request[s]
    <2>1. outcome \in {"pending", "approved", "rejected"}
      OBVIOUS
    <2>2. request' = [request EXCEPT ![r][c] = outcome]
      OBVIOUS
    <2> QED BY <1>1, <2>1, <2>2, RequestUpdate
  <1>3. /\ approver' \in [Runs -> [Checkpoints -> Users \cup {None}]]
        /\ approver'[r][c] = u
        /\ \A d \in Checkpoints : d # c => approver'[r][d] = approver[r][d]
        /\ \A s \in Runs : s # r => approver'[s] = approver[s]
    BY <1>1 DEF RunsTyped
  <1>4. CaseTyped' /\ RunsTyped'
    BY <1>1, <1>2, <1>3 DEF CaseTyped, RunsTyped
  <1>5. c \notin local[r].decisions
    BY <1>1 DEF RequestsSound
  <1>6. local[r].decisions \subseteq Checkpoints
    BY <1>1 DEF RunsTyped, Local
  <1>7. RequestsSound(r)'
    <2>1. \A d \in local[r].decisions : request'[r][d] = "approved"
      BY <1>1, <1>2, <1>5, <1>6 DEF RequestsSound
    <2>2. \A d \in Checkpoints : request'[r][d] = "approved" =>
            /\ approver'[r][d] \in Deciders \cap MayApprove[local[r].figures][d]
            /\ approver'[r][d] # local[r].actor
      BY <1>1, <1>2, <1>3 DEF RequestsSound
    <2>3. /\ request'[r][1] = "unasked" <=> request[r][1] = "unasked"
          /\ request'[r][2] = "unasked" <=> request[r][2] = "unasked"
      BY <1>1, <1>2
    <2> QED BY <1>1, <2>1, <2>2, <2>3 DEF RequestsSound
  <1>8. GateSound(r)'
    <2>1. /\ request'[r][1] = "unasked" <=> request[r][1] = "unasked"
          /\ request'[r][2] = "unasked" <=> request[r][2] = "unasked"
          /\ request'[r][1] = "pending" => request[r][1] = "pending"
          /\ request'[r][2] = "pending" => request[r][2] = "pending"
      BY <1>1, <1>2
    <2>2. /\ Carded(1)' = Carded(1) /\ Carded(2)' = Carded(2)
          /\ Reachable(r, 1)' = Reachable(r, 1)
          /\ Reachable(r, 2)' = Reachable(r, 2)
          /\ ApproachGatePasses(r)' = ApproachGatePasses(r)
      BY DEF Carded, Reachable, ApproachGatePasses
    <2> QED BY <1>1, <2>1, <2>2 DEF GateSound
  <1> QED BY <1>2, <1>3, <1>4, <1>7, <1>8, VerifiedKept, OneRunMoves

\* An answered checkpoint is applied to the run that asked for it.
LEMMA AppliedPInv ==
  ASSUME PInv, NEW r \in Runs, NEW c \in Checkpoints, NEW n \in Node, Goto(r, n),
         \/ c = 1 /\ at[r] = "cp1" /\ n = "package"
         \/ c = 2 /\ at[r] = "cp2" /\ n = "finalize",
         request[r][c] = "approved",
         local' = [local EXCEPT ![r].decisions = @ \cup {c}],
         UNCHANGED <<figures, verified, sealed, cards, request, approver>>,
         CaseTyped'
  PROVE  PInv'
  <1> DEFINE l == [local[r] EXCEPT !.decisions = @ \cup {c}]
  <1>1. CaseTyped /\ RunsTyped /\ local[r] \in Local
        /\ RequestsSound(r) /\ GateSound(r)
    BY TypedInv DEF PInv, RunsTyped
  <1>2. l \in Local
    BY <1>1 DEF Local
  <1>3. local' = [local EXCEPT ![r] = l]
    OBVIOUS
  <1>4. /\ l.figures = local[r].figures /\ l.pr = local[r].pr
        /\ l.blocking = local[r].blocking /\ l.delegated = local[r].delegated
        /\ l.gate2 = local[r].gate2 /\ l.actor = local[r].actor
        /\ l.decisions = local[r].decisions \cup {c}
    BY <1>1 DEF Local
  <1> HIDE DEF l
  <1>5. /\ at' \in [Runs -> Node] /\ at'[r] = n
        /\ \A s \in Runs : s # r => at'[s] = at[s]
    BY <1>1, AtUpdate
  <1>6. /\ local' \in [Runs -> Local] /\ local'[r] = l
        /\ \A s \in Runs : s # r => local'[s] = local[s]
    BY <1>1, <1>2, <1>3, LocalUpdate
  <1>7. RunsTyped'
    BY <1>1, <1>5, <1>6 DEF RunsTyped
  <1>8. RequestsSound(r)'
    <2>1. \A d \in l.decisions : request[r][d] = "approved"
      BY <1>1, <1>4 DEF RequestsSound
    <2>2. \A d \in Checkpoints : request[r][d] = "approved" =>
            /\ approver[r][d] \in Deciders \cap MayApprove[l.figures][d]
            /\ approver[r][d] # l.actor
      BY <1>1, <1>4 DEF RequestsSound
    <2>3. n \in Late => request[r][2] = "unasked"
      BY <1>1 DEF RequestsSound, Late
    <2>4. n = "finalize" => 2 \in l.decisions
      BY <1>4
    <2>5. 1 \in l.decisions \/ l.delegated
      BY <1>1, <1>4 DEF RequestsSound
    <2> QED BY <1>5, <1>6, <2>1, <2>2, <2>3, <2>4, <2>5
            DEF RequestsSound, Early, Late
  <1>9. GateSound(r)'
    <2>1. ApproachGatePasses(r)' <=> ApproachGatePasses(r)
      BY <1>4, <1>6 DEF ApproachGatePasses
    <2>2. /\ Carded(1)' = Carded(1) /\ Carded(2)' = Carded(2)
          /\ Reachable(r, 1)' = Reachable(r, 1)
          /\ Reachable(r, 2)' = Reachable(r, 2)
      BY <1>4, <1>6 DEF Carded, Reachable
    <2> QED BY <1>1, <1>4, <1>5, <1>6, <2>1, <2>2 DEF GateSound, Early
  <1>10. at[r] # "end"
    OBVIOUS
  <1> QED BY <1>5, <1>6, <1>7, <1>8, <1>9, <1>10, VerifiedKept, OneRunMoves

LEMMA ApplyPInv ==
  ASSUME PInv, NEW r \in Runs, ApplyCp1(r) \/ ApplyCp2(r)
  PROVE  PInv'
  <1> USE DEF ApplyCp1, ApplyCp2, Apply, artifactVars, requestVars
  <1>1. CaseTyped'
    BY TypedInv DEF CaseTyped, CaseState
  <1>2. PICK c \in Checkpoints, n \in Node, a \in {"cp1", "cp2"} :
          /\ at[r] = a
          /\ \/ c = 1 /\ a = "cp1" /\ n = "package"
             \/ c = 2 /\ a = "cp2" /\ n = "finalize"
          /\ \/ /\ request[r][c] = "approved"
                /\ Goto(r, n)
                /\ local' = [local EXCEPT ![r].decisions = @ \cup {c}]
             \/ /\ Goto(r, "end")
                /\ UNCHANGED local
          /\ UNCHANGED <<figures, verified, sealed, cards, request, approver>>
    <2>1. 1 \in Checkpoints /\ 2 \in Checkpoints
          /\ "package" \in Node /\ "finalize" \in Node
      BY DEF Checkpoints, Node
    <2>2. CASE ApplyCp1(r)
      BY <2>1, <2>2
    <2>3. CASE ApplyCp2(r)
      BY <2>1, <2>3
    <2> QED BY <2>2, <2>3
  <1>3. CASE Goto(r, "end") /\ UNCHANGED local
    <2>1. "end" \in Node
      BY DEF Node
    <2> QED BY <1>1, <1>2, <1>3, <2>1, QuietMovePInv
  <1>4. CASE /\ request[r][c] = "approved"
             /\ Goto(r, n)
             /\ local' = [local EXCEPT ![r].decisions = @ \cup {c}]
    BY <1>1, <1>2, <1>4, AppliedPInv
  <1> QED BY <1>2, <1>3, <1>4

\* The package gate: CP2 is announced if it passed.
LEMMA PackageGatePInv ==
  ASSUME PInv, NEW r \in Runs, NEW lawful \in BOOLEAN, PackageGate(r, lawful)
  PROVE  PInv'
  <1> USE DEF PackageGate, artifactVars, requestVars
  <1> DEFINE l == [local[r] EXCEPT !.gate2 = lawful]
  <1>1. CaseTyped /\ RunsTyped /\ local[r] \in Local
        /\ RequestsSound(r) /\ GateSound(r)
    BY TypedInv DEF PInv, RunsTyped
  <1>2. l \in Local
    BY <1>1 DEF Local
  <1>3. local' = [local EXCEPT ![r] = l]
    OBVIOUS
  <1>4. /\ l.figures = local[r].figures /\ l.pr = local[r].pr
        /\ l.blocking = local[r].blocking /\ l.delegated = local[r].delegated
        /\ (l.gate2 <=> lawful) /\ l.actor = local[r].actor
        /\ l.decisions = local[r].decisions
    BY <1>1 DEF Local
  <1>5. /\ at' \in [Runs -> Node] /\ at'[r] = "ask2"
        /\ \A s \in Runs : s # r => at'[s] = at[s]
    BY <1>1, AtUpdate DEF Node
  <1>6. /\ local' \in [Runs -> Local] /\ local'[r] = l
        /\ \A s \in Runs : s # r => local'[s] = local[s]
    BY <1>1, <1>2, <1>3, LocalUpdate
  <1> HIDE DEF l
  <1>7. /\ cards \subseteq cards'
        /\ cards' \in SUBSET (Checkpoints \X Runs)
        /\ lawful /\ 2 \in Staffed[figures] => Carded(2)'
    <2>1. CASE lawful
      BY <2>1, CardIsThere DEF Checkpoints
    <2>2. CASE ~lawful
      BY <1>1, <2>2 DEF CaseTyped
    <2> QED BY <2>1, <2>2
  <1>8. CaseTyped' /\ RunsTyped'
    BY <1>1, <1>5, <1>6, <1>7 DEF CaseTyped, RunsTyped, CaseState
  <1>9. RequestsSound(r)'
    BY <1>1, <1>4, <1>5, <1>6 DEF RequestsSound, Early, Late
  <1>10. GateSound(r)'
    <2>1. ApproachGatePasses(r)' <=> ApproachGatePasses(r)
      BY <1>4, <1>6 DEF ApproachGatePasses
    <2>2. Carded(1) => Carded(1)'
      BY <1>7 DEF Carded
    <2>3. /\ Reachable(r, 1)' = Reachable(r, 1)
          /\ Reachable(r, 2)' = Reachable(r, 2)
      BY <1>4, <1>6 DEF Reachable
    <2>4. Reachable(r, 2) => 2 \in Staffed[figures]
      <3>1. figures \in local[r].figures..figures
        BY <1>1, FiguresAreNumbers DEF GateSound
      <3> QED BY <3>1 DEF Reachable
    <2> QED BY <1>1, <1>4, <1>5, <1>6, <1>7, <2>1, <2>2, <2>3, <2>4
            DEF GateSound, RequestsSound, Early, Late
  <1>11. at[r] # "end"
    OBVIOUS
  <1> QED BY <1>5, <1>6, <1>7, <1>8, <1>9, <1>10, <1>11, VerifiedKept, OneRunMoves

\* Only a run that CP2 approved reaches the seal; it ends there.
LEMMA FinalizePInv ==
  ASSUME PInv, NEW r \in Runs, FinalizeOfficial(r)
  PROVE  PInv'
  <1> USE DEF FinalizeOfficial, requestVars
  <1>1. CaseTyped /\ RunsTyped /\ RequestsSound(r) /\ GateSound(r)
    BY TypedInv DEF PInv
  <1>2. /\ at' \in [Runs -> Node] /\ at'[r] = "end"
        /\ \A s \in Runs : s # r => at'[s] = at[s]
    BY <1>1, AtUpdate DEF Node
  <1>3. CaseTyped' /\ RunsTyped'
    <2>1. sealed' \in Manifest
      BY <1>1 DEF CaseTyped, Manifest
    <2> QED BY <1>1, <1>2, <2>1 DEF CaseTyped, RunsTyped, CaseState
  <1>4. CaseSound'
    <2>1. sealed'.run = r
      OBVIOUS
    <2> QED BY <1>1, <1>2, <2>1 DEF PInv, CaseSound, RequestsSound, Late
  <1>5. /\ Carded(1)' = Carded(1) /\ Carded(2)' = Carded(2)
        /\ Reachable(r, 1)' = Reachable(r, 1)
        /\ Reachable(r, 2)' = Reachable(r, 2)
        /\ ApproachGatePasses(r)' = ApproachGatePasses(r)
    BY DEF Carded, Reachable, ApproachGatePasses
  <1>6. RequestsSound(r)'
    BY <1>1, <1>2 DEF RequestsSound, Early, Late
  <1>7. GateSound(r)'
    BY <1>1, <1>2, <1>5 DEF GateSound, Early
  <1>8. ASSUME NEW s \in Runs PROVE RequestsSound(s)' /\ GateSound(s)'
    <2>1. CASE s = r
      BY <2>1, <1>6, <1>7
    <2>2. CASE s # r
      BY <2>2, <1>2, <1>3, VerifiedKept, OtherRunSound
    <2> QED BY <2>1, <2>2
  <1> QED BY <1>3, <1>4, <1>8, TypeParts DEF PInv, TypeOK, CaseTyped, RunsTyped

-----------------------------------------------------------------------------
(* The theorems *)

LEMMA StepPInv == PInv /\ [Next]_vars => PInv'
  <1> SUFFICES ASSUME PInv, [Next]_vars PROVE PInv'
    OBVIOUS
  <1>1. CASE UNCHANGED vars
    <2>1. CaseTyped'
      BY <1>1, TypedInv
      DEF CaseTyped, vars, caseVars, artifactVars, requestVars
    <2> QED BY <1>1, <2>1, VerifiedKept, NoRunMoves
            DEF vars, caseVars, artifactVars, requestVars
  <1>2. ASSUME NEW r \in Runs, GraphStep(r) \/ RunDies(r) PROVE PInv'
    <2>1. CASE \/ AskModel(r) \/ DraftApproach(r) \/ ApproachIncomplete(r)
               \/ ApplyDelegated(r) \/ DraftPackage(r) \/ DraftAnnexes(r)
               \/ RunDies(r)
      BY <2>1, QuietNodesPInv
    <2>2. CASE LoadCase(r)
      BY <2>2, LoadCasePInv
    <2>3. CASE ReuseSnapshot(r)
      BY <2>3, ExtractPInv
    <2>4. ASSUME NEW unknowns \in SUBSET Questions,
                 ExtractRequirements(r, unknowns)
          PROVE  PInv'
      BY <2>4, ExtractPInv
    <2>5. CASE CompletenessCheck(r)
      BY <2>5, CompletenessPInv
    <2>6. CASE ApproachPassed(r)
      BY <2>6, ApproachPassedPInv
    <2>7. CASE ApproachDelegated(r)
      BY <2>7, ApproachDelegatedPInv
    <2>8. CASE Ask(r, 1, "ask1", "cp1") \/ Ask(r, 2, "ask2", "cp2")
      BY <2>8, AskPInv
    <2>9. CASE ApplyCp1(r) \/ ApplyCp2(r)
      BY <2>9, ApplyPInv
    <2>10. ASSUME NEW lawful \in BOOLEAN, PackageGate(r, lawful) PROVE PInv'
      BY <2>10, PackageGatePInv
    <2>11. CASE FinalizeOfficial(r)
      BY <2>11, FinalizePInv
    <2> QED
      BY <1>2, <2>1, <2>2, <2>3, <2>4, <2>5, <2>6, <2>7, <2>8, <2>9, <2>10,
         <2>11
      DEF GraphStep
  <1>3. ASSUME NEW u \in Users, UserStep(u) PROVE PInv'
    <2>1. CASE VerifyIntake(u) \/ RejectIntake(u)
      BY <2>1, VerifyIntakePInv
    <2>2. CASE Amend(u)
      BY <2>2, AmendPInv
    <2>3. CASE Withdraw(u)
      BY <2>3, WithdrawPInv
    <2>4. CASE HandlerStops(u)
      BY <2>4, HandlerStopsPInv
    <2>5. ASSUME NEW answers \in SUBSET listing, AnswerClarifications(u, answers)
          PROVE  PInv'
      BY <2>5, AnswerPInv
    <2>6. ASSUME NEW r \in Runs, StartRun(u, r) \/ AutoRun(u, r) \/ Rerun(u, r)
          PROVE  PInv'
      BY <2>6, StartPInv
    <2>7. ASSUME NEW r \in Runs, NEW c \in Checkpoints,
                 NEW outcome \in {"approved", "rejected"},
                 Decide(u, r, c, outcome)
          PROVE  PInv'
      BY <2>7, DecidePInv
    <2> QED
      BY <1>3, <2>1, <2>2, <2>3, <2>4, <2>5, <2>6, <2>7 DEF UserStep
  <1> QED BY <1>1, <1>2, <1>3 DEF Next

\* The inductive invariant of a preparation case: what runs carry as decided,
\* where they stand and what the case records agree, whatever people amend,
\* withdraw and decide in between.
THEOREM PreparationInvariant == Spec => []PInv
  BY InitPInv, StepPInv, PTL DEF Spec

\* The aggregate, its artifacts and the graph states of its runs keep their
\* types.
THEOREM PreparationTypes == Spec => []TypeOK
  <1>1. PInv => TypeOK
    BY DEF PInv
  <1> QED BY <1>1, PreparationInvariant, PTL

\* finalize_official only seals what was approved: by people with the roles the
\* matrix asks for the run's figures, none of whom started the run.
THEOREM OfficialApproved == Spec => []OfficialIsApproved
  <1>1. PInv => OfficialIsApproved
    <2> SUFFICES ASSUME PInv, sealed # None PROVE OfficialIsApproved
      BY DEF OfficialIsApproved
    <2> DEFINE r == sealed.run
    <2>1. r \in Runs /\ local[r].decisions \subseteq Checkpoints
      BY DEF PInv, TypeOK, Manifest, Local
    <2>2. RequestsSound(r) /\ GateSound(r)
      BY <2>1 DEF PInv
    <2>3. 2 \in local[r].decisions
          /\ (1 \in local[r].decisions \/ local[r].delegated)
      BY DEF PInv, CaseSound
    <2> HIDE DEF r
    <2>4. \A c \in local[r].decisions :
            /\ request[r][c] = "approved"
            /\ approver[r][c] \in Deciders \cap MayApprove[local[r].figures][c]
            /\ approver[r][c] # local[r].actor
      BY <2>1, <2>2 DEF RequestsSound
    <2>5. 1 \in local[r].decisions
            \/ (local[r].delegated /\ Autonomous /\ local[r].figures \in LowValue)
      BY <2>2, <2>3 DEF GateSound
    <2> QED BY <2>3, <2>4, <2>5 DEF OfficialIsApproved, r
  <1> QED BY <1>1, PreparationInvariant, PTL

\* CP1 is asked, or delegated, only in a case that somebody other than its
\* creator verified, on sufficient figures and with nothing left to clarify.
THEOREM Cp1Verified == Spec => []Cp1NeedsIntake
  <1>1. PInv => Cp1NeedsIntake
    BY DEF PInv, Cp1NeedsIntake, GateSound, ApproachGatePasses
  <1> QED BY <1>1, PreparationInvariant, PTL

\* Every pending checkpoint that passed its gate has a card in the outbox, where
\* somebody could be told.
THEOREM PendingAnnounced == Spec => []PendingIsAnnounced
  <1>1. PInv => PendingIsAnnounced
    BY DEF PInv, PendingIsAnnounced, GateSound, Carded, Reachable, Checkpoints
  <1> QED BY <1>1, PreparationInvariant, PTL

-----------------------------------------------------------------------------
(* Refinement of GatedRun *)

\* A step that changes no decision and no request is a stutter there.
LEMMA DecisionsKept ==
  ASSUME PInv, PInv', request' = request,
         \A s \in Runs : local'[s].decisions = local[s].decisions
  PROVE  UNCHANGED Gated!vars
  <1>1. Decisions' = Decisions
    BY DEF Decisions
  <1> QED BY <1>1 DEF Gated!vars

LEMMA GatesAreCheckpoints == Gated!Gates = Checkpoints
  BY DEF Gated!Gates, Checkpoints

\* interrupt() asks its checkpoint when everything before it was approved, or
\* was skipped, and nothing after it was asked.
LEMMA AskRefines ==
  ASSUME PInv, NEW r \in Runs,
         Ask(r, 1, "ask1", "cp1") \/ Ask(r, 2, "ask2", "cp2")
  PROVE  Gated!Next
  <1> USE DEF Ask
  <1>1. RequestsSound(r) /\ GateSound(r) /\ Checkpoints = {1, 2}
    BY DEF PInv, Checkpoints
  <1>2. Decisions' = Decisions
    BY DEF Decisions
  <1>3. CASE Ask(r, 1, "ask1", "cp1")
    <2>1. request[r][1] = "unasked" /\ request[r][2] = "unasked"
      BY <1>1, <1>3 DEF RequestsSound
    <2>2. Gated!Ask(r, 1)
      BY <1>1, <1>2, <1>3, <2>1, GatesAreCheckpoints DEF Gated!Ask
    <2> QED BY <1>1, <2>2, GatesAreCheckpoints DEF Gated!Next
  <1>4. CASE Ask(r, 2, "ask2", "cp2")
    <2>1. request[r][2] = "unasked"
          /\ (request[r][1] = "unasked" \/ request[r][1] = "approved")
      BY <1>1, <1>4 DEF RequestsSound, GateSound, Late
    <2>2. Gated!Ask(r, 2)
      BY <1>1, <1>2, <1>4, <2>1, GatesAreCheckpoints DEF Gated!Ask
    <2> QED BY <1>1, <2>2, GatesAreCheckpoints DEF Gated!Next
  <1> QED BY <1>3, <1>4

\* A decision answers the request it was made for.
LEMMA DecideRefines ==
  ASSUME PInv, NEW u \in Users, NEW r \in Runs, NEW c \in Checkpoints,
         NEW outcome \in {"approved", "rejected"}, Decide(u, r, c, outcome)
  PROVE  Gated!Next
  <1>1. Decisions' = Decisions
    BY DEF Decide, Decisions
  <1>2. Gated!Answer(r, c, outcome)
    BY <1>1 DEF Decide, Gated!Answer
  <1>3. outcome \in Gated!Answers
    BY DEF Gated!Answers
  <1> QED BY <1>2, <1>3, GatesAreCheckpoints DEF Gated!Next

\* An amendment withdraws what is pending in any run of the case.
LEMMA WithdrawRefines ==
  ASSUME NEW u \in Users, Withdraw(u)
  PROVE  Gated!Next
  <1>1. Decisions' = Decisions
    BY DEF Withdraw, Decisions
  <1>2. request' = [r \in Runs |-> [c \in Checkpoints |->
          IF r \in Runs /\ request[r][c] = "pending" THEN "cancelled"
          ELSE request[r][c]]]
    BY DEF Withdraw
  <1>3. Gated!Withdraw(Runs)
    BY <1>1, <1>2, GatesAreCheckpoints DEF Gated!Withdraw
  <1>4. Runs \in SUBSET Runs
    OBVIOUS
  <1> QED BY <1>3, <1>4 DEF Gated!Next

\* apply_cp1 and apply_cp2 act on an approval no later checkpoint followed; a
\* rejection closes the run and acts on nothing.
LEMMA ApplyRefines ==
  ASSUME PInv, PInv', NEW r \in Runs, ApplyCp1(r) \/ ApplyCp2(r)
  PROVE  [Gated!Next]_Gated!vars
  <1> USE DEF ApplyCp1, ApplyCp2, Apply, requestVars
  <1>1. RequestsSound(r) /\ local[r] \in Local /\ local \in [Runs -> Local]
        /\ Checkpoints = {1, 2}
    BY DEF PInv, TypeOK, Checkpoints
  <1>2. CASE UNCHANGED local
    BY <1>2, DecisionsKept
  <1>3. ASSUME NEW c \in Checkpoints, request[r][c] = "approved",
               c \notin local[r].decisions,
               \A h \in Checkpoints : h > c => request[r][h] = "unasked",
               local' = [local EXCEPT ![r].decisions = @ \cup {c}]
        PROVE  Gated!Next
    <2>1. /\ local'[r].decisions = local[r].decisions \cup {c}
          /\ \A s \in Runs : s # r => local'[s] = local[s]
      BY <1>1, <1>3 DEF Local
    <2>2. \A s \in Runs : Decisions'[s] = IF s = r THEN Decisions[s] \cup {c}
                                          ELSE Decisions[s]
      BY <2>1 DEF Decisions
    <2>3. Decisions' = [Decisions EXCEPT ![r] = @ \cup {c}]
      BY <2>1 DEF Decisions
    <2>4. Gated!Act(r, c)
      BY <1>3, <2>3, GatesAreCheckpoints DEF Gated!Act, Decisions
    <2> QED BY <2>4, GatesAreCheckpoints DEF Gated!Next
  <1>4. CASE ApplyCp1(r) /\ ~UNCHANGED local
    BY <1>1, <1>3, <1>4 DEF RequestsSound
  <1>5. CASE ApplyCp2(r) /\ ~UNCHANGED local
    BY <1>1, <1>3, <1>5 DEF RequestsSound
  <1> QED BY <1>2, <1>4, <1>5

LEMMA StepRefines ==
  PInv /\ PInv' /\ [Next]_vars => [Gated!Next]_Gated!vars
  <1> SUFFICES ASSUME PInv, PInv', [Next]_vars
               PROVE  [Gated!Next]_Gated!vars
    OBVIOUS
  <1> USE DEF vars, caseVars, artifactVars, requestVars
  <1>0. local \in [Runs -> Local]
    BY DEF PInv, TypeOK
  <1>1. CASE UNCHANGED vars
    BY <1>1, DecisionsKept
  <1>2. ASSUME NEW r \in Runs, GraphStep(r) \/ RunDies(r)
        PROVE  [Gated!Next]_Gated!vars
    <2>1. CASE \/ AskModel(r) \/ DraftApproach(r) \/ ApproachIncomplete(r)
               \/ ApplyDelegated(r) \/ DraftPackage(r) \/ DraftAnnexes(r)
               \/ RunDies(r) \/ ApproachPassed(r) \/ FinalizeOfficial(r)
      BY <2>1, DecisionsKept
      DEF AskModel, DraftApproach, ApproachIncomplete, ApplyDelegated,
          DraftPackage, DraftAnnexes, RunDies, ApproachPassed, FinalizeOfficial
    <2>2. CASE \/ LoadCase(r) \/ ReuseSnapshot(r) \/ CompletenessCheck(r)
               \/ ApproachDelegated(r)
               \/ \E unknowns \in SUBSET Questions :
                    ExtractRequirements(r, unknowns)
               \/ \E lawful \in BOOLEAN : PackageGate(r, lawful)
      <3>1. request' = request
        BY <2>2 DEF LoadCase, ReuseSnapshot, CompletenessCheck,
           ApproachDelegated, ExtractRequirements, PackageGate
      <3>2. \A s \in Runs : local'[s].decisions = local[s].decisions
        <4>1. CASE LoadCase(r)
          BY <1>0, <4>1 DEF LoadCase, Local
        <4>2. CASE ReuseSnapshot(r)
          BY <1>0, <4>2 DEF ReuseSnapshot, Local
        <4>3. CASE CompletenessCheck(r)
          BY <1>0, <4>3 DEF CompletenessCheck, Local
        <4>4. CASE ApproachDelegated(r)
          BY <1>0, <4>4 DEF ApproachDelegated, Local
        <4>5. ASSUME NEW unknowns \in SUBSET Questions,
                     ExtractRequirements(r, unknowns)
              PROVE  \A s \in Runs : local'[s].decisions = local[s].decisions
          BY <1>0, <4>5 DEF ExtractRequirements, Local
        <4>6. ASSUME NEW lawful \in BOOLEAN, PackageGate(r, lawful)
              PROVE  \A s \in Runs : local'[s].decisions = local[s].decisions
          BY <1>0, <4>6 DEF PackageGate, Local
        <4> QED BY <2>2, <4>1, <4>2, <4>3, <4>4, <4>5, <4>6
      <3> QED BY <3>1, <3>2, DecisionsKept
    <2>3. CASE Ask(r, 1, "ask1", "cp1") \/ Ask(r, 2, "ask2", "cp2")
      BY <2>3, AskRefines
    <2>4. CASE ApplyCp1(r) \/ ApplyCp2(r)
      BY <2>4, ApplyRefines
    <2> QED BY <1>2, <2>1, <2>2, <2>3, <2>4 DEF GraphStep
  <1>3. ASSUME NEW u \in Users, UserStep(u)
        PROVE  [Gated!Next]_Gated!vars
    <2>1. CASE \/ VerifyIntake(u) \/ RejectIntake(u) \/ Amend(u)
               \/ HandlerStops(u)
               \/ \E answers \in SUBSET listing : AnswerClarifications(u, answers)
      BY <2>1, DecisionsKept
      DEF VerifyIntake, RejectIntake, Amend, HandlerStops, AnswerClarifications
    <2>2. CASE Withdraw(u)
      BY <2>2, WithdrawRefines
    <2>3. ASSUME NEW r \in Runs, StartRun(u, r) \/ AutoRun(u, r) \/ Rerun(u, r)
          PROVE  [Gated!Next]_Gated!vars
      <3>1. BeginRun(r, u) \/ BeginRun(r, Creator)
        BY <2>3 DEF StartRun, AutoRun, Rerun
      <3>2. request' = request
        BY <3>1 DEF BeginRun
      <3>3. \A s \in Runs : local'[s].decisions = local[s].decisions
        BY <1>0, <3>1 DEF BeginRun, Local
      <3> QED BY <3>2, <3>3, DecisionsKept
    <2>4. ASSUME NEW r \in Runs, NEW c \in Checkpoints,
                 NEW outcome \in {"approved", "rejected"},
                 Decide(u, r, c, outcome)
          PROVE  [Gated!Next]_Gated!vars
      BY <2>4, DecideRefines
    <2> QED BY <1>3, <2>1, <2>2, <2>3, <2>4 DEF UserStep
  <1> QED BY <1>1, <1>2, <1>3 DEF Next

\* Every run of a case keeps the gate discipline that the durable runtime
\* promises: a step is one of GatedRun's, or changes no request and no decision.
THEOREM GatesKept == Spec => KeepsGateDiscipline
  <1>1. Init => Gated!Init
    BY GatesAreCheckpoints DEF Init, Gated!Init, Decisions, NoLocal
  <1>2. PInv /\ PInv' /\ [Next]_vars => [Gated!Next]_Gated!vars
    BY StepRefines
  <1> QED
    BY <1>1, <1>2, PreparationInvariant, PTL
    DEF Spec, KeepsGateDiscipline, Gated!Spec

=============================================================================
