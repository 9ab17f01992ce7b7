--------------------------- MODULE TenderingProofs ---------------------------
(***************************************************************************)
(* Proofs about Tendering for any users, bids, days, addenda and mails.    *)
(***************************************************************************)
EXTENDS MCTendering, TLAPS, FiniteSetTheorems, SequenceTheorems

\* What publication and the addenda have left: the closing moment follows the
\* signed decisions, and an addendum that waits for CP3 has not been counted
\* among those issued, even when its e-mail is out already.
CaseSound ==
  /\ published = None <=> state = "package_official"
  /\ published = None => signed = 0
  /\ ClosingMomentIsSigned
  /\ state = "cp3_pending" => draft # None /\ addenda # 0
  /\ notices \subseteq 1..addenda
  /\ email = "smtp" =>
       /\ automatic => rfqs > 0
       /\ issued <= IF state = "cp3_pending" THEN Cardinality(notices \ {addenda})
                                             ELSE Cardinality(notices)

\* What reception and opening have left.
OpeningSound ==
  /\ IsFiniteSet(documents)
  /\ RegisterMatchesDocuments
  /\ opening # None <=> state = "completed"
  /\ EvaluatesWhatWasOpened

\* What a request between two of its transactions may rely on: while the
\* version it read is still the current one, so is what it read.
TaskSound(a) ==
  LET t == task[a]
      fresh == t.version = version
  IN  /\ t.version <= version
      /\ t.at = "publish" => /\ email = "smtp" => rfqs > 0
                             /\ fresh => state = "package_official"
      /\ t.at = "cp3" /\ fresh => /\ state = "cp3_pending"
                                  /\ email = "smtp" => addenda \in notices
      /\ t.at = "record" => /\ t.receipt \in Bids
                            /\ fresh => state \in Accepting /\ t.read = register
      /\ t.minutes # None => t.minutes \subseteq documents
      /\ t.at = "open" => /\ a # Creator
                          /\ handoffFile \subseteq documents
                          /\ fresh => state = "receiving_bids" /\ t.read = register
      /\ t.at \in {"handoff", "link"} => opening # None /\ opening.by = a

TenderingInv == TypeOK /\ CaseSound /\ OpeningSound /\ \A a \in Actors : TaskSound(a)

-----------------------------------------------------------------------------
(* The initial state *)

\* A request that has not begun is a task.
LEMMA IdleType == Idle \in Task
  BY DEF Idle, Task, Places

LEMMA TenderingInit == Init => TenderingInv
<1> SUFFICES ASSUME Init PROVE TenderingInv
  OBVIOUS
<1> USE ConstantsAssumption DEF Init
<1>1. CaseTypes
  <2>1. /\ now \in Days /\ addenda \in 0..MaxAddenda /\ rfqs \in 0..MaxMails
        /\ {version, signed, issued} \subseteq Nat
    BY DEF Days
  <2>2. /\ published \in Days \cup {None} /\ closesAt \in Nat \cup {None}
        /\ draft \in Extensions \cup {None} /\ state \in CaseState /\ automatic \in BOOLEAN
        /\ email \in EmailSetups
    BY DEF CaseState
  <2>3. QED
    BY <2>1, <2>2 DEF CaseTypes
<1>2. ReceptionTypes
  BY DEF ReceptionTypes
<1>3. OpeningTypes
  BY DEF OpeningTypes
<1>4. task \in [Actors -> Task]
  BY IdleType
<1>5. CaseSound
  <2>1. Cardinality({}) = 0 /\ issued = 0
    BY FS_EmptySet
  <2>2. QED
    BY <2>1 DEF CaseSound, ClosingMomentIsSigned
<1>6. OpeningSound
  BY FS_EmptySet DEF OpeningSound, RegisterMatchesDocuments, EvaluatesWhatWasOpened
<1>7. \A a \in Actors : TaskSound(a)
  BY DEF TaskSound, Idle
<1>8. QED
  BY <1>1, <1>2, <1>3, <1>4, <1>5, <1>6, <1>7 DEF TenderingInv, TypeOK

-----------------------------------------------------------------------------
(* Publication, addenda and the case itself *)

\* The actions that change the case or what concerns its publication.
CaseStep ==
  \/ \E u \in Users : \/ PublishSend(u) \/ PublishSave(u) \/ RecordPublication(u)
                      \/ \E days \in Extensions : SubmitAddendum(u, days)
                      \/ RejectCp3(u) \/ ApproveCp3Send(u) \/ ApproveCp3Save(u)
                      \/ Cp4Save(u)
  \/ \E a \in Actors : SaveReceipt(a)
  \/ Tick

LEMMA CaseSteps ==
  ASSUME [Next]_vars
  PROVE  CaseStep \/ UNCHANGED <<now, caseVars, publicationVars, addendumVars>>
<1> USE DEF CaseStep, vars, caseVars, publicationVars, addendumVars
<1>1. CASE \E u \in Users : UserStep(u)
  <2> PICK u \in Users : UserStep(u)
    BY <1>1
  <2>1. CASE HandSave(u)
    BY <2>1 DEF HandSave, Actors
  <2>2. CASE (\E b \in Bids : HandRead(u, b)) \/ OpenBids(u) \/ WriteMinutes(u) \/ Cp4Seal(u)
    BY <2>2 DEF HandRead, ReadRegister, OpenBids, WriteMinutes, Cp4Seal
  <2>3. CASE CreateEvaluation(u) \/ LinkEvaluation(u) \/ TaskStops(u)
    BY <2>3 DEF CreateEvaluation, LinkEvaluation, TaskStops
  <2>4. QED
    BY <2>1, <2>2, <2>3 DEF UserStep
<1>2. CASE MailroomStep
  BY <1>2 DEF MailroomStep, Fetch, MailRead, ReadRegister, MailSkipped, MailSave, MailRequest,
              Scan, Actors
<1>3. CASE (\E b \in Bids : SupplierMails(b)) \/ PollFails \/ Restart
  BY <1>3 DEF SupplierMails, PollFails, Restart
<1>4. QED
  BY <1>1, <1>2, <1>3 DEF Next

LEMMA CaseTypesKept == ASSUME TenderingInv, [Next]_vars PROVE CaseTypes'
<1> USE ConstantsAssumption DEF TenderingInv, TypeOK, CaseTypes, caseVars, publicationVars,
        addendumVars, CaseState
<1>1. CASE UNCHANGED <<now, caseVars, publicationVars, addendumVars>>
  BY <1>1
<1>2. ASSUME NEW u \in Users, PublishSend(u) PROVE CaseTypes'
  BY <1>2 DEF PublishSend, Sent
<1>3. ASSUME NEW u \in Users, PublishSave(u) \/ RecordPublication(u) PROVE CaseTypes'
  <2>1. /\ state' = "published" /\ version' = version + 1 /\ published' = now
        /\ automatic' \in BOOLEAN /\ closesAt' \in {now + Window, None}
        /\ UNCHANGED <<now, email, rfqs, addendumVars>>
    BY <1>3 DEF PublishSave, RecordPublication, Publish, SaveCase
  <2>2. QED
    BY <2>1 DEF Days
<1>4. ASSUME NEW u \in Users, NEW days \in Extensions, SubmitAddendum(u, days) PROVE CaseTypes'
  BY <1>4 DEF SubmitAddendum, SaveCase
<1>5. ASSUME NEW u \in Users, RejectCp3(u) PROVE CaseTypes'
  BY <1>5 DEF RejectCp3, SaveCase
<1>6. ASSUME NEW u \in Users, ApproveCp3Send(u) PROVE CaseTypes'
  BY <1>6 DEF ApproveCp3Send, MayDecideCp3, CaseSound
<1>7. ASSUME NEW u \in Users, ApproveCp3Save(u) PROVE CaseTypes'
  <2>1. state = "cp3_pending" /\ published # None
    BY <1>7 DEF ApproveCp3Save, VersionUnchanged, Actors, TaskSound, CaseSound
  <2>2. draft \in Nat
    BY <2>1 DEF CaseSound
  <2>3. Extended(draft) \in Nat \cup {None}
    BY <2>2 DEF Extended
  <2>4. QED
    BY <1>7, <2>2, <2>3 DEF ApproveCp3Save, SaveCase
<1>8. ASSUME NEW u \in Users, Cp4Save(u) PROVE CaseTypes'
  BY <1>8 DEF Cp4Save, SaveCase
<1>9. ASSUME NEW a \in Actors, SaveReceipt(a) PROVE CaseTypes'
  BY <1>9 DEF SaveReceipt, SaveCase
<1>10. CASE Tick
  BY <1>10 DEF Tick, Days
<1>11. QED
  BY <1>1, <1>2, <1>3, <1>4, <1>5, <1>6, <1>7, <1>8, <1>9, <1>10, CaseSteps DEF CaseStep

\* Only an approval whose e-mail left is counted: the addendum an approval is
\* about is in notices, and was not counted before.
LEMMA CaseSoundKept == ASSUME TenderingInv, [Next]_vars PROVE CaseSound'
<1> USE ConstantsAssumption DEF TenderingInv, TypeOK, CaseTypes, CaseSound, caseVars,
        publicationVars, addendumVars, ClosingMomentIsSigned
<1>0. IsFiniteSet(notices)
  <2>1. IsFiniteSet(1..MaxAddenda)
    BY FS_Interval
  <2>2. QED
    BY <2>1, FS_Subset
<1>a. /\ Cardinality(notices) \in Nat
      /\ Cardinality(notices \ {addenda}) =
           IF addenda \in notices THEN Cardinality(notices) - 1 ELSE Cardinality(notices)
  BY <1>0, FS_CardinalityType, FS_RemoveElement
<1>1. CASE UNCHANGED <<now, caseVars, publicationVars, addendumVars>>
  BY <1>1
<1>2. ASSUME NEW u \in Users, PublishSend(u) PROVE CaseSound'
  BY <1>2 DEF PublishSend, Sent
<1>3. ASSUME NEW u \in Users, PublishSave(u) \/ RecordPublication(u) PROVE CaseSound'
  <2>1. /\ state' = "published" /\ published' = now /\ closesAt' \in {now + Window, None}
        /\ email = "smtp" /\ automatic' => rfqs > 0
        /\ UNCHANGED <<now, email, rfqs, addendumVars>>
    BY <1>3 DEF PublishSave, RecordPublication, Publish, SaveCase, TaskSound, Actors
  <2>2. state = "package_official"
    BY <1>3 DEF PublishSave, RecordPublication, VersionUnchanged, TaskSound, Actors
  <2>3. now \in Nat /\ signed = 0
    BY <2>2 DEF Days
  <2>4. published' # None /\ ClosingMomentIsSigned'
    BY <2>1, <2>3
  <2>5. email = "smtp" => issued <= Cardinality(notices)
    BY <2>2
  <2>6. QED
    BY <2>1, <2>4, <2>5
<1>4. ASSUME NEW u \in Users, NEW days \in Extensions, SubmitAddendum(u, days) PROVE CaseSound'
  <2>1. /\ state = "published" /\ state' = "cp3_pending" /\ addenda' = addenda + 1
        /\ draft' \in Nat /\ UNCHANGED <<closesAt, publicationVars, signed, issued, notices>>
    BY <1>4 DEF SubmitAddendum, SaveCase
  <2>2. notices' \ {addenda'} = notices /\ notices' \subseteq 1..addenda' /\ addenda' # 0
    BY <2>1
  <2>3. (email = "smtp" => issued <= Cardinality(notices)) /\ published # None /\ draft' # None
    BY <2>1
  <2>4. ClosingMomentIsSigned'
    BY <2>1
  <2>5. QED
    BY <2>1, <2>2, <2>3, <2>4
<1>5. ASSUME NEW u \in Users, RejectCp3(u) PROVE CaseSound'
  BY <1>5, <1>a DEF RejectCp3, MayDecideCp3, SaveCase
<1>6. ASSUME NEW u \in Users, ApproveCp3Send(u) PROVE CaseSound'
  <2>1. /\ state = "cp3_pending" /\ notices' \in {notices, notices \cup {addenda}}
        /\ UNCHANGED <<caseVars, publicationVars, draft, signed, issued, addenda>>
    BY <1>6 DEF ApproveCp3Send, MayDecideCp3
  <2>2. notices' \ {addenda'} = notices \ {addenda} /\ notices' \subseteq 1..addenda'
    BY <2>1
  <2>3. QED
    BY <2>1, <2>2
<1>7. ASSUME NEW u \in Users, ApproveCp3Save(u) PROVE CaseSound'
  <2>1. state = "cp3_pending" /\ (email = "smtp" => addenda \in notices)
    BY <1>7 DEF ApproveCp3Save, VersionUnchanged, Actors, TaskSound
  <2>2. /\ state' = "published" /\ closesAt' = Extended(draft) /\ signed' = signed + draft
        /\ issued' \in {issued, issued + 1}
        /\ UNCHANGED <<publicationVars, draft, addenda, notices>>
    BY <1>7 DEF ApproveCp3Save, SaveCase
  <2>3. email' = "smtp" => issued' <= Cardinality(notices')
    BY <2>1, <2>2, <1>a
  <2>4. ClosingMomentIsSigned'
    <3>1. draft \in Nat /\ published \in Nat
      BY <2>1 DEF Days
    <3>2. closesAt # None => closesAt \in Nat /\ closesAt = published + Window + signed
      BY <3>1
    <3>3. closesAt' # None => closesAt # None /\ closesAt' = closesAt + draft
      BY <2>2 DEF Extended
    <3>4. QED
      BY <2>2, <3>1, <3>2, <3>3
  <2>5. QED
    BY <2>1, <2>2, <2>3, <2>4
<1>8. ASSUME NEW u \in Users, Cp4Save(u) PROVE CaseSound'
  <2>1. state = "receiving_bids"
    BY <1>8 DEF Cp4Save, VersionUnchanged, Actors, TaskSound
  <2>2. QED
    BY <1>8, <2>1 DEF Cp4Save, SaveCase
<1>9. ASSUME NEW a \in Actors, SaveReceipt(a) PROVE CaseSound'
  <2>1. state \in Accepting
    BY <1>9 DEF SaveReceipt, VersionUnchanged, TaskSound
  <2>2. QED
    BY <1>9, <2>1 DEF SaveReceipt, SaveCase, Accepting
<1>10. CASE Tick
  BY <1>10 DEF Tick
<1>11. QED
  BY <1>1, <1>2, <1>3, <1>4, <1>5, <1>6, <1>7, <1>8, <1>9, <1>10, CaseSteps DEF CaseStep

-----------------------------------------------------------------------------
(* Reception and opening *)

LEMMA ReceptionTypesKept == ASSUME TenderingInv, [Next]_vars PROVE ReceptionTypes'
<1> USE DEF TenderingInv, TypeOK, ReceptionTypes, registerVars, memoryVars
<1>0. Cardinality(documents) \in Nat
  BY FS_CardinalityType DEF OpeningSound
<1>a. RequestCp4 => cards' \in SUBSET Nat
  BY <1>0 DEF RequestCp4
<1>1. CASE UNCHANGED <<mail, registerVars, cards, memoryVars>>
  BY <1>1
<1>2. ASSUME NEW a \in Actors, SaveReceipt(a),
             mail' = mail \/ mail' = [mail EXCEPT ![task[a].receipt] = "recorded"]
      PROVE  ReceptionTypes'
  BY <1>2 DEF SaveReceipt, TaskSound, Task
<1>3. CASE \E u \in Users : UserStep(u)
  <2> PICK u \in Users : UserStep(u)
    BY <1>3
  <2>1. CASE HandSave(u)
    BY <1>2, <2>1 DEF HandSave, Actors
  <2>2. CASE OpenBids(u)
    BY <1>a, <2>2 DEF OpenBids
  <2>3. CASE PublishSend(u) \/ PublishSave(u) \/ RecordPublication(u)
             \/ \E days \in Extensions : SubmitAddendum(u, days)
    BY <1>1, <2>3 DEF PublishSend, PublishSave, RecordPublication, Publish, SubmitAddendum
  <2>4. CASE RejectCp3(u) \/ ApproveCp3Send(u) \/ ApproveCp3Save(u)
             \/ \E b \in Bids : HandRead(u, b)
    BY <1>1, <2>4 DEF RejectCp3, ApproveCp3Send, ApproveCp3Save, HandRead, ReadRegister
  <2>5. CASE \/ WriteMinutes(u) \/ Cp4Seal(u) \/ Cp4Save(u) \/ CreateEvaluation(u)
             \/ LinkEvaluation(u) \/ TaskStops(u)
    BY <1>1, <2>5 DEF WriteMinutes, Cp4Seal, Cp4Save, CreateEvaluation, LinkEvaluation, TaskStops
  <2>6. QED
    BY <2>1, <2>2, <2>3, <2>4, <2>5 DEF UserStep
<1>4. CASE MailroomStep
  <2>1. CASE Fetch
    BY <2>1 DEF Fetch
  <2>2. CASE \E b \in Bids : MailRead(b)
    BY <1>1, <2>2 DEF MailRead, ReadRegister
  <2>3. CASE \E b \in Bids : MailSkipped(b)
    BY <2>3 DEF MailSkipped
  <2>4. CASE MailSave
    BY <1>2, <2>4 DEF MailSave, Actors
  <2>5. CASE MailRequest
    BY <1>a, <2>5 DEF MailRequest
  <2>6. CASE Scan
    <3>1. scanned' \in BOOLEAN
      BY <2>6 DEF Scan
    <3>2. QED
      BY <1>a, <2>6, <3>1 DEF Scan
  <2>7. QED
    BY <1>4, <2>1, <2>2, <2>3, <2>4, <2>5, <2>6 DEF MailroomStep
<1>5. CASE \E b \in Bids : SupplierMails(b)
  BY <1>5 DEF SupplierMails
<1>6. CASE Tick
  BY <1>1, <1>6 DEF Tick
<1>7. CASE PollFails \/ Restart
  BY <1>7 DEF PollFails, Restart, LoseFetched
<1>8. CASE UNCHANGED vars
  BY <1>1, <1>8 DEF vars
<1>9. QED
  BY <1>3, <1>4, <1>5, <1>6, <1>7, <1>8 DEF Next

\* The actions that change what is registered, opened or handed over.
OpeningStep ==
  \/ \E a \in Actors : SaveReceipt(a)
  \/ \E u \in Users : Cp4Seal(u) \/ Cp4Save(u) \/ CreateEvaluation(u) \/ LinkEvaluation(u)

\* The others neither touch these nor complete or reopen the case.
OpeningStays ==
  /\ UNCHANGED <<registerVars, openingVars>>
  /\ state' = "completed" <=> state = "completed"

LEMMA OpeningSteps == ASSUME TenderingInv, [Next]_vars PROVE OpeningStep \/ OpeningStays
<1> USE DEF OpeningStep, OpeningStays, caseVars, registerVars, openingVars
<1>1. CASE \E u \in Users : UserStep(u)
  <2> PICK u \in Users : UserStep(u)
    BY <1>1
  <2>1. CASE PublishSave(u) \/ RecordPublication(u)
    BY <2>1 DEF PublishSave, RecordPublication, Publish, SaveCase, VersionUnchanged, TenderingInv,
                TaskSound, Actors
  <2>2. CASE \E days \in Extensions : SubmitAddendum(u, days)
    BY <2>2 DEF SubmitAddendum, SaveCase
  <2>3. CASE RejectCp3(u)
    BY <2>3 DEF RejectCp3, MayDecideCp3, SaveCase
  <2>4. CASE ApproveCp3Save(u)
    BY <2>4 DEF ApproveCp3Save, SaveCase, VersionUnchanged, TenderingInv, TaskSound, Actors
  <2>5. CASE PublishSend(u) \/ ApproveCp3Send(u) \/ (\E b \in Bids : HandRead(u, b))
    BY <2>5 DEF PublishSend, ApproveCp3Send, HandRead, ReadRegister
  <2>6. CASE OpenBids(u) \/ WriteMinutes(u) \/ TaskStops(u)
    BY <2>6 DEF OpenBids, WriteMinutes, TaskStops
  <2>7. CASE HandSave(u)
    BY <2>7 DEF HandSave, Actors
  <2>8. QED
    BY <2>1, <2>2, <2>3, <2>4, <2>5, <2>6, <2>7 DEF UserStep
<1>2. CASE MailroomStep
  BY <1>2 DEF MailroomStep, Fetch, MailRead, ReadRegister, MailSkipped, MailSave, MailRequest,
              Scan, Actors
<1>3. CASE (\E b \in Bids : SupplierMails(b)) \/ Tick \/ PollFails \/ Restart
  BY <1>3 DEF SupplierMails, Tick, PollFails, Restart
<1>4. CASE UNCHANGED vars
  BY <1>4 DEF vars
<1>5. QED
  BY <1>1, <1>2, <1>3, <1>4 DEF Next

LEMMA OpeningTypesKept == ASSUME TenderingInv, [Next]_vars PROVE OpeningTypes'
<1> USE DEF TenderingInv, TypeOK, OpeningTypes, ReceptionTypes, openingVars
<1>1. CASE OpeningStays
  BY <1>1 DEF OpeningStays
<1>2. ASSUME NEW a \in Actors, SaveReceipt(a) PROVE OpeningTypes'
  BY <1>2 DEF SaveReceipt
<1>3. ASSUME NEW u \in Users, Cp4Seal(u) PROVE OpeningTypes'
  BY <1>3 DEF Cp4Seal
<1>4. ASSUME NEW u \in Users, Cp4Save(u) PROVE OpeningTypes'
  <2>1. task[u] \in Task
    BY DEF Actors
  <2>2. opening' \in Opening
    BY <1>4, <2>1 DEF Cp4Save, Opening, Task
  <2>3. QED
    BY <1>4, <2>2 DEF Cp4Save
<1>5. ASSUME NEW u \in Users, CreateEvaluation(u) PROVE OpeningTypes'
  <2>1. [by |-> u, bids |-> documents] \in [by : Users, bids : SUBSET Bids]
    OBVIOUS
  <2>2. QED
    BY <1>5, <2>1 DEF CreateEvaluation
<1>6. ASSUME NEW u \in Users, LinkEvaluation(u) PROVE OpeningTypes'
  BY <1>6 DEF LinkEvaluation
<1>7. QED
  BY <1>1, <1>2, <1>3, <1>4, <1>5, <1>6, OpeningSteps DEF OpeningStep

\* Whoever saves still holds the version under which the register was read, so
\* one opening covers what is registered, and nothing is registered after it.
LEMMA OpeningSoundKept == ASSUME TenderingInv, [Next]_vars PROVE OpeningSound'
<1> USE ConstantsAssumption DEF TenderingInv, TypeOK, OpeningTypes, ReceptionTypes, OpeningSound,
        RegisterMatchesDocuments, EvaluatesWhatWasOpened, registerVars, openingVars
<1>1. CASE OpeningStays
  BY <1>1 DEF OpeningStays
<1>2. ASSUME NEW a \in Actors, SaveReceipt(a) PROVE OpeningSound'
  <2>1. state \in Accepting /\ task[a].read = register
    BY <1>2 DEF SaveReceipt, VersionUnchanged, TaskSound
  <2>2. opening = None
    BY <2>1 DEF Accepting
  <2>3. /\ documents' = documents \cup {task[a].receipt} /\ register' = documents'
        /\ UNCHANGED openingVars /\ state' = "receiving_bids"
    BY <1>2, <2>1 DEF SaveReceipt, SaveCase
  <2>4. IsFiniteSet(documents')
    BY <2>3, FS_AddElement
  <2>5. QED
    BY <2>2, <2>3, <2>4
<1>3. ASSUME NEW u \in Users, Cp4Seal(u) PROVE OpeningSound'
  <2>1. /\ opening = None
        /\ UNCHANGED <<state, registerVars, opening, evaluations>>
    BY <1>3 DEF Cp4Seal, caseVars
  <2>2. QED
    BY <2>1
<1>4. ASSUME NEW u \in Users, Cp4Save(u) PROVE OpeningSound'
  <2>1. /\ state = "receiving_bids" /\ task[u].read = register /\ u # Creator
        /\ task[u].minutes # None => task[u].minutes \subseteq documents
        /\ handoffFile \subseteq documents
    BY <1>4 DEF Cp4Save, VersionUnchanged, TaskSound, Actors
  <2>2. opening = None /\ evaluations = {}
    BY <2>1
  <2>3. /\ opening' = [minutes |-> task[u].minutes, bids |-> documents, by |-> u]
        /\ state' = "completed" /\ UNCHANGED <<registerVars, handoffFile, evaluations>>
    BY <1>4, <2>1 DEF Cp4Save, SaveCase
  <2>4. opening' # None
    <3>1. task[u].minutes \in (SUBSET Bids) \cup {None}
      BY DEF Task, Actors
    <3>2. opening' \in Opening
      BY <2>3, <3>1 DEF Opening
    <3>3. QED
      BY <3>2
  <2>5. QED
    BY <2>1, <2>2, <2>3, <2>4
<1>5. ASSUME NEW u \in Users, CreateEvaluation(u) PROVE OpeningSound'
  <2>1. opening # None /\ opening.by = u
    BY <1>5 DEF CreateEvaluation, TaskSound, Actors
  <2>2. QED
    BY <1>5, <2>1 DEF CreateEvaluation, caseVars
<1>6. ASSUME NEW u \in Users, LinkEvaluation(u) PROVE OpeningSound'
  BY <1>6 DEF LinkEvaluation, caseVars
<1>7. QED
  BY <1>1, <1>2, <1>3, <1>4, <1>5, <1>6, OpeningSteps DEF OpeningStep

-----------------------------------------------------------------------------
(* Requests between two of their transactions *)

\* The request of an actor now stands at p with the version v, the receipt b,
\* the register r and the minutes m; those of the others stay.
Becomes(a, p, v, b, r, m) ==
  /\ task' \in [Actors -> Task]
  /\ task'[a].at = p /\ task'[a].version = v /\ task'[a].receipt = b
  /\ task'[a].read = r /\ task'[a].minutes = m
  /\ \A o \in Actors \ {a} : task'[o] = task[o]

\* How the tasks change when one of them is set.
LEMMA TaskUpdates ==
  ASSUME task \in [Actors -> Task], NEW a \in Actors, NEW p \in Places
  PROVE  /\ task' = [task EXCEPT ![a] = Idle] => Becomes(a, "idle", 0, None, {}, None)
         /\ task' = [task EXCEPT ![a] = [Idle EXCEPT !.at = p]] => Becomes(a, p, 0, None, {}, None)
         /\ task' = [task EXCEPT ![a].at = p] =>
              Becomes(a, p, task[a].version, task[a].receipt, task[a].read, task[a].minutes)
         /\ \A m \in SUBSET Bids : task' = [task EXCEPT ![a].at = p, ![a].minutes = m] =>
              Becomes(a, p, task[a].version, task[a].receipt, task[a].read, m)
         /\ \A v \in Nat : task' = [task EXCEPT ![a].at = p, ![a].version = v] =>
              Becomes(a, p, v, task[a].receipt, task[a].read, task[a].minutes)
         /\ \A v \in Nat, r \in SUBSET Bids :
              task' = [task EXCEPT ![a].at = p, ![a].version = v, ![a].read = r] =>
              Becomes(a, p, v, task[a].receipt, r, task[a].minutes)
         /\ \A v \in Nat, r \in SUBSET Bids, b \in Bids :
              task' = [task EXCEPT ![a].at = p, ![a].version = v, ![a].receipt = b, ![a].read = r] =>
              Becomes(a, p, v, b, r, task[a].minutes)
<1> USE DEF Becomes, Task
<1>1. task' = [task EXCEPT ![a] = Idle] => Becomes(a, "idle", 0, None, {}, None)
  BY IdleType DEF Idle
<1>2. task' = [task EXCEPT ![a] = [Idle EXCEPT !.at = p]] => Becomes(a, p, 0, None, {}, None)
  BY DEF Idle
<1>3. task' = [task EXCEPT ![a].at = p] =>
        Becomes(a, p, task[a].version, task[a].receipt, task[a].read, task[a].minutes)
  OBVIOUS
<1>4. ASSUME NEW m \in SUBSET Bids, task' = [task EXCEPT ![a].at = p, ![a].minutes = m]
      PROVE  Becomes(a, p, task[a].version, task[a].receipt, task[a].read, m)
  BY <1>4
<1>5. ASSUME NEW v \in Nat, task' = [task EXCEPT ![a].at = p, ![a].version = v]
      PROVE  Becomes(a, p, v, task[a].receipt, task[a].read, task[a].minutes)
  BY <1>5
<1>6. ASSUME NEW v \in Nat, NEW r \in SUBSET Bids,
             task' = [task EXCEPT ![a].at = p, ![a].version = v, ![a].read = r]
      PROVE  Becomes(a, p, v, task[a].receipt, r, task[a].minutes)
  BY <1>6
<1>7. ASSUME NEW v \in Nat, NEW r \in SUBSET Bids, NEW b \in Bids,
             task' = [task EXCEPT ![a].at = p, ![a].version = v, ![a].receipt = b, ![a].read = r]
      PROVE  Becomes(a, p, v, b, r, task[a].minutes)
  BY <1>7
<1>8. QED
  BY <1>1, <1>2, <1>3, <1>4, <1>5, <1>6, <1>7, Zenon

\* What no step does to the case, whoever takes it: a step that leaves the
\* version alone leaves what was read under it alone.
Frame ==
  /\ version' \in {version, version + 1}
  /\ version' = version => /\ UNCHANGED <<state, register, addenda>>
                           /\ notices \subseteq notices'
  /\ email' = email /\ (rfqs > 0 => rfqs' > 0)
  /\ documents \subseteq documents'
  /\ handoffFile' \in {handoffFile, register}
  /\ opening # None => opening' = opening

LEMMA StepsFrame == ASSUME TenderingInv, [Next]_vars PROVE Frame
<1> USE DEF TenderingInv, TypeOK, CaseTypes, Frame, caseVars, publicationVars, addendumVars,
        registerVars, openingVars
<1>1. ASSUME UNCHANGED <<caseVars, publicationVars, addendumVars, registerVars, openingVars>>
      PROVE  Frame
  BY <1>1
<1>2. ASSUME NEW a \in Actors, SaveReceipt(a) PROVE Frame
  BY <1>2 DEF SaveReceipt, SaveCase
<1>3. CASE \E u \in Users : UserStep(u)
  <2> PICK u \in Users : UserStep(u)
    BY <1>3
  <2>1. CASE PublishSend(u) \/ PublishSave(u) \/ RecordPublication(u)
    BY <2>1 DEF PublishSend, Sent, PublishSave, RecordPublication, Publish, SaveCase
  <2>2. CASE \E days \in Extensions : SubmitAddendum(u, days)
    BY <2>2 DEF SubmitAddendum, SaveCase
  <2>3. CASE RejectCp3(u) \/ ApproveCp3Send(u) \/ ApproveCp3Save(u)
    BY <2>3 DEF RejectCp3, ApproveCp3Send, ApproveCp3Save, SaveCase
  <2>4. CASE HandSave(u)
    BY <1>2, <2>4 DEF HandSave, Actors
  <2>5. CASE (\E b \in Bids : HandRead(u, b)) \/ OpenBids(u) \/ WriteMinutes(u) \/ TaskStops(u)
    BY <1>1, <2>5 DEF HandRead, ReadRegister, OpenBids, WriteMinutes, TaskStops
  <2>6. CASE Cp4Seal(u)
    BY <2>6 DEF Cp4Seal
  <2>7. CASE Cp4Save(u)
    BY <2>7 DEF Cp4Save, SaveCase, VersionUnchanged, TaskSound, Actors, OpeningSound
  <2>8. CASE CreateEvaluation(u) \/ LinkEvaluation(u)
    BY <2>8 DEF CreateEvaluation, LinkEvaluation
  <2>9. QED
    BY <2>1, <2>2, <2>3, <2>4, <2>5, <2>6, <2>7, <2>8 DEF UserStep
<1>4. CASE MailSave
  BY <1>2, <1>4 DEF MailSave, Actors
<1>5. CASE Fetch \/ (\E b \in Bids : MailRead(b) \/ MailSkipped(b)) \/ MailRequest \/ Scan
  BY <1>1, <1>5 DEF Fetch, MailRead, ReadRegister, MailSkipped, MailRequest, Scan
<1>6. CASE (\E b \in Bids : SupplierMails(b)) \/ Tick \/ PollFails \/ Restart \/ UNCHANGED vars
  BY <1>1, <1>6 DEF SupplierMails, Tick, PollFails, Restart, vars
<1>7. QED
  BY <1>3, <1>4, <1>5, <1>6 DEF Next, MailroomStep

\* A request that did not move stays sound.
LEMMA OthersSound ==
  ASSUME TenderingInv, Frame, NEW o \in Actors, task'[o] = task[o]
  PROVE  TaskSound(o)'
<1>1. task[o].version \in Nat /\ version \in Nat
  BY DEF TenderingInv, TypeOK, CaseTypes, Task
<1>2. TaskSound(o) /\ register = documents
  BY DEF TenderingInv, OpeningSound, RegisterMatchesDocuments
<1>3. QED
  BY <1>1, <1>2 DEF Frame, TaskSound

\* A request that begins, ends or moves on is sound at its new place.
LEMMA TasksKept ==
  ASSUME TenderingInv, [Next]_vars
  PROVE  task' \in [Actors -> Task] /\ \A a \in Actors : TaskSound(a)'
<1> DEFINE Goal == task' \in [Actors -> Task] /\ \A a \in Actors : TaskSound(a)'
<1>0. /\ Frame /\ task \in [Actors -> Task] /\ version \in Nat /\ register \in SUBSET Bids
      /\ register = documents /\ rfqs \in Nat
      /\ opening' # None <=> state' = "completed"
      /\ \A a \in Actors : TaskSound(a)
  BY StepsFrame, OpeningSoundKept
     DEF TenderingInv, TypeOK, CaseTypes, ReceptionTypes, OpeningSound, RegisterMatchesDocuments
<1>a. ASSUME NEW a \in Actors, NEW p, NEW v, NEW b, NEW r, NEW m, Becomes(a, p, v, b, r, m),
             TaskSound(a)'
      PROVE  Goal
  BY <1>0, <1>a, OthersSound DEF Becomes
<1>b. ASSUME UNCHANGED task PROVE Goal
  BY <1>0, <1>b, OthersSound
<1>c. ASSUME NEW a \in Actors, task' = [task EXCEPT ![a] = Idle] PROVE Goal
  <2>1. Becomes(a, "idle", 0, None, {}, None)
    BY <1>0, <1>c, TaskUpdates DEF Places
  <2>2. TaskSound(a)'
    BY <1>0, <2>1 DEF TaskSound, Becomes, Frame
  <2>3. QED
    BY <1>a, <2>1, <2>2
<1> HIDE DEF Goal
<1>1. ASSUME NEW u \in Users, PublishSend(u) PROVE Goal
  <2>1. Becomes(u, "publish", version, task[u].receipt, task[u].read, task[u].minutes)
    BY <1>0, <1>1, TaskUpdates DEF PublishSend, Places, Actors
  <2>2. TaskSound(u)'
    BY <1>0, <1>1, <2>1 DEF PublishSend, Sent, Actors, TaskSound, Becomes, Frame, caseVars
  <2>3. QED
    BY <1>a, <2>1, <2>2 DEF Actors
<1>2. ASSUME NEW u \in Users, ApproveCp3Send(u) PROVE Goal
  <2>1. Becomes(u, "cp3", version, task[u].receipt, task[u].read, task[u].minutes)
    BY <1>0, <1>2, TaskUpdates DEF ApproveCp3Send, MayDecideCp3, Places, Actors
  <2>2. TaskSound(u)'
    BY <1>0, <1>2, <2>1 DEF ApproveCp3Send, MayDecideCp3, Actors, TaskSound, Becomes, Frame, caseVars, addendumVars
  <2>3. QED
    BY <1>a, <2>1, <2>2 DEF Actors
<1>3. ASSUME NEW u \in Users, NEW b \in Bids, HandRead(u, b) PROVE Goal
  <2>1. Becomes(u, "record", version, b, register, task[u].minutes)
    BY <1>0, <1>3, TaskUpdates DEF HandRead, ReadRegister, Places, Actors
  <2>2. TaskSound(u)'
    BY <1>0, <1>3, <2>1 DEF HandRead, ReadRegister, Actors, TaskSound, Becomes, Frame, caseVars, registerVars
  <2>3. QED
    BY <1>a, <2>1, <2>2 DEF Actors
<1>4. ASSUME NEW u \in Users, WriteMinutes(u) PROVE Goal
  <2>1. Becomes(u, "minutes", task[u].version, task[u].receipt, task[u].read, register)
    BY <1>0, <1>4, TaskUpdates DEF WriteMinutes, Places, Actors
  <2>2. TaskSound(u)'
    BY <1>0, <1>4, <2>1 DEF WriteMinutes, Actors, TaskSound, Becomes, Frame, caseVars, registerVars
  <2>3. QED
    BY <1>a, <2>1, <2>2 DEF Actors
<1>5. ASSUME NEW u \in Users, Cp4Seal(u) PROVE Goal
  <2>1. Becomes(u, "open", version, task[u].receipt, register, task[u].minutes)
    BY <1>0, <1>5, TaskUpdates DEF Cp4Seal, Places, Actors
  <2>2. TaskSound(u)'
    BY <1>0, <1>5, <2>1 DEF Cp4Seal, Actors, TaskSound, Becomes, Frame, caseVars, registerVars
  <2>3. QED
    BY <1>a, <2>1, <2>2 DEF Actors
<1>6. ASSUME NEW u \in Users, Cp4Save(u) PROVE Goal
  <2>1. Becomes(u, "handoff", 0, None, {}, None)
    BY <1>0, <1>6, TaskUpdates DEF Cp4Save, SaveCase, Places, Actors
  <2>2. TaskSound(u)'
    BY <1>0, <1>6, <2>1 DEF Cp4Save, SaveCase, Actors, TaskSound, Becomes, Frame, caseVars
  <2>3. QED
    BY <1>a, <2>1, <2>2 DEF Actors
<1>7. ASSUME NEW u \in Users, CreateEvaluation(u) PROVE Goal
  <2>1. Becomes(u, "link", task[u].version, task[u].receipt, task[u].read, task[u].minutes)
    BY <1>0, <1>7, TaskUpdates DEF CreateEvaluation, Places, Actors
  <2>2. TaskSound(u)'
    BY <1>0, <1>7, <2>1 DEF CreateEvaluation, Actors, TaskSound, Becomes, Frame, caseVars
  <2>3. QED
    BY <1>a, <2>1, <2>2 DEF Actors
<1>8. ASSUME NEW u \in Users,
             \/ PublishSave(u) \/ ApproveCp3Save(u) \/ HandSave(u) \/ LinkEvaluation(u)
             \/ TaskStops(u)
      PROVE  Goal
  BY <1>c, <1>8 DEF PublishSave, ApproveCp3Save, HandSave, LinkEvaluation, TaskStops, Actors
<1>9. ASSUME NEW u \in Users,
             \/ RecordPublication(u) \/ RejectCp3(u) \/ OpenBids(u)
             \/ \E days \in Extensions : SubmitAddendum(u, days)
      PROVE  Goal
  BY <1>b, <1>9 DEF RecordPublication, RejectCp3, OpenBids, SubmitAddendum
<1>10. ASSUME Fetch PROVE Goal
  <2>1. Becomes(Mailroom, "ingest", task[Mailroom].version, task[Mailroom].receipt, task[Mailroom].read, task[Mailroom].minutes)
    BY <1>0, <1>10, TaskUpdates DEF Fetch, Places, Actors
  <2>2. TaskSound(Mailroom)'
    BY <1>0, <1>10, <2>1 DEF Fetch, Actors, TaskSound, Becomes, Frame, caseVars
  <2>3. QED
    BY <1>a, <2>1, <2>2 DEF Actors
<1>11. ASSUME NEW b \in Bids, MailRead(b) PROVE Goal
  <2>1. Becomes(Mailroom, "record", version, b, register, task[Mailroom].minutes)
    BY <1>0, <1>11, TaskUpdates DEF MailRead, ReadRegister, Places, Actors
  <2>2. TaskSound(Mailroom)'
    BY <1>0, <1>11, <2>1 DEF MailRead, ReadRegister, Actors, TaskSound, Becomes, Frame, caseVars, registerVars
  <2>3. QED
    BY <1>a, <2>1, <2>2 DEF Actors
<1>12. ASSUME NEW b \in Bids, MailSkipped(b) PROVE Goal
  <2>1. Becomes(Mailroom, "ingest", 0, None, {}, None)
    BY <1>0, <1>12, TaskUpdates DEF MailSkipped, Places, Actors
  <2>2. TaskSound(Mailroom)'
    BY <1>0, <1>12, <2>1 DEF MailSkipped, Actors, TaskSound, Becomes, Frame, caseVars
  <2>3. QED
    BY <1>a, <2>1, <2>2 DEF Actors
<1>13. ASSUME MailSave PROVE Goal
  <2>1. Becomes(Mailroom, "request", 0, None, {}, None)
    BY <1>0, <1>13, TaskUpdates DEF MailSave, Places, Actors
  <2>2. TaskSound(Mailroom)'
    BY <1>0, <1>13, <2>1 DEF MailSave, Actors, TaskSound, Becomes, Frame, caseVars
  <2>3. QED
    BY <1>a, <2>1, <2>2 DEF Actors
<1>14. ASSUME MailRequest PROVE Goal
  <2>1. Becomes(Mailroom, "ingest", task[Mailroom].version, task[Mailroom].receipt, task[Mailroom].read, task[Mailroom].minutes)
    BY <1>0, <1>14, TaskUpdates DEF MailRequest, Places, Actors
  <2>2. TaskSound(Mailroom)'
    BY <1>0, <1>14, <2>1 DEF MailRequest, Actors, TaskSound, Becomes, Frame, caseVars
  <2>3. QED
    BY <1>a, <2>1, <2>2 DEF Actors
<1>15. ASSUME Scan \/ PollFails PROVE Goal
  BY <1>c, <1>15 DEF Scan, PollFails, Actors
<1>16. ASSUME Restart PROVE Goal
  <2>1. task' = [a \in Actors |-> Idle]
    BY <1>16 DEF Restart
  <2>2. \A a \in Actors : TaskSound(a)'
    BY <1>0, <2>1 DEF TaskSound, Idle, Frame
  <2>3. QED
    BY <2>1, <2>2, IdleType DEF Goal
<1>17. ASSUME (\E b \in Bids : SupplierMails(b)) \/ Tick \/ UNCHANGED vars PROVE Goal
  BY <1>b, <1>17 DEF SupplierMails, Tick, vars
<1>18. QED
  <2>1. Goal
    BY <1>1, <1>2, <1>3, <1>4, <1>5, <1>6, <1>7, <1>8, <1>9, <1>10, <1>11, <1>12, <1>13, <1>14,
       <1>15, <1>16, <1>17 DEF Next, UserStep, MailroomStep
  <2>2. QED
    BY <2>1 DEF Goal

-----------------------------------------------------------------------------
(* Theorems *)

\* Everything below follows from an invariant that every step of every handler,
\* of the mailroom and of the clock preserves, and every failure.
THEOREM TenderingInvariant == Spec => []TenderingInv
<1>1. ASSUME TenderingInv, [Next]_vars PROVE TenderingInv'
  BY <1>1, CaseTypesKept, CaseSoundKept, ReceptionTypesKept, OpeningTypesKept, OpeningSoundKept,
     TasksKept DEF TenderingInv, TypeOK
<1>2. QED
  BY TenderingInit, <1>1, PTL DEF Spec

\* The case, its register, its opening and its requests keep their types.
THEOREM TenderingTypes == Spec => []TypeOK
<1>1. TenderingInv => TypeOK
  BY DEF TenderingInv
<1>2. QED
  BY TenderingInvariant, <1>1, PTL

\* resolve_cp3: the closing moment is the solicitation window after publication
\* plus the days signed at CP3, whoever decides what and whichever save loses.
THEOREM ClosingMomentSigned == Spec => []ClosingMomentIsSigned
<1>1. TenderingInv => ClosingMomentIsSigned
  BY DEF TenderingInv, CaseSound
<1>2. QED
  BY TenderingInvariant, <1>1, PTL

\* An automatic publication has its RFQ e-mail, and every approved addendum one
\* of its own, though the e-mails leave before the saves and saves may fail.
THEOREM RecordedSent == Spec => []RecordedWasSent
<1>1. TenderingInv => RecordedWasSent
  <2> SUFFICES ASSUME TenderingInv PROVE RecordedWasSent
    OBVIOUS
  <2> USE ConstantsAssumption DEF TenderingInv, TypeOK, CaseTypes, CaseSound
  <2>1. IsFiniteSet(notices)
    <3>1. IsFiniteSet(1..MaxAddenda)
      BY FS_Interval
    <3>2. QED
      BY <3>1, FS_Subset
  <2>2. Cardinality(notices) \in Nat
        /\ Cardinality(notices \ {addenda}) \in {Cardinality(notices), Cardinality(notices) - 1}
    BY <2>1, FS_CardinalityType, FS_RemoveElement
  <2>3. QED
    BY <2>2 DEF RecordedWasSent
<1>2. QED
  BY TenderingInvariant, <1>1, PTL

\* RecordPreparationSubmissionHandler rewrites the register as a whole; the
\* version check keeps two recorders from losing a bid.
THEOREM RegisterComplete == Spec => []RegisterMatchesDocuments
<1>1. TenderingInv => RegisterMatchesDocuments
  BY DEF TenderingInv, OpeningSound
<1>2. QED
  BY TenderingInvariant, <1>1, PTL

\* CP4 opens every recorded bid exactly once, and evaluation gets those bids
\* from whoever opened them.
THEOREM OpenedIsEvaluated == Spec => []EvaluatesWhatWasOpened
<1>1. TenderingInv => EvaluatesWhatWasOpened
  BY DEF TenderingInv, OpeningSound
<1>2. QED
  BY TenderingInvariant, <1>1, PTL

-----------------------------------------------------------------------------
(* Rework-frequency support *)

ReturnRow == [at : Nat, voidedBy : Supporters \union {"nobody"}]
ExplanationRow ==
    [status : {"none", "pending", "approved", "rejected"}, by : Supporters \union {"nobody"},
     at : Nat, counted : SUBSET Nat]

\* The types of the records, and who may be about to decide.
ReworkRecords ==
    /\ ReworkTypeOK
    /\ returns \in Seq(ReturnRow)
    /\ expl \in [Explanations -> ExplanationRow]
    /\ held \in [Supporters -> Explanations \union {"nothing"}]
    /\ \A d \in Supporters : held[d] # "nothing" => d # Author

LEMMA ReworkStart == ReworkInit => ReworkRecords
  BY ReworkAssumption DEF ReworkInit, ReworkRecords, ReworkTypeOK, NoExplanation, ExplanationRow

\* A return is added at the end, dated today.
LEMMA ReturnAdded ==
  ASSUME ReworkRecords, ReturnCase
  PROVE  /\ returns' \in Seq(ReturnRow) /\ Len(returns') = Len(returns) + 1
         /\ \A i \in 1..Len(returns) : returns'[i] = returns[i]
         /\ returns'[Len(returns) + 1].at = today
<1> DEFINE e == [at |-> today, voidedBy |-> "nobody"]
<1>1. e \in ReturnRow /\ e.at = today
  BY ReworkAssumption DEF ReturnRow, ReworkRecords, ReworkTypeOK
<1>2. returns' = Append(returns, e) /\ returns \in Seq(ReturnRow)
  BY DEF ReturnCase, ReworkRecords
<1> HIDE DEF e
<1>3. QED
  BY <1>1, <1>2, AppendProperties

\* Voiding a return names who voided it and changes nothing else.
LEMMA ReturnVoided ==
  ASSUME ReworkRecords, NEW d \in Supporters, NEW i \in DOMAIN returns, Void(d, i)
  PROVE  /\ returns' \in Seq(ReturnRow) /\ Len(returns') = Len(returns)
         /\ \A j \in DOMAIN returns : /\ returns'[j].at = returns[j].at
                                      /\ j # i => returns'[j] = returns[j]
         /\ returns[i].voidedBy = "nobody" /\ returns'[i].voidedBy = d
<1> DEFINE e == [returns[i] EXCEPT !.voidedBy = d]
<1>1. /\ returns \in Seq(ReturnRow) /\ i \in 1..Len(returns)
      /\ DOMAIN returns = 1..Len(returns) /\ returns[i] \in ReturnRow
  BY LenProperties, ElementOfSeq DEF ReworkRecords
<1>2. e \in ReturnRow /\ e.at = returns[i].at /\ e.voidedBy = d
  BY <1>1 DEF ReturnRow
<1>3. returns' = [returns EXCEPT ![i] = e] /\ returns[i].voidedBy = "nobody"
  BY DEF Void
<1> HIDE DEF e
<1>4. QED
  BY <1>1, <1>2, <1>3, ExceptSeq

LEMMA ReworkKept == ASSUME ReworkRecords, [ReworkNext]_reworkVars PROVE ReworkRecords'
<1> USE ReworkAssumption DEF ReworkRecords
<1>0. /\ today \in Nat /\ submitted \in Nat
      /\ \A i \in DOMAIN returns : returns[i].at \in Nat /\ returns[i].at =< today
      /\ \A x \in Explanations : expl[x].counted \subseteq DOMAIN returns
  <2>1. \A i \in DOMAIN returns : returns[i] \in ReturnRow
    OBVIOUS
  <2>2. QED
    BY <2>1 DEF ReworkTypeOK, ReturnRow
<1>1. CASE require_not_blocked
  BY <1>1 DEF require_not_blocked, ReworkTypeOK
<1>2. CASE File \/ ApproveCase
  BY <1>2 DEF File, ApproveCase, ReworkTypeOK
<1>3. CASE ReturnCase
  <2>1. submitted' = submitted - 1 /\ submitted > 0 /\ UNCHANGED <<today, expl, held>>
    BY <1>3 DEF ReturnCase
  <2>2. DOMAIN returns = 1..Len(returns) /\ DOMAIN returns' = 1..(Len(returns) + 1)
        /\ Len(returns) \in Nat
    BY <1>3, ReturnAdded, LenProperties
  <2>3. /\ returns' \in Seq(ReturnRow)
        /\ DOMAIN returns \subseteq DOMAIN returns'
        /\ \A i \in DOMAIN returns' : returns'[i].at =< today
    <3>1. /\ returns' \in Seq(ReturnRow)
          /\ \A i \in 1..Len(returns) : returns'[i] = returns[i]
          /\ returns'[Len(returns) + 1].at = today
      BY <1>3, ReturnAdded
    <3>2. ASSUME NEW i \in DOMAIN returns' PROVE returns'[i].at =< today
      <4>1. CASE i = Len(returns) + 1
        BY <1>0, <3>1, <4>1
      <4>2. CASE i # Len(returns) + 1
        <5>1. i \in 1..Len(returns)
          BY <2>2, <4>2
        <5>2. QED
          BY <1>0, <2>2, <3>1, <5>1
      <4>3. QED
        BY <4>1, <4>2
    <3>3. QED
      BY <2>2, <3>1, <3>2
  <2>4. ReworkTypeOK'
    <3>1. submitted' \in 0..MaxOpenCases /\ today' \in 0..LastDay
      BY <2>1 DEF ReworkTypeOK
    <3>2. \A x \in Explanations : expl[x].counted \subseteq DOMAIN returns'
      BY <1>0, <2>3
    <3>3. QED
      BY <2>1, <2>3, <3>1, <3>2, Zenon DEF ReworkTypeOK
  <2>5. QED
    BY <2>1, <2>3, <2>4
<1>4. CASE NextDay
  <2>1. today' \in 0..LastDay /\ today' = today + 1 /\ UNCHANGED <<submitted, returns, expl, held>>
    BY <1>0, <1>4 DEF NextDay, ReworkTypeOK
  <2>2. \A i \in DOMAIN returns' : returns'[i].at =< today'
    BY <1>0, <2>1
  <2>3. QED
    BY <2>1, <2>2 DEF ReworkTypeOK
<1>5. ASSUME NEW x \in Explanations, SubmitExplanation(x) PROVE ReworkRecords'
  <2>1. \A n \in Nat : _counts_within(n) \subseteq DOMAIN returns
    BY DEF _counts_within, Considered
  <2>2. PICK c \in SUBSET (DOMAIN returns) :
          expl' = [expl EXCEPT ![x] = [status |-> "pending", by |-> "nobody", at |-> today,
                                       counted |-> c]]
    <3>1. counted_event_ids \in SUBSET (DOMAIN returns)
      BY <2>1 DEF counted_event_ids
    <3>2. QED
      BY <1>5, <3>1 DEF SubmitExplanation, Explain
  <2>3. QED
    BY <1>5, <2>2 DEF SubmitExplanation, ReworkTypeOK, ExplanationRow
<1>6. ASSUME NEW d \in Supporters, NEW x \in Explanations, ReadExplanation(d, x)
      PROVE  ReworkRecords'
  BY <1>6 DEF ReadExplanation, ReworkTypeOK
<1>7. ASSUME NEW d \in Supporters, NEW approve \in BOOLEAN, SaveDecision(d, approve)
      PROVE  ReworkRecords'
  <2>1. CASE expl' = expl
    BY <1>7, <2>1 DEF SaveDecision, ReworkTypeOK
  <2>2. CASE expl' # expl
    <3> DEFINE x == held[d]
    <3>1. /\ x \in Explanations /\ d # Author /\ expl[x].status = "pending"
          /\ expl' = [expl EXCEPT ![x].status = IF approve THEN "approved" ELSE "rejected",
                                  ![x].by = d, ![x].at = today]
          /\ held' = [held EXCEPT ![d] = "nothing"]
          /\ UNCHANGED <<today, submitted, returns>>
      BY <1>7, <2>2 DEF SaveDecision
    <3> HIDE DEF x
    <3>2. /\ expl'[x].status \in {"approved", "rejected"} /\ expl'[x].by = d
          /\ expl'[x].counted = expl[x].counted
          /\ \A y \in Explanations \ {x} : expl'[y] = expl[y]
      BY <3>1 DEF ExplanationRow
    <3>3. expl' \in [Explanations -> ExplanationRow]
      <4>1. [[[expl[x] EXCEPT !.status = IF approve THEN "approved" ELSE "rejected"]
                     EXCEPT !.by = d] EXCEPT !.at = today] \in ExplanationRow
        BY <1>0, <3>1 DEF ExplanationRow
      <4>2. QED
        BY <3>1, <4>1
    <3>4. \A y \in Explanations :
            /\ expl'[y].status \in {"none", "pending", "approved", "rejected"}
            /\ expl'[y].status \in {"approved", "rejected"} <=> expl'[y].by \in Supporters \ {Author}
            /\ expl'[y].counted \subseteq DOMAIN returns'
      BY <3>1, <3>2 DEF ReworkTypeOK
    <3>5. ReworkTypeOK'
      BY <3>1, <3>4, Zenon DEF ReworkTypeOK
    <3>6. QED
      BY <3>1, <3>3, <3>5
  <2>3. QED
    BY <2>1, <2>2
<1>8. ASSUME NEW d \in Supporters, NEW i \in DOMAIN returns, Void(d, i) PROVE ReworkRecords'
  <2>1. UNCHANGED <<today, submitted, expl, held>>
    BY <1>8 DEF Void
  <2>2. /\ returns' \in Seq(ReturnRow)
        /\ DOMAIN returns' = DOMAIN returns
        /\ \A j \in DOMAIN returns : returns'[j].at = returns[j].at
    BY <1>8, ReturnVoided, LenProperties
  <2>3. \A j \in DOMAIN returns' : returns'[j].at =< today'
    BY <1>0, <2>1, <2>2
  <2>4. ReworkTypeOK'
    BY <2>1, <2>2, <2>3, Zenon DEF ReworkTypeOK
  <2>5. QED
    BY <2>1, <2>2, <2>4
<1>9. CASE UNCHANGED reworkVars
  BY <1>9 DEF reworkVars, ReworkTypeOK
<1>10. QED
  BY <1>1, <1>2, <1>3, <1>4, <1>5, <1>6, <1>7, <1>8, <1>9 DEF ReworkNext

\* The types of the rework records, an explanation decided only by somebody
\* else than its author, and returns on record for what it counts.
THEOREM ReworkTypes == ReworkSpec => []ReworkRecords
  BY ReworkStart, ReworkKept, PTL DEF ReworkSpec

\* VoidReworkEventHandler and ExplanationRecord.decide: a return is voided
\* once and an explanation decided once, though both were read before.
THEOREM ReworkRecordsFinal == ReworkSpec => RecordsAreFinal
<1> DEFINE Final ==
      /\ \A i \in DOMAIN returns :
           returns'[i] # returns[i] => returns[i].voidedBy = "nobody" /\ returns'[i].at = returns[i].at
      /\ \A x \in Explanations : expl'[x] # expl[x] =>
           \/ expl[x].status = "none"
           \/ expl[x].status = "pending" /\ expl'[x].counted = expl[x].counted
<1>1. ASSUME ReworkRecords, [ReworkNext]_reworkVars PROVE [Final]_reworkVars
  <2>0. DOMAIN returns = 1..Len(returns) /\ expl \in [Explanations -> ExplanationRow]
    BY <1>1, LenProperties DEF ReworkRecords
  <2>1. CASE UNCHANGED <<returns, expl>>
    BY <2>1
  <2>2. CASE ReturnCase
    BY <1>1, <2>0, <2>2, ReturnAdded DEF ReturnCase
  <2>3. ASSUME NEW d \in Supporters, NEW i \in DOMAIN returns, Void(d, i) PROVE Final
    BY <1>1, <2>0, <2>3, ReturnVoided DEF Void
  <2>4. ASSUME NEW x \in Explanations, SubmitExplanation(x) PROVE Final
    BY <2>0, <2>4 DEF SubmitExplanation, Explain
  <2>5. ASSUME NEW d \in Supporters, NEW approve \in BOOLEAN, SaveDecision(d, approve) PROVE Final
    <3>1. held[d] \in Explanations
      BY <1>1, <2>5 DEF SaveDecision, ReworkRecords
    <3>2. returns' = returns
      BY <2>5 DEF SaveDecision
    <3>3. \A y \in Explanations : expl'[y] # expl[y] =>
            expl[y].status = "pending" /\ expl'[y].counted = expl[y].counted
      BY <2>0, <2>5, <3>1 DEF SaveDecision, ExplanationRow
    <3>4. QED
      BY <3>2, <3>3
  <2>6. QED
    BY <1>1, <2>1, <2>2, <2>3, <2>4, <2>5
    DEF ReworkNext, reworkVars, require_not_blocked, File, ApproveCase, NextDay, ReadExplanation
<1>2. QED
  BY ReworkTypes, <1>1, PTL DEF ReworkSpec, RecordsAreFinal

-----------------------------------------------------------------------------
\* Somebody is held back exactly when there are too many returns and no
\* explanation counts as approved.
LEMMA BlockedWhen == (Level = "block") <=> (assess_rework = "block" /\ ~has_approved_since)
  BY DEF Level

\* Fewer returns within the window bring no new block.
LEMMA FewerForgive ==
  ASSUME ReworkRecords, assess_rework' = "block",
         _counts_within(BlockDays)' \subseteq _counts_within(BlockDays)
  PROVE  assess_rework = "block"
<1> DEFINE early == _counts_within(BlockDays)
           late == _counts_within(BlockDays)'
<1>1. early \subseteq 1..Len(returns) /\ Len(returns) \in Nat
  BY LenProperties DEF ReworkRecords, _counts_within, Considered
<1>2. IsFiniteSet(early)
  <2>1. IsFiniteSet(1..Len(returns))
    BY <1>1, FS_Interval
  <2>2. QED
    BY <1>1, <2>1, FS_Subset
<1>3. /\ Cardinality(late) =< Cardinality(early)
      /\ Cardinality(late) \in Nat /\ Cardinality(early) \in Nat
  BY <1>2, FS_Subset, FS_CardinalityType
<1>4. BlockAt > 0 /\ Cardinality(late) >= BlockAt
  BY DEF assess_rework
<1>5. Cardinality(early) >= BlockAt
  BY <1>3, <1>4, ReworkAssumption
<1>6. QED
  BY <1>4, <1>5 DEF assess_rework

\* Only a return still within the window counts, so a day brings no new block.
LEMMA DaysOnlyForgive ==
  ASSUME ReworkRecords, NextDay, assess_rework' = "block"
  PROVE  assess_rework = "block"
<1>1. /\ returns' = returns /\ today' = today + 1 /\ today \in Nat
      /\ \A i \in DOMAIN returns : returns[i].at \in Nat
  <2>1. \A i \in DOMAIN returns : returns[i] \in ReturnRow
    BY LenProperties, ElementOfSeq DEF ReworkRecords
  <2>2. QED
    BY <2>1 DEF ReworkRecords, ReworkTypeOK, NextDay, ReturnRow
<1>2. _counts_within(BlockDays)' \subseteq _counts_within(BlockDays)
  BY <1>1, ReworkAssumption DEF _counts_within, Considered, Within
<1>3. QED
  BY <1>2, FewerForgive

\* A voided return no longer counts, so a correction brings no new block.
LEMMA VoidsOnlyForgive ==
  ASSUME ReworkRecords, NEW d \in Supporters, NEW i \in DOMAIN returns, Void(d, i), Level' = "block"
  PROVE  Level = "block"
<1>1. /\ UNCHANGED <<today, expl>> /\ DOMAIN returns' = DOMAIN returns
      /\ returns'[i].voidedBy = d /\ d # "nobody"
      /\ \A j \in DOMAIN returns : j # i => returns'[j] = returns[j]
  <2>1. DOMAIN returns = 1..Len(returns) /\ DOMAIN returns' = 1..Len(returns')
    BY ReturnVoided, LenProperties DEF ReworkRecords
  <2>2. QED
    BY <2>1, ReturnVoided, ReworkAssumption DEF Void
<1>2. _counts_within(BlockDays)' \subseteq _counts_within(BlockDays)
  BY <1>1 DEF _counts_within, Considered, Within
<1>3. (Level = "block")' <=> (assess_rework' = "block" /\ ~has_approved_since')
  BY DEF Level
<1>4. has_approved_since' <=> has_approved_since
  BY <1>1 DEF has_approved_since, Within
<1>5. QED
  BY <1>2, <1>3, <1>4, FewerForgive, BlockedWhen

\* Approvals that count stay when nothing but the explanations change, so a
\* decision only ever lets somebody go on.
LEMMA DecisionsOnlyHelp ==
  ASSUME ReworkRecords, UNCHANGED <<today, returns>>,
         \A x \in Explanations :
           expl[x].status = "approved" => expl'[x].status = "approved" /\ expl'[x].at = expl[x].at,
         Level' = "block"
  PROVE  Level = "block"
<1>1. assess_rework' = assess_rework
  BY DEF assess_rework, _counts_within, Considered, Within
<1>2. has_approved_since => has_approved_since'
  BY DEF has_approved_since, Within
<1>3. (Level = "block")' <=> (assess_rework' = "block" /\ ~has_approved_since')
  BY DEF Level
<1>4. QED
  BY <1>1, <1>2, <1>3, BlockedWhen

\* ReworkGuard: nothing but a return, or the end of the window of an approval,
\* starts to hold the author back.
THEOREM BlocksStartByReturn == ReworkSpec => BlockStartsByReturn
<1> DEFINE Starts == Level # "block" /\ Level' = "block" =>
      \/ Len(returns') > Len(returns)
      \/ \E x \in Explanations :
           expl[x].status = "approved" /\ today = expl[x].at + Span /\ today' > today
<1>1. ASSUME ReworkRecords, [ReworkNext]_reworkVars PROVE [Starts]_reworkVars
  <2>0. expl \in [Explanations -> ExplanationRow]
    BY <1>1 DEF ReworkRecords
  <2>1. ASSUME UNCHANGED <<today, returns, expl>> PROVE Starts
    BY <1>1, <2>1, DecisionsOnlyHelp
  <2>2. ASSUME ReturnCase PROVE Starts
    <3>1. Len(returns) \in Nat /\ Len(returns') = Len(returns) + 1
      BY <1>1, <2>2, ReturnAdded, LenProperties DEF ReworkRecords
    <3>2. QED
      BY <3>1
  <2>3. ASSUME NEW d \in Supporters, NEW i \in DOMAIN returns, Void(d, i) PROVE Starts
    BY <1>1, <2>3, VoidsOnlyForgive
  <2>4. ASSUME NEW x \in Explanations, SubmitExplanation(x) PROVE Starts
    <3>1. \A y \in Explanations :
            expl[y].status = "approved" => expl'[y] = expl[y]
      BY <2>0, <2>4 DEF SubmitExplanation, Explain
    <3>2. UNCHANGED <<today, returns>>
      BY <2>4 DEF SubmitExplanation
    <3>3. QED
      BY <1>1, <3>1, <3>2, DecisionsOnlyHelp
  <2>5. ASSUME NEW d \in Supporters, NEW approve \in BOOLEAN, SaveDecision(d, approve) PROVE Starts
    <3>1. \A y \in Explanations : expl[y].status = "approved" => expl'[y] = expl[y]
      BY <2>0, <2>5 DEF SaveDecision, ExplanationRow
    <3>2. UNCHANGED <<today, returns>>
      BY <2>5 DEF SaveDecision
    <3>3. QED
      BY <1>1, <3>1, <3>2, DecisionsOnlyHelp
  <2>6. ASSUME NextDay PROVE Starts
    <3> SUFFICES ASSUME Level # "block", Level' = "block"
                 PROVE  \E x \in Explanations :
                          expl[x].status = "approved" /\ today = expl[x].at + Span /\ today' > today
      OBVIOUS
    <3>1. (Level = "block")' <=> (assess_rework' = "block" /\ ~has_approved_since')
      BY DEF Level
    <3>2. has_approved_since /\ ~has_approved_since'
      BY <1>1, <2>6, <3>1, DaysOnlyForgive, BlockedWhen
    <3>3. PICK x \in Explanations : expl[x].status = "approved" /\ Within(expl[x].at, Span)
      BY <3>2 DEF has_approved_since
    <3>4. expl' = expl /\ today' = today + 1 /\ today \in Nat /\ Span \in Nat /\ expl[x].at \in Nat
      BY <1>1, <2>0, <2>6, ReworkAssumption
      DEF NextDay, ReworkRecords, ReworkTypeOK, Span, ExplanationRow
    <3>5. ~(expl[x].at + Span >= today + 1)
      BY <3>2, <3>3, <3>4 DEF has_approved_since, Within, Span
    <3>6. QED
      BY <3>3, <3>4, <3>5 DEF Within
  <2>7. QED
    BY <1>1, <2>1, <2>2, <2>3, <2>4, <2>5, <2>6
    DEF ReworkNext, reworkVars, require_not_blocked, File, ApproveCase, ReadExplanation
<1>2. QED
  BY ReworkTypes, <1>1, PTL DEF ReworkSpec, BlockStartsByReturn

-----------------------------------------------------------------------------
(* Evaluation *)

\* The runs have records with the fields of NotRun.
RunRecord(e) ==
  e \in [pc : {e.pc}, claims : {e.claims}, shown : {e.shown}, basis : {e.basis},
         decision : {e.decision}, alone : {e.alone}, read : {e.read}]
RunRecords == erun = [r \in EvalRuns |-> erun[r]] /\ \A r \in EvalRuns : RunRecord(erun[r])

\* The record of a run after a step of it, but for the assessment: the node p,
\* the supplier s and basis b shown, the decision d and what was read, w.
RunNow(r, p, s, b, d, w) ==
  /\ RunRecords'
  /\ \A o \in EvalRuns \ {r} : erun'[o] = erun[o]
  /\ erun'[r].pc = p /\ erun'[r].shown = s /\ erun'[r].basis = b /\ erun'[r].decision = d
  /\ erun'[r].read = w /\ erun'[r].alone = erun[r].alone

\* How the records of the runs change with a step of one of them.
LEMMA RunUpdates ==
  ASSUME RunRecords, NEW r \in EvalRuns, NEW e, e = erun[r], NEW p, NEW x, NEW y
  PROVE  /\ Goto(r, p) =>
              RunNow(r, p, e.shown, e.basis, e.decision, e.read)
         /\ erun' = [erun EXCEPT ![r].pc = p, ![r].claims = x] =>
              RunNow(r, p, e.shown, e.basis, e.decision, e.read)
         /\ erun' = [erun EXCEPT ![r].pc = p, ![r].shown = x, ![r].basis = y] =>
              RunNow(r, p, x, y, e.decision, e.read)
         /\ erun' = [erun EXCEPT ![r].pc = p, ![r].decision = x] =>
              RunNow(r, p, e.shown, e.basis, x, e.read)
         /\ erun' = [erun EXCEPT ![r].pc = p, ![r].read = x] =>
              RunNow(r, p, e.shown, e.basis, e.decision, x)
<1>0. RunRecord(e) /\ erun = [o \in EvalRuns |-> erun[o]] /\ \A o \in EvalRuns : RunRecord(erun[o])
  BY DEF RunRecords
<1>a. ASSUME NEW f, erun' = [erun EXCEPT ![r] = f], RunRecord(f)
      PROVE  RunRecords' /\ erun'[r] = f /\ \A o \in EvalRuns \ {r} : erun'[o] = erun[o]
  BY <1>0, <1>a DEF RunRecords
<1>1. ASSUME Goto(r, p) PROVE RunNow(r, p, e.shown, e.basis, e.decision, e.read)
  <2> DEFINE f == [e EXCEPT !.pc = p]
  <2>1. erun' = [erun EXCEPT ![r] = f]
    BY <1>0, <1>1 DEF Goto
  <2>2. RunRecord(f)
    BY <1>0 DEF RunRecord
  <2>3. /\ f.pc = p /\ f.shown = e.shown /\ f.basis = e.basis /\ f.decision = e.decision
        /\ f.read = e.read /\ f.alone = e.alone
    BY <1>0 DEF RunRecord
  <2> HIDE DEF f
  <2>4. QED
    BY <1>a, <2>1, <2>2, <2>3 DEF RunNow
<1>2. ASSUME erun' = [erun EXCEPT ![r].pc = p, ![r].claims = x] PROVE RunNow(r, p, e.shown, e.basis, e.decision, e.read)
  <2> DEFINE f == [[e EXCEPT !.pc = p] EXCEPT !.claims = x]
  <2>1. erun' = [erun EXCEPT ![r] = f]
    BY <1>0, <1>2
  <2>2. RunRecord(f)
    BY <1>0 DEF RunRecord
  <2>3. /\ f.pc = p /\ f.shown = e.shown /\ f.basis = e.basis /\ f.decision = e.decision
        /\ f.read = e.read /\ f.alone = e.alone
    BY <1>0 DEF RunRecord
  <2> HIDE DEF f
  <2>4. QED
    BY <1>a, <2>1, <2>2, <2>3 DEF RunNow
<1>3. ASSUME erun' = [erun EXCEPT ![r].pc = p, ![r].shown = x, ![r].basis = y] PROVE RunNow(r, p, x, y, e.decision, e.read)
  <2> DEFINE f == [[[e EXCEPT !.pc = p] EXCEPT !.shown = x] EXCEPT !.basis = y]
  <2>1. erun' = [erun EXCEPT ![r] = f]
    BY <1>0, <1>3
  <2>2. RunRecord(f)
    BY <1>0 DEF RunRecord
  <2>3. /\ f.pc = p /\ f.shown = x /\ f.basis = y /\ f.decision = e.decision
        /\ f.read = e.read /\ f.alone = e.alone
    BY <1>0 DEF RunRecord
  <2> HIDE DEF f
  <2>4. QED
    BY <1>a, <2>1, <2>2, <2>3 DEF RunNow
<1>4. ASSUME erun' = [erun EXCEPT ![r].pc = p, ![r].decision = x] PROVE RunNow(r, p, e.shown, e.basis, x, e.read)
  <2> DEFINE f == [[e EXCEPT !.pc = p] EXCEPT !.decision = x]
  <2>1. erun' = [erun EXCEPT ![r] = f]
    BY <1>0, <1>4
  <2>2. RunRecord(f)
    BY <1>0 DEF RunRecord
  <2>3. /\ f.pc = p /\ f.shown = e.shown /\ f.basis = e.basis /\ f.decision = x
        /\ f.read = e.read /\ f.alone = e.alone
    BY <1>0 DEF RunRecord
  <2> HIDE DEF f
  <2>4. QED
    BY <1>a, <2>1, <2>2, <2>3 DEF RunNow
<1>5. ASSUME erun' = [erun EXCEPT ![r].pc = p, ![r].read = x] PROVE RunNow(r, p, e.shown, e.basis, e.decision, x)
  <2> DEFINE f == [[e EXCEPT !.pc = p] EXCEPT !.read = x]
  <2>1. erun' = [erun EXCEPT ![r] = f]
    BY <1>0, <1>5
  <2>2. RunRecord(f)
    BY <1>0 DEF RunRecord
  <2>3. /\ f.pc = p /\ f.shown = e.shown /\ f.basis = e.basis /\ f.decision = e.decision
        /\ f.read = x /\ f.alone = e.alone
    BY <1>0 DEF RunRecord
  <2> HIDE DEF f
  <2>4. QED
    BY <1>a, <2>1, <2>2, <2>3 DEF RunNow
<1>6. QED
  BY <1>1, <1>2, <1>3, <1>4, <1>5

\* What a run may rely on.  A run that is alone keeps every other run out of
\* the shared tables, so they still hold what its approver was shown.
RunSound(r) ==
  LET e == erun[r]
  IN /\ e.pc \in Active \union {"idle", "done", "failed"}
     /\ e.pc \notin {"put", "close", "done", "failed"} => e.read = NoSupplier
     /\ e.pc \in {"review", "export", "put", "close"} => recommended.stored = TRUE
     /\ e.alone = TRUE /\ e.pc \in Active => \A o \in EvalRuns \ {r} : erun[o].pc \notin Active
     /\ e.alone = TRUE /\ e.pc \in {"review", "export"} =>
          recommended.top = e.shown /\ <<requirements, findings>> = e.basis
     /\ e.pc = "put" => /\ e.decision = "approved"
                        /\ e.alone = TRUE => e.read.top = e.shown /\ e.read.basis = e.basis
     /\ pack.by = r => /\ e.pc \in {"close", "done", "failed"}
                       /\ e.decision = "approved"
                       /\ e.alone = TRUE => pack.top = e.shown /\ pack.basis = e.basis
     /\ e.pc = "close" /\ e.read # NoSupplier => pack.by \in EvalRuns

\* What the tables and the object store hold.
TablesSound ==
  /\ tcase \in CaseStatus
  /\ requirements.by \in EvalRuns \union {NoSupplier}
  /\ findings.by \in EvalRuns \union {NoSupplier}
  /\ tcase \in {"recommendation_ready", "completed"} => recommended.stored = TRUE
  /\ tcase = "completed" => pack.by \in EvalRuns
  /\ pack = NoPack \/ pack.by \in EvalRuns

EvalInv == RunRecords /\ TablesSound /\ \A r \in EvalRuns : RunSound(r)

LEMMA EvalStart == EvalInit => EvalInv
<1> SUFFICES ASSUME EvalInit PROVE EvalInv
  OBVIOUS
<1> USE EvaluationAssumption DEF EvalInit
<1>1. RunRecords
  <2>1. RunRecord(NotRun)
    BY DEF RunRecord, NotRun
  <2>2. QED
    BY <2>1 DEF RunRecords
<1>2. TablesSound
  BY DEF TablesSound, CaseStatus, NoRow, NoPack
<1>3. \A r \in EvalRuns : RunSound(r)
  BY DEF RunSound, NotRun, NoPack, Active
<1>4. QED
  BY <1>1, <1>2, <1>3 DEF EvalInv

\* Another run than the one that moves: it is not alone, so what the mover
\* writes into the shared tables breaks none of what it relies on.
LEMMA OtherRunsSound ==
  ASSUME EvalInv, NEW r \in EvalRuns, erun[r].pc \in Active, NEW o \in EvalRuns \ {r},
         erun'[o] = erun[o],
         recommended.stored = TRUE => recommended'.stored = TRUE,
         pack' = pack \/ pack'.by = r
  PROVE  RunSound(o)'
<1>1. RunSound(o) /\ ~(erun[o].alone = TRUE /\ erun[o].pc \in Active)
  BY DEF EvalInv, RunSound
<1>2. QED
  BY <1>1 DEF RunSound, Active

LEMMA EvalKept == ASSUME EvalInv, [EvalNext]_evalVars PROVE EvalInv'
<1> USE EvaluationAssumption
<1>0. RunRecords /\ TablesSound /\ \A r \in EvalRuns : RunSound(r)
  BY DEF EvalInv
<1>a. ASSUME NEW r \in EvalRuns, erun[r].pc \in Active, RunRecords',
             \A o \in EvalRuns \ {r} : erun'[o] = erun[o],
             recommended.stored = TRUE => recommended'.stored = TRUE,
             pack' = pack \/ pack'.by = r, TablesSound', RunSound(r)'
      PROVE  EvalInv'
  BY <1>a, OtherRunsSound DEF EvalInv
<1>1. ASSUME NEW r \in EvalRuns, analyze(r) PROVE EvalInv'
  <2> DEFINE others == {o \in EvalRuns \ {r} : erun[o].pc \in Active}
             e == erun[r]
             f == [[e EXCEPT !.pc = "intake"] EXCEPT !.alone = (others = {})]
             g(o) == [erun[o] EXCEPT !.alone = FALSE]
  <2>1. /\ erun[r].pc = "idle" /\ tcase' = "analyzing"
        /\ UNCHANGED <<requirements, findings, recommended, pack>>
        /\ erun' = [o \in EvalRuns |->
              IF o = r THEN f ELSE IF o \in others THEN g(o) ELSE erun[o]]
    BY <1>1 DEF analyze, At
  <2>2. /\ RunRecord(f) /\ f.pc = "intake" /\ f.shown = e.shown /\ f.basis = e.basis
        /\ f.decision = e.decision /\ f.read = e.read
        /\ f.alone = (others = {})
    BY <1>0 DEF RunRecords, RunRecord
  <2>3. ASSUME NEW o \in EvalRuns
        PROVE  /\ RunRecord(g(o)) /\ g(o).alone = FALSE /\ g(o).pc = erun[o].pc
               /\ g(o).shown = erun[o].shown /\ g(o).basis = erun[o].basis
               /\ g(o).decision = erun[o].decision /\ g(o).read = erun[o].read
    BY <1>0 DEF RunRecords, RunRecord
  <2> HIDE DEF f, g
  <2>4. RunRecords'
    BY <1>0, <2>1, <2>2, <2>3 DEF RunRecords
  <2>5. TablesSound'
    BY <1>0, <2>1 DEF TablesSound, CaseStatus
  <2>6. \A o \in EvalRuns \ {r} : erun'[o].pc = erun[o].pc
    BY <2>1, <2>3
  <2>7. RunSound(r)'
    BY <1>0, <2>1, <2>2, <2>6 DEF RunSound, Active
  <2>8. ASSUME NEW o \in EvalRuns \ {r} PROVE RunSound(o)'
    <3>1. CASE o \in others
      <4>1. /\ erun'[o].alone = FALSE /\ erun'[o].pc = erun[o].pc
            /\ erun'[o].decision = erun[o].decision /\ erun'[o].read = erun[o].read
        BY <2>1, <2>3, <3>1
      <4>2. RunSound(o) /\ UNCHANGED <<recommended, pack>>
        BY <1>0, <2>1
      <4>3. QED
        BY <4>1, <4>2 DEF RunSound
    <3>2. CASE o \notin others
      <4>1. erun'[o] = erun[o] /\ erun[o].pc \notin Active
        BY <2>1, <3>2
      <4>2. QED
        BY <1>0, <2>1, <4>1 DEF RunSound, Active
    <3>3. QED
      BY <3>1, <3>2
  <2>9. QED
    BY <2>4, <2>5, <2>7, <2>8 DEF EvalInv
<1>2. ASSUME NEW r \in EvalRuns, intake_case(r) PROVE EvalInv'
  <2> DEFINE e == erun[r]
  <2>1. /\ e.pc = "intake" /\ RunNow(r, "matrix", e.shown, e.basis, e.decision, e.read)
        /\ UNCHANGED <<tcase, requirements, findings, recommended, pack>>
    BY <1>0, <1>2, RunUpdates DEF intake_case, At
  <2>2. RunSound(r)' /\ TablesSound'
    BY <1>0, <2>1 DEF RunSound, TablesSound, RunNow, Active
  <2>3. QED
    BY <1>a, <2>1, <2>2 DEF RunNow, Active
<1>3. ASSUME NEW r \in EvalRuns, build_requirement_matrix(r) PROVE EvalInv'
  <2> DEFINE e == erun[r]
  <2>1. /\ e.pc = "matrix"
        /\ \E p \in {"score", "failed"} : RunNow(r, p, e.shown, e.basis, e.decision, e.read)
        /\ requirements' = requirements \/ requirements'.by = r
        /\ UNCHANGED <<tcase, findings, recommended, pack>>
    <3>1. /\ e.pc = "matrix" /\ (Goto(r, "score") \/ Goto(r, "failed"))
          /\ UNCHANGED <<tcase, findings, recommended, pack>>
      BY <1>3, Zenon DEF build_requirement_matrix, At
    <3>2. requirements' = requirements
          \/ \E rows : requirements' = [by |-> r, rows |-> rows]
      BY <1>3, Zenon DEF build_requirement_matrix, replace_for_case
    <3>3. requirements' = requirements \/ requirements'.by = r
      BY <3>2
    <3>4. ASSUME NEW p, Goto(r, p) PROVE RunNow(r, p, e.shown, e.basis, e.decision, e.read)
      BY <1>0, <3>4, RunUpdates
    <3>5. QED
      BY <3>1, <3>3, <3>4, Zenon
  <2>2. RunSound(r)' /\ TablesSound'
    BY <1>0, <2>1 DEF RunSound, TablesSound, RunNow, Active
  <2>3. QED
    BY <1>a, <2>1, <2>2 DEF RunNow, Active
<1>4. ASSUME NEW r \in EvalRuns, score_compliance(r) PROVE EvalInv'
  <2> DEFINE e == erun[r]
  <2>1. /\ e.pc = "score" /\ RunNow(r, "gate", e.shown, e.basis, e.decision, e.read)
        /\ findings'.by = r
        /\ UNCHANGED <<tcase, requirements, recommended, pack>>
    <3>1. /\ e.pc = "score" /\ UNCHANGED <<tcase, requirements, recommended, pack>>
          /\ \E a : erun' = [erun EXCEPT ![r].pc = "gate", ![r].claims = a]
          /\ \E rows : findings' = [by |-> r, rows |-> rows]
      BY <1>4, Zenon DEF score_compliance, At, replace_for_case
    <3>2. ASSUME NEW a, erun' = [erun EXCEPT ![r].pc = "gate", ![r].claims = a]
          PROVE  RunNow(r, "gate", e.shown, e.basis, e.decision, e.read)
      BY <1>0, <3>2, RunUpdates
    <3>3. findings'.by = r
      BY <3>1
    <3>4. QED
      BY <3>1, <3>2, <3>3, Zenon
  <2>2. RunSound(r)' /\ TablesSound'
    BY <1>0, <2>1 DEF RunSound, TablesSound, RunNow, Active
  <2>3. QED
    BY <1>a, <2>1, <2>2 DEF RunNow, Active
<1>5. ASSUME NEW r \in EvalRuns, deterministic_compliance_gate(r) PROVE EvalInv'
  <2> DEFINE e == erun[r]
             basis == <<requirements, findings>>
  <2>1. /\ e.pc = "gate" /\ UNCHANGED <<requirements, findings, pack>>
        /\ \/ \E top :
                /\ RunNow(r, "review", top, basis, e.decision, e.read)
                /\ recommended'.stored = TRUE /\ recommended'.top = top
                /\ tcase' = "recommendation_ready"
           \/ /\ RunNow(r, "failed", e.shown, e.basis, e.decision, e.read)
              /\ UNCHANGED <<recommended, tcase>>
    <3>1. /\ e.pc = "gate" /\ UNCHANGED <<requirements, findings, pack>>
          /\ \/ \E top :
                  /\ erun' = [erun EXCEPT ![r].pc = "review", ![r].shown = top, ![r].basis = basis]
                  /\ \E ok : recommended' = [stored |-> TRUE, top |-> top, passed |-> ok]
                  /\ tcase' = "recommendation_ready"
             \/ Goto(r, "failed") /\ UNCHANGED <<recommended, tcase>>
      BY <1>5, Zenon DEF deterministic_compliance_gate, At, upsert
    <3>2. Goto(r, "failed") => RunNow(r, "failed", e.shown, e.basis, e.decision, e.read)
      BY <1>0, RunUpdates
    <3>3. ASSUME NEW top,
                 erun' = [erun EXCEPT ![r].pc = "review", ![r].shown = top, ![r].basis = basis]
          PROVE  RunNow(r, "review", top, basis, e.decision, e.read)
      <4> HIDE DEF basis
      <4>1. QED
        BY <1>0, <3>3, RunUpdates
    <3>4. ASSUME NEW top, \E ok : recommended' = [stored |-> TRUE, top |-> top, passed |-> ok]
          PROVE  recommended'.stored = TRUE /\ recommended'.top = top
      BY <3>4
    <3>5. QED
      BY <3>1, <3>2, <3>3, <3>4, Zenon
  <2>2. RunSound(r)' /\ TablesSound'
    <3>1. ASSUME NEW top, RunNow(r, "review", top, basis, e.decision, e.read),
                 recommended'.stored = TRUE, recommended'.top = top,
                 tcase' = "recommendation_ready"
          PROVE  RunSound(r)' /\ TablesSound'
      BY <1>0, <2>1, <3>1 DEF RunSound, TablesSound, RunNow, Active, CaseStatus
    <3>2. CASE RunNow(r, "failed", e.shown, e.basis, e.decision, e.read)
                 /\ UNCHANGED <<recommended, tcase>>
      BY <1>0, <2>1, <3>2 DEF RunSound, TablesSound, RunNow, Active, CaseStatus
    <3>3. QED
      BY <2>1, <3>1, <3>2
  <2>3. QED
    BY <1>a, <2>1, <2>2 DEF RunNow, Active
<1>6. ASSUME NEW r \in EvalRuns, human_review(r) PROVE EvalInv'
  <2> DEFINE e == erun[r]
  <2>1. /\ e.pc = "review"
        /\ \E d \in {"approved", "rejected"} : RunNow(r, "export", e.shown, e.basis, d, e.read)
        /\ UNCHANGED <<tcase, requirements, findings, recommended, pack>>
    BY <1>0, <1>6, RunUpdates DEF human_review, At
  <2>2. RunSound(r)' /\ TablesSound'
    BY <1>0, <2>1 DEF RunSound, TablesSound, RunNow, Active
  <2>3. QED
    BY <1>a, <2>1, <2>2 DEF RunNow, Active
<1>7. ASSUME NEW r \in EvalRuns, ExportRead(r) PROVE EvalInv'
  <2> DEFINE e == erun[r]
             w == [top |-> recommended.top, basis |-> <<requirements, findings>>]
  <2>1. /\ e.pc = "export"
        /\ \/ /\ e.decision = "approved"
              /\ RunNow(r, "put", e.shown, e.basis, e.decision, w)
           \/ RunNow(r, "close", e.shown, e.basis, e.decision, e.read)
        /\ UNCHANGED <<tcase, requirements, findings, recommended, pack>>
    BY <1>0, <1>7, RunUpdates DEF ExportRead, At
  <2>2. w.top = recommended.top /\ w.basis = <<requirements, findings>>
    OBVIOUS
  <2> HIDE DEF w
  <2>3. RunSound(r)' /\ TablesSound'
    BY <1>0, <2>1, <2>2 DEF RunSound, TablesSound, RunNow, Active
  <2>4. QED
    BY <1>a, <2>1, <2>3 DEF RunNow, Active
<1>8. ASSUME NEW r \in EvalRuns, ExportPut(r) PROVE EvalInv'
  <2> DEFINE e == erun[r]
  <2>1. /\ e.pc = "put" /\ RunNow(r, "close", e.shown, e.basis, e.decision, e.read)
        /\ pack'.by = r /\ pack'.top = e.read.top /\ pack'.basis = e.read.basis
        /\ UNCHANGED <<tcase, requirements, findings, recommended>>
    BY <1>0, <1>8, RunUpdates DEF ExportPut, At
  <2>2. RunSound(r)' /\ TablesSound'
    BY <1>0, <2>1 DEF RunSound, TablesSound, RunNow, Active
  <2>3. QED
    BY <1>a, <2>1, <2>2 DEF RunNow, Active
<1>9. ASSUME NEW r \in EvalRuns, close(r) PROVE EvalInv'
  <2> DEFINE e == erun[r]
  <2>1. /\ e.pc = "close" /\ RunNow(r, "done", e.shown, e.basis, e.decision, e.read)
        /\ tcase' = tcase \/ (tcase' = "completed" /\ e.read # NoSupplier)
        /\ UNCHANGED <<requirements, findings, recommended, pack>>
    BY <1>0, <1>9, RunUpdates DEF close, At
  <2>2. RunSound(r)' /\ TablesSound'
    BY <1>0, <2>1 DEF RunSound, TablesSound, RunNow, Active, CaseStatus
  <2>3. QED
    BY <1>a, <2>1, <2>2 DEF RunNow, Active
<1>10. ASSUME NEW r \in EvalRuns, EvalRaise(r) PROVE EvalInv'
  <2> DEFINE e == erun[r]
  <2>1. /\ e.pc \in Active \ {"review"}
        /\ RunNow(r, "failed", e.shown, e.basis, e.decision, e.read)
        /\ UNCHANGED <<tcase, requirements, findings, recommended, pack>>
    BY <1>0, <1>10, RunUpdates DEF EvalRaise, At
  <2>2. RunSound(r)' /\ TablesSound'
    BY <1>0, <2>1 DEF RunSound, TablesSound, RunNow, Active
  <2>3. QED
    BY <1>a, <2>1, <2>2 DEF RunNow
<1>11. ASSUME UNCHANGED evalVars PROVE EvalInv'
  BY <1>11 DEF evalVars, EvalInv, RunRecords, TablesSound, RunSound
<1>12. QED
  BY <1>1, <1>2, <1>3, <1>4, <1>5, <1>6, <1>7, <1>8, <1>9, <1>10, <1>11 DEF EvalNext, EvalNode

\* What every analysis of a case, and every pair of them, keeps.
THEOREM EvaluationInvariant == EvalSpec => []EvalInv
  BY EvalStart, EvalKept, PTL DEF EvalSpec

\* A case that waits for a human or is completed has a recommendation.
THEOREM EvaluationTypes == EvalSpec => []EvalTypeOK
<1>1. EvalInv => EvalTypeOK
  BY DEF EvalInv, TablesSound, RunSound, EvalTypeOK
<1>2. QED
  BY EvaluationInvariant, <1>1, PTL

\* export_evaluation_pack: the pack stems from an approved run and, if no other
\* run overlapped it, is what the approver saw; a completed case has a pack.
THEOREM ApprovedIsExported == EvalSpec => []ExportsWhatWasApproved
<1>1. EvalInv => ExportsWhatWasApproved
  <2> SUFFICES ASSUME EvalInv PROVE ExportsWhatWasApproved
    OBVIOUS
  <2>1. PackWasApproved
    BY DEF EvalInv, TablesSound, RunSound, PackWasApproved
  <2>2. CompletedHasPack
    BY EvaluationAssumption DEF EvalInv, TablesSound, CompletedHasPack, NoPack
  <2>3. QED
    BY <2>1, <2>2 DEF ExportsWhatWasApproved
<1>2. QED
  BY EvaluationInvariant, <1>1, PTL

Unscored == {"idle", "intake", "matrix", "score"}

\* The stored findings are the grounded assessment of the run that wrote them,
\* and a run that has come to the gate finds some.
FindingsGrounded ==
  /\ \A r \in EvalRuns : erun[r].pc = "gate" => findings.by \in EvalRuns
  /\ findings.by \in EvalRuns =>
       /\ erun[findings.by].pc \notin Unscored
       /\ \A n \in Named, c \in Codes :
            findings.rows[n][c] = IF erun[findings.by].claims[n][c] = Absent THEN Absent
                                  ELSE Finding(erun[findings.by].claims[n][c])

\* A step that assesses nothing keeps what every run has claimed, and takes no
\* run to the gate or back before it.
ClaimsKept ==
  /\ UNCHANGED findings
  /\ \A r \in EvalRuns : /\ erun'[r].claims = erun[r].claims
                         /\ erun'[r].pc = "gate" => erun[r].pc = "gate"
                         /\ erun[r].pc \notin Unscored => erun'[r].pc \notin Unscored

LEMMA ClaimUpdates ==
  ASSUME RunRecords, NEW r \in EvalRuns, UNCHANGED findings, NEW p, p # "gate",
         erun[r].pc \notin Unscored => p \notin Unscored, NEW x, NEW y,
         \/ Goto(r, p)
         \/ erun' = [erun EXCEPT ![r].pc = p, ![r].shown = x, ![r].basis = y]
         \/ erun' = [erun EXCEPT ![r].pc = p, ![r].decision = x]
         \/ erun' = [erun EXCEPT ![r].pc = p, ![r].read = x]
  PROVE  ClaimsKept
<1>0. RunRecord(erun[r]) /\ erun = [o \in EvalRuns |-> erun[o]]
  BY DEF RunRecords
<1>1. ASSUME NEW f, erun' = [erun EXCEPT ![r] = f], f.pc = p, f.claims = erun[r].claims
      PROVE  ClaimsKept
  BY <1>0, <1>1 DEF ClaimsKept
<1> DEFINE e == erun[r]
<1>2. CASE Goto(r, p)
  <2> DEFINE f == [e EXCEPT !.pc = p]
  <2>1. erun' = [erun EXCEPT ![r] = f]
    BY <1>0, <1>2 DEF Goto
  <2>2. f.pc = p /\ f.claims = e.claims
    BY <1>0 DEF RunRecord
  <2> HIDE DEF f
  <2>3. QED
    BY <1>1, <2>1, <2>2
<1>3. CASE erun' = [erun EXCEPT ![r].pc = p, ![r].shown = x, ![r].basis = y]
  <2> DEFINE f == [[[e EXCEPT !.pc = p] EXCEPT !.shown = x] EXCEPT !.basis = y]
  <2>1. erun' = [erun EXCEPT ![r] = f]
    BY <1>0, <1>3
  <2>2. f.pc = p /\ f.claims = e.claims
    BY <1>0 DEF RunRecord
  <2> HIDE DEF f
  <2>3. QED
    BY <1>1, <2>1, <2>2
<1>4. CASE erun' = [erun EXCEPT ![r].pc = p, ![r].decision = x]
  <2> DEFINE f == [[e EXCEPT !.pc = p] EXCEPT !.decision = x]
  <2>1. erun' = [erun EXCEPT ![r] = f]
    BY <1>0, <1>4
  <2>2. f.pc = p /\ f.claims = e.claims
    BY <1>0 DEF RunRecord
  <2> HIDE DEF f
  <2>3. QED
    BY <1>1, <2>1, <2>2
<1>5. CASE erun' = [erun EXCEPT ![r].pc = p, ![r].read = x]
  <2> DEFINE f == [[e EXCEPT !.pc = p] EXCEPT !.read = x]
  <2>1. erun' = [erun EXCEPT ![r] = f]
    BY <1>0, <1>5
  <2>2. f.pc = p /\ f.claims = e.claims
    BY <1>0 DEF RunRecord
  <2> HIDE DEF f
  <2>3. QED
    BY <1>1, <2>1, <2>2
<1>6. QED
  BY <1>2, <1>3, <1>4, <1>5

LEMMA ClaimSteps ==
  ASSUME RunRecords, [EvalNext]_evalVars
  PROVE  ClaimsKept \/ \E r \in EvalRuns : score_compliance(r)
<1>1. ASSUME NEW r \in EvalRuns, analyze(r) PROVE ClaimsKept
  <2> DEFINE others == {o \in EvalRuns \ {r} : erun[o].pc \in Active}
             f == [[erun[r] EXCEPT !.pc = "intake"] EXCEPT !.alone = (others = {})]
             g(o) == [erun[o] EXCEPT !.alone = FALSE]
  <2>1. /\ erun[r].pc = "idle" /\ UNCHANGED findings
        /\ erun' = [o \in EvalRuns |->
              IF o = r THEN f ELSE IF o \in others THEN g(o) ELSE erun[o]]
    BY <1>1 DEF analyze, At
  <2>2. f.pc = "intake" /\ f.claims = erun[r].claims
    BY DEF RunRecords, RunRecord
  <2>3. ASSUME NEW o \in EvalRuns PROVE g(o).pc = erun[o].pc /\ g(o).claims = erun[o].claims
    BY DEF RunRecords, RunRecord
  <2> HIDE DEF f, g, others
  <2>4. QED
    BY <2>1, <2>2, <2>3 DEF ClaimsKept, Unscored
<1>2. ASSUME NEW r \in EvalRuns, intake_case(r) PROVE ClaimsKept
  BY <1>2, ClaimUpdates DEF intake_case, At, Unscored
<1>3. ASSUME NEW r \in EvalRuns, build_requirement_matrix(r) PROVE ClaimsKept
  <2>1. erun[r].pc = "matrix" /\ UNCHANGED findings /\ (Goto(r, "score") \/ Goto(r, "failed"))
    BY <1>3, Zenon DEF build_requirement_matrix, At
  <2>2. QED
    BY <2>1, ClaimUpdates DEF Unscored
<1>4. ASSUME NEW r \in EvalRuns, deterministic_compliance_gate(r) PROVE ClaimsKept
  <2>1. /\ UNCHANGED findings
        /\ \/ \E x, y : erun' = [erun EXCEPT ![r].pc = "review", ![r].shown = x, ![r].basis = y]
           \/ Goto(r, "failed")
    BY <1>4, Zenon DEF deterministic_compliance_gate
  <2>2. ASSUME NEW x, NEW y,
               erun' = [erun EXCEPT ![r].pc = "review", ![r].shown = x, ![r].basis = y]
        PROVE  ClaimsKept
    <3>1. "review" # "gate" /\ "review" \notin Unscored
      BY DEF Unscored
    <3>2. QED
      BY <2>1, <2>2, <3>1, ClaimUpdates
  <2>3. ASSUME Goto(r, "failed") PROVE ClaimsKept
    BY <2>1, <2>3, ClaimUpdates DEF Unscored
  <2>4. QED
    BY <2>1, <2>2, <2>3
<1>5. ASSUME NEW r \in EvalRuns, human_review(r) PROVE ClaimsKept
  <2>1. UNCHANGED findings /\ "export" # "gate" /\ "export" \notin Unscored
    BY <1>5 DEF human_review, Unscored
  <2>2. PICK d \in {"approved", "rejected"} :
          erun' = [erun EXCEPT ![r].pc = "export", ![r].decision = d]
    BY <1>5 DEF human_review
  <2>3. QED
    BY <2>1, <2>2, ClaimUpdates
<1>6. ASSUME NEW r \in EvalRuns, ExportRead(r) PROVE ClaimsKept
  <2>1. /\ UNCHANGED findings
        /\ \/ \E x : erun' = [erun EXCEPT ![r].pc = "put", ![r].read = x]
           \/ Goto(r, "close")
    BY <1>6, Zenon DEF ExportRead
  <2>2. ASSUME NEW x, erun' = [erun EXCEPT ![r].pc = "put", ![r].read = x] PROVE ClaimsKept
    <3>1. "put" # "gate" /\ "put" \notin Unscored
      BY DEF Unscored
    <3>2. QED
      BY <2>1, <2>2, <3>1, ClaimUpdates
  <2>3. ASSUME Goto(r, "close") PROVE ClaimsKept
    BY <2>1, <2>3, ClaimUpdates DEF Unscored
  <2>4. QED
    BY <2>1, <2>2, <2>3
<1>7. ASSUME NEW r \in EvalRuns, ExportPut(r) \/ close(r) \/ EvalRaise(r) PROVE ClaimsKept
  BY <1>7, ClaimUpdates DEF ExportPut, close, EvalRaise, Unscored
<1>8. ASSUME UNCHANGED evalVars PROVE ClaimsKept
  BY <1>8 DEF evalVars, ClaimsKept
<1>9. QED
  BY <1>1, <1>2, <1>3, <1>4, <1>5, <1>6, <1>7, <1>8 DEF EvalNext, EvalNode

LEMMA GroundedKept ==
  ASSUME RunRecords, RunRecords', FindingsGrounded, [EvalNext]_evalVars
  PROVE  FindingsGrounded'
<1>1. CASE ClaimsKept
  BY <1>1 DEF ClaimsKept, FindingsGrounded
<1>2. ASSUME NEW r \in EvalRuns, score_compliance(r) PROVE FindingsGrounded'
  <2>1. PICK a \in Assessments :
          /\ findings' = replace_for_case(r, [n \in Named |-> [c \in Codes |->
                              IF a[n][c] = Absent THEN Absent ELSE Finding(a[n][c])]])
          /\ erun' = [erun EXCEPT ![r].pc = "gate", ![r].claims = a]
    BY <1>2 DEF score_compliance
  <2>2. RunRecord(erun[r]) /\ erun = [o \in EvalRuns |-> erun[o]]
    BY DEF RunRecords
  <2>3. erun'[r].pc = "gate" /\ erun'[r].claims = a
    BY <2>1, <2>2 DEF RunRecord
  <2>4. /\ findings'.by = r
        /\ \A n \in Named, c \in Codes :
             findings'.rows[n][c] = IF a[n][c] = Absent THEN Absent ELSE Finding(a[n][c])
    BY <2>1 DEF replace_for_case
  <2>5. QED
    BY <2>3, <2>4 DEF FindingsGrounded, Unscored
<1>3. QED
  BY <1>1, <1>2, ClaimSteps

\* What the gate stores names nobody or a supplier whose stored findings pass.
LEMMA GateNames ==
  ASSUME NEW r \in EvalRuns, deterministic_compliance_gate(r), recommended' # recommended,
         recommended'.top # NoSupplier
  PROVE  /\ recommended'.top \in Named
         /\ MandatoryPassed(requirements.rows, findings.rows, recommended'.top)
<1>1. PICK top \in Named \union {NoSupplier} :
        /\ IsTop(top, requirements.rows, findings.rows)
        /\ \E d \in Named : recommended' = upsert(top, d)
  BY Zenon DEF deterministic_compliance_gate
<1>2. recommended'.top = top
  BY <1>1 DEF upsert
<1>3. top \in {o \in Named : Eligible(requirements.rows, findings.rows, o)}
  BY <1>1, <1>2 DEF IsTop
<1>4. QED
  BY <1>2, <1>3 DEF Eligible

LEMMA RecommendedByGate ==
  ASSUME [EvalNext]_evalVars, recommended' # recommended
  PROVE  \E r \in EvalRuns : deterministic_compliance_gate(r)
  BY DEF EvalNext, EvalNode, evalVars, analyze, intake_case, build_requirement_matrix,
         score_compliance, human_review, ExportRead, ExportPut, close, EvalRaise

LEMMA GroundedFails ==
  ASSUME FindingsGrounded, NEW r \in EvalRuns, erun[r].pc = "gate", NEW n \in Named,
         MandatoryPassed(requirements.rows, findings.rows, n),
         NEW c \in Mandatory(requirements.rows)
  PROVE  LET claims == erun[findings.by].claims[n]
         IN  claims[c].claimed /\ claims[c].quote = "found"
<1> DEFINE a == erun[findings.by].claims[n][c]
           f == findings.rows[n][c]
<1>1. c \in Codes
  BY DEF Mandatory
<1>2. f # Absent /\ f.status = "compliant" /\ f.evidence
  BY DEF MandatoryPassed
<1>3. f = IF a = Absent THEN Absent ELSE Finding(a)
  BY <1>1 DEF FindingsGrounded
<1> HIDE DEF a, f
<1>4. f = Finding(a)
  BY <1>2, <1>3
<1>5. f.status = IF ~a.claimed THEN "non_compliant"
                 ELSE IF locate_quote(a) THEN "compliant" ELSE "missing_evidence"
  BY <1>4 DEF Finding
<1>6. a.claimed /\ locate_quote(a)
  BY <1>2, <1>5
<1>7. QED
  BY <1>6 DEF locate_quote, a

\* deterministic_compliance_gate fails closed: whoever it names made, in one
\* assessment, a claim with a quote found in its own submission for every
\* mandatory requirement it was scored by, also when two runs of the case
\* replace each other's requirements and findings.
THEOREM GateClosed == EvalSpec => GateFailsClosed
<1> DEFINE A == recommended' # recommended /\ recommended'.top # NoSupplier =>
                  LET claims == erun[findings.by].claims[recommended'.top]
                  IN \A c \in Mandatory(requirements.rows) :
                       claims[c].claimed /\ claims[c].quote = "found"
           Sound == EvalInv /\ FindingsGrounded
<1>1. EvalInit => Sound
  <2>1. EvalInit => FindingsGrounded
    BY EvaluationAssumption DEF EvalInit, FindingsGrounded, NotRun, NoRow
  <2>2. QED
    BY <2>1, EvalStart
<1>2. ASSUME Sound, [EvalNext]_evalVars PROVE Sound' /\ [A]_evalVars
  <2>1. EvalInv'
    BY <1>2, EvalKept
  <2>2. FindingsGrounded'
    BY <1>2, <2>1, GroundedKept DEF EvalInv
  <2>3. ASSUME recommended' # recommended, recommended'.top # NoSupplier,
               NEW c \in Mandatory(requirements.rows)
        PROVE  LET claims == erun[findings.by].claims[recommended'.top]
               IN  claims[c].claimed /\ claims[c].quote = "found"
    <3>1. PICK r \in EvalRuns : deterministic_compliance_gate(r)
      BY <1>2, <2>3, RecommendedByGate
    <3>2. erun[r].pc = "gate"
      BY <3>1 DEF deterministic_compliance_gate, At
    <3>3. /\ recommended'.top \in Named
          /\ MandatoryPassed(requirements.rows, findings.rows, recommended'.top)
      BY <2>3, <3>1, GateNames
    <3>4. findings.by \in EvalRuns
      BY <1>2, <3>2 DEF FindingsGrounded
    <3>5. QED
      BY <1>2, <2>3, <3>2, <3>3, <3>4, GroundedFails
  <2>4. QED
    BY <2>1, <2>2, <2>3
<1>3. EvalInit /\ [][EvalNext]_evalVars => [][A]_evalVars
  <2>1. Sound /\ [EvalNext]_evalVars => Sound' /\ [A]_evalVars
    BY <1>2
  <2> HIDE DEF A, Sound
  <2>2. QED
    BY <1>1, <2>1, PTL
<1>4. QED
  BY <1>3, PTL DEF EvalSpec, GateFailsClosed

\* The three components keep their types side by side: a case that waits for a
\* human has its recommendation, and nobody decides an explanation of his own.
THEOREM TenderingTypesOK == MCSpec => []TypesOK
<1> DEFINE Sides == TenderingInv /\ EvalInv /\ ReworkRecords
           sideVars == <<vars, evalVars, reworkVars, part>>
<1>1. MCInit => Sides
  BY TenderingInit, EvalStart, ReworkStart DEF MCInit
<1>2. ASSUME Sides, [MCNext]_sideVars PROVE Sides'
  <2>1. [Next]_vars /\ [EvalNext]_evalVars /\ [ReworkNext]_reworkVars
    BY <1>2 DEF MCNext
  <2>2. TenderingInv'
    BY <1>2, <2>1, CaseTypesKept, CaseSoundKept, ReceptionTypesKept, OpeningTypesKept,
       OpeningSoundKept, TasksKept DEF TenderingInv, TypeOK
  <2>3. QED
    BY <1>2, <2>1, <2>2, EvalKept, ReworkKept
<1>3. Sides => TypesOK
  BY DEF TenderingInv, EvalInv, TablesSound, RunSound, EvalTypeOK, ReworkRecords, TypesOK
<1> HIDE DEF Sides
<1>4. QED
  BY <1>1, <1>2, <1>3, PTL DEF MCSpec
=============================================================================
