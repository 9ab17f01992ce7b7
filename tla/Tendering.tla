------------------------------ MODULE Tendering ------------------------------
(***************************************************************************)
(* A DW01 case after its package became official: publication by e-mail,   *)
(* addenda (CP3), reception of bids by hand and by the mailroom, bid       *)
(* opening (CP4) and the handoff to evaluation.                            *)
(*                                                                         *)
(* A handler reads the case, talks to the mail server or the object store, *)
(* and saves under the optimistic lock on case.version; what it sends or   *)
(* stores before a save that fails stays sent.  A send depends only on     *)
(* what was read, so the read and the send are one action.  Handlers       *)
(* without such an effect are one action.                                  *)
(***************************************************************************)
EXTENDS Naturals, FiniteSets

CONSTANTS
  Users,         \* principals
  Creator,       \* case.created_by
  Writers,       \* principals holding tender.write
  Deciders,      \* principals holding approvals.decide
  Mailroom,      \* the poll loop, which acts under an identity of its own
  Bids,          \* what suppliers may submit
  Window,        \* legal_constraints.applied_window_days
  Extensions,    \* extend_bids_by_days of the addenda that may be filed
  MaxDay,        \* bound: days that pass
  MaxAddenda,    \* bound: addenda filed
  MaxMails,      \* bound: RFQ and addendum e-mails sent
  Interruptible, \* whether handlers, poll rounds and the API may be cut short
  None           \* the absent value

Days == 0..MaxDay
Actors == Users \cup {Mailroom}

\* BID_OPENING_RECORD and EVALUATION_HANDOFF: the minutes shown, the bids
\* opened and who opened them.
Opening == [minutes : (SUBSET Bids) \cup {None}, bids : SUBSET Bids, by : Users]

ASSUME ConstantsAssumption ==
  /\ Creator \in Users
  /\ Writers \subseteq Users
  /\ Deciders \subseteq Users
  /\ Mailroom \notin Users
  /\ Window \in Nat \ {0}
  /\ Extensions \subseteq Nat
  /\ MaxDay \in Nat
  /\ MaxAddenda \in Nat
  /\ MaxMails \in Nat
  /\ Interruptible \in BOOLEAN
  /\ None \notin Nat
  /\ None \notin Bids
  /\ None \notin Opening

VARIABLES
  now,        \* clock, in days
  email,      \* how the deployment sends e-mail, which never changes
  state,      \* case.state
  version,    \* case.version
  published,  \* recorded_at of the PUBLICATION_RECORD, or None
  automatic,  \* whether that record has source_mode auto_email
  closesAt,   \* case.bids_close_at
  draft,      \* extension of the latest ADDENDUM_DRAFT, or None
  signed,     \* days granted by approved ADDENDUM_DECISIONs
  issued,     \* number of approved ADDENDUM_DECISIONs naming an e-mail
  addenda,    \* number of ADDENDUM_DRAFTs
  rfqs,       \* RFQ e-mails that left
  notices,    \* addenda whose e-mail left
  mail,       \* where each supplier's e-mail is
  documents,  \* bids stored as SUPPLIER_SUBMISSION documents
  register,   \* items of the latest SUBMISSION_REGISTER
  cards,      \* CP4 cards in the outbox, one per number of bids
  scanned,    \* BidClosingScanner._seen holds the case
  asked,      \* EmailSubmissionIngestor._cp4_requested holds the case
  opening,    \* BID_OPENING_RECORD and EVALUATION_HANDOFF, or None
  handoffFile,   \* evaluation-handoff.json in the object store
  evaluations,   \* DW02 cases created from this case
  linked,     \* EVALUATION_HANDOFF names its evaluation_case_id
  task        \* what each actor's request is doing

caseVars == <<state, version, closesAt>>
publicationVars == <<email, published, automatic, rfqs>>
addendumVars == <<draft, signed, issued, addenda, notices>>
registerVars == <<documents, register>>
memoryVars == <<scanned, asked>>
openingVars == <<opening, handoffFile, evaluations, linked>>
vars == <<now, caseVars, publicationVars, addendumVars, mail, registerVars,
          cards, memoryVars, openingVars, task>>

CaseState ==
  {"package_official", "published", "cp3_pending", "receiving_bids",
   "completed"}
Accepting == {"published", "receiving_bids"}

\* _build_email_publisher: with SMTP_* set, an e-mail leaves; without, a mock
\* returns a message id and sends nothing.  Without a recipient either, an
\* addendum is not issued at all.
EmailSetups == {"smtp", "mock", "none"}

\* A request between two of its transactions: where it stopped, the version it
\* read, the receipt it will write and what it read of the register.
Places ==
  {"idle", "publish", "cp3", "record", "minutes", "open", "handoff", "link",
   "ingest", "request"}
Task ==
  [at : Places, version : Nat, receipt : Bids \cup {None}, read : SUBSET Bids,
   minutes : (SUBSET Bids) \cup {None}]

Idle == [at |-> "idle", version |-> 0, receipt |-> None, read |-> {},
         minutes |-> None]

CaseTypes ==
  /\ now \in Days
  /\ email \in EmailSetups
  /\ state \in CaseState
  /\ version \in Nat
  /\ published \in Days \cup {None}
  /\ automatic \in BOOLEAN
  /\ closesAt \in Nat \cup {None}
  /\ draft \in Extensions \cup {None}
  /\ signed \in Nat
  /\ issued \in Nat
  /\ addenda \in 0..MaxAddenda
  /\ rfqs \in 0..MaxMails
  /\ notices \in SUBSET (1..MaxAddenda)

ReceptionTypes ==
  /\ mail \in [Bids -> {"unsent", "unseen", "fetched", "recorded", "dropped"}]
  /\ documents \in SUBSET Bids
  /\ register \in SUBSET Bids
  /\ cards \in SUBSET Nat
  /\ scanned \in BOOLEAN
  /\ asked \in BOOLEAN

OpeningTypes ==
  /\ opening \in Opening \cup {None}
  /\ handoffFile \in (SUBSET Bids) \cup {None}
  /\ evaluations \in SUBSET [by : Users, bids : SUBSET Bids]
  /\ linked \in BOOLEAN

TypeOK ==
  /\ CaseTypes
  /\ ReceptionTypes
  /\ OpeningTypes
  /\ task \in [Actors -> Task]

Init ==
  /\ now = 0
  /\ email \in EmailSetups
  /\ state = "package_official"
  /\ version = 0
  /\ published = None
  /\ automatic = FALSE
  /\ closesAt = None
  /\ draft = None
  /\ signed = 0
  /\ issued = 0
  /\ addenda = 0
  /\ rfqs = 0
  /\ notices = {}
  /\ mail = [b \in Bids |-> "unsent"]
  /\ documents = {}
  /\ register = {}
  /\ cards = {}
  /\ scanned = FALSE
  /\ asked = FALSE
  /\ opening = None
  /\ handoffFile = None
  /\ evaluations = {}
  /\ linked = FALSE
  /\ task = [a \in Actors |-> Idle]

\* Mutant: an update without the version in its WHERE clause.
VersionIgnored(a) == task[a].version <= version

\* SqlPreparationCaseRepository.save: the row still has the version read.
VersionUnchanged(a) == task[a].version = version

\* The case moves to another state and its version grows.
SaveCase(to) ==
  /\ state' = to
  /\ version' = version + 1

-----------------------------------------------------------------------------
(* Publication *)

\* EmailPublisherPort.send counts one more e-mail, if one leaves.
Sent(count) == IF email = "smtp" THEN count + 1 ELSE count

\* Mutant: a failing mail server is logged and publication goes on.
PublishSendLenient(u) ==
  /\ task[u].at = "idle"
  /\ u \in Writers
  /\ state = "package_official"
  /\ rfqs < MaxMails
  /\ rfqs' \in {rfqs, Sent(rfqs)}
  /\ task' = [task EXCEPT ![u].at = "publish", ![u].version = version]
  /\ UNCHANGED <<now, email, caseVars, published, automatic, addendumVars,
                 mail, registerVars, cards, memoryVars, openingVars>>

\* AutoPublishPreparationHandler up to the send.
PublishSend(u) ==
  /\ task[u].at = "idle"
  /\ u \in Writers
  /\ state = "package_official"
  /\ rfqs < MaxMails
  /\ rfqs' = Sent(rfqs)
  /\ task' = [task EXCEPT ![u].at = "publish", ![u].version = version]
  /\ UNCHANGED <<now, email, caseVars, published, automatic, addendumVars,
                 mail, registerVars, cards, memoryVars, openingVars>>

\* record_publication with the closing moment of _bids_close_at, which an older
\* case without an applied window has none of.
Publish(auto) ==
  /\ SaveCase("published")
  /\ published' = now
  /\ automatic' = auto
  /\ closesAt' \in {now + Window, None}
  /\ UNCHANGED <<now, email, rfqs, addendumVars, mail, registerVars, cards,
                 memoryVars, openingVars>>

PublishSave(u) ==
  /\ task[u].at = "publish"
  /\ VersionUnchanged(u)
  /\ Publish(TRUE)
  /\ task' = [task EXCEPT ![u] = Idle]

\* RecordPreparationPublicationHandler: evidence uploaded by hand.
RecordPublication(u) ==
  /\ task[u].at = "idle"
  /\ u \in Writers
  /\ state = "package_official"
  /\ Publish(FALSE)
  /\ UNCHANGED task

-----------------------------------------------------------------------------
(* Addenda and CP3 *)

\* resolve_cp3 moves the closing moment of a case that has one.
Extended(days) == IF closesAt = None THEN None ELSE closesAt + days

SubmitAddendum(u, days) ==
  /\ task[u].at = "idle"
  /\ u \in Deciders
  /\ state = "published"
  /\ addenda < MaxAddenda
  /\ addenda' = addenda + 1
  /\ draft' = days
  /\ SaveCase("cp3_pending")
  /\ UNCHANGED <<now, closesAt, publicationVars, signed, issued, notices,
                 mail, registerVars, cards, memoryVars, openingVars, task>>

\* Mutant: CP3 is decided without looking at the state of the case.
MayDecideCp3AnyState(u) ==
  /\ task[u].at = "idle"
  /\ u \in Deciders
  /\ u # Creator

MayDecideCp3(u) ==
  /\ task[u].at = "idle"
  /\ u \in Deciders
  /\ u # Creator
  /\ state = "cp3_pending"

\* Mutant: resolve_cp3 is given the extension whatever was decided.
RejectCp3Extends(u) ==
  /\ MayDecideCp3(u)
  /\ SaveCase("published")
  /\ closesAt' = Extended(draft)
  /\ UNCHANGED <<now, publicationVars, addendumVars, mail, registerVars,
                 cards, memoryVars, openingVars, task>>

RejectCp3(u) ==
  /\ MayDecideCp3(u)
  /\ SaveCase("published")
  /\ UNCHANGED <<now, closesAt, publicationVars, addendumVars, mail,
                 registerVars, cards, memoryVars, openingVars, task>>

\* _issue_to_suppliers: the e-mail of an approval leaves, where one is sent,
\* before resolve_cp3 moves the closing moment and saves.
ApproveCp3Send(u) ==
  /\ MayDecideCp3(u)
  /\ notices' = IF email = "smtp" THEN notices \cup {addenda} ELSE notices
  /\ task' = [task EXCEPT ![u].at = "cp3", ![u].version = version]
  /\ UNCHANGED <<now, caseVars, publicationVars, draft, signed, issued,
                 addenda, mail, registerVars, cards, memoryVars,
                 openingVars>>

ApproveCp3Save(u) ==
  /\ task[u].at = "cp3"
  /\ VersionUnchanged(u)
  /\ SaveCase("published")
  /\ closesAt' = Extended(draft)
  /\ signed' = signed + draft
  /\ issued' = IF email = "none" THEN issued ELSE issued + 1
  /\ task' = [task EXCEPT ![u] = Idle]
  /\ UNCHANGED <<now, publicationVars, draft, addenda, notices, mail,
                 registerVars, cards, memoryVars, openingVars>>

-----------------------------------------------------------------------------
(* Reception of bids *)

\* RecordPreparationSubmissionHandler up to the save: the register as read.
ReadRegister(a, receipt) ==
  /\ state \in Accepting
  /\ task' = [task EXCEPT ![a].at = "record", ![a].version = version,
                          ![a].receipt = receipt, ![a].read = register]
  /\ UNCHANGED <<now, caseVars, publicationVars, addendumVars, registerVars,
                 cards, memoryVars, openingVars>>

\* ... and the save: document, extended register and case together.
SaveReceipt(a) ==
  /\ task[a].at = "record"
  /\ VersionUnchanged(a)
  /\ SaveCase("receiving_bids")
  /\ documents' = documents \cup {task[a].receipt}
  /\ register' = task[a].read \cup {task[a].receipt}
  /\ UNCHANGED <<now, closesAt, publicationVars, addendumVars, cards,
                 memoryVars, openingVars>>

\* The receipt desk, chat or API: somebody uploads a bid handed in.
HandRead(u, b) ==
  /\ task[u].at = "idle"
  /\ u \in Writers
  /\ mail[b] = "unsent"
  /\ b \notin documents
  /\ ReadRegister(u, b)
  /\ UNCHANGED mail

HandSave(u) ==
  /\ SaveReceipt(u)
  /\ task' = [task EXCEPT ![u] = Idle]
  /\ UNCHANGED mail

\* RequestCp4Handler: enqueues a card and leaves the case alone.
MayRequestCp4 == state = "receiving_bids" /\ documents # {}

RequestCp4 == cards' = cards \cup {Cardinality(documents)}

OpenBids(u) ==
  /\ u \in Writers
  /\ MayRequestCp4
  /\ RequestCp4
  /\ UNCHANGED <<now, caseVars, publicationVars, addendumVars, mail,
                 registerVars, memoryVars, openingVars, task>>

-----------------------------------------------------------------------------
(* The mailroom loop *)

\* A supplier answers the RFQ e-mail, whose subject carries the case.
SupplierMails(b) ==
  /\ rfqs > 0
  /\ mail[b] = "unsent"
  /\ b \notin documents
  /\ mail' = [mail EXCEPT ![b] = "unseen"]
  /\ UNCHANGED <<now, caseVars, publicationVars, addendumVars, registerVars,
                 cards, memoryVars, openingVars, task>>

\* ImapSubmissionMailbox.fetch_new marks every message seen as it fetches it.
Fetch ==
  /\ task[Mailroom].at = "idle"
  /\ mail' = [b \in Bids |-> IF mail[b] = "unseen" THEN "fetched" ELSE mail[b]]
  /\ task' = [task EXCEPT ![Mailroom].at = "ingest"]
  /\ UNCHANGED <<now, caseVars, publicationVars, addendumVars,
                 registerVars, cards, memoryVars, openingVars>>

MailRead(b) ==
  /\ task[Mailroom].at = "ingest"
  /\ mail[b] = "fetched"
  /\ ReadRegister(Mailroom, b)
  /\ UNCHANGED mail

\* A DWError of record_submission: the mail is skipped and reported.
MailSkipped(b) ==
  /\ mail[b] = "fetched"
  /\ \/ /\ task[Mailroom].at = "ingest"
        /\ state \notin Accepting
     \/ /\ task[Mailroom].at = "record"
        /\ task[Mailroom].receipt = b
        /\ ~VersionUnchanged(Mailroom)
  /\ mail' = [mail EXCEPT ![b] = "dropped"]
  /\ task' = [task EXCEPT ![Mailroom] = [Idle EXCEPT !.at = "ingest"]]
  /\ UNCHANGED <<now, caseVars, publicationVars, addendumVars,
                 registerVars, cards, memoryVars, openingVars>>

MailSave ==
  /\ SaveReceipt(Mailroom)
  /\ mail' = [mail EXCEPT ![task[Mailroom].receipt] = "recorded"]
  /\ task' = [task EXCEPT ![Mailroom] = [Idle EXCEPT !.at = "request"]]

\* After a recorded bid the ingestor requests CP4, once per case; a refusal is
\* ignored.
MailRequest ==
  /\ task[Mailroom].at = "request"
  /\ IF ~asked /\ MayRequestCp4 THEN RequestCp4 /\ asked' = TRUE
                                ELSE UNCHANGED <<cards, asked>>
  /\ task' = [task EXCEPT ![Mailroom].at = "ingest"]
  /\ UNCHANGED <<now, caseVars, publicationVars, addendumVars, mail,
                 registerVars, scanned, openingVars>>

\* list_due_for_closing
Due == closesAt # None /\ closesAt <= now /\ state \in Accepting

\* BidClosingScanner.poll_once closes the round: a due case is tried once,
\* whether or not request_cp4 refuses it.
Scan ==
  /\ task[Mailroom].at = "ingest"
  /\ \A b \in Bids : mail[b] # "fetched"
  /\ scanned' = (scanned \/ Due)
  /\ IF Due /\ ~scanned /\ MayRequestCp4 THEN RequestCp4 ELSE UNCHANGED cards
  /\ task' = [task EXCEPT ![Mailroom] = Idle]
  /\ UNCHANGED <<now, caseVars, publicationVars, addendumVars, mail,
                 registerVars, asked, openingVars>>

MailroomStep ==
  \/ Fetch
  \/ \E b \in Bids : MailRead(b) \/ MailSkipped(b)
  \/ MailSave
  \/ MailRequest
  \/ Scan

-----------------------------------------------------------------------------
(* CP4 and the handoff *)

\* DecisionEngine._bid_opening_minutes: the button of a CP4 card was pressed;
\* the minutes are written in a transaction of their own, before CP4.
WriteMinutes(u) ==
  /\ task[u].at = "idle"
  /\ cards # {}
  /\ u \in Deciders
  /\ task' = [task EXCEPT ![u].at = "minutes", ![u].minutes = register]
  /\ UNCHANGED <<now, caseVars, publicationVars, addendumVars, mail,
                 registerVars, cards, memoryVars, openingVars>>

\* CompletePreparationCp4Handler reads the case and its submissions and puts
\* evaluation-handoff.json under the name every attempt uses; minutes are the
\* system's or, over the API, an uploaded file ...
Cp4Seal(u) ==
  /\ task[u].at \in {"idle", "minutes"}
  /\ u \in Deciders
  /\ u # Creator
  /\ state = "receiving_bids"
  /\ documents # {}
  /\ handoffFile' = register
  /\ task' = [task EXCEPT ![u].at = "open", ![u].version = version,
                          ![u].read = register]
  /\ UNCHANGED <<now, caseVars, publicationVars, addendumVars, mail,
                 registerVars, cards, memoryVars, opening, evaluations, linked>>

\* A variant of Cp4Save that does not compare the version.
Cp4SaveUnpinned(u) ==
  /\ task[u].at = "open"
  /\ state = "receiving_bids"
  /\ SaveCase("completed")
  /\ opening' = [minutes |-> task[u].minutes, bids |-> task[u].read, by |-> u]
  /\ task' = [task EXCEPT ![u] = [Idle EXCEPT !.at = "handoff"]]
  /\ UNCHANGED <<now, closesAt, publicationVars, addendumVars, mail,
                 registerVars, cards, memoryVars, handoffFile, evaluations,
                 linked>>

\* ... and saves.
Cp4Save(u) ==
  /\ task[u].at = "open"
  /\ VersionUnchanged(u)
  /\ SaveCase("completed")
  /\ opening' = [minutes |-> task[u].minutes, bids |-> task[u].read,
                 by |-> u]
  /\ task' = [task EXCEPT ![u] = [Idle EXCEPT !.at = "handoff"]]
  /\ UNCHANGED <<now, closesAt, publicationVars, addendumVars, mail,
                 registerVars, cards, memoryVars, handoffFile, evaluations,
                 linked>>

\* HandoffToEvaluationHandler, called after complete_cp4: creates the DW02
\* case from the stored submissions ...
CreateEvaluation(u) ==
  /\ task[u].at = "handoff"
  /\ ~linked
  /\ evaluations' = evaluations \cup {[by |-> u, bids |-> documents]}
  /\ task' = [task EXCEPT ![u].at = "link"]
  /\ UNCHANGED <<now, caseVars, publicationVars, addendumVars, mail,
                 registerVars, cards, memoryVars, opening, handoffFile, linked>>

\* ... and then records its id.
LinkEvaluation(u) ==
  /\ task[u].at = "link"
  /\ linked' = TRUE
  /\ task' = [task EXCEPT ![u] = Idle]
  /\ UNCHANGED <<now, caseVars, publicationVars, addendumVars, mail,
                 registerVars, cards, memoryVars, opening, handoffFile,
                 evaluations>>

-----------------------------------------------------------------------------
(* Time and failures *)

Tick ==
  /\ now < MaxDay
  /\ now' = now + 1
  /\ UNCHANGED <<caseVars, publicationVars, addendumVars, mail,
                 registerVars, cards, memoryVars, openingVars, task>>

\* A handler raises: mail server, object store, database or a lost race.
TaskStops(u) ==
  /\ Interruptible \/ ~VersionUnchanged(u)
  /\ task[u].at # "idle"
  /\ task' = [task EXCEPT ![u] = Idle]
  /\ UNCHANGED <<now, caseVars, publicationVars, addendumVars, mail,
                 registerVars, cards, memoryVars, openingVars>>

\* What was fetched and not recorded is gone: it is marked seen.
LoseFetched ==
  mail' = [b \in Bids |-> IF mail[b] = "fetched" THEN "dropped" ELSE mail[b]]

\* The poll round raises; the loop logs it and starts over.
PollFails ==
  /\ Interruptible
  /\ task[Mailroom].at # "idle"
  /\ LoseFetched
  /\ task' = [task EXCEPT ![Mailroom] = Idle]
  /\ UNCHANGED <<now, caseVars, publicationVars, addendumVars,
                 registerVars, cards, memoryVars, openingVars>>

\* The API process restarts: requests and in-memory sets are lost.
Restart ==
  /\ Interruptible
  /\ LoseFetched
  /\ scanned' = FALSE
  /\ asked' = FALSE
  /\ task' = [a \in Actors |-> Idle]
  /\ UNCHANGED <<now, caseVars, publicationVars, addendumVars,
                 registerVars, cards, openingVars>>

UserStep(u) ==
  \/ PublishSend(u)
  \/ PublishSave(u)
  \/ RecordPublication(u)
  \/ \E days \in Extensions : SubmitAddendum(u, days)
  \/ RejectCp3(u)
  \/ ApproveCp3Send(u)
  \/ ApproveCp3Save(u)
  \/ \E b \in Bids : HandRead(u, b)
  \/ HandSave(u)
  \/ OpenBids(u)
  \/ WriteMinutes(u)
  \/ Cp4Seal(u)
  \/ Cp4Save(u)
  \/ CreateEvaluation(u)
  \/ LinkEvaluation(u)
  \/ TaskStops(u)

Next ==
  \/ \E u \in Users : UserStep(u)
  \/ \E b \in Bids : SupplierMails(b)
  \/ MailroomStep
  \/ Tick
  \/ PollFails
  \/ Restart

Spec == Init /\ [][Next]_vars

-----------------------------------------------------------------------------
(* Properties *)

\* The register, rewritten as a whole by every submission, lists exactly the
\* bids stored for the case: no two recorders running at once lose one.
RegisterMatchesDocuments == register = documents

\* Opening covers every bid recorded, nothing is recorded afterwards, and DW02
\* gets one case, with those bids, from whoever opened them, who is not the
\* creator: however many people confirm CP4 while bids still arrive.  Minutes
\* and handoff file, written before the save, may miss a bid but name none
\* that was not recorded.
EvaluatesWhatWasOpened ==
  /\ opening = None => evaluations = {}
  /\ opening # None => /\ opening.bids = documents
                       /\ opening.by # Creator
                       /\ evaluations \subseteq
                            {[by |-> opening.by, bids |-> opening.bids]}
                       /\ opening.minutes # None => opening.minutes \subseteq documents
                       /\ handoffFile \subseteq documents

\* A register that closes does so the solicitation window after publication
\* plus the days of approved addenda: no rejected, repeated or lost decision
\* moves it.
ClosingMomentIsSigned ==
  published # None /\ closesAt # None => closesAt = published + Window + signed

\* Where e-mail is configured, what is recorded as sent was sent: an automatic
\* publication has its RFQ e-mail, and every decision that names an e-mail one
\* about its own addendum.
RecordedWasSent ==
  email = "smtp" => /\ automatic => rfqs > 0
                    /\ issued <= Cardinality(notices)
=============================================================================
