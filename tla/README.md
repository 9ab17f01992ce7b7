# Verification of the Digital Worker Platform

This directory holds TLA+ models of the Digital Worker Platform, the TLC
configurations that check them on small instances, and TLAPS proofs. Every
definition that models code is listed with its source lines in `PROJECT.json`
under `map`.

## 1. The system

The platform is a modular monolith: a FastAPI application, an asynchronous
worker process and a web UI over PostgreSQL, Qdrant, an object store, Slack and
SMTP/IMAP. Digital workers are LangGraph graphs that stop at human gates
(`interrupt()`); DW01 prepares a procurement case (checkpoints CP1 to CP4), DW02
evaluates bids, and a third one turns meetings into tasks. Nothing shares memory
across processes: requests, graph runs, the mailroom loop and the worker's
consumers interleave at transaction boundaries, and what protects them is
optimistic locking, status guards, idempotency keys and unique indexes.

| Component | State | Operations | Interacts with | Hard behaviour | What makes it correct |
|---|---|---|---|---|---|
| Approvals and runs (`dw_agent_runtime`, `dw_platform`) | approval requests, decisions, run rows, graph position | start, request, decide, resume, withdraw | every graph | decide and resume are separate transactions; two deciders; crash between | decided once, requester never approves, one executor per run, past a gate only on approval |
| Preparation case (`dw_tender` preparation) | case, artifacts, cards, run state | intake, clarify, amend, run nodes, CP1, CP2, seal | approvals, notification outbox | amendment while a run waits; two runs; stale graph state | the official package is the approved one; CP1 only after intake |
| Tendering | publication, register, addenda, opening, handoff | publish, addendum, CP3, receive, close, CP4, handoff | SMTP, IMAP, object store, DW02 | send before save, mail marked seen before it is recorded, in-memory `_seen` | register matches documents, closing moment is the signed one, DW02 evaluates what was opened |
| Notification queue | jobs with lease and attempts | enqueue, claim, send, mark | case state, Slack | lease takeover, late mark, lost mark | closed stays closed, one consumer, every card ends |
| Knowledge ingestion | upload jobs, versions in PostgreSQL, points in Qdrant | upload, claim, ingest, soft delete | object store, embedding | two stores, READ COMMITTED, no lease | stores agree, an upload is marked whatever raises |
| Tool executor | `tool_executions` rows | authorize, replay, attempt, record, audit | connectors | concurrent calls with one key, timeout after effect | one answer per key, own input, guarded handler |
| Chat intake (`conversation/service.py`, store) | conversations with slots and state, filed cases | message, confirm, cancel, pick, pivot, resume | preparation handlers | Slack runs a task per message; every store call is its own transaction; restart between case and mark | a filed case was complete, is the conversation's own, drafts are not lost |
| Case chat (`focus.py`, `receipt.py`, `DecisionEngine`) | focus, menu, open questions, what the user was told | broker, resolve, answer, amend, decide in words | preparation, approvals | menus built at two moments; answer and restart are two calls | a case changes only by who may see it and, at a gate, may decide; refusals are true |
| Receipt desk (`channels/slack.py`) | armed supplier in memory, register, claimed events | arm, drop a file, record | tendering | redelivery, restart, download in between | one record per file, for an invited supplier the desk was armed for or the words are taken for |
| Work operations | meeting, action items, external tasks | start, gate, decide, dispatch, close | approvals, tool executor | two runs of one meeting; a transaction held open over external calls | tasks were approved, a dispatched item has its task |
| Telegram intake | offset, batch, meetings | poll, handle, send | work operations | offset in memory only, failing sends, restart | a forgotten update was handled |
| Tender evaluation (DW02) | requirements, findings, scores, recommendation, pack | analyse, gate, decide, export | approvals, handoff | overlapping runs share the tables; rounding by PostgreSQL | the gate fails closed, a pack was approved |
| Rework support | returns, explanations, open filings | file, return, explain, decide | preparation | rolling windows, guard read before the filing is written | a block starts with a return, records are final |
| Law watch | drafted positions, alerts, `_announced` | sweep, record, alert | legal search, notification | sources fail, restart between steps, cases move | only verified positions are compared, a change is reported, once |
| Legal search and circuit breaker | cache, cooldowns, breakers | route, look up, ask providers, read pages | knowledge index | shared by concurrent searches; late results | answers its own question, every provider had its turn, breaker open exactly after failures |
| Procurement rules, readiness, parsing, model gateway, checkpoints, memory, connectors, identity, rate limit, wiring, web UI | | | | | not modelled (section 7) |

## 2. Modules

`ApprovalRun` models the handlers of `approval_flow.py`, the runner and the two
tables they share. A task is one request being served; a handler is as many
actions as it has transactions, and may be cut short between any two when
`Interruptible`. `GatedRun` states what approvals promise to a run without
handlers or versions: per run and gate a verdict that is asked once, given once
or withdrawn, and gates in order. `ApprovalRun` is shown to implement it
(`Gated == INSTANCE GatedRun WITH verdict <- Verdict`).

`PreparationCase` models one DW01 case: the aggregate, the command handlers and
every node of the graph `preparation_v1` up to the official package. What was
asked for is one number, `figures`, that each amendment increases; `local` is the
graph state a run carries across nodes. `Staffed` tells for which checkpoint and
figures the role of the approval matrix, or the default role, has a recipient, since no
card is written for the others. Its approval requests follow
`GatedRun` too (`KeepsGateDiscipline`), which is how it composes with
`ApprovalRun`: the abstract specification is the interface between the two.

`Tendering` continues the case after the official package. A handler that sends
mail or writes an object before saving is two actions, read-and-send and save;
the save is refused when `version` has moved. `email` is how the deployment sends: by
SMTP, by the mock of `_build_email_publisher`, whose ids name messages that never left,
or not at all, without a recipient or storage, when CP3 is decided without a notice. A
case may have no closing moment (`closesAt = None`), as the older ones do.

`NotificationQueue` models `IntakeNotificationJobStore` and
`SlackApprovalConsumer`. Time is relative (`wait` until due, `age` of the claim,
saturating past the lease), so the model has no time horizon. `consumer[w]`
holds the snapshot the claim returned, with which later steps work.

`KnowledgeIngest` models the upload queue, the ingest consumer and the writes of
`KnowledgeGateway` for one `doc_key`. The supersede statement is two actions
(`ReadCurrent`, `LockCurrent`) because READ COMMITTED fixes the rows it considers
when it starts and only re-checks those it had to wait for.

`ToolExecutor` models `ToolExecutor.execute` and the table behind it, with the
partial unique index.

`ChatIntake` models one chat channel: the table `chat_conversations` and every
turn of `ConversationIntakeService`. A handler is as many actions as it makes
store calls, and works with the snapshot it read first. The language model is a
free choice of turn. `CaseChat` models what chat does to filed cases: the menu, the
broker and `resolve`, the receipt, the clarification loop and decisions in words.
`ReceiptDesk` models the arming of a Slack channel and the file dropped next, with
redelivered envelopes and a memory that a restart empties. Words mean a supplier as in
`_match_receipt_supplier`: `LooksLike` gives the invited suppliers whose name or first word
they hold, and they mean the only one of these without a bid.

`WorkOps` models the meeting graph: each node is a transaction, and
`dispatch_tasks` an open one over several external calls that do not roll back
with it. `TelegramIntake` models the polling loop with its offset.
`Evaluation` models DW02: what the model answers is chosen in the node that first
writes it; grounding, scoring, rounding and the choice of the supplier are
computed as in the code, with weights in 1/100000 and scores in thousandths so
that the rounding of `NUMERIC` columns happens. `ReworkSupport` models the two
rolling windows, the guard and the explanations of one author; filing and deciding
are each a read and a later write. `LawWatch` models one sweep after another; the
record, the alert and the in-memory guard are separate steps.

`LegalSearch` models the router, the cache, the failover chain and the fallback
to the corpus, for searches that overlap at every request to a provider.
`CircuitBreaker` gives the breaker as operators on its three fields.

`WorkOps` and `Evaluation` stop at one human gate each. They use of `ApprovalRun`
what is proved there: a decision is made once and resumes the run once
(`DecidedOnce`, `GraphExclusive`). Separation of duties is enforced at
preparation gates only (`RequesterNeverApproves`).

The modules `MC...` give the constants values. `MCChat`, `MCTendering`,
`MCServices` and `MCKnowledgeIngest` hold several components that share no
variable: a behaviour chooses one of them in its initial state and the others keep
their initial values, so that the state spaces add up and do not multiply.
The theorems are in `ApprovalRunProofs`, `ToolExecutorProofs`,
`NotificationQueueProofs`, `PreparationCaseProofs`, `TenderingProofs` (with
`Evaluation` and `ReworkSupport`), `ServicesProofs` (`WorkOps`, `TelegramIntake`,
`LawWatch`), `KnowledgeProofs` (`KnowledgeIngest`, `LegalSearch`, `CircuitBreaker`) and
`ChatProofs` (`ChatIntake`, `CaseChat`, `ReceiptDesk`).

A component's safety is stated in named parts; where several parts answer one
question, such as `FiledWasComplete`, `CaseIsItsOwn` and `OneCasePerRequest` of
`ChatIntake`, a run checks their conjunction (`FiledAsAsked`), with the type
invariant of the module among them. `NothingWaitsForever` joins the liveness
properties of the four services.

Definitions introduced as a variant or a mutant are faulty versions of a
definition that follows them. They are not part of any specification; replacing the
original by the variant must violate the property `PROJECT.json` pairs with it,
which shows that the property depends on that code.

## 3. Runs that pass

| Run | Instance | Shows |
|---|---|---|
| `approval_run` | 1 run, 2 gates, 3 requests, 3 concurrent handlers, interruptions | the inductive invariant, the four safety properties of approvals, and that every step is a step of `GatedRun` or a stutter |
| `preparation_case` | 2 runs, 2 generations of figures, 1 question, tiered approvers, one figure whose CP2 nobody is staffed for, interruptions (1.67 million states) | the official package was approved by the right people; no CP1 without a verified intake; nothing is pending unannounced where somebody could be told; the graph keeps the gate discipline of `GatedRun` |
| `tendering` | 2 staff, 2 bids by hand and by mail, 1 addendum, 2 days, 2 confirmations of CP4, the three ways to send, cases with and without a closing moment (1.53 million states with the next two) | the closing moment is the signed one; with SMTP, what is recorded as sent was sent; register and documents agree; DW02 gets exactly what was opened, once |
| | 2 evaluations of one case, 2 bidders and a name that never bid, 3 matrices, 4 assessments, 1 failing node | whoever the gate names has a grounded claim for every mandatory requirement; an exported pack and a completed case rest on an approval, whatever the other run does, and without overlap the pack shows what the approver saw |
| | 4 days, 2 returns, windows of 1 and 2 days, 1 explanation, 2 supporters | the guard starts to hold back only with a new return or when an approval has aged out, never by a correction, and returns and decided explanations are never rewritten |
| `cards` | 2 consumers, 2 cards, lease of 1, 2 attempts, 1 abandoned claim, fair | exclusivity, finality, bounded attempts, and every card ends |
| `knowledge` | 2 consumers, 4 uploads of 2 versions, 1 delete, 1 fault, 1 crash | uploads run once, the stores agree, and only a crash strands an upload |
| | 2 concurrent searches of 3 in all, 2 providers, 2 tenants, 3 routes, cache of 1 entry, 3 moments | an answer belongs to its question and tenant and is not too old; a search gives up only after every provider had its turn; a breaker is open exactly when the failures since the last success reach the threshold |
| `chat` | 2 overlapping turns, 2 kinds of goods, 3 conversations, 1 restart, Slack and Zalo (1.0 million states with the next two) | a filed case was complete and its own; where messages are handled one at a time, a draft is closed only by its cancellation and, without a restart, a request becomes one case |
| | 2 people, 2 cases, 2 questions, 2 messages | a case changes by its run or by somebody who may see it, and is decided only by who may decide, at the stage the decision was given for, not on a draft of their own (`ChangesAreEntitled`); no case is stranded by an answer, a refusal told is true |
| | 2 files delivered up to twice, 2 suppliers, words with a first word both share, 2 arms, 1 restart | one record per file, of the invited supplier it was taken for |
| `services` | 2 calls, 2 tools, 1 key, 2 payloads, 1 fault, fair | one answer per key, of the own payload, and every call ends |
| | 2 runs of one meeting with 2 items, 1 failing node or call, fair | tasks were approved, a dispatched item has its task, and every run that is not waiting for a person ends |
| | 3 Telegram updates, 1 failing poll or send, texts that Telegram refuses, 1 restart, fair | no update is forgotten unanswered unless its last text failed or was refused, meetings are bounded by the restarts, and every update leaves |
| | 2 cases, 2 positions, a sweep of 1, 2 changes of the law, 1 amendment, 1 silence, 1 restart, fair | only verified positions are compared, an alert is not repeated, and a lasting change is reported |

Bounds. Two actors are enough for every race the code can lose, since each race
is between a holder of a stale read and one other writer; a third handler in
`approval_run` lets a winner be followed by a late loser. Two generations of
figures are one amendment, which can fall between any two nodes; two runs let it
fall between runs. A lease of one tick and two attempts let a claim be taken over
before, at and after the last attempt. Two uploads of each of two versions let
both become current and then supersede each other, the only way two transactions
wait for each other's rows. Bounds
on faults, crashes, deletes, days and mails limit how often the environment
interferes, not where. In `tendering` a behaviour has a second bid, or an addendum
and a day that passes (`Scenario`); both together are too many states. One entry in
the cache makes every second question evict the first, and a reset time of 1 against
a cooldown of 2 lets a breaker try again while its provider is still left alone. The
matrices of `Evaluation` include weights that sum to one only before PostgreSQL
rounds them and scores that meet the minimum only after. A sweep of one case makes the
limit of the law watch bite with two cases.

Symmetry is used where no liveness is checked: requests and handlers, runs,
members of staff, bids, chats, the handlers and tasks of chat, consumers and searches are interchangeable in their
specifications and properties, and so are the uploads of one version and, together with
their uploads, the two versions.

Deadlock is checked except where the system may stop: when all uploads, calls,
messages or sweeps are over, or a run or case has reached its last state.

Fairness. `ApprovalRun` and `ToolExecutor` assume weak fairness of a request that
is being served, which the event loop gives. `NotificationQueue`
assumes that the poll loops go on (they catch every exception) and that time
passes; the claim of a card is strongly fair because `claim_next`
takes the oldest due row and a retried row moves back. `MCServices` assumes weak
fairness of one action, `Progress`: a call that has begun goes on, the nodes of a
run follow each other, the polling loop catches every exception and goes on, and so
does the sweep of the law watch. Failures, restarts, changes of the law and new
messages are not fair and bounded. No person is ever assumed to act.

## 4. Runs that find a disagreement

Each checks one statement that a comment or a docstring makes and that the code
does not keep; `PROJECT.json` quotes it under `findings`.

| Run | What happens |
|---|---|
| `approval_run_resumes` | `_handle_outcome` commits the request before it marks the run as waiting; a decision committed in between is refused on resume, and nothing resumes the run later, even if no handler is ever cut short |
| `preparation_sealed` | an amendment commits its figures and withdraws what is pending in a second transaction; a run without a pending request at that moment is approved later and seals figures nobody approved |
| `chat_answers` | two questions answered in two messages are two artifacts and `load_case` reads the latest only; the rerun asks one question again, chat counts it as answered, and nothing can be answered any more |
| `chat_points` | the number the model points at is mapped into a menu built again after the focus moved, so another case is acted on |
| `tools_effect` | a side effect happens twice under one idempotency key, because the row is looked up before the handler and written after it |

## 5. Proofs

Every safety property a passing run checks is a theorem, for any sets of actors and
data and any bounds, from the assumptions the component modules name. None of the
properties is inductive by itself. Each component has an invariant that says, beside
the types, what an actor between two of its steps may rely on; that a step keeps it is
proved with one lemma per action, and the properties follow.

The assumptions are those a reader would expect: bounds are naturals, roles are sets of
users, and a value that stands for "nobody" or "nothing" is not one of the things it
is told from (`NoSupplier \notin EvalRuns`, `None \notin Opening`,
`"nobody" \notin Supporters`). Beyond these: a breaker opens after at least one failure
(`failure_threshold` is not 0), the chain of providers is a sequence that is not empty,
there is a case to talk about, and the watched cases and the questions of a case are
finite sets. TLC evaluates all of them on the instances.

**Approvals.** `IInv` of `ApprovalRunProofs` adds: a raised request belongs
to a started run and its requester, and its version tells whether it is open
(`RequestSound`); what a handler carries agrees with the tables, so that the
answer it resumes with is the one on record for the gate the graph is paused at
(`TaskSound`, `Carries`); and a run's turn is held once, by one handler or by one
open request (`OneHolder`). The last is the heart of the argument: `resume` checks
a status it does not change, so nothing but the decide-once rule keeps two
handlers out of one graph. The theorem `Refinement` maps the tables to `GatedRun` by
`Verdict`; `OneOpenRequest` makes the mapping well defined, since a gate has one
request. `IInv` is also an invariant of its run.

**Preparation case.** `PInv` says which checkpoints a run at each node has asked and
applied, and that what it carries as decided was approved by somebody entitled to
(`RequestsSound`); that a run past its approach gate loaded a verified intake and has
had its card if its figures are staffed (`GateSound`); and that the run behind the sealed package is over and was
approved (`CaseSound`). Verification is never taken back and cards are never deleted,
so the runs a step does not touch stay sound. `GatesKept` shows step by step that the
requests of the graph move as `GatedRun` allows.

**Tendering.** Two requests may overlap between read and save, so `TaskSound` is
conditional on the version: while the version a request has read is the current one, so
is the register, the state and the opening it has read. `Frame` states the other half:
a step that leaves the version alone changes none of these. `CaseSound` keeps the closing
moment, where there is one, together with the days signed at CP3, and under SMTP counts
no approval that names an e-mail for an addendum that still waits, even when its e-mail
is out; `OpeningSound` keeps the register together with
the documents, and what DW02 gets with what was opened.

**Evaluation.** `RunSound` relates what an approver was shown to the shared tables as
long as no other run is active (`alone`); `FindingsGrounded` says that the findings
stored are, row by row, what grounding makes of the one assessment of the run that
wrote them, which is why the gate fails closed even when it reads the requirements of
another run (`GateClosed`). **Rework.** `ReworkRecords` types the returns and the
explanations, and who is about to decide; the rest is arithmetic on the two windows: a
correction and a passing day only take returns out of a window, so a level that rises to
a block without a new return can only have lost an approval (`BlocksStartByReturn`).

**Services.** `ToolExecutor`: a call was allowed and has tries left (`CallSound`), what
it is about to return was computed for its payload and agrees with the row
(`AnswerSound`), and every row was computed by a call of its tool from its payload
(`RowSound`). `WorkOps`: the open transaction of a run has locked rows of that run, and
says "dispatched" only of a task that exists (`TransactionSound`); a task that exists
was approved, and its run has staged it, recorded it, or failed (`TaskSound`).
`TelegramIntake`: the rest of a poll is a contiguous piece of the updates, what offset
and Telegram have left behind was answered, and what the offset has not passed has a
meeting from an earlier run of the process at most. `LawWatch`: a review under way is
one of a verified position, and what it is about to report is on record.

**Cards.** `IInv` of `NotificationQueueProofs` ties a consumer's
snapshot to its row (`ConsumerSound`) and, for a job that no consumer has outlived,
bounds the attempts while the row waits strictly below `MaxAttempts + abandons`
(`RowSound`): a claim adds an attempt, an abandoned claim a unit of the bound, and
a retry is granted only by a consumer that knows the current number.

**Knowledge.** `JobInv`: what is queued is queued once, a claimed upload is never queued
again, and the uploads left in processing without a consumer are at most as many as the
crashes, a count over a finite set that each crash increases by one at most. `StoreInv`:
whoever writes a version nobody interfered with is alone in it, and PostgreSQL holds
what he committed, so once the points are written the stores agree. `SearchInv`: a
closed breaker has counted the failures since the last success, any other had as many
as open it; a cache entry lies under the key of the question it was found for, and no
key twice; a search has passed the first engines of the chain, in order.

**Chat.** `IntakeInv` of the intake: the order of the conversations lists each that
exists once, a confirm card shows a complete request, and every handler's conversation,
view and case exist (`HandlerSound`). Where messages are handled one at a time it adds
that the view of a turn is still the table (`InStep`, which follows each pair of
statements in which one draft is parked and another activated) and that a case on file
is linked or its handler is about to link it (`FiledIsLinked`), so a second case of the
same conversation cannot be filed. `CaseInv` of `CaseChat`: a turn that acts, answers
or runs a case does so on one its speaker may see (`TurnSound`, since a conversation
holds a case of its own person), and a turn that decides may stem from any listing or
card, so that who decides, and what, rests on what `execute` and its handlers look up
again. `ChangesEntitled` goes through the steps that write a case with these two facts.
The clarification loop still counts on
the questions it read (`Answering`). `DeskInv`: a task past `claim_event` has its file to
itself, and the file is not in the register yet.

## 6. What is only model-checked

Liveness: `EveryCardEnds`, and `EveryCallEnds`, `WorkEnds`, `EveryUpdateLeaves` and
`ChangeIsReported` in `NothingWaitsForever`. The prover has no support for `ENABLED` and
hence for fairness. The findings are counterexamples of their runs.

What a fold computes for every input cannot be proved, because that takes induction over
data. The proofs about `Evaluation` therefore use of the supplier at the top what `IsTop`
says of it, that it is eligible, and not that there is always one; and nothing of the
order in which totals compare. That the rounding of `NUMERIC` does what it should shows
on the instances.

The theorems are about each component's own specification. That the composed runs
add state spaces and share no variable is by construction of the `MC` modules;
`TenderingTypesOK` is proved of the composition itself.

## 7. What is not modelled, and what the models leave unprotected

Texts, layouts, prices and model output are data the properties do not tell
apart. Row-level security and authentication are represented by constant sets of
people with a scope or role. `purge_soft_deleted`, `mark_cp4_ready` and the
escalation of stale explanations have no caller.

Not modelled, because they keep no state that several steps could disturb: the
procurement rules (a look-up whose answers are constants of `PreparationCase`), the
readiness report (read-only advice), chunking and parsing, the model gateway (a retry loop; its
outcome is a free choice everywhere), the memory service (inserts only), identity
provisioning (`ON CONFLICT DO NOTHING` in one transaction), the rate limit (a counter
without an `await` between read and write), the wiring of the API and the web UI. The
connectors and the LangGraph checkpoint store are external; their outcomes are
nondeterministic in the modules that use them.

The properties say what the code guarantees. Where they stop short of what one
might expect, it is because the code does; the actions that show it are named.

- The creator of a case can approve it through a run somebody else started:
  `Decide` compares with the actor of the run, not with `Creator`.
- A failed package gate does not stop CP2 (`PackageGate` goes to `ask2` either way).
- A run left over from before an amendment may move an official case back, since
  no node looks at the state it overwrites (`CompletenessCheck`, `DraftApproach`).
- An amendment clears the open questions (`Amend` sets `snapshot` to `{}`), and a
  later run loads only the answers of the latest turn (`LoadCase`).
- The card of a checkpoint that is raised again is dropped; the approver has the
  first one (`EnqueueCard`).
- A checkpoint whose figures have no recipient, neither by the approval matrix nor by
  the default role, waits without anybody being told (`EnqueueCard` writes nothing).
- Without SMTP the mock's id is recorded as if the RFQ or the notice had been sent; without
  a recipient or storage an addendum is approved and no supplier hears of it
  (`Sent`, `ApproveCp3Send`). A case without a closing moment is never closed by the
  scanner, and an approved extension moves nothing (`Due`, `Extended`).
- Two requests to publish may both send the RFQ (`PublishSend` before
  `PublishSave`), and the e-mail of an extension is built before the closing
  moment moves (`ApproveCp3Send`).
- Reception and opening look at the state of the case and the number of bids, not
  at the closing moment (`ReadRegister`, `Cp4Seal`).
- A fetched mail is marked seen before it is recorded; `MailSkipped`, `PollFails`
  and `Restart` lose it. A due case that was refused is not tried again before a
  restart (`Scan`).
- Minutes and handoff file are written before the save that counts, so they may
  miss a bid; a failed handoff cannot be repeated (`CreateEvaluation` needs the
  request that completed CP4).
- A card may be posted for a state the case has left since the claim (`send` uses
  `seen`).
- An upload whose consumer crashed stays in processing (`Crash`); two versions
  ingested at once may both be current (`ReadCurrent` does not see the other's
  insert); a delete during an ingest may leave points behind (`mixed`).

- Chat: the conversation is marked after the case is committed, so a restart in
  between lets the confirm card file again (`MarkCreated`); on Slack a double click on
  confirm may file two cases. The migration that introduces `chat_conversations`
  does not list `parked` among the states its check allows, so both forms of the table
  are initial states (`checked`). A receipt may credit an act with what another person
  changed meanwhile (`told`). An amendment whose rerun is refused is told as refused
  although the figures have changed.
- Chat acts unnamed: a lifecycle turn opens the bids of the case its conversation is about
  without the name of a case (`SayAboutOwn`), and a number may be mapped to another case
  than the one shown (`chat_points`); `ChangesAreEntitled` says only that the speaker may
  do that to the case that changes. A decision card carries the checkpoint and the case,
  not the request, so an old card decides the request that is pending now (`execute`).
- Receipt desk: words that hold the first word of several suppliers mean the last of them
  without a bid (`Named`); a record the case refuses is told to the person, and the event
  stays claimed, so a redelivery does not try it again (`Record`). A file dropped while a button is still being handled goes to the
  supplier armed before; recording a file disarms a supplier armed during the
  download; an acknowledged envelope is lost with the process.
- Meetings: the gate of a second run replaces the items the first one waits for, whose
  approval then dispatches nothing and closes the meeting. A failing call rolls back
  the statuses of items whose tasks exist. Approved items without assignee stay
  proposed.
- Telegram: an update handled before a restart is handled again, and makes a second
  meeting; a failing acknowledgement is not sent again, and a text that Telegram refuses
  counts as sent, since the status of the reply is not looked at (`_send`).
- Evaluation: overlapping runs share requirements, findings and recommendation, so a
  pack may show the other run's; without a mandatory requirement a supplier that never
  bid can be recommended; rounding moves weights off one and scores onto the minimum;
  a completed case can return to `recommendation_ready`.
- Rework: the windows release an author by age alone, although a comment
  (`rework_guard.py:87`) says that ageing must not quietly do so; an approval that
  ages out blocks again; an approval clears returns that follow it; the second of two
  deciders is told of success and changes nothing.
- Law watch: a change nobody could be alerted of counts as announced until a restart;
  a sweep takes the least recently updated cases, so others may starve; a position
  that changes back and forth is announced once.
- Legal search: a half-open breaker lets every call pass, not one; a response with an
  unreadable body has already been counted as a success; a cached result is cut to
  the `top_k` of who asked first; empty results are cached too; a provider whose pages
  give no passage ends the chain.

## 8. What could follow

Larger refinements: a specification of what chat promises a requester (a request is
drafted, filed once, decided) that `ChatIntake` and `CaseChat` implement together, and one
of the document index that `KnowledgeIngest` implements outside its writes in flight.
Further lemmas about the operators: the order of `build_menu`, the place of a
conversation in `list_open`, and the eviction of the cache as a bound on its age. The
procurement rules, whose tables would be constants with assumptions, and the readiness
report are the largest parts of the core that are not modelled.
