---------------------------- MODULE ReceiptDesk ----------------------------
(***************************************************************************)
(* The receipt desk of one Slack channel (dw_api/channels/slack.py): a     *)
(* supplier's button or a sentence arms the channel for a file, and the    *)
(* file dropped next is recorded as that supplier's bid.  Slack            *)
(* acknowledges an envelope before it is handled, may deliver it again,    *)
(* and starts a task for each; the armed supplier lives in memory          *)
(* (pending_uploads), the register and the claimed events in the database. *)
(***************************************************************************)
EXTENDS Naturals, FiniteSets

CONSTANTS Tasks,           \* envelopes being handled
          Drops,           \* files the person drops into the channel
          Suppliers,       \* the suppliers invited
          Strangers,       \* other words typed: names nobody invited, several names
          LooksLike,       \* the invited suppliers whose name, or its first word, they hold
          MaxDeliveries,   \* bound: deliveries of one event
          MaxArms,         \* bound: buttons and sentences
          MaxDeskRestarts, \* bound: restarts of the process
          Nobody

ASSUME DeskAssumption ==
    /\ {MaxDeliveries, MaxArms, MaxDeskRestarts} \subseteq Nat
    /\ Nobody \notin Suppliers \union Strangers
    /\ Suppliers \cap Strangers = {}
    /\ LooksLike \in [Suppliers \union Strangers -> SUBSET Suppliers]
    /\ \A s \in Suppliers : s \in LooksLike[s]

VARIABLES
    armed,      \* pending_uploads of the channel
    task,       \* what each task does, for which supplier and file
    delivered,  \* deliveries of each drop
    claimed,    \* channel_event_dedupe
    register,   \* bids recorded: the file, its supplier, what was armed for it
    accepting,  \* the case is published or receiving bids
    caption,    \* the name typed with each file, or Nobody
    arms, deskRestarts

deskVars == <<armed, task, delivered, claimed, register, accepting, caption, arms, deskRestarts>>

TaskRest == [pc |-> "idle", file |-> Nobody, for |-> Nobody, read |-> Nobody]
Recorded == {r.for : r \in register}

DeskInit ==
    /\ armed = Nobody
    /\ task = [t \in Tasks |-> TaskRest]
    /\ delivered = [d \in Drops |-> 0]
    /\ claimed = {}
    /\ register = {}
    /\ accepting = TRUE
    /\ caption \in [Drops -> Suppliers \union Strangers \union {Nobody}]
    /\ arms = 0
    /\ deskRestarts = 0

Goes(t, then) ==
    /\ task' = [task EXCEPT ![t] = then]
    /\ UNCHANGED <<armed, delivered, claimed, register, accepting, caption, arms, deskRestarts>>

(***************************************************************************)
(* Arming: the button of a card, which may be old, or a sentence.          *)
(***************************************************************************)
\* _match_receipt_supplier: the one invited supplier without a bid that the
\* words look like, while the case takes bids; nobody when there are several.
Named(words) ==
    {s \in LooksLike[words] : accepting /\ LooksLike[words] \ Recorded = {s}}

ArmFor(t, s) ==
    /\ task[t].pc = "idle"
    /\ arms < MaxArms
    /\ arms' = arms + 1
    /\ task' = [task EXCEPT ![t] = [TaskRest EXCEPT !.pc = "arm", !.for = s]]
    /\ UNCHANGED <<armed, delivered, claimed, register, accepting, caption, deskRestarts>>

_start_receipt_upload(t, s) == ArmFor(t, s)

_arm_receipt_from_text(t, words) == \E s \in Named(words) : ArmFor(t, s)

\* The card is deleted and posted again before the channel is armed.
Arm(t) ==
    /\ task[t].pc = "arm"
    /\ armed' = task[t].for
    /\ task' = [task EXCEPT ![t] = TaskRest]
    /\ UNCHANGED <<delivered, claimed, register, accepting, caption, arms, deskRestarts>>

(***************************************************************************)
(* A file.                                                                 *)
(***************************************************************************)
Deliver(t, d) ==
    /\ task[t].pc = "idle"
    /\ delivered[d] < MaxDeliveries
    /\ delivered' = [delivered EXCEPT ![d] = @ + 1]
    /\ task' = [task EXCEPT ![t] = [TaskRest EXCEPT !.pc = "claim", !.file = d]]
    /\ UNCHANGED <<armed, claimed, register, accepting, caption, arms, deskRestarts>>

\* The event is claimed whether or not it was before.
ClaimAgain(t) ==
    /\ task[t].pc = "claim"
    /\ claimed' = claimed \union {task[t].file}
    /\ task' = [task EXCEPT ![t].pc = "look"]
    /\ UNCHANGED <<armed, delivered, register, accepting, caption, arms, deskRestarts>>

\* claim_event: one insert wins, a redelivery ends here.
Claim(t) ==
    /\ task[t].pc = "claim"
    /\ IF task[t].file \in claimed
         THEN Goes(t, TaskRest)
         ELSE /\ claimed' = claimed \union {task[t].file}
              /\ task' = [task EXCEPT ![t].pc = "look"]
              /\ UNCHANGED <<armed, delivered, register, accepting, caption, arms, deskRestarts>>

\* _handle_receipt_file: what is armed, else the caption, else nothing.
LookUp(t) ==
    /\ task[t].pc = "look"
    /\ LET words == caption[task[t].file]
           found == IF armed # Nobody THEN {armed} ELSE IF words # Nobody THEN Named(words)
                    ELSE {}
       IN  \/ \E s \in found :
                 Goes(t, [task[t] EXCEPT !.pc = "download", !.for = s, !.read = s])
           \/ found = {} /\ Goes(t, TaskRest)

\* The download fails, or the file is too large: the person is told.
Download(t) ==
    /\ task[t].pc = "download"
    /\ \/ Goes(t, TaskRest)
       \/ Goes(t, [task[t] EXCEPT !.pc = "record"])

\* record_submission, then the channel is disarmed, whatever is armed by now.
\* Or it is refused: the case has moved on, its version or its closing moment
\* says no (Tendering).  The person is told, and the event stays claimed.
Record(t) ==
    /\ task[t].pc = "record"
    /\ \/ /\ accepting
          /\ register' = register \union {[task |-> t, file |-> task[t].file,
                                           for |-> task[t].for, read |-> task[t].read,
                                           n |-> Cardinality(register)]}
          /\ armed' = Nobody
       \/ UNCHANGED <<register, armed>>
    /\ task' = [task EXCEPT ![t] = TaskRest]
    /\ UNCHANGED <<delivered, claimed, accepting, caption, arms, deskRestarts>>

(***************************************************************************)
(* The case closes (CP3, CP4), and the process restarts.                   *)
(***************************************************************************)
CloseDesk ==
    /\ accepting
    /\ accepting' = FALSE
    /\ UNCHANGED <<armed, task, delivered, claimed, register, caption, arms, deskRestarts>>

\* What was acknowledged and not handled is gone, and so is what was armed.
RestartDesk ==
    /\ deskRestarts < MaxDeskRestarts
    /\ deskRestarts' = deskRestarts + 1
    /\ armed' = Nobody
    /\ task' = [t \in Tasks |-> TaskRest]
    /\ UNCHANGED <<delivered, claimed, register, accepting, caption, arms>>

DeskNext ==
    \/ CloseDesk \/ RestartDesk
    \/ \E t \in Tasks :
          \/ \E s \in Suppliers : _start_receipt_upload(t, s)
          \/ \E words \in Suppliers \union Strangers : _arm_receipt_from_text(t, words)
          \/ \E d \in Drops : Deliver(t, d)
          \/ Arm(t) \/ Claim(t) \/ LookUp(t) \/ Download(t) \/ Record(t)

DeskSpec == DeskInit /\ [][DeskNext]_deskVars

-----------------------------------------------------------------------------
\* However often Slack delivers a file, and across restarts, it is recorded at
\* most once (claim_event before _handle_receipt_file).
OneRecordPerDrop ==
    \A r1, r2 \in register : r1.file = r2.file => r1 = r2

\* A bid is recorded for the supplier that was armed or named when the file
\* was taken up, whatever is armed during the download.
RecordedAsTaken == \A r \in register : r.for = r.read

\* Only invited suppliers get a bid, whatever a caption or a sentence says; a
\* stranger that shares the first word of one is taken for that one.
RecordedIsInvited == Recorded \subseteq Suppliers

\* Deliveries, buttons, downloads and restarts in any order: a file is one bid,
\* of the invited supplier it was taken for.
BidIsItsSuppliers == OneRecordPerDrop /\ RecordedAsTaken /\ RecordedIsInvited
=============================================================================
