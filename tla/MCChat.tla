------------------------------- MODULE MCChat -------------------------------
(***************************************************************************)
(* The chat components on small instances.  They share no variable, so a   *)
(* behaviour exercises one of them and the state spaces add up.            *)
(***************************************************************************)
EXTENDS ChatIntake, CaseChat, ReceiptDesk, TLC

VARIABLE part

ChatVars == <<part, intakeVars, caseVars, deskVars>>

Init ==
    /\ part \in {"intake", "cases", "desk"}
    /\ IntakeInit
    /\ CaseChatInit
    /\ DeskInit
    /\ part # "intake" => loop /\ checked
    /\ part # "cases" => /\ oneloop
                         /\ drafting = {}
                         /\ owned["requester"] = 1
                         /\ \A c \in Cases : kase[c].state = "draft" /\ kase[c].by = "requester"
    /\ owned["requester"] = 0 => oneloop /\ drafting = {}
    /\ part # "desk" => \A d \in Drops : caption[d] = Nobody

Next ==
    \/ part = "intake" /\ IntakeNext /\ UNCHANGED <<part, caseVars, deskVars>>
    \/ part = "cases" /\ CaseChatNext /\ UNCHANGED <<part, intakeVars, deskVars>>
    \/ part = "desk" /\ DeskNext /\ UNCHANGED <<part, intakeVars, caseVars>>

Spec == Init /\ [][Next]_ChatVars

Symmetry == Permutations(Chats) \union Permutations(Handlers) \union Permutations(Tasks)

\* A supplier's name is its own.  The other words hold a first word all suppliers
\* share, so they mean nobody, and the last one once the others have their bids.
Alike == [words \in Suppliers \union Strangers |->
            IF words \in Suppliers THEN {words} ELSE Suppliers]
=============================================================================
