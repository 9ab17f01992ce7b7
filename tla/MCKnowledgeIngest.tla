------------------------ MODULE MCKnowledgeIngest ---------------------------
(* Instances of the two halves of dw_knowledge for TLC, side by side: two  *)
(* uploads of each of two versions, so that each can supersede the other   *)
(* at the same time; and two searches over a chain of two providers.       *)
EXTENDS KnowledgeIngest, LegalSearch, TLC

CONSTANTS j1, j2, j3, j4, v1, v2, serper, brave

VARIABLE half

MCJobs == {j1, j2, j3, j4}
MCVersions == {v1, v2}
MCVersionOf == (j1 :> v1) @@ (j2 :> v2) @@ (j3 :> v1) @@ (j4 :> v2)

MCChain == <<serper, brave>>
\* Two tenants ask the same, one of them also in the chat
\* and about the rules of the company.
MCAsked == {[tenant |-> 1, text |-> "days", domain |-> "legal", top_k |-> 2],
            [tenant |-> 2, text |-> "days", domain |-> "legal", top_k |-> 1],
            [tenant |-> 1, text |-> "days", domain |-> "shared", top_k |-> 1],
            [tenant |-> 1, text |-> "days", domain |-> "policy", top_k |-> 1]}
MCRouting == [legal |-> "web", shared |-> "both", policy |-> "corpus"]

\* Uploads of one version are interchangeable, and so are the versions.
MCUploads == {(j1 :> j3) @@ (j3 :> j1), (j2 :> j4) @@ (j4 :> j2),
              (v1 :> v2) @@ (v2 :> v1) @@ (j1 :> j2) @@ (j2 :> j1) @@ (j3 :> j4) @@ (j4 :> j3)}

\* Two consumers, or two searches, exchanged: a behaviour has either half at rest.
Exchange(S) == [x \in S |-> CHOOSE y \in S : y # x]

MCSymmetry == MCUploads \cup {Exchange(Workers) @@ Exchange(Searchers)}

MCInit == Init /\ SearchInit /\ half \in {"ingest", "search"}

MCNext ==
    /\ half' = half
    /\ \/ half = "ingest" /\ Next /\ UNCHANGED searchVars
       \/ half = "search" /\ SearchNext /\ UNCHANGED vars

MCSpec == MCInit /\ [][MCNext]_<<vars, searchVars, half>>
=============================================================================
