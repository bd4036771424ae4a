--------------------------- MODULE ReviewDelivery ---------------------------
(***************************************************************************)
(* What surrounds the gate's decision on a change, one stage at a time:    *)
(* evidence is collected into local folders and a case is made of it, or a *)
(* case is generated; a review is delivered by GitHub or by Azure DevOps,  *)
(* its documents go from command to command, evidence is attested, and a   *)
(* change that passed is compared in a canary.  The stages hand documents  *)
(* to each other and share no other state, so a behaviour runs one of them *)
(* and the others stay as they began.                                      *)
(***************************************************************************)
EXTENDS LocalWorkspaces, GitHubReview, AzureApproval, ReviewDocuments, TrustedGeneration,
        CanaryRollout, ArtifactAttestation

VARIABLE stage

vars == <<stage, workspaceVars, githubVars, azureVars, documentVars, generationVars, canaryVars,
          attestationVars>>

Init ==
    /\ stage \in {"evidence", "generation", "github", "documents", "azure", "canary", "attestation"}
    /\ WorkspaceInit
    /\ stage # "evidence" => agenda = CHOOSE a \in Agendas : TRUE
    /\ GitHubInit
    /\ stage # "github" => pull = CHOOSE p \in [base : Bases, head : Heads] : TRUE
    /\ AzureInit
    /\ DocumentsInit
    /\ stage # "documents" =>
          /\ job = (CHOOSE e \in Environments : TRUE)
          /\ files.case = (CHOOSE c \in DOMAIN DocumentCase : TRUE)
    /\ GenerationInit
    /\ CanaryInit
    /\ AttestationInit

OnEvidence ==
    /\ stage = "evidence" /\ WorkspaceNext
    /\ UNCHANGED <<stage, githubVars, azureVars, documentVars, generationVars,
                   canaryVars, attestationVars>>

OnGeneration ==
    /\ stage = "generation" /\ GenerationNext
    /\ UNCHANGED <<stage, workspaceVars, githubVars, azureVars, documentVars, canaryVars,
                   attestationVars>>

OnGitHub ==
    /\ stage = "github" /\ GitHubNext
    /\ UNCHANGED <<stage, workspaceVars, azureVars, documentVars, generationVars,
                   canaryVars, attestationVars>>

OnDocuments ==
    /\ stage = "documents" /\ DocumentsNext
    /\ UNCHANGED <<stage, workspaceVars, githubVars, azureVars, generationVars,
                   canaryVars, attestationVars>>

OnAzure ==
    /\ stage = "azure" /\ AzureNext
    /\ UNCHANGED <<stage, workspaceVars, githubVars, documentVars, generationVars,
                   canaryVars, attestationVars>>

OnCanary ==
    /\ stage = "canary" /\ CanaryNext
    /\ UNCHANGED <<stage, workspaceVars, githubVars, azureVars, documentVars,
                   generationVars, attestationVars>>

OnAttestation ==
    /\ stage = "attestation" /\ AttestationNext
    /\ UNCHANGED <<stage, workspaceVars, githubVars, azureVars, documentVars,
                   generationVars, canaryVars>>

Next == OnEvidence \/ OnGeneration \/ OnGitHub \/ OnDocuments \/ OnAzure \/ OnCanary
        \/ OnAttestation

Spec == Init /\ [][Next]_vars
=============================================================================
