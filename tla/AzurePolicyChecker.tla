------------------------- MODULE AzurePolicyChecker -------------------------
(***************************************************************************)
(* The Azure Policy checker of pkg/checker/azurepolicy: the dry run of a   *)
(* Pod that violates two policies, whose violation shows in warnings, in   *)
(* the error, or in both.                                                  *)
(*                                                                         *)
(* A message, an error's or a warning's, is the set of those of its words  *)
(* that the checker looks for. Messages may quote the Pod's name, which    *)
(* begins with the checker's.                                              *)
(***************************************************************************)
EXTENDS CheckerRun

VARIABLES
    named,      \* the checker's name, in lower case, contains "azurepolicy"
    violation   \* history: Azure Policy reported one of the two violations

policy == <<named, violation>>

PolicyInit == named \in BOOLEAN /\ violation = FALSE
PolicyReset == violation' = FALSE /\ UNCHANGED named

\* "matcher" is any of the three texts of azurePolicyMatchers.
Words == {"azurepolicy", "matcher"}
PolicyViolation == {"azurepolicy", "matcher"}

\* Any other message, of Azure Policy or not.
OtherMessages == IF named THEN SUBSET Words ELSE (SUBSET Words) \ {PolicyViolation}

\* hasAzurePolicyViolation
HasViolation(m) == "azurepolicy" \in m /\ "matcher" \in m

NewClientFails == pc = "dryRun" /\ Return("error") /\ UNCHANGED policy

\* What check makes of the error, its message, and the captured warnings.
Verdict(err, msg, warnings) ==
    IF err = "deadline" THEN "error"
    ELSE IF (err = "other" /\ HasViolation(msg)) \/ \E m \in warnings : HasViolation(m)
      THEN "Healthy"
      ELSE "AzurePolicyEnforcementMissing"

\* The call of check. A request whose caller gave up, or that fails on the way,
\* brings no word of Azure Policy.
DryRun ==
    /\ pc = "dryRun"
    /\ \E err \in {"none", "deadline", "other"}, spoke \in BOOLEAN :
        /\ IF err = "none" THEN Answered ELSE Fails(err)
        /\ spoke => Answered
        /\ violation' = spoke
        /\ LET said == IF spoke THEN OtherMessages \cup {PolicyViolation}
                                ELSE OtherMessages
           IN  \E msg \in said, warnings \in SUBSET said :
                /\ spoke => PolicyViolation \in warnings
                              \/ (err = "other" /\ msg = PolicyViolation)
                /\ Return(Verdict(err, msg, warnings))
    /\ UNCHANGED named

PolicyStep == NewClientFails \/ DryRun

=============================================================================
