-------------------------------- MODULE Stores --------------------------------
(* Two stores several processes write: the agents' rows and the abuse policy.  They share
   no state, so that together they are the conjunction of their specifications. *)
EXTENDS AgentStore, AbusePolicy

StoresSpec == AgentStoreSpec /\ AbusePolicySpec

\* The agents' secrets and the abuse policy are what those who set them were told
\* (agent_repository.py, abuse_live.py, the dashboard's abuse.go).
StoresAreSafe ==
    AgentStoreTypeOK /\ AbusePolicyTypeOK /\ SecretsAreSafe /\ PolicyIsApplied
=============================================================================
