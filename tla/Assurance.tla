---- MODULE Assurance ----
(***************************************************************************)
(* What the auditors work with, all of it at once: the scores and the      *)
(* models behind them, annual plans, self-assessments, control tests,      *)
(* integrations, reports and findings, and the register of entities.  The  *)
(* modules share no state; a step is a step of one of them.                *)
(***************************************************************************)
EXTENDS RiskScores, RiskModels, AuditPlans, SelfAssessments, ControlTests,
        Integrations, Engagements, EntityTree, Materiality

riskVars == <<scoreVars, modelVars, planVars>>
testVars == <<csaVars, icfrVars, engagementVars>>
registerVars == <<treeVars, keepVars>>
assuranceVars == <<riskVars, testVars, integrationVars, registerVars>>

AssuranceInit ==
  /\ ScoreInit /\ ModelInit /\ PlanInit /\ CsaInit /\ IcfrInit
  /\ IntegrationsInit /\ EngagementInit /\ TreeInit /\ MaterialityInit

RiskOnly == UNCHANGED <<testVars, integrationVars, registerVars>>
ScoreMoves == ScoreNext /\ UNCHANGED <<modelVars, planVars>> /\ RiskOnly
ModelMoves == ModelNext /\ UNCHANGED <<scoreVars, planVars>> /\ RiskOnly
PlanMoves == PlanNext /\ UNCHANGED <<scoreVars, modelVars>> /\ RiskOnly

TestsOnly == UNCHANGED <<riskVars, integrationVars, registerVars>>
CsaMoves == CsaNext /\ UNCHANGED <<icfrVars, engagementVars>> /\ TestsOnly
IcfrMoves == IcfrNext /\ UNCHANGED <<csaVars, engagementVars>> /\ TestsOnly
EngagementMoves == EngagementNext /\ UNCHANGED <<csaVars, icfrVars>> /\ TestsOnly

IntegrationsOnly == UNCHANGED <<riskVars, testVars, registerVars>>
InboundMoves == InboundNext /\ UNCHANGED outboundVars /\ IntegrationsOnly
OutboundMoves == OutboundNext /\ UNCHANGED inboundVars /\ IntegrationsOnly

RegisterOnly == UNCHANGED <<riskVars, testVars, integrationVars>>
TreeMoves == TreeNext /\ UNCHANGED keepVars /\ RegisterOnly
MaterialityMoves == MaterialityNext /\ UNCHANGED treeVars /\ RegisterOnly

AssuranceNext ==
  \/ ScoreMoves \/ ModelMoves \/ PlanMoves
  \/ CsaMoves \/ IcfrMoves \/ EngagementMoves
  \/ InboundMoves \/ OutboundMoves
  \/ TreeMoves \/ MaterialityMoves

AssuranceSpec == AssuranceInit /\ [][AssuranceNext]_assuranceVars

----
\* Every module's state is of the types the code keeps it in, with the others
\* at work: the ranges of scores, ratings and figures among them.
TypesOK ==
  /\ ScoreTypeOK /\ ModelTypeOK /\ PlanTypeOK /\ CsaTypeOK /\ IcfrTypeOK
  /\ IntegrationsTypeOK /\ EngagementTypeOK /\ TreeTypeOK /\ MaterialityTypeOK

\* What the register of entities shows: its tree, and the cache it sorts by.
RegisterHolds == TreeHolds /\ CacheInStep
====
