---------------------------- MODULE PolicyEngine ----------------------------
(***************************************************************************)
(* The default-deny reference monitor of AEGIS Private Shield,             *)
(* python/ethos_aegis/private_shield/policy.py and models.py.  evaluate is *)
(* a pure function of the request, the project policy, the grants the      *)
(* caller supplies, the risk and the time.                                 *)
(*                                                                         *)
(* A target stands for what a request names (action, resource, path,       *)
(* environment, network destination); a policy or a grant covers a set of  *)
(* targets.  Risk is a whole number of steps and time a number of ticks.   *)
(***************************************************************************)
EXTENDS Integers, FiniteSets

CONSTANTS
  Subject,         \* agents and tools
  Target,
  Destination,     \* where output may be sent
  Classification,  \* what the output may be classified as
  NoSubject, NoDestination, NoClassification,   \* the None of an optional field
  Grant,           \* the capability ids
  GrantOf,         \* the CapabilityGrant of each
  MaxRisk

(* The CapabilityGrant dataclass and the checks of its constructor. *)
CapabilityGrant ==
  {g \in [subject : Subject, covers : SUBSET Target, egress : SUBSET Destination,
          exportable : SUBSET Classification, issued : Nat, expires : Nat,
          maxRisk : 0 .. MaxRisk, needsApproval : BOOLEAN] : g.issued < g.expires}

ASSUME GrantAssumption ==
  /\ MaxRisk \in Nat
  /\ \A g \in Grant : GrantOf[g] \in CapabilityGrant

ASSUME NoneAssumption ==
  NoSubject \notin Subject /\ NoDestination \notin Destination
    /\ NoClassification \notin Classification

ActionRequest ==
  [subject : Subject, target : Target, tool : Subject \cup {NoSubject},
   destination : Destination \cup {NoDestination},
   classification : Classification \cup {NoClassification}]

(* What the caller passes with a request: the project policy, the grants   *)
(* of the agent and of the tool, the identity and the human's approval.    *)
Session ==
  [verified : BOOLEAN, approved : BOOLEAN,
   covers : SUBSET Target, egress : SUBSET Destination, exportable : SUBSET Classification,
   agentGrants : SUBSET Grant, toolGrants : SUBSET Grant]

PolicyDecision ==
  [decision : {"ALLOW", "DENY", "REQUIRE_APPROVAL"}, capabilities : SUBSET Grant,
   risk : 0 .. MaxRisk]

----------------------------------------------------------------------------
(* CapabilityGrant.is_active. *)
IsActive(g, now) == GrantOf[g].issued <= now /\ now < GrantOf[g].expires

(* A matching that reads a grant's risk ceiling the wrong way round.        *)
MutantMatchingFloor(request, grants, subject, risk, now) ==
  {g \in grants : /\ GrantOf[g].subject = subject
                  /\ request.target \in GrantOf[g].covers
                  /\ IsActive(g, now)
                  /\ risk >= GrantOf[g].maxRisk}

(* _matching_grants. *)
MatchingGrants(request, grants, subject, risk, now) ==
  {g \in grants : /\ GrantOf[g].subject = subject
                  /\ request.target \in GrantOf[g].covers
                  /\ IsActive(g, now)
                  /\ risk <= GrantOf[g].maxRisk}

(* _check_flow: output that goes nowhere is free, any other needs its      *)
(* destination and its classification allowed by the same authority.       *)
FlowAllowed(request, authority) ==
  request.destination # NoDestination =>
    /\ request.destination \in authority.egress
    /\ request.classification \in authority.exportable

ProjectAllows(request, session) ==
  request.target \in session.covers /\ FlowAllowed(request, session)

(* The grants of agent and tool that an evaluation selects. *)
AgentSelected(request, session, risk, now) ==
  {g \in MatchingGrants(request, session.agentGrants, request.subject, risk, now) :
     FlowAllowed(request, GrantOf[g])}

ToolSelected(request, session, risk, now) ==
  IF request.tool = NoSubject THEN {}
  ELSE {g \in MatchingGrants(request, session.toolGrants, request.tool, risk, now) :
          FlowAllowed(request, GrantOf[g])}

Selected(request, session, risk, now) ==
  AgentSelected(request, session, risk, now) \cup ToolSelected(request, session, risk, now)

(* Every predicate but the human's approval. *)
Authorized(request, session, risk, now) ==
  /\ session.verified
  /\ ProjectAllows(request, session)
  /\ AgentSelected(request, session, risk, now) # {}
  /\ request.tool # NoSubject => ToolSelected(request, session, risk, now) # {}

ApprovalNeeded(request, session, risk, now) ==
  \E g \in Selected(request, session, risk, now) : GrantOf[g].needsApproval

(* A monitor that takes the tool's word: a tool call needs no agent grant. *)
MutantEvaluateDeputy(request, session, risk, now) ==
  LET tool == ToolSelected(request, session, risk, now)
      agent == AgentSelected(request, session, risk, now)
  IN  IF ~session.verified \/ ~ProjectAllows(request, session) \/ agent \cup tool = {}
      THEN [decision |-> "DENY", capabilities |-> {}, risk |-> risk]
      ELSE IF ApprovalNeeded(request, session, risk, now) /\ ~session.approved
           THEN [decision |-> "REQUIRE_APPROVAL", capabilities |-> agent \cup tool, risk |-> risk]
           ELSE [decision |-> "ALLOW", capabilities |-> agent \cup tool, risk |-> risk]

(* PolicyEngine.evaluate. *)
Evaluate(request, session, risk, now) ==
  IF ~Authorized(request, session, risk, now)
  THEN [decision |-> "DENY", capabilities |-> {}, risk |-> risk]
  ELSE [decision |-> IF ApprovalNeeded(request, session, risk, now) /\ ~session.approved
                     THEN "REQUIRE_APPROVAL" ELSE "ALLOW",
        capabilities |-> Selected(request, session, risk, now),
        risk |-> risk]

=============================================================================
