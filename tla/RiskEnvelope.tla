---------------------------- MODULE RiskEnvelope ----------------------------
(***************************************************************************)
(* One request, put to the PolicyEngine again and again while the five     *)
(* risk scores rise and time passes: how the answer changes.               *)
(***************************************************************************)
EXTENDS PolicyEngine

CONSTANTS
  Requests,   \* the requests of this instance
  Sessions,   \*   and the sessions they are made in
  MaxClock    \* bound on time

ASSUME EnvelopeAssumption ==
  /\ Requests \subseteq ActionRequest
  /\ Sessions \subseteq Session
  /\ MaxClock \in Nat

RiskDomain == {"secret", "network", "source", "execution", "production"}

VARIABLES request, session, risk, clock

envelope == <<request, session, risk, clock>>

(* RiskVector.maximum. *)
Maximum(scores) ==
  CHOOSE r \in {scores[d] : d \in RiskDomain} : \A d \in RiskDomain : scores[d] <= r

Verdict == Evaluate(request, session, Maximum(risk), clock)

(* Every field keeps its type, and so does the decision computed from them. *)
EnvelopeTypeOK ==
  /\ request \in ActionRequest
  /\ session \in Session
  /\ risk \in [RiskDomain -> 0 .. MaxRisk]
  /\ clock \in Nat
  /\ Verdict \in PolicyDecision

----------------------------------------------------------------------------
EnvelopeInit ==
  /\ request \in Requests
  /\ session \in Sessions
  /\ risk = [d \in RiskDomain |-> 0]
  /\ clock = 0

(* The next request of the same shape scores one step higher in domain d. *)
Escalate(d) ==
  /\ risk[d] < MaxRisk
  /\ risk' = [risk EXCEPT ![d] = risk[d] + 1]
  /\ UNCHANGED <<request, session, clock>>

Elapse ==
  /\ clock < MaxClock
  /\ clock' = clock + 1
  /\ UNCHANGED <<request, session, risk>>

EnvelopeNext == Elapse \/ \E d \in RiskDomain : Escalate(d)

EnvelopeSpec == EnvelopeInit /\ [][EnvelopeNext]_envelope

----------------------------------------------------------------------------
(* Properties. *)

(* Whatever is not denied intersects: the project, a grant of the caller   *)
(* and, through a tool, a grant of the tool, each alive now and at this    *)
(* risk, each letting the output go where the request sends it.            *)
NoConfusedDeputy ==
  Verdict.decision # "DENY" =>
    /\ ProjectAllows(request, session)
    /\ \A s \in {request.subject, request.tool} \ {NoSubject} :
         \E g \in Verdict.capabilities :
           /\ GrantOf[g].subject = s
           /\ FlowAllowed(request, GrantOf[g])
           /\ IsActive(g, clock)
           /\ Maximum(risk) <= GrantOf[g].maxRisk

(* Rising risk never adds a capability to the ones an evaluation selects.  *)
CapabilitiesContract ==
  [][clock' = clock => Selected(request, session, Maximum(risk), clock)'
                     \subseteq Selected(request, session, Maximum(risk), clock)]_envelope

=============================================================================
