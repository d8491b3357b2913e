--------------------------- MODULE MCPrivateShield ---------------------------
(* PrivateShield for one agent, one secret and one tool, with a grant that *)
(* ends before the leases it authorizes.                                   *)
EXTENDS PrivateShield, TLC

MCGrantOf ==
  LET base == [subject |-> "agent", covers |-> {"secret", "invoke"}, egress |-> {},
               exportable |-> {}, issued |-> 0, expires |-> 9, maxRisk |-> 1,
               needsApproval |-> FALSE]
  IN  [wide  |-> base,
       brief |-> [base EXCEPT !.expires = 1, !.maxRisk = 0],
       tool  |-> [base EXCEPT !.subject = "tool", !.covers = {"invoke"}]]

LeaseSymmetry == Permutations(LeaseId)

MCGrant == DOMAIN MCGrantOf

MCSession ==
  [verified |-> TRUE, approved |-> FALSE, covers |-> {"secret", "invoke"}, egress |-> {},
   exportable |-> {}, agentGrants |-> {"wide", "brief"}, toolGrants |-> {"tool"}]

MCAsks ==
  {[subject |-> "agent", secret |-> "secret", session |-> s, risk |-> r, ttl |-> 2,
    maxUses |-> 2] :
     r \in {0, 1}, s \in {MCSession}}
  \cup {[subject |-> "agent", secret |-> "secret",
         session |-> [MCSession EXCEPT !.verified = FALSE], risk |-> 0, ttl |-> 1,
         maxUses |-> 1]}

MCToolCalls ==
  {[request |-> [subject |-> "agent", target |-> "invoke", tool |-> "tool",
                 destination |-> NoDestination, classification |-> NoClassification],
    session |-> s, risk |-> 0] : s \in {MCSession, [MCSession EXCEPT !.toolGrants = {}]}}
=============================================================================
