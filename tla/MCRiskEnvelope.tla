--------------------------- MODULE MCRiskEnvelope ---------------------------
(* RiskEnvelope for one agent and one tool, with grants that differ in     *)
(* risk ceiling, lifetime, egress and the approval they ask for.           *)
EXTENDS RiskEnvelope

MCGrantOf ==
  LET base == [subject |-> "agent", covers |-> {"read", "invoke"}, egress |-> {},
               exportable |-> {}, issued |-> 0, expires |-> 3, maxRisk |-> 2,
               needsApproval |-> FALSE]
  IN  [wide     |-> base,
       cautious |-> [base EXCEPT !.maxRisk = 1, !.needsApproval = TRUE],
       brief    |-> [base EXCEPT !.issued = 1, !.expires = 2],
       sender   |-> [base EXCEPT !.egress = {"report"}, !.exportable = {"public"},
                                 !.maxRisk = 1],
       tool     |-> [base EXCEPT !.subject = "tool", !.covers = {"invoke"}, !.maxRisk = 1,
                                 !.egress = {"report"}, !.exportable = {"public"}]]

MCGrant == DOMAIN MCGrantOf

MCRequests ==
  {r \in [subject : {"agent"}, target : {"read", "invoke", "write"}, tool : {"tool", NoSubject},
          destination : {"report", NoDestination}, classification : {"public", NoClassification}] :
     r.tool = "tool" <=> r.target = "invoke"}

MCSessions ==
  [verified : {TRUE}, approved : BOOLEAN, covers : {{"read", "invoke"}}, egress : {{"report"}},
   exportable : {{"public"}},
   agentGrants : {{"wide", "cautious"}, {"brief", "sender"}, {"sender"}, {}},
   toolGrants : {{"tool"}, {}}]
  \cup
  [verified : {FALSE}, approved : {TRUE}, covers : {{"read"}}, egress : {{}}, exportable : {{}},
   agentGrants : {{"wide"}}, toolGrants : {{}}]
=============================================================================
