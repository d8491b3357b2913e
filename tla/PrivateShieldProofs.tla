------------------------- MODULE PrivateShieldProofs -------------------------
(* Theorems of PrivateShield, for any grants, leases, calls and nesting;   *)
(* and, at the end, of the policy engine that it asks (RiskEnvelope).      *)
EXTENDS PrivateShield, RiskEnvelope, SequenceTheorems, FiniteSetTheorems, TLAPS

----------------------------------------------------------------------------
(* What the operators return. *)

LEMMA SelectedGrants ==
  ASSUME NEW asked, NEW within \in Session, NEW level, NEW time
  PROVE  Selected(asked, within, level, time) \subseteq Grant
BY DEF Selected, AgentSelected, ToolSelected, MatchingGrants, Session

LEMMA EvaluateType ==
  ASSUME NEW asked \in ActionRequest, NEW within \in Session,
         NEW level \in 0 .. MaxRisk, NEW time \in Nat
  PROVE  Evaluate(asked, within, level, time) \in PolicyDecision
BY SelectedGrants DEF Evaluate, PolicyDecision

LEMMA SecretUseType ==
  ASSUME NEW ask \in Asks
  PROVE  /\ SecretUse(ask) \in ActionRequest
         /\ ask \in LeaseAsk
         /\ ask.session \in Session /\ ask.risk \in 0 .. MaxRisk
         /\ ask.subject \in Subject /\ ask.secret \in Secret /\ ask.secret \in Target
BY ShieldAssumption DEF LeaseAsk, SecretUse, ActionRequest

LEMMA AskVerdict ==
  ASSUME NEW ask \in Asks, now \in Nat
  PROVE  Evaluate(SecretUse(ask), ask.session, ask.risk, now) \in PolicyDecision
BY SecretUseType, EvaluateType

LEMMA ToolVerdict ==
  ASSUME NEW call \in ToolCalls, now \in Nat
  PROVE  /\ call.request \in ActionRequest
         /\ Evaluate(call.request, call.session, call.risk, now) \in PolicyDecision
<1>1. call.request \in ActionRequest /\ call.session \in Session /\ call.risk \in 0 .. MaxRisk
  BY ShieldAssumption DEF ToolCall
<1> QED
  BY <1>1, EvaluateType

LEMMA ReceiptType ==
  ASSUME receipts \in Seq(AuditReceipt),
         NEW reason \in {"authorization", "consumption"}, NEW subject \in Subject,
         NEW target \in Target, NEW verdict \in PolicyDecision,
         NEW lease \in LeaseId \cup {NoLease}, NEW time \in Nat,
         Receipt(reason, subject, target, verdict, lease, time)
  PROVE  receipts' \in Seq(AuditReceipt)
BY DEF Receipt, AuditReceipt

LEMMA StackTop ==
  ASSUME stack \in Seq(Frame), stack # << >>
  PROVE  /\ Top \in Frame
         /\ Below \in Seq(Frame)
         /\ Len(Below) = Len(stack) - 1
         /\ \A i \in 1 .. Len(Below) : i \in 1 .. Len(stack) /\ Below[i] = stack[i]
<1> DEFINE last == Len(stack)
<1>1. last \in Nat \ {0}
  OBVIOUS
<1>2. Top \in Frame
  BY <1>1 DEF Top
<1>3. \A i \in 1 .. last - 1 : stack[i] \in Frame
  BY <1>1
<1>4. Below = SubSeq(stack, 1, last - 1)
  BY DEF Below
<1> HIDE DEF last
<1>5. /\ Below \in Seq(Frame)
      /\ Len(Below) = last - 1
      /\ \A i \in 1 .. last - 1 : Below[i] = stack[i]
  BY <1>1, <1>3, <1>4, SubSeqProperties
<1> QED
  BY <1>1, <1>2, <1>5 DEF last

LEMMA LeaseOf ==
  ASSUME TypeOK, NEW l \in LeaseId, leases[l] # NoLease
  PROVE  leases[l] \in LeaseRecord
BY DEF TypeOK

LEMMA AdapterFrameType ==
  ASSUME TypeOK, NEW l \in LeaseId, leases[l] # NoLease
  PROVE  AdapterFrame(l) \in Frame
<1>1. leases[l] \in LeaseRecord
  BY LeaseOf
<1>2. leases[l].subject \in Subject /\ leases[l].secret \in Target
        /\ leases[l].capabilities \subseteq Grant /\ leases[l].risk \in 0 .. MaxRisk
  BY <1>1, ShieldAssumption DEF LeaseRecord
<1>3. AdapterFrame(l).request \in ActionRequest
  BY <1>2 DEF AdapterFrame, ActionRequest
<1>4. AdapterFrame(l).verdict \in PolicyDecision
  BY <1>2 DEF AdapterFrame, PolicyDecision
<1> QED
  BY <1>3, <1>4 DEF AdapterFrame, Frame, TypeOK

----------------------------------------------------------------------------
(* Type correctness. *)

LEMMA InitType == Init => TypeOK
BY DEF Init, TypeOK

LEMMA LeaseStepType ==
  ASSUME TypeOK, NEW l \in LeaseId, NEW record \in LeaseRecord,
         leases' = [leases EXCEPT ![l] = record]
  PROVE  leases' \in [LeaseId -> LeaseRecord \cup {NoLease}]
BY DEF TypeOK

LEMMA RequestType ==
  ASSUME TypeOK, NEW ask \in Asks,
         \/ LeaseRefused(ask)
         \/ \E l \in LeaseId : LeaseIssued(l, ask)
  PROVE  TypeOK'
<1> DEFINE verdict == Evaluate(SecretUse(ask), ask.session, ask.risk, now)
<1>1. verdict \in PolicyDecision
  BY AskVerdict DEF TypeOK
<1>2. Receipt("authorization", ask.subject, ask.secret, verdict, NoLease, now)
  BY DEF LeaseRefused, LeaseIssued
<1> HIDE DEF verdict
<1>3. receipts' \in Seq(AuditReceipt)
  BY <1>1, <1>2, ReceiptType, SecretUseType DEF TypeOK
<1>4. CASE LeaseRefused(ask)
  BY <1>3, <1>4 DEF LeaseRefused, TypeOK
<1>5. ASSUME NEW l \in LeaseId, LeaseIssued(l, ask)
      PROVE  TypeOK'
  <2> DEFINE record == [subject |-> ask.subject, secret |-> ask.secret,
                        expires |-> now + ask.ttl, maxUses |-> ask.maxUses,
                        capabilities |-> verdict.capabilities, risk |-> verdict.risk,
                        remaining |-> ask.maxUses, revoked |-> FALSE]
  <2>1. verdict.capabilities \subseteq Grant /\ verdict.risk \in 0 .. MaxRisk
    BY <1>1 DEF PolicyDecision
  <2>2. ask.ttl \in 1 .. 300 /\ ask.maxUses \in 1 .. 10 /\ ask.subject \in Subject
          /\ ask.secret \in Secret
    BY SecretUseType DEF LeaseAsk
  <2>3. now + ask.ttl \in Nat
    <3>1. now \in Nat
      BY DEF TypeOK
    <3> QED BY <2>2, <3>1
  <2>4. record \in LeaseRecord
    BY <2>1, <2>2, <2>3 DEF LeaseRecord
  <2>5. leases' = [leases EXCEPT ![l] = record]
    BY <1>5 DEF LeaseIssued, verdict
  <2> HIDE DEF record
  <2>6. leases' \in [LeaseId -> LeaseRecord \cup {NoLease}]
    BY <2>4, <2>5, LeaseStepType
  <2> QED BY <1>3, <1>5, <2>6 DEF LeaseIssued, TypeOK
<1> QED
  BY <1>4, <1>5

LEMMA LeaseUpdateType ==
  ASSUME TypeOK, NEW l \in LeaseId, Revoke(l) \/ Expire(l) \/ BeginUse(l)
  PROVE  TypeOK'
<1>1. leases[l] \in LeaseRecord
  BY LeaseOf DEF Revoke, Expire, BeginUse
<1>2. CASE Revoke(l) \/ Expire(l)
  <2>1. [leases[l] EXCEPT !.revoked = TRUE] \in LeaseRecord
    BY <1>1 DEF LeaseRecord
  <2>2. leases' = [leases EXCEPT ![l] = [leases[l] EXCEPT !.revoked = TRUE]]
    BY <1>2 DEF Revoke, Expire, TypeOK
  <2>3. leases' \in [LeaseId -> LeaseRecord \cup {NoLease}]
    BY <2>1, <2>2, LeaseStepType
  <2> QED BY <1>2, <2>3 DEF Revoke, Expire, TypeOK
<1>3. CASE BeginUse(l)
  <2> DEFINE record == [leases[l] EXCEPT !.remaining = @ - 1,
                                         !.revoked = (leases[l].remaining = 1)]
  <2>1. leases[l].remaining - 1 \in 0 .. 10
    BY <1>1, <1>3 DEF BeginUse, LeaseRecord
  <2>2. record \in LeaseRecord
    BY <1>1, <2>1 DEF LeaseRecord
  <2>3. leases' = [leases EXCEPT ![l] = record]
    BY <1>3 DEF BeginUse, TypeOK
  <2> HIDE DEF record
  <2>4. leases' \in [LeaseId -> LeaseRecord \cup {NoLease}]
    BY <2>2, <2>3, LeaseStepType
  <2>5. AdapterFrame(l) \in Frame
    BY <1>3, AdapterFrameType DEF BeginUse
  <2>6. stack' \in Seq(Frame)
    BY <1>3, <2>5 DEF BeginUse, TypeOK
  <2>7. uses' \in [LeaseId -> Nat]
    BY <1>3 DEF BeginUse, TypeOK
  <2> QED BY <1>3, <2>4, <2>6, <2>7 DEF BeginUse, TypeOK
<1> QED
  BY <1>2, <1>3

LEMMA ReturnType ==
  ASSUME TypeOK, EndUse \/ EndTool \/ Escape \/ Interrupt
  PROVE  TypeOK'
<1>1. stack \in Seq(Frame) /\ receipts \in Seq(AuditReceipt)
  BY DEF TypeOK
<1>2. CASE EndUse
  <2>1. PICK decision \in {"ALLOW", "DENY"} :
          Receipt("consumption", Top.request.subject, Top.request.target,
                  [Top.verdict EXCEPT !.decision = decision], Top.lease, Top.time)
    BY <1>2 DEF EndUse
  <2>2. Top \in Frame /\ Below \in Seq(Frame)
    BY <1>1, <1>2, StackTop DEF EndUse
  <2>3. Top.request.subject \in Subject /\ Top.request.target \in Target
    BY <2>2 DEF Frame, ActionRequest
  <2>4. [Top.verdict EXCEPT !.decision = decision] \in PolicyDecision
    BY <2>2 DEF Frame, PolicyDecision
  <2>5. Top.lease \in LeaseId \cup {NoLease} /\ Top.time \in Nat
    BY <2>2 DEF Frame
  <2>6. receipts' \in Seq(AuditReceipt)
    BY <1>1, <2>1, <2>3, <2>4, <2>5, ReceiptType
  <2> QED BY <1>2, <2>2, <2>6 DEF EndUse, TypeOK
<1>3. CASE EndTool
  <2>1. Top \in Frame /\ Below \in Seq(Frame)
    BY <1>1, <1>3, StackTop DEF EndTool
  <2>2. Top.request.subject \in Subject /\ Top.request.target \in Target
          /\ Top.verdict \in PolicyDecision /\ Top.time \in Nat
    BY <2>1 DEF Frame, ActionRequest
  <2>3. receipts' \in Seq(AuditReceipt)
    BY <1>1, <1>3, <2>2, ReceiptType DEF EndTool
  <2> QED BY <1>3, <2>1, <2>3 DEF EndTool, TypeOK
<1>4. CASE Escape
  BY <1>1, <1>4, StackTop DEF Escape, TypeOK
<1>5. CASE Interrupt
  BY <1>5 DEF Interrupt, TypeOK
<1> QED
  BY <1>2, <1>3, <1>4, <1>5

LEMMA ToolType ==
  ASSUME TypeOK, NEW call \in ToolCalls, ToolRefused(call) \/ BeginTool(call)
  PROVE  TypeOK'
<1> DEFINE verdict == Evaluate(call.request, call.session, call.risk, now)
<1>1. verdict \in PolicyDecision /\ call.request \in ActionRequest
  BY ToolVerdict DEF TypeOK
<1>2. call.request.subject \in Subject /\ call.request.target \in Target
  BY <1>1 DEF ActionRequest
<1>3. CASE ToolRefused(call)
  <2>1. Receipt("authorization", call.request.subject, call.request.target, verdict,
                NoLease, now)
    BY <1>3 DEF ToolRefused
  <2> HIDE DEF verdict
  <2>2. receipts' \in Seq(AuditReceipt)
    BY <1>1, <1>2, <2>1, ReceiptType DEF TypeOK
  <2> QED BY <1>3, <2>2 DEF ToolRefused, TypeOK
<1>4. CASE BeginTool(call)
  <2> DEFINE frame == [lease |-> NoLease, request |-> call.request, verdict |-> verdict,
                       time |-> now]
  <2>1. stack' = Append(stack, frame)
    BY <1>4 DEF BeginTool
  <2>2. frame \in Frame
    <3> HIDE DEF verdict
    <3> QED BY <1>1 DEF Frame, TypeOK
  <2> HIDE DEF frame, verdict
  <2>3. stack' \in Seq(Frame)
    BY <2>1, <2>2 DEF TypeOK
  <2> QED BY <1>4, <2>3 DEF BeginTool, TypeOK
<1> QED
  BY <1>3, <1>4

LEMMA StepType == TypeOK /\ [Next]_vars => TypeOK'
<1> SUFFICES ASSUME TypeOK, [Next]_vars PROVE TypeOK'
  OBVIOUS
<1>1. CASE Tick
  BY <1>1 DEF Tick, TypeOK
<1>2. ASSUME NEW s \in Secret, Register(s) PROVE TypeOK'
  BY <1>2 DEF Register, TypeOK
<1>3. CASE UNCHANGED vars
  BY <1>3 DEF vars, TypeOK
<1> QED
  BY <1>1, <1>2, <1>3, RequestType, LeaseUpdateType, ReturnType, ToolType DEF Next

(* The shield's state keeps its type: in particular no lease's count of    *)
(* remaining uses goes below zero, adapters that re-enter included.        *)
THEOREM ShieldTypeCorrect == Spec => []TypeOK
BY InitType, StepType, PTL DEF Spec

----------------------------------------------------------------------------
(* Uses. *)

(* What a step can do to one lease. *)
LEMMA LeaseStep ==
  ASSUME TypeOK, [Next]_vars, NEW l \in LeaseId
  PROVE  \/ leases'[l] = leases[l] /\ uses'[l] = uses[l]
         \/ /\ leases[l] = NoLease /\ uses'[l] = uses[l]
            /\ \E ask \in Asks : LeaseIssued(l, ask)
         \/ /\ leases[l] # NoLease /\ uses'[l] = uses[l]
            /\ leases'[l] = [leases[l] EXCEPT !.revoked = TRUE]
         \/ BeginUse(l)
<1>1. CASE Tick \/ EndUse \/ EndTool \/ Escape \/ Interrupt
  BY <1>1 DEF Tick, EndUse, EndTool, Escape, Interrupt
<1>2. CASE \E s \in Secret : Register(s)
  BY <1>2 DEF Register
<1>3. ASSUME NEW ask \in Asks, LeaseRefused(ask)
      PROVE  leases' = leases /\ uses' = uses
  BY <1>3 DEF LeaseRefused
<1>4. ASSUME NEW ask \in Asks, NEW k \in LeaseId, LeaseIssued(k, ask)
      PROVE  \/ leases'[l] = leases[l] /\ uses'[l] = uses[l]
             \/ k = l /\ leases[l] = NoLease /\ uses'[l] = uses[l]
  BY <1>4 DEF LeaseIssued, TypeOK
<1>5. ASSUME NEW k \in LeaseId, Revoke(k) \/ Expire(k)
      PROVE  \/ leases'[l] = leases[l] /\ uses'[l] = uses[l]
             \/ /\ leases[l] # NoLease /\ uses'[l] = uses[l]
                /\ leases'[l] = [leases[l] EXCEPT !.revoked = TRUE]
  BY <1>5 DEF Revoke, Expire, TypeOK
<1>6. ASSUME NEW k \in LeaseId, BeginUse(k)
      PROVE  k = l \/ (leases'[l] = leases[l] /\ uses'[l] = uses[l])
  BY <1>6 DEF BeginUse, TypeOK
<1>7. ASSUME NEW call \in ToolCalls, ToolRefused(call) \/ BeginTool(call)
      PROVE  leases' = leases /\ uses' = uses
  BY <1>7 DEF ToolRefused, BeginTool
<1>8. CASE UNCHANGED vars
  BY <1>8 DEF vars
<1> QED
  BY <1>1, <1>2, <1>3, <1>4, <1>5, <1>6, <1>7, <1>8 DEF Next

LEMMA UseTaken ==
  ASSUME TypeOK, NEW l \in LeaseId, BeginUse(l)
  PROVE  /\ leases[l] \in LeaseRecord /\ ~leases[l].revoked
         /\ uses'[l] = uses[l] + 1
         /\ leases'[l] \in LeaseRecord
         /\ leases'[l].remaining = leases[l].remaining - 1
         /\ leases'[l].maxUses = leases[l].maxUses
<1>1. leases[l] \in LeaseRecord
  BY LeaseOf DEF BeginUse
<1>2. leases'[l] = [leases[l] EXCEPT !.remaining = @ - 1,
                                    !.revoked = (leases[l].remaining = 1)]
  BY DEF BeginUse, TypeOK
<1>3. leases[l].remaining - 1 \in 0 .. 10
  BY <1>1 DEF BeginUse, LeaseRecord
<1>4. leases'[l] \in LeaseRecord
  BY <1>1, <1>2, <1>3 DEF LeaseRecord
<1>5. leases'[l].remaining = leases[l].remaining - 1 /\ leases'[l].maxUses = leases[l].maxUses
  BY <1>1, <1>2 DEF LeaseRecord
<1> QED
  BY <1>1, <1>4, <1>5 DEF BeginUse, TypeOK

LEMMA LeaseBorn ==
  ASSUME TypeOK, NEW l \in LeaseId, NEW ask \in Asks, LeaseIssued(l, ask)
  PROVE  /\ leases'[l] \in LeaseRecord
         /\ leases'[l].remaining = leases'[l].maxUses
         /\ leases'[l].subject = ask.subject /\ leases'[l].secret = ask.secret
         /\ LET verdict == Evaluate(SecretUse(ask), ask.session, ask.risk, now)
            IN  leases'[l].capabilities = verdict.capabilities
                  /\ leases'[l].risk = verdict.risk
<1> DEFINE verdict == Evaluate(SecretUse(ask), ask.session, ask.risk, now)
           record == [subject |-> ask.subject, secret |-> ask.secret,
                      expires |-> now + ask.ttl, maxUses |-> ask.maxUses,
                      capabilities |-> verdict.capabilities, risk |-> verdict.risk,
                      remaining |-> ask.maxUses, revoked |-> FALSE]
<1>1. leases'[l] = record
  BY DEF LeaseIssued, TypeOK
<1>2. TypeOK'
  BY RequestType
<1>3. record # NoLease
  <2>1. verdict \in PolicyDecision
    BY AskVerdict DEF TypeOK
  <2>2. verdict.capabilities \subseteq Grant /\ verdict.risk \in 0 .. MaxRisk
    <3> HIDE DEF verdict
    <3> QED BY <2>1 DEF PolicyDecision
  <2>3. ask.ttl \in 1 .. 300 /\ ask.maxUses \in 1 .. 10 /\ ask.subject \in Subject
          /\ ask.secret \in Secret
    BY SecretUseType DEF LeaseAsk
  <2>4. now + ask.ttl \in Nat
    <3>1. now \in Nat
      BY DEF TypeOK
    <3> QED BY <2>3, <3>1
  <2> HIDE DEF verdict
  <2>5. record \in LeaseRecord
    BY <2>2, <2>3, <2>4 DEF LeaseRecord
  <2> HIDE DEF record
  <2> QED BY <2>5, ShieldAssumption
<1>4. leases'[l] \in LeaseRecord \cup {NoLease}
  BY <1>2 DEF TypeOK
<1>5. leases'[l] \in LeaseRecord
  BY <1>1, <1>3, <1>4
<1> QED
  BY <1>1, <1>5

(* Every use is taken from what the lease has left. *)
UsesBalanced ==
  \A l \in LeaseId :
    IF l \in Issued THEN uses[l] + leases[l].remaining = leases[l].maxUses ELSE uses[l] = 0

(* No lease is used more often than it was issued for: what it has left is *)
(* no negative number, because the guard of BeginUse finds one before it   *)
(* is taken.                                                               *)
THEOREM UsesBounded == Spec => []UsesWithinLease
<1>1. Init => UsesBalanced
  BY DEF Init, UsesBalanced, Issued
<1>2. TypeOK /\ UsesBalanced /\ [Next]_vars => UsesBalanced'
  <2> SUFFICES ASSUME TypeOK, UsesBalanced, [Next]_vars, NEW l \in LeaseId
               PROVE  IF leases'[l] # NoLease
                      THEN uses'[l] + leases'[l].remaining = leases'[l].maxUses
                      ELSE uses'[l] = 0
    BY DEF UsesBalanced, Issued
  <2>1. IF leases[l] # NoLease THEN uses[l] + leases[l].remaining = leases[l].maxUses
        ELSE uses[l] = 0
    BY DEF UsesBalanced, Issued
  <2>2. CASE leases'[l] = leases[l] /\ uses'[l] = uses[l]
    BY <2>1, <2>2
  <2>3. ASSUME NEW ask \in Asks, LeaseIssued(l, ask), leases[l] = NoLease, uses'[l] = uses[l]
        PROVE  uses'[l] + leases'[l].remaining = leases'[l].maxUses
    <3>1. leases'[l].remaining = leases'[l].maxUses /\ leases'[l].maxUses \in 1 .. 10
      BY <2>3, LeaseBorn DEF LeaseRecord
    <3> QED BY <2>1, <2>3, <3>1
  <2>4. CASE /\ leases[l] # NoLease /\ uses'[l] = uses[l]
             /\ leases'[l] = [leases[l] EXCEPT !.revoked = TRUE]
    <3>1. leases[l] \in LeaseRecord
      BY <2>4, LeaseOf
    <3>2. leases'[l].remaining = leases[l].remaining /\ leases'[l].maxUses = leases[l].maxUses
      BY <2>4, <3>1 DEF LeaseRecord
    <3>3. leases'[l] \in LeaseRecord
      BY <2>4, <3>1 DEF LeaseRecord
    <3> QED BY <2>1, <2>4, <3>2, <3>3, ShieldAssumption
  <2>5. CASE BeginUse(l)
    <3>1. leases[l] # NoLease /\ leases'[l] # NoLease
      BY <2>5, UseTaken, ShieldAssumption
    <3>2. uses[l] \in Nat /\ leases[l].remaining \in 0 .. 10 /\ leases[l].maxUses \in 1 .. 10
      BY <2>5, UseTaken DEF TypeOK, LeaseRecord
    <3> QED BY <2>1, <2>5, <3>1, <3>2, UseTaken
  <2>6. ASSUME NEW ask \in Asks, LeaseIssued(l, ask) PROVE leases'[l] # NoLease
    BY <2>6, LeaseBorn, ShieldAssumption
  <2> QED BY <2>2, <2>3, <2>4, <2>5, <2>6, LeaseStep
<1>3. TypeOK /\ UsesBalanced => UsesWithinLease
  <2> SUFFICES ASSUME TypeOK, UsesBalanced, NEW l \in LeaseId, leases[l] # NoLease
               PROVE  uses[l] <= leases[l].maxUses
    BY DEF UsesBalanced, UsesWithinLease, Issued
  <2>1. leases[l] \in LeaseRecord /\ uses[l] \in Nat
    BY LeaseOf DEF TypeOK
  <2>2. leases[l].remaining \in 0 .. 10 /\ leases[l].maxUses \in 1 .. 10
    BY <2>1 DEF LeaseRecord
  <2> QED BY <2>1, <2>2 DEF UsesBalanced, Issued
<1> QED
  BY <1>1, <1>2, <1>3, ShieldTypeCorrect, PTL DEF Spec

(* Revocation, expiry and exhaustion are final.                            *)
THEOREM RevocationFinal == Spec => DeadStaysDead
<1>1. TypeOK /\ [Next]_vars =>
        [\A l \in Issued : leases[l].revoked => leases'[l].revoked /\ uses'[l] = uses[l]]_vars
  <2> SUFFICES ASSUME TypeOK, [Next]_vars, NEW l \in LeaseId, leases[l] # NoLease,
                      leases[l].revoked
               PROVE  leases'[l].revoked /\ uses'[l] = uses[l]
    BY DEF Issued
  <2>1. ~BeginUse(l)
    BY DEF BeginUse
  <2>2. CASE leases'[l] = leases[l] /\ uses'[l] = uses[l]
    BY <2>2
  <2>3. CASE uses'[l] = uses[l] /\ leases'[l] = [leases[l] EXCEPT !.revoked = TRUE]
    <3>1. leases[l] \in LeaseRecord
      BY LeaseOf
    <3> QED BY <2>3, <3>1 DEF LeaseRecord
  <2> QED BY <2>1, <2>2, <2>3, LeaseStep
<1> QED
  BY <1>1, ShieldTypeCorrect, PTL DEF Spec, DeadStaysDead

----------------------------------------------------------------------------
(* Traces in the chain. *)

LEMMA ChainGrows ==
  ASSUME TypeOK, [Next]_vars
  PROVE  \/ receipts' = receipts
         \/ \E r \in AuditReceipt : receipts' = Append(receipts, r)
<1>1. TypeOK'
  BY StepType
<1>2. \/ receipts' = receipts
      \/ \E r : receipts' = Append(receipts, r)
  BY DEF Next, Tick, EndUse, EndTool, Escape, Interrupt, Register, LeaseRefused,
      LeaseIssued,
         Revoke, Expire, BeginUse, ToolRefused, BeginTool, Receipt, vars
<1>3. ASSUME NEW r, receipts' = Append(receipts, r) PROVE r \in AuditReceipt
  <2>1. receipts \in Seq(AuditReceipt) /\ receipts' \in Seq(AuditReceipt)
    BY <1>1 DEF TypeOK
  <2>2. r = receipts'[Len(receipts) + 1] /\ Len(receipts) + 1 \in 1 .. Len(receipts')
    BY <1>3, <2>1
  <2> QED BY <2>1, <2>2
<1> QED
  BY <1>2, <1>3

LEMMA Kept ==
  ASSUME TypeOK, [Next]_vars
  PROVE  /\ Len(receipts) \in Nat /\ Len(receipts') \in Nat /\ Len(receipts') >= Len(receipts)
         /\ \A j \in 1 .. Len(receipts) : j \in 1 .. Len(receipts') /\ receipts'[j] = receipts[j]
<1>1. receipts \in Seq(AuditReceipt)
  BY DEF TypeOK
<1> QED
  BY <1>1, ChainGrows

LEMMA LeasesTracedStep ==
  TypeOK /\ LeasesTraced /\ [Next]_vars => LeasesTraced'
<1> SUFFICES ASSUME TypeOK, LeasesTraced, [Next]_vars, NEW l \in LeaseId, leases'[l] # NoLease
             PROVE  \E j \in 1 .. Len(receipts') :
                      Authorizes(receipts'[j], leases'[l].subject, leases'[l].secret,
                                 leases'[l].capabilities, leases'[l].risk)
  BY DEF LeasesTraced, Issued
<1>1. ASSUME leases[l] # NoLease,
             leases'[l].subject = leases[l].subject, leases'[l].secret = leases[l].secret,
             leases'[l].capabilities = leases[l].capabilities, leases'[l].risk = leases[l].risk
      PROVE  \E j \in 1 .. Len(receipts') :
               Authorizes(receipts'[j], leases'[l].subject, leases'[l].secret,
                          leases'[l].capabilities, leases'[l].risk)
  <2>1. PICK j \in 1 .. Len(receipts) :
          Authorizes(receipts[j], leases[l].subject, leases[l].secret,
                     leases[l].capabilities, leases[l].risk)
    BY <1>1 DEF LeasesTraced, Issued
  <2>2. j \in 1 .. Len(receipts') /\ receipts'[j] = receipts[j]
    BY Kept
  <2> QED BY <1>1, <2>1, <2>2
<1>2. CASE leases'[l] = leases[l]
  BY <1>1, <1>2
<1>3. CASE leases[l] # NoLease /\ leases'[l] = [leases[l] EXCEPT !.revoked = TRUE]
  <2>1. leases[l] \in LeaseRecord
    BY <1>3, LeaseOf
  <2>2. /\ leases'[l].subject = leases[l].subject /\ leases'[l].secret = leases[l].secret
        /\ leases'[l].capabilities = leases[l].capabilities /\ leases'[l].risk = leases[l].risk
    BY <1>3, <2>1 DEF LeaseRecord
  <2> QED BY <1>1, <1>3, <2>2
<1>4. CASE BeginUse(l)
  <2>1. leases[l] \in LeaseRecord /\ leases[l] # NoLease
    BY <1>4, LeaseOf DEF BeginUse
  <2>2. leases'[l] = [leases[l] EXCEPT !.remaining = @ - 1,
                                      !.revoked = (leases[l].remaining = 1)]
    BY <1>4 DEF BeginUse, TypeOK
  <2>3. /\ leases'[l].subject = leases[l].subject /\ leases'[l].secret = leases[l].secret
        /\ leases'[l].capabilities = leases[l].capabilities /\ leases'[l].risk = leases[l].risk
    BY <2>1, <2>2 DEF LeaseRecord
  <2> QED BY <1>1, <2>1, <2>3
<1>5. ASSUME NEW ask \in Asks, LeaseIssued(l, ask)
      PROVE  \E j \in 1 .. Len(receipts') :
               Authorizes(receipts'[j], leases'[l].subject, leases'[l].secret,
                          leases'[l].capabilities, leases'[l].risk)
  <2> DEFINE verdict == Evaluate(SecretUse(ask), ask.session, ask.risk, now)
             r == [reason |-> "authorization", subject |-> ask.subject, target |-> ask.secret,
                   verdict |-> verdict, lease |-> NoLease, time |-> now]
  <2>1. receipts' = Append(receipts, r) /\ verdict.decision = "ALLOW"
    BY <1>5 DEF LeaseIssued, Receipt
  <2>2. verdict \in PolicyDecision
    BY AskVerdict DEF TypeOK
  <2>3. /\ leases'[l].subject = ask.subject /\ leases'[l].secret = ask.secret
        /\ leases'[l].capabilities = verdict.capabilities /\ leases'[l].risk = verdict.risk
    BY <1>5, LeaseBorn
  <2> HIDE DEF verdict
  <2>4. verdict = [decision |-> "ALLOW", capabilities |-> verdict.capabilities,
                   risk |-> verdict.risk]
    BY <2>1, <2>2 DEF PolicyDecision
  <2>5. Authorizes(r, ask.subject, ask.secret, verdict.capabilities, verdict.risk)
    BY <2>4 DEF Authorizes
  <2> HIDE DEF r
  <2>6. Len(receipts) + 1 \in 1 .. Len(receipts') /\ receipts'[Len(receipts) + 1] = r
    <3>1. receipts \in Seq(AuditReceipt)
      BY DEF TypeOK
    <3> QED BY <2>1, <3>1
  <2> QED BY <2>3, <2>5, <2>6
<1> QED
  BY <1>2, <1>3, <1>4, <1>5, LeaseStep

(* What a step does to the calls in progress. *)
LEMMA StackStep ==
  ASSUME TypeOK, [Next]_vars
  PROVE  \/ stack' = stack
         \/ stack' = << >>
         \/ stack # << >> /\ stack' = Below
         \/ \E l \in LeaseId : leases[l] # NoLease /\ stack' = Append(stack, AdapterFrame(l))
         \/ \E frame \in Frame : frame.lease = NoLease /\ stack' = Append(stack, frame)
<1>1. ASSUME NEW call \in ToolCalls, BeginTool(call)
      PROVE  \E frame \in Frame : frame.lease = NoLease /\ stack' = Append(stack, frame)
  <2> DEFINE verdict == Evaluate(call.request, call.session, call.risk, now)
             frame == [lease |-> NoLease, request |-> call.request, verdict |-> verdict,
                       time |-> now]
  <2>1. stack' = Append(stack, frame)
    BY <1>1 DEF BeginTool
  <2>2. verdict \in PolicyDecision /\ call.request \in ActionRequest /\ now \in Nat
    BY ToolVerdict DEF TypeOK
  <2> HIDE DEF verdict
  <2>3. frame \in Frame /\ frame.lease = NoLease
    BY <2>2 DEF Frame
  <2> HIDE DEF frame
  <2> QED BY <2>1, <2>3
<1> QED
  BY <1>1 DEF Next, Tick, EndUse, EndTool, Escape, Interrupt, Register, LeaseRefused,
              LeaseIssued, Revoke, Expire, BeginUse, ToolRefused, vars

LEMMA FramesTracedStep ==
  TypeOK /\ LeasesTraced /\ FramesTraced /\ [Next]_vars => FramesTraced'
<1> SUFFICES ASSUME TypeOK, LeasesTraced, FramesTraced, [Next]_vars,
                    NEW i \in 1 .. Len(stack'), stack'[i].lease # NoLease
             PROVE  \E j \in 1 .. Len(receipts') :
                      Authorizes(receipts'[j], stack'[i].request.subject,
                                 stack'[i].request.target, stack'[i].verdict.capabilities,
                                 stack'[i].verdict.risk)
  BY DEF FramesTraced
<1>1. ASSUME i \in 1 .. Len(stack), stack'[i] = stack[i]
      PROVE  \E j \in 1 .. Len(receipts') :
               Authorizes(receipts'[j], stack'[i].request.subject,
                          stack'[i].request.target, stack'[i].verdict.capabilities,
                          stack'[i].verdict.risk)
  <2>1. PICK j \in 1 .. Len(receipts) :
          Authorizes(receipts[j], stack[i].request.subject, stack[i].request.target,
                     stack[i].verdict.capabilities, stack[i].verdict.risk)
    BY <1>1 DEF FramesTraced
  <2>2. j \in 1 .. Len(receipts') /\ receipts'[j] = receipts[j]
    BY Kept
  <2> QED BY <1>1, <2>1, <2>2
<1>2. stack \in Seq(Frame)
  BY DEF TypeOK
<1>3. CASE stack' = stack
  BY <1>1, <1>3
<1>4. CASE stack' = << >>
  BY <1>4
<1>5. CASE stack # << >> /\ stack' = Below
  BY <1>1, <1>2, <1>5, StackTop
<1>6. ASSUME NEW l \in LeaseId, leases[l] # NoLease, stack' = Append(stack, AdapterFrame(l))
      PROVE  \E j \in 1 .. Len(receipts') :
               Authorizes(receipts'[j], stack'[i].request.subject,
                          stack'[i].request.target, stack'[i].verdict.capabilities,
                          stack'[i].verdict.risk)
  <2>1. CASE i \in 1 .. Len(stack)
    BY <1>1, <1>2, <1>6, <2>1
  <2>2. CASE i = Len(stack) + 1
    <3>1. stack'[i] = AdapterFrame(l)
      BY <1>2, <1>6, <2>2
    <3>2. /\ stack'[i].request.subject = leases[l].subject
          /\ stack'[i].request.target = leases[l].secret
          /\ stack'[i].verdict.capabilities = leases[l].capabilities
          /\ stack'[i].verdict.risk = leases[l].risk
      BY <3>1 DEF AdapterFrame
    <3>3. PICK j \in 1 .. Len(receipts) :
            Authorizes(receipts[j], leases[l].subject, leases[l].secret,
                       leases[l].capabilities, leases[l].risk)
      BY <1>6 DEF LeasesTraced, Issued
    <3>4. j \in 1 .. Len(receipts') /\ receipts'[j] = receipts[j]
      BY Kept
    <3> QED BY <3>2, <3>3, <3>4
  <2> QED BY <1>2, <1>6, <2>1, <2>2
<1>7. ASSUME NEW frame \in Frame, frame.lease = NoLease, stack' = Append(stack, frame)
      PROVE  i \in 1 .. Len(stack) /\ stack'[i] = stack[i]
  BY <1>2, <1>7
<1> QED
  BY <1>1, <1>3, <1>4, <1>5, <1>6, <1>7, StackStep

LEMMA ConsumptionTracedStep ==
  TypeOK /\ FramesTraced /\ ConsumptionTraced /\ [Next]_vars => ConsumptionTraced'
<1> SUFFICES ASSUME TypeOK, FramesTraced, ConsumptionTraced, [Next]_vars,
                    NEW i \in 1 .. Len(receipts'), receipts'[i].reason = "consumption"
             PROVE  \E j \in 1 .. i - 1 :
                      Authorizes(receipts'[j], receipts'[i].subject, receipts'[i].target,
                                 receipts'[i].verdict.capabilities, receipts'[i].verdict.risk)
  BY DEF ConsumptionTraced
<1>1. receipts \in Seq(AuditReceipt)
  BY DEF TypeOK
<1>2. CASE i \in 1 .. Len(receipts)
  <2>1. receipts'[i] = receipts[i]
    BY <1>2, Kept
  <2>2. PICK j \in 1 .. i - 1 :
          Authorizes(receipts[j], receipts[i].subject, receipts[i].target,
                     receipts[i].verdict.capabilities, receipts[i].verdict.risk)
    BY <1>2, <2>1 DEF ConsumptionTraced
  <2>3. receipts'[j] = receipts[j]
    BY <1>1, <1>2, Kept
  <2> QED BY <2>1, <2>2, <2>3
<1>3. CASE i \notin 1 .. Len(receipts)
  <2>1. receipts' # receipts /\ i = Len(receipts) + 1
    BY <1>1, <1>3, ChainGrows
  <2>2. EndUse
    <3>1. ASSUME NEW subject, NEW target, NEW verdict, NEW time,
                 Receipt("authorization", subject, target, verdict, NoLease, time)
          PROVE  FALSE
      BY <1>1, <2>1, <3>1 DEF Receipt
    <3> QED BY <2>1, <3>1 DEF Next, Tick, EndTool, Escape, Interrupt, Register,
        LeaseRefused,
                   LeaseIssued, Revoke, Expire, BeginUse, ToolRefused, BeginTool, vars
  <2>3. PICK decision \in {"ALLOW", "DENY"} :
          Receipt("consumption", Top.request.subject, Top.request.target,
                  [Top.verdict EXCEPT !.decision = decision], Top.lease, Top.time)
    BY <2>2 DEF EndUse
  <2>4. stack \in Seq(Frame) /\ stack # << >> /\ Top.lease # NoLease /\ Top \in Frame
    BY <2>2, StackTop DEF EndUse, TypeOK
  <2>5. /\ receipts'[i].subject = Top.request.subject
        /\ receipts'[i].target = Top.request.target
        /\ receipts'[i].verdict = [Top.verdict EXCEPT !.decision = decision]
    BY <1>1, <2>1, <2>3 DEF Receipt
  <2>6. /\ receipts'[i].verdict.capabilities = Top.verdict.capabilities
        /\ receipts'[i].verdict.risk = Top.verdict.risk
    BY <2>4, <2>5 DEF Frame, PolicyDecision
  <2>7. PICK j \in 1 .. Len(receipts) :
          Authorizes(receipts[j], Top.request.subject, Top.request.target,
                     Top.verdict.capabilities, Top.verdict.risk)
    <3>1. Len(stack) \in 1 .. Len(stack)
      BY <2>4
    <3> QED BY <2>4, <3>1 DEF FramesTraced, Top
  <2>8. j \in 1 .. i - 1 /\ receipts'[j] = receipts[j]
    BY <1>1, <2>1, Kept
  <2> QED BY <2>5, <2>6, <2>7, <2>8
<1> QED
  BY <1>2, <1>3

(* Every consumption of a secret in the chain has, before it, the allowed  *)
(* authorization of the lease it consumed.                                 *)
THEOREM ConsumptionsTrace == Spec => []ConsumptionTraced
<1>1. Init => LeasesTraced /\ FramesTraced /\ ConsumptionTraced
  BY DEF Init, LeasesTraced, FramesTraced, ConsumptionTraced, Issued
<1> QED
  BY <1>1, LeasesTracedStep, FramesTracedStep, ConsumptionTracedStep, ShieldTypeCorrect,
     PTL DEF Spec

----------------------------------------------------------------------------
(* Evidence and uses: what a step adds to either. *)

LEMMA EvidenceCounts ==
  ASSUME TypeOK, NEW l
  PROVE  /\ IsFiniteSet(ConsumptionReceipts(l)) /\ Cardinality(ConsumptionReceipts(l)) \in Nat
         /\ IsFiniteSet(Running(l)) /\ Cardinality(Running(l)) \in Nat
<1>1. Len(receipts) \in Nat /\ Len(stack) \in Nat
  BY DEF TypeOK
<1>2. IsFiniteSet(1 .. Len(receipts)) /\ IsFiniteSet(1 .. Len(stack))
  BY <1>1, FS_Interval
<1>3. ConsumptionReceipts(l) \in SUBSET (1 .. Len(receipts))
        /\ Running(l) \in SUBSET (1 .. Len(stack))
  BY DEF ConsumptionReceipts, Running
<1>4. IsFiniteSet(ConsumptionReceipts(l)) /\ IsFiniteSet(Running(l))
  BY <1>2, <1>3, FS_Subset
<1> QED BY <1>4, FS_CardinalityType

LEMMA ReceiptCounted ==
  ASSUME TypeOK, NEW reason, NEW subject, NEW target, NEW verdict, NEW lease, NEW time,
         Receipt(reason, subject, target, verdict, lease, time), NEW l
  PROVE  Cardinality(ConsumptionReceipts(l)') =
           IF reason = "consumption" /\ lease = l THEN Cardinality(ConsumptionReceipts(l)) + 1
           ELSE Cardinality(ConsumptionReceipts(l))
<1> DEFINE r == [reason |-> reason, subject |-> subject, target |-> target,
                 verdict |-> verdict, lease |-> lease, time |-> time]
           n == Len(receipts)
<1>1. receipts \in Seq(AuditReceipt) /\ receipts' = Append(receipts, r)
  BY DEF TypeOK, Receipt
<1>2. r.reason = reason /\ r.lease = lease
  OBVIOUS
<1> HIDE DEF r
<1>3. /\ n \in Nat /\ Len(receipts') = n + 1 /\ receipts'[n + 1] = r
      /\ \A i \in 1 .. n : receipts'[i] = receipts[i]
  BY <1>1
<1> HIDE DEF n
<1>4. ConsumptionReceipts(l)' =
        IF reason = "consumption" /\ lease = l THEN ConsumptionReceipts(l) \cup {n + 1}
        ELSE ConsumptionReceipts(l)
  <2>1. 1 .. Len(receipts') = (1 .. n) \cup {n + 1}
    BY <1>3
  <2> QED BY <1>2, <1>3, <2>1 DEF ConsumptionReceipts, n
<1>5. n + 1 \notin ConsumptionReceipts(l)
  BY <1>3 DEF ConsumptionReceipts, n
<1> QED
  BY <1>4, <1>5, EvidenceCounts, FS_AddElement

LEMMA CallCounted ==
  ASSUME TypeOK, NEW frame, stack' = Append(stack, frame), NEW l
  PROVE  Cardinality(Running(l)') =
           IF frame.lease = l THEN Cardinality(Running(l)) + 1 ELSE Cardinality(Running(l))
<1> DEFINE n == Len(stack)
<1>1. /\ n \in Nat /\ Len(stack') = n + 1 /\ stack'[n + 1] = frame
      /\ \A i \in 1 .. n : stack'[i] = stack[i]
  BY DEF TypeOK
<1> HIDE DEF n
<1>2. Running(l)' = IF frame.lease = l THEN Running(l) \cup {n + 1} ELSE Running(l)
  <2>1. 1 .. Len(stack') = (1 .. n) \cup {n + 1}
    BY <1>1
  <2> QED BY <1>1, <2>1 DEF Running, n
<1>3. n + 1 \notin Running(l)
  BY <1>1 DEF Running, n
<1> QED
  BY <1>2, <1>3, EvidenceCounts, FS_AddElement

LEMMA ReturnCounted ==
  ASSUME TypeOK, stack # << >>, stack' = Below, NEW l
  PROVE  Cardinality(Running(l)') =
           IF Top.lease = l THEN Cardinality(Running(l)) - 1 ELSE Cardinality(Running(l))
<1> DEFINE n == Len(stack)
<1>1. /\ n \in Nat \ {0} /\ Len(stack') = n - 1
      /\ \A i \in 1 .. n - 1 : stack'[i] = stack[i]
  BY StackTop DEF TypeOK
<1>2. Top = stack[n]
  BY DEF Top
<1> HIDE DEF n
<1>3. Running(l)' = Running(l) \ {n}
  <2>1. 1 .. Len(stack') = (1 .. n) \ {n}
    BY <1>1
  <2> QED BY <1>1, <2>1 DEF Running, n
<1>4. n \in Running(l) <=> Top.lease = l
  BY <1>1, <1>2 DEF Running, n
<1> QED
  BY <1>3, <1>4, EvidenceCounts, FS_RemoveElement

LEMMA EvidenceStep ==
  ASSUME TypeOK, EvidenceWithinUses, [Next]_vars
  PROVE  EvidenceWithinUses'
<1> SUFFICES ASSUME NEW l \in LeaseId
             PROVE  Cardinality(ConsumptionReceipts(l)') + Cardinality(Running(l)') <= uses'[l]
  BY DEF EvidenceWithinUses
<1> DEFINE E == Cardinality(ConsumptionReceipts(l))
           R == Cardinality(Running(l))
           E1 == Cardinality(ConsumptionReceipts(l)')
           R1 == Cardinality(Running(l)')
<1>1. E \in Nat /\ R \in Nat /\ uses[l] \in Nat /\ E + R <= uses[l]
  BY EvidenceCounts DEF TypeOK, EvidenceWithinUses
<1>2. receipts' = receipts => E1 = E
  BY DEF ConsumptionReceipts
<1>3. stack' = stack => R1 = R
  BY DEF Running
<1>4. ASSUME NEW subject, NEW target, NEW verdict, NEW time,
             Receipt("authorization", subject, target, verdict, NoLease, time)
      PROVE  E1 = E
  BY <1>4, ReceiptCounted
<1>5. l # NoLease
  BY ShieldAssumption
<1> HIDE DEF E, R, E1, R1
<1>6. CASE EndUse
  <2>1. PICK decision \in {"ALLOW", "DENY"} :
          Receipt("consumption", Top.request.subject, Top.request.target,
                  [Top.verdict EXCEPT !.decision = decision], Top.lease, Top.time)
    BY <1>6 DEF EndUse
  <2>2. stack # << >> /\ stack' = Below /\ uses' = uses
    BY <1>6 DEF EndUse
  <2>3. E1 = IF Top.lease = l THEN E + 1 ELSE E
    BY <2>1, ReceiptCounted DEF E, E1
  <2>4. R1 = IF Top.lease = l THEN R - 1 ELSE R
    BY <2>2, ReturnCounted DEF R, R1
  <2> QED BY <1>1, <2>2, <2>3, <2>4 DEF E1, R1
<1>7. ASSUME stack # << >>, stack' = Below, E1 = E, uses' = uses
      PROVE  E1 + R1 <= uses'[l]
  <2>1. R1 = IF Top.lease = l THEN R - 1 ELSE R
    BY <1>7, ReturnCounted DEF R, R1
  <2> QED BY <1>1, <1>7, <2>1
<1>8. CASE EndTool
  <2>1. stack # << >> /\ stack' = Below /\ uses' = uses
    BY <1>8 DEF EndTool
  <2>2. E1 = E
    BY <1>4, <1>8 DEF EndTool
  <2> QED BY <1>7, <2>1, <2>2 DEF E1, R1
<1>9. CASE Escape
  BY <1>2, <1>7, <1>9 DEF Escape, E1, R1
<1>10. CASE Interrupt
  <2>1. Running(l)' = {}
    BY <1>10 DEF Interrupt, Running
  <2>2. R1 = 0
    BY <2>1, FS_EmptySet DEF R1
  <2>3. E1 = E /\ uses' = uses
    BY <1>2, <1>10 DEF Interrupt
  <2> QED BY <1>1, <2>2, <2>3 DEF E1, R1
<1>11. ASSUME NEW k \in LeaseId, BeginUse(k)
       PROVE  E1 + R1 <= uses'[l]
  <2>1. stack' = Append(stack, AdapterFrame(k)) /\ AdapterFrame(k).lease = k
    BY <1>11 DEF BeginUse, AdapterFrame
  <2>2. R1 = IF k = l THEN R + 1 ELSE R
    BY <2>1, CallCounted DEF R, R1
  <2>3. uses'[l] = IF k = l THEN uses[l] + 1 ELSE uses[l]
    BY <1>11 DEF BeginUse, TypeOK
  <2>4. E1 = E
    BY <1>2, <1>11 DEF BeginUse
  <2> QED BY <1>1, <2>2, <2>3, <2>4
<1>12. ASSUME NEW call \in ToolCalls, BeginTool(call)
       PROVE  E1 + R1 <= uses'[l]
  <2>1. PICK frame : stack' = Append(stack, frame) /\ frame.lease = NoLease
    BY <1>12 DEF BeginTool
  <2>2. R1 = R
    BY <1>5, <2>1, CallCounted DEF R, R1
  <2>3. E1 = E /\ uses' = uses
    BY <1>2, <1>12 DEF BeginTool
  <2> QED BY <1>1, <2>2, <2>3
<1>13. ASSUME stack' = stack, E1 = E, uses' = uses
       PROVE  E1 + R1 <= uses'[l]
  BY <1>1, <1>3, <1>13
<1>14. ASSUME NEW ask \in Asks, LeaseRefused(ask) \/ \E k \in LeaseId : LeaseIssued(k, ask)
       PROVE  stack' = stack /\ E1 = E /\ uses' = uses
  BY <1>4, <1>14 DEF LeaseRefused, LeaseIssued
<1>15. ASSUME NEW call \in ToolCalls, ToolRefused(call)
       PROVE  stack' = stack /\ E1 = E /\ uses' = uses
  BY <1>4, <1>15 DEF ToolRefused
<1>16. CASE \/ Tick \/ UNCHANGED vars \/ \E s \in Secret : Register(s)
            \/ \E k \in LeaseId : Revoke(k) \/ Expire(k)
  <2>1. stack' = stack /\ receipts' = receipts /\ uses' = uses
    BY <1>16 DEF Tick, Register, Revoke, Expire, vars
  <2> QED BY <1>2, <1>13, <2>1 DEF E1, R1
<1> QED
  BY <1>6, <1>8, <1>9, <1>10, <1>11, <1>12, <1>13, <1>14, <1>15, <1>16 DEF Next, E1, R1

(* The chain and the calls in progress never account for more uses of a    *)
(* lease than execute has taken, however the calls nest, fail or unwind.   *)
THEOREM EvidenceBounded == Spec => []EvidenceWithinUses
<1>1. Init => EvidenceWithinUses
  <2> SUFFICES ASSUME Init, NEW l \in LeaseId
               PROVE  Cardinality(ConsumptionReceipts(l)) + Cardinality(Running(l)) <= uses[l]
    BY DEF EvidenceWithinUses
  <2>1. ConsumptionReceipts(l) = {} /\ Running(l) = {} /\ uses[l] = 0
    BY DEF Init, ConsumptionReceipts, Running
  <2> QED BY <2>1, FS_EmptySet
<1> QED
  BY <1>1, EvidenceStep, ShieldTypeCorrect, PTL DEF Spec

----------------------------------------------------------------------------
(* The policy engine on its own: RiskEnvelope, for any request, session,   *)
(* grants and rising risks.                                                *)

(* A grant that matches at a risk matches at every lower one. *)
LEMMA MatchingContracts ==
  ASSUME NEW asked, NEW grants \in SUBSET Grant, NEW subject,
         NEW low \in 0 .. MaxRisk, NEW high \in 0 .. MaxRisk, low <= high, NEW time
  PROVE  MatchingGrants(asked, grants, subject, high, time)
           \subseteq MatchingGrants(asked, grants, subject, low, time)
<1> SUFFICES ASSUME NEW g \in MatchingGrants(asked, grants, subject, high, time)
             PROVE  g \in MatchingGrants(asked, grants, subject, low, time)
  OBVIOUS
<1>1. g \in grants /\ g \in Grant /\ high <= GrantOf[g].maxRisk
  BY DEF MatchingGrants
<1>2. GrantOf[g].maxRisk \in 0 .. MaxRisk
  BY <1>1, GrantAssumption DEF CapabilityGrant
<1>3. low <= GrantOf[g].maxRisk
  BY <1>1, <1>2, GrantAssumption
<1> QED
  BY <1>3 DEF MatchingGrants

(* Whatever an evaluation selects at a risk it selects at every lower one. *)
LEMMA SelectionContracts ==
  ASSUME NEW asked \in ActionRequest, NEW within \in Session,
         NEW low \in 0 .. MaxRisk, NEW high \in 0 .. MaxRisk, low <= high, NEW time
  PROVE  Selected(asked, within, high, time)
           \subseteq Selected(asked, within, low, time)
<1>1. within.agentGrants \in SUBSET Grant /\ within.toolGrants \in SUBSET Grant
  BY DEF Session
<1>2. AgentSelected(asked, within, high, time)
        \subseteq AgentSelected(asked, within, low, time)
  BY <1>1, MatchingContracts DEF AgentSelected
<1>3. ToolSelected(asked, within, high, time)
        \subseteq ToolSelected(asked, within, low, time)
  BY <1>1, MatchingContracts DEF ToolSelected
<1> QED
  BY <1>2, <1>3 DEF Selected

----------------------------------------------------------------------------
LEMMA MaximumFact ==
  ASSUME NEW scores \in [RiskDomain -> 0 .. MaxRisk]
  PROVE  /\ Maximum(scores) \in 0 .. MaxRisk
         /\ \E d \in RiskDomain : Maximum(scores) = scores[d]
         /\ \A d \in RiskDomain : scores[d] <= Maximum(scores)
<1> DEFINE Values == {scores[d] : d \in RiskDomain}
<1>1. Values \in SUBSET Int
  OBVIOUS
<1>2. \E r \in Values : \A d \in RiskDomain : scores[d] <= r
  <2> DEFINE larger(a, b) == IF scores[a] <= scores[b] THEN b ELSE a
             top == larger(larger(larger(larger("secret", "network"), "source"),
                                  "execution"), "production")
  <2>1. \A a, b \in RiskDomain :
          /\ larger(a, b) \in RiskDomain
          /\ scores[a] <= scores[larger(a, b)] /\ scores[b] <= scores[larger(a, b)]
    BY GrantAssumption
  <2>2. \A d \in RiskDomain : scores[d] \in Int
    OBVIOUS
  <2> HIDE DEF larger
  <2>3. top \in RiskDomain
    BY <2>1 DEF RiskDomain
  <2>4. \A d \in RiskDomain : scores[d] <= scores[top]
    BY <2>1, <2>2 DEF RiskDomain
  <2> QED
    BY <2>3, <2>4
<1>3. /\ Maximum(scores) \in Values
      /\ \A d \in RiskDomain : scores[d] <= Maximum(scores)
  BY <1>2 DEF Maximum
<1> QED
  BY <1>3

(* A score that rises does not lower the maximum. *)
LEMMA MaximumRises ==
  ASSUME NEW s \in [RiskDomain -> 0 .. MaxRisk],
         NEW t \in [RiskDomain -> 0 .. MaxRisk],
         \A d \in RiskDomain : s[d] <= t[d]
  PROVE  Maximum(s) <= Maximum(t)
<1>1. PICK d \in RiskDomain : Maximum(s) = s[d]
  BY MaximumFact
<1>2. s[d] <= t[d] /\ t[d] <= Maximum(t) /\ Maximum(t) \in 0 .. MaxRisk
  BY MaximumFact
<1> QED
  BY <1>1, <1>2, GrantAssumption

----------------------------------------------------------------------------
EnvelopeState ==
  /\ request \in ActionRequest
  /\ session \in Session
  /\ risk \in [RiskDomain -> 0 .. MaxRisk]
  /\ clock \in Nat

LEMMA EnvelopeInitType == EnvelopeInit => EnvelopeState
BY EnvelopeAssumption, GrantAssumption DEF EnvelopeInit, EnvelopeState

LEMMA EnvelopeStepType == EnvelopeState /\ [EnvelopeNext]_envelope => EnvelopeState'
<1> SUFFICES ASSUME EnvelopeState, [EnvelopeNext]_envelope
             PROVE  EnvelopeState'
  OBVIOUS
<1> USE DEF EnvelopeState
<1>1. CASE Elapse
  BY <1>1 DEF Elapse
<1>2. ASSUME NEW d \in RiskDomain, Escalate(d)
      PROVE  EnvelopeState'
  BY <1>2, GrantAssumption DEF Escalate
<1>3. CASE UNCHANGED envelope
  BY <1>3 DEF envelope
<1> QED
  BY <1>1, <1>2, <1>3 DEF EnvelopeNext

LEMMA VerdictType == EnvelopeState => EnvelopeTypeOK
BY MaximumFact, EvaluateType DEF EnvelopeState, EnvelopeTypeOK, Verdict

(* The decision that evaluate returns is well formed, whatever the grants, *)
(* the session and the risk.                                               *)
THEOREM EnvelopeTypeCorrect == EnvelopeSpec => []EnvelopeTypeOK
BY EnvelopeInitType, EnvelopeStepType, VerdictType, PTL DEF EnvelopeSpec

(* Whatever evaluate does not deny has the project, a live grant of the    *)
(* caller and, through a tool, a live grant of the tool behind it.         *)
THEOREM NoDeputy == EnvelopeSpec => []NoConfusedDeputy
<1>1. EnvelopeState => NoConfusedDeputy
  <2> SUFFICES ASSUME EnvelopeState, Verdict.decision # "DENY"
               PROVE  /\ ProjectAllows(request, session)
                      /\ \A s \in {request.subject, request.tool} \ {NoSubject} :
                           \E g \in Verdict.capabilities :
                             /\ GrantOf[g].subject = s
                             /\ FlowAllowed(request, GrantOf[g])
                             /\ IsActive(g, clock)
                             /\ Maximum(risk) <= GrantOf[g].maxRisk
    BY DEF NoConfusedDeputy
  <2> DEFINE top == Maximum(risk)
  <2>1. Authorized(request, session, top, clock)
    BY DEF Verdict, Evaluate
  <2>2. Verdict.capabilities = Selected(request, session, top, clock)
    BY <2>1 DEF Verdict, Evaluate
  <2>3. PICK a \in AgentSelected(request, session, top, clock) : TRUE
    BY <2>1 DEF Authorized
  <2>4. ASSUME request.tool # NoSubject
        PROVE  \E g \in ToolSelected(request, session, top, clock) :
                 GrantOf[g].subject = request.tool
    BY <2>1, <2>4 DEF Authorized, ToolSelected, MatchingGrants
  <2>5. \A g \in Selected(request, session, top, clock) :
          /\ FlowAllowed(request, GrantOf[g]) /\ IsActive(g, clock)
          /\ top <= GrantOf[g].maxRisk
    BY DEF Selected, AgentSelected, ToolSelected, MatchingGrants
  <2>6. GrantOf[a].subject = request.subject
    BY <2>3 DEF AgentSelected, MatchingGrants
  <2>7. /\ AgentSelected(request, session, top, clock) \subseteq Verdict.capabilities
        /\ ToolSelected(request, session, top, clock) \subseteq Verdict.capabilities
    BY <2>2 DEF Selected
  <2>8. ProjectAllows(request, session)
    BY <2>1 DEF Authorized
  <2>9. ASSUME NEW s \in {request.subject, request.tool} \ {NoSubject}
        PROVE  \E g \in Verdict.capabilities : GrantOf[g].subject = s
    BY <2>3, <2>4, <2>6, <2>7
  <2> QED
    BY <2>2, <2>5, <2>8, <2>9
<1> QED
  BY <1>1, EnvelopeInitType, EnvelopeStepType, PTL DEF EnvelopeSpec

(* Rising risk takes capabilities away and never adds one: invariant 11 of *)
(* the constitution, as far as the selected grants go.                     *)
THEOREM RiskContracts == EnvelopeSpec => CapabilitiesContract
<1>1. ASSUME EnvelopeState, EnvelopeState', [EnvelopeNext]_envelope, clock' = clock
      PROVE  Selected(request, session, Maximum(risk), clock)'
               \subseteq Selected(request, session, Maximum(risk), clock)
  <2>1. request' = request /\ session' = session
    BY <1>1 DEF EnvelopeNext, Elapse, Escalate, envelope
  <2>2. \A d \in RiskDomain : risk[d] <= risk'[d]
    <3>1. CASE \E d \in RiskDomain : Escalate(d)
      BY <1>1, <3>1, GrantAssumption DEF Escalate, EnvelopeState
    <3>2. CASE risk' = risk
      BY <1>1, <3>2, GrantAssumption DEF EnvelopeState
    <3> QED
      BY <1>1, <3>1, <3>2 DEF EnvelopeNext, Elapse, envelope
  <2>3. Maximum(risk) \in 0 .. MaxRisk /\ Maximum(risk') \in 0 .. MaxRisk
          /\ Maximum(risk) <= Maximum(risk')
    BY <1>1, <2>2, MaximumFact, MaximumRises DEF EnvelopeState
  <2>4. Selected(request, session, Maximum(risk'), clock)
          \subseteq Selected(request, session, Maximum(risk), clock)
    BY <1>1, <2>3, SelectionContracts DEF EnvelopeState
  <2> QED
    BY <1>1, <2>1, <2>4 DEF Selected, AgentSelected, ToolSelected, MatchingGrants,
        FlowAllowed, IsActive, Maximum
<1> QED
  BY <1>1, EnvelopeInitType, EnvelopeStepType, PTL DEF EnvelopeSpec, CapabilitiesContract
=============================================================================
