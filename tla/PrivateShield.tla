--------------------------- MODULE PrivateShield ---------------------------
(***************************************************************************)
(* AEGIS Private Shield at run time (python/ethos_aegis/private_shield):   *)
(* the SecretBroker and the MCPMediator in front of one PolicyEngine, and  *)
(* the audit chain both append to.                                         *)
(*                                                                         *)
(* A trusted adapter and a tool handler are foreign code called in the     *)
(* middle of execute and invoke.  While one runs it may call the shield    *)
(* again, an operator may revoke or rotate through it, and time passes:    *)
(* stack holds the calls that have not returned, innermost last.  Only the *)
(* innermost can return.                                                   *)
(***************************************************************************)
EXTENDS PolicyEngine, Sequences

CONSTANTS
  Secret,       \* the secret references, each a target of secret.use
  LeaseId,
  NoLease,      \* a lease id that was never issued; the lease of a tool call
  Asks,         \* the calls of request_lease that may be made
  ToolCalls,    \* the calls of invoke that may be made
  MaxNow, MaxDepth, MaxReceipts   \* bounds: time, nested calls, receipts

LeaseAsk ==
  [subject : Subject, secret : Secret, session : Session, risk : 0 .. MaxRisk,
   ttl : 1 .. 300, maxUses : 1 .. 10]

ToolCall == [request : ActionRequest, session : Session, risk : 0 .. MaxRisk]

(* _LeaseRecord with the SecretLease in it. *)
LeaseRecord ==
  [subject : Subject, secret : Secret, expires : Nat, maxUses : 1 .. 10,
   capabilities : SUBSET Grant, risk : 0 .. MaxRisk, remaining : 0 .. 10, revoked : BOOLEAN]

ASSUME ShieldAssumption ==
  /\ Secret \subseteq Target
  /\ NoLease \notin LeaseId /\ NoLease \notin LeaseRecord
  /\ Asks \subseteq LeaseAsk
  /\ ToolCalls \subseteq {c \in ToolCall : c.request.tool # NoSubject}
  /\ MaxNow \in Nat /\ MaxDepth \in Nat /\ MaxReceipts \in Nat

VARIABLES
  now,
  provisioned,  \* the secret references registered with the broker
  leases,       \* SecretBroker._leases
  stack,        \* the execute and invoke calls in progress
  receipts,     \* AuditChain._receipts
  uses          \* history: the uses of each lease that execute has taken

vars == <<now, provisioned, leases, stack, receipts, uses>>

Frame == [lease : LeaseId \cup {NoLease}, request : ActionRequest,
          verdict : PolicyDecision, time : Nat]

(* The fields of an AuditReceipt; its input hash fixes the lease consumed. *)
AuditReceipt ==
  [reason : {"authorization", "consumption"}, subject : Subject, target : Target,
   verdict : PolicyDecision, lease : LeaseId \cup {NoLease}, time : Nat]

Issued == {l \in LeaseId : leases[l] # NoLease}

TypeOK ==
  /\ now \in Nat
  /\ provisioned \subseteq Secret
  /\ leases \in [LeaseId -> LeaseRecord \cup {NoLease}]
  /\ stack \in Seq(Frame)
  /\ receipts \in Seq(AuditReceipt)
  /\ uses \in [LeaseId -> Nat]

----------------------------------------------------------------------------
(* AuditChain.append. *)
Receipt(reason, subject, target, verdict, lease, time) ==
  /\ Len(receipts) < MaxReceipts
  /\ receipts' = Append(receipts,
                   [reason |-> reason, subject |-> subject, target |-> target,
                    verdict |-> verdict, lease |-> lease, time |-> time])

SecretUse(ask) ==
  [subject |-> ask.subject, target |-> ask.secret, tool |-> NoSubject,
   destination |-> NoDestination, classification |-> NoClassification]

Top == stack[Len(stack)]
Below == SubSeq(stack, 1, Len(stack) - 1)

----------------------------------------------------------------------------
Init ==
  /\ now = 0
  /\ provisioned = {}
  /\ leases = [l \in LeaseId |-> NoLease]
  /\ stack = << >>
  /\ receipts = << >>
  /\ uses = [l \in LeaseId |-> 0]

Tick == now < MaxNow /\ now' = now + 1 /\ UNCHANGED <<provisioned, leases, stack, receipts, uses>>

(* register: an issued lease keeps the material it was issued with. *)
Register(s) ==
  /\ provisioned' = provisioned \cup {s}
  /\ UNCHANGED <<now, leases, stack, receipts, uses>>

(* request_lease.  The authorization is receipted first; then it may be    *)
(* refused, or granted for a secret that is not there (KeyError).          *)
LeaseRefused(ask) ==
  LET verdict == Evaluate(SecretUse(ask), ask.session, ask.risk, now)
  IN  /\ Receipt("authorization", ask.subject, ask.secret, verdict, NoLease, now)
      /\ verdict.decision # "ALLOW" \/ ask.secret \notin provisioned
      /\ UNCHANGED <<now, provisioned, leases, stack, uses>>

(* A lease that carries every grant of the session. *)
MutantLeaseIssuedAmbient(l, ask) ==
  LET verdict == Evaluate(SecretUse(ask), ask.session, ask.risk, now)
  IN  /\ leases[l] = NoLease
      /\ Receipt("authorization", ask.subject, ask.secret, verdict, NoLease, now)
      /\ verdict.decision = "ALLOW" /\ ask.secret \in provisioned
      /\ leases' = [leases EXCEPT ![l] =
           [subject |-> ask.subject, secret |-> ask.secret, expires |-> now + ask.ttl,
            maxUses |-> ask.maxUses, capabilities |-> ask.session.agentGrants,
            risk |-> ask.risk, remaining |-> ask.maxUses, revoked |-> FALSE]]
      /\ UNCHANGED <<now, provisioned, stack, uses>>

LeaseIssued(l, ask) ==
  LET verdict == Evaluate(SecretUse(ask), ask.session, ask.risk, now)
  IN  /\ leases[l] = NoLease
      /\ Receipt("authorization", ask.subject, ask.secret, verdict, NoLease, now)
      /\ verdict.decision = "ALLOW" /\ ask.secret \in provisioned
      /\ leases' = [leases EXCEPT ![l] =
           [subject |-> ask.subject, secret |-> ask.secret, expires |-> now + ask.ttl,
            maxUses |-> ask.maxUses, capabilities |-> verdict.capabilities,
            risk |-> verdict.risk, remaining |-> ask.maxUses, revoked |-> FALSE]]
      /\ UNCHANGED <<now, provisioned, stack, uses>>

(* revoke. *)
Revoke(l) ==
  /\ leases[l] # NoLease
  /\ leases' = [leases EXCEPT ![l].revoked = TRUE]
  /\ UNCHANGED <<now, provisioned, stack, receipts, uses>>

(* execute of a lease that has expired or has no use left. *)
Expire(l) ==
  /\ leases[l] # NoLease /\ ~leases[l].revoked
  /\ now >= leases[l].expires \/ leases[l].remaining <= 0
  /\ leases' = [leases EXCEPT ![l].revoked = TRUE]
  /\ UNCHANGED <<now, provisioned, stack, receipts, uses>>

AdapterFrame(l) ==
  [lease |-> l,
   request |-> [subject |-> leases[l].subject, target |-> leases[l].secret,
                tool |-> NoSubject, destination |-> NoDestination,
                classification |-> NoClassification],
   verdict |-> [decision |-> "ALLOW", capabilities |-> leases[l].capabilities,
                risk |-> leases[l].risk],
   time |-> now]

(* An execute that does not take the use of a nested call, and one that    *)
(* looks at the clock alone.                                               *)
MutantBeginUseReentrant(l) ==
  /\ Len(stack) < MaxDepth
  /\ leases[l] # NoLease /\ ~leases[l].revoked
  /\ now < leases[l].expires /\ leases[l].remaining > 0
  /\ leases' = [leases EXCEPT ![l].remaining = IF stack = << >> THEN @ - 1 ELSE @,
                              ![l].revoked = (leases[l].remaining = 1)]
  /\ stack' = Append(stack, AdapterFrame(l))
  /\ uses' = [uses EXCEPT ![l] = @ + 1]
  /\ UNCHANGED <<now, provisioned, receipts>>
MutantBeginUseClockOnly(l) ==
  /\ Len(stack) < MaxDepth
  /\ leases[l] # NoLease
  /\ now < leases[l].expires
  /\ leases' = [leases EXCEPT ![l].remaining = @ - 1,
                              ![l].revoked = (leases[l].remaining = 1)]
  /\ stack' = Append(stack, AdapterFrame(l))
  /\ uses' = [uses EXCEPT ![l] = @ + 1]
  /\ UNCHANGED <<now, provisioned, receipts>>

(* execute up to the call of the adapter: the use is taken first. *)
BeginUse(l) ==
  /\ Len(stack) < MaxDepth
  /\ leases[l] # NoLease /\ ~leases[l].revoked
  /\ now < leases[l].expires /\ leases[l].remaining > 0
  /\ leases' = [leases EXCEPT ![l].remaining = @ - 1,
                              ![l].revoked = (leases[l].remaining = 1)]
  /\ stack' = Append(stack, AdapterFrame(l))
  /\ uses' = [uses EXCEPT ![l] = @ + 1]
  /\ UNCHANGED <<now, provisioned, receipts>>

(* A failed adapter that is called again for the same use. *)
MutantEndUseRetries ==
  \E decision \in {"ALLOW", "DENY"} :
    /\ stack # << >> /\ Top.lease # NoLease
    /\ Receipt("consumption", Top.request.subject, Top.request.target,
               [Top.verdict EXCEPT !.decision = decision], Top.lease, Top.time)
    /\ stack' = IF decision = "ALLOW" THEN Below ELSE stack
    /\ UNCHANGED <<now, provisioned, leases, uses>>

(* The adapter returns; its output is accepted, or it raised or reflected  *)
(* the secret and the consumption is receipted as a denial.                *)
EndUse ==
  \E decision \in {"ALLOW", "DENY"} :
    /\ stack # << >> /\ Top.lease # NoLease
    /\ Receipt("consumption", Top.request.subject, Top.request.target,
               [Top.verdict EXCEPT !.decision = decision], Top.lease, Top.time)
    /\ stack' = Below
    /\ UNCHANGED <<now, provisioned, leases, uses>>

(* invoke, refused. *)
ToolRefused(call) ==
  LET verdict == Evaluate(call.request, call.session, call.risk, now)
  IN  /\ verdict.decision # "ALLOW"
      /\ Receipt("authorization", call.request.subject, call.request.target, verdict,
                 NoLease, now)
      /\ UNCHANGED <<now, provisioned, leases, stack, uses>>

(* invoke up to the call of the handler: nothing is receipted yet. *)
BeginTool(call) ==
  LET verdict == Evaluate(call.request, call.session, call.risk, now)
  IN  /\ Len(stack) < MaxDepth
      /\ verdict.decision = "ALLOW"
      /\ stack' = Append(stack, [lease |-> NoLease, request |-> call.request,
                                 verdict |-> verdict, time |-> now])
      /\ UNCHANGED <<now, provisioned, leases, receipts, uses>>

(* The handler returns or raises; the receipt is the decision's. *)
EndTool ==
  /\ stack # << >> /\ Top.lease = NoLease
  /\ Receipt("authorization", Top.request.subject, Top.request.target, Top.verdict,
             NoLease, Top.time)
  /\ stack' = Below
  /\ UNCHANGED <<now, provisioned, leases, uses>>

(* The call ends in an exception that neither execute nor invoke handles   *)
(* before its receipt: a text output that cannot be encoded (execute), an  *)
(* output nested too deep for json (invoke).                               *)
Escape ==
  /\ stack # << >>
  /\ stack' = Below
  /\ UNCHANGED <<now, provisioned, leases, receipts, uses>>

(* A KeyboardInterrupt or SystemExit unwinds every call in progress: the   *)
(* handlers catch Exception only.                                          *)
Interrupt ==
  /\ Len(stack) > 1
  /\ stack' = << >>
  /\ UNCHANGED <<now, provisioned, leases, receipts, uses>>

Next ==
  \/ Tick \/ EndUse \/ EndTool \/ Escape \/ Interrupt
  \/ \E s \in Secret : Register(s)
  \/ \E ask \in Asks : LeaseRefused(ask) \/ \E l \in LeaseId : LeaseIssued(l, ask)
  \/ \E l \in LeaseId : Revoke(l) \/ Expire(l) \/ BeginUse(l)
  \/ \E call \in ToolCalls : ToolRefused(call) \/ BeginTool(call)

Spec == Init /\ [][Next]_vars

----------------------------------------------------------------------------
(* Properties. *)

(* A lease is used at most as often as it says, an adapter that calls the  *)
(* broker again with its own lease included, and a failed use counts.      *)
UsesWithinLease ==
  \A l \in LeaseId :
    IF l \in Issued
    THEN uses[l] <= leases[l].maxUses /\ uses[l] + leases[l].remaining = leases[l].maxUses
    ELSE uses[l] = 0

(* Once revoked, by the operator, by the clock or by its last use, a lease *)
(* is never used again, whatever call is still inside an adapter.          *)
DeadStaysDead ==
  [][\A l \in Issued : leases[l].revoked => leases'[l].revoked /\ uses'[l] = uses[l]]_vars

ConsumptionReceipts(l) ==
  {i \in 1 .. Len(receipts) : receipts[i].reason = "consumption" /\ receipts[i].lease = l}

Running(l) == {i \in 1 .. Len(stack) : stack[i].lease = l}

(* The chain never shows a consumption that did not happen: receipts and   *)
(* calls in progress together account for no more than the uses taken.     *)
EvidenceWithinUses ==
  \A l \in LeaseId :
    Cardinality(ConsumptionReceipts(l)) + Cardinality(Running(l)) <= uses[l]

Authorizes(receipt, subject, target, capabilities, risk) ==
  /\ receipt.reason = "authorization"
  /\ receipt.subject = subject
  /\ receipt.target = target
  /\ receipt.verdict =
       [decision |-> "ALLOW", capabilities |-> capabilities, risk |-> risk]

(* Every consumption in the chain can be traced back, earlier in the chain,*)
(* to an authorization with the same subject, secret, capabilities and     *)
(* risk that was allowed.                                                  *)
ConsumptionTraced ==
  \A i \in 1 .. Len(receipts) :
    receipts[i].reason = "consumption" =>
      \E j \in 1 .. i - 1 :
        Authorizes(receipts[j], receipts[i].subject, receipts[i].target,
                   receipts[i].verdict.capabilities, receipts[i].verdict.risk)

(* Why: leases, and the uses in progress, can be traced themselves.        *)
LeasesTraced ==
  \A l \in Issued : \E j \in 1 .. Len(receipts) :
    Authorizes(receipts[j], leases[l].subject, leases[l].secret,
               leases[l].capabilities, leases[l].risk)

FramesTraced ==
  \A i \in 1 .. Len(stack) : stack[i].lease # NoLease =>
    \E j \in 1 .. Len(receipts) :
      Authorizes(receipts[j], stack[i].request.subject, stack[i].request.target,
                 stack[i].verdict.capabilities, stack[i].verdict.risk)

=============================================================================
