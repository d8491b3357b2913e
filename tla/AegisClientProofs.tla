-------------------------- MODULE AegisClientProofs --------------------------
(***************************************************************************)
(* Theorems of AegisClient: any clients, any retries and rates of          *)
(* evolution, any messages, timeouts, cancellations and restarts.          *)
(*                                                                         *)
(* An attempt is spent when it has been sent or never will be.  No attempt *)
(* is sent that was spent, so the spent ones, which are among those that   *)
(* the calls of guard allow, outnumber what the server judges.             *)
(***************************************************************************)
EXTENDS AegisClient, FiniteSetTheorems, TLAPS

(* The guarded calls and the counters of every client. *)
ClientType ==
  /\ adjudications \in Nat
  /\ backlog \in Seq([client : Client \cup {Nobody}, payload : Payload])
  /\ call \in [Client -> {Idle} \cup [at : {"send", "wait"}, payload : Payload, attempt : Nat]]
  /\ \A c \in Client : call[c] # Idle => calls[c] > 0 /\ call[c].attempt <= Retries[c]
  /\ calls \in [Client -> Nat]
  /\ stats \in [Client -> [adjudications : Nat, blocked : Nat, sanitized : Nat]]
  /\ outcomes \in [Client -> [forwarded : Nat, refused : Nat, raised : Nat, failed : Nat]]

(* The attempts that have reached the server's backlog, or never will.     *)
Spent ==
  {t \in Attempts : \/ t[2] < calls[t[1]]
                    \/ call[t[1]] = Idle
                    \/ t[3] < call[t[1]].attempt
                    \/ t[3] = call[t[1]].attempt /\ call[t[1]].at = "wait"}

(* The server has judged, or has before it, no more than was spent.        *)
SpentBounds == adjudications + Len(backlog) <= Cardinality(Spent)
(* A call in progress. *)
Busy == [at : {"send", "wait"}, payload : Payload, attempt : Nat]

LEMMA CallType ==
  ASSUME ClientType, NEW c \in Client
  PROVE  /\ call[c] = Idle \/ call[c] \in Busy
         /\ call[c].at \in {"idle", "send", "wait"}
         /\ call[c].at = "idle" <=> call[c] = Idle
         /\ call[c] # Idle => call[c].attempt \in Nat
BY DEF ClientType, Busy, Idle

----------------------------------------------------------------------------
(* What each step does to the one client it is about. *)

LEMMA RetriesType == \A c \in Client : Retries[c] \in Nat /\ EvolveEvery[c] \in Nat
BY ClientAssumption

(* The call of a client ends, or goes on as one that is due to be sent     *)
(* again or that waits.                                                    *)
Moves(c) ==
  \/ call'[c] = Idle
  \/ /\ call[c] # Idle
     /\ call'[c] \in Busy /\ call'[c].attempt <= Retries[c]
     /\ \/ call'[c].attempt = call[c].attempt + 1
        \/ call'[c].attempt = call[c].attempt /\ call[c].at = "send"

OnlyCalls(c) ==
  /\ call' \in [Client -> {Idle} \cup Busy]
  /\ \A d \in Client \ {c} : call'[d] = call[d]

LEMMA TryAgainMoves ==
  ASSUME ClientType, NEW c \in Client, call[c] # Idle, TryAgain(c)
  PROVE  /\ OnlyCalls(c) /\ Moves(c)
         /\ outcomes' = outcomes \/ outcomes' = [outcomes EXCEPT ![c].failed = @ + 1]
<1>1. CASE call[c].attempt < Retries[c]
             /\ call' = [call EXCEPT ![c].at = "send", ![c].attempt = @ + 1]
             /\ UNCHANGED outcomes
  <2>1. call[c] \in Busy
    BY CallType
  <2> DEFINE next == [at |-> "send", payload |-> call[c].payload, attempt |-> call[c].attempt + 1]
  <2>2. next \in Busy /\ next.attempt = call[c].attempt + 1
    BY <2>1 DEF Busy
  <2>3. call' = [call EXCEPT ![c] = next]
    BY <1>1, <2>1 DEF ClientType, Busy
  <2> HIDE DEF next
  <2>4. call \in [Client -> {Idle} \cup Busy]
    BY DEF ClientType, Busy
  <2>5. call'[c] = next /\ OnlyCalls(c)
    BY <2>2, <2>3, <2>4 DEF OnlyCalls
  <2>6. call'[c].attempt <= Retries[c]
    BY <1>1, <2>1, <2>2, <2>5, RetriesType DEF Busy
  <2> QED BY <1>1, <2>2, <2>5, <2>6 DEF Moves
<1>2. CASE End(c, "failed")
  <2>1. call \in [Client -> {Idle} \cup Busy]
    BY DEF ClientType, Busy
  <2> QED BY <1>2, <2>1 DEF End, OnlyCalls, Moves
<1> QED
  BY <1>1, <1>2 DEF TryAgain

(* The connections that are closed stay in the backlog. *)
LEMMA CloseType ==
  ASSUME ClientType, NEW c \in Client, Close(c)
  PROVE  /\ backlog' \in Seq([client : Client \cup {Nobody}, payload : Payload])
         /\ Len(backlog') = Len(backlog)
<1> DEFINE link == [client : Client \cup {Nobody}, payload : Payload]
           n == Len(backlog)
<1>1. backlog \in Seq(link) /\ n \in Nat /\ DOMAIN backlog = 1 .. n
  BY DEF ClientType
<1>2. \A i \in 1 .. n : backlog[i] \in link
  <2> HIDE DEF link
  <2> QED BY <1>1
<1>3. \A i \in 1 .. n : [backlog[i] EXCEPT !.client = Nobody] \in link
  BY <1>2
<1>4. backlog' = [i \in 1 .. n |-> IF backlog[i].client = c
                                   THEN [backlog[i] EXCEPT !.client = Nobody] ELSE backlog[i]]
  BY <1>1 DEF Close
<1> HIDE DEF link, n
<1>5. backlog' \in [1 .. n -> link]
  BY <1>2, <1>3, <1>4
<1>6. backlog' \in Seq(link) /\ Len(backlog') = n
  BY <1>1, <1>5
<1> QED
  BY <1>6 DEF link, n

LEMMA MovesKeepType ==
  ASSUME ClientType, NEW c \in Client, OnlyCalls(c), Moves(c), call[c] # Idle, UNCHANGED calls
  PROVE  /\ call' \in [Client -> {Idle} \cup Busy]
         /\ \A d \in Client : call'[d] # Idle => calls'[d] > 0 /\ call'[d].attempt <= Retries[d]
BY DEF ClientType, OnlyCalls, Moves

(* The outcome of a call that ends is counted. *)
LEMMA OutcomeType ==
  ASSUME ClientType, NEW c \in Client, NEW kind \in {"forwarded", "refused", "raised", "failed"},
         outcomes' = [outcomes EXCEPT ![c][kind] = @ + 1]
  PROVE  outcomes' \in [Client -> [forwarded : Nat, refused : Nat, raised : Nat, failed : Nat]]
<1> DEFINE Count == [forwarded : Nat, refused : Nat, raised : Nat, failed : Nat]
<1>1. outcomes \in [Client -> Count] /\ outcomes[c] \in Count
  BY DEF ClientType
<1>2. [outcomes[c] EXCEPT ![kind] = @ + 1] \in Count
  BY <1>1
<1>3. outcomes' = [outcomes EXCEPT ![c] = [outcomes[c] EXCEPT ![kind] = @ + 1]]
  BY <1>1
<1> HIDE DEF Count
<1>4. outcomes' \in [Client -> Count]
  BY <1>1, <1>2, <1>3
<1> QED
  BY <1>4 DEF Count

LEMMA EndMoves ==
  ASSUME ClientType, NEW c \in Client, NEW kind, End(c, kind)
  PROVE  OnlyCalls(c) /\ Moves(c)
<1>1. call \in [Client -> {Idle} \cup Busy]
  BY DEF ClientType, Busy
<1> QED
  BY <1>1 DEF End, OnlyCalls, Moves

(* Receive, with the verdict and its three increments named. *)
LEMMA ReceiveCounts ==
  ASSUME ClientType, NEW c \in Client, Receive(c)
  PROVE  \E b \in {0, 1}, s \in {0, 1}, kind \in {"forwarded", "refused", "raised", "failed"} :
           /\ stats' \in [Client -> [adjudications : Nat, blocked : Nat, sanitized : Nat]]
           /\ \A d \in Client \ {c} : stats'[d] = stats[d]
           /\ stats'[c].adjudications = stats[c].adjudications + 1
           /\ stats'[c].blocked = stats[c].blocked + b
           /\ outcomes' = [outcomes EXCEPT ![c][kind] = @ + 1]
           /\ kind = "failed" <=> Evolves(c)
           /\ kind = "forwarded" => b = 0
           /\ kind = "refused" /\ c \in Python => b = 1
           /\ kind = "raised" => b = 1
<1> DEFINE v == reply[c].body
<1>1. PICK b \in {0, 1} : b = IF Blocked(c, v) THEN 1 ELSE 0
  OBVIOUS
<1>2. PICK s \in {0, 1} : s = IF Sanitized(c, v) THEN 1 ELSE 0
  OBVIOUS
<1>3. PICK kind \in {"forwarded", "refused", "raised", "failed"} :
        kind = Outcome(c, v)
  BY DEF Outcome
<1>4. stats' = [stats EXCEPT ![c] = [adjudications |-> @.adjudications + 1,
                                     blocked |-> @.blocked + b, sanitized |-> @.sanitized + s]]
  BY <1>1, <1>2 DEF Receive
<1>5. End(c, kind)
  BY <1>3 DEF Receive
<1>6. /\ kind = "failed" <=> Evolves(c)
      /\ kind = "forwarded" => b = 0
      /\ kind = "refused" /\ c \in Python => b = 1
      /\ kind = "raised" => b = 1
  BY <1>1, <1>3 DEF Outcome, Blocked, Cleared
<1> HIDE DEF v
<1> DEFINE Tally == [adjudications : Nat, blocked : Nat, sanitized : Nat]
           next == [adjudications |-> stats[c].adjudications + 1,
                    blocked |-> stats[c].blocked + b, sanitized |-> stats[c].sanitized + s]
<1>7. stats \in [Client -> Tally] /\ stats[c] \in Tally
  BY DEF ClientType
<1>8. next \in Tally /\ next.adjudications = stats[c].adjudications + 1
        /\ next.blocked = stats[c].blocked + b
  BY <1>7
<1>9. stats' = [stats EXCEPT ![c] = next]
  BY <1>4
<1> HIDE DEF next
<1>10. /\ stats' \in [Client -> Tally]
       /\ \A d \in Client \ {c} : stats'[d] = stats[d]
       /\ stats'[c] = next
  <2> HIDE DEF Tally
  <2> QED BY <1>7, <1>8, <1>9
<1> QED
  BY <1>5, <1>6, <1>8, <1>10 DEF End

LEMMA GuardType ==
  ASSUME ClientType, NEW c \in Client, NEW p \in Payload, Guard(c, p)
  PROVE  ClientType'
<1> DEFINE next == [at |-> "send", payload |-> p, attempt |-> 0]
<1>1. call \in [Client -> {Idle} \cup Busy]
  BY DEF ClientType, Busy
<1>2. next \in Busy /\ next.attempt = 0
  BY DEF Busy
<1>3. call' = [call EXCEPT ![c] = next]
  BY DEF Guard
<1> HIDE DEF next
<1>4. call' \in [Client -> {Idle} \cup Busy]
  BY <1>1, <1>2, <1>3
<1>5. calls' \in [Client -> Nat] /\ calls'[c] > 0 /\ \A d \in Client \ {c} : calls'[d] = calls[d]
  BY DEF Guard, ClientType
<1>6. \A d \in Client : call'[d] # Idle => calls'[d] > 0 /\ call'[d].attempt <= Retries[d]
  <2> TAKE d \in Client
  <2>1. CASE d = c
    BY <2>1, <1>1, <1>2, <1>3, <1>5, RetriesType
  <2>2. CASE d # c
    <3>1. call'[d] = call[d] /\ calls'[d] = calls[d]
      BY <2>2, <1>1, <1>3, <1>5
    <3> QED BY <3>1 DEF ClientType
  <2> QED BY <2>1, <2>2
<1> QED
  BY <1>4, <1>5, <1>6 DEF Guard, ClientType, Busy, core

LEMMA SendMoves ==
  ASSUME ClientType, NEW c \in Client, Send(c)
  PROVE  /\ OnlyCalls(c) /\ Moves(c) /\ call[c] # Idle
         /\ call'[c] # Idle /\ call'[c].at = "wait" /\ call'[c].attempt = call[c].attempt
         /\ backlog' \in Seq([client : Client \cup {Nobody}, payload : Payload])
         /\ Len(backlog') = Len(backlog) + 1
<1>1. call \in [Client -> {Idle} \cup Busy]
  BY DEF ClientType, Busy
<1>2. call[c] \in Busy /\ call[c] # Idle /\ call[c].at = "send"
  BY CallType DEF Send
<1> DEFINE next == [at |-> "wait", payload |-> call[c].payload, attempt |-> call[c].attempt]
<1>3. next \in Busy /\ next.attempt = call[c].attempt /\ next.at = "wait" /\ next # Idle
  BY <1>2 DEF Busy, Idle
<1>4. call' = [call EXCEPT ![c] = next]
  <2>1. [call[c] EXCEPT !.at = "wait"] = next
    BY <1>2 DEF Busy
  <2>2. call' = [call EXCEPT ![c] = [call[c] EXCEPT !.at = "wait"]]
    BY <1>1 DEF Send
  <2> QED BY <2>1, <2>2
<1> HIDE DEF next
<1>5. OnlyCalls(c) /\ call'[c] = next
  BY <1>1, <1>3, <1>4 DEF OnlyCalls
<1>6. call[c].attempt <= Retries[c]
  BY <1>2 DEF ClientType
<1>7. Moves(c)
  BY <1>2, <1>3, <1>5, <1>6 DEF Moves
<1> DEFINE link == [client : Client \cup {Nobody}, payload : Payload]
<1>8. Connection(c, call[c].payload) \in link
  BY <1>2 DEF Connection, Busy
<1>9. backlog \in Seq(link)
  BY DEF ClientType
<1> HIDE DEF link
<1>10. backlog' \in Seq(link) /\ Len(backlog') = Len(backlog) + 1
  BY <1>8, <1>9 DEF Send
<1> QED
  BY <1>2, <1>3, <1>5, <1>7, <1>10 DEF link

(* Where every call stands after a step. *)
StaysPut(d) == call'[d] = call[d] /\ calls'[d] = calls[d]

Forward(d) ==
  \/ StaysPut(d)
  \/ calls'[d] = calls[d] /\ Moves(d)
  \/ call[d] = Idle /\ calls'[d] = calls[d] + 1

(* A step of one client that ends its attempt, or a step of the server.    *)
LEMMA CallSteps ==
  ASSUME ClientType, NEW c \in Client, Unreachable(c) \/ Fails(c) \/ Cancel(c) \/ Receive(c)
  PROVE  /\ ClientType' /\ \A d \in Client : Forward(d)
         /\ adjudications' = adjudications /\ Len(backlog') = Len(backlog)
<1>1. call[c] # Idle
  BY CallType DEF Unreachable, Fails, Cancel, Receive, Idle
<1>2. adjudications' = adjudications /\ calls' = calls
  BY DEF Unreachable, Fails, Cancel, Receive, core
<1>3. OnlyCalls(c) /\ Moves(c)
  BY <1>1, TryAgainMoves, EndMoves DEF Unreachable, Fails, Cancel, Receive
<1>4. /\ backlog' \in Seq([client : Client \cup {Nobody}, payload : Payload])
      /\ Len(backlog') = Len(backlog)
  <2>1. CASE Close(c)
    BY <2>1, CloseType
  <2>2. CASE UNCHANGED backlog
    BY <2>2 DEF ClientType
  <2> QED BY <2>1, <2>2 DEF Unreachable, Fails, Cancel, Receive
<1>5. outcomes' \in [Client -> [forwarded : Nat, refused : Nat, raised : Nat, failed : Nat]]
  <2>1. CASE outcomes' = outcomes
    BY <2>1 DEF ClientType
  <2>2. CASE outcomes' = [outcomes EXCEPT ![c].failed = @ + 1]
    BY <2>2, OutcomeType
  <2>3. CASE Receive(c)
    BY <2>3, ReceiveCounts, OutcomeType
  <2> QED BY <1>1, <2>1, <2>2, <2>3, TryAgainMoves DEF Unreachable, Fails, Cancel, End
<1>6. stats' \in [Client -> [adjudications : Nat, blocked : Nat, sanitized : Nat]]
  <2>1. CASE UNCHANGED stats
    BY <2>1 DEF ClientType
  <2>2. CASE Receive(c)
    BY <2>2, ReceiveCounts
  <2> QED BY <2>1, <2>2 DEF Unreachable, Fails, Cancel
<1>7. /\ call' \in [Client -> {Idle} \cup Busy]
      /\ \A d \in Client : call'[d] # Idle => calls'[d] > 0 /\ call'[d].attempt <= Retries[d]
  BY <1>1, <1>2, <1>3, MovesKeepType
<1>8. \A d \in Client : Forward(d)
  BY <1>2, <1>3 DEF Forward, StaysPut, OnlyCalls
<1> QED
  BY <1>2, <1>4, <1>5, <1>6, <1>7, <1>8 DEF ClientType, Busy

LEMMA ServeSteps ==
  ASSUME ClientType, Serve
  PROVE  /\ ClientType' /\ \A d \in Client : Forward(d)
         /\ adjudications' + Len(backlog') <= adjudications + Len(backlog)
<1> DEFINE link == [client : Client \cup {Nobody}, payload : Payload]
<1>1. backlog \in Seq(link) /\ backlog # << >> /\ backlog' = Tail(backlog)
  BY DEF ClientType, Serve
<1> HIDE DEF link
<1>2. backlog' \in Seq(link) /\ Len(backlog') = Len(backlog) - 1 /\ Len(backlog) \in Nat
  BY <1>1
<1>3. adjudications' = adjudications \/ adjudications' = adjudications + 1
  BY DEF Serve, core, Core!Adjudicate
<1>4. UNCHANGED <<call, stats, calls, outcomes>>
  BY DEF Serve
<1>5. adjudications \in Nat
  BY DEF ClientType
<1>6. ClientType'
  BY <1>2, <1>3, <1>4, <1>5 DEF ClientType, link
<1> QED
  BY <1>2, <1>3, <1>4, <1>5, <1>6 DEF Forward, StaysPut

LEMMA RestartSteps ==
  ASSUME ClientType, Restart
  PROVE  /\ ClientType' /\ \A d \in Client : Forward(d)
         /\ adjudications' = 0 /\ Len(backlog') = 0
BY DEF ClientType, Restart, Forward, StaysPut

LEMMA SendSteps ==
  ASSUME ClientType, NEW c \in Client, Send(c)
  PROVE  ClientType' /\ \A d \in Client : Forward(d)
<1>1. UNCHANGED <<adjudications, stats, calls, outcomes>>
  BY DEF Send, core
<1>2. /\ OnlyCalls(c) /\ Moves(c) /\ call[c] # Idle
      /\ backlog' \in Seq([client : Client \cup {Nobody}, payload : Payload])
  BY SendMoves
<1>3. /\ call' \in [Client -> {Idle} \cup Busy]
      /\ \A d \in Client : call'[d] # Idle => calls'[d] > 0 /\ call'[d].attempt <= Retries[d]
  BY <1>1, <1>2, MovesKeepType
<1>4. \A d \in Client : Forward(d)
  BY <1>1, <1>2 DEF Forward, StaysPut, OnlyCalls
<1> QED
  BY <1>1, <1>2, <1>3, <1>4 DEF ClientType, Busy

LEMMA GuardSteps ==
  ASSUME ClientType, NEW c \in Client, NEW p \in Payload, Guard(c, p)
  PROVE  /\ ClientType' /\ \A d \in Client : Forward(d)
         /\ UNCHANGED <<adjudications, backlog, stats, outcomes>>
<1>1. \A d \in Client : Forward(d)
  BY DEF Guard, Forward, StaysPut, ClientType
<1> QED
  BY <1>1, GuardType DEF Guard, core

----------------------------------------------------------------------------
(* Attempts are finitely many, and those that are spent stay spent.        *)

LEMMA AttemptsOfOne ==
  ASSUME NEW c, NEW m \in Nat, NEW n \in Nat
  PROVE  IsFiniteSet({c} \X (1 .. m) \X (0 .. n))
<1> DEFINE pairs == (1 .. m) \X (0 .. n)
           f == [x \in pairs |-> <<c, x[1], x[2]>>]
<1>1. IsFiniteSet(pairs)
  <2>1. IsFiniteSet(1 .. m) /\ IsFiniteSet(0 .. n)
    BY FS_Interval
  <2> QED BY <2>1, FS_Product
<1>2. f \in Surjection(pairs, {c} \X (1 .. m) \X (0 .. n))
  <2>1. \A x \in pairs : f[x] \in {c} \X (1 .. m) \X (0 .. n)
    OBVIOUS
  <2>2. \A t \in {c} \X (1 .. m) \X (0 .. n) : \E x \in pairs : f[x] = t
    <3> TAKE t \in {c} \X (1 .. m) \X (0 .. n)
    <3>1. <<t[2], t[3]>> \in pairs /\ f[<<t[2], t[3]>>] = t
      OBVIOUS
    <3> QED BY <3>1
  <2> QED BY <2>1, <2>2 DEF Surjection
<1> QED
  BY <1>1, <1>2, FS_Surjection

LEMMA AttemptsFinite ==
  ASSUME ClientType
  PROVE  IsFiniteSet(Attempts)
<1> DEFINE of(c) == {c} \X (1 .. calls[c]) \X (0 .. Retries[c])
           family == {of(c) : c \in Client}
<1>1. \A c \in Client : IsFiniteSet(of(c))
  BY AttemptsOfOne, RetriesType DEF ClientType
<1>2. IsFiniteSet(family)
  <2> DEFINE g == [c \in Client |-> of(c)]
  <2>1. g \in Surjection(Client, family)
    BY DEF Surjection
  <2>2. IsFiniteSet(Client)
    BY ClientAssumption
  <2> QED BY <2>1, <2>2, FS_Surjection
<1>3. Attempts = UNION family
  BY DEF Attempts
<1> QED
  BY <1>1, <1>2, <1>3, FS_UNION

LEMMA SpentStaysSpent ==
  ASSUME ClientType, ClientType', \A d \in Client : Forward(d)
  PROVE  Spent \subseteq Spent'
<1> SUFFICES ASSUME NEW t \in Spent PROVE t \in Spent'
  OBVIOUS
<1>1. PICK d \in Client : t \in {d} \X (1 .. calls[d]) \X (0 .. Retries[d])
  BY DEF Spent, Attempts
<1>2. t[1] = d /\ t[2] \in 1 .. calls[d] /\ t[3] \in 0 .. Retries[d]
  BY <1>1
<1>3. calls[d] \in Nat /\ calls'[d] \in Nat /\ calls[d] <= calls'[d] /\ Retries[d] \in Nat
  <2>1. calls[d] \in Nat /\ calls'[d] \in Nat
    BY DEF ClientType
  <2>2. calls'[d] = calls[d] \/ calls'[d] = calls[d] + 1
    BY DEF Forward, StaysPut
  <2> QED BY <2>1, <2>2, RetriesType
<1>4. t \in {d} \X (1 .. calls'[d]) \X (0 .. Retries[d])
  BY <1>1, <1>3
<1>5. t \in Attempts'
  BY <1>4 DEF Attempts
<1>6. \/ t[2] < calls[d] \/ call[d] = Idle
      \/ t[3] < call[d].attempt
      \/ t[3] = call[d].attempt /\ call[d].at = "wait"
  BY <1>2 DEF Spent
<1>7. call[d] # Idle => call[d].attempt \in Nat
  BY CallType
<1>8. \/ t[2] < calls'[d] \/ call'[d] = Idle
      \/ t[3] < call'[d].attempt
      \/ t[3] = call'[d].attempt /\ call'[d].at = "wait"
  <2>1. CASE StaysPut(d)
    BY <1>6, <2>1 DEF StaysPut
  <2>2. CASE calls'[d] = calls[d] /\ Moves(d)
    BY <1>2, <1>3, <1>6, <1>7, <2>2 DEF Moves
  <2>3. CASE call[d] = Idle /\ calls'[d] = calls[d] + 1
    BY <1>2, <1>3, <2>3
  <2> QED BY <2>1, <2>2, <2>3 DEF Forward
<1> QED
  BY <1>2, <1>5, <1>8 DEF Spent

LEMMA SpentFinite ==
  ASSUME ClientType
  PROVE  IsFiniteSet(Spent) /\ Cardinality(Spent) \in Nat
<1>1. IsFiniteSet(Spent)
  BY AttemptsFinite, FS_Subset DEF Spent
<1> QED
  BY <1>1, FS_CardinalityType

(* The invariant. *)
Inside == ClientType /\ SpentBounds

LEMMA InitIsInside == Init => Inside
<1> SUFFICES ASSUME Init PROVE Inside
  OBVIOUS
<1>1. adjudications = 0
  BY DEF Init, Core!Init
<1>2. ClientType
  BY <1>1 DEF Init, ClientType, Idle
<1>3. Cardinality(Spent) \in Nat
  BY <1>2, SpentFinite
<1> QED
  BY <1>1, <1>2, <1>3 DEF Init, Inside, SpentBounds

(* A step of any actor that sends nothing adds nothing to what the server  *)
(* has judged and has yet to judge.                                        *)
LEMMA QuietSteps ==
  ASSUME Inside, ClientType', \A d \in Client : Forward(d),
         adjudications' + Len(backlog') <= adjudications + Len(backlog)
  PROVE  Inside'
<1>1. Spent \subseteq Spent'
  BY SpentStaysSpent DEF Inside
<1>2. IsFiniteSet(Spent') /\ Cardinality(Spent') \in Nat
  <2>1. ClientType => IsFiniteSet(Spent) /\ Cardinality(Spent) \in Nat
    BY SpentFinite
  <2>2. ClientType' => IsFiniteSet(Spent)' /\ (Cardinality(Spent) \in Nat)'
    BY SpentFinite, PTL
  <2> QED BY <2>2
<1>3. Cardinality(Spent) <= Cardinality(Spent') /\ Cardinality(Spent) \in Nat
  BY <1>1, <1>2, SpentFinite, FS_Subset DEF Inside
<1>4. /\ adjudications + Len(backlog) \in Nat /\ adjudications' + Len(backlog') \in Nat
  BY DEF Inside, ClientType
<1> QED
  BY <1>2, <1>3, <1>4 DEF Inside, SpentBounds

(* An attempt that is sent was not spent, and is now.                      *)
LEMMA SendIsSpent ==
  ASSUME Inside, NEW c \in Client, Send(c)
  PROVE  Inside'
<1> DEFINE new == <<c, calls[c], call[c].attempt>>
<1>1. ClientType /\ ClientType' /\ \A d \in Client : Forward(d)
  BY SendSteps DEF Inside
<1>2. /\ call[c] # Idle /\ call[c].at = "send" /\ call[c].attempt \in Nat
      /\ call[c].attempt <= Retries[c] /\ calls[c] \in Nat /\ calls[c] > 0
  BY <1>1, SendMoves, CallType DEF ClientType, Send
<1>3. new \notin Spent
  BY <1>2 DEF Spent
<1>4. calls'[c] = calls[c] /\ call'[c].attempt = call[c].attempt /\ call'[c].at = "wait"
  BY <1>1, SendMoves DEF Send
<1>5. new \in Spent'
  <2>1. new \in {c} \X (1 .. calls'[c]) \X (0 .. Retries[c])
    BY <1>2, <1>4, RetriesType
  <2> QED BY <2>1, <1>4 DEF Spent, Attempts
<1> HIDE DEF new
<1>6. Spent \cup {new} \subseteq Spent'
  BY <1>1, <1>5, SpentStaysSpent
<1>7. IsFiniteSet(Spent) /\ Cardinality(Spent) \in Nat
  BY <1>1, SpentFinite
<1>8. IsFiniteSet(Spent') /\ Cardinality(Spent') \in Nat
  <2>1. ClientType' => IsFiniteSet(Spent)' /\ (Cardinality(Spent) \in Nat)'
    BY SpentFinite, PTL
  <2> QED BY <1>1, <2>1
<1>9. Cardinality(Spent \cup {new}) = Cardinality(Spent) + 1
  BY <1>3, <1>7, FS_AddElement
<1>10. Cardinality(Spent) + 1 <= Cardinality(Spent')
  BY <1>6, <1>8, <1>9, FS_Subset
<1>11. /\ adjudications' = adjudications /\ Len(backlog') = Len(backlog) + 1
       /\ adjudications \in Nat /\ Len(backlog) \in Nat
  BY <1>1, SendMoves DEF ClientType, Send, core
<1> QED
  BY <1>1, <1>7, <1>8, <1>10, <1>11 DEF Inside, SpentBounds

LEMMA StepStaysInside == Inside /\ [Next]_vars => Inside'
<1> SUFFICES ASSUME Inside, [Next]_vars PROVE Inside'
  OBVIOUS
<1> USE DEF Inside
<1>0. adjudications \in Nat /\ Len(backlog) \in Nat
  BY DEF ClientType
<1>1. ASSUME NEW c \in Client, Send(c) PROVE Inside'
  BY <1>1, SendIsSpent
<1>2. ASSUME NEW c \in Client, Unreachable(c) \/ Fails(c) \/ Cancel(c) \/ Receive(c)
      PROVE  Inside'
  BY <1>0, <1>2, CallSteps, QuietSteps
<1>3. ASSUME NEW c \in Client, NEW p \in Payload, Guard(c, p) PROVE Inside'
  BY <1>0, <1>3, GuardSteps, QuietSteps
<1>4. CASE Serve
  BY <1>4, ServeSteps, QuietSteps
<1>5. CASE Restart
  BY <1>0, <1>5, RestartSteps, QuietSteps
<1>6. CASE UNCHANGED vars
  <2>1. ClientType'
    BY <1>6 DEF vars, core, ClientType
  <2>2. \A d \in Client : Forward(d)
    BY <1>6 DEF vars, Forward, StaysPut
  <2>3. adjudications' + Len(backlog') <= adjudications + Len(backlog)
    BY <1>0, <1>6 DEF vars, core
  <2> QED BY <2>1, <2>2, <2>3, QuietSteps
<1> QED
  BY <1>1, <1>2, <1>3, <1>4, <1>5, <1>6 DEF Next, ClientStep

(* However the clients time out, cancel, retry and restart the server under *)
(* each other, the server judges no attempt twice, and no more attempts than *)
(* the calls of guard allow.                                               *)
THEOREM AttemptsJudgedOnce == Spec => []RetriesAreBounded
<1>1. Inside => RetriesAreBounded
  <2> SUFFICES ASSUME Inside PROVE RetriesAreBounded
    OBVIOUS
  <2>1. Spent \subseteq Attempts
    BY DEF Spent
  <2>2. IsFiniteSet(Attempts) /\ Cardinality(Attempts) \in Nat
    BY AttemptsFinite, FS_CardinalityType DEF Inside
  <2>3. Cardinality(Spent) <= Cardinality(Attempts) /\ Cardinality(Spent) \in Nat
    BY <2>1, <2>2, SpentFinite, FS_Subset DEF Inside
  <2> QED BY <2>2, <2>3 DEF Inside, SpentBounds, ClientType, RetriesAreBounded
<1> QED
  BY <1>1, InitIsInside, StepStaysInside, PTL DEF Spec

----------------------------------------------------------------------------
(* What the client tells of its calls.                                     *)

LEMMA NextQuotient ==
  ASSUME NEW n \in Nat, NEW e \in Nat \ {0}
  PROVE  (n + 1) \div e = n \div e + (IF (n + 1) % e = 0 THEN 1 ELSE 0)
OBVIOUS

(* What stats() and the outcomes of one client have in common. *)
Told(c) ==
  /\ stats[c].adjudications
       = outcomes[c].refused + outcomes[c].forwarded + outcomes[c].raised + Interrupted(c)
  /\ stats[c].blocked <= outcomes[c].refused + outcomes[c].raised + Interrupted(c)
  /\ outcomes[c].raised <= stats[c].blocked
  /\ c \in Python => outcomes[c].refused + outcomes[c].raised <= stats[c].blocked

(* A call that fails before it was counted changes neither side. *)
LEMMA UntouchedIsTold ==
  ASSUME NEW c, Told(c), stats'[c] = stats[c],
         outcomes'[c].refused = outcomes[c].refused,
         outcomes'[c].raised = outcomes[c].raised,
         outcomes'[c].forwarded = outcomes[c].forwarded
  PROVE  Told(c)'
BY DEF Told, Interrupted

LEMMA FailedTouchesNothing ==
  ASSUME ClientType, NEW c \in Client,
         outcomes' = outcomes \/ outcomes' = [outcomes EXCEPT ![c].failed = @ + 1]
  PROVE  \A d \in Client : /\ outcomes'[d].refused = outcomes[d].refused
                           /\ outcomes'[d].raised = outcomes[d].raised
                           /\ outcomes'[d].forwarded = outcomes[d].forwarded
<1> TAKE d \in Client
<1>1. outcomes[d] \in [forwarded : Nat, refused : Nat, raised : Nat, failed : Nat]
  BY DEF ClientType
<1>2. outcomes'[d] = outcomes[d] \/ outcomes'[d] = [outcomes[d] EXCEPT !.failed = @ + 1]
  BY DEF ClientType
<1> QED
  BY <1>1, <1>2

(* An adjudication that is counted is one outcome, or one interruption.    *)
LEMMA InterruptedStep ==
  ASSUME ClientType, NEW c \in Client, stats'[c].adjudications = stats[c].adjudications + 1
  PROVE  Interrupted(c)' = Interrupted(c) + (IF Evolves(c) THEN 1 ELSE 0)
         /\ Interrupted(c) \in Nat
<1>1. stats[c].adjudications \in Nat
  BY DEF ClientType
<1>2. CASE EvolveEvery[c] = 0
  BY <1>2 DEF Interrupted, Evolves
<1>3. CASE EvolveEvery[c] \in Nat \ {0}
  <2>1. stats[c].adjudications \div EvolveEvery[c] \in Nat
    BY <1>1, <1>3
  <2>2. (stats[c].adjudications + 1) \div EvolveEvery[c]
          = stats[c].adjudications \div EvolveEvery[c]
              + (IF (stats[c].adjudications + 1) % EvolveEvery[c] = 0 THEN 1 ELSE 0)
    BY <1>1, <1>3, NextQuotient
  <2>3. EvolveEvery[c] # 0 /\ EvolveEvery[c] > 0
    BY <1>3
  <2>4. Interrupted(c) = stats[c].adjudications \div EvolveEvery[c]
    BY <2>3 DEF Interrupted
  <2>5. Interrupted(c)' = (stats[c].adjudications + 1) \div EvolveEvery[c]
    BY <2>3 DEF Interrupted
  <2>6. Evolves(c) <=> (stats[c].adjudications + 1) % EvolveEvery[c] = 0
    BY <2>3 DEF Evolves
  <2> QED BY <2>1, <2>2, <2>4, <2>5, <2>6
<1> QED
  BY <1>2, <1>3, RetriesType

LEMMA ReceiveIsTold ==
  ASSUME ClientType, NEW c \in Client, Receive(c), Told(c)
  PROVE  Told(c)'
<1>1. PICK b \in {0, 1}, s \in {0, 1}, kind \in {"forwarded", "refused", "raised", "failed"} :
        /\ stats'[c].adjudications = stats[c].adjudications + 1
        /\ stats'[c].blocked = stats[c].blocked + b
        /\ outcomes' = [outcomes EXCEPT ![c][kind] = @ + 1]
        /\ kind = "failed" <=> Evolves(c)
        /\ kind = "forwarded" => b = 0
        /\ kind = "refused" /\ c \in Python => b = 1
        /\ kind = "raised" => b = 1
  BY ReceiveCounts
<1>2. /\ stats[c].adjudications \in Nat /\ stats[c].blocked \in Nat
      /\ outcomes[c].refused \in Nat /\ outcomes[c].raised \in Nat
      /\ outcomes[c].forwarded \in Nat
  BY DEF ClientType
<1>3. /\ outcomes'[c].refused = outcomes[c].refused + (IF kind = "refused" THEN 1 ELSE 0)
      /\ outcomes'[c].raised = outcomes[c].raised + (IF kind = "raised" THEN 1 ELSE 0)
      /\ outcomes'[c].forwarded = outcomes[c].forwarded + (IF kind = "forwarded" THEN 1 ELSE 0)
  BY <1>1 DEF ClientType
<1>4. /\ Interrupted(c)' = Interrupted(c) + (IF kind = "failed" THEN 1 ELSE 0)
      /\ Interrupted(c) \in Nat
  BY <1>1, InterruptedStep
<1> QED
  BY <1>1, <1>2, <1>3, <1>4 DEF Told

LEMMA StepIsTold ==
  ASSUME ClientType, \A c \in Client : Told(c), [Next]_vars
  PROVE  \A c \in Client : Told(c)'
<1>1. CASE UNCHANGED <<stats, outcomes>>
  BY <1>1, UntouchedIsTold
<1>2. ASSUME NEW c \in Client, Unreachable(c) \/ Fails(c) \/ Cancel(c)
      PROVE  \A d \in Client : Told(d)'
  <2>1. call[c] # Idle /\ UNCHANGED stats
    BY <1>2, CallType DEF Unreachable, Fails, Cancel, Idle
  <2>2. outcomes' = outcomes \/ outcomes' = [outcomes EXCEPT ![c].failed = @ + 1]
    BY <1>2, <2>1, TryAgainMoves DEF Unreachable, Fails, Cancel, End
  <2> QED BY <2>1, <2>2, FailedTouchesNothing, UntouchedIsTold
<1>3. ASSUME NEW c \in Client, Receive(c) PROVE \A d \in Client : Told(d)'
  <2>1. \A d \in Client \ {c} : stats'[d] = stats[d] /\ outcomes'[d] = outcomes[d]
    BY <1>3, ReceiveCounts DEF ClientType
  <2> QED BY <1>3, <2>1, ReceiveIsTold, UntouchedIsTold
<1> QED
  BY <1>1, <1>2, <1>3
     DEF Next, ClientStep, Guard, Send, Serve, Restart, vars

(* stats() never tells another story than guard lived through: every       *)
(* adjudication counted was forwarded, refused, raised as an error or      *)
(* interrupted by auto_evolve, and Python's blocked are exactly what it    *)
(* refused or raised, give or take the interrupted.                        *)
THEOREM StatsAreTrue == Spec => []StatsTellOutcomes
<1>1. Init => \A c \in Client : Told(c)
  <2> SUFFICES ASSUME Init, NEW c \in Client PROVE Told(c)
    OBVIOUS
  <2>1. /\ stats[c] = [adjudications |-> 0, blocked |-> 0, sanitized |-> 0]
        /\ outcomes[c] = [forwarded |-> 0, refused |-> 0, raised |-> 0, failed |-> 0]
    BY DEF Init
  <2>2. Interrupted(c) = 0
    BY <2>1, RetriesType DEF Interrupted
  <2> QED BY <2>1, <2>2 DEF Told
<1>2. Inside /\ (\A c \in Client : Told(c)) /\ [Next]_vars => (\A c \in Client : Told(c))'
  BY StepIsTold DEF Inside
<1>3. (\A c \in Client : Told(c)) => StatsTellOutcomes
  BY DEF Told, StatsTellOutcomes
<1> QED
  BY <1>1, <1>2, <1>3, InitIsInside, StepStaysInside, PTL DEF Spec
=============================================================================
