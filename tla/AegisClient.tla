----------------------------- MODULE AegisClient -----------------------------
(***************************************************************************)
(* The HTTP transport of the client SDKs (sdk/python/ethos_aegis_sdk/      *)
(* client.py and sdk/go/aegis/client.go), the REST server that they call   *)
(* (python/server.py) and the one nourished immune core behind it.         *)
(*                                                                         *)
(* The server handles one connection at a time, in the order they come.    *)
(* A client that gives up closes its connection; the server does not       *)
(* notice, and judges the request when its turn comes.  The core remembers *)
(* and is heightened by what it judges, so a request that is sent again is *)
(* not the same request.                                                   *)
(*                                                                         *)
(* A client here is one thread that guards one message after the other.    *)
(***************************************************************************)
EXTENDS Integers, Sequences, FiniteSets

CONSTANTS
  Client,
  Python,           \* the clients that are Python's; the others are Go's
  Raising,          \* those with raise_on_condemned, or ThrowOnCondemned
  Retries,          \* how often each tries again: 0 in Python, MaxRetries in Go
  EvolveEvery,      \* evolve_every_n of a Python client with auto_evolve, else 0
  Payload, Fragment, Long, Scan,
  Pack,             \* what the protein and B12 packs find in a payload
  Dirty,            \* the payloads that purify changes
  Blank,            \* the payloads that the server does not take: empty ones
  MarkupNote, FloodNote, ForgeNote,
  Nobody, None,
  MaxAdjudications, MaxRestarts,   \* bounds
  MaxCalls                         \* and one for each client

VARIABLES
  acuity, vault, engrams, adjudications, condemnations, quarantines, flagged,
  backlog,    \* the connections the server has not handled yet
  call,       \* what each client is doing
  reply,      \* the answer on each client's open connection
  stats,      \* _adjudications, _blocked, _sanitized of each client
  calls,      \* how often each client has called guard
  outcomes,   \* history: how those calls ended
  restarts

core == <<acuity, vault, engrams, adjudications, condemnations, quarantines, flagged>>
vars == <<core, backlog, call, reply, stats, calls, outcomes, restarts>>

Core == INSTANCE EthosAegis

ASSUME ClientAssumption ==
  /\ IsFiniteSet(Client) /\ Python \subseteq Client /\ Raising \subseteq Client
  /\ Retries \in [Client -> Nat] /\ \A c \in Python : Retries[c] = 0
  /\ EvolveEvery \in [Client -> Nat] /\ \A c \in Client \ Python : EvolveEvery[c] = 0
  /\ Pack \in [Payload -> [protein : SUBSET Nat, b12 : SUBSET Nat]]
  /\ Dirty \subseteq Payload /\ Blank \subseteq Payload
  /\ Nobody \notin Client
  /\ MaxCalls \in [Client -> Nat] /\ MaxRestarts \in Nat

----------------------------------------------------------------------------
(* The server. *)

(* The findings that nourish adds to those of the cells, all CAUTION. *)
Enriched(p) ==
  \/ \E w \in Pack[p].protein : Core!Least(88, 70 + 4 * w) >= acuity["vanguard_probe"]
  \/ \E h \in Pack[p].b12 : Core!Least(92, 58 + 14 * h) >= acuity["logos_scythe"]

(* The body of a 200.  It says that the text was purified, and does not    *)
(* hold the purified text.                                                 *)
Answer(p) ==
  [success    |-> TRUE,
   sanctified |-> Core!IsSanctified(p) /\ ~Enriched(p),
   condemned  |-> Core!IsCondemned(p),
   sanitized  |-> p \in Dirty]

(* Any status but 2xx. *)
Failure == [success |-> FALSE]

(* A connection waits for an answer until its client closes it. *)
Connection(c, p) == [client |-> c, payload |-> p]

----------------------------------------------------------------------------
Idle == [at |-> "idle"]

Init ==
  /\ Core!Init
  /\ backlog = << >>
  /\ call = [c \in Client |-> Idle]
  /\ reply = [c \in Client |-> None]
  /\ stats = [c \in Client |-> [adjudications |-> 0, blocked |-> 0, sanitized |-> 0]]
  /\ calls = [c \in Client |-> 0]
  /\ outcomes = [c \in Client |-> [forwarded |-> 0, refused |-> 0, raised |-> 0, failed |-> 0]]
  /\ restarts = 0

(* guard begins. *)
Guard(c, p) ==
  /\ call[c] = Idle /\ calls[c] < MaxCalls[c]
  /\ call' = [call EXCEPT ![c] = [at |-> "send", payload |-> p, attempt |-> 0]]
  /\ calls' = [calls EXCEPT ![c] = @ + 1]
  /\ UNCHANGED <<core, backlog, reply, stats, outcomes, restarts>>

Send(c) ==
  /\ call[c].at = "send"
  /\ backlog' = Append(backlog, Connection(c, call[c].payload))
  /\ call' = [call EXCEPT ![c].at = "wait"]
  /\ UNCHANGED <<core, reply, stats, calls, outcomes, restarts>>

(* The connections of c are closed at its end. *)
Close(c) ==
  backlog' = [i \in DOMAIN backlog |->
                IF backlog[i].client = c THEN [backlog[i] EXCEPT !.client = Nobody]
                ELSE backlog[i]]

(* do_POST on the connection at the head of the backlog: a blank payload   *)
(* is refused, any other judged, whether or not the client still waits.    *)
Serve ==
  LET request == Head(backlog)
      p == request.payload
  IN  /\ backlog # << >>
      /\ backlog' = Tail(backlog)
      /\ IF p \in Blank THEN UNCHANGED core ELSE Core!Adjudicate(p)
      /\ reply' = [c \in Client |->
                     IF c = request.client
                     THEN [payload |-> p, body |-> IF p \in Blank THEN Failure ELSE Answer(p)]
                     ELSE reply[c]]
      /\ UNCHANGED <<call, stats, calls, outcomes, restarts>>

(* A process that dies takes its connections and all it learned along.     *)
Restart ==
  /\ restarts < MaxRestarts
  /\ restarts' = restarts + 1
  /\ acuity' = [cell \in Core!Cell |-> Core!Baseline[cell]]
  /\ vault' = {}
  /\ engrams' = [e \in Core!Engram |-> 0]
  /\ adjudications' = 0 /\ condemnations' = 0 /\ quarantines' = 0
  /\ flagged' = {}
  /\ backlog' = << >>
  /\ UNCHANGED <<call, reply, stats, calls, outcomes>>

----------------------------------------------------------------------------
(* The client. *)

(* The call ends, in one of four ways.  Forwarded, it goes on to the       *)
(* model, whatever becomes of it there.                                    *)
End(c, outcome) ==
  /\ call' = [call EXCEPT ![c] = Idle]
  /\ outcomes' = [outcomes EXCEPT ![c][outcome] = @ + 1]

(* A loop with one attempt too many. *)
MutantTryAgain(c) ==
  \/ /\ call[c].attempt <= Retries[c]
     /\ call' = [call EXCEPT ![c].at = "send", ![c].attempt = @ + 1]
     /\ UNCHANGED outcomes
  \/ /\ call[c].attempt > Retries[c]
     /\ End(c, "failed")

(* httpAdjudicate goes round its loop, or returns the error.  In Python    *)
(* there is no loop.                                                       *)
TryAgain(c) ==
  \/ /\ call[c].attempt < Retries[c]
     /\ call' = [call EXCEPT ![c].at = "send", ![c].attempt = @ + 1]
     /\ UNCHANGED outcomes
  \/ /\ call[c].attempt = Retries[c]
     /\ End(c, "failed")

(* No connection could be made; nothing reaches the server. *)
Unreachable(c) ==
  /\ call[c].at = "send"
  /\ TryAgain(c)
  /\ UNCHANGED <<core, backlog, reply, stats, calls, restarts>>

(* An attempt without a timeout. *)
MutantFailsNoTimeout(c) ==
  /\ call[c].at = "wait" /\ reply[c] # None
  /\ Close(c)
  /\ reply' = [reply EXCEPT ![c] = None]
  /\ TryAgain(c)
  /\ UNCHANGED <<core, stats, calls, restarts>>

(* The attempt fails: it timed out, its connection broke, or the answer    *)
(* has a status that is no success.                                        *)
Fails(c) ==
  /\ call[c].at = "wait"
  /\ Close(c)
  /\ reply' = [reply EXCEPT ![c] = None]
  /\ TryAgain(c)
  /\ UNCHANGED <<core, stats, calls, restarts>>

(* The context of a Go call is cancelled. *)
Cancel(c) ==
  /\ c \notin Python /\ call[c] # Idle
  /\ Close(c)
  /\ reply' = [reply EXCEPT ![c] = None]
  /\ End(c, "failed")
  /\ UNCHANGED <<core, stats, calls, restarts>>

(* _cleared, and Verdict.Safe: without a purified text a sanitized one is  *)
(* of no use.                                                              *)
Cleared(v) == v.sanctified /\ ~v.condemned /\ ~v.sanitized

(* A count of the condemned alone. *)
MutantBlocked(c, v) == v.condemned

(* What each language counts as blocked and as sanitized. *)
Blocked(c, v) == IF c \in Python THEN ~Cleared(v) ELSE v.condemned
Sanitized(c, v) == c \notin Python /\ v.sanitized

(* adjudicate counts first; then auto_evolve, which has no engine over     *)
(* HTTP, may raise.                                                        *)
Evolves(c) == EvolveEvery[c] > 0 /\ (stats[c].adjudications + 1) % EvolveEvery[c] = 0

(* What comes of the call once its verdict was counted: auto_evolve raises *)
(* first; then a client that was told to, if the message is condemned.     *)
Outcome(c, v) ==
  IF Evolves(c) THEN "failed"
  ELSE IF c \in Raising /\ v.condemned THEN "raised"
  ELSE IF Cleared(v) THEN "forwarded" ELSE "refused"

(* The verdict arrives: it is counted, and guard acts on it. *)
Receive(c) ==
  LET v == reply[c].body
      one(condition) == IF condition THEN 1 ELSE 0
  IN  /\ call[c].at = "wait" /\ reply[c] # None /\ v.success
      /\ stats' = [stats EXCEPT ![c] =
                     [adjudications |-> @.adjudications + 1,
                      blocked       |-> @.blocked + one(Blocked(c, v)),
                      sanitized     |-> @.sanitized + one(Sanitized(c, v))]]
      /\ End(c, Outcome(c, v))
      /\ reply' = [reply EXCEPT ![c] = None]
      /\ UNCHANGED <<core, backlog, calls, restarts>>

ClientStep(c) == Send(c) \/ Unreachable(c) \/ Fails(c) \/ Receive(c)

Next ==
  \/ \E c \in Client : ClientStep(c) \/ Cancel(c) \/ \E p \in Payload : Guard(c, p)
  \/ Serve \/ Restart

Spec == Init /\ [][Next]_vars

(* A socket has a timeout.  Nothing is asked of the server. *)
FairSpec == Spec /\ \A c \in Client : WF_vars(ClientStep(c))

----------------------------------------------------------------------------
(* Properties. *)

(* The attempts that the calls of guard may make: 1 + Retries each. *)
Attempts == UNION {{c} \X (1 .. calls[c]) \X (0 .. Retries[c]) : c \in Client}

(* Every attempt of a guard is judged at most once: so much, and no more,  *)
(* can one message teach the core and heighten its cells, whether its      *)
(* client gave up or waited.                                               *)
RetriesAreBounded == adjudications + Len(backlog) <= Cardinality(Attempts)

(* The calls that auto_evolve made fail after they had been counted. *)
Interrupted(c) ==
  IF EvolveEvery[c] = 0 THEN 0 ELSE stats[c].adjudications \div EvolveEvery[c]

(* What stats() reports is what guard did: every adjudication it counts    *)
(* was refused, forwarded, raised as an error, or interrupted by           *)
(* evolution; none is counted for an attempt that failed.  What is raised  *)
(* was counted as blocked first.  Python counts each refusal as blocked    *)
(* too, Go the condemned only, so that its guard refuses more than it      *)
(* counts.                                                                 *)
StatsTellOutcomes ==
  \A c \in Client :
    /\ stats[c].adjudications
         = outcomes[c].refused + outcomes[c].forwarded + outcomes[c].raised + Interrupted(c)
    /\ stats[c].blocked <= outcomes[c].refused + outcomes[c].raised + Interrupted(c)
    /\ outcomes[c].raised <= stats[c].blocked
    /\ c \in Python => outcomes[c].refused + outcomes[c].raised <= stats[c].blocked

(* Every call of guard ends, even when the server never answers. *)
CallEnds == \A c \in Client : call[c] # Idle ~> call[c] = Idle
=============================================================================
