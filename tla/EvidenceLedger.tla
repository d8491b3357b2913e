--------------------------- MODULE EvidenceLedger ---------------------------
(***************************************************************************)
(* SecureEvidenceLedger of mythos_runtime/assurance.py and the calls of    *)
(* MythosVeriflowRuntime (veriflow_runtime.py) that append to it.          *)
(*                                                                         *)
(* Writers are processes, each with a ledger object of its own, on one     *)
(* file.  A writer takes the time, then the lock file, loads, drops what   *)
(* the retention limits no longer admit, appends, replaces the file and    *)
(* removes the lock file; it can fail or die at every one of these steps.  *)
(* A lock file left by a dead writer stays until an operator removes it.   *)
(*                                                                         *)
(* Hashes are as good as unique: the id of an event stands for its hash.   *)
(* The seals and signatures, and the fields only they look at, are left    *)
(* out: nobody here has the file edited, only removed.                     *)
(***************************************************************************)
EXTENDS Integers, Sequences

CONSTANTS
  Writer,      \* processes that append
  Token,       \* execution grants presented to authorize
  Absent,      \* no file
  NoOne,       \* the lock file does not exist
  Stale,       \* it was left by a writer that died
  MaxEvents,   \* RetentionPolicy.max_events
  MaxAge,      \* RetentionPolicy.max_age_seconds, in ticks
  MaxTtl,      \* max_ttl_seconds of the grant verifier, in ticks
  MaxClock,    \* bound on the clock
  MaxMinted,   \* no append is called after that many events
  MaxRemovals  \* bound on the removals of the file from outside

Genesis == 0

Event == [id : Nat, prev : Nat, at : Nat]
Ledger == [anchor : Nat, events : Seq(Event)]

ASSUME EvidenceAssumption ==
  /\ MaxEvents \in Nat \ {0}
  /\ MaxAge \in Nat /\ MaxClock \in Nat /\ MaxMinted \in Nat /\ MaxRemovals \in Nat
  /\ MaxTtl \in Nat
  /\ Absent \notin Ledger
  /\ NoOne \notin Writer /\ Stale \notin Writer /\ NoOne # Stale
  /\ Token \subseteq [authentic : BOOLEAN, inScope : BOOLEAN, issued : Nat, expires : Nat]

VARIABLES
  clock,
  file,      \* the ledger on file
  lock,      \* the writer whose lock file exists
  observed,  \* _observed_ledger of each writer
  pc,        \* where each writer is
  current,   \* the time each took for its event
  allows,    \* the event of each is the evidence of a grant it will return
  payload,   \* what each loaded
  minted,    \* events ever written
  removals   \* removals of the file from outside

locals == <<observed, pc, current, allows, payload>>
vars == <<clock, file, lock, locals, minted, removals>>

Place == {"idle", "waiting", "locked", "loaded", "replaced", "granted", "dead"}

TypeOK ==
  /\ clock \in 0 .. MaxClock
  /\ file \in Ledger \cup {Absent}
  /\ lock \in Writer \cup {NoOne, Stale}
  /\ observed \in [Writer -> BOOLEAN]
  /\ pc \in [Writer -> Place]
  /\ current \in [Writer -> Nat]
  /\ allows \in [Writer -> BOOLEAN]
  /\ payload \in [Writer -> Ledger]
  /\ minted \in Nat
  /\ removals \in 0 .. MaxRemovals

----------------------------------------------------------------------------
Fresh == [anchor |-> Genesis, events |-> << >>]

HeadHash(ledger) ==
  IF ledger.events = << >> THEN ledger.anchor ELSE ledger.events[Len(ledger.events)].id

(* The ledger without its first n events. *)
Without(ledger, n) ==
  IF n = 0 THEN ledger
  ELSE [anchor |-> ledger.events[n].id, events |-> SubSeq(ledger.events, n + 1, Len(ledger.events))]

Aged(event, t) == event.at + MaxAge < t

(* The first n events are too old, and the next is not: the loop stops     *)
(* there, whatever comes after it.                                         *)
AgedUpTo(ledger, t, n) ==
  /\ \A i \in 1 .. n : Aged(ledger.events[i], t)
  /\ n < Len(ledger.events) => ~Aged(ledger.events[n + 1], t)

(* How many are too many for one more to enter. *)
TooMany(ledger) ==
  IF Len(ledger.events) >= MaxEvents THEN Len(ledger.events) - MaxEvents + 1 ELSE 0

(* A retention by count that forgets to move the anchor. *)
MutantRetained(ledger, old) ==
  LET young == Without(ledger, old)
  IN  [Without(young, TooMany(young)) EXCEPT !.anchor = young.anchor]

(* What the retention limits leave, by age and then by count. *)
Retained(ledger, old) ==
  LET young == Without(ledger, old)
  IN  Without(young, TooMany(young))

(* And the ledger that is written. *)
Extended(kept, t) ==
  [kept EXCEPT !.events = Append(@, [id |-> minted + 1, prev |-> HeadHash(kept), at |-> t])]

(* ExecutionGrantVerifier.verify. *)
Verified(token, t) ==
  /\ token.authentic
  /\ token.expires > token.issued
  /\ token.expires - token.issued <= MaxTtl
  /\ token.issued <= t /\ t < token.expires
  /\ token.inScope

----------------------------------------------------------------------------
Init ==
  /\ clock = 0
  /\ file = Absent
  /\ lock = NoOne
  /\ observed = [w \in Writer |-> FALSE]
  /\ pc = [w \in Writer |-> "idle"]
  /\ current = [w \in Writer |-> 0]
  /\ allows = [w \in Writer |-> FALSE]
  /\ payload = [w \in Writer |-> Fresh]
  /\ minted = 0
  /\ removals = 0

Tick ==
  /\ clock < MaxClock
  /\ clock' = clock + 1
  /\ UNCHANGED <<file, lock, locals, minted, removals>>

(* append is called: the time is taken before the lock. *)
Call(w, allowing) ==
  /\ pc[w] \in {"idle", "granted"}
  /\ minted < MaxMinted
  /\ pc' = [pc EXCEPT ![w] = "waiting"]
  /\ current' = [current EXCEPT ![w] = clock]
  /\ allows' = [allows EXCEPT ![w] = allowing]
  /\ UNCHANGED <<clock, file, lock, observed, payload, minted, removals>>

(* authorize: evidence of the decision is appended before it is returned.  *)
Authorize(w) == \E token \in Token : Call(w, Verified(token, clock))

(* record: the evidence of anything else. *)
RecordEvidence(w) == Call(w, FALSE)

(* A lock that is tested for before it is made. *)
MutantAcquire(w) ==
  /\ pc[w] = "waiting"
  /\ lock = NoOne \/ \E v \in Writer : pc[v] = "locked"
  /\ lock' = w
  /\ pc' = [pc EXCEPT ![w] = "locked"]
  /\ UNCHANGED <<clock, file, observed, current, allows, payload, minted, removals>>

(* exclusive_file_lock, the lock file made. *)
Acquire(w) ==
  /\ pc[w] = "waiting"
  /\ lock = NoOne
  /\ lock' = w
  /\ pc' = [pc EXCEPT ![w] = "locked"]
  /\ UNCHANGED <<clock, file, observed, current, allows, payload, minted, removals>>

(* A wait without a deadline. *)
MutantTimeOut(w) == FALSE /\ UNCHANGED vars

(* exclusive_file_lock, the deadline passed: StateIntegrityError. *)
TimeOut(w) ==
  /\ pc[w] = "waiting"
  /\ lock # NoOne
  /\ pc' = [pc EXCEPT ![w] = "idle"]
  /\ UNCHANGED <<clock, file, lock, observed, current, allows, payload, minted, removals>>

(* A load that starts a new ledger whenever there is no file. *)
MutantLoad(w) ==
  /\ pc[w] = "locked"
  /\ pc' = [pc EXCEPT ![w] = "loaded"]
  /\ payload' = [payload EXCEPT ![w] = IF file = Absent THEN Fresh ELSE file]
  /\ observed' = [observed EXCEPT ![w] = @ \/ file # Absent]
  /\ UNCHANGED <<clock, file, lock, current, allows, minted, removals>>

(* _load: a ledger that was seen and is gone is an error (see Fail). *)
Load(w) ==
  /\ pc[w] = "locked"
  /\ file = Absent => ~observed[w]
  /\ pc' = [pc EXCEPT ![w] = "loaded"]
  /\ payload' = [payload EXCEPT ![w] = IF file = Absent THEN Fresh ELSE file]
  /\ observed' = [observed EXCEPT ![w] = @ \/ file # Absent]
  /\ UNCHANGED <<clock, file, lock, current, allows, minted, removals>>

(* _write: the file is replaced as a whole. *)
Replace(w) ==
  /\ pc[w] = "loaded"
  /\ \E old \in 0 .. Len(payload[w].events) :
       /\ AgedUpTo(payload[w], current[w], old)
       /\ file' = Extended(Retained(payload[w], old), current[w])
  /\ minted' = minted + 1
  /\ pc' = [pc EXCEPT ![w] = "replaced"]
  /\ UNCHANGED <<clock, lock, observed, current, allows, payload, removals>>

(* append returns, and authorize returns the grant or raises its denial. *)
Finish(w) ==
  /\ pc[w] = "replaced"
  /\ lock' = NoOne
  /\ observed' = [observed EXCEPT ![w] = TRUE]
  /\ pc' = [pc EXCEPT ![w] = IF allows[w] THEN "granted" ELSE "idle"]
  /\ UNCHANGED <<clock, file, current, allows, payload, minted, removals>>

(* append raises under the lock: the ledger disappeared, it cannot be read *)
(* or written or is too large, or its mode cannot be set once it is there. *)
Fail(w) ==
  /\ pc[w] \in {"locked", "loaded", "replaced"}
  /\ lock' = NoOne
  /\ pc' = [pc EXCEPT ![w] = "idle"]
  /\ UNCHANGED <<clock, file, observed, current, allows, payload, minted, removals>>

(* events and verify, by a reader that takes no lock. *)
Read(w) ==
  /\ pc[w] = "idle"
  /\ file # Absent
  /\ observed' = [observed EXCEPT ![w] = TRUE]
  /\ UNCHANGED <<clock, file, lock, pc, current, allows, payload, minted, removals>>

Crash(w) ==
  /\ pc[w] # "dead"
  /\ pc' = [pc EXCEPT ![w] = "dead"]
  /\ lock' = IF pc[w] \in {"locked", "loaded", "replaced"} THEN Stale ELSE lock
  /\ UNCHANGED <<clock, file, observed, current, allows, payload, minted, removals>>

(* The process is started again, with a ledger object of its own. *)
Start(w) ==
  /\ pc[w] = "dead"
  /\ pc' = [pc EXCEPT ![w] = "idle"]
  /\ observed' = [observed EXCEPT ![w] = file # Absent]
  /\ UNCHANGED <<clock, file, lock, current, allows, payload, minted, removals>>

(* The operator removes a lock file whose writer is dead. *)
CleanLock ==
  /\ lock = Stale
  /\ lock' = NoOne
  /\ UNCHANGED <<clock, file, locals, minted, removals>>

(* From outside, the file is removed. *)
Remove ==
  /\ removals < MaxRemovals
  /\ file # Absent
  /\ file' = Absent
  /\ removals' = removals + 1
  /\ UNCHANGED <<clock, lock, locals, minted>>

Proceed(w) == Acquire(w) \/ TimeOut(w) \/ Load(w) \/ Replace(w) \/ Finish(w) \/ Fail(w)

Next ==
  \/ Tick \/ CleanLock \/ Remove
  \/ \E w \in Writer :
       Authorize(w) \/ RecordEvidence(w) \/ Proceed(w) \/ Read(w) \/ Crash(w) \/ Start(w)

Spec == Init /\ [][Next]_vars

(* A writer that is inside append goes on: the wait for the lock has a     *)
(* deadline and the rest of it is local work.                              *)
FairSpec == Spec /\ \A w \in Writer : WF_vars(Proceed(w))

----------------------------------------------------------------------------
(* Properties. *)

Chained(ledger) ==
  \A i \in 1 .. Len(ledger.events) :
    ledger.events[i].prev = IF i = 1 THEN ledger.anchor ELSE ledger.events[i - 1].id

(* Whoever loads the file, at any moment and without the lock, finds one   *)
(* that _verify_payload accepts, within the limit on the events.           *)
LedgerVerifies ==
  file # Absent => Chained(file) /\ Len(file.events) \in 1 .. MaxEvents

(* The ledger, where it is: on file or, if that was removed while a writer *)
(* had it loaded, in the hands of that writer.                             *)
Kept ==
  IF file # Absent THEN file
  ELSE IF \E w \in Writer : pc[w] = "loaded"
       THEN payload[CHOOSE w \in Writer : pc[w] = "loaded"]
       ELSE Fresh

(* With several writers, failures, deaths at any step and stale locks: no  *)
(* event that was appended is lost but those the retention limits drop     *)
(* from the front, and the anchor always names the last of these.          *)
Log == INSTANCE EventLog WITH anchor <- Kept.anchor, log <- Kept.events

KeptIsRetainedLog == Log!RetainedSpec

Gone == file = Absent /\ \A w \in Writer : observed[w] /\ pc[w] # "loaded"

NoneStarted == \A w \in Writer : pc[w] = "dead" => pc'[w] = "dead"

StaysGone == Gone /\ NoneStarted => Gone'

(* A ledger that disappeared is not started over by a process that has     *)
(* seen it: it comes back only after one was started again.                *)
GoneStaysGone == [][StaysGone]_vars

(* A call of append that waits for the lock ends: with its event on file,  *)
(* with an error, or with the process.                                     *)
AppendEnds ==
  \A w \in Writer : pc[w] = "waiting" ~> pc[w] \in {"idle", "granted", "dead"}
=============================================================================
