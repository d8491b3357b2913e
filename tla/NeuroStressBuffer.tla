------------------------- MODULE NeuroStressBuffer -------------------------
(***************************************************************************)
(* The stress gate in front of the pipeline,                               *)
(* python/ethos_aegis/vitality/protocol.py: a token bucket refilled from   *)
(* elapsed time, and a circuit breaker over a sliding window of verdicts.  *)
(*                                                                         *)
(* acquire and record_result are two calls with the whole adjudication, and *)
(* the recommended sleep, between them: other callers' calls, and time,    *)
(* may come in between.  The bucket is a float in the code; here its       *)
(* contents are counted in units, Cost of them to a token, so that a       *)
(* refill can be a fraction of a token.                                    *)
(***************************************************************************)
EXTENDS Integers, Sequences, FiniteSets

CONSTANTS
  Cost,        \* units in one token
  Capacity,    \* _bucket_capacity, in units
  Rate,        \* _rate_limit, in units a tick
  OpenPct,     \* _circuit_pct, in hundredths
  MinSamples,  \* verdicts the breaker waits for
  Window,      \* length of _recent_threats
  MaxInFlight  \* bound on the callers between acquire and record_result

ASSUME BufferAssumption ==
  /\ Cost \in Nat \ {0}
  /\ Capacity \in Nat /\ Capacity >= Cost
  /\ Rate \in Nat \ {0}
  /\ OpenPct \in 1 .. 100
  /\ MinSamples \in Nat \ {0}
  /\ Window \in Nat /\ Window >= MinSamples
  /\ MaxInFlight \in Nat \ {0}

VARIABLES
  tokens,       \* _bucket_tokens, in units
  elapsed,      \* ticks since _last_refill
  circuitOpen,  \* _circuit_open
  threats,      \* _recent_threats: TRUE for a verdict that did not sanctify
  inFlight      \* callers permitted, whose verdict is not recorded yet

bucket == <<tokens, elapsed>>
breaker == <<circuitOpen, threats>>
buffer == <<tokens, elapsed, circuitOpen, threats, inFlight>>

BufferTypeOK ==
  /\ tokens \in 0 .. Capacity
  /\ elapsed \in Nat
  /\ circuitOpen \in BOOLEAN
  /\ threats \in Seq(BOOLEAN) /\ Len(threats) <= Window
  /\ inFlight \in 0 .. MaxInFlight

----------------------------------------------------------------------------
Lesser(a, b) == IF a <= b THEN a ELSE b

(* A refill that credits whole tokens only. *)
MutantRefilledWhole == Lesser(Capacity, tokens + Cost * ((elapsed * Rate) \div Cost))

(* A refill that forgets the ceiling. *)
MutantRefilledUncapped == tokens + elapsed * Rate

(* The bucket as _refill_bucket leaves it. *)
Refilled == Lesser(Capacity, tokens + elapsed * Rate)

(* Every acquire refills first, whatever it then answers. *)
RefillBucket(left) == tokens' = left /\ elapsed' = 0

ThreatCount(window) == Cardinality({i \in 1 .. Len(window) : window[i]})

(* The rate has reached the threshold; it has fallen under half of it. *)
Overwhelmed(window) == 100 * ThreatCount(window) >= OpenPct * Len(window)
Normalized(window) == 200 * ThreatCount(window) < OpenPct * Len(window)

(* A breaker that does not wait for enough verdicts. *)
MutantUpdateCircuitNoMinimum(window) ==
  circuitOpen' = IF Overwhelmed(window) THEN TRUE
                 ELSE circuitOpen /\ ~Normalized(window)

(* _update_circuit. *)
UpdateCircuit(window) ==
  circuitOpen' = IF Len(window) < MinSamples THEN circuitOpen
                 ELSE IF Overwhelmed(window) THEN TRUE
                 ELSE circuitOpen /\ ~Normalized(window)

(* deque(maxlen=...): the oldest verdict falls out of a full window. *)
Appended(threat) ==
  LET longer == Append(threats, threat)
  IN  IF Len(longer) <= Window THEN longer ELSE Tail(longer)

----------------------------------------------------------------------------
BufferInit ==
  /\ tokens = Capacity
  /\ elapsed = 0
  /\ circuitOpen = FALSE
  /\ threats = << >>
  /\ inFlight = 0

(* Time passes; once the bucket is sure to be full it makes no difference. *)
Tick ==
  /\ elapsed' = IF tokens + elapsed * Rate < Capacity THEN elapsed + 1 ELSE elapsed
  /\ UNCHANGED <<tokens, breaker, inFlight>>

(* A breaker that lets one caller probe while it is open. *)
MutantPermitHalfOpen ==
  /\ inFlight < MaxInFlight
  /\ ~circuitOpen \/ inFlight = 0
  /\ Refilled >= Cost
  /\ RefillBucket(Refilled - Cost)
  /\ inFlight' = inFlight + 1
  /\ UNCHANGED breaker

(* acquire, answered with permission. *)
Permit ==
  /\ inFlight < MaxInFlight
  /\ ~circuitOpen
  /\ Refilled >= Cost
  /\ RefillBucket(Refilled - Cost)
  /\ inFlight' = inFlight + 1
  /\ UNCHANGED breaker

(* acquire, answered with a refusal: the breaker is asked first. *)
Refuse ==
  /\ circuitOpen \/ Refilled < Cost
  /\ RefillBucket(Refilled)
  /\ UNCHANGED <<breaker, inFlight>>

(* record_result: the verdict enters the window, then the breaker moves. *)
RecordResult(threat) ==
  /\ inFlight > 0
  /\ inFlight' = inFlight - 1
  /\ threats' = Appended(threat)
  /\ UpdateCircuit(Appended(threat))
  /\ UNCHANGED bucket

Acquire == Permit \/ Refuse
Record == \E threat \in BOOLEAN : RecordResult(threat)

BufferNext == Tick \/ Acquire \/ Record

BufferSpec == BufferInit /\ [][BufferNext]_buffer

(* The clock runs, adjudications that were permitted return, and callers   *)
(* keep asking.                                                            *)
Fairness == WF_buffer(Tick) /\ WF_buffer(Record) /\ WF_buffer(Acquire)

FairBufferSpec == BufferSpec /\ Fairness

----------------------------------------------------------------------------
(* Properties. *)

(* The breaker and the window it was computed from, in two variables that  *)
(* one call changes, agree up to the hysteresis: open means the rate is    *)
(* not yet under half of the threshold, closed that it is under the        *)
(* threshold or that there are too few verdicts.                           *)
CircuitMatchesWindow ==
  /\ circuitOpen => Len(threats) >= MinSamples /\ ~Normalized(threats)
  /\ ~circuitOpen => Len(threats) < MinSamples \/ ~Overwhelmed(threats)

(* An open breaker lets nobody through and moves only when a verdict is    *)
(* recorded, so once the callers that were inside have left it stays open  *)
(* for the life of the object.                                             *)
BreakerLatches == [](circuitOpen /\ inFlight = 0 => []circuitOpen)

(* While the breaker is shut the bucket starves nobody: callers that keep  *)
(* asking, however often each refused call refills and resets the clock,   *)
(* are permitted again and again.                                          *)
NoStarvation == <>[]circuitOpen \/ []<><<Permit>>_buffer

=============================================================================
