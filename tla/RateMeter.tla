----------------------------- MODULE RateMeter -----------------------------
(***************************************************************************)
(* What the token bucket of NeuroStressBuffer promises, measured from the  *)
(* outside: a meter, started at any moment of the buffer's life, counts    *)
(* the permits granted and the ticks passed since.                         *)
(***************************************************************************)
EXTENDS NeuroStressBuffer

CONSTANT MaxTicks   \* bound on the ticks the meter counts

ASSUME MeterAssumption == MaxTicks \in Nat

VARIABLES
  metering,  \* history: the meter has been started
  granted,   \* history: permits since
  now        \* history: ticks since, those that find a full bucket included

meter == <<metering, granted, now>>

MeterTypeOK ==
  /\ BufferTypeOK
  /\ metering \in BOOLEAN
  /\ granted \in Nat
  /\ now \in Nat

StartMeter ==
  /\ ~metering
  /\ metering' = TRUE
  /\ granted' = 0
  /\ now' = 0
  /\ UNCHANGED buffer

(* The meter is read and put away after MaxTicks. *)
MeteredTick ==
  /\ Tick
  /\ \/ metering /\ now < MaxTicks /\ now' = now + 1 /\ UNCHANGED <<metering, granted>>
     \/ metering /\ now >= MaxTicks /\ metering' = FALSE /\ granted' = 0 /\ now' = 0
     \/ ~metering /\ UNCHANGED meter

MeteredPermit ==
  /\ Permit
  /\ granted' = IF metering THEN granted + 1 ELSE granted
  /\ UNCHANGED <<metering, now>>

MeteredRefuse == Refuse /\ UNCHANGED meter
MeteredRecord == Record /\ UNCHANGED meter

MeterInit == BufferInit /\ metering = FALSE /\ granted = 0 /\ now = 0

MeterNext == StartMeter \/ MeteredTick \/ MeteredPermit \/ MeteredRefuse \/ MeteredRecord

MeterSpec == MeterInit /\ [][MeterNext]_<<buffer, meter>>

(* The fairness of the buffer, step by step the same. *)
FairMeterSpec ==
  /\ MeterSpec
  /\ WF_<<buffer, meter>>(MeteredTick)
  /\ WF_<<buffer, meter>>(MeteredRecord)
  /\ WF_<<buffer, meter>>(MeteredPermit \/ MeteredRefuse)

----------------------------------------------------------------------------
(* Properties. *)

(* In any interval, wherever it begins, no more adjudications are          *)
(* permitted than a full bucket and what the rate adds in that time.       *)
RateHolds == metering => granted * Cost <= Capacity + Rate * now

(* Why: what was spent and what the bucket could answer with now.          *)
Budget == metering => granted * Cost + Refilled <= Capacity + Rate * now
=============================================================================
