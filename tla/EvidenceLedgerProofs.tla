------------------------ MODULE EvidenceLedgerProofs ------------------------
(***************************************************************************)
(* Proofs about EvidenceLedger, for any number of writers and events.      *)
(***************************************************************************)
EXTENDS EvidenceLedger, TLAPS, SequenceTheorems

USE DEF Genesis

Inside == {"locked", "loaded", "replaced"}

Sound(ledger) == Chained(ledger) /\ Len(ledger.events) <= MaxEvents

(* The lock file excludes: who is inside append holds it, and nobody else. *)
Excludes ==
  /\ \A w \in Writer : pc[w] \in Inside => lock = w
  /\ lock \in Writer => pc[lock] \in Inside

(* What a writer has loaded is what is on file, or what was removed.       *)
HoldsFile ==
  \A w \in Writer :
    pc[w] = "loaded" => Sound(payload[w]) /\ (file = Absent \/ file = payload[w])

IInv ==
  /\ TypeOK
  /\ Excludes
  /\ HoldsFile
  /\ LedgerVerifies

----------------------------------------------------------------------------
(* Ledgers without their first events.                                     *)

LEMMA LedgerFields ==
  ASSUME NEW l \in Ledger
  PROVE  l.anchor \in Nat /\ l.events \in Seq(Event)
BY DEF Ledger

LEMMA EventFields ==
  \A e \in Event : e.id \in Nat /\ e.prev \in Nat /\ e.at \in Nat
BY DEF Event

(* Dropping n events from the front leaves a ledger of the others; the     *)
(* anchor is the last one dropped.                                         *)
LEMMA WithoutIs ==
  ASSUME NEW l \in Ledger, NEW n \in 0 .. Len(l.events)
  PROVE  /\ Without(l, n) \in Ledger
         /\ Len(Without(l, n).events) = Len(l.events) - n
         /\ \A i \in 1 .. Len(l.events) - n : Without(l, n).events[i] = l.events[n + i]
         /\ Without(l, n).anchor = IF n = 0 THEN l.anchor ELSE l.events[n].id
<1>1. l.anchor \in Nat /\ l.events \in Seq(Event) /\ Len(l.events) \in Nat
  BY LedgerFields
<1>2. CASE n = 0
  BY <1>1, <1>2 DEF Without
<1>3. CASE n # 0
  <2> DEFINE tail == SubSeq(l.events, n + 1, Len(l.events))
  <2>1. /\ tail \in Seq(Event)
        /\ Len(tail) = Len(l.events) - n
        /\ \A i \in 1 .. Len(l.events) - n : tail[i] = l.events[n + i]
    <3>1. n + 1 \in Int /\ Len(l.events) \in Int /\ \A i \in n + 1 .. Len(l.events) : l.events[i] \in Event
      BY <1>1
    <3>2. /\ tail \in Seq(Event)
          /\ Len(tail) = IF n + 1 <= Len(l.events) THEN Len(l.events) - (n + 1) + 1 ELSE 0
          /\ \A i \in 1 .. Len(l.events) - (n + 1) + 1 : tail[i] = l.events[(n + 1) + i - 1]
      BY <3>1, SubSeqProperties
    <3>3. \A i \in 1 .. Len(l.events) - n :
            i \in 1 .. Len(l.events) - (n + 1) + 1 /\ (n + 1) + i - 1 = n + i
      BY <1>1
    <3>4. \A i \in 1 .. Len(l.events) - n : tail[i] = l.events[n + i]
      BY <3>2, <3>3
    <3>5. Len(tail) = Len(l.events) - n
      BY <1>1, <3>2
    <3> QED BY <3>2, <3>4, <3>5
  <2> HIDE DEF tail
  <2>2. l.events[n].id \in Nat
    BY <1>1, <1>3, EventFields
  <2>3. Without(l, n) = [anchor |-> l.events[n].id, events |-> tail]
    BY <1>3 DEF Without, tail
  <2> QED BY <1>3, <2>1, <2>2, <2>3 DEF Ledger
<1> QED BY <1>2, <1>3

LEMMA WithoutTwice ==
  ASSUME NEW l \in Ledger, NEW n \in 0 .. Len(l.events), NEW m \in 0 .. Len(l.events) - n
  PROVE  /\ Without(Without(l, n), m) \in Ledger
         /\ Len(Without(Without(l, n), m).events) = Len(l.events) - (n + m)
         /\ \A i \in 1 .. Len(l.events) - (n + m) :
              Without(Without(l, n), m).events[i] = l.events[n + m + i]
         /\ Without(Without(l, n), m).anchor = IF n + m = 0 THEN l.anchor ELSE l.events[n + m].id
<1>1. Len(l.events) \in Nat
  BY LedgerFields
<1> DEFINE k == Without(l, n)
<1>2. /\ k \in Ledger
      /\ Len(k.events) = Len(l.events) - n
      /\ \A i \in 1 .. Len(l.events) - n : k.events[i] = l.events[n + i]
      /\ k.anchor = IF n = 0 THEN l.anchor ELSE l.events[n].id
  BY WithoutIs
<1> HIDE DEF k
<1>3. m \in 0 .. Len(k.events)
  BY <1>2
<1>4. /\ Without(k, m) \in Ledger
      /\ Len(Without(k, m).events) = Len(k.events) - m
      /\ \A i \in 1 .. Len(k.events) - m : Without(k, m).events[i] = k.events[m + i]
      /\ Without(k, m).anchor = IF m = 0 THEN k.anchor ELSE k.events[m].id
  BY <1>2, <1>3, WithoutIs
<1>5. Len(Without(k, m).events) = Len(l.events) - (n + m)
  BY <1>1, <1>2, <1>4
<1>6. ASSUME NEW i \in 1 .. Len(l.events) - (n + m)
      PROVE  Without(k, m).events[i] = l.events[n + m + i]
  <2>1. i \in 1 .. Len(k.events) - m /\ m + i \in 1 .. Len(l.events) - n /\ n + (m + i) = n + m + i
    BY <1>1, <1>2
  <2> QED BY <1>2, <1>4, <2>1
<1>7. Without(k, m).anchor = IF n + m = 0 THEN l.anchor ELSE l.events[n + m].id
  <2>1. CASE m = 0
    BY <1>1, <1>2, <1>4, <2>1
  <2>2. CASE m # 0
    <3>1. m \in 1 .. Len(l.events) - n /\ n + m # 0
      BY <1>1, <2>2
    <3> QED BY <1>2, <1>4, <2>2, <3>1
  <2> QED BY <2>1, <2>2
<1> QED BY <1>4, <1>5, <1>6, <1>7 DEF k

(* k is l without its first n events. *)
IsRest(k, l, n) ==
  /\ k \in Ledger
  /\ Len(k.events) = Len(l.events) - n
  /\ \A i \in 1 .. Len(l.events) - n : k.events[i] = l.events[n + i]
  /\ k.anchor = IF n = 0 THEN l.anchor ELSE l.events[n].id

(* The retention limits drop events from the front, and make room for one. *)
LEMMA RetainedIs ==
  ASSUME NEW l \in Ledger, NEW old \in 0 .. Len(l.events)
  PROVE  \E n \in 0 .. Len(l.events) :
           IsRest(Retained(l, old), l, n) /\ Len(l.events) - n < MaxEvents
<1>1. Len(l.events) \in Nat /\ MaxEvents \in Nat /\ MaxEvents >= 1
  BY LedgerFields, EvidenceAssumption
<1> DEFINE m == TooMany(Without(l, old))
<1>2. Len(Without(l, old).events) = Len(l.events) - old
  BY WithoutIs
<1>3. m = IF Len(l.events) - old >= MaxEvents THEN Len(l.events) - old - MaxEvents + 1 ELSE 0
  BY <1>2 DEF TooMany
<1>4. Retained(l, old) = Without(Without(l, old), m)
  BY DEF Retained
<1> HIDE DEF m
<1>5. m \in 0 .. Len(l.events) - old
  BY <1>1, <1>3
<1>6. Len(l.events) - (old + m) < MaxEvents
  <2>1. CASE Len(l.events) - old >= MaxEvents
    BY <1>1, <1>3, <2>1
  <2>2. CASE ~(Len(l.events) - old >= MaxEvents)
    BY <1>1, <1>3, <2>2
  <2> QED BY <2>1, <2>2
<1>7. PICK n \in 0 .. Len(l.events) : n = old + m
  <2>1. old + m \in 0 .. Len(l.events)
    BY <1>1, <1>5
  <2> QED BY <2>1
<1> DEFINE k == Without(Without(l, old), m)
<1>8. /\ k \in Ledger
      /\ Len(k.events) = Len(l.events) - (old + m)
      /\ \A i \in 1 .. Len(l.events) - (old + m) : k.events[i] = l.events[old + m + i]
      /\ k.anchor = IF old + m = 0 THEN l.anchor ELSE l.events[old + m].id
  BY <1>5, WithoutTwice
<1> HIDE DEF k
<1>9. IsRest(k, l, n)
  BY <1>7, <1>8 DEF IsRest
<1> QED BY <1>4, <1>6, <1>7, <1>9 DEF k

(* And what is left is chained as the whole was. *)
LEMMA RestIsChained ==
  ASSUME NEW l \in Ledger, NEW k \in Ledger, NEW n \in 0 .. Len(l.events),
         IsRest(k, l, n), Chained(l)
  PROVE  Chained(k)
<1> SUFFICES ASSUME NEW i \in 1 .. Len(k.events)
             PROVE  k.events[i].prev = IF i = 1 THEN k.anchor ELSE k.events[i - 1].id
  BY DEF Chained
<1>1. Len(l.events) \in Nat
  BY LedgerFields
<1>2. n + i \in 1 .. Len(l.events) /\ k.events[i] = l.events[n + i]
  BY <1>1 DEF IsRest
<1>3. l.events[n + i].prev = IF n + i = 1 THEN l.anchor ELSE l.events[n + i - 1].id
  BY <1>2 DEF Chained
<1>4. CASE i = 1
  <2>1. n + i - 1 = n /\ (n + i = 1 <=> n = 0)
    BY <1>1, <1>4
  <2> QED BY <1>2, <1>3, <1>4, <2>1 DEF IsRest
<1>5. CASE i # 1
  <2>1. i - 1 \in 1 .. Len(l.events) - n /\ n + (i - 1) = n + i - 1 /\ n + i # 1
    BY <1>1, <1>2, <1>5 DEF IsRest
  <2>2. k.events[i - 1] = l.events[n + i - 1]
    BY <2>1 DEF IsRest
  <2> QED BY <1>2, <1>3, <1>5, <2>1, <2>2
<1> QED BY <1>4, <1>5

(* The event that is appended follows the head. *)
LEMMA ExtendedIs ==
  ASSUME NEW k \in Ledger, NEW t \in Nat, minted \in Nat
  PROVE  /\ Extended(k, t) \in Ledger
         /\ Extended(k, t).anchor = k.anchor
         /\ Len(Extended(k, t).events) = Len(k.events) + 1
         /\ \A i \in 1 .. Len(k.events) : Extended(k, t).events[i] = k.events[i]
         /\ Chained(k) => Chained(Extended(k, t))
<1>1. k.anchor \in Nat /\ k.events \in Seq(Event) /\ Len(k.events) \in Nat
  BY LedgerFields
<1>2. HeadHash(k) \in Nat
  <2>1. k.events # << >> => k.events[Len(k.events)] \in Event
    BY <1>1
  <2> QED BY <1>1, <2>1, EventFields DEF HeadHash
<1> DEFINE e == [id |-> minted + 1, prev |-> HeadHash(k), at |-> t]
           x == Extended(k, t)
<1>3. e \in Event /\ e.prev = HeadHash(k)
  BY <1>2 DEF Event
<1> HIDE DEF e
<1>4. x = [k EXCEPT !.events = Append(k.events, e)]
  BY DEF Extended, e
<1>5. /\ Append(k.events, e) \in Seq(Event)
      /\ Len(Append(k.events, e)) = Len(k.events) + 1
      /\ \A i \in 1 .. Len(k.events) : Append(k.events, e)[i] = k.events[i]
      /\ Append(k.events, e)[Len(k.events) + 1] = e
  BY <1>1, <1>3
<1>6. x \in Ledger /\ x.anchor = k.anchor /\ x.events = Append(k.events, e)
  BY <1>4, <1>5 DEF Ledger
<1> HIDE DEF x
<1>7. ASSUME Chained(k), NEW i \in 1 .. Len(x.events)
      PROVE  x.events[i].prev = IF i = 1 THEN x.anchor ELSE x.events[i - 1].id
  <2>1. CASE i \in 1 .. Len(k.events)
    <3>1. k.events[i].prev = IF i = 1 THEN k.anchor ELSE k.events[i - 1].id
      BY <1>7, <2>1 DEF Chained
    <3>2. i # 1 => i - 1 \in 1 .. Len(k.events)
      BY <1>1, <2>1
    <3> QED BY <1>5, <1>6, <2>1, <3>1, <3>2
  <2>2. CASE i = Len(k.events) + 1
    <3>1. x.events[i] = e /\ e.prev = IF Len(k.events) = 0 THEN k.anchor ELSE k.events[Len(k.events)].id
      BY <1>1, <1>3, <1>5, <1>6, <2>2 DEF HeadHash
    <3>2. i # 1 => i - 1 = Len(k.events) /\ Len(k.events) \in 1 .. Len(k.events)
      BY <1>1, <2>2
    <3>3. i = 1 <=> Len(k.events) = 0
      BY <1>1, <2>2
    <3> QED BY <1>5, <1>6, <3>1, <3>2, <3>3
  <2> QED BY <1>1, <1>5, <1>6, <2>1, <2>2
<1>8. Chained(k) => Chained(x)
  BY <1>7 DEF Chained
<1> QED BY <1>5, <1>6, <1>8 DEF x

(* What Replace writes: the ledger that was loaded, without some events at *)
(* the front, and with one behind.                                         *)
LEMMA ReplaceWrites ==
  ASSUME IInv, NEW w \in Writer, Replace(w)
  PROVE  /\ file' \in Ledger /\ Sound(file') /\ Len(file'.events) >= 1
         /\ \E n \in 0 .. Len(payload[w].events) :
              /\ Len(file'.events) = Len(payload[w].events) - n + 1
              /\ \A i \in 1 .. Len(payload[w].events) - n :
                   file'.events[i] = payload[w].events[n + i]
              /\ file'.anchor = IF n = 0 THEN payload[w].anchor ELSE payload[w].events[n].id
<1> DEFINE l == payload[w]
<1>1. l \in Ledger /\ Sound(l) /\ current[w] \in Nat /\ minted \in Nat
  BY EvidenceAssumption DEF IInv, TypeOK, HoldsFile, Replace
<1> DEFINE t == current[w]
<1>2. PICK old \in 0 .. Len(l.events) : file' = Extended(Retained(l, old), t)
  BY DEF Replace
<1> HIDE DEF l, t
<1>3. PICK n \in 0 .. Len(l.events) :
        IsRest(Retained(l, old), l, n) /\ Len(l.events) - n < MaxEvents
  BY <1>1, <1>2, RetainedIs
<1> DEFINE k == Retained(l, old)
<1>4. k \in Ledger /\ Chained(k)
  <2>1. k \in Ledger
    BY <1>3 DEF IsRest
  <2> HIDE DEF k
  <2>2. IsRest(k, l, n) /\ Chained(l)
    BY <1>1, <1>3 DEF k, Sound
  <2> QED BY <1>1, <2>1, <2>2, RestIsChained
<1>5. /\ Len(l.events) \in Nat /\ MaxEvents \in Nat /\ t \in Nat
      /\ Len(k.events) = Len(l.events) - n
      /\ \A i \in 1 .. Len(l.events) - n : k.events[i] = l.events[n + i]
      /\ k.anchor = IF n = 0 THEN l.anchor ELSE l.events[n].id
      /\ file' = Extended(k, t)
  BY <1>1, <1>2, <1>3, LedgerFields, EvidenceAssumption DEF IsRest, t
<1> HIDE DEF k
<1>6. /\ file' \in Ledger /\ file'.anchor = k.anchor
      /\ Len(file'.events) = Len(k.events) + 1
      /\ \A i \in 1 .. Len(k.events) : file'.events[i] = k.events[i]
      /\ Chained(file')
  BY <1>1, <1>4, <1>5, ExtendedIs
<1>7. Sound(file') /\ Len(file'.events) >= 1
  BY <1>3, <1>5, <1>6 DEF Sound
<1>8. /\ Len(file'.events) = Len(l.events) - n + 1
      /\ \A i \in 1 .. Len(l.events) - n : file'.events[i] = l.events[n + i]
      /\ file'.anchor = IF n = 0 THEN l.anchor ELSE l.events[n].id
  BY <1>5, <1>6
<1> QED BY <1>3, <1>6, <1>7, <1>8 DEF l

----------------------------------------------------------------------------
(* The invariant.                                                          *)

LEMMA InitInvariant == Init => IInv
<1> SUFFICES ASSUME Init PROVE IInv
  OBVIOUS
<1>1. Fresh \in Ledger
  <2>1. << >> \in Seq(Event)
    OBVIOUS
  <2> QED BY <2>1 DEF Fresh, Ledger
<1>2. TypeOK
  <2>1. 0 \in 0 .. MaxClock /\ 0 \in 0 .. MaxRemovals
    BY EvidenceAssumption
  <2>2. /\ observed \in [Writer -> BOOLEAN] /\ allows \in [Writer -> BOOLEAN]
        /\ pc \in [Writer -> Place] /\ current \in [Writer -> Nat]
        /\ payload \in [Writer -> Ledger]
    BY <1>1 DEF Init, Place
  <2> QED BY <2>1, <2>2 DEF Init, TypeOK
<1>3. Excludes
  BY EvidenceAssumption DEF Init, Excludes, Inside
<1>4. HoldsFile /\ LedgerVerifies
  BY DEF Init, HoldsFile, LedgerVerifies
<1> QED BY <1>2, <1>3, <1>4 DEF IInv

LEMMA StutterKeeps == IInv /\ UNCHANGED vars => IInv'
BY DEF IInv, TypeOK, Excludes, HoldsFile, LedgerVerifies, vars, locals

LEMMA TypePreserved ==
  ASSUME IInv, Next
  PROVE  TypeOK'
<1> USE DEF Place
<1>1. TypeOK
  BY DEF IInv
<1>2. CASE Tick
  BY <1>1, <1>2, EvidenceAssumption DEF TypeOK, Tick, locals
<1>3. CASE CleanLock
  BY <1>1, <1>3 DEF TypeOK, CleanLock, locals
<1>4. CASE Remove
  BY <1>1, <1>4, EvidenceAssumption DEF TypeOK, Remove, locals
<1>5. ASSUME NEW w \in Writer, NEW a \in BOOLEAN, Call(w, a) PROVE TypeOK'
  BY <1>1, <1>5 DEF TypeOK, Call
<1>6. ASSUME NEW w \in Writer, Authorize(w) \/ RecordEvidence(w) PROVE TypeOK'
  <2>1. \A token \in Token, t \in Nat : Verified(token, t) \in BOOLEAN
    BY EvidenceAssumption DEF Verified
  <2>2. clock \in Nat
    BY <1>1, EvidenceAssumption DEF TypeOK
  <2> QED BY <1>5, <1>6, <2>1, <2>2 DEF Authorize, RecordEvidence
<1>7. ASSUME NEW w \in Writer, Acquire(w) \/ TimeOut(w) \/ Load(w) \/ Finish(w) \/ Fail(w)
      PROVE  TypeOK'
  <2>1. CASE Acquire(w)
    BY <1>1, <2>1 DEF TypeOK, Acquire
  <2>2. CASE TimeOut(w)
    BY <1>1, <2>2 DEF TypeOK, TimeOut
  <2>3. CASE Load(w)
    <3>1. (IF file = Absent THEN Fresh ELSE file) \in Ledger
      <4>1. << >> \in Seq(Event)
        OBVIOUS
      <4>2. Fresh \in Ledger
        BY <4>1 DEF Fresh, Ledger
      <4> QED BY <1>1, <4>2 DEF TypeOK
    <3>2. payload' \in [Writer -> Ledger]
      BY <1>1, <2>3, <3>1 DEF TypeOK, Load
    <3> QED BY <1>1, <2>3, <3>2 DEF TypeOK, Load
  <2>4. CASE Finish(w)
    BY <1>1, <2>4 DEF TypeOK, Finish
  <2>5. CASE Fail(w)
    BY <1>1, <2>5 DEF TypeOK, Fail
  <2> QED BY <1>7, <2>1, <2>2, <2>3, <2>4, <2>5
<1>8. ASSUME NEW w \in Writer, Replace(w) PROVE TypeOK'
  <2>1. file' \in Ledger
    BY <1>8, ReplaceWrites
  <2> QED BY <1>1, <1>8, <2>1 DEF TypeOK, Replace
<1>9. ASSUME NEW w \in Writer, Read(w) \/ Crash(w) \/ Start(w) PROVE TypeOK'
  <2>1. CASE Read(w)
    BY <1>1, <2>1 DEF TypeOK, Read
  <2>2. CASE Crash(w)
    BY <1>1, <2>2 DEF TypeOK, Crash
  <2>3. CASE Start(w)
    <3>1. observed' \in [Writer -> BOOLEAN]
      BY <1>1, <2>3 DEF TypeOK, Start
    <3> QED BY <1>1, <2>3, <3>1 DEF TypeOK, Start
  <2> QED BY <1>9, <2>1, <2>2, <2>3
<1> QED BY <1>2, <1>3, <1>4, <1>6, <1>7, <1>8, <1>9 DEF Next, Proceed

LEMMA ExcludesPreserved ==
  ASSUME IInv, Next
  PROVE  Excludes'
<1>1. TypeOK /\ Excludes
  BY DEF IInv
<1>2. NoOne \notin Writer /\ Stale \notin Writer
  BY EvidenceAssumption
<1> USE DEF Inside
<1>3. CASE Tick \/ Remove
  BY <1>1, <1>3 DEF Excludes, Tick, Remove, locals
<1>4. CASE CleanLock
  BY <1>1, <1>2, <1>4 DEF Excludes, CleanLock, locals
<1>5. ASSUME NEW w \in Writer, Authorize(w) \/ RecordEvidence(w) PROVE Excludes'
  <2>1. /\ pc[w] \in {"idle", "granted"} /\ pc' = [pc EXCEPT ![w] = "waiting"]
        /\ UNCHANGED lock
    BY <1>5 DEF Authorize, RecordEvidence, Call
  <2> QED BY <1>1, <2>1 DEF Excludes, TypeOK
<1>6. ASSUME NEW w \in Writer, Acquire(w) PROVE Excludes'
  BY <1>1, <1>2, <1>6 DEF Excludes, TypeOK, Acquire
<1>7. ASSUME NEW w \in Writer, TimeOut(w) PROVE Excludes'
  BY <1>1, <1>7 DEF Excludes, TypeOK, TimeOut
<1>8. ASSUME NEW w \in Writer, Load(w) PROVE Excludes'
  BY <1>1, <1>8 DEF Excludes, TypeOK, Load
<1>9. ASSUME NEW w \in Writer, Replace(w) PROVE Excludes'
  BY <1>1, <1>9 DEF Excludes, TypeOK, Replace
<1>10. ASSUME NEW w \in Writer, Finish(w) \/ Fail(w) PROVE Excludes'
  <2>1. /\ pc[w] \in Inside /\ lock' = NoOne
        /\ \E p \in {"idle", "granted"} : pc' = [pc EXCEPT ![w] = p]
    BY <1>10 DEF Finish, Fail
  <2>2. \A v \in Writer : v # w => pc'[v] = pc[v] /\ ~(pc[v] \in Inside)
    BY <1>1, <2>1 DEF Excludes, TypeOK
  <2>3. ~(pc'[w] \in Inside)
    BY <1>1, <2>1 DEF TypeOK
  <2> QED BY <1>2, <2>1, <2>2, <2>3 DEF Excludes
<1>11. ASSUME NEW w \in Writer, Read(w) PROVE Excludes'
  BY <1>1, <1>11 DEF Excludes, Read
<1>12. ASSUME NEW w \in Writer, Crash(w) PROVE Excludes'
  <2>1. ~(pc'[w] \in Inside) /\ \A v \in Writer : v # w => pc'[v] = pc[v]
    BY <1>1, <1>12 DEF Crash, TypeOK
  <2>2. CASE pc[w] \in Inside
    <3>1. lock' = Stale /\ lock = w
      BY <1>1, <1>12, <2>2 DEF Crash, Excludes
    <3> QED BY <1>1, <1>2, <2>1, <3>1 DEF Excludes
  <2>3. CASE ~(pc[w] \in Inside)
    <3>1. lock' = lock /\ lock # w
      BY <1>1, <1>12, <2>3 DEF Crash, Excludes
    <3> QED BY <1>1, <2>1, <3>1 DEF Excludes
  <2> QED BY <2>2, <2>3
<1>13. ASSUME NEW w \in Writer, Start(w) PROVE Excludes'
  BY <1>1, <1>13 DEF Excludes, TypeOK, Start
<1> QED BY <1>3, <1>4, <1>5, <1>6, <1>7, <1>8, <1>9, <1>10, <1>11, <1>12, <1>13
        DEF Next, Proceed

LEMMA HoldsPreserved ==
  ASSUME IInv, Next
  PROVE  HoldsFile'
<1>1. TypeOK /\ Excludes /\ HoldsFile /\ LedgerVerifies
  BY DEF IInv
<1>2. CASE Tick \/ CleanLock
  BY <1>1, <1>2 DEF HoldsFile, Tick, CleanLock, locals
<1>3. CASE Remove
  BY <1>1, <1>3 DEF HoldsFile, Remove, locals
<1>4. ASSUME NEW w \in Writer, UNCHANGED <<file, payload>>,
             \E p \in Place : p # "loaded" /\ pc' = [pc EXCEPT ![w] = p]
      PROVE  HoldsFile'
  BY <1>1, <1>4 DEF HoldsFile, TypeOK
<1>5. ASSUME NEW w \in Writer, Read(w) PROVE HoldsFile'
  BY <1>1, <1>5 DEF HoldsFile, Read
<1>6. ASSUME NEW w \in Writer, Load(w) PROVE HoldsFile'
  <2>1. \A v \in Writer : v # w => pc'[v] = pc[v] /\ payload'[v] = payload[v]
    BY <1>1, <1>6 DEF Load, TypeOK
  <2>2. payload'[w] = IF file = Absent THEN Fresh ELSE file
    BY <1>1, <1>6 DEF Load, TypeOK
  <2>3. Sound(Fresh)
    BY EvidenceAssumption DEF Sound, Chained, Fresh
  <2>4. file # Absent => Sound(file)
    BY <1>1 DEF LedgerVerifies, Sound
  <2>5. Sound(payload'[w]) /\ (file = Absent \/ file = payload'[w])
    BY <2>2, <2>3, <2>4
  <2>6. UNCHANGED file
    BY <1>6 DEF Load
  <2> QED BY <1>1, <2>1, <2>5, <2>6 DEF HoldsFile
<1>7. ASSUME NEW w \in Writer, Replace(w) PROVE HoldsFile'
  <2>1. \A v \in Writer : pc'[v] # "loaded"
    BY <1>1, <1>7 DEF Replace, TypeOK, Excludes, Inside
  <2> QED BY <2>1 DEF HoldsFile
<1>8. \A w \in Writer : Authorize(w) \/ RecordEvidence(w) \/ Acquire(w) \/ TimeOut(w)
                        \/ Finish(w) \/ Fail(w) \/ Crash(w) \/ Start(w) =>
        /\ UNCHANGED <<file, payload>>
        /\ \E p \in Place : p # "loaded" /\ pc' = [pc EXCEPT ![w] = p]
  BY DEF Authorize, RecordEvidence, Call, Acquire, TimeOut, Finish, Fail, Crash, Start, Place
<1> QED BY <1>2, <1>3, <1>4, <1>5, <1>6, <1>7, <1>8 DEF Next, Proceed

LEMMA VerifiesPreserved ==
  ASSUME IInv, Next
  PROVE  LedgerVerifies'
<1>1. ASSUME NEW w \in Writer, Replace(w) PROVE LedgerVerifies'
  <2>1. Sound(file') /\ Len(file'.events) >= 1 /\ file' \in Ledger
    BY <1>1, ReplaceWrites
  <2>2. Len(file'.events) \in 1 .. MaxEvents
    BY <2>1, LedgerFields, EvidenceAssumption DEF Sound
  <2> QED BY <2>1, <2>2 DEF Sound, LedgerVerifies
<1>2. CASE Remove
  BY <1>2 DEF Remove, LedgerVerifies
<1>3. CASE UNCHANGED file
  BY <1>3 DEF IInv, LedgerVerifies
<1>4. Tick \/ CleanLock => UNCHANGED file
  BY DEF Tick, CleanLock
<1>5. \A w \in Writer : Authorize(w) \/ RecordEvidence(w) \/ Acquire(w) \/ TimeOut(w) \/ Load(w)
                        \/ Finish(w) \/ Fail(w) \/ Read(w) \/ Crash(w) \/ Start(w) =>
        UNCHANGED file
  BY DEF Authorize, RecordEvidence, Call, Acquire, TimeOut, Load, Finish, Fail, Read, Crash, Start
<1> QED BY <1>1, <1>2, <1>3, <1>4, <1>5 DEF Next, Proceed

LEMMA NextInvariant == IInv /\ [Next]_vars => IInv'
<1>1. IInv /\ Next => IInv'
  BY TypePreserved, ExcludesPreserved, HoldsPreserved, VerifiesPreserved DEF IInv
<1> QED BY <1>1, StutterKeeps

THEOREM Invariant == Spec => []IInv
BY InitInvariant, NextInvariant, PTL DEF Spec

----------------------------------------------------------------------------
(* The variables of EvidenceLedger keep their types: a writer never goes on *)
(* with anything but a ledger in hand.                                     *)
THEOREM TypeCorrect == Spec => []TypeOK
<1>1. IInv => TypeOK
  BY DEF IInv
<1> QED BY <1>1, Invariant, PTL

(* append, _load and _verify_payload: whoever loads the file, at any       *)
(* moment, finds a chained ledger within its limit.                        *)
THEOREM AlwaysVerifies == Spec => []LedgerVerifies
<1>1. IInv => LedgerVerifies
  BY DEF IInv
<1> QED BY <1>1, Invariant, PTL

(* _load: a ledger that every process has seen, and that is gone, stays so *)
(* until a process is started again.                                       *)
THEOREM DisappearedStaysGone == Spec => GoneStaysGone
<1>1. IInv /\ [Next]_vars => [StaysGone]_vars
  <2> SUFFICES ASSUME IInv, Next, Gone, NoneStarted
               PROVE  Gone'
    BY DEF StaysGone
  <2>1. TypeOK
    BY DEF IInv
  <2>2. CASE Tick \/ CleanLock
    BY <2>2 DEF Gone, Tick, CleanLock, locals
  <2>3. ~Remove
    BY DEF Gone, Remove
  <2>4. ASSUME NEW w \in Writer, UNCHANGED <<file, observed>>,
               \E p \in Place : p # "loaded" /\ pc' = [pc EXCEPT ![w] = p]
        PROVE  Gone'
    BY <2>1, <2>4 DEF Gone, TypeOK
  <2>5. \A w \in Writer : Authorize(w) \/ RecordEvidence(w) \/ Acquire(w) \/ TimeOut(w)
                          \/ Fail(w) \/ Crash(w) =>
          /\ UNCHANGED <<file, observed>>
          /\ \E p \in Place : p # "loaded" /\ pc' = [pc EXCEPT ![w] = p]
    BY DEF Authorize, RecordEvidence, Call, Acquire, TimeOut, Fail, Crash, Place
  <2>6. \A w \in Writer : ~Load(w) /\ ~Replace(w) /\ ~Read(w)
    BY DEF Gone, Load, Replace, Read
  <2>7. ASSUME NEW w \in Writer, Finish(w) PROVE Gone'
    BY <2>1, <2>7 DEF Gone, Finish, TypeOK
  <2>8. \A w \in Writer : ~Start(w)
    <3> SUFFICES ASSUME NEW w \in Writer, Start(w) PROVE FALSE
      OBVIOUS
    <3>1. pc[w] = "dead" /\ pc'[w] = "idle"
      BY <2>1 DEF Start, TypeOK
    <3> QED BY <3>1 DEF NoneStarted
  <2> QED BY <2>2, <2>3, <2>4, <2>5, <2>6, <2>7, <2>8 DEF Next, Proceed
<1> QED BY <1>1, Invariant, PTL DEF Spec, GoneStaysGone

----------------------------------------------------------------------------
(* The refinement.                                                         *)

(* Two writers cannot both have loaded.                                    *)
LEMMA OneHasLoaded ==
  ASSUME IInv, NEW w \in Writer, pc[w] = "loaded"
  PROVE  (CHOOSE v \in Writer : pc[v] = "loaded") = w
BY DEF IInv, Excludes, Inside

LEMMA ReplaceRefines ==
  ASSUME IInv, NEW w \in Writer, Replace(w)
  PROVE  \E n \in 0 .. Len(Kept.events) : Log!Extend(n)
<1>1. pc[w] = "loaded"
  BY DEF Replace
<1>2. Kept = payload[w]
  BY <1>1, OneHasLoaded DEF Kept, IInv, HoldsFile
<1>3. Kept' = file'
  <2>1. file' # Absent
    BY ReplaceWrites, EvidenceAssumption
  <2> QED BY <2>1 DEF Kept
<1>4. PICK n \in 0 .. Len(payload[w].events) :
        /\ Len(file'.events) = Len(payload[w].events) - n + 1
        /\ \A i \in 1 .. Len(payload[w].events) - n : file'.events[i] = payload[w].events[n + i]
        /\ file'.anchor = IF n = 0 THEN payload[w].anchor ELSE payload[w].events[n].id
  BY ReplaceWrites
<1> QED BY <1>2, <1>3, <1>4 DEF Log!Extend

(* The ledger goes with the last one who has it.                           *)
LEMMA LostOrKept ==
  ASSUME IInv, Next, \A w \in Writer : ~Replace(w)
  PROVE  Log!Erase \/ UNCHANGED Kept
<1>1. TypeOK /\ Excludes /\ HoldsFile
  BY DEF IInv
<1>2. Kept' = Fresh => Log!Erase
  BY DEF Log!Erase, Fresh
<1>3. CASE Tick \/ CleanLock
  BY <1>3 DEF Kept, Tick, CleanLock, locals
<1>4. CASE Remove
  <2>1. file # Absent /\ file' = Absent /\ UNCHANGED <<pc, payload>>
    BY <1>4 DEF Remove, locals
  <2>2. CASE \E w \in Writer : pc[w] = "loaded"
    <3>1. PICK w \in Writer : pc[w] = "loaded"
      BY <2>2
    <3>2. payload[w] = file
      BY <1>1, <2>1, <3>1 DEF HoldsFile
    <3>3. (CHOOSE v \in Writer : pc[v] = "loaded") = w
      BY <3>1, OneHasLoaded
    <3> QED BY <2>1, <2>2, <3>2, <3>3 DEF Kept
  <2>3. CASE ~\E w \in Writer : pc[w] = "loaded"
    BY <1>2, <2>1, <2>3 DEF Kept
  <2> QED BY <2>2, <2>3
<1>5. ASSUME NEW w \in Writer, UNCHANGED <<file, payload>>,
             \E p \in Place : p # "loaded" /\ pc' = [pc EXCEPT ![w] = p]
      PROVE  Log!Erase \/ UNCHANGED Kept
  <2>1. pc'[w] # "loaded" /\ \A v \in Writer : v # w => pc'[v] = pc[v]
    BY <1>1, <1>5 DEF TypeOK
  <2>2. CASE pc[w] = "loaded"
    <3>1. \A v \in Writer : pc'[v] # "loaded"
      BY <1>1, <2>1, <2>2 DEF Excludes, Inside
    <3> QED BY <1>2, <1>5, <3>1 DEF Kept
  <2>3. CASE pc[w] # "loaded"
    <3>1. \A v \in Writer : pc'[v] = "loaded" <=> pc[v] = "loaded"
      BY <2>1, <2>3
    <3>2. (CHOOSE v \in Writer : pc'[v] = "loaded") = (CHOOSE v \in Writer : pc[v] = "loaded")
      BY <3>1
    <3> QED BY <1>5, <3>1, <3>2 DEF Kept
  <2> QED BY <2>2, <2>3
<1>6. ASSUME NEW w \in Writer, Load(w) PROVE UNCHANGED Kept
  <2>1. /\ pc[w] = "locked" /\ UNCHANGED file
        /\ pc'[w] = "loaded" /\ \A v \in Writer : v # w => pc'[v] = pc[v]
        /\ payload'[w] = IF file = Absent THEN Fresh ELSE file
    BY <1>1, <1>6 DEF Load, TypeOK
  <2>2. \A v \in Writer : v # w => pc[v] # "loaded"
    BY <1>1, <2>1 DEF Excludes, Inside
  <2>3. (CHOOSE v \in Writer : pc'[v] = "loaded") = w
    BY <2>1, <2>2
  <2> QED BY <2>1, <2>2, <2>3 DEF Kept
<1>7. ASSUME NEW w \in Writer, Read(w) PROVE UNCHANGED Kept
  BY <1>7 DEF Read, Kept
<1>8. \A w \in Writer : Authorize(w) \/ RecordEvidence(w) \/ Acquire(w) \/ TimeOut(w)
                        \/ Finish(w) \/ Fail(w) \/ Crash(w) \/ Start(w) =>
        /\ UNCHANGED <<file, payload>>
        /\ \E p \in Place : p # "loaded" /\ pc' = [pc EXCEPT ![w] = p]
  BY DEF Authorize, RecordEvidence, Call, Acquire, TimeOut, Finish, Fail, Crash, Start, Place
<1> QED BY <1>3, <1>4, <1>5, <1>6, <1>7, <1>8 DEF Next, Proceed

(* Writers that fail and die at any step, stale locks, the file removed    *)
(* under a writer: the evidence ledger is a log from which only the        *)
(* retention limits take events, at the front and with the anchor moved.   *)
THEOREM EvidenceIsRetainedLog == Spec => KeptIsRetainedLog
<1>1. Init => Log!Init
  BY DEF Init, Kept, Fresh, Log!Init
<1>2. IInv /\ [Next]_vars =>
        [Log!Erase \/ \E n \in 0 .. Len(Kept.events) : Log!Extend(n)]_(Log!logVars)
  <2> SUFFICES ASSUME IInv, [Next]_vars
               PROVE  \/ Log!Erase
                      \/ \E n \in 0 .. Len(Kept.events) : Log!Extend(n)
                      \/ UNCHANGED Log!logVars
    OBVIOUS
  <2>1. UNCHANGED Kept => UNCHANGED Log!logVars
    BY DEF Log!logVars
  <2>2. CASE \E w \in Writer : Replace(w)
    BY <2>2, ReplaceRefines
  <2>3. CASE Next /\ \A w \in Writer : ~Replace(w)
    BY <2>1, <2>3, LostOrKept
  <2>4. UNCHANGED vars => UNCHANGED Kept
    BY DEF vars, locals, Kept
  <2> QED BY <2>1, <2>2, <2>3, <2>4
<1> QED BY <1>1, <1>2, Invariant, PTL DEF Spec, KeptIsRetainedLog, Log!RetainedSpec
=============================================================================
