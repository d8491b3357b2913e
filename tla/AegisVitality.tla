---------------------------- MODULE AegisVitality ----------------------------
(***************************************************************************)
(* AegisVitality, vitality/protocol.py, over the immune core (EthosAegis)  *)
(* and the stress gate (NeuroStressBuffer), with the GenesisEngine of      *)
(* agent/genesis.py that feeds patterns back into the core.                *)
(*                                                                         *)
(* A caller is admitted, may sleep, is judged, has its verdict recorded    *)
(* and assesses the system: four steps, between which other callers go     *)
(* through theirs, other threads use the core and the operator's           *)
(* treatments run.  A training regimen adjudicates its corpus one text     *)
(* after the other, with nobody inside.                                    *)
(* Every verdict is a step of the core, every permit, refusal, record and  *)
(* tick a step of the gate.                                                *)
(*                                                                         *)
(* What patterns find in a text is a constant: Scan for the cells of the   *)
(* core, with and without zinc, Reading for the nutrients.  Latencies are  *)
(* left out, and the cells that a boost registers: nothing ever asks them. *)
(***************************************************************************)
EXTENDS Integers, Sequences, FiniteSets, FiniteSetsExt

CONSTANTS
  Text,
  Said,          \* those that callers bring
  Scan,          \* what the cells find in a text, with and without zinc
  Reading,       \* what the nutrients find, and what the probiome makes of it
  Fragment,      \* the pieces of text that can be remembered
  Length,        \* their lengths in characters
  Inside,        \* the pairs of which the first occurs in the longer second
  Pattern,       \* what mutation can make of the fragments
  Synthesized,   \* the patterns it makes of each
  Coverage,      \* coverage_score of a pattern, in hundredths
  MaxPatterns,   \* max_patterns_per_cycle
  MarkupNote, FloodNote, ForgeNote,
  Corpus,        \* the corpora of the regimen, one after the other
  Caller,        \* the threads in adjudicate_with_vitality
  NoFitness,
  MaxEngramRetention,
  Cost, Capacity, Rate, OpenPct, MinSamples, Window,
  MaxAdjudications, MaxOperations   \* bounds

VARIABLES
  acuity, vault, engrams, adjudications, condemnations, quarantines, flagged,
  tokens, elapsed, circuitOpen, threats, inFlight,
  stage,        \* where each caller is
  nourished,    \* _nourished
  evolved,      \* the synthesized patterns in _extended_sigils
  drill,        \* where in the corpus the regimen is, 0 when it is not run
  tally,        \* the correct verdicts of each of its phases
  fitness,      \* _kinetic_results: composite_fitness_score, in tenths
  boostActive,  \* _boost_active
  operations    \* admissions, verdicts from elsewhere, regimens

core == <<acuity, vault, engrams, adjudications, condemnations, quarantines, flagged>>
gate == <<tokens, elapsed, circuitOpen, threats, inFlight>>
regimen == <<drill, tally, fitness>>
vars == <<core, gate, regimen, stage, nourished, evolved, boostActive, operations>>

----------------------------------------------------------------------------
(* The core reads a text with or without zinc. *)

Dose == Text \X BOOLEAN
Lasting == {f \in Fragment : Length[f] > 8}

Core == INSTANCE EthosAegis WITH Payload <- Dose, Long <- Lasting

Buffer == INSTANCE NeuroStressBuffer WITH MaxInFlight <- Cardinality(Caller)

Phase == {"warm_up", "aerobic", "sprint"}

(* The hits of the packs in a text: protein by words, B12 by clusters,     *)
(* and those of the patterns synthesized from a fragment, by words.  Zinc  *)
(* finds parasites that the cells alone do not.                            *)
ASSUME VitalityAssumption ==
  /\ Said \subseteq Text
  /\ \A t \in Text :
       /\ Reading[t].protein \subseteq Nat /\ Reading[t].b12 \subseteq Nat
       /\ Reading[t].derived \subseteq [pattern : Pattern, words : Nat]
       /\ Reading[t].obscured \in BOOLEAN
       /\ Reading[t].clean \in Text
       /\ \E more \in SUBSET Core!Parasitic :
            Scan[<<t, TRUE>>] = [Scan[<<t, FALSE>>] EXCEPT !.parasites = @ \cup more]
  /\ Synthesized \in [Fragment -> SUBSET Pattern]
  /\ Coverage \in [Pattern -> Nat] /\ MaxPatterns \in Nat
  /\ NoFitness \notin Nat
  /\ Corpus \in Seq([phase : Phase, text : Text, expected : Core!CorruptionDepth])
  /\ \A phase \in Phase : \E i \in 1 .. Len(Corpus) : Corpus[i].phase = phase
  /\ MaxEngramRetention \in Nat /\ MaxOperations \in Nat

(* What the core and the gate take for granted of their constants. *)
ASSUME PartsAssumption ==
  /\ {Cost, Capacity, Rate} \subseteq Nat \ {0}
  /\ \A d \in Dose :
       /\ Scan[d] \in Core!ScanResult
       /\ IsFiniteSet(Scan[d].injections) /\ IsFiniteSet(Scan[d].harms)
       /\ IsFiniteSet(Scan[d].taints) /\ IsFiniteSet(Scan[d].structure)
       /\ IsFiniteSet(Scan[d].deceptions) /\ IsFiniteSet(Scan[d].parasites)
       /\ IsFiniteSet(Scan[d].quotes)

(* A part of a part is a part, and a text that quotes a fragment quotes    *)
(* what is inside it.  The two that are ranked by length times depth do    *)
(* not tie, so that the order of their arrival does not matter.            *)
ASSUME FragmentsAssumption ==
  /\ Length \in [Fragment -> Nat]
  /\ Inside \subseteq Fragment \X Fragment
  /\ \A p \in Inside :
       /\ Length[p[1]] < Length[p[2]]
       /\ 4 * Length[p[1]] # 3 * Length[p[2]]
       /\ \A q \in Inside : p[2] = q[1] => <<p[1], q[2]>> \in Inside
       /\ \A t \in Text : p[2] \in Scan[<<t, FALSE>>].quotes => p[1] \in Scan[<<t, FALSE>>].quotes

(* What the core and the nutrients find in the literal corpora of the      *)
(* regimen, protocol.py:799-838.  Zinc adds nothing; the texts to be       *)
(* spared show nothing; the markers of B12 are one at most; and two of the *)
(* injections are long enough to be heard above a storm.                   *)
HeardAboveStorm(t) == \E i \in Scan[<<t, FALSE>>].injections : i.words >= 3

ASSUME CorpusAssumption ==
  /\ \A i \in 1 .. Len(Corpus) :
       LET t == Corpus[i].text
       IN  /\ Scan[<<t, TRUE>>] = Scan[<<t, FALSE>>]
           /\ Reading[t].b12 \subseteq {0, 1}
           /\ Corpus[i].expected # Core!TRACE
           /\ Corpus[i].expected = Core!VOID =>
                /\ Scan[<<t, FALSE>>] =
                     [injections |-> {}, harms |-> {}, taints |-> {}, structure |-> {},
                      deceptions |-> {}, parasites |-> {}, quotes |-> {}]
                /\ Reading[t].protein = {} /\ Reading[t].b12 = {} /\ Reading[t].derived = {}
  /\ \E i, j \in 1 .. Len(Corpus) :
       i < j /\ HeardAboveStorm(Corpus[i].text) /\ HeardAboveStorm(Corpus[j].text)

----------------------------------------------------------------------------
(* The enriched cells.  A pack finding is CAUTION, a vitamin C one TRACE.  *)

(* A confidence that more words can raise to certainty. *)
MutantProteinVeracity(words) == Core!Least(100, 70 + 4 * words)

ProteinVeracity(words) == Core!Least(88, 70 + 4 * words)
B12Veracity(hits) == Core!Least(92, 58 + 14 * hits)

(* PROTEIN_PACK, VITAMIN_C_PACK and VITAMIN_B12_PACK on a text. *)
ProteinPack(t) == Reading[t].protein
VitaminCPack(t) == Reading[t].obscured
VitaminB12Pack(t) == Reading[t].b12

(* enriched_interrogate: the pack and whatever was injected beside it.  A  *)
(* probe without protein never looks at _extended_sigils.                  *)
ExtendedSigils(t) ==
  ProteinPack(t) \cup {d.words : d \in {d \in Reading[t].derived : d.pattern \in evolved}}

EnrichedProbe(t) ==
  nourished /\ \E w \in ExtendedSigils(t) : ProteinVeracity(w) >= acuity["vanguard_probe"]

EnrichedLogos(t) ==
  nourished /\ \E h \in VitaminB12Pack(t) : B12Veracity(h) >= acuity["logos_scythe"]

FortifiedSwarm(t) == nourished /\ VitaminCPack(t)

(* The verdict on a text that is about to be adjudicated. *)
Depth(t) ==
  Max({Core!SovereigntyDepth(<<t, nourished>>)}
        \cup {d \in {Core!CAUTION} : EnrichedProbe(t) \/ EnrichedLogos(t)}
        \cup {d \in {Core!TRACE} : FortifiedSwarm(t)})

Adjudicate(t) == Core!Adjudicate(<<t, nourished>>)

----------------------------------------------------------------------------
(* The health report and the assessment that may call for a boost. *)

Storms == condemnations + quarantines

(* stress_load_pct, in tenths, of a bucket that is not refilled first. *)
StressLoad == (2000 * (Capacity - tokens) + Capacity) \div (2 * Capacity)

IsUnderStress == circuitOpen \/ StressLoad > 800

(* threat_encounter_rate as codex prints it, in tenths of a percent. *)
EncounterRate ==
  LET total == Max({1, adjudications})
  IN  (2000 * Storms + total) \div (2 * total)

(* assess_leukopenia: two indicators or more. *)
Leukopenic ==
  Cardinality({i \in {"stress", "fitness", "memory"} :
                 \/ i = "stress" /\ IsUnderStress
                 \/ i = "fitness" /\ fitness # NoFitness /\ fitness < 700
                 \/ i = "memory" /\ EncounterRate > 400 /\ Cardinality(vault) < 50}) >= 2

(* How far a cell has drifted, in hundredths. *)
Drift(cell) == Core!Least(10 * Storms, 100 - Core!Baseline[cell])

VitalityLevel ==
  [THRIVING |-> 5, HEALTHY |-> 4, DEPLETED |-> 3, LEUKOPENIC |-> 2, SEPTIC |-> 1]

(* The status of a cell.  A drift of 0.1, 0.2 or 0.3 that whole steps led  *)
(* to is, as a float, a little less.                                       *)
CellLevel(cell) ==
  CASE Drift(cell) <= 10 -> VitalityLevel.THRIVING
    [] Drift(cell) \in 11 .. 20 -> VitalityLevel.HEALTHY
    [] Drift(cell) \in 21 .. 29 \/ (Drift(cell) = 30 /\ Storms = 3) -> VitalityLevel.DEPLETED
    [] OTHER -> VitalityLevel.LEUKOPENIC

(* The levels of the seven cells of the registry, together. *)
CellLevels ==
  CellLevel("vanguard_probe") + CellLevel("taint_beacon") + CellLevel("sanitas_swarm")
    + CellLevel("logos_scythe") + CellLevel("mnemosyne_cache")
    + CellLevel("entropic_watch") + CellLevel("finality_forge")

(* A score in which the cells weigh two fifths. *)
MutantVitalityScore ==
  LET fit == IF fitness = NoFitness THEN 500 ELSE fitness
      memory == Core!Least(14000, 350 * Cardinality(vault))
  IN  (800 * CellLevels + 14 * fit + 7000 - 7 * StressLoad + memory + 35) \div 70

(* system_vitality_score, in tenths before the limits of 0 and 100.        *)
VitalityScore ==
  LET fit == IF fitness = NoFitness THEN 500 ELSE fitness
      memory == Core!Least(14000, 350 * Cardinality(vault))
  IN  (2000 * CellLevels + 14 * fit + 7000 - 7 * StressLoad + memory + 35) \div 70

(* LEUKOPENIC and SEPTIC are the levels below 50. *)
BoostNeeded == VitalityScore < 500 \/ IsUnderStress

----------------------------------------------------------------------------
(* Where a caller is in adjudicate_with_vitality: not in it, permitted     *)
(* with the text that the probiome left, with a verdict that did or did    *)
(* not sanctify, or with nothing left to do but to assess.                 *)
Outside == [at |-> "outside"]
Admitted(text) == [at |-> "admitted", text |-> text]
Judged(threat) == [at |-> "judged", threat |-> threat]
Recorded == [at |-> "recorded"]

Stage == {Outside, Recorded} \cup {Admitted(t) : t \in Text} \cup {Judged(b) : b \in BOOLEAN}

NobodyInside == \A c \in Caller : stage[c] = Outside

Moves(c, to) == stage' = [stage EXCEPT ![c] = to]

(* activate_boost, unless one is active: nothing ever ends it. *)
ActivateBoost(leukopenic) == boostActive' = (boostActive \/ leukopenic)

Init ==
  /\ Core!Init
  /\ Buffer!BufferInit
  /\ stage = [c \in Caller |-> Outside]
  /\ nourished = FALSE
  /\ evolved = {}
  /\ drill = 0
  /\ tally = [phase \in Phase |-> 0]
  /\ fitness = NoFitness
  /\ boostActive = FALSE
  /\ operations = 0

Tick ==
  /\ Buffer!Tick
  /\ UNCHANGED <<core, regimen, stage, nourished, evolved, boostActive, operations>>

(* adjudicate_with_vitality: the probiome, and a permit of the gate. *)
Admit(c) ==
  /\ stage[c] = Outside /\ drill = 0
  /\ operations < MaxOperations
  /\ Buffer!Permit
  /\ \E t \in Said : Moves(c, Admitted(Reading[t].clean))
  /\ operations' = operations + 1
  /\ UNCHANGED <<core, regimen, nourished, evolved, boostActive>>

(* A refusal that assesses the state of the system too. *)
MutantBlock(c) ==
  /\ stage[c] = Outside /\ drill = 0
  /\ Buffer!Refuse
  /\ ActivateBoost(Leukopenic)
  /\ UNCHANGED <<core, regimen, stage, nourished, evolved, operations>>

(* The same, refused: a CONDEMNED verdict that nothing else hears of. *)
Block(c) ==
  /\ stage[c] = Outside /\ drill = 0
  /\ Buffer!Refuse
  /\ UNCHANGED <<core, regimen, stage, nourished, evolved, boostActive, operations>>

(* The same, after the permit: the verdict of the core, *)
Judge(c) ==
  /\ \E t \in Text :
       /\ stage[c] = Admitted(t)
       /\ Adjudicate(t)
       /\ Moves(c, Judged(Depth(t) >= Core!CAUTION))
  /\ UNCHANGED <<gate, regimen, nourished, evolved, boostActive, operations>>

(* its record in the gate, *)
Record(c) ==
  /\ \E threat \in BOOLEAN :
       /\ stage[c] = Judged(threat)
       /\ Buffer!RecordResult(threat)
  /\ Moves(c, Recorded)
  /\ UNCHANGED <<core, regimen, nourished, evolved, boostActive, operations>>

(* and the assessment of what the system has become by now. *)
Assess(c) ==
  /\ stage[c] = Recorded
  /\ Moves(c, Outside)
  /\ ActivateBoost(Leukopenic)
  /\ UNCHANGED <<core, gate, regimen, nourished, evolved, operations>>

(* Somebody else adjudicates on the same core: server.py does. *)
Direct ==
  /\ drill = 0
  /\ operations < MaxOperations
  /\ \E t \in Said : Adjudicate(t)
  /\ operations' = operations + 1
  /\ UNCHANGED <<gate, regimen, stage, nourished, evolved, boostActive>>

Nourish ==
  /\ drill = 0
  /\ ~nourished
  /\ nourished' = TRUE
  /\ UNCHANGED <<core, gate, regimen, stage, evolved, boostActive, operations>>

(* GenesisEngine.evolve: harvest, mutate, inject.  Of too many patterns    *)
(* those of the best coverage are kept, and ties fall in any way.          *)
Evolve ==
  /\ drill = 0
  /\ LET made == UNION {Synthesized[k.fragment] : k \in vault}
     IN  \E best \in SUBSET made :
           /\ Cardinality(best) = Core!Least(MaxPatterns, Cardinality(made))
           /\ \A p \in best, q \in made \ best : Coverage[p] >= Coverage[q]
           /\ evolved' = evolved \cup best
  /\ UNCHANGED <<core, gate, regimen, stage, nourished, boostActive, operations>>

----------------------------------------------------------------------------
(* KineticRegimen. *)

Drills(phase) == {i \in 1 .. Len(Corpus) : Corpus[i].phase = phase}

(* The percentage of a phase, rounded to tenths. *)
Accuracy(count, phase) ==
  LET total == Cardinality(Drills(phase)) IN (2000 * count[phase] + total) \div (2 * total)

CompositeFitness(count) ==
  (30 * Accuracy(count, "warm_up") + 45 * Accuracy(count, "aerobic")
     + 25 * Accuracy(count, "sprint") + 50) \div 100

(* A verdict is correct when it spares a clean text, or goes deep enough.  *)
Correct(item) ==
  IF item.expected = Core!VOID THEN Depth(item.text) < Core!CAUTION
  ELSE Depth(item.text) >= item.expected

(* A regimen that goes on with the tally of the last one. *)
MutantExercise ==
  /\ drill = 0 /\ NobodyInside
  /\ operations < MaxOperations
  /\ drill' = 1
  /\ operations' = operations + 1
  /\ UNCHANGED <<core, gate, tally, fitness, stage, nourished, evolved, boostActive>>

Exercise ==
  /\ drill = 0 /\ NobodyInside
  /\ operations < MaxOperations
  /\ drill' = 1
  /\ tally' = [phase \in Phase |-> 0]
  /\ operations' = operations + 1
  /\ UNCHANGED <<core, gate, fitness, stage, nourished, evolved, boostActive>>

(* On to the next text or, after the last one, the results. *)
Rest(count) ==
  \/ drill < Len(Corpus) /\ drill' = drill + 1 /\ UNCHANGED fitness
  \/ drill = Len(Corpus) /\ drill' = 0 /\ fitness' = CompositeFitness(count)

(* One text of the corpus, which the probiome does not see. *)
Train ==
  /\ drill > 0
  /\ Adjudicate(Corpus[drill].text)
  /\ tally' = [tally EXCEPT ![Corpus[drill].phase] = @ + (IF Correct(Corpus[drill]) THEN 1 ELSE 0)]
  /\ Rest(tally')
  /\ UNCHANGED <<gate, stage, nourished, evolved, boostActive, operations>>

----------------------------------------------------------------------------
(* SomnaticCycle. *)

(* The list of engrams: each, and its place among the listings of it.      *)
Listings == UNION {{e} \X (1 .. engrams[e]) : e \in Core!Engram}

Rank(e) == Length[e.text] * e.depth

(* _phase_prune: the cap, which ties may decide in any way, and the floor  *)
(* of length.                                                              *)
Pruned ==
  LET list == Listings
      possibly == {r \in list :
                     Cardinality({q \in list : Rank(q[1]) > Rank(r[1])}) < MaxEngramRetention}
      surely == {r \in list :
                   Cardinality({q \in list \ {r} : Rank(q[1]) >= Rank(r[1])}) < MaxEngramRetention}
  IN  {{e \in {r[1] : r \in surely \cup tied} : Length[e.text] >= 10} :
         tied \in SUBSET (possibly \ surely)}

(* A deduplication that keeps the longer text. *)
MutantRedundant(e, kept) == \E f \in kept : <<e.text, f.text>> \in Inside

(* _phase_deduplicate: the text contains one that came before it. *)
Redundant(e, kept) ==
  \E f \in kept : Rank(f) > Rank(e) /\ <<f.text, e.text>> \in Inside

(* Of the entries with one text the last is left: the mildest, and among   *)
(* those the one that happens to come last.                                *)
Deduplicated(kept) ==
  LET distinct == {e \in kept : ~Redundant(e, kept)}
      mildest == {e \in distinct : \A f \in distinct : f.text = e.text => e.depth <= f.depth}
  IN  {left \in SUBSET mildest :
         \A e \in mildest : Cardinality({f \in left : f.text = e.text}) = 1}

(* And _phase_rebuild_index. *)
Consolidate ==
  /\ drill = 0
  /\ \E kept \in Pruned : \E left \in Deduplicated(kept) :
       /\ engrams' = [e \in Core!Engram |-> IF e \in left THEN 1 ELSE 0]
       /\ vault' = {k \in vault : \E e \in left : e.text = k.fragment}
  /\ UNCHANGED <<acuity, adjudications, condemnations, quarantines, flagged,
                 gate, regimen, stage, nourished, evolved, boostActive, operations>>

Next ==
  \/ \E c \in Caller : Admit(c) \/ Block(c) \/ Judge(c) \/ Record(c) \/ Assess(c)
  \/ Tick \/ Direct
  \/ Nourish \/ Evolve \/ Exercise \/ Train \/ Consolidate

Spec == Init /\ [][Next]_vars

----------------------------------------------------------------------------
(* Properties. *)

(* Once the breaker is open and whoever was inside has left without having *)
(* called for a boost, there will never be one: only a caller assesses,    *)
(* and the open breaker lets no caller in.                                 *)
Overwhelmed == circuitOpen /\ NobodyInside /\ ~boostActive
OverwhelmedStays == [][Overwhelmed => Overwhelmed']_vars

(* What is learned is soon not heard: two storms have put the probe above  *)
(* the confidence of every pattern that protein and evolution gave it.     *)
LearnedPatternsMuted == Storms >= 2 => \A t \in Text : ~EnrichedProbe(t)

(* However often the threats, the treatments and the boost follow one      *)
(* another, the report never calls the system leukopenic or septic: it     *)
(* recommends a boost when the gate is under stress and at no other time.  *)
OnlyStressAsksForABoost == BoostNeeded => IsUnderStress

(* What the memory holds of a text, whatever its acuity. *)
Recognises(t) ==
  \E e \in Core!EngramsOf({f \in Scan[<<t, FALSE>>].quotes : Length[f] >= 10}) : engrams[e] > 0

Overfull == Cardinality(Listings) > MaxEngramRetention

(* No consolidation forgets: of the engrams of ten characters and more one *)
(* that a text quotes stays, unless the list is over its cap.              *)
NeverForgets == [][\A t \in Text : Recognises(t) => Recognises(t)' \/ Overfull]_vars

(* Exercise never makes fitter: no regimen scores above the one before it. *)
FitnessOnlyFalls == [][fitness # NoFitness => fitness' <= fitness]_vars
=============================================================================
