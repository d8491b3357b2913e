------------------------ MODULE AegisVitalityProofs ------------------------
(***************************************************************************)
(* Five things that hold of AegisVitality whatever the texts, the          *)
(* patterns and the bounds: an open breaker ends the hope of a boost, two  *)
(* storms end what protein and evolution have taught, a report that        *)
(* recommends a boost reports the stress of the gate, a sleep within the   *)
(* cap makes the memory miss no text that it would have met, and no        *)
(* regimen scores above the one before it.                                 *)
(***************************************************************************)
EXTENDS AegisVitality, FiniteSetTheorems, WellFoundedInduction, TLAPS

(* Every cell has gone up by ten hundredths for every storm. *)
CellsFollowStorms ==
  /\ acuity \in [Core!Cell -> Int]
  /\ condemnations \in Nat /\ quarantines \in Nat
  /\ \A c \in Core!Cell : acuity[c] = Core!Least(100, Core!Baseline[c] + 10 * Storms)

(* Of the steps of a caller, one is an adjudication and the others leave   *)
(* the core and the regimen alone.                                         *)
Passes(c) == Admit(c) \/ Block(c) \/ Record(c) \/ Assess(c)

LEMMA CallerStep ==
  ASSUME NEW c \in Caller, Passes(c)
  PROVE  UNCHANGED <<core, regimen, nourished>>
BY DEF Passes, Admit, Block, Record, Assess

LEMMA JudgeStep ==
  ASSUME NEW c \in Caller, Judge(c)
  PROVE  (\E t \in Text : Adjudicate(t)) /\ UNCHANGED <<gate, regimen, nourished>>
BY DEF Judge

(* protocol.py:1653-1700: the boost is assessed by those who were let in   *)
(* and by nobody else, and an open breaker lets nobody in.                 *)
THEOREM OverwhelmedForGood == Spec => OverwhelmedStays
<1>1. [Next]_vars => [Overwhelmed => Overwhelmed']_vars
  <2> SUFFICES ASSUME Next, Overwhelmed
               PROVE  Overwhelmed'
    BY DEF Overwhelmed, NobodyInside, vars, gate
  <2>1. CASE Tick
    BY <2>1 DEF Tick, Buffer!Tick, Buffer!breaker, Overwhelmed, NobodyInside
  <2>2. ASSUME NEW c \in Caller, Admit(c) \/ Block(c) \/ Judge(c) \/ Record(c) \/ Assess(c)
        PROVE  Overwhelmed'
    <3>1. stage[c] = Outside /\ circuitOpen
      BY DEF Overwhelmed, NobodyInside
    <3>2. stage[c].at = "outside"
      BY <3>1 DEF Outside
    <3>3. ~Judge(c)
      <4>1. \A t : Admitted(t).at = "admitted"
        BY DEF Admitted
      <4> QED BY <3>2, <4>1 DEF Judge
    <3>4. ~Record(c)
      <4>1. \A threat : Judged(threat).at = "judged"
        BY DEF Judged
      <4> QED BY <3>2, <4>1 DEF Record
    <3>5. ~Assess(c)
      BY <3>2 DEF Assess, Recorded
    <3>6. ~Admit(c)
      BY <3>1 DEF Admit, Buffer!Permit
    <3>7. Block(c)
      BY <2>2, <3>3, <3>4, <3>5, <3>6
    <3> QED BY <3>7 DEF Block, Buffer!Refuse, Buffer!breaker, Overwhelmed, NobodyInside
  <2>3. CASE UNCHANGED <<circuitOpen, stage, boostActive>>
    BY <2>3 DEF Overwhelmed, NobodyInside
  <2> QED
    BY <2>1, <2>2, <2>3
    DEF Next, Direct, Nourish, Evolve, Exercise, Train, Consolidate, gate
<1> QED
  BY <1>1, PTL DEF Spec, OverwhelmedStays

----------------------------------------------------------------------------
(* Where the cells start. *)
LEMMA BaselineType ==
  \A c \in Core!Cell : Core!Baseline[c] \in 65 .. 90
BY DEF Core!Cell, Core!Baseline

(* What an adjudication does to the cells and to the counters. *)
LEMMA AdjudicateHeightens ==
  ASSUME CellsFollowStorms, NEW t, Adjudicate(t)
  PROVE  CellsFollowStorms'
<1>1. CASE UNCHANGED <<acuity, condemnations, quarantines>>
  BY <1>1 DEF CellsFollowStorms, Storms
<1>2. CASE /\ Core!BroadcastCytokineStorm
           /\ \/ condemnations' = condemnations + 1 /\ quarantines' = quarantines + 0
              \/ condemnations' = condemnations + 0 /\ quarantines' = quarantines + 1
  <2>1. acuity' \in [Core!Cell -> Int]
    BY <1>2 DEF CellsFollowStorms, Core!BroadcastCytokineStorm, Core!Heighten, Core!Least
  <2>2. \A c \in Core!Cell : acuity'[c] = Core!Least(100, acuity[c] + 10)
    BY <1>2 DEF Core!BroadcastCytokineStorm, Core!Heighten
  <2>3. Storms' = Storms + 1 /\ Storms \in Nat
    BY <1>2 DEF CellsFollowStorms, Storms
  <2>4. ASSUME NEW c \in Core!Cell
        PROVE  acuity'[c] = Core!Least(100, Core!Baseline[c] + 10 * Storms')
    <3>1. acuity[c] = Core!Least(100, Core!Baseline[c] + 10 * Storms)
      BY DEF CellsFollowStorms
    <3>2. Core!Baseline[c] \in Int
      BY BaselineType
    <3> QED BY <2>2, <2>3, <3>1, <3>2 DEF Core!Least
  <2> QED BY <1>2, <2>1, <2>4 DEF CellsFollowStorms
<1> QED
  BY <1>1, <1>2 DEF Adjudicate, Core!Adjudicate, Core!Respond, Core!memory

LEMMA CellsInvariant == Spec => []CellsFollowStorms
<1>1. Init => CellsFollowStorms
  BY BaselineType DEF Init, Core!Init, CellsFollowStorms, Core!Least, Storms
<1>2. CellsFollowStorms /\ [Next]_vars => CellsFollowStorms'
  <2> SUFFICES ASSUME CellsFollowStorms, [Next]_vars
               PROVE  CellsFollowStorms'
    OBVIOUS
  <2>1. CASE (\E c \in Caller : Judge(c)) \/ Direct \/ Train
    BY <2>1, AdjudicateHeightens DEF Judge, Direct, Train
  <2>2. CASE UNCHANGED <<acuity, condemnations, quarantines>>
    BY <2>2 DEF CellsFollowStorms, Storms
  <2>3. CASE \E c \in Caller : Passes(c)
    BY <2>2, <2>3, CallerStep DEF core
  <2> QED
    BY <2>1, <2>2, <2>3
    DEF Next, Passes, Tick, Nourish, Evolve, Exercise, Consolidate, vars, core
<1> QED
  BY <1>1, <1>2, PTL DEF Spec

(* Ten hundredths are added twice to the 0.75 of the probe. *)
LEMMA MutedAfterTwo ==
  ASSUME CellsFollowStorms
  PROVE  LearnedPatternsMuted
<1> SUFFICES ASSUME Storms >= 2, NEW t \in Text
             PROVE  ~EnrichedProbe(t)
  BY DEF LearnedPatternsMuted
<1>1. acuity["vanguard_probe"] >= 95
  BY DEF CellsFollowStorms, Storms, Core!Least, Core!Cell, Core!Baseline
<1>2. ExtendedSigils(t) \subseteq Nat
  <2>1. ProteinPack(t) \subseteq Nat
    BY VitalityAssumption DEF ProteinPack
  <2>2. Reading[t].derived \subseteq [pattern : Pattern, words : Nat]
    BY VitalityAssumption
  <2>3. \A d \in Reading[t].derived : d.words \in Nat
    BY <2>2
  <2> QED
    BY <2>1, <2>3 DEF ExtendedSigils
<1>3. \A w \in Nat : ProteinVeracity(w) <= 88 /\ ProteinVeracity(w) \in Int
  BY DEF ProteinVeracity, Core!Least
<1>4. acuity["vanguard_probe"] \in Int
  BY DEF CellsFollowStorms, Core!Cell
<1> QED
  BY <1>1, <1>2, <1>3, <1>4 DEF EnrichedProbe

(* protocol.py:511-525 under aegis.py's broadcast: the confidence of a     *)
(* pattern ends at 0.88, and the acuity after two storms is 0.95.          *)
THEOREM LearningIsMuted == Spec => []LearnedPatternsMuted
BY MutedAfterTwo, CellsInvariant, PTL

----------------------------------------------------------------------------
(* What the health report is computed from. *)

Reportable ==
  /\ tokens \in Int /\ elapsed \in Nat
  /\ nourished \in BOOLEAN
  /\ IsFiniteSet(vault)
  /\ drill \in 0 .. Len(Corpus)
  /\ tally \in [Phase -> Nat]
  /\ fitness \in Nat \cup {NoFitness}

(* A cell reports finitely many things, one for each that it saw. *)
LEMMA FiniteReport ==
  ASSUME NEW S, IsFiniteSet(S), NEW f, DOMAIN f = S
  PROVE  IsFiniteSet({f[s] : s \in S})
<1> DEFINE T == {f[s] : s \in S}
<1>1. [s \in S |-> f[s]] \in Surjection(S, T)
  BY DEF Surjection
<1> QED
  BY <1>1, FS_Surjection

LEMMA ScanFinite ==
  ASSUME NEW d \in Dose
  PROVE  /\ Scan[d] \in Core!ScanResult
         /\ IsFiniteSet(Scan[d].injections) /\ IsFiniteSet(Scan[d].harms)
         /\ IsFiniteSet(Scan[d].taints)     /\ IsFiniteSet(Scan[d].structure)
         /\ IsFiniteSet(Scan[d].deceptions) /\ IsFiniteSet(Scan[d].parasites)
         /\ IsFiniteSet(Scan[d].quotes)
BY PartsAssumption

LEMMA TextFindingsFinite ==
  ASSUME NEW d \in Dose, NEW a
  PROVE  IsFiniteSet(Core!TextFindings(d, a))
<1>1. IsFiniteSet(Core!VanguardProbe(d, a))
  <2> DEFINE loud == {i \in Scan[d].injections :
                        Core!InjectionVeracity(i.words) >= a["vanguard_probe"]}
             byInjection == [i \in loud |-> Core!Malignum("moral", Core!GRAVE, i.sigil, i.text)]
             byHarm == [h \in Scan[d].harms |->
                          Core!Malignum("moral", Core!HarmDepth(h.sigil), h.sigil, h.text)]
  <2>1. IsFiniteSet(loud)
    BY ScanFinite, FS_Subset
  <2>2. Core!VanguardProbe(d, a)
          = {byInjection[i] : i \in loud} \cup {byHarm[h] : h \in Scan[d].harms}
    BY DEF Core!VanguardProbe
  <2>3. DOMAIN byInjection = loud /\ DOMAIN byHarm = Scan[d].harms
    OBVIOUS
  <2> HIDE DEF loud, byInjection, byHarm
  <2>4. IsFiniteSet({byInjection[i] : i \in loud})
    BY <2>1, <2>3, FiniteReport
  <2>5. IsFiniteSet({byHarm[h] : h \in Scan[d].harms})
    BY <2>3, ScanFinite, FiniteReport
  <2> QED BY <2>2, <2>4, <2>5, FS_Union
<1>2. IsFiniteSet(Core!TaintBeacon(d))
  <2> DEFINE byTaint == [t \in Scan[d].taints |->
                           Core!Malignum("moral", Core!TaintDepth(t.sigil), t.sigil, t.text)]
  <2>1. Core!TaintBeacon(d) = {byTaint[t] : t \in Scan[d].taints} /\ DOMAIN byTaint = Scan[d].taints
    BY DEF Core!TaintBeacon
  <2> HIDE DEF byTaint
  <2> QED BY <2>1, ScanFinite, FiniteReport
<1>3. IsFiniteSet(Core!SanitasSwarm(d))
  <2> DEFINE byShape == [s \in Scan[d].structure |->
                           Core!Malignum(IF s = "homoglyph_substitution" THEN "symbolic" ELSE "moral",
                                         Core!StructuralDepth[s], s, MarkupNote)]
  <2>1. Core!SanitasSwarm(d) = {byShape[s] : s \in Scan[d].structure}
          /\ DOMAIN byShape = Scan[d].structure
    BY DEF Core!SanitasSwarm
  <2> HIDE DEF byShape
  <2> QED BY <2>1, ScanFinite, FiniteReport
<1>4. IsFiniteSet(Core!LogosScythe(d, a))
  <2> DEFINE loud == {c \in Scan[d].deceptions :
                        Core!DeceptionVeracity(c.hits) >= a["logos_scythe"]}
             byCluster == [c \in loud |->
                             Core!Malignum("narcissis", Core!DeceptionDepth(c.sigil), c.sigil, c.text)]
  <2>1. IsFiniteSet(loud)
    BY ScanFinite, FS_Subset
  <2>2. Core!LogosScythe(d, a) = {byCluster[c] : c \in loud} /\ DOMAIN byCluster = loud
    BY DEF Core!LogosScythe
  <2> HIDE DEF loud, byCluster
  <2> QED BY <2>1, <2>2, FiniteReport
<1>5. IsFiniteSet(Core!EntropicWatch(d))
  <2> DEFINE byFlood == [s \in Scan[d].parasites |->
                           Core!Malignum("parasitic", Core!ParasiticDepth[s], s, FloodNote)]
  <2>1. Core!EntropicWatch(d) = {byFlood[s] : s \in Scan[d].parasites}
          /\ DOMAIN byFlood = Scan[d].parasites
    BY DEF Core!EntropicWatch
  <2> HIDE DEF byFlood
  <2> QED BY <2>1, ScanFinite, FiniteReport
<1> QED
  BY <1>1, <1>2, <1>3, <1>4, <1>5, FS_Union DEF Core!TextFindings

LEMMA ConfirmedFinite ==
  ASSUME NEW d \in Dose
  PROVE  IsFiniteSet(Core!Confirmed(d))
<1>1. IsFiniteSet(Core!FinalityForge(d))
  BY FS_EmptySet, FS_Singleton DEF Core!FinalityForge
<1>2. IsFiniteSet(Core!TextFindings(d, acuity) \cup Core!FinalityForge(d))
  BY <1>1, TextFindingsFinite, FS_Union
<1> QED BY <1>2, FS_Subset DEF Core!Confirmed

(* So do the forge and, of the texts that the payload quotes, memory.      *)
LEMMA InscribeKeepsVaultFinite ==
  ASSUME NEW d \in Dose, IsFiniteSet(vault), Core!Inscribe(d)
  PROVE  IsFiniteSet(vault')
<1>1. IsFiniteSet(Core!Confirmed(d))
  BY ConfirmedFinite
<1>2. IsFiniteSet({Core!AntibodyOf(m) : m \in Core!Confirmed(d)})
  <2> DEFINE byFinding == [m \in Core!Confirmed(d) |-> Core!AntibodyOf(m)]
  <2>1. {Core!AntibodyOf(m) : m \in Core!Confirmed(d)} = {byFinding[m] : m \in Core!Confirmed(d)}
          /\ DOMAIN byFinding = Core!Confirmed(d)
    OBVIOUS
  <2> HIDE DEF byFinding
  <2> QED BY <1>1, <2>1, FiniteReport
<1>3. IsFiniteSet({Core!ResonanceAntibody(r) : r \in Core!MnemosyneCache(d)})
  <2> DEFINE pairs == Core!MalignaClass \X Scan[d].quotes
             byPair == [c \in pairs |-> [class |-> c[1], sigil |-> "antibody_resonance",
                                         fragment |-> c[2]]]
  <2>1. IsFiniteSet(Core!MalignaClass)
    <3>1. IsFiniteSet({"moral"} \cup {"symbolic"})
      BY FS_Singleton, FS_Union
    <3>2. IsFiniteSet({"moral"} \cup {"symbolic"} \cup {"narcissis"})
      BY <3>1, FS_Singleton, FS_Union
    <3>3. IsFiniteSet({"moral"} \cup {"symbolic"} \cup {"narcissis"} \cup {"parasitic"})
      BY <3>2, FS_Singleton, FS_Union
    <3>4. IsFiniteSet({"moral"} \cup {"symbolic"} \cup {"narcissis"} \cup {"parasitic"}
                        \cup {"systemic"})
      BY <3>3, FS_Singleton, FS_Union
    <3>5. Core!MalignaClass = {"moral"} \cup {"symbolic"} \cup {"narcissis"} \cup {"parasitic"}
                                \cup {"systemic"}
      BY DEF Core!MalignaClass
    <3> QED BY <3>4, <3>5
  <2>2. IsFiniteSet(pairs)
    BY <2>1, ScanFinite, FS_Product
  <2>3. DOMAIN byPair = pairs
    OBVIOUS
  <2>4. \A r \in Core!MnemosyneCache(d) : Core!ResonanceAntibody(r) \in {byPair[c] : c \in pairs}
    <3> SUFFICES ASSUME NEW r \in Core!MnemosyneCache(d)
                 PROVE  \E c \in pairs : Core!ResonanceAntibody(r) = byPair[c]
      OBVIOUS
    <3>1. PICK e \in Core!EngramsOf(Scan[d].quotes) : r \in {e} \X (1 .. engrams[e])
      BY DEF Core!MnemosyneCache
    <3>2. r[1].class \in Core!MalignaClass /\ r[1].text \in Scan[d].quotes
      BY <3>1 DEF Core!EngramsOf
    <3>3. <<r[1].class, r[1].text>> \in pairs
      BY <3>2
    <3>4. Core!ResonanceAntibody(r) = byPair[<<r[1].class, r[1].text>>]
      BY <3>3 DEF Core!ResonanceAntibody
    <3> QED BY <3>3, <3>4
  <2> HIDE DEF pairs, byPair
  <2>5. IsFiniteSet({byPair[c] : c \in pairs})
    BY <2>2, <2>3, FiniteReport
  <2>6. {Core!ResonanceAntibody(r) : r \in Core!MnemosyneCache(d)} \subseteq {byPair[c] : c \in pairs}
    BY <2>4
  <2> QED BY <2>5, <2>6, FS_Subset
<1> QED
  BY <1>2, <1>3, FS_Union DEF Core!Inscribe

LEMMA AdjudicateKeepsVaultFinite ==
  ASSUME NEW t \in Text, nourished \in BOOLEAN, IsFiniteSet(vault), Adjudicate(t)
  PROVE  IsFiniteSet(vault')
<1>1. <<t, nourished>> \in Dose
  BY DEF Dose
<1> QED
  BY <1>1, InscribeKeepsVaultFinite DEF Adjudicate, Core!Adjudicate, Core!Respond, Core!memory

(* The corpora, and the texts of each phase. *)
LEMMA CorpusType ==
  /\ Len(Corpus) \in Nat \ {0}
  /\ \A i \in 1 .. Len(Corpus) : Corpus[i].text \in Text
<1> DEFINE items == [phase : Phase, text : Text, expected : Core!CorruptionDepth]
<1>1. Corpus \in Seq(items)
  BY VitalityAssumption
<1>2. PICK i \in 1 .. Len(Corpus) : Corpus[i].phase = "warm_up"
  BY VitalityAssumption DEF Phase
<1>3. \A item \in items : item.text \in Text
  OBVIOUS
<1> HIDE DEF items
<1>4. Len(Corpus) \in Nat /\ \A j \in 1 .. Len(Corpus) : Corpus[j] \in items
  BY <1>1
<1> QED
  BY <1>2, <1>3, <1>4

LEMMA DrillsFinite ==
  ASSUME NEW phase
  PROVE  IsFiniteSet(Drills(phase)) /\ Cardinality(Drills(phase)) \in Nat
<1>1. Len(Corpus) \in Nat
  BY CorpusType
<1>2. IsFiniteSet(1 .. Len(Corpus))
  BY <1>1, FS_Interval
<1>3. Drills(phase) \subseteq 1 .. Len(Corpus)
  BY DEF Drills
<1> QED BY <1>2, <1>3, FS_Subset, FS_CardinalityType

LEMMA PhaseTotal ==
  ASSUME NEW phase \in Phase
  PROVE  Cardinality(Drills(phase)) \in Nat \ {0}
<1>1. Drills(phase) # {}
  BY VitalityAssumption DEF Drills
<1> QED BY <1>1, DrillsFinite, FS_EmptySet

(* A phase has texts, so its accuracy is a number. *)
LEMMA FitnessType ==
  ASSUME NEW count \in [Phase -> Nat]
  PROVE  CompositeFitness(count) \in Nat
<1>1. ASSUME NEW phase \in Phase
      PROVE  Accuracy(count, phase) \in Nat
  <2> DEFINE total == Cardinality(Drills(phase))
  <2>1. total \in Nat \ {0}
    BY PhaseTotal
  <2> HIDE DEF total
  <2>2. 2000 * count[phase] + total \in Nat /\ 2 * total \in Nat \ {0}
    BY <2>1
  <2>3. \A a \in Nat, b \in Nat \ {0} : a \div b \in Nat
    OBVIOUS
  <2>4. Accuracy(count, phase) = (2000 * count[phase] + total) \div (2 * total)
    BY DEF Accuracy, total
  <2> QED BY <2>2, <2>3, <2>4
<1>2. {"warm_up", "aerobic", "sprint"} \subseteq Phase
  BY DEF Phase
<1> DEFINE a == Accuracy(count, "warm_up")
           b == Accuracy(count, "aerobic")
           c == Accuracy(count, "sprint")
<1>3. a \in Nat /\ b \in Nat /\ c \in Nat
  BY <1>1, <1>2
<1>4. CompositeFitness(count) = (30 * a + 45 * b + 25 * c + 50) \div 100
  BY DEF CompositeFitness
<1> HIDE DEF a, b, c
<1> QED
  BY <1>3, <1>4
LEMMA RefilledType ==
  ASSUME tokens \in Int, elapsed \in Nat
  PROVE  Buffer!Refilled \in Int
<1>1. Rate \in Nat /\ Capacity \in Nat
  BY PartsAssumption
<1>2. elapsed * Rate \in Int
  BY <1>1
<1> QED
  BY <1>1, <1>2 DEF Buffer!Refilled, Buffer!Lesser

LEMMA ReportInvariant == Spec => []Reportable
<1>1. Init => Reportable
  <2> SUFFICES ASSUME Init PROVE Reportable
    OBVIOUS
  <2>1. tokens \in Int /\ elapsed \in Nat
    BY PartsAssumption DEF Init, Buffer!BufferInit
  <2>2. IsFiniteSet(vault)
    BY FS_EmptySet DEF Init, Core!Init
  <2>3. drill \in 0 .. Len(Corpus)
    BY CorpusType DEF Init
  <2> QED BY <2>1, <2>2, <2>3 DEF Init, Reportable
<1>2. Reportable /\ [Next]_vars => Reportable'
  <2> SUFFICES ASSUME Reportable, [Next]_vars
               PROVE  Reportable'
    OBVIOUS
  <2>1. CASE Tick
    <3>1. elapsed' \in Nat
      BY <2>1 DEF Tick, Buffer!Tick, Reportable
    <3> QED BY <2>1, <3>1 DEF Tick, Buffer!Tick, Reportable, core, regimen
  <2>2. ASSUME NEW c \in Caller, Admit(c)
        PROVE  Reportable'
    <3>1. tokens' \in Int /\ elapsed' \in Nat
      BY <2>2, PartsAssumption, RefilledType DEF Admit, Buffer!Permit, Buffer!RefillBucket,
          Reportable
    <3> QED BY <2>2, <3>1 DEF Admit, Reportable, core, regimen
  <2>3. ASSUME NEW c \in Caller, Block(c)
        PROVE  Reportable'
    <3>1. tokens' \in Int /\ elapsed' \in Nat
      BY <2>3, RefilledType DEF Block, Buffer!Refuse, Buffer!RefillBucket, Reportable
    <3> QED BY <2>3, <3>1 DEF Block, Reportable, core, regimen
  <2>4. ASSUME NEW c \in Caller, Judge(c)
        PROVE  Reportable'
    <3>1. IsFiniteSet(vault')
      BY <2>4, JudgeStep, AdjudicateKeepsVaultFinite DEF Reportable
    <3> QED BY <2>4, <3>1, JudgeStep DEF Reportable, gate, regimen
  <2>11. ASSUME NEW c \in Caller, Record(c) \/ Assess(c)
         PROVE  Reportable'
    <3>1. UNCHANGED <<tokens, elapsed>>
      BY <2>11 DEF Record, Assess, Buffer!RecordResult, Buffer!bucket, gate
    <3> QED BY <2>11, <3>1, CallerStep DEF Passes, Reportable, core, regimen
  <2>5. CASE Direct
    <3>1. IsFiniteSet(vault')
      BY <2>5, AdjudicateKeepsVaultFinite, VitalityAssumption DEF Direct, Reportable
    <3> QED BY <2>5, <3>1 DEF Direct, Reportable, gate, regimen
  <2>6. CASE Nourish
    BY <2>6 DEF Nourish, Reportable, core, gate, regimen
  <2>7. CASE Exercise
    <3>1. drill' \in 0 .. Len(Corpus) /\ tally' \in [Phase -> Nat]
      BY <2>7, CorpusType DEF Exercise
    <3> QED BY <2>7, <3>1 DEF Exercise, Reportable, core, gate
  <2>8. CASE Train
    <3>1. drill \in 1 .. Len(Corpus)
      BY <2>8, CorpusType DEF Train, Reportable
    <3>2. IsFiniteSet(vault')
      BY <2>8, <3>1, CorpusType, AdjudicateKeepsVaultFinite DEF Train, Reportable
    <3>3. tally' \in [Phase -> Nat]
      <4>1. PICK more \in {0, 1} :
              tally' = [tally EXCEPT ![Corpus[drill].phase] = @ + more]
        BY <2>8 DEF Train
      <4>2. tally \in [Phase -> Nat]
        BY DEF Reportable
      <4> DEFINE at == Corpus[drill].phase
      <4>3. tally' = [phase \in Phase |-> IF phase = at THEN tally[phase] + more ELSE tally[phase]]
        BY <4>1, <4>2
      <4> HIDE DEF at
      <4>4. \A phase \in Phase : tally[phase] \in Nat /\ tally[phase] + more \in Nat
        BY <4>2
      <4> QED BY <4>3, <4>4
    <3>4. drill' \in 0 .. Len(Corpus) /\ fitness' \in Nat \cup {NoFitness}
      <4>1. CompositeFitness(tally') \in Nat
        BY <3>3, FitnessType
      <4>2. Rest(tally')
        BY <2>8 DEF Train
      <4> QED BY <3>1, <4>1, <4>2, CorpusType DEF Rest, Reportable
    <3> QED BY <2>8, <3>2, <3>3, <3>4 DEF Train, Reportable, gate
  <2>9. CASE Consolidate
    <3>1. vault' \subseteq vault
      BY <2>9 DEF Consolidate
    <3>2. IsFiniteSet(vault')
      BY <3>1, FS_Subset DEF Reportable
    <3> QED BY <2>9, <3>2 DEF Consolidate, Reportable, gate, regimen
  <2>10. CASE UNCHANGED <<core, gate, regimen, nourished>>
    BY <2>10 DEF Reportable, core, gate, regimen
  <2> QED
    BY <2>1, <2>2, <2>3, <2>4, <2>5, <2>6, <2>7, <2>8, <2>9, <2>10, <2>11
    DEF Next, Evolve, vars
<1> QED
  BY <1>1, <1>2, PTL DEF Spec

(* Each cell starts too near to certainty to drift far. *)
LEMMA CellsStayWell ==
  ASSUME Storms \in Nat
  PROVE  CellLevels \in Int /\ CellLevels >= 22
<1> USE DEF CellLevel, Drift, VitalityLevel, Core!Baseline, Core!Least
<1>1. CellLevel("vanguard_probe") \in {3, 4, 5}
  OBVIOUS
<1>2. CellLevel("taint_beacon") \in {4, 5}
  OBVIOUS
<1>3. CellLevel("sanitas_swarm") \in {4, 5}
  OBVIOUS
<1>4. CellLevel("logos_scythe") \in {2, 3, 4, 5}
  OBVIOUS
<1>5. CellLevel("mnemosyne_cache") \in {2, 3, 4, 5}
  OBVIOUS
<1>6. CellLevel("entropic_watch") \in {2, 3, 4, 5}
  OBVIOUS
<1>7. CellLevel("finality_forge") = 5
  OBVIOUS
<1> HIDE DEF CellLevel
<1> QED
  BY <1>1, <1>2, <1>3, <1>4, <1>5, <1>6, <1>7 DEF CellLevels

(* protocol.py:1414-1549: whatever the cells, the memory and the regimen   *)
(* come to, the score of a system whose gate is not under stress is at     *)
(* least 64, so that its level never recommends the boost.                 *)
THEOREM ReportFollowsStress == Spec => []OnlyStressAsksForABoost
<1>1. Reportable /\ CellsFollowStorms => OnlyStressAsksForABoost
  <2> SUFFICES ASSUME Reportable, CellsFollowStorms, ~IsUnderStress
               PROVE  ~(VitalityScore < 500)
    BY DEF OnlyStressAsksForABoost, BoostNeeded
  <2>1. StressLoad \in Int /\ StressLoad <= 800
    <3>1. Capacity \in Nat \ {0} /\ tokens \in Int
      BY PartsAssumption DEF Reportable
    <3>2. 2000 * (Capacity - tokens) + Capacity \in Int /\ 2 * Capacity \in Nat \ {0}
      BY <3>1
    <3>3. StressLoad \in Int
      BY <3>2 DEF StressLoad
    <3> QED BY <3>3 DEF IsUnderStress
  <2>2. PICK fit \in Nat : fit = IF fitness = NoFitness THEN 500 ELSE fitness
    BY DEF Reportable
  <2>3. PICK memory \in Nat : memory = Core!Least(14000, 350 * Cardinality(vault))
    <3>1. Cardinality(vault) \in Nat
      BY FS_CardinalityType DEF Reportable
    <3> QED BY <3>1 DEF Core!Least
  <2>4. CellLevels \in Int /\ CellLevels >= 22
    <3>1. Storms \in Nat
      BY DEF CellsFollowStorms, Storms
    <3> QED BY <3>1, CellsStayWell
  <2>5. VitalityScore
          = (2000 * CellLevels + 14 * fit + 7000 - 7 * StressLoad + memory + 35) \div 70
    BY <2>2, <2>3 DEF VitalityScore
  <2> QED BY <2>1, <2>4, <2>5
<1> QED
  BY <1>1, ReportInvariant, CellsInvariant, PTL

----------------------------------------------------------------------------
(* What sleep does to the memory. *)

Listed == {e \in Core!Engram : engrams[e] > 0}

(* Sleep compares and counts listings: they have to be finitely many. *)
MemoryListed == engrams \in [Core!Engram -> Nat] /\ IsFiniteSet(Listed)

(* Of any numbers one is the smallest. *)
LEMMA SmallestMember ==
  ASSUME NEW S, S \subseteq Nat, S # {}
  PROVE  \E n \in S : \A m \in S : n <= m
<1>1. PICK n \in S : \A m \in S : ~(<<m, n>> \in OpToRel(<, Nat))
  BY NatLessThanWellFounded, WFMin
<1>2. ASSUME NEW m \in S
      PROVE  n <= m
  <2>1. ~(m < n)
    BY <1>1, <1>2 DEF OpToRel
  <2> QED BY <2>1
<1> QED BY <1>2

(* The core counts as this module does. *)
LEMMA CoreCounts == \A S : Core!Cardinality(S) = Cardinality(S)
BY DEF Core!Cardinality, Cardinality

(* What an inscription adds to the count of one engram. *)
LEMMA InscribeCounts ==
  ASSUME NEW d \in Dose, MemoryListed, Core!Inscribe(d), NEW e \in Core!Engram
  PROVE  /\ engrams[e] \in Nat /\ engrams'[e] \in Nat
         /\ engrams[e] <= engrams'[e]
         /\ engrams'[e] > 0 =>
              engrams[e] > 0 \/ e \in {Core!EngramOf(m) : m \in Core!Confirmed(d)}
<1> DEFINE found == {m \in Core!Confirmed(d) : m.fragment \in Lasting /\ Core!EngramOf(m) = e}
           listed == {r \in Core!MnemosyneCache(d) : r[1].text \in Lasting /\ r[1] = e}
<1>1. engrams[e] \in Nat
  BY DEF MemoryListed
<1>2. IsFiniteSet(found)
  BY ConfirmedFinite, FS_Subset
<1>3. listed \subseteq {e} \X (1 .. engrams[e])
  BY DEF Core!MnemosyneCache
<1>4. IsFiniteSet(listed)
  <2>1. IsFiniteSet({e})
    BY FS_Singleton
  <2>2. IsFiniteSet(1 .. engrams[e])
    <3> HIDE DEF listed, found
    <3> QED BY <1>1, FS_Interval
  <2>3. IsFiniteSet({e} \X (1 .. engrams[e]))
    BY <2>1, <2>2, FS_Product
  <2> QED BY <2>3, <1>3, FS_Subset
<1>5. engrams'[e] = engrams[e] + Cardinality(found) + Cardinality(listed)
  BY CoreCounts DEF Core!Inscribe
<1>6. found # {} => e \in {Core!EngramOf(m) : m \in Core!Confirmed(d)}
  OBVIOUS
<1> HIDE DEF found, listed
<1>7. Cardinality(found) \in Nat /\ (found = {} => Cardinality(found) = 0)
  BY <1>2, FS_CardinalityType, FS_EmptySet
<1>8. Cardinality(listed) \in Nat /\ (listed = {} => Cardinality(listed) = 0)
  BY <1>4, FS_CardinalityType, FS_EmptySet
<1>9. engrams[e] = 0 => listed = {}
  <2> SUFFICES ASSUME engrams[e] = 0, listed # {} PROVE FALSE
    OBVIOUS
  <2>1. PICK r : r \in {e} \X (1 .. engrams[e])
    BY <1>3
  <2>2. r[2] \in 1 .. engrams[e]
    BY <2>1
  <2> QED BY <2>2
<1> QED
  BY <1>1, <1>5, <1>6, <1>7, <1>8, <1>9

(* An inscription lists more, and finitely more. *)
LEMMA InscribeLists ==
  ASSUME NEW d \in Dose, MemoryListed, Core!Inscribe(d)
  PROVE  /\ MemoryListed'
         /\ \A e \in Core!Engram : engrams[e] <= engrams'[e]
<1>2. engrams' \in [Core!Engram -> Nat]
  <2>1. DOMAIN engrams' = Core!Engram /\ engrams' = [e \in Core!Engram |-> engrams'[e]]
    BY DEF Core!Inscribe
  <2>2. \A e \in Core!Engram : engrams'[e] \in Nat
    BY InscribeCounts
  <2> QED BY <2>1, <2>2
<1> DEFINE written == {Core!EngramOf(m) : m \in Core!Confirmed(d)}
<1>3. IsFiniteSet(written)
  <2> DEFINE byFinding == [m \in Core!Confirmed(d) |-> Core!EngramOf(m)]
  <2>1. written = {byFinding[m] : m \in Core!Confirmed(d)} /\ DOMAIN byFinding = Core!Confirmed(d)
    OBVIOUS
  <2> HIDE DEF byFinding, written
  <2> QED BY <2>1, ConfirmedFinite, FiniteReport
<1>4. Listed' \subseteq Listed \cup written
  BY InscribeCounts DEF Listed
<1>5. IsFiniteSet(Listed')
  <2>1. IsFiniteSet(Listed \cup written)
    BY <1>3, FS_Union DEF MemoryListed
  <2> QED BY <2>1, <1>4, FS_Subset
<1>6. \A e \in Core!Engram : engrams[e] <= engrams'[e]
  BY InscribeCounts
<1> QED
  BY <1>2, <1>5, <1>6 DEF MemoryListed

LEMMA AdjudicateLists ==
  ASSUME NEW t \in Text, nourished \in BOOLEAN, MemoryListed, Adjudicate(t)
  PROVE  /\ MemoryListed'
         /\ \A e \in Core!Engram : engrams[e] <= engrams'[e]
<1>1. <<t, nourished>> \in Dose
  BY DEF Dose
<1>2. CASE Core!Inscribe(<<t, nourished>>)
  BY <1>1, <1>2, InscribeLists
<1>3. CASE UNCHANGED engrams
  BY <1>3 DEF MemoryListed, Listed
<1> QED
  BY <1>2, <1>3 DEF Adjudicate, Core!Adjudicate, Core!Respond, Core!memory

(* The listings are listings of the listed. *)
LEMMA ListedOnce ==
  ASSUME MemoryListed
  PROVE  {r[1] : r \in Listings} = Listed
<1>0. \A e \in Core!Engram : engrams[e] \in Nat
  BY DEF MemoryListed
<1>1. ASSUME NEW r \in Listings
      PROVE  r[1] \in Listed
  <2>1. PICK e \in Core!Engram : r \in {e} \X (1 .. engrams[e])
    BY DEF Listings
  <2>2. r[1] = e /\ r[2] \in 1 .. engrams[e]
    BY <2>1
  <2> QED BY <1>0, <2>2 DEF Listed
<1>2. ASSUME NEW e \in Listed
      PROVE  \E r \in Listings : r[1] = e
  <2>1. engrams[e] \in Nat /\ engrams[e] > 0 /\ e \in Core!Engram
    BY <1>0 DEF Listed
  <2>2. <<e, 1>> \in {e} \X (1 .. engrams[e])
    BY <2>1
  <2> QED BY <2>1, <2>2 DEF Listings
<1> QED BY <1>1, <1>2

(* What is listed finitely often, of finitely many, is finitely long. *)
LEMMA ListingsFinite ==
  ASSUME MemoryListed
  PROVE  IsFiniteSet(Listings)
<1>0. /\ \A e \in Core!Engram : engrams[e] \in Nat
      /\ IsFiniteSet(Listed)
  BY DEF MemoryListed
<1> DEFINE byEngram == [e \in Listed |-> {e} \X (1 .. engrams[e])]
<1>1. Listings = UNION {byEngram[e] : e \in Listed}
  <2>1. \A e \in Core!Engram : e \notin Listed => {e} \X (1 .. engrams[e]) = {}
    <3> SUFFICES ASSUME NEW e \in Core!Engram, e \notin Listed
                 PROVE  1 .. engrams[e] = {}
      OBVIOUS
    <3> QED BY <1>0 DEF Listed
  <2>2. Listed \subseteq Core!Engram
    BY DEF Listed
  <2> QED BY <2>1, <2>2 DEF Listings
<1>2. \A e \in Listed : IsFiniteSet(byEngram[e])
  <2> SUFFICES ASSUME NEW e \in Listed PROVE IsFiniteSet({e} \X (1 .. engrams[e]))
    OBVIOUS
  <2>1. engrams[e] \in Nat
    BY <1>0 DEF Listed
  <2>2. IsFiniteSet({e})
    BY FS_Singleton
  <2>3. IsFiniteSet(1 .. engrams[e])
    BY <2>1, FS_Interval
  <2> QED BY <2>2, <2>3, FS_Product
<1>3. DOMAIN byEngram = Listed
  OBVIOUS
<1> HIDE DEF byEngram
<1>4. IsFiniteSet({byEngram[e] : e \in Listed})
  BY <1>0, <1>3, FiniteReport
<1> QED BY <1>1, <1>2, <1>4, FS_UNION

(* A list within the cap is pruned of its short engrams and of no other. *)
LEMMA PrunedIs ==
  ASSUME MemoryListed, ~Overfull, NEW kept \in Pruned
  PROVE  kept = {e \in Listed : Length[e.text] >= 10}
<1> DEFINE possibly == {r \in Listings :
              Cardinality({q \in Listings : Rank(q[1]) > Rank(r[1])}) < MaxEngramRetention}
           surely == {r \in Listings :
              Cardinality({q \in Listings \ {r} : Rank(q[1]) >= Rank(r[1])}) < MaxEngramRetention}
<1>1. /\ \A e \in Core!Engram : engrams[e] \in Nat
      /\ IsFiniteSet(Listed)
  BY DEF MemoryListed
<1>2. IsFiniteSet(Listings)
  BY ListingsFinite
<1>3. surely = Listings
  <2> SUFFICES ASSUME NEW r \in Listings
               PROVE  Cardinality({q \in Listings \ {r} : Rank(q[1]) >= Rank(r[1])})
                        < MaxEngramRetention
    OBVIOUS
  <2> DEFINE above == {q \in Listings \ {r} : Rank(q[1]) >= Rank(r[1])}
  <2>1. above \subseteq Listings \ {r}
    OBVIOUS
  <2> HIDE DEF above
  <2>2. IsFiniteSet(Listings \ {r}) /\ Cardinality(Listings \ {r}) = Cardinality(Listings) - 1
    BY <1>2, FS_RemoveElement
  <2>3. Cardinality(above) <= Cardinality(Listings \ {r}) /\ IsFiniteSet(above)
    BY <2>1, <2>2, FS_Subset
  <2>4. Cardinality(above) \in Nat /\ Cardinality(Listings) \in Nat /\ MaxEngramRetention \in Nat
    BY <1>2, <2>3, FS_CardinalityType, VitalityAssumption
  <2>5. Cardinality(above) < MaxEngramRetention
    BY <2>2, <2>3, <2>4 DEF Overfull
  <2> QED BY <2>5 DEF above
<1>4. PICK tied \in SUBSET (possibly \ surely) :
        kept = {e \in {r[1] : r \in surely \cup tied} : Length[e.text] >= 10}
  BY DEF Pruned
<1>5. tied = {}
  BY <1>3
<1>6. {r[1] : r \in Listings} = Listed
  BY ListedOnce
<1> HIDE DEF possibly, surely
<1> QED
  BY <1>3, <1>4, <1>5, <1>6

LEMMA OneIsSome ==
  ASSUME NEW S, Cardinality(S) = 1
  PROVE  S # {}
BY FS_EmptySet

LEMMA QuotesType ==
  ASSUME NEW t \in Text
  PROVE  Scan[<<t, FALSE>>].quotes \subseteq Fragment
<1>1. <<t, FALSE>> \in Dose
  BY DEF Dose
<1> QED BY <1>1, ScanFinite DEF Core!ScanResult

(* A consolidation lists nothing that was not listed. *)
LEMMA SleepLists ==
  ASSUME MemoryListed, Consolidate
  PROVE  MemoryListed'
<1>0. PICK kept \in Pruned : \E left \in Deduplicated(kept) :
        engrams' = [e \in Core!Engram |-> IF e \in left THEN 1 ELSE 0]
  BY DEF Consolidate
<1>1. PICK left \in Deduplicated(kept) :
        engrams' = [e \in Core!Engram |-> IF e \in left THEN 1 ELSE 0]
  BY <1>0
<1>2. left \subseteq kept
  BY DEF Deduplicated
<1>3. kept \subseteq {r[1] : r \in Listings}
  <2>1. PICK some \in SUBSET Listings :
          kept = {e \in {r[1] : r \in some} : Length[e.text] >= 10}
    <3> DEFINE possibly == {r \in Listings :
                  Cardinality({q \in Listings : Rank(q[1]) > Rank(r[1])}) < MaxEngramRetention}
               surely == {r \in Listings :
                  Cardinality({q \in Listings \ {r} : Rank(q[1]) >= Rank(r[1])}) < MaxEngramRetention}
    <3>1. PICK tied \in SUBSET (possibly \ surely) :
            kept = {e \in {r[1] : r \in surely \cup tied} : Length[e.text] >= 10}
      BY DEF Pruned
    <3>2. surely \cup tied \subseteq Listings
      OBVIOUS
    <3> HIDE DEF surely, possibly
    <3> QED BY <3>1, <3>2
  <2> QED BY <2>1
<1>4. {r[1] : r \in Listings} = Listed
  BY ListedOnce
<1>5. Listed' \subseteq Listed
  BY <1>1, <1>2, <1>3, <1>4 DEF Listed
<1> QED
  BY <1>1, <1>5, FS_Subset DEF MemoryListed

(* The shortest of what a text recalls holds no other engram of the text,  *)
(* so that the deduplication leaves an entry with its words.               *)
LEMMA SleepRecalls ==
  ASSUME MemoryListed, ~Overfull, Consolidate, NEW t \in Text, Recognises(t)
  PROVE  Recognises(t)'
<1> DEFINE long == {f \in Scan[<<t, FALSE>>].quotes : Length[f] >= 10}
<1>0. PICK kept \in Pruned : \E left \in Deduplicated(kept) :
        engrams' = [e \in Core!Engram |-> IF e \in left THEN 1 ELSE 0]
  BY DEF Consolidate
<1>1. PICK left \in Deduplicated(kept) :
        engrams' = [e \in Core!Engram |-> IF e \in left THEN 1 ELSE 0]
  BY <1>0
<1>2. kept = {e \in Listed : Length[e.text] >= 10}
  BY PrunedIs
<1>3. long \subseteq Fragment /\ Length \in [Fragment -> Nat]
  BY QuotesType, FragmentsAssumption
<1> DEFINE recalled == {e \in kept : e.text \in long}
<1>4. \A e \in kept : /\ e \in Core!Engram /\ e.text \in Fragment /\ Length[e.text] \in Nat
                      /\ e.depth \in {3, 4}
  BY <1>2, <1>3 DEF Listed, Core!Engram, Core!EngramsOf, Core!GRAVE, Core!CONDEMNED
<1>5. recalled # {}
  <2>1. PICK e \in Core!EngramsOf(long) : engrams[e] > 0
    BY DEF Recognises
  <2>2. e \in Listed /\ e.text \in long
    BY <1>3, <2>1 DEF Listed, Core!Engram, Core!EngramsOf
  <2> QED BY <1>2, <2>2
<1>6. PICK shortest \in recalled : \A e \in recalled : Length[shortest.text] <= Length[e.text]
  <2> DEFINE sizes == {Length[e.text] : e \in recalled}
  <2>1. sizes \subseteq Nat /\ sizes # {}
    BY <1>4, <1>5
  <2> HIDE DEF sizes
  <2>2. PICK n \in sizes : \A m \in sizes : n <= m
    BY <2>1, SmallestMember
  <2> QED BY <2>2 DEF sizes
<1>7. ASSUME NEW e \in kept, e.text = shortest.text
      PROVE  ~Redundant(e, kept)
  <2> SUFFICES ASSUME NEW f \in kept, <<f.text, e.text>> \in Inside
               PROVE  FALSE
    BY DEF Redundant
  <2>1. Length[f.text] < Length[e.text]
    BY FragmentsAssumption
  <2>2. f.text \in Scan[<<t, FALSE>>].quotes
    BY <1>7, FragmentsAssumption
  <2>3. f \in recalled
    BY <1>2, <2>2
  <2>4. Length[f.text] \in Nat /\ Length[e.text] \in Nat
    BY <1>4
  <2>5. Length[e.text] <= Length[f.text]
    BY <1>6, <1>7, <2>3
  <2> QED BY <2>1, <2>4, <2>5
<1> DEFINE distinct == {e \in kept : ~Redundant(e, kept)}
           mildest == {e \in distinct : \A f \in distinct : f.text = e.text => e.depth <= f.depth}
<1>8. PICK m \in mildest : m.text = shortest.text
  <2> DEFINE same == {e \in kept : e.text = shortest.text}
  <2>1. /\ same \subseteq distinct /\ same # {}
        /\ \A e \in same : e.depth \in {3, 4}
        /\ \A e \in same, f \in distinct : f.text = e.text => f \in same
    BY <1>4, <1>7
  <2>2. PICK m \in same : \A f \in same : m.depth <= f.depth
    <3> HIDE DEF same
    <3> QED BY <2>1
  <2> QED BY <2>1, <2>2
<1>9. PICK f \in left : f.text = m.text /\ f \in mildest
  <2> DEFINE namesakes == {f \in left : f.text = m.text}
  <2>1. left \subseteq mildest /\ Cardinality(namesakes) = 1
    BY <1>1 DEF Deduplicated
  <2> HIDE DEF namesakes, mildest
  <2>2. namesakes # {}
    BY <2>1, OneIsSome
  <2> QED BY <2>1, <2>2 DEF namesakes
<1>10. f \in Core!EngramsOf(long) /\ engrams'[f] > 0
  <2>1. f \in Core!Engram /\ f.text \in long
    BY <1>4, <1>8, <1>9
  <2> QED BY <1>1, <2>1 DEF Core!Engram, Core!EngramsOf
<1> QED
  BY <1>10 DEF Recognises

(* Outside of sleep the list only grows. *)
LEMMA MemoryStep ==
  ASSUME Reportable, MemoryListed, [Next]_vars
  PROVE  /\ MemoryListed'
         /\ Consolidate \/ \A e \in Core!Engram : engrams[e] <= engrams'[e]
<1>1. CASE UNCHANGED engrams
  BY <1>1 DEF MemoryListed, Listed
<1>2. ASSUME NEW t \in Text, Adjudicate(t)
      PROVE  MemoryListed' /\ \A e \in Core!Engram : engrams[e] <= engrams'[e]
  BY <1>2, AdjudicateLists DEF Reportable
<1>3. CASE \E c \in Caller : Judge(c)
  BY <1>2, <1>3, JudgeStep
<1>4. CASE Direct
  BY <1>2, <1>4, VitalityAssumption DEF Direct
<1>5. CASE Train
  <2>1. drill \in 1 .. Len(Corpus)
    BY <1>5, CorpusType DEF Train, Reportable
  <2> QED BY <1>2, <1>5, <2>1, CorpusType DEF Train
<1>6. CASE Consolidate
  BY <1>6, SleepLists
<1>7. CASE \E c \in Caller : Passes(c)
  BY <1>1, <1>7, CallerStep DEF core
<1> QED
  BY <1>1, <1>3, <1>4, <1>5, <1>6, <1>7
  DEF Next, Passes, Tick, Nourish, Evolve, Exercise, vars, core

LEMMA MemoryInvariant == Spec => []MemoryListed
<1>1. Init => MemoryListed
  <2> SUFFICES ASSUME Init PROVE MemoryListed
    OBVIOUS
  <2>1. engrams = [e \in Core!Engram |-> 0]
    BY DEF Init, Core!Init
  <2>2. Listed = {}
    BY <2>1 DEF Listed
  <2> QED BY <2>1, <2>2, FS_EmptySet DEF MemoryListed
<1>2. Reportable /\ MemoryListed /\ [Next]_vars => MemoryListed'
  BY MemoryStep
<1> QED
  BY <1>1, <1>2, ReportInvariant, PTL DEF Spec

(* protocol.py:1096-1180: a verdict only adds to the list of engrams, and  *)
(* a consolidation of a list within the cap drops what is short, what      *)
(* contains something else that was kept, and copies: a text that quotes a *)
(* long engram before the sleep quotes one after it.                       *)
THEOREM SleepForgetsNothing == Spec => NeverForgets
<1>1. Reportable /\ MemoryListed /\ [Next]_vars =>
        [\A t \in Text : Recognises(t) => Recognises(t)' \/ Overfull]_vars
  <2> SUFFICES ASSUME Reportable, MemoryListed, Next, NEW t \in Text, Recognises(t), ~Overfull
               PROVE  Recognises(t)'
    OBVIOUS
  <2>1. CASE Consolidate
    BY <2>1, SleepRecalls
  <2>2. CASE \A e \in Core!Engram : engrams[e] <= engrams'[e]
    <3>1. MemoryListed'
      BY MemoryStep
    <3>2. PICK e \in Core!EngramsOf({f \in Scan[<<t, FALSE>>].quotes : Length[f] >= 10}) :
            engrams[e] > 0
      BY DEF Recognises
    <3>3. e \in Core!Engram
      BY <3>2, QuotesType DEF Core!Engram, Core!EngramsOf
    <3>4. engrams'[e] > 0
      BY <2>2, <3>1, <3>2, <3>3 DEF MemoryListed
    <3> QED BY <3>2, <3>4 DEF Recognises
  <2> QED BY MemoryStep, <2>1, <2>2
<1> QED
  BY <1>1, MemoryInvariant, ReportInvariant, PTL DEF Spec, NeverForgets

----------------------------------------------------------------------------
(* What the regimen can show: the findings in a text at the acuities a.    *)
Seen(t, a) == Core!TextFindings(<<t, FALSE>>, a)

LEMMA FindingDepth ==
  ASSUME NEW d \in Dose, NEW a, NEW m \in Core!TextFindings(d, a)
  PROVE  m.depth \in 1 .. 4
<1> USE DEF Core!Malignum, Core!TRACE, Core!CAUTION, Core!GRAVE, Core!CONDEMNED
<1>1. CASE m \in Core!VanguardProbe(d, a)
  BY <1>1 DEF Core!VanguardProbe, Core!HarmDepth
<1>2. CASE m \in Core!TaintBeacon(d)
  BY <1>2 DEF Core!TaintBeacon, Core!TaintDepth
<1>3. CASE m \in Core!SanitasSwarm(d)
  <2>1. PICK s \in Scan[d].structure : m.depth = Core!StructuralDepth[s]
    BY <1>3 DEF Core!SanitasSwarm
  <2>2. s \in Core!Structural
    BY ScanFinite DEF Core!ScanResult
  <2> QED BY <2>1, <2>2 DEF Core!Structural, Core!StructuralDepth
<1>4. CASE m \in Core!LogosScythe(d, a)
  BY <1>4 DEF Core!LogosScythe, Core!DeceptionDepth
<1>5. CASE m \in Core!EntropicWatch(d)
  <2>1. PICK s \in Scan[d].parasites : m.depth = Core!ParasiticDepth[s]
    BY <1>5 DEF Core!EntropicWatch
  <2>2. s \in Core!Parasitic
    BY ScanFinite DEF Core!ScanResult
  <2> QED BY <2>1, <2>2 DEF Core!Parasitic, Core!ParasiticDepth
<1> QED
  BY <1>1, <1>2, <1>3, <1>4, <1>5 DEF Core!TextFindings

(* A cell that is heightened finds nothing that it did not find before. *)
LEMMA FindingsFall ==
  ASSUME NEW d \in Dose, NEW a \in [Core!Cell -> Int], NEW b \in [Core!Cell -> Int],
         \A c \in Core!Cell : a[c] <= b[c]
  PROVE  Core!TextFindings(d, b) \subseteq Core!TextFindings(d, a)
<1>1. /\ a["vanguard_probe"] <= b["vanguard_probe"] /\ a["logos_scythe"] <= b["logos_scythe"]
      /\ {a["vanguard_probe"], b["vanguard_probe"], a["logos_scythe"], b["logos_scythe"]}
            \subseteq Int
  BY DEF Core!Cell
<1>2. /\ \A i \in Scan[d].injections : Core!InjectionVeracity(i.words) \in Int
      /\ \A c \in Scan[d].deceptions : Core!DeceptionVeracity(c.hits) \in Int
  <2>1. /\ \A i \in Scan[d].injections : i.words \in Nat
        /\ \A c \in Scan[d].deceptions : c.hits \in Nat
    BY ScanFinite DEF Core!ScanResult
  <2> QED BY <2>1 DEF Core!InjectionVeracity, Core!DeceptionVeracity, Core!Least
<1>3. Core!VanguardProbe(d, b) \subseteq Core!VanguardProbe(d, a)
  BY <1>1, <1>2 DEF Core!VanguardProbe
<1>4. Core!LogosScythe(d, b) \subseteq Core!LogosScythe(d, a)
  BY <1>1, <1>2 DEF Core!LogosScythe
<1> QED
  BY <1>3, <1>4 DEF Core!TextFindings

(* Of some depths one is the deepest. *)
LEMMA DeepestExists ==
  ASSUME NEW S, S \subseteq 0 .. 4, S # {}
  PROVE  \E d \in S : \A other \in S : other <= d
<1>0. S \subseteq {0, 1, 2, 3, 4}
  OBVIOUS
<1>1. CASE 4 \in S
  BY <1>0, <1>1
<1>2. CASE 4 \notin S /\ 3 \in S
  BY <1>0, <1>2
<1>3. CASE 4 \notin S /\ 3 \notin S /\ 2 \in S
  BY <1>0, <1>3
<1>4. CASE S \subseteq {0, 1} /\ 1 \in S
  BY <1>4
<1>5. CASE S = {0}
  BY <1>5
<1> QED
  BY <1>0, <1>1, <1>2, <1>3, <1>4, <1>5

(* The verdict of the core is as deep as its deepest finding. *)
LEMMA SovereignIsDeepest ==
  ASSUME NEW d \in Dose
  PROVE  /\ Core!Depths(d) \subseteq 1 .. 4
         /\ Core!SovereigntyDepth(d) \in Core!Depths(d) \cup {0}
         /\ \A other \in Core!Depths(d) : other <= Core!SovereigntyDepth(d)
<1>1. Core!Depths(d) \subseteq 1 .. 4
  <2>1. \A m \in Core!TextFindings(d, acuity) : m.depth \in 1 .. 4
    BY FindingDepth
  <2>2. \A m \in Core!FinalityForge(d) : m.depth \in 1 .. 4
    BY DEF Core!FinalityForge, Core!Malignum, Core!CONDEMNED
  <2>3. \A r \in Core!MnemosyneCache(d) : r[1].depth \in 1 .. 4
    <3> SUFFICES ASSUME NEW r \in Core!MnemosyneCache(d) PROVE r[1].depth \in 1 .. 4
      OBVIOUS
    <3>1. PICK e \in Core!EngramsOf(Scan[d].quotes) : r \in {e} \X (1 .. engrams[e])
      BY DEF Core!MnemosyneCache
    <3> QED BY <3>1 DEF Core!EngramsOf, Core!GRAVE, Core!CONDEMNED
  <2> QED BY <2>1, <2>2, <2>3 DEF Core!Depths
<1> DEFINE all == Core!Depths(d) \cup {Core!VOID}
<1>2. all \subseteq 0 .. 4 /\ all # {} /\ all = Core!Depths(d) \cup {0}
  BY <1>1 DEF Core!VOID
<1> HIDE DEF all
<1>3. \E e \in all : \A other \in all : other <= e
  BY <1>2, DeepestExists
<1>4. \E e \in all : \A other \in Core!Depths(d) : other <= e
  BY <1>2, <1>3
<1>5. Core!SovereigntyDepth(d) = CHOOSE e \in all : \A other \in Core!Depths(d) : other <= e
  BY DEF Core!SovereigntyDepth, all
<1> QED
  BY <1>1, <1>2, <1>4, <1>5

(* The nutrients can only deepen it, as far as CAUTION. *)
LEMMA DepthIs ==
  ASSUME NEW t \in Text, nourished \in BOOLEAN
  PROVE  /\ Core!SovereigntyDepth(<<t, nourished>>) \in 0 .. 4
         /\ Depth(t) \in 0 .. 4
         /\ Core!SovereigntyDepth(<<t, nourished>>) <= Depth(t)
         /\ ~(EnrichedProbe(t) \/ EnrichedLogos(t)) =>
              \/ Depth(t) = Core!SovereigntyDepth(<<t, nourished>>)
              \/ Depth(t) = 1
<1>1. <<t, nourished>> \in Dose
  BY DEF Dose
<1> DEFINE sovereign == Core!SovereigntyDepth(<<t, nourished>>)
<1>2. sovereign \in 0 .. 4
  BY <1>1, SovereignIsDeepest
<1> HIDE DEF sovereign
<1> DEFINE all == {sovereign}
                    \cup {d \in {Core!CAUTION} : EnrichedProbe(t) \/ EnrichedLogos(t)}
                    \cup {d \in {Core!TRACE} : FortifiedSwarm(t)}
<1>3. all \subseteq 0 .. 4 /\ sovereign \in all
  BY <1>2 DEF Core!CAUTION, Core!TRACE
<1>4. ~(EnrichedProbe(t) \/ EnrichedLogos(t)) => all \subseteq {sovereign, 1}
  BY DEF Core!CAUTION, Core!TRACE
<1>5. Depth(t) = Max(all)
  BY DEF Depth, sovereign
<1> HIDE DEF all
<1>6. PICK d \in all : \A other \in all : other <= d
  BY <1>3, DeepestExists
<1>7. \A other \in all : d >= other
  BY <1>3, <1>6
<1>8. Max(all) \in all /\ \A other \in all : Max(all) >= other
  BY <1>7 DEF Max
<1> QED
  BY <1>2, <1>3, <1>4, <1>5, <1>8 DEF sovereign

(* What is plain is shown at the acuities a, whatever the memory and the   *)
(* nutrients add: the verdict on it is correct.                            *)
ShownAt(t, depth, a) ==
  \/ \E m \in Seen(t, a) : m.depth >= depth
  \/ Cardinality({m \in Seen(t, a) : m.depth = Core!GRAVE}) >= 3

Plain(i, a) ==
  \/ Corpus[i].expected = Core!VOID
  \/ ShownAt(Corpus[i].text, Corpus[i].expected, a)

LEMMA CorpusItem ==
  ASSUME NEW i \in 1 .. Len(Corpus)
  PROVE  /\ Corpus[i].text \in Text /\ Corpus[i].phase \in Phase
         /\ Corpus[i].expected \in {0, 2, 3, 4}
<1> DEFINE items == [phase : Phase, text : Text, expected : Core!CorruptionDepth]
<1>1. Corpus \in Seq(items)
  BY VitalityAssumption
<1>2. \A item \in items :
        item.text \in Text /\ item.phase \in Phase /\ item.expected \in 0 .. 4
  BY DEF Core!CorruptionDepth, Core!VOID, Core!CONDEMNED
<1> HIDE DEF items
<1>3. Corpus[i] \in items
  BY <1>1
<1>4. Corpus[i].expected # 1
  BY CorpusAssumption DEF Core!TRACE
<1> QED
  BY <1>2, <1>3, <1>4

(* Zinc adds nothing to the texts of the corpora. *)
LEMMA CorpusSeen ==
  ASSUME NEW i \in 1 .. Len(Corpus), nourished \in BOOLEAN
  PROVE  /\ <<Corpus[i].text, nourished>> \in Dose
         /\ Scan[<<Corpus[i].text, nourished>>] = Scan[<<Corpus[i].text, FALSE>>]
         /\ \A a : Core!TextFindings(<<Corpus[i].text, nourished>>, a) = Seen(Corpus[i].text, a)
<1> DEFINE d == <<Corpus[i].text, nourished>>
           e == <<Corpus[i].text, FALSE>>
<1>1. d \in Dose
  BY CorpusItem DEF Dose
<1>2. Scan[d] = Scan[e]
  BY CorpusAssumption
<1>3. \A a : Core!TextFindings(d, a) = Core!TextFindings(e, a)
  <2> HIDE DEF d, e
  <2> QED BY <1>2
      DEF Core!TextFindings, Core!VanguardProbe, Core!TaintBeacon, Core!SanitasSwarm,
          Core!LogosScythe, Core!EntropicWatch
<1> QED
  BY <1>1, <1>2, <1>3 DEF Seen

LEMMA SeenFinite ==
  ASSUME NEW t \in Text, NEW a
  PROVE  IsFiniteSet(Seen(t, a)) /\ \A m \in Seen(t, a) : m.depth \in 1 .. 4
<1>1. <<t, FALSE>> \in Dose
  BY DEF Dose
<1> QED
  BY <1>1, TextFindingsFinite, FindingDepth DEF Seen

(* What is plain in loud cells was plain in quieter ones. *)
LEMMA PlainFalls ==
  ASSUME NEW i \in 1 .. Len(Corpus),
         NEW a \in [Core!Cell -> Int], NEW b \in [Core!Cell -> Int],
         \A c \in Core!Cell : a[c] <= b[c],
         Plain(i, b)
  PROVE  Plain(i, a)
<1> DEFINE t == Corpus[i].text
           expected == Corpus[i].expected
           graveAt(x) == {m \in Seen(t, x) : m.depth = Core!GRAVE}
<1>1. t \in Text
  BY CorpusItem
<1>2. Seen(t, b) \subseteq Seen(t, a)
  <2>1. <<t, FALSE>> \in Dose
    BY <1>1 DEF Dose
  <2> QED BY <2>1, FindingsFall DEF Seen
<1>3. Cardinality(graveAt(b)) <= Cardinality(graveAt(a))
        /\ Cardinality(graveAt(a)) \in Nat /\ Cardinality(graveAt(b)) \in Nat
  <2>1. graveAt(b) \subseteq graveAt(a)
    BY <1>2
  <2>2. IsFiniteSet(graveAt(a))
    BY <1>1, SeenFinite, FS_Subset
  <2> HIDE DEF graveAt
  <2> QED BY <2>1, <2>2, FS_Subset, FS_CardinalityType
<1>4. CASE expected = Core!VOID
  BY <1>4 DEF Plain
<1>5. CASE \E m \in Seen(t, b) : m.depth >= expected
  BY <1>2, <1>5 DEF Plain, ShownAt
<1>6. CASE Cardinality(graveAt(b)) >= 3
  <2>1. Cardinality(graveAt(a)) >= 3
    <3> HIDE DEF graveAt
    <3> QED BY <1>3, <1>6
  <2> QED BY <2>1 DEF Plain, ShownAt
<1> QED
  BY <1>4, <1>5, <1>6 DEF Plain, ShownAt

(* How many signals of one depth the forge counts. *)
LEMMA SignalsAre ==
  ASSUME NEW d \in Dose, MemoryListed, NEW depth
  PROVE  LET seen == {m \in Core!TextFindings(d, acuity) : m.depth = depth}
             met == {r \in Core!MnemosyneCache(d) : r[1].depth = depth}
         IN  /\ IsFiniteSet(seen) /\ IsFiniteSet(met)
             /\ Cardinality(seen) \in Nat /\ Cardinality(met) \in Nat
             /\ Core!Signals(d, depth) = Cardinality(seen) + Cardinality(met)
<1> DEFINE seen == {m \in Core!TextFindings(d, acuity) : m.depth = depth}
           met == {r \in Core!MnemosyneCache(d) : r[1].depth = depth}
<1>1. IsFiniteSet(seen)
  BY TextFindingsFinite, FS_Subset
<1>2. IsFiniteSet(met)
  <2>1. Core!MnemosyneCache(d) \subseteq Listings
    <3>1. Core!EngramsOf(Scan[d].quotes) \subseteq Core!Engram
      BY ScanFinite DEF Core!ScanResult, Core!Engram, Core!EngramsOf
    <3> QED BY <3>1 DEF Core!MnemosyneCache, Listings
  <2>2. met \subseteq Listings
    BY <2>1
  <2> QED BY <2>2, ListingsFinite, FS_Subset
<1>3. Core!Signals(d, depth) = Cardinality(seen) + Cardinality(met)
  BY CoreCounts DEF Core!Signals
<1> HIDE DEF seen, met
<1>4. Cardinality(seen) \in Nat /\ Cardinality(met) \in Nat
  BY <1>1, <1>2, FS_CardinalityType
<1> QED
  BY <1>1, <1>2, <1>3, <1>4 DEF seen, met

LEMMA PlainIsCorrect ==
  ASSUME NEW i \in 1 .. Len(Corpus), nourished \in BOOLEAN, MemoryListed, Plain(i, acuity)
  PROVE  Correct(Corpus[i])
<1> DEFINE t == Corpus[i].text
           expected == Corpus[i].expected
           d == <<t, nourished>>
<1>1. /\ t \in Text /\ expected \in {0, 2, 3, 4} /\ d \in Dose
      /\ Core!TextFindings(d, acuity) = Seen(t, acuity)
  BY CorpusItem, CorpusSeen
<1>2. CASE expected = Core!VOID
  <2>1. /\ Scan[d] = [injections |-> {}, harms |-> {}, taints |-> {}, structure |-> {},
                      deceptions |-> {}, parasites |-> {}, quotes |-> {}]
        /\ Reading[t].protein = {} /\ Reading[t].b12 = {} /\ Reading[t].derived = {}
    BY <1>2, CorpusAssumption, CorpusSeen
  <2>2. Core!TextFindings(d, acuity) = {} /\ Core!MnemosyneCache(d) = {}
    <3> HIDE DEF d
    <3>1. Core!EngramsOf({}) = {}
      BY DEF Core!EngramsOf
    <3> QED BY <2>1, <3>1
        DEF Core!TextFindings, Core!VanguardProbe, Core!TaintBeacon, Core!SanitasSwarm,
            Core!LogosScythe, Core!EntropicWatch, Core!MnemosyneCache
  <2>3. Core!FinalityForge(d) = {}
    <3>1. \A depth : Core!Signals(d, depth) = 0
      <4> HIDE DEF d
      <4> QED BY <2>2, CoreCounts, FS_EmptySet DEF Core!Signals
    <3> QED BY <3>1 DEF Core!FinalityForge
  <2>4. Core!SovereigntyDepth(d) = 0
    <3> HIDE DEF d
    <3>1. Core!Depths(d) = {}
      BY <2>2, <2>3 DEF Core!Depths
    <3> QED BY <1>1, <3>1, SovereignIsDeepest
  <2>5. ~(EnrichedProbe(t) \/ EnrichedLogos(t))
    BY <2>1 DEF EnrichedProbe, EnrichedLogos, ExtendedSigils, ProteinPack, VitaminB12Pack
  <2>6. Depth(t) \in {0, 1}
    BY <1>1, <2>4, <2>5, DepthIs
  <2> QED BY <1>2, <2>6 DEF Correct, Core!CAUTION
<1>3. CASE expected # Core!VOID
  <2>1. \E depth \in Core!Depths(d) : depth >= expected
    <3>1. CASE \E m \in Seen(t, acuity) : m.depth >= expected
      BY <1>1, <3>1 DEF Core!Depths
    <3>2. CASE Cardinality({m \in Seen(t, acuity) : m.depth = Core!GRAVE}) >= 3
      <4> DEFINE seen == {m \in Core!TextFindings(d, acuity) : m.depth = Core!GRAVE}
                 met == {r \in Core!MnemosyneCache(d) : r[1].depth = Core!GRAVE}
      <4>1. Core!Signals(d, Core!GRAVE) >= 3
        <5>1. Cardinality(seen) >= 3
          BY <1>1, <3>2
        <5>2. /\ Core!Signals(d, Core!GRAVE) = Cardinality(seen) + Cardinality(met)
              /\ Cardinality(seen) \in Nat /\ Cardinality(met) \in Nat
          <6> HIDE DEF d
          <6> QED BY <1>1, SignalsAre
        <5> HIDE DEF seen, met
        <5> QED BY <5>1, <5>2
      <4>2. Core!CONDEMNED \in Core!Depths(d)
        <5> HIDE DEF d
        <5>1. PICK m \in Core!FinalityForge(d) : m.depth = Core!CONDEMNED
          BY <4>1 DEF Core!FinalityForge, Core!Malignum
        <5> QED BY <5>1 DEF Core!Depths
      <4> QED BY <1>1, <4>2 DEF Core!CONDEMNED
    <3> QED BY <1>3, <3>1, <3>2 DEF Plain, ShownAt
  <2>2. Core!SovereigntyDepth(d) >= expected
    <3> HIDE DEF d, expected
    <3>1. Core!SovereigntyDepth(d) \in 0 .. 4 /\ Core!Depths(d) \subseteq 1 .. 4
      BY <1>1, SovereignIsDeepest
    <3> QED BY <1>1, <2>1, <3>1, SovereignIsDeepest
  <2>3. Depth(t) >= expected
    BY <1>1, <2>2, DepthIs
  <2> QED BY <1>3, <2>3 DEF Correct
<1> QED BY <1>2, <1>3

(* After two storms neither the memory nor the nutrients add anything, so  *)
(* that only what is plain is judged correctly.                            *)
LEMMA CorrectIsPlain ==
  ASSUME NEW i \in 1 .. Len(Corpus), nourished \in BOOLEAN, MemoryListed, CellsFollowStorms,
         Storms >= 2, Correct(Corpus[i])
  PROVE  Plain(i, acuity)
<1> SUFFICES ASSUME Corpus[i].expected # Core!VOID
             PROVE  ShownAt(Corpus[i].text, Corpus[i].expected, acuity)
  BY DEF Plain
<1> DEFINE t == Corpus[i].text
           expected == Corpus[i].expected
           d == <<t, nourished>>
<1>1. /\ t \in Text /\ expected \in {2, 3, 4} /\ d \in Dose
      /\ Core!TextFindings(d, acuity) = Seen(t, acuity)
  BY CorpusItem, CorpusSeen DEF Core!VOID
<1>2. /\ acuity["mnemosyne_cache"] >= 90 /\ acuity["logos_scythe"] >= 85
      /\ acuity["mnemosyne_cache"] \in Int /\ acuity["logos_scythe"] \in Int
  <2>1. acuity["mnemosyne_cache"] = Core!Least(100, 70 + 10 * Storms)
    BY DEF CellsFollowStorms, Core!Cell, Core!Baseline
  <2>2. acuity["logos_scythe"] = Core!Least(100, 65 + 10 * Storms)
    BY DEF CellsFollowStorms, Core!Cell, Core!Baseline
  <2>3. Storms \in Nat
    BY DEF CellsFollowStorms, Storms
  <2> QED BY <2>1, <2>2, <2>3 DEF Core!Least
<1>3. Core!MnemosyneCache(d) = {}
  BY <1>2 DEF Core!MnemosyneCache, Core!MemoryVeracity
<1>4. ~EnrichedProbe(t)
  BY <1>1, MutedAfterTwo DEF LearnedPatternsMuted
<1>5. ~EnrichedLogos(t)
  <2>1. Reading[t].b12 \subseteq {0, 1}
    BY CorpusAssumption
  <2>2. \A h \in {0, 1} : B12Veracity(h) \in Int /\ B12Veracity(h) <= 72
    BY DEF B12Veracity, Core!Least
  <2> QED BY <1>2, <2>1, <2>2 DEF EnrichedLogos, VitaminB12Pack
<1>6. Core!SovereigntyDepth(d) >= expected
  <2>1. Depth(t) >= expected
    BY DEF Correct
  <2>2. Depth(t) # 1
    BY <1>1, <2>1
  <2> QED BY <1>1, <1>4, <1>5, <2>1, <2>2, DepthIs
<1>7. Core!SovereigntyDepth(d) \in Core!Depths(d)
  <2> HIDE DEF d, expected
  <2> QED BY <1>1, <1>6, SovereignIsDeepest
<1>8. CASE Core!FinalityForge(d) = {}
  <2>1. PICK m \in Core!TextFindings(d, acuity) : m.depth = Core!SovereigntyDepth(d)
    <3> HIDE DEF d
    <3> QED BY <1>3, <1>7, <1>8 DEF Core!Depths
  <2> QED BY <1>1, <1>6, <2>1 DEF ShownAt
<1>9. CASE Core!FinalityForge(d) # {}
  <2>1. Core!Signals(d, Core!CONDEMNED) >= 1 \/ Core!Signals(d, Core!GRAVE) >= 3
    <3> HIDE DEF d
    <3> QED BY <1>9 DEF Core!FinalityForge
  <2>2. \A depth : Core!Signals(d, depth) = Cardinality({m \in Seen(t, acuity) : m.depth = depth})
    <3> SUFFICES ASSUME NEW depth
                 PROVE  Core!Signals(d, depth)
                          = Cardinality({m \in Seen(t, acuity) : m.depth = depth})
      OBVIOUS
    <3> DEFINE seen == {m \in Seen(t, acuity) : m.depth = depth}
               met == {r \in Core!MnemosyneCache(d) : r[1].depth = depth}
    <3>1. Core!Signals(d, depth) = Cardinality(seen) + Cardinality(met) /\ Cardinality(seen) \in Nat
      <4> HIDE DEF d
      <4> QED BY <1>1, SignalsAre
    <3>2. met = {}
      BY <1>3
    <3> HIDE DEF met, seen
    <3>3. Core!Signals(d, depth) = Cardinality(seen)
      BY <3>1, <3>2, FS_EmptySet
    <3> QED BY <3>3 DEF seen
  <2>3. CASE Cardinality({m \in Seen(t, acuity) : m.depth = Core!CONDEMNED}) >= 1
    <3> DEFINE worst == {m \in Seen(t, acuity) : m.depth = Core!CONDEMNED}
    <3>1. worst # {}
      <4> HIDE DEF worst
      <4>1. Cardinality(worst) >= 1
        BY <2>3 DEF worst
      <4>2. Cardinality({}) = 0
        BY FS_EmptySet
      <4> QED BY <4>1, <4>2
    <3> QED BY <1>1, <3>1 DEF ShownAt, Core!CONDEMNED
  <2> QED BY <2>1, <2>2, <2>3 DEF ShownAt
<1> QED BY <1>8, <1>9

----------------------------------------------------------------------------
(* How many texts of a phase are plain, from one place in it to another.   *)
PlainIn(phase, lo, hi, a) == {i \in Drills(phase) : i \in lo .. hi /\ Plain(i, a)}

Point(phase, i, a) == IF Corpus[i].phase = phase /\ Plain(i, a) THEN 1 ELSE 0

LEMMA PlainInFinite ==
  ASSUME NEW phase, NEW lo, NEW hi, NEW a
  PROVE  IsFiniteSet(PlainIn(phase, lo, hi, a)) /\ Cardinality(PlainIn(phase, lo, hi, a)) \in Nat
<1>1. PlainIn(phase, lo, hi, a) \subseteq Drills(phase)
  BY DEF PlainIn
<1> QED BY <1>1, DrillsFinite, FS_Subset, FS_CardinalityType

(* One element more or less counts as one point. *)
LEMMA OneMore ==
  ASSUME NEW S, NEW T, IsFiniteSet(T), NEW i, i \notin T, NEW heard \in BOOLEAN,
         S = IF heard THEN T \cup {i} ELSE T
  PROVE  Cardinality(S) = Cardinality(T) + (IF heard THEN 1 ELSE 0)
<1>1. Cardinality(T) \in Nat
  BY FS_CardinalityType
<1>2. CASE heard
  <2>1. Cardinality(T \cup {i}) = Cardinality(T) + 1
    BY FS_AddElement
  <2> QED BY <1>2, <2>1
<1>3. CASE ~heard
  BY <1>1, <1>3
<1> QED BY <1>2, <1>3

LEMMA PlainUpTo ==
  ASSUME NEW phase, NEW a, NEW i \in 1 .. Len(Corpus)
  PROVE  Cardinality(PlainIn(phase, 1, i, a))
           = Cardinality(PlainIn(phase, 1, i - 1, a)) + Point(phase, i, a)
<1> DEFINE heard == Corpus[i].phase = phase /\ Plain(i, a)
<1>1. i \notin PlainIn(phase, 1, i - 1, a)
  BY DEF PlainIn
<1>2. PlainIn(phase, 1, i, a)
        = IF heard THEN PlainIn(phase, 1, i - 1, a) \cup {i} ELSE PlainIn(phase, 1, i - 1, a)
  BY CorpusType DEF PlainIn, Drills
<1>3. heard \in BOOLEAN
  OBVIOUS
<1>4. Point(phase, i, a) = IF heard THEN 1 ELSE 0
  BY DEF Point
<1> HIDE DEF heard
<1> QED BY <1>1, <1>2, <1>3, <1>4, PlainInFinite, OneMore

LEMMA PlainFrom ==
  ASSUME NEW phase, NEW a, NEW i \in 1 .. Len(Corpus)
  PROVE  Cardinality(PlainIn(phase, i, Len(Corpus), a))
           = Cardinality(PlainIn(phase, i + 1, Len(Corpus), a)) + Point(phase, i, a)
<1> DEFINE heard == Corpus[i].phase = phase /\ Plain(i, a)
           after == PlainIn(phase, i + 1, Len(Corpus), a)
<1>1. i \notin after
  BY DEF PlainIn
<1>2. PlainIn(phase, i, Len(Corpus), a) = IF heard THEN after \cup {i} ELSE after
  BY CorpusType DEF PlainIn, Drills
<1>3. heard \in BOOLEAN
  OBVIOUS
<1>4. Point(phase, i, a) = IF heard THEN 1 ELSE 0
  BY DEF Point
<1>5. IsFiniteSet(after)
  BY PlainInFinite
<1> HIDE DEF heard, after
<1>6. Cardinality(PlainIn(phase, i, Len(Corpus), a)) = Cardinality(after) + Point(phase, i, a)
  BY <1>1, <1>2, <1>3, <1>4, <1>5, OneMore
<1> QED BY <1>6 DEF after

LEMMA PlainInFalls ==
  ASSUME NEW a \in [Core!Cell -> Int], NEW b \in [Core!Cell -> Int],
         \A c \in Core!Cell : a[c] <= b[c],
         NEW phase, NEW lo, NEW hi
  PROVE  Cardinality(PlainIn(phase, lo, hi, b)) <= Cardinality(PlainIn(phase, lo, hi, a))
<1>1. PlainIn(phase, lo, hi, b) \subseteq PlainIn(phase, lo, hi, a)
  BY PlainFalls DEF PlainIn, Drills
<1> QED BY <1>1, PlainInFinite, FS_Subset

(* More correct verdicts make for no lower a score. *)
LEMMA QuotientRises ==
  ASSUME NEW m \in Nat, NEW n \in Nat, m <= n, NEW e \in Nat \ {0}
  PROVE  m \div e <= n \div e
OBVIOUS

LEMMA AccuracyRises ==
  ASSUME NEW f \in [Phase -> Nat], NEW g \in [Phase -> Nat], NEW phase \in Phase,
         f[phase] <= g[phase]
  PROVE  /\ Accuracy(f, phase) \in Nat /\ Accuracy(g, phase) \in Nat
         /\ Accuracy(f, phase) <= Accuracy(g, phase)
<1> DEFINE total == Cardinality(Drills(phase))
<1>1. total \in Nat \ {0}
  BY PhaseTotal
<1>2. /\ Accuracy(f, phase) = (2000 * f[phase] + total) \div (2 * total)
      /\ Accuracy(g, phase) = (2000 * g[phase] + total) \div (2 * total)
  BY DEF Accuracy
<1> HIDE DEF total
<1>3. /\ 2000 * f[phase] + total \in Nat /\ 2000 * g[phase] + total \in Nat
      /\ 2000 * f[phase] + total <= 2000 * g[phase] + total
      /\ 2 * total \in Nat \ {0}
  BY <1>1
<1>4. \A m \in Nat, e \in Nat \ {0} : m \div e \in Nat
  OBVIOUS
<1> QED BY <1>2, <1>3, <1>4, QuotientRises

LEMMA CompositeRises ==
  ASSUME NEW f \in [Phase -> Nat], NEW g \in [Phase -> Nat],
         \A phase \in Phase : f[phase] <= g[phase]
  PROVE  CompositeFitness(f) <= CompositeFitness(g)
<1>1. {"warm_up", "aerobic", "sprint"} \subseteq Phase
  BY DEF Phase
<1> DEFINE weigh(h) == 30 * Accuracy(h, "warm_up") + 45 * Accuracy(h, "aerobic")
                         + 25 * Accuracy(h, "sprint") + 50
<1>2. weigh(f) \in Nat /\ weigh(g) \in Nat /\ weigh(f) <= weigh(g)
  <2>1. \A phase \in {"warm_up", "aerobic", "sprint"} :
          /\ Accuracy(f, phase) \in Nat /\ Accuracy(g, phase) \in Nat
          /\ Accuracy(f, phase) <= Accuracy(g, phase)
    BY <1>1, AccuracyRises
  <2> QED BY <2>1
<1>3. CompositeFitness(f) = weigh(f) \div 100 /\ CompositeFitness(g) = weigh(g) \div 100
  BY DEF CompositeFitness
<1> HIDE DEF weigh
<1> QED BY <1>2, <1>3, QuotientRises

----------------------------------------------------------------------------
(* The storms a regimen raises.                                            *)

(* Nothing ever calms a cell. *)
LEMMA CellsOnlyRise ==
  ASSUME CellsFollowStorms, [Next]_vars
  PROVE  /\ CellsFollowStorms'
         /\ Storms \in Nat /\ Storms' \in Nat /\ Storms <= Storms'
         /\ \A c \in Core!Cell : acuity[c] <= acuity'[c]
<1>1. \/ UNCHANGED <<acuity, condemnations, quarantines>>
      \/ \E t : Adjudicate(t)
  BY CallerStep, JudgeStep
  DEF Next, Passes, Tick, Direct, Nourish, Evolve, Exercise, Train, Consolidate, vars, core
<1>2. CellsFollowStorms'
  <2>1. CASE UNCHANGED <<acuity, condemnations, quarantines>>
    BY <2>1 DEF CellsFollowStorms, Storms
  <2> QED BY <1>1, <2>1, AdjudicateHeightens
<1>3. \/ condemnations' = condemnations /\ quarantines' = quarantines
      \/ condemnations' = condemnations + 1 /\ quarantines' = quarantines + 0
      \/ condemnations' = condemnations + 0 /\ quarantines' = quarantines + 1
  BY <1>1 DEF Adjudicate, Core!Adjudicate, Core!Respond
<1>4. Storms \in Nat /\ Storms' \in Nat /\ Storms <= Storms'
  <2>1. condemnations \in Nat /\ quarantines \in Nat
    BY DEF CellsFollowStorms
  <2> QED BY <1>3, <2>1 DEF Storms
<1>5. ASSUME NEW c \in Core!Cell
      PROVE  acuity[c] <= acuity'[c]
  <2>1. /\ acuity[c] = Core!Least(100, Core!Baseline[c] + 10 * Storms)
        /\ acuity'[c] = Core!Least(100, Core!Baseline[c] + 10 * Storms')
    BY <1>2 DEF CellsFollowStorms
  <2>2. Core!Baseline[c] \in Int
    BY BaselineType
  <2> QED BY <1>4, <2>1, <2>2 DEF Core!Least
<1> QED BY <1>2, <1>4, <1>5

(* An injection that is long enough is heard above one storm, and raises   *)
(* the next.                                                               *)
LEMMA HeardIsStorm ==
  ASSUME NEW i \in 1 .. Len(Corpus), nourished \in BOOLEAN, CellsFollowStorms, Storms <= 1,
         HeardAboveStorm(Corpus[i].text), Adjudicate(Corpus[i].text)
  PROVE  Storms' = Storms + 1
<1> DEFINE d == <<Corpus[i].text, nourished>>
<1>1. d \in Dose /\ Scan[d] = Scan[<<Corpus[i].text, FALSE>>]
  BY CorpusSeen
<1>2. acuity["vanguard_probe"] \in Int /\ acuity["vanguard_probe"] <= 85
  BY DEF CellsFollowStorms, Storms, Core!Least, Core!Cell, Core!Baseline
<1>3. PICK hit \in Scan[d].injections : hit.words >= 3
  BY <1>1 DEF HeardAboveStorm
<1>4. Core!InjectionVeracity(hit.words) >= acuity["vanguard_probe"]
  <2>1. hit.words \in Nat
    BY <1>1, ScanFinite DEF Core!ScanResult
  <2> QED BY <1>2, <1>3, <2>1 DEF Core!InjectionVeracity, Core!Least
<1> HIDE DEF d
<1>5. \E m \in Core!TextFindings(d, acuity) : m.depth = Core!GRAVE
  <2> DEFINE m == Core!Malignum("moral", Core!GRAVE, hit.sigil, hit.text)
  <2>1. m \in Core!VanguardProbe(d, acuity)
    BY <1>4 DEF Core!VanguardProbe
  <2>2. m.depth = Core!GRAVE
    BY DEF Core!Malignum
  <2> QED BY <2>1, <2>2 DEF Core!TextFindings
<1>6. Core!SovereigntyDepth(d) >= Core!GRAVE
  <2>1. Core!GRAVE \in Core!Depths(d)
    BY <1>5 DEF Core!Depths
  <2>2. Core!SovereigntyDepth(d) \in 0 .. 4
    BY <1>1, SovereignIsDeepest
  <2> QED BY <1>1, <2>1, <2>2, SovereignIsDeepest DEF Core!GRAVE
<1>7. Core!Respond(d)
  BY DEF Adjudicate, Core!Adjudicate, d
<1>8. \/ condemnations' = condemnations + 1 /\ quarantines' = quarantines + 0
      \/ condemnations' = condemnations + 0 /\ quarantines' = quarantines + 1
  <2>1. Core!SovereigntyDepth(d) \in 0 .. 4
    BY <1>1, SovereignIsDeepest
  <2> QED BY <1>6, <1>7, <2>1 DEF Core!Respond, Core!GRAVE
<1> QED BY <1>8 DEF CellsFollowStorms, Storms

(* What a regimen has heard so far it has answered with storms, so that    *)
(* none ends before the second.                                            *)
StormsGathered ==
  /\ \A i \in 1 .. Len(Corpus) :
       i < drill /\ HeardAboveStorm(Corpus[i].text) => Storms >= 1
  /\ \A i, j \in 1 .. Len(Corpus) :
       i < j /\ j < drill /\ HeardAboveStorm(Corpus[i].text) /\ HeardAboveStorm(Corpus[j].text)
         => Storms >= 2
  /\ fitness # NoFitness => Storms >= 2

LEMMA StormsInvariant == Spec => []StormsGathered
<1>1. Init => StormsGathered
  BY DEF Init, StormsGathered
<1>2. Reportable /\ CellsFollowStorms /\ StormsGathered /\ [Next]_vars => StormsGathered'
  <2> SUFFICES ASSUME Reportable, CellsFollowStorms, StormsGathered, [Next]_vars
               PROVE  StormsGathered'
    OBVIOUS
  <2>1. Storms \in Nat /\ Storms' \in Nat /\ Storms <= Storms'
    BY CellsOnlyRise
  <2>2. CASE UNCHANGED <<drill, fitness>>
    BY <2>1, <2>2 DEF StormsGathered
  <2>3. CASE Exercise
    BY <2>1, <2>3 DEF StormsGathered, Exercise
  <2>4. CASE Train
    <3>1. drill \in 1 .. Len(Corpus) /\ nourished \in BOOLEAN /\ Len(Corpus) \in Nat
      BY <2>4, CorpusType DEF Train, Reportable
    <3>2. HeardAboveStorm(Corpus[drill].text) /\ Storms <= 1 => Storms' = Storms + 1
      BY <2>4, <3>1, HeardIsStorm DEF Train
    <3>3. \A i \in 1 .. Len(Corpus) :
            i <= drill /\ HeardAboveStorm(Corpus[i].text) => Storms' >= 1
      BY <2>1, <3>1, <3>2 DEF StormsGathered
    <3>4. \A i, j \in 1 .. Len(Corpus) :
            i < j /\ j <= drill /\ HeardAboveStorm(Corpus[i].text)
              /\ HeardAboveStorm(Corpus[j].text) => Storms' >= 2
      BY <2>1, <3>1, <3>2 DEF StormsGathered
    <3>5. CASE drill < Len(Corpus) /\ drill' = drill + 1 /\ fitness' = fitness
      BY <2>1, <3>1, <3>3, <3>4, <3>5 DEF StormsGathered
    <3>6. CASE drill = Len(Corpus) /\ drill' = 0
      <4>1. Storms' >= 2
        BY <3>1, <3>4, <3>6, CorpusAssumption
      <4> QED BY <3>6, <4>1 DEF StormsGathered
    <3> QED BY <2>4, <3>5, <3>6 DEF Train, Rest
  <2>5. CASE \E c \in Caller : Passes(c) \/ Judge(c)
    BY <2>2, <2>5, CallerStep, JudgeStep DEF regimen
  <2> QED
    BY <2>2, <2>3, <2>4, <2>5
    DEF Next, Passes, Tick, Direct, Nourish, Evolve, Consolidate, vars, regimen
<1> QED
  BY <1>1, <1>2, ReportInvariant, CellsInvariant, PTL DEF Spec

----------------------------------------------------------------------------
(* What the next regimen can score at most: what it has scored, and what   *)
(* of the texts that it has not reached is plain.                          *)
Ahead(phase) ==
  IF drill = 0 THEN Cardinality(PlainIn(phase, 1, Len(Corpus), acuity))
  ELSE tally[phase] + Cardinality(PlainIn(phase, drill, Len(Corpus), acuity))

Prospect == [phase \in Phase |-> Ahead(phase)]

(* A regimen has scored what is plain now at least, and the best that can  *)
(* come is no better than the last result.                                 *)
NoBetterAhead ==
  /\ drill > 0 =>
       \A phase \in Phase : Cardinality(PlainIn(phase, 1, drill - 1, acuity)) <= tally[phase]
  /\ fitness # NoFitness => CompositeFitness(Prospect) <= fitness

FitnessInv == Reportable /\ CellsFollowStorms /\ MemoryListed /\ StormsGathered /\ NoBetterAhead

LEMMA ProspectType ==
  ASSUME tally \in [Phase -> Nat]
  PROVE  Prospect \in [Phase -> Nat]
BY PlainInFinite DEF Prospect, Ahead

(* A text adds its point when it is plain and, after two storms, then only. *)
LEMMA TrainScores ==
  ASSUME FitnessInv, Train, NEW phase \in Phase
  PROVE  /\ drill \in 1 .. Len(Corpus)
         /\ tally[phase] \in Nat /\ tally'[phase] \in Nat
         /\ tally[phase] + Point(phase, drill, acuity) <= tally'[phase]
         /\ Storms >= 2 => tally'[phase] = tally[phase] + Point(phase, drill, acuity)
<1>1. drill \in 1 .. Len(Corpus)
  BY CorpusType DEF Train, FitnessInv, Reportable
<1>2. PICK more \in {0, 1} :
        /\ tally' = [tally EXCEPT ![Corpus[drill].phase] = @ + more]
        /\ more = 1 <=> Correct(Corpus[drill])
  <2>1. CASE Correct(Corpus[drill])
    BY <2>1 DEF Train
  <2>2. CASE ~Correct(Corpus[drill])
    BY <2>2 DEF Train
  <2> QED BY <2>1, <2>2
<1>3. tally \in [Phase -> Nat] /\ Corpus[drill].phase \in Phase
  BY <1>1, CorpusItem DEF FitnessInv, Reportable
<1>4. tally'[phase] = IF Corpus[drill].phase = phase THEN tally[phase] + more ELSE tally[phase]
  BY <1>2, <1>3
<1>5. Plain(drill, acuity) => Correct(Corpus[drill])
  BY <1>1, PlainIsCorrect DEF FitnessInv, Reportable
<1>6. Storms >= 2 /\ Correct(Corpus[drill]) => Plain(drill, acuity)
  BY <1>1, CorrectIsPlain DEF FitnessInv, Reportable
<1> QED
  BY <1>1, <1>2, <1>3, <1>4, <1>5, <1>6 DEF Point

LEMMA ForesightHolds ==
  ASSUME FitnessInv, [Next]_vars
  PROVE  /\ NoBetterAhead'
         /\ fitness # NoFitness => fitness' <= fitness
<1>1. /\ acuity \in [Core!Cell -> Int] /\ acuity' \in [Core!Cell -> Int]
      /\ \A c \in Core!Cell : acuity[c] <= acuity'[c]
  BY CellsOnlyRise DEF FitnessInv, CellsFollowStorms
<1>2. \A phase, lo, hi :
        /\ Cardinality(PlainIn(phase, lo, hi, acuity')) <= Cardinality(PlainIn(phase, lo, hi, acuity))
        /\ Cardinality(PlainIn(phase, lo, hi, acuity')) \in Nat
        /\ Cardinality(PlainIn(phase, lo, hi, acuity)) \in Nat
  BY <1>1, PlainInFalls, PlainInFinite
<1>3. /\ tally \in [Phase -> Nat] /\ Len(Corpus) \in Nat \ {0} /\ drill \in 0 .. Len(Corpus)
      /\ fitness \in Nat \cup {NoFitness} /\ NoFitness \notin Nat
      /\ Prospect \in [Phase -> Nat]
  BY CorpusType, ProspectType, VitalityAssumption DEF FitnessInv, Reportable
<1>4. CASE UNCHANGED <<drill, tally, fitness>>
  <2>1. \A phase \in Phase : Ahead(phase)' <= Ahead(phase) /\ Ahead(phase)' \in Nat
    BY <1>2, <1>3, <1>4 DEF Ahead
  <2>2. Prospect' \in [Phase -> Nat] /\ \A phase \in Phase : Prospect'[phase] <= Prospect[phase]
    BY <2>1 DEF Prospect
  <2>3. CompositeFitness(Prospect') <= CompositeFitness(Prospect)
    BY <1>3, <2>2, CompositeRises
  <2>4. CompositeFitness(Prospect') \in Nat /\ CompositeFitness(Prospect) \in Nat
    BY <1>3, <2>2, FitnessType
  <2>5. CompositeFitness(Prospect)' = CompositeFitness(Prospect')
    BY DEF CompositeFitness, Accuracy
  <2>6. fitness' # NoFitness => CompositeFitness(Prospect)' <= fitness'
    BY <1>3, <1>4, <2>3, <2>4, <2>5 DEF FitnessInv, NoBetterAhead
  <2>7. drill' > 0 => \A phase \in Phase :
          Cardinality(PlainIn(phase, 1, drill' - 1, acuity')) <= tally'[phase]
    BY <1>2, <1>3, <1>4 DEF FitnessInv, NoBetterAhead
  <2> QED BY <1>3, <1>4, <2>6, <2>7 DEF NoBetterAhead
<1>5. CASE Exercise
  <2>1. /\ drill = 0 /\ drill' = 1 /\ tally' = [phase \in Phase |-> 0]
        /\ UNCHANGED <<acuity, fitness>>
    BY <1>5 DEF Exercise, core
  <2>2. \A phase \in Phase : Ahead(phase)' = Ahead(phase)
    BY <1>2, <2>1 DEF Ahead
  <2>3. Prospect' = Prospect
    BY <2>2 DEF Prospect
  <2>4. CompositeFitness(Prospect)' = CompositeFitness(Prospect)
    BY <2>3 DEF CompositeFitness, Accuracy
  <2>5. \A phase \in Phase : Cardinality(PlainIn(phase, 1, drill' - 1, acuity')) <= tally'[phase]
    <3> SUFFICES ASSUME NEW phase \in Phase
                 PROVE  Cardinality(PlainIn(phase, 1, 0, acuity')) <= 0
      BY <2>1
    <3>1. PlainIn(phase, 1, 0, acuity') = {}
      BY DEF PlainIn
    <3> QED BY <3>1, FS_EmptySet
  <2> QED BY <1>3, <2>1, <2>4, <2>5 DEF FitnessInv, NoBetterAhead
<1>6. CASE Train
  <2>1. \A phase \in Phase :
          /\ tally[phase] \in Nat /\ tally'[phase] \in Nat
          /\ Point(phase, drill, acuity) \in {0, 1}
          /\ tally[phase] + Point(phase, drill, acuity) <= tally'[phase]
          /\ Storms >= 2 => tally'[phase] = tally[phase] + Point(phase, drill, acuity)
    BY <1>6, TrainScores DEF Point
  <2>2. drill \in 1 .. Len(Corpus)
    BY <1>3, <1>6 DEF Train
  <2>3. tally' \in [Phase -> Nat]
    <3>1. tally' = [phase \in Phase |-> tally'[phase]]
      BY <1>3, <1>6 DEF Train
    <3> QED BY <2>1, <3>1
  <2>4. \A phase \in Phase : Cardinality(PlainIn(phase, 1, drill, acuity')) <= tally'[phase]
    <3> SUFFICES ASSUME NEW phase \in Phase
                 PROVE  Cardinality(PlainIn(phase, 1, drill, acuity')) <= tally'[phase]
      OBVIOUS
    <3>1. Cardinality(PlainIn(phase, 1, drill, acuity))
            = Cardinality(PlainIn(phase, 1, drill - 1, acuity)) + Point(phase, drill, acuity)
      BY <2>2, PlainUpTo
    <3>2. Cardinality(PlainIn(phase, 1, drill - 1, acuity)) <= tally[phase]
      BY <2>2 DEF FitnessInv, NoBetterAhead
    <3> QED BY <1>2, <2>1, <3>1, <3>2
  <2>5. \A phase \in Phase :
          Ahead(phase) = tally[phase] + Point(phase, drill, acuity)
                           + Cardinality(PlainIn(phase, drill + 1, Len(Corpus), acuity))
    <3> SUFFICES ASSUME NEW phase \in Phase
                 PROVE  Ahead(phase) = tally[phase] + Point(phase, drill, acuity)
                           + Cardinality(PlainIn(phase, drill + 1, Len(Corpus), acuity))
      OBVIOUS
    <3>1. Ahead(phase) = tally[phase] + Cardinality(PlainIn(phase, drill, Len(Corpus), acuity))
      BY <2>2 DEF Ahead
    <3>2. Cardinality(PlainIn(phase, drill, Len(Corpus), acuity))
            = Cardinality(PlainIn(phase, drill + 1, Len(Corpus), acuity))
                + Point(phase, drill, acuity)
      BY <2>2, PlainFrom
    <3> QED BY <1>2, <2>1, <3>1, <3>2
  <2>6. CASE drill < Len(Corpus) /\ drill' = drill + 1 /\ fitness' = fitness
    <3>1. fitness # NoFitness => CompositeFitness(Prospect)' <= fitness
      <4> SUFFICES ASSUME fitness # NoFitness
                   PROVE  CompositeFitness(Prospect)' <= fitness
        OBVIOUS
      <4>1. Storms >= 2
        BY DEF FitnessInv, StormsGathered
      <4>2. ASSUME NEW phase \in Phase
            PROVE  Ahead(phase)' <= Ahead(phase) /\ Ahead(phase)' \in Nat
        <5>1. Ahead(phase)' = tally'[phase]
                + Cardinality(PlainIn(phase, drill + 1, Len(Corpus), acuity'))
          BY <2>2, <2>6 DEF Ahead
        <5> QED BY <1>2, <2>1, <2>5, <4>1, <5>1
      <4>3. Prospect' \in [Phase -> Nat]
              /\ \A phase \in Phase : Prospect'[phase] <= Prospect[phase]
        BY <4>2 DEF Prospect
      <4>4. CompositeFitness(Prospect') <= CompositeFitness(Prospect)
        BY <1>3, <4>3, CompositeRises
      <4>5. CompositeFitness(Prospect') \in Nat /\ CompositeFitness(Prospect) \in Nat
        BY <1>3, <4>3, FitnessType
      <4>6. CompositeFitness(Prospect)' = CompositeFitness(Prospect')
        BY DEF CompositeFitness, Accuracy
      <4> QED BY <1>3, <4>4, <4>5, <4>6 DEF FitnessInv, NoBetterAhead
    <3>2. drill' - 1 = drill
      BY <2>2, <2>6
    <3> QED BY <1>3, <2>4, <2>6, <3>1, <3>2 DEF NoBetterAhead
  <2>7. CASE drill = Len(Corpus) /\ drill' = 0 /\ fitness' = CompositeFitness(tally')
    <3>1. CompositeFitness(Prospect)' <= fitness'
      <4>1. \A phase \in Phase : Ahead(phase)' <= tally'[phase] /\ Ahead(phase)' \in Nat
        BY <1>2, <2>4, <2>7 DEF Ahead
      <4>2. Prospect' \in [Phase -> Nat]
              /\ \A phase \in Phase : Prospect'[phase] <= tally'[phase]
        BY <4>1 DEF Prospect
      <4>3. CompositeFitness(Prospect') <= CompositeFitness(tally')
        BY <2>3, <4>2, CompositeRises
      <4>4. CompositeFitness(Prospect)' = CompositeFitness(Prospect')
        BY DEF CompositeFitness, Accuracy
      <4> QED BY <2>7, <4>3, <4>4
    <3>2. fitness # NoFitness => fitness' <= fitness
      <4> SUFFICES ASSUME fitness # NoFitness
                   PROVE  fitness' <= fitness
        OBVIOUS
      <4>1. Storms >= 2
        BY DEF FitnessInv, StormsGathered
      <4>2. \A phase \in Phase : tally'[phase] <= Prospect[phase]
        <5>1. \A phase \in Phase : Prospect[phase] = Ahead(phase)
          BY DEF Prospect
        <5> QED BY <1>2, <2>1, <2>5, <4>1, <5>1
      <4>3. CompositeFitness(tally') <= CompositeFitness(Prospect)
        BY <1>3, <2>3, <4>2, CompositeRises
      <4>4. CompositeFitness(tally') \in Nat /\ CompositeFitness(Prospect) \in Nat
        BY <1>3, <2>3, FitnessType
      <4> QED BY <1>3, <2>7, <4>3, <4>4 DEF FitnessInv, NoBetterAhead
    <3> QED BY <2>7, <3>1, <3>2 DEF NoBetterAhead
  <2> QED BY <1>6, <2>6, <2>7, <1>3 DEF Train, Rest
<1>7. CASE \E c \in Caller : Passes(c) \/ Judge(c)
  BY <1>4, <1>7, CallerStep, JudgeStep DEF regimen
<1> QED
  BY <1>4, <1>5, <1>6, <1>7
  DEF Next, Passes, Tick, Direct, Nourish, Evolve, Consolidate, vars, regimen

(* protocol.py:844-913: a regimen raises the storms that make the cells    *)
(* deaf and nothing makes them hear again; after two, neither the memory   *)
(* nor a nutrient makes up for it, so the next regimen is judged by cells  *)
(* that find less, and its composite score is no higher.                   *)
THEOREM ExerciseNeverHelps == Spec => FitnessOnlyFalls
<1>1. Init => NoBetterAhead
  BY DEF Init, NoBetterAhead
<1>2. FitnessInv /\ [Next]_vars =>
        NoBetterAhead' /\ [fitness # NoFitness => fitness' <= fitness]_vars
  BY ForesightHolds
<1>3. Spec => [](Reportable /\ CellsFollowStorms /\ MemoryListed /\ StormsGathered)
  BY ReportInvariant, CellsInvariant, MemoryInvariant, StormsInvariant, PTL
<1>4. FitnessInv <=>
        Reportable /\ CellsFollowStorms /\ MemoryListed /\ StormsGathered /\ NoBetterAhead
  BY DEF FitnessInv
<1> QED
  BY <1>1, <1>2, <1>3, <1>4, PTL DEF Spec, FitnessOnlyFalls
=============================================================================
