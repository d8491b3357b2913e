-------------------------- MODULE EthosAegisProofs --------------------------
(***************************************************************************)
(* Theorems of EthosAegis, for every set of payloads and whatever the      *)
(* patterns find in them; and, at the end, of the gate in front of it      *)
(* (NeuroStressBuffer, RateMeter), for any bucket, rate and window.        *)
(***************************************************************************)
EXTENDS EthosAegis, RateMeter, FiniteSetTheorems, TLAPS

Finding == [class : MalignaClass, depth : CorruptionDepth,
            sigil : Sigil, fragment : Fragment]

FiniteFindings(S) == S \subseteq Finding /\ IsFiniteSet(S)

----------------------------------------------------------------------------
(* The findings of every cell are finitely many, and of their type.         *)

(* What a cell reports, one finding for each thing it saw. *)
LEMMA ReportedFindings ==
  ASSUME NEW S, IsFiniteSet(S), NEW f \in [S -> Finding]
  PROVE  FiniteFindings({f[s] : s \in S})
<1> DEFINE T == {f[s] : s \in S}
<1>1. f \in Surjection(S, T)
  BY DEF Surjection
<1>2. IsFiniteSet(T)
  BY <1>1, FS_Surjection
<1> QED
  BY <1>2 DEF FiniteFindings

LEMMA MalignumType ==
  ASSUME NEW class \in MalignaClass, NEW depth \in {TRACE, CAUTION, GRAVE, CONDEMNED},
         NEW sigil \in Sigil, NEW text \in Fragment
  PROVE  Malignum(class, depth, sigil, text) \in Finding
BY DEF Malignum, Finding, CorruptionDepth, VOID, TRACE, CAUTION, GRAVE, CONDEMNED

LEMMA UnionOfFindings ==
  ASSUME NEW S, NEW T, FiniteFindings(S), FiniteFindings(T)
  PROVE  FiniteFindings(S \cup T)
BY FS_Union DEF FiniteFindings

LEMMA ScanFinite ==
  ASSUME NEW p \in Payload
  PROVE  /\ Scan[p] \in ScanResult
         /\ IsFiniteSet(Scan[p].injections) /\ IsFiniteSet(Scan[p].harms)
         /\ IsFiniteSet(Scan[p].taints)     /\ IsFiniteSet(Scan[p].structure)
         /\ IsFiniteSet(Scan[p].deceptions) /\ IsFiniteSet(Scan[p].parasites)
BY ScanAssumption

LEMMA VanguardProbeType ==
  ASSUME NEW p \in Payload, NEW a
  PROVE  FiniteFindings(VanguardProbe(p, a))
<1> DEFINE loud == {i \in Scan[p].injections :
                      InjectionVeracity(i.words) >= a["vanguard_probe"]}
           byInjection == [i \in loud |-> Malignum("moral", GRAVE, i.sigil, i.text)]
           byHarm == [h \in Scan[p].harms |-> Malignum("moral", HarmDepth(h.sigil), h.sigil, h.text)]
<1>1. IsFiniteSet(loud)
  BY ScanFinite, FS_Subset
<1>2. byInjection \in [loud -> Finding]
  <2> SUFFICES ASSUME NEW i \in loud
               PROVE  Malignum("moral", GRAVE, i.sigil, i.text) \in Finding
    OBVIOUS
  <2>1. i.sigil \in Sigil /\ i.text \in Fragment
    BY ScanFinite DEF ScanResult, Sigil
  <2> QED BY <2>1, MalignumType DEF MalignaClass
<1>3. byHarm \in [Scan[p].harms -> Finding]
  <2> SUFFICES ASSUME NEW h \in Scan[p].harms
               PROVE  Malignum("moral", HarmDepth(h.sigil), h.sigil, h.text) \in Finding
    OBVIOUS
  <2>1. h.sigil \in Sigil /\ h.text \in Fragment
    BY ScanFinite DEF ScanResult, Sigil
  <2>2. HarmDepth(h.sigil) \in {GRAVE, CONDEMNED}
    BY DEF HarmDepth
  <2> QED BY <2>1, <2>2, MalignumType DEF MalignaClass
<1>4. VanguardProbe(p, a) = {byInjection[i] : i \in loud} \cup {byHarm[h] : h \in Scan[p].harms}
  BY DEF VanguardProbe
<1> HIDE DEF loud, byInjection, byHarm
<1>5. FiniteFindings({byInjection[i] : i \in loud})
  BY <1>1, <1>2, ReportedFindings
<1>6. FiniteFindings({byHarm[h] : h \in Scan[p].harms})
  BY <1>3, ScanFinite, ReportedFindings
<1> QED
  BY <1>4, <1>5, <1>6, UnionOfFindings

LEMMA TaintBeaconType ==
  ASSUME NEW p \in Payload
  PROVE  FiniteFindings(TaintBeacon(p))
<1> DEFINE byTaint == [t \in Scan[p].taints |-> Malignum("moral", TaintDepth(t.sigil), t.sigil, t.text)]
<1>1. byTaint \in [Scan[p].taints -> Finding]
  <2> SUFFICES ASSUME NEW t \in Scan[p].taints
               PROVE  Malignum("moral", TaintDepth(t.sigil), t.sigil, t.text) \in Finding
    OBVIOUS
  <2>1. t.sigil \in Sigil /\ t.text \in Fragment
    BY ScanFinite DEF ScanResult, Sigil
  <2>2. TaintDepth(t.sigil) \in {GRAVE, CONDEMNED}
    BY DEF TaintDepth
  <2> QED BY <2>1, <2>2, MalignumType DEF MalignaClass
<1>2. TaintBeacon(p) = {byTaint[t] : t \in Scan[p].taints}
  BY DEF TaintBeacon
<1> HIDE DEF byTaint
<1> QED
  BY <1>1, <1>2, ScanFinite, ReportedFindings

LEMMA SanitasSwarmType ==
  ASSUME NEW p \in Payload
  PROVE  FiniteFindings(SanitasSwarm(p))
<1> DEFINE class(s) == IF s = "homoglyph_substitution" THEN "symbolic" ELSE "moral"
           byShape == [s \in Scan[p].structure |->
                         Malignum(class(s), StructuralDepth[s], s, MarkupNote)]
<1>1. byShape \in [Scan[p].structure -> Finding]
  <2> SUFFICES ASSUME NEW s \in Scan[p].structure
               PROVE  Malignum(class(s), StructuralDepth[s], s, MarkupNote) \in Finding
    OBVIOUS
  <2>1. s \in Structural
    BY ScanFinite DEF ScanResult
  <2>2. StructuralDepth[s] \in {TRACE, CAUTION, GRAVE}
    BY <2>1 DEF Structural, StructuralDepth
  <2>3. s \in Sigil
    BY <2>1 DEF Sigil
  <2>4. class(s) \in MalignaClass
    BY DEF MalignaClass
  <2>5. MarkupNote \in Fragment
    BY FragmentAssumption
  <2> HIDE DEF class
  <2> QED BY <2>2, <2>3, <2>4, <2>5, MalignumType
<1>2. SanitasSwarm(p) = {byShape[s] : s \in Scan[p].structure}
  BY DEF SanitasSwarm
<1> HIDE DEF byShape
<1> QED
  BY <1>1, <1>2, ScanFinite, ReportedFindings

LEMMA LogosScytheType ==
  ASSUME NEW p \in Payload, NEW a
  PROVE  FiniteFindings(LogosScythe(p, a))
<1> DEFINE loud == {d \in Scan[p].deceptions :
                      DeceptionVeracity(d.hits) >= a["logos_scythe"]}
           byCluster == [d \in loud |->
                           Malignum("narcissis", DeceptionDepth(d.sigil), d.sigil, d.text)]
<1>1. IsFiniteSet(loud)
  BY ScanFinite, FS_Subset
<1>2. byCluster \in [loud -> Finding]
  <2> SUFFICES ASSUME NEW d \in loud
               PROVE  Malignum("narcissis", DeceptionDepth(d.sigil), d.sigil, d.text) \in Finding
    OBVIOUS
  <2>1. d.sigil \in Deception /\ d.text \in Fragment
    BY ScanFinite DEF ScanResult
  <2>2. d.sigil \in Sigil
    BY <2>1 DEF Sigil
  <2>3. DeceptionDepth(d.sigil) \in {CAUTION, GRAVE}
    BY DEF DeceptionDepth
  <2> QED BY <2>1, <2>2, <2>3, MalignumType DEF MalignaClass
<1>3. LogosScythe(p, a) = {byCluster[d] : d \in loud}
  BY DEF LogosScythe
<1> HIDE DEF loud, byCluster
<1> QED
  BY <1>1, <1>2, <1>3, ReportedFindings

LEMMA EntropicWatchType ==
  ASSUME NEW p \in Payload
  PROVE  FiniteFindings(EntropicWatch(p))
<1> DEFINE byFlood == [s \in Scan[p].parasites |->
                         Malignum("parasitic", ParasiticDepth[s], s, FloodNote)]
<1>1. byFlood \in [Scan[p].parasites -> Finding]
  <2> SUFFICES ASSUME NEW s \in Scan[p].parasites
               PROVE  Malignum("parasitic", ParasiticDepth[s], s, FloodNote) \in Finding
    OBVIOUS
  <2>1. s \in Parasitic
    BY ScanFinite DEF ScanResult
  <2>2. s \in Sigil /\ ParasiticDepth[s] \in {TRACE, CAUTION, GRAVE}
    BY <2>1 DEF Sigil, Parasitic, ParasiticDepth
  <2>3. FloodNote \in Fragment
    BY FragmentAssumption
  <2> QED BY <2>2, <2>3, MalignumType DEF MalignaClass
<1>2. EntropicWatch(p) = {byFlood[s] : s \in Scan[p].parasites}
  BY DEF EntropicWatch
<1> HIDE DEF byFlood
<1> QED
  BY <1>1, <1>2, ScanFinite, ReportedFindings

LEMMA TextFindingsType ==
  ASSUME NEW p \in Payload, NEW a
  PROVE  FiniteFindings(TextFindings(p, a))
<1>1. FiniteFindings(VanguardProbe(p, a) \cup TaintBeacon(p))
  BY VanguardProbeType, TaintBeaconType, UnionOfFindings
<1>2. FiniteFindings(VanguardProbe(p, a) \cup TaintBeacon(p) \cup SanitasSwarm(p))
  BY <1>1, SanitasSwarmType, UnionOfFindings
<1>3. FiniteFindings(VanguardProbe(p, a) \cup TaintBeacon(p) \cup SanitasSwarm(p)
                       \cup LogosScythe(p, a))
  BY <1>2, LogosScytheType, UnionOfFindings
<1> QED
  BY <1>3, EntropicWatchType, UnionOfFindings DEF TextFindings

LEMMA FinalityForgeType ==
  ASSUME NEW p \in Payload
  PROVE  FiniteFindings(FinalityForge(p))
<1>1. Malignum("systemic", CONDEMNED, "compound_condemnation", ForgeNote) \in Finding
  BY FragmentAssumption, MalignumType DEF MalignaClass, Sigil
<1>2. FiniteFindings({}) /\ FiniteFindings({Malignum("systemic", CONDEMNED,
                                                "compound_condemnation", ForgeNote)})
  BY <1>1, FS_EmptySet, FS_Singleton DEF FiniteFindings
<1> QED
  BY <1>2 DEF FinalityForge

(* What the relay passes to memory. *)
LEMMA ConfirmedType ==
  ASSUME NEW p \in Payload
  PROVE  FiniteFindings(Confirmed(p))
<1>1. FiniteFindings(TextFindings(p, acuity) \cup FinalityForge(p))
  BY TextFindingsType, FinalityForgeType, UnionOfFindings
<1> QED
  BY <1>1, FS_Subset DEF Confirmed, FiniteFindings

(* A memory answer is an engram and its place among the listings of it. *)
LEMMA MnemosyneCacheType ==
  ASSUME NEW p \in Payload, NEW r \in MnemosyneCache(p)
  PROVE  r[1] \in Engram /\ r \in {r[1]} \X (1 .. engrams[r[1]])
<1>1. PICK e \in EngramsOf(Scan[p].quotes) : r \in {e} \X (1 .. engrams[e])
  BY DEF MnemosyneCache
<1>2. Scan[p].quotes \subseteq Fragment
  BY ScanAssumption DEF ScanResult
<1> QED
  BY <1>1, <1>2 DEF Engram, EngramsOf

LEMMA ListingsFinite ==
  ASSUME NEW p \in Payload, NEW e \in Engram, engrams[e] \in Nat
  PROVE  IsFiniteSet({r \in MnemosyneCache(p) : r[1].text \in Long /\ r[1] = e})
<1> DEFINE listed == {r \in MnemosyneCache(p) : r[1].text \in Long /\ r[1] = e}
<1>1. IsFiniteSet({e} \X (1 .. engrams[e]))
  <2>1. IsFiniteSet({e})
    BY FS_Singleton
  <2>2. IsFiniteSet(1 .. engrams[e])
    BY FS_Interval
  <2> QED BY <2>1, <2>2, FS_Product
<1>2. listed \subseteq {e} \X (1 .. engrams[e])
  BY MnemosyneCacheType
<1> HIDE DEF listed
<1>3. IsFiniteSet(listed)
  BY <1>1, <1>2, FS_Subset
<1> QED
  BY <1>3 DEF listed

LEMMA InscribeType ==
  ASSUME NEW p \in Payload, TypeOK, Inscribe(p)
  PROVE  vault' \subseteq Antibody /\ engrams' \in [Engram -> Nat]
<1>1. vault' \subseteq Antibody
  <2>1. \A m \in Confirmed(p) : AntibodyOf(m) \in Antibody
    BY ConfirmedType DEF FiniteFindings, Finding, AntibodyOf, Antibody
  <2>2. \A r \in MnemosyneCache(p) : ResonanceAntibody(r) \in Antibody
    BY MnemosyneCacheType DEF ResonanceAntibody, Engram, EngramsOf, Antibody, Sigil
  <2> QED BY <2>1, <2>2 DEF Inscribe, TypeOK
<1>2. engrams' \in [Engram -> Nat]
  <2> SUFFICES ASSUME NEW e \in Engram
               PROVE  engrams[e]
                        + Cardinality({m \in Confirmed(p) : m.fragment \in Long /\ EngramOf(m) = e})
                        + Cardinality({r \in MnemosyneCache(p) : r[1].text \in Long /\ r[1] = e})
                          \in Nat
    BY DEF Inscribe
  <2>1. engrams[e] \in Nat
    BY DEF TypeOK
  <2>2. Cardinality({m \in Confirmed(p) : m.fragment \in Long /\ EngramOf(m) = e}) \in Nat
    <3>1. IsFiniteSet({m \in Confirmed(p) : m.fragment \in Long /\ EngramOf(m) = e})
      BY ConfirmedType, FS_Subset DEF FiniteFindings
    <3> QED BY <3>1, FS_CardinalityType
  <2>3. Cardinality({r \in MnemosyneCache(p) : r[1].text \in Long /\ r[1] = e}) \in Nat
    BY <2>1, ListingsFinite, FS_CardinalityType
  <2> QED BY <2>1, <2>2, <2>3
<1> QED
  BY <1>1, <1>2

----------------------------------------------------------------------------
(* Type correctness. *)

LEMMA HeightenType ==
  ASSUME NEW a \in 0 .. 100
  PROVE  Heighten(a) \in 0 .. 100 /\ Heighten(a) >= a
BY DEF Heighten, Least

(* One object answers every call with state of the declared types, the     *)
(* acuity of a cell never leaving [0, 1], however long it lives.           *)
THEOREM TypeCorrect == Spec => []TypeOK
<1>1. Init => TypeOK
  BY BoundAssumption DEF Init, TypeOK, Baseline, Cell
<1>2. TypeOK /\ [Next]_vars => TypeOK'
  <2> SUFFICES ASSUME TypeOK, [Next]_vars PROVE TypeOK'
    OBVIOUS
  <2>1. ASSUME NEW p \in Payload, Adjudicate(p)
        PROVE  TypeOK'
    <3>1. adjudications' \in Nat
      BY <2>1 DEF Adjudicate, TypeOK
    <3>2. CASE SovereigntyDepth(p) >= GRAVE /\ Inscribe(p) /\ BroadcastCytokineStorm
                /\ condemnations' = condemnations + (IF IsCondemned(p) THEN 1 ELSE 0)
                /\ quarantines' = quarantines + (IF IsCondemned(p) THEN 0 ELSE 1)
                /\ flagged' = flagged \cup {p}
      <4>1. acuity' \in [Cell -> 0 .. 100]
        BY <3>2, HeightenType DEF BroadcastCytokineStorm, TypeOK
      <4>2. vault' \subseteq Antibody /\ engrams' \in [Engram -> Nat]
        BY <3>2, InscribeType
      <4>3. condemnations' \in Nat /\ quarantines' \in Nat /\ flagged' \subseteq Payload
        BY <3>2 DEF TypeOK
      <4> QED BY <3>1, <4>1, <4>2, <4>3 DEF TypeOK
    <3>3. CASE UNCHANGED <<acuity, memory, condemnations, quarantines, flagged>>
      BY <3>1, <3>3 DEF TypeOK, memory
    <3> QED BY <2>1, <3>2, <3>3 DEF Adjudicate, Respond
  <2>2. CASE UNCHANGED vars
    BY <2>2 DEF TypeOK, vars
  <2> QED BY <2>1, <2>2 DEF Next
<1> QED
  BY <1>1, <1>2, PTL DEF Spec

----------------------------------------------------------------------------
(* The counters and the acuities. *)

LEMMA BaselineType == \A c \in Cell : Baseline[c] \in 65 .. 90
BY DEF Baseline, Cell

(* Every verdict at GRAVE or above heightens every cell once.              *)
THEOREM AcuityTracks == Spec => []AcuityFollowsStorms
<1>1. Init => AcuityFollowsStorms
  BY BaselineType DEF Init, AcuityFollowsStorms, Storms, Least
<1>2. TypeOK /\ AcuityFollowsStorms /\ [Next]_vars => AcuityFollowsStorms'
  <2> SUFFICES ASSUME TypeOK, AcuityFollowsStorms, [Next]_vars,
                      NEW c \in Cell
               PROVE  acuity'[c] = Least(100, Baseline[c] + 10 * Storms')
    BY DEF AcuityFollowsStorms
  <2>1. Storms \in Nat /\ Baseline[c] \in 65 .. 90
    BY BaselineType DEF Storms, TypeOK
  <2>2. acuity[c] = Least(100, Baseline[c] + 10 * Storms)
    BY DEF AcuityFollowsStorms
  <2>3. ASSUME NEW p \in Payload, SovereigntyDepth(p) >= GRAVE, BroadcastCytokineStorm,
               condemnations' = condemnations + (IF IsCondemned(p) THEN 1 ELSE 0),
               quarantines' = quarantines + (IF IsCondemned(p) THEN 0 ELSE 1)
        PROVE  acuity'[c] = Least(100, Baseline[c] + 10 * Storms')
    <3>1. Storms' = Storms + 1
      BY <2>3 DEF Storms, TypeOK
    <3>2. acuity'[c] = Least(100, acuity[c] + 10)
      BY <2>3 DEF BroadcastCytokineStorm, Heighten
    <3> QED BY <2>1, <2>2, <3>1, <3>2 DEF Least
  <2>4. CASE UNCHANGED <<acuity, condemnations, quarantines>>
    BY <2>2, <2>4 DEF Storms
  <2> QED BY <2>3, <2>4 DEF Next, Adjudicate, Respond, vars
<1> QED
  BY <1>1, <1>2, TypeCorrect, PTL DEF Spec

(* After two storms the memory is mute for good.                           *)
THEOREM MemoryCloses == Spec => []MemoryWindow
<1>1. TypeOK /\ AcuityFollowsStorms => MemoryWindow
  <2> SUFFICES ASSUME TypeOK, AcuityFollowsStorms, Storms >= 2, NEW p \in Payload
               PROVE  MnemosyneCache(p) = {}
    BY DEF MemoryWindow
  <2>1. acuity["mnemosyne_cache"] = Least(100, 70 + 10 * Storms)
    BY DEF AcuityFollowsStorms, Baseline, Cell
  <2>2. acuity["mnemosyne_cache"] > MemoryVeracity
    BY <2>1 DEF Storms, TypeOK, Least, MemoryVeracity
  <2> QED BY <2>1, <2>2 DEF MnemosyneCache, Storms, TypeOK, Least, MemoryVeracity
<1> QED
  BY <1>1, TypeCorrect, AcuityTracks, PTL

(* No call lets a cell see more than it saw before.                        *)
THEOREM StormsNeverSharpen == Spec => DetectionOnlyShrinks
<1>1. TypeOK /\ [Next]_vars =>
        [\A p \in Payload : TextFindings(p, acuity') \subseteq TextFindings(p, acuity)]_vars
  <2> SUFFICES ASSUME TypeOK, Next, NEW p \in Payload
               PROVE  TextFindings(p, acuity') \subseteq TextFindings(p, acuity)
    OBVIOUS
  <2>1. \A c \in Cell : /\ acuity[c] \in Int /\ acuity'[c] \in Int
                        /\ acuity'[c] >= acuity[c]
    <3>1. \A c \in Cell : acuity[c] \in 0 .. 100
      BY DEF TypeOK
    <3>2. CASE BroadcastCytokineStorm
      <4>1. \A c \in Cell : acuity'[c] = Heighten(acuity[c])
        BY <3>2 DEF BroadcastCytokineStorm
      <4>2. \A c \in Cell : /\ acuity'[c] \in 0 .. 100
                            /\ acuity'[c] >= acuity[c]
        BY <3>1, <4>1, HeightenType
      <4> QED BY <3>1, <4>2
    <3>3. CASE acuity' = acuity
      BY <3>1, <3>3
    <3>4. BroadcastCytokineStorm \/ acuity' = acuity
      BY DEF Next, Adjudicate, Respond
    <3> QED BY <3>2, <3>3, <3>4
  <2>2. VanguardProbe(p, acuity') \subseteq VanguardProbe(p, acuity)
    <3>1. ASSUME NEW i \in Scan[p].injections, 
                 InjectionVeracity(i.words) >= acuity'["vanguard_probe"]
          PROVE  InjectionVeracity(i.words) >= acuity["vanguard_probe"]
      <4>1. InjectionVeracity(i.words) \in Int
        BY ScanFinite DEF ScanResult, InjectionVeracity, Least
      <4> QED BY <3>1, <4>1, <2>1 DEF Cell
    <3> QED BY <3>1 DEF VanguardProbe
  <2>3. LogosScythe(p, acuity') \subseteq LogosScythe(p, acuity)
    <3>1. ASSUME NEW d \in Scan[p].deceptions,
                 DeceptionVeracity(d.hits) >= acuity'["logos_scythe"]
          PROVE  DeceptionVeracity(d.hits) >= acuity["logos_scythe"]
      <4>1. DeceptionVeracity(d.hits) \in Int
        BY ScanFinite DEF ScanResult, DeceptionVeracity, Least
      <4> QED BY <3>1, <4>1, <2>1 DEF Cell
    <3> QED BY <3>1 DEF LogosScythe
  <2> QED BY <2>2, <2>3 DEF TextFindings
<1> QED
  BY <1>1, TypeCorrect, PTL DEF Spec, DetectionOnlyShrinks

----------------------------------------------------------------------------
(* The verdict. *)

LEMMA DepthsType ==
  ASSUME NEW p \in Payload
  PROVE  Depths(p) \subseteq CorruptionDepth
<1>1. \A m \in TextFindings(p, acuity) \cup FinalityForge(p) : m.depth \in CorruptionDepth
  BY TextFindingsType, FinalityForgeType DEF FiniteFindings, Finding
<1>2. \A r \in MnemosyneCache(p) : r[1].depth \in CorruptionDepth
  BY MnemosyneCacheType DEF Engram, EngramsOf, CorruptionDepth, VOID, GRAVE, CONDEMNED
<1> QED
  BY <1>1, <1>2 DEF Depths

(* Five depths, so a payload's deepest finding exists. *)
LEMMA DeepestExists ==
  ASSUME NEW D \in SUBSET CorruptionDepth
  PROVE  \E d \in D \cup {VOID} : \A other \in D : other <= d
<1>1. D \subseteq {0, 1, 2, 3, 4}
  BY DEF CorruptionDepth, VOID, CONDEMNED
<1>2. CASE 4 \in D
  BY <1>1, <1>2
<1>3. CASE 4 \notin D /\ 3 \in D
  BY <1>1, <1>3
<1>4. CASE 4 \notin D /\ 3 \notin D /\ 2 \in D
  BY <1>1, <1>4
<1>5. CASE D \subseteq {0, 1}
  BY <1>5 DEF VOID
<1> QED
  BY <1>1, <1>2, <1>3, <1>4, <1>5

LEMMA DeepestBounds ==
  ASSUME NEW p \in Payload
  PROVE  /\ SovereigntyDepth(p) \in Depths(p) \cup {VOID}
         /\ \A d \in Depths(p) : d <= SovereigntyDepth(p)
<1>1. \E d \in Depths(p) \cup {VOID} : \A other \in Depths(p) : other <= d
  BY DepthsType, DeepestExists
<1> QED
  BY <1>1 DEF SovereigntyDepth

(* No number of storms makes a cell with a fixed verdict milder.           *)
THEOREM FloorHolds == Spec => []UnconditionalFloor
<1>1. UnconditionalFloor
  <2> SUFFICES ASSUME NEW p \in Payload, NEW d \in UnconditionalDepths(p)
               PROVE  SovereigntyDepth(p) >= d
    BY DEF UnconditionalFloor
  <2>1. PICK m \in TextFindings(p, acuity) : m.depth = d
    <3>1. CASE \E h \in Scan[p].harms : d = HarmDepth(h.sigil)
      <4>1. PICK h \in Scan[p].harms : d = HarmDepth(h.sigil)
        BY <3>1
      <4>2. Malignum("moral", HarmDepth(h.sigil), h.sigil, h.text) \in VanguardProbe(p, acuity)
        BY DEF VanguardProbe
      <4> QED BY <4>1, <4>2 DEF TextFindings, Malignum
    <3>2. CASE \E t \in Scan[p].taints : d = TaintDepth(t.sigil)
      <4>1. PICK t \in Scan[p].taints : d = TaintDepth(t.sigil)
        BY <3>2
      <4>2. Malignum("moral", TaintDepth(t.sigil), t.sigil, t.text) \in TaintBeacon(p)
        BY DEF TaintBeacon
      <4> QED BY <4>1, <4>2 DEF TextFindings, Malignum
    <3>3. CASE \E s \in Scan[p].structure : d = StructuralDepth[s]
      <4>1. PICK s \in Scan[p].structure : d = StructuralDepth[s]
        BY <3>3
      <4>2. Malignum(IF s = "homoglyph_substitution" THEN "symbolic" ELSE "moral",
                     StructuralDepth[s], s, MarkupNote) \in SanitasSwarm(p)
        BY DEF SanitasSwarm
      <4> QED BY <4>1, <4>2 DEF TextFindings, Malignum
    <3>4. CASE \E s \in Scan[p].parasites : d = ParasiticDepth[s]
      <4>1. PICK s \in Scan[p].parasites : d = ParasiticDepth[s]
        BY <3>4
      <4>2. Malignum("parasitic", ParasiticDepth[s], s, FloodNote) \in EntropicWatch(p)
        BY DEF EntropicWatch
      <4> QED BY <4>1, <4>2 DEF TextFindings, Malignum
    <3> QED BY <3>1, <3>2, <3>3, <3>4 DEF UnconditionalDepths
  <2>2. d \in Depths(p)
    BY <2>1 DEF Depths
  <2>3. SovereigntyDepth(p) \in Int /\ d \in Int
    BY <2>2, DepthsType, DeepestBounds DEF CorruptionDepth, VOID, CONDEMNED
  <2> QED BY <2>2, <2>3, DeepestBounds
<1> QED
  BY <1>1, PTL

----------------------------------------------------------------------------
(* The two stores of memory. *)

LEMMA MembersCounted ==
  ASSUME NEW S, IsFiniteSet(S)
  PROVE  Cardinality(S) \in Nat /\ (Cardinality(S) > 0 <=> S # {})
BY FS_CardinalityType, FS_EmptySet

(* What one inscription adds to the list. *)
LEMMA InscribedWhen ==
  ASSUME NEW p \in Payload, TypeOK, Inscribe(p), NEW e \in Engram
  PROVE  engrams'[e] > 0 <=>
           \/ engrams[e] > 0
           \/ \E m \in Confirmed(p) : m.fragment \in Long /\ EngramOf(m) = e
           \/ \E r \in MnemosyneCache(p) : r[1].text \in Long /\ r[1] = e
<1> DEFINE found == {m \in Confirmed(p) : m.fragment \in Long /\ EngramOf(m) = e}
           listed == {r \in MnemosyneCache(p) : r[1].text \in Long /\ r[1] = e}
<1>1. engrams[e] \in Nat
  BY DEF TypeOK
<1>2. Cardinality(found) \in Nat /\ (Cardinality(found) > 0 <=> found # {})
  <2>1. IsFiniteSet(found)
    BY ConfirmedType, FS_Subset DEF FiniteFindings
  <2> HIDE DEF found
  <2> QED BY <2>1, MembersCounted
<1>3. Cardinality(listed) \in Nat /\ (Cardinality(listed) > 0 <=> listed # {})
  <2>1. IsFiniteSet(listed)
    BY <1>1, ListingsFinite
  <2> HIDE DEF listed
  <2> QED BY <2>1, MembersCounted
<1>4. engrams'[e] = engrams[e] + Cardinality(found) + Cardinality(listed)
  BY DEF Inscribe
<1>5. found # {} <=> \E m \in Confirmed(p) : m.fragment \in Long /\ EngramOf(m) = e
  OBVIOUS
<1>6. listed # {} <=> \E r \in MnemosyneCache(p) : r[1].text \in Long /\ r[1] = e
  OBVIOUS
<1> HIDE DEF found, listed
<1> QED
  BY <1>1, <1>2, <1>3, <1>4, <1>5, <1>6

(* The vault and the list of engrams hold the same threats.                *)
THEOREM StoresAgree == Spec => []VaultMatchesEngrams
<1>1. Init => VaultMatchesEngrams
  BY DEF Init, VaultMatchesEngrams
<1>2. TypeOK /\ VaultMatchesEngrams /\ [Next]_vars => VaultMatchesEngrams'
  <2> SUFFICES ASSUME TypeOK, VaultMatchesEngrams, [Next]_vars
               PROVE  VaultMatchesEngrams'
    OBVIOUS
  <2>1. ASSUME NEW p \in Payload, Inscribe(p)
        PROVE  VaultMatchesEngrams'
    <3>1. ASSUME NEW e \in Engram, engrams'[e] > 0
          PROVE  \E k \in vault' : k.class = e.class /\ k.fragment = e.text
      <4>1. CASE engrams[e] > 0
        BY <2>1, <4>1 DEF VaultMatchesEngrams, Inscribe
      <4>2. CASE \E m \in Confirmed(p) : m.fragment \in Long /\ EngramOf(m) = e
        <5>1. PICK m \in Confirmed(p) : EngramOf(m) = e
          BY <4>2
        <5>2. AntibodyOf(m) \in vault'
          BY <2>1 DEF Inscribe
        <5> QED BY <5>1, <5>2 DEF EngramOf, AntibodyOf
      <4>3. CASE \E r \in MnemosyneCache(p) : r[1].text \in Long /\ r[1] = e
        <5>1. PICK r \in MnemosyneCache(p) : r[1] = e
          BY <4>3
        <5>2. ResonanceAntibody(r) \in vault'
          BY <2>1 DEF Inscribe
        <5> QED BY <5>1, <5>2 DEF ResonanceAntibody
      <4> QED BY <2>1, <3>1, <4>1, <4>2, <4>3, InscribedWhen
    <3>2. ASSUME NEW k \in vault', k.fragment \in Long
          PROVE  \E e \in Engram : e.text = k.fragment /\ e.class = k.class /\ engrams'[e] > 0
      <4>1. CASE k \in vault
        BY <2>1, <3>2, <4>1, InscribedWhen DEF VaultMatchesEngrams
      <4>2. CASE \E m \in Confirmed(p) : k = AntibodyOf(m)
        <5>1. PICK m \in Confirmed(p) : k = AntibodyOf(m)
          BY <4>2
        <5>2. m \in Finding /\ m.depth >= GRAVE
          BY <5>1, ConfirmedType DEF FiniteFindings, Confirmed
        <5>3. m.depth \in {GRAVE, CONDEMNED}
          BY <5>2 DEF Finding, CorruptionDepth, VOID, GRAVE, CONDEMNED
        <5>4. EngramOf(m) \in Engram
          BY <5>2, <5>3 DEF EngramOf, Engram, EngramsOf, Finding
        <5>5. m.fragment \in Long
          BY <3>2, <5>1 DEF AntibodyOf
        <5>6. engrams'[EngramOf(m)] > 0
          BY <2>1, <5>1, <5>4, <5>5, InscribedWhen
        <5> QED BY <5>1, <5>4, <5>6 DEF EngramOf, AntibodyOf
      <4>3. CASE \E r \in MnemosyneCache(p) : k = ResonanceAntibody(r)
        <5>1. PICK r \in MnemosyneCache(p) : k = ResonanceAntibody(r)
          BY <4>3
        <5>2. r[1] \in Engram /\ r[1].text \in Long
          BY <3>2, <5>1, MnemosyneCacheType DEF ResonanceAntibody
        <5>3. engrams'[r[1]] > 0
          BY <2>1, <5>1, <5>2, InscribedWhen
        <5> QED BY <5>1, <5>2, <5>3 DEF ResonanceAntibody
      <4> QED BY <2>1, <4>1, <4>2, <4>3 DEF Inscribe
    <3> QED BY <3>1, <3>2 DEF VaultMatchesEngrams
  <2>2. CASE UNCHANGED memory
    BY <2>2 DEF VaultMatchesEngrams, memory
  <2> QED BY <2>1, <2>2 DEF Next, Adjudicate, Respond, vars, memory
<1> QED
  BY <1>1, <1>2, TypeCorrect, PTL DEF Spec
----------------------------------------------------------------------------
(* The repeat of the first flagged payload.                                 *)

(* Before the first storm nothing is flagged; between the first and the    *)
(* second, an engram of every flagged payload is listed that it quotes.    *)
Remembered ==
  /\ Storms = 0 => flagged = {}
  /\ Storms = 1 => \A p \in flagged : Rememberable(p) =>
       \E e \in EngramsOf(Scan[p].quotes) : engrams[e] > 0

(* Until a storm has passed the cells are at their first calibration. *)
LEMMA CalmIsBaseline ==
  ASSUME TypeOK, AcuityFollowsStorms, Storms = 0
  PROVE  acuity = Baseline
<1>1. \A c \in Cell : acuity[c] = Baseline[c]
  BY BaselineType DEF AcuityFollowsStorms, Least
<1>2. acuity = [c \in Cell |-> acuity[c]]
  BY DEF TypeOK
<1>3. Baseline = [c \in Cell |-> Baseline[c]]
  BY DEF Baseline, Cell
<1> QED
  BY <1>1, <1>2, <1>3

(* What the first storm inscribes of the payload that raised it. *)
LEMMA FirstStormRemembers ==
  ASSUME TypeOK, NEW p \in Payload, acuity = Baseline, Inscribe(p), Rememberable(p)
  PROVE  \E e \in EngramsOf(Scan[p].quotes) : engrams'[e] > 0
<1>1. PICK m \in TextFindings(p, acuity) :
        m.depth >= GRAVE /\ m.fragment \in Long \cap Scan[p].quotes
  BY DEF Rememberable
<1>2. m \in Confirmed(p)
  BY <1>1 DEF Confirmed
<1>3. m \in Finding
  BY <1>2, ConfirmedType DEF FiniteFindings
<1>4. m.depth \in {GRAVE, CONDEMNED}
  BY <1>1, <1>3 DEF Finding, CorruptionDepth, VOID, GRAVE, CONDEMNED
<1>5. EngramOf(m) \in Engram /\ EngramOf(m) \in EngramsOf(Scan[p].quotes)
  BY <1>1, <1>3, <1>4 DEF EngramOf, Engram, EngramsOf, Finding
<1>6. engrams'[EngramOf(m)] > 0
  BY <1>1, <1>2, <1>5, InscribedWhen
<1> QED
  BY <1>5, <1>6

LEMMA RememberedStep ==
  ASSUME TypeOK, AcuityFollowsStorms, Remembered, [Next]_vars
  PROVE  Remembered'
<1>1. ASSUME NEW p \in Payload, Inscribe(p), flagged' = flagged \cup {p},
             condemnations' = condemnations + (IF IsCondemned(p) THEN 1 ELSE 0),
             quarantines' = quarantines + (IF IsCondemned(p) THEN 0 ELSE 1)
      PROVE  Remembered'
  <2>1. Storms \in Nat /\ Storms' = Storms + 1
    BY <1>1 DEF Storms, TypeOK
  <2>2. CASE Storms = 0
    <3>1. flagged' = {p}
      BY <1>1, <2>2 DEF Remembered
    <3>2. Rememberable(p) => \E e \in EngramsOf(Scan[p].quotes) : engrams'[e] > 0
      BY <1>1, <2>2, CalmIsBaseline, FirstStormRemembers
    <3>3. \A q \in flagged' : Rememberable(q) =>
            \E e \in EngramsOf(Scan[q].quotes) : engrams'[e] > 0
      BY <3>1, <3>2
    <3> QED BY <2>1, <2>2, <3>3 DEF Remembered
  <2>3. CASE Storms # 0
    BY <2>1, <2>3 DEF Remembered
  <2> QED BY <2>2, <2>3
<1>2. CASE UNCHANGED <<memory, condemnations, quarantines, flagged>>
  BY <1>2 DEF Remembered, Storms, memory
<1> QED
  BY <1>1, <1>2 DEF Next, Adjudicate, Respond, vars, memory

(* A listed engram that the payload quotes is answered as long as the      *)
(* memory's acuity is at most its confidence.                              *)
LEMMA MemoryAnswers ==
  ASSUME TypeOK, NEW p \in Payload, acuity["mnemosyne_cache"] <= MemoryVeracity,
         NEW e \in EngramsOf(Scan[p].quotes), engrams[e] > 0
  PROVE  SovereigntyDepth(p) >= GRAVE
<1>1. Scan[p].quotes \subseteq Fragment
  BY ScanAssumption DEF ScanResult
<1>2. e \in Engram /\ e.depth \in {GRAVE, CONDEMNED}
  BY <1>1 DEF Engram, EngramsOf
<1>3. 1 \in 1 .. engrams[e]
  BY <1>2 DEF TypeOK
<1>4. <<e, 1>> \in {e} \X (1 .. engrams[e])
  BY <1>3
<1>5. acuity["mnemosyne_cache"] \in Int /\ MemoryVeracity \in Int
  BY DEF TypeOK, Cell, MemoryVeracity
<1>6. <<e, 1>> \in MnemosyneCache(p)
  BY <1>4, <1>5 DEF MnemosyneCache
<1>7. e.depth \in Depths(p)
  <2>1. <<e, 1>>[1].depth \in Depths(p)
    BY <1>6 DEF Depths
  <2> QED BY <2>1
<1>8. e.depth <= SovereigntyDepth(p) /\ SovereigntyDepth(p) \in CorruptionDepth
  BY <1>7, DeepestBounds, DepthsType DEF CorruptionDepth, VOID, CONDEMNED
<1> QED
  BY <1>2, <1>8 DEF CorruptionDepth, VOID, GRAVE, CONDEMNED

(* Between the first storm and the second the payload that raised the      *)
(* first one is judged GRAVE again, whatever its cell has become deaf to.  *)
THEOREM RepeatCaught == Spec => []FirstRepeatCaught
<1>1. Init => Remembered
  BY DEF Init, Remembered, Storms
<1>2. TypeOK /\ AcuityFollowsStorms /\ Remembered => FirstRepeatCaught
  <2> SUFFICES ASSUME TypeOK, AcuityFollowsStorms, Remembered, Storms = 1,
                      NEW p \in flagged, Rememberable(p)
               PROVE  SovereigntyDepth(p) >= GRAVE
    BY DEF FirstRepeatCaught
  <2>1. p \in Payload
    BY DEF TypeOK
  <2>2. PICK e \in EngramsOf(Scan[p].quotes) : engrams[e] > 0
    BY DEF Remembered
  <2>3. acuity["mnemosyne_cache"] <= MemoryVeracity
    BY DEF AcuityFollowsStorms, Baseline, Cell, Least, MemoryVeracity
  <2> QED BY <2>1, <2>2, <2>3, MemoryAnswers
<1> QED
  BY <1>1, <1>2, RememberedStep, TypeCorrect, AcuityTracks, PTL DEF Spec

----------------------------------------------------------------------------
(* The gate: NeuroStressBuffer and RateMeter, for any bucket, rate and     *)
(* window, and any number of callers between acquire and record_result.    *)

(* The operators. *)

LEMMA BucketType ==
  ASSUME BufferTypeOK
  PROVE  Refilled \in 0 .. Capacity /\ Refilled >= tokens
<1>1. elapsed * Rate \in Nat
  BY BufferAssumption DEF BufferTypeOK
<1> QED
  BY <1>1, BufferAssumption DEF BufferTypeOK, Refilled, Lesser

LEMMA AppendedType ==
  ASSUME BufferTypeOK, NEW threat \in BOOLEAN
  PROVE  /\ Appended(threat) \in Seq(BOOLEAN)
         /\ Len(Appended(threat)) <= Window
         /\ Len(Appended(threat)) >= Len(threats)
<1> DEFINE longer == Append(threats, threat)
<1>1. longer \in Seq(BOOLEAN) /\ Len(longer) = Len(threats) + 1
  BY DEF BufferTypeOK
<1>2. longer # << >> => Tail(longer) \in Seq(BOOLEAN) /\ Len(Tail(longer)) = Len(longer) - 1
  BY <1>1
<1>3. Len(threats) \in Nat /\ Len(threats) <= Window /\ Window \in Nat
  BY BufferAssumption DEF BufferTypeOK
<1>4. longer # << >>
  BY <1>1, <1>3
<1>5. Appended(threat) = IF Len(longer) <= Window THEN longer ELSE Tail(longer)
  BY DEF Appended
<1> HIDE DEF longer
<1>6. CASE Len(longer) <= Window
  <2>1. Appended(threat) = longer
    BY <1>5, <1>6
  <2> QED BY <1>1, <1>3, <1>6, <2>1
<1>7. CASE ~(Len(longer) <= Window)
  <2>1. Appended(threat) = Tail(longer)
    BY <1>5, <1>7
  <2>2. Tail(longer) \in Seq(BOOLEAN) /\ Len(Tail(longer)) = Len(threats)
    BY <1>1, <1>2, <1>3, <1>4
  <2> QED BY <1>3, <2>1, <2>2
<1> QED
  BY <1>6, <1>7

LEMMA ThreatCountType ==
  ASSUME NEW window \in Seq(BOOLEAN)
  PROVE  ThreatCount(window) \in Nat
<1>1. Len(window) \in Nat
  OBVIOUS
<1>2. IsFiniteSet(1 .. Len(window))
  BY <1>1, FS_Interval
<1>3. IsFiniteSet({i \in 1 .. Len(window) : window[i]})
  BY <1>2, FS_Subset
<1> QED
  BY <1>3, FS_CardinalityType DEF ThreatCount

(* No window is at the threshold and under half of it. *)
LEMMA Hysteresis ==
  ASSUME NEW window \in Seq(BOOLEAN), Overwhelmed(window)
  PROVE  ~Normalized(window)
<1>1. ThreatCount(window) \in Nat /\ OpenPct * Len(window) \in Int
  BY ThreatCountType, BufferAssumption
<1> QED
  BY <1>1 DEF Overwhelmed, Normalized

----------------------------------------------------------------------------
(* The buffer. *)

(* Bucket, window and callers keep their bounds: the bucket in particular  *)
(* is never below zero nor above its capacity.                             *)
LEMMA BufferStepType == BufferTypeOK /\ [BufferNext]_buffer => BufferTypeOK'
<1> SUFFICES ASSUME BufferTypeOK, [BufferNext]_buffer PROVE BufferTypeOK'
  OBVIOUS
<1>1. CASE Tick
  BY <1>1 DEF Tick, BufferTypeOK, breaker
<1>2. CASE Permit
  <2>1. tokens' \in 0 .. Capacity
    BY <1>2, BucketType, BufferAssumption DEF Permit, RefillBucket
  <2>2. inFlight' \in 0 .. MaxInFlight
    BY <1>2, BufferAssumption DEF Permit, BufferTypeOK
  <2> QED BY <1>2, <2>1, <2>2 DEF Permit, RefillBucket, BufferTypeOK, breaker
<1>3. CASE Refuse
  BY <1>3, BucketType DEF Refuse, RefillBucket, BufferTypeOK, breaker
<1>4. CASE Record
  <2>1. PICK threat \in BOOLEAN : RecordResult(threat)
    BY <1>4 DEF Record
  <2>2. threats' \in Seq(BOOLEAN) /\ Len(threats') <= Window
    BY <2>1, AppendedType DEF RecordResult
  <2>3. circuitOpen' \in BOOLEAN
    BY <2>1 DEF RecordResult, UpdateCircuit, BufferTypeOK
  <2>4. inFlight' \in 0 .. MaxInFlight
    BY <2>1, BufferAssumption DEF RecordResult, BufferTypeOK
  <2> QED BY <2>1, <2>2, <2>3, <2>4 DEF RecordResult, bucket, BufferTypeOK
<1>5. CASE UNCHANGED buffer
  BY <1>5 DEF buffer, BufferTypeOK
<1> QED
  BY <1>1, <1>2, <1>3, <1>4, <1>5 DEF BufferNext, Acquire

LEMMA BufferInitType == BufferInit => BufferTypeOK
<1> SUFFICES ASSUME BufferInit PROVE BufferTypeOK
  OBVIOUS
<1>1. tokens \in 0 .. Capacity /\ elapsed \in Nat /\ inFlight \in 0 .. MaxInFlight
  BY BufferAssumption DEF BufferInit
<1>2. circuitOpen \in BOOLEAN
  BY DEF BufferInit
<1>3. threats \in Seq(BOOLEAN) /\ Len(threats) <= Window
  BY BufferAssumption DEF BufferInit
<1> QED
  BY <1>1, <1>2, <1>3 DEF BufferTypeOK

(* The buffer's state keeps its type and its bounds. *)
THEOREM BufferTypeCorrect == BufferSpec => []BufferTypeOK
BY BufferInitType, BufferStepType, PTL DEF BufferSpec

(* The breaker always agrees with the window it was computed from.         *)
THEOREM BreakerAgrees == BufferSpec => []CircuitMatchesWindow
<1>1. BufferInit => CircuitMatchesWindow
  BY BufferAssumption DEF BufferInit, CircuitMatchesWindow
<1>2. BufferTypeOK /\ CircuitMatchesWindow /\ [BufferNext]_buffer
        => CircuitMatchesWindow'
  <2> SUFFICES ASSUME BufferTypeOK, CircuitMatchesWindow, [BufferNext]_buffer
               PROVE  CircuitMatchesWindow'
    OBVIOUS
  <2>1. CASE UNCHANGED breaker
    BY <2>1 DEF breaker, CircuitMatchesWindow, Overwhelmed, Normalized, ThreatCount
  <2>2. ASSUME NEW threat \in BOOLEAN, RecordResult(threat)
        PROVE  CircuitMatchesWindow'
    <3> DEFINE window == Appended(threat)
    <3>1. threats' = window /\ UpdateCircuit(window)
      BY <2>2 DEF RecordResult
    <3>2. window \in Seq(BOOLEAN) /\ Len(window) >= Len(threats)
      BY AppendedType
    <3>3. Len(window) \in Nat /\ Len(threats) \in Nat /\ MinSamples \in Nat
      BY <3>2, BufferAssumption DEF BufferTypeOK
    <3> HIDE DEF window
    <3>4. Overwhelmed(window) => ~Normalized(window)
      BY <3>2, Hysteresis
    <3>5. CircuitMatchesWindow' <=>
            /\ circuitOpen' => Len(window) >= MinSamples /\ ~Normalized(window)
            /\ ~circuitOpen' => Len(window) < MinSamples \/ ~Overwhelmed(window)
      BY <3>1 DEF CircuitMatchesWindow, Overwhelmed, Normalized, ThreatCount
    <3>6. CASE Len(window) < MinSamples
      <4>1. ~circuitOpen
        BY <3>2, <3>3, <3>6 DEF CircuitMatchesWindow
      <4> QED BY <3>1, <3>5, <3>6, <4>1 DEF UpdateCircuit
    <3>7. CASE Len(window) >= MinSamples
      <4>1. ~(Len(window) < MinSamples)
        BY <3>3, <3>7
      <4>2. circuitOpen' = IF Overwhelmed(window) THEN TRUE
                           ELSE circuitOpen /\ ~Normalized(window)
        BY <3>1, <4>1 DEF UpdateCircuit
      <4> QED BY <3>4, <3>5, <3>7, <4>2
    <3> QED BY <3>3, <3>6, <3>7
  <2> QED BY <2>1, <2>2 DEF BufferNext, Acquire, Tick, Permit, Refuse, Record, buffer,
      breaker
<1> QED
  BY <1>1, <1>2, BufferTypeCorrect, PTL DEF BufferSpec

(* An open breaker that nobody is inside of never closes again.            *)
THEOREM OpenForGood == BufferSpec => BreakerLatches
<1>1. BufferTypeOK /\ circuitOpen /\ inFlight = 0 /\ [BufferNext]_buffer
        => (circuitOpen /\ inFlight = 0)'
  <2> SUFFICES ASSUME BufferTypeOK, circuitOpen, inFlight = 0, [BufferNext]_buffer
               PROVE  circuitOpen' /\ inFlight' = 0
    OBVIOUS
  <2>1. CASE Tick
    BY <2>1 DEF Tick, breaker
  <2>2. CASE Acquire
    BY <2>2 DEF Acquire, Permit, Refuse, breaker
  <2>3. ~Record
    BY DEF Record, RecordResult
  <2>4. CASE UNCHANGED buffer
    BY <2>4 DEF buffer
  <2> QED BY <2>1, <2>2, <2>3, <2>4 DEF BufferNext
<1> QED
  BY <1>1, BufferTypeCorrect, PTL DEF BufferSpec, BreakerLatches

----------------------------------------------------------------------------
(* The meter. *)

LEMMA MeterStepType == MeterTypeOK /\ [MeterNext]_<<buffer, meter>> => MeterTypeOK'
<1> SUFFICES ASSUME MeterTypeOK, [MeterNext]_<<buffer, meter>>
             PROVE  MeterTypeOK'
  OBVIOUS
<1>1. BufferTypeOK'
  <2>1. [BufferNext]_buffer
    BY DEF MeterNext, StartMeter, MeteredTick, MeteredPermit, MeteredRefuse, MeteredRecord,
        BufferNext, Acquire
  <2> QED BY <2>1, BufferStepType DEF MeterTypeOK
<1>2. metering' \in BOOLEAN
  BY Zenon DEF MeterTypeOK, MeterNext, StartMeter, MeteredTick, MeteredPermit,
      MeteredRefuse, MeteredRecord, meter
<1>3. granted' \in Nat
  BY DEF MeterTypeOK, MeterNext, StartMeter, MeteredTick, MeteredPermit, MeteredRefuse,
      MeteredRecord, meter
<1>4. now' \in Nat
  BY DEF MeterTypeOK, MeterNext, StartMeter, MeteredTick, MeteredPermit, MeteredRefuse,
      MeteredRecord, meter
<1> QED
  BY <1>1, <1>2, <1>3, <1>4 DEF MeterTypeOK

(* A step of the bucket against the budget. *)
LEMMA TickAdds ==
  ASSUME BufferTypeOK, Tick
  PROVE  Refilled' \in Int /\ Refilled' <= Refilled + Rate
<1>1. elapsed * Rate \in Nat /\ tokens \in Nat /\ Rate \in Nat /\ Capacity \in Nat
  BY BufferAssumption DEF BufferTypeOK
<1>2. tokens' = tokens
  BY DEF Tick
<1>3. elapsed' * Rate = elapsed * Rate \/ elapsed' * Rate = elapsed * Rate + Rate
  BY BufferAssumption DEF Tick, BufferTypeOK
<1>4. Refilled' = Lesser(Capacity, tokens' + elapsed' * Rate)
  BY DEF Refilled, Lesser
<1> QED
  BY <1>1, <1>2, <1>3, <1>4 DEF Refilled, Lesser

LEMMA AcquireSpends ==
  ASSUME BufferTypeOK, NEW left \in 0 .. Capacity, RefillBucket(left)
  PROVE  Refilled' = left
<1>1. elapsed' * Rate = 0
  BY BufferAssumption DEF RefillBucket
<1> QED
  BY <1>1, BufferAssumption DEF RefillBucket, Refilled, Lesser

LEMMA BudgetStep == MeterTypeOK /\ Budget /\ [MeterNext]_<<buffer, meter>> => Budget'
<1> SUFFICES ASSUME MeterTypeOK, Budget,
                    [MeterNext]_<<buffer, meter>>, metering'
             PROVE  granted' * Cost + Refilled' <= Capacity + Rate * now'
  BY DEF Budget
<1>1. BufferTypeOK /\ granted \in Nat /\ now \in Nat /\ Refilled \in 0 .. Capacity
  BY BucketType DEF MeterTypeOK
<1>2. granted * Cost \in Nat /\ Rate * now \in Nat /\ Cost \in Nat /\ Rate \in Nat
        /\ Capacity \in Nat
  BY <1>1, BufferAssumption
<1>3. CASE StartMeter
  <2>1. Refilled' = Refilled
    BY <1>3 DEF StartMeter, buffer, Refilled, Lesser
  <2>2. granted' * Cost = 0 /\ Rate * now' = 0
    BY <1>2, <1>3 DEF StartMeter
  <2> QED BY <1>1, <1>2, <2>1, <2>2
<1>4. CASE MeteredTick
  <2>1. metering /\ granted' = granted /\ now' = now + 1
    BY <1>4 DEF MeteredTick, meter
  <2>2. Refilled' \in Int /\ Refilled' <= Refilled + Rate
    BY <1>1, <1>4, TickAdds DEF MeteredTick
  <2>3. granted' * Cost = granted * Cost
    BY <2>1
  <2>4. Rate * now' = Rate * now + Rate
    BY <1>1, <1>2, <2>1
  <2>5. granted * Cost + Refilled <= Capacity + Rate * now
    BY <2>1 DEF Budget
  <2>6. Refilled \in Int
    BY <1>1, <1>2
  <2> QED BY <1>2, <2>2, <2>3, <2>4, <2>5, <2>6
<1>5. CASE MeteredPermit
  <2>1. metering /\ granted' = granted + 1 /\ now' = now
    BY <1>5 DEF MeteredPermit
  <2>2. Refilled - Cost \in 0 .. Capacity /\ RefillBucket(Refilled - Cost)
    BY <1>1, <1>2, <1>5 DEF MeteredPermit, Permit
  <2>3. Refilled' = Refilled - Cost
    BY <1>1, <2>2, AcquireSpends
  <2>4. granted' * Cost = granted * Cost + Cost
    BY <1>1, <1>2, <2>1
  <2>5. granted * Cost + Refilled <= Capacity + Rate * now
    BY <2>1 DEF Budget
  <2> QED BY <1>1, <1>2, <2>1, <2>3, <2>4, <2>5
<1>6. CASE MeteredRefuse
  <2>1. Refilled' = Refilled
    BY <1>1, <1>6, AcquireSpends DEF MeteredRefuse, Refuse
  <2> QED BY <1>6, <2>1 DEF Budget, MeteredRefuse, meter
<1>8. CASE MeteredRecord
  <2>1. UNCHANGED bucket
    BY <1>8 DEF MeteredRecord, Record, RecordResult
  <2> QED BY <1>8, <2>1 DEF Budget, MeteredRecord, meter, bucket, Refilled, Lesser
<1>7. CASE UNCHANGED <<buffer, meter>>
  BY <1>7 DEF buffer, meter, Budget, Refilled, Lesser
<1> QED
  BY <1>3, <1>4, <1>5, <1>6, <1>7, <1>8 DEF MeterNext

(* From any moment on, permits never outrun a full bucket plus the rate.   *)
THEOREM RateBounded == MeterSpec => []RateHolds
<1>1. MeterInit => MeterTypeOK /\ Budget
  <2> SUFFICES ASSUME MeterInit PROVE MeterTypeOK /\ Budget
    OBVIOUS
  <2>1. BufferTypeOK
    BY BufferInitType DEF MeterInit
  <2>2. metering = FALSE /\ granted = 0 /\ now = 0
    BY DEF MeterInit
  <2> QED BY <2>1, <2>2 DEF MeterTypeOK, Budget
<1>2. MeterTypeOK /\ Budget => RateHolds
  <2> SUFFICES ASSUME MeterTypeOK, Budget, metering
               PROVE  granted * Cost <= Capacity + Rate * now
    BY DEF RateHolds
  <2>1. granted * Cost \in Nat /\ Rate * now \in Nat /\ Capacity \in Nat
    BY BufferAssumption DEF MeterTypeOK
  <2>2. Refilled \in 0 .. Capacity
    BY BucketType DEF MeterTypeOK
  <2> QED BY <2>1, <2>2 DEF Budget
<1> QED
  BY <1>1, <1>2, MeterStepType, BudgetStep, PTL DEF MeterSpec
=============================================================================
