----------------------------- MODULE EthosAegis -----------------------------
(***************************************************************************)
(* The immune core, python/ethos_aegis/core/aegis.py: one EthosAegis       *)
(* object, its seven SentinelCells, the CytokineCommand that heightens     *)
(* them and the MnemosyneCache that remembers confirmed threats.           *)
(*                                                                         *)
(* A payload is a value; what each cell's regular expressions and counts   *)
(* find in it is the constant Scan.  Confidence and acuity are hundredths  *)
(* (no float of aegis.py compares differently from its hundredths).        *)
(*                                                                         *)
(* adjudicate is one action: the code is synchronous and takes no          *)
(* callback, and every change it makes belongs to the same call.           *)
(***************************************************************************)
EXTENDS Integers, FiniteSets

CONSTANTS
  Payload,          \* the inputs that can be adjudicated
  Fragment,         \* the pieces of text a Malignum can quote
  Long,             \* the fragments whose engram has more than 8 characters
  Scan,             \* what the patterns of each cell find in a payload
  MarkupNote,       \* the fixed sentences that three detections quote instead
  FloodNote,        \*   of the payload's own text
  ForgeNote,
  MaxAdjudications  \* bound on the calls of adjudicate

----------------------------------------------------------------------------
(* Severity and taxonomy. *)

VOID == 0
TRACE == 1
CAUTION == 2
GRAVE == 3
CONDEMNED == 4

CorruptionDepth == VOID .. CONDEMNED

MalignaClass == {"moral", "symbolic", "narcissis", "parasitic", "systemic"}

Least(a, b) == IF a <= b THEN a ELSE b

(* The registry, with the acuity each cell is differentiated with. *)
Baseline == [vanguard_probe  |-> 75, taint_beacon   |-> 85, sanitas_swarm |-> 80,
             logos_scythe    |-> 65, mnemosyne_cache |-> 70, entropic_watch |-> 70,
             finality_forge  |-> 90]

Cell == {"vanguard_probe", "taint_beacon", "sanitas_swarm", "logos_scythe",
         "mnemosyne_cache", "entropic_watch", "finality_forge"}

InjectionSigil == {"override_anterior", "persona_seizure", "ethic_dissolve", "system_graft",
              "template_injection", "privilege_ascent", "echo_harvest", "vault_exfil",
              "constraint_erasure"}

Harm == {"mass_harm_facilitation", "intrusion_facilitation", "absolute_terminus"}

Taint == {"dehumanization_framing", "radicalization_seeding",
          "self_harm_facilitation", "manufactured_proof_bias"}

Deception == {"gaslighting_veil", "triangulation_web", "urgency_forge",
              "authority_forgery", "integrity_smear"}

Structural == {"invisible_disruption", "homoglyph_substitution",
               "encoded_concealment", "markup_intrusion"}

Parasitic == {"token_flood_attack", "repetition_loop_attack",
              "context_stuffing", "entropy_collapse"}

Sigil == InjectionSigil \cup Harm \cup Taint \cup Deception \cup Structural \cup Parasitic
           \cup {"antibody_resonance", "compound_condemnation"}

(* What one payload holds.  An injection hit has the words it matched, a   *)
(* deception cluster the number of its patterns that matched; "quotes" are *)
(* the fragments that occur in the purified, lower-cased text.             *)
ScanResult ==
  [injections : SUBSET [sigil : InjectionSigil, text : Fragment, words : Nat \ {0}],
   harms      : SUBSET [sigil : Harm, text : Fragment],
   taints     : SUBSET [sigil : Taint, text : Fragment],
   structure  : SUBSET Structural,
   deceptions : SUBSET [sigil : Deception, text : Fragment, hits : Nat \ {0}],
   parasites  : SUBSET Parasitic,
   quotes     : SUBSET Fragment]

(* A regular expression finds finitely many things in a finite text. *)
ASSUME ScanAssumption ==
  \A p \in Payload :
    /\ Scan[p] \in ScanResult
    /\ \A found \in {Scan[p].injections, Scan[p].harms, Scan[p].taints,
                     Scan[p].structure, Scan[p].deceptions, Scan[p].parasites} :
         IsFiniteSet(found)

ASSUME FragmentAssumption ==
  /\ Long \subseteq Fragment
  /\ {MarkupNote, FloodNote, ForgeNote} \subseteq Fragment

ASSUME BoundAssumption == MaxAdjudications \in Nat

(* The antigen of a finding (what resonance_key hashes) and its engram. *)
Antibody == [class : MalignaClass, sigil : Sigil, fragment : Fragment]
EngramsOf(texts) == [text : texts, class : MalignaClass, depth : {GRAVE, CONDEMNED}]
Engram == EngramsOf(Fragment)

Malignum(class, depth, sigil, fragment) ==
  [class |-> class, depth |-> depth, sigil |-> sigil, fragment |-> fragment]

VARIABLES
  acuity,         \* acuity of every registered cell, in hundredths
  vault,          \* MnemosyneCache._antibody_vault, by resonance key
  engrams,        \* MnemosyneCache._memory_engrams: how often each is listed
  adjudications, condemnations, quarantines,   \* the lifetime counters
  flagged         \* history: payloads that some verdict put at GRAVE or above

memory == <<vault, engrams>>
vars == <<acuity, vault, engrams, adjudications, condemnations, quarantines, flagged>>

TypeOK ==
  /\ acuity \in [Cell -> 0 .. 100]
  /\ vault \subseteq Antibody
  /\ engrams \in [Engram -> Nat]
  /\ adjudications \in Nat
  /\ condemnations \in Nat
  /\ quarantines \in Nat
  /\ flagged \subseteq Payload

----------------------------------------------------------------------------
(* The cells.  Each is the set of Maligna its interrogate returns.          *)

InjectionVeracity(words) == Least(100, 75 + 4 * words)

(* The unforgivable sigils of two of the cells. *)
HarmDepth(sigil) == IF sigil = "absolute_terminus" THEN CONDEMNED ELSE GRAVE
TaintDepth(sigil) ==
  IF sigil \in {"self_harm_facilitation", "radicalization_seeding"} THEN CONDEMNED ELSE GRAVE

VanguardProbe(p, a) ==
  {Malignum("moral", GRAVE, i.sigil, i.text) :
     i \in {i \in Scan[p].injections :
              InjectionVeracity(i.words) >= a["vanguard_probe"]}}
  \cup {Malignum("moral", HarmDepth(h.sigil), h.sigil, h.text) : h \in Scan[p].harms}

(* A beacon that, like the probe, compares its confidence with its acuity. *)
MutantTaintBeaconCompares(p) ==
  {Malignum("moral", TaintDepth(t.sigil), t.sigil, t.text) :
     t \in {t \in Scan[p].taints : 89 >= acuity["taint_beacon"]}}

(* The beacon's confidence, 0.89, is reported and never compared. *)
TaintBeacon(p) ==
  {Malignum("moral", TaintDepth(t.sigil), t.sigil, t.text) : t \in Scan[p].taints}

StructuralDepth ==
  [invisible_disruption |-> CAUTION, homoglyph_substitution |-> TRACE,
   encoded_concealment  |-> TRACE,   markup_intrusion       |-> GRAVE]

(* Only the GRAVE sentence can be remembered, so it stands for all four. *)
SanitasSwarm(p) ==
  {Malignum(IF s = "homoglyph_substitution" THEN "symbolic" ELSE "moral",
            StructuralDepth[s], s, MarkupNote) : s \in Scan[p].structure}

DeceptionVeracity(hits) == Least(96, 55 + 14 * hits)

DeceptionDepth(kind) ==
  IF kind \in {"gaslighting_veil", "authority_forgery", "integrity_smear"}
  THEN GRAVE ELSE CAUTION

LogosScythe(p, a) ==
  {Malignum("narcissis", DeceptionDepth(d.sigil), d.sigil, d.text) :
     d \in {d \in Scan[p].deceptions :
              DeceptionVeracity(d.hits) >= a["logos_scythe"]}}

ParasiticDepth ==
  [token_flood_attack |-> GRAVE, repetition_loop_attack |-> CAUTION,
   context_stuffing   |-> TRACE, entropy_collapse       |-> CAUTION]

EntropicWatch(p) ==
  {Malignum("parasitic", ParasiticDepth[s], s, FloodNote) : s \in Scan[p].parasites}

(* The cells that read the text alone, at the acuities a. *)
TextFindings(p, a) ==
  VanguardProbe(p, a) \cup TaintBeacon(p) \cup SanitasSwarm(p)
    \cup LogosScythe(p, a) \cup EntropicWatch(p)

MemoryVeracity == 87

(* One antibody_resonance for every LISTED engram that occurs in the text: *)
(* an engram listed twice is reported twice.                               *)
MnemosyneCache(p) ==
  IF MemoryVeracity >= acuity["mnemosyne_cache"]
  THEN UNION {{e} \X (1 .. engrams[e]) : e \in EngramsOf(Scan[p].quotes)}
  ELSE {}

Signals(p, depth) ==
  Cardinality({m \in TextFindings(p, acuity) : m.depth = depth})
    + Cardinality({r \in MnemosyneCache(p) : r[1].depth = depth})

FinalityForge(p) ==
  IF Signals(p, CONDEMNED) >= 1 \/ Signals(p, GRAVE) >= 3
  THEN {Malignum("systemic", CONDEMNED, "compound_condemnation", ForgeNote)}
  ELSE {}

----------------------------------------------------------------------------
(* The verdict, as the pipeline would give it in the current state.         *)

Depths(p) ==
  {m.depth : m \in TextFindings(p, acuity) \cup FinalityForge(p)}
    \cup {r[1].depth : r \in MnemosyneCache(p)}

SovereigntyDepth(p) ==
  LET depths == Depths(p)
  IN  CHOOSE d \in depths \cup {VOID} : \A other \in depths : other <= d

IsSanctified(p) == SovereigntyDepth(p) < CAUTION
IsCondemned(p) == SovereigntyDepth(p) >= CONDEMNED

(* A relay that waits for CONDEMNED. *)
MutantConfirmedCondemned(p) ==
  {m \in TextFindings(p, acuity) \cup FinalityForge(p) : m.depth >= CONDEMNED}

(* The Maligna relayed to memory after the verdict. *)
Confirmed(p) == {m \in TextFindings(p, acuity) \cup FinalityForge(p) : m.depth >= GRAVE}

EngramOf(m) == [text |-> m.fragment, class |-> m.class, depth |-> m.depth]
AntibodyOf(m) == [class |-> m.class, sigil |-> m.sigil, fragment |-> m.fragment]
ResonanceAntibody(r) ==
  [class |-> r[1].class, sigil |-> "antibody_resonance", fragment |-> r[1].text]

(* An inscription that keeps no engram of a structural or compound finding. *)
MutantInscribeQuotedOnly(p) ==
  /\ vault' = vault \cup {AntibodyOf(m) : m \in Confirmed(p)}
                    \cup {ResonanceAntibody(r) : r \in MnemosyneCache(p)}
  /\ engrams' = [e \in Engram |->
                   engrams[e]
                     + Cardinality({m \in Confirmed(p) :
                                      m.fragment \in Long \cap Scan[p].quotes
                                        /\ EngramOf(m) = e})]

(* inscribe, for every confirmed finding of p, those of memory included:   *)
(* the vault is keyed, the list of engrams only grows.                     *)
Inscribe(p) ==
  LET confirmed == Confirmed(p)
      resonances == MnemosyneCache(p)
  IN  /\ vault' = vault \cup {AntibodyOf(m) : m \in confirmed}
                        \cup {ResonanceAntibody(r) : r \in resonances}
      /\ engrams' = [e \in Engram |->
                       engrams[e]
                         + Cardinality({m \in confirmed :
                                          m.fragment \in Long /\ EngramOf(m) = e})
                         + Cardinality({r \in resonances :
                                          r[1].text \in Long /\ r[1] = e})]

(* A heighten of half a step. *)
MutantHeightenHalf(a) == Least(100, a + 5)

(* A broadcast that misses the shared cache. *)
MutantStormSkipsMemory ==
  acuity' = [c \in Cell |-> IF c = "mnemosyne_cache" THEN acuity[c]
                            ELSE Least(100, acuity[c] + 10)]

(* broadcast_cytokine_storm: every cell of the registry is heightened. *)
Heighten(a) == Least(100, a + 10)
BroadcastCytokineStorm == acuity' = [c \in Cell |-> Heighten(acuity[c])]

----------------------------------------------------------------------------
Init ==
  /\ acuity = [c \in Cell |-> Baseline[c]]
  /\ vault = {}
  /\ engrams = [e \in Engram |-> 0]
  /\ adjudications = 0
  /\ condemnations = 0
  /\ quarantines = 0
  /\ flagged = {}

(* A pipeline that attenuates every cell after a verdict below GRAVE. *)
MutantRespondAttenuates(p) ==
  \/ /\ SovereigntyDepth(p) >= GRAVE
     /\ Inscribe(p)
     /\ BroadcastCytokineStorm
     /\ condemnations' = condemnations + (IF IsCondemned(p) THEN 1 ELSE 0)
     /\ quarantines' = quarantines + (IF IsCondemned(p) THEN 0 ELSE 1)
     /\ flagged' = flagged \cup {p}
  \/ /\ SovereigntyDepth(p) < GRAVE
     /\ acuity' = [c \in Cell |-> IF acuity[c] <= 20 THEN 10 ELSE acuity[c] - 10]
     /\ UNCHANGED <<memory, condemnations, quarantines, flagged>>

(* The part of adjudicate after the verdict. *)
Respond(p) ==
  \/ /\ SovereigntyDepth(p) >= GRAVE
     /\ Inscribe(p)
     /\ BroadcastCytokineStorm
     /\ condemnations' = condemnations + (IF IsCondemned(p) THEN 1 ELSE 0)
     /\ quarantines' = quarantines + (IF IsCondemned(p) THEN 0 ELSE 1)
     /\ flagged' = flagged \cup {p}
  \/ /\ SovereigntyDepth(p) < GRAVE
     /\ UNCHANGED <<acuity, memory, condemnations, quarantines, flagged>>

Adjudicate(p) ==
  /\ adjudications < MaxAdjudications
  /\ adjudications' = adjudications + 1
  /\ Respond(p)

Next == \E p \in Payload : Adjudicate(p)

Spec == Init /\ [][Next]_vars

----------------------------------------------------------------------------
(* Properties. *)

Storms == condemnations + quarantines

(* Each verdict at GRAVE or above is counted once and heightens every cell *)
(* exactly once: the counters of codex() and the seven acuities, changed   *)
(* in different methods of different objects, never drift apart.           *)
AcuityFollowsStorms ==
  \A c \in Cell : acuity[c] = Least(100, Baseline[c] + 10 * Storms)

(* The memory answers only between the first storm and the second: its     *)
(* fixed confidence of 0.87 is below the acuity that two storms give it,   *)
(* and nothing in the core ever calls attenuate().                         *)
MemoryWindow ==
  Storms >= 2 => \A p \in Payload : MnemosyneCache(p) = {}

(* The cells at their first calibration catch p by a fragment that memory  *)
(* can store (it is long enough) and read back (p quotes it verbatim).     *)
Rememberable(p) ==
  \E m \in TextFindings(p, Baseline) :
    m.depth >= GRAVE /\ m.fragment \in Long \cap Scan[p].quotes

(* Inside that window the memory does its work: when the one payload that  *)
(* raised the first storm comes back it is GRAVE again, even if the cell   *)
(* that caught it has been heightened past its own confidence.             *)
FirstRepeatCaught ==
  Storms = 1 =>
    \A p \in flagged : Rememberable(p) => SovereigntyDepth(p) >= GRAVE

(* Harm, taint and markup findings do not depend on acuity, so however     *)
(* many storms have passed a payload is never judged below them.           *)
UnconditionalDepths(p) ==
  {HarmDepth(h.sigil) : h \in Scan[p].harms} \cup {TaintDepth(t.sigil) : t \in Scan[p].taints}
    \cup {StructuralDepth[s] : s \in Scan[p].structure}
    \cup {ParasiticDepth[s] : s \in Scan[p].parasites}

UnconditionalFloor ==
  \A p \in Payload : \A d \in UnconditionalDepths(p) : SovereigntyDepth(p) >= d

(* The vault and the list of engrams, written by the same inscribe, hold   *)
(* the same threats: every listed engram has its antibody, and every       *)
(* antibody long enough to be listed is listed.                            *)
VaultMatchesEngrams ==
  /\ \A e \in Engram : engrams[e] > 0 =>
       \E k \in vault : k.class = e.class /\ k.fragment = e.text
  /\ \A k \in vault : k.fragment \in Long =>
       \E e \in Engram : e.text = k.fragment /\ e.class = k.class /\ engrams[e] > 0

(* What a storm does to detection: no step ever lets a cell find in a      *)
(* payload something it did not find before.                               *)
DetectionOnlyShrinks ==
  [][\A p \in Payload : TextFindings(p, acuity') \subseteq TextFindings(p, acuity)]_vars

(* What the documentation says of it (aegis.py:316-322 and 1143-1151):     *)
(* after a broadcast the system is more sensitive to subsequent inputs,    *)
(* so no payload is judged milder than it would have been before.          *)
StormsSharpen ==
  [][\A p \in Payload : SovereigntyDepth(p)' >= SovereigntyDepth(p)]_vars
=============================================================================
