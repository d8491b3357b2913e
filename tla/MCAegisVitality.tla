-------------------------- MODULE MCAegisVitality --------------------------
(***************************************************************************)
(* An instance of AegisVitality for TLC: the corpora of KineticRegimen as  *)
(* the core reads them, texts that are all alike to it taken together,     *)
(* and callers that bring a text the core spares and two that it does not, *)
(* on which evolution and sleep have work to do.                           *)
(***************************************************************************)
EXTENDS AegisVitality, SequencesExt

(* "brief" is the fragment of a clue that is never grave enough to be      *)
(* kept.  "sudo" is kept and is shorter than a sleep allows.  The engram   *)
(* of "bracket" is what a template opens with, and "inner", a condemned    *)
(* phrase, is most of it.                                                  *)
MCLength ==
  [override |-> 32, dan |-> 15, weapon |-> 19, authorized |-> 25, brief |-> 9,
   markup |-> 40, flood |-> 40, forge |-> 40,
   sudo |-> 9, inner |-> 32, bracket |-> 40]

Note == {"markup", "flood", "forge"}

MCFragment == DOMAIN MCLength

MCInside == {<<"inner", "bracket">>}

(* What mutation makes of two of the fragments: with a synonym, which no   *)
(* text here has, with an optional word, and with loose spaces.            *)
MCCoverage ==
  [override_synonym |-> 72, override_optional |-> 68, override_loose |-> 65,
   weapon_optional |-> 68, weapon_loose |-> 65]

MCPattern == DOMAIN MCCoverage

MCSynthesized ==
  [f \in MCFragment |->
     CASE f = "override" -> {"override_synonym", "override_optional", "override_loose"}
       [] f = "weapon" -> {"weapon_optional", "weapon_loose"}
       [] OTHER -> {}]

Unseen ==
  [injections |-> {}, harms |-> {}, taints |-> {}, structure |-> {},
   deceptions |-> {}, parasites |-> {}, quotes |-> {}]

Hit(sigil, text, words) == [sigil |-> sigil, text |-> text, words |-> words]
Harmful(sigil, text) == [sigil |-> sigil, text |-> text]
Cluster(sigil, text, hits) == [sigil |-> sigil, text |-> text, hits |-> hits]
Variant(pattern, words) == [pattern |-> pattern, words |-> words]

OverrideHit == Hit("override_anterior", "override", 4)
DanHit == Hit("persona_seizure", "dan", 4)

Found ==
  [clean |-> Unseen,
   framing |-> Unseen,
   long |-> Unseen,
   override |-> [Unseen EXCEPT !.injections = {OverrideHit}, !.quotes = {"override"}],
   dan |-> [Unseen EXCEPT !.injections = {DanHit}, !.quotes = {"dan"}],
   invisible |-> [Unseen EXCEPT !.structure = {"invisible_disruption"}],
   repetition |-> [Unseen EXCEPT !.parasites = {"repetition_loop_attack"}],
   sixfold |-> [Unseen EXCEPT
      !.injections = {OverrideHit, DanHit},
      !.harms = {Harmful("mass_harm_facilitation", "weapon")},
      !.structure = {"markup_intrusion"},
      !.deceptions = {Cluster("authority_forgery", "authorized", 1)},
      !.quotes = {"override", "dan", "weapon", "authorized"}],
   semantic |-> [Unseen EXCEPT !.deceptions = {Cluster("triangulation_web", "brief", 1)}],
   weapon |-> [Unseen EXCEPT !.harms = {Harmful("mass_harm_facilitation", "weapon")},
                             !.quotes = {"weapon"}],
   ascent |-> [Unseen EXCEPT !.injections = {Hit("privilege_ascent", "sudo", 2), OverrideHit},
                             !.quotes = {"sudo", "override"}],
   inner |-> [Unseen EXCEPT !.taints = {Harmful("self_harm_facilitation", "inner")},
                            !.quotes = {"inner"}],
   bracketed |-> [Unseen EXCEPT
      !.injections = {Hit("template_injection", "bracket", 9)},
      !.taints = {Harmful("self_harm_facilitation", "inner")},
      !.quotes = {"inner", "bracket"}]]

MCText == DOMAIN Found

MCSaid == {"clean", "ascent", "bracketed"}

MCScan ==
  [d \in MCText \X BOOLEAN |->
     IF d = <<"long", TRUE>> THEN [Unseen EXCEPT !.parasites = {"token_flood_attack"}]
     ELSE Found[d[1]]]

(* The probiome strips the invisible characters, and nothing else here.    *)
MCReading ==
  [t \in MCText |->
     [protein |-> CASE t = "framing" -> {4} [] t = "long" -> {8} [] OTHER -> {},
      b12 |-> IF t = "long" THEN {2} ELSE {},
      derived |-> CASE t \in {"override", "ascent"} ->
                         {Variant("override_optional", 4), Variant("override_loose", 4)}
                    [] t = "weapon" -> {Variant("weapon_optional", 3), Variant("weapon_loose", 3)}
                    [] OTHER -> {},
      obscured |-> t = "invisible",
      clean |-> IF t = "invisible" THEN "clean" ELSE t]]

Item(phase, text, expected) == [phase |-> phase, text |-> text, expected |-> expected]

(* The five warm-up texts are all clean, and stand here as one. *)
MCCorpus ==
  << Item("warm_up", "clean", 0),
     Item("aerobic", "override", 3), Item("aerobic", "dan", 3),
     Item("aerobic", "invisible", 2), Item("aerobic", "clean", 0),
     Item("aerobic", "repetition", 2), Item("aerobic", "framing", 2),
     Item("sprint", "sixfold", 3), Item("sprint", "semantic", 2) >>

Alike == Permutations(Caller)
=============================================================================
