---------------------------- MODULE MCEthosAegis ----------------------------
(* A small instance of EthosAegis: eight payloads, one for each way a      *)
(* finding can depend on acuity and on memory.                              *)
EXTENDS EthosAegis

MCFragment == {"override", "god mode", "promised", "approved", "joined",
               "lethal dose", "markup note", "flood note", "forge note"}

(* "god mode" is eight characters long: inscribe keeps nine and more. *)
MCLong == MCFragment \ {"god mode"}

Nothing == [injections |-> {}, harms |-> {}, taints |-> {}, structure |-> {},
            deceptions |-> {}, parasites |-> {}, quotes |-> {}]

InjectionHit(sigil, text, words) == [sigil |-> sigil, text |-> text, words |-> words]
Cluster(sigil, text, hits) == [sigil |-> sigil, text |-> text, hits |-> hits]

MCScan ==
  [clean    |-> Nothing,
   inject   |-> [Nothing EXCEPT !.injections = {InjectionHit("override_anterior", "override", 4)},
                                !.quotes = {"override"}],
   short    |-> [Nothing EXCEPT !.injections = {InjectionHit("privilege_ascent", "god mode", 2)},
                                !.quotes = {"god mode"}],
   gaslight |-> [Nothing EXCEPT !.deceptions = {Cluster("gaslighting_veil", "promised", 1)},
                                !.quotes = {"promised"}],
   split    |-> [Nothing EXCEPT !.injections = {InjectionHit("override_anterior", "override", 4)},
                                !.deceptions = {Cluster("gaslighting_veil", "joined", 3),
                                                Cluster("authority_forgery", "approved", 1),
                                                Cluster("urgency_forge", "joined", 2)},
                                !.quotes = {"override", "promised", "approved"}],
   harm     |-> [Nothing EXCEPT !.taints = {[sigil |-> "self_harm_facilitation",
                                             text |-> "lethal dose"]},
                                !.harms = {[sigil |-> "intrusion_facilitation",
                                            text |-> "override"]},
                                !.quotes = {"lethal dose", "override"}],
   markup   |-> [Nothing EXCEPT !.structure = {"markup_intrusion", "invisible_disruption"},
                                !.parasites = {"repetition_loop_attack"}],
   report   |-> [Nothing EXCEPT !.structure = {"encoded_concealment"},
                                !.quotes = {"forge note", "markup note"}]]

MCPayload == DOMAIN MCScan
=============================================================================
