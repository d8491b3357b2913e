---------------------------- MODULE MCAegisClient ----------------------------
(***************************************************************************)
(* AegisClient with a Python client, one of Go with a retry, and four      *)
(* messages: an innocent one, one with invisible characters, an attack     *)
(* that three cells find until the core has been heightened, and nothing.  *)
(***************************************************************************)
EXTENDS AegisClient

MCFragment == {"override", "promised", "note"}

Unseen ==
  [injections |-> {}, harms |-> {}, taints |-> {}, structure |-> {},
   deceptions |-> {}, parasites |-> {}, quotes |-> {}]

MCScan ==
  [clean  |-> Unseen,
   hidden |-> [Unseen EXCEPT !.structure = {"encoded_concealment"}],
   attack |-> [Unseen EXCEPT
     !.injections = {[sigil |-> "override_anterior", text |-> "override", words |-> 4]},
     !.deceptions = {[sigil |-> "gaslighting_veil", text |-> "promised", hits |-> 1],
                     [sigil |-> "authority_forgery", text |-> "promised", hits |-> 1]},
     !.quotes = {"override", "promised"}],
   empty  |-> Unseen]

MCPayload == DOMAIN MCScan

MCPack == [p \in MCPayload |->
  [protein |-> {}, b12 |-> IF p = "attack" THEN {1} ELSE {}]]

MCMaxCalls == [python |-> 2, go |-> 1]
MCRetries == [python |-> 0, go |-> 2]
MCEvolveEvery == [python |-> 2, go |-> 0]
=============================================================================
