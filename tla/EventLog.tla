------------------------------ MODULE EventLog ------------------------------
(***************************************************************************)
(* What the two hash-chained ledgers of the project promise their readers: *)
(* a log of events that can be extended at its end and never rewritten.    *)
(*                                                                         *)
(* security/vault.py keeps every event it can still vouch for, and may     *)
(* lose a tail of them when its process restarts: Extend(0) and Lose.      *)
(* mythos_runtime/assurance.py drops events from the front, under its      *)
(* retention limits, and remembers in the anchor which event the rest      *)
(* follows: RetainedSpec.                                                  *)
(***************************************************************************)
EXTENDS Integers, Sequences

CONSTANT Genesis   \* the anchor of a log from which nothing was dropped

VARIABLES
  anchor,  \* id of the last event dropped from the front
  log      \* the events after it, records with a field id

logVars == <<anchor, log>>

Init == anchor = Genesis /\ log = << >>

(* The first n events go, and one event is added behind the rest. *)
Extend(n) ==
  /\ Len(log') = Len(log) - n + 1
  /\ \A i \in 1 .. Len(log) - n : log'[i] = log[n + i]
  /\ anchor' = IF n = 0 THEN anchor ELSE log[n].id

(* The events behind the first n are lost. *)
Cut(n) == log' = SubSeq(log, 1, n) /\ UNCHANGED anchor

(* A tail of the log is lost. *)
Lose == \E n \in 0 .. Len(log) : Cut(n)

(* The store of the log is removed. *)
Erase == log' = << >> /\ anchor' = Genesis

RetainedSpec ==
  Init /\ [][Erase \/ \E n \in 0 .. Len(log) : Extend(n)]_logVars
=============================================================================
