--------------------------- MODULE CheckpointStore ---------------------------
(***************************************************************************)
(* The files of one harness session                                        *)
(* (python/ethos_aegis/harness/state.py): one checkpoint per turn number,  *)
(* and the progress file beside them.                                      *)
(*                                                                         *)
(* A state is what _serialise writes.  The goal it belongs to is told by   *)
(* session, the number of the run that began it: one session_id may see    *)
(* several goals.  tokens_used is left out: whether a prompt finds the     *)
(* token budget spent is a choice.                                         *)
(***************************************************************************)
EXTENDS SequencesExt

CONSTANTS
  MaxTurns,      \* HarnessConfig.max_turns
  MaxRuns,       \* bound on the calls of run
  Absent, Torn   \* no such file; a file whose writer did not finish

(* A message is told by what it is: goal and correction both have          *)
(* Role.USER.                                                              *)
Message == {"goal", "assistant", "correction", "tool"}

(* The TerminationReasons that are saved, and "none" while there is none. *)
Reason == {"none", "final_answer", "max_turns", "token_budget"}

(* The session is the number of the run that began it. *)
HarnessState == [session : Nat, turns : Nat, messages : Seq(Message), reason : Reason]

ASSUME StoreAssumption ==
  /\ MaxTurns \in Nat /\ MaxRuns \in Nat
  /\ Absent # Torn /\ Absent \notin HarnessState /\ Torn \notin HarnessState

(* The run that finds its turns used up still saves, under one more number. *)
Step == 1 .. MaxTurns + 1

Terminated(state) == state.reason # "none"

VARIABLES
  disk,      \* the checkpoint files
  progress   \* whether progress.json exists

----------------------------------------------------------------------------
Saved == {n \in Step : disk[n] # Absent}

(* A search for the latest state that still has something to do. *)
MutantLatestUnfinished ==
  LET open == {n \in Saved : disk[n] = Torn \/ ~Terminated(disk[n])}
  IN  IF open = {} THEN IF Saved = {} THEN Absent ELSE disk[Max(Saved)]
      ELSE disk[Max(open)]

(* load_latest: the last file by name, whatever wrote it last. *)
Latest == IF Saved = {} THEN Absent ELSE disk[Max(Saved)]

(* progress.json sorts after every number, and has no session_id. *)
Loadable == ~progress /\ Latest # Torn

(* save: opening the file empties it, then the state is written. *)
Truncate(n) == disk' = [disk EXCEPT ![n] = Torn]
Write(n, state) == disk' = [disk EXCEPT ![n] = state]
=============================================================================
