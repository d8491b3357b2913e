---------------------------- MODULE AegisHarness ----------------------------
(***************************************************************************)
(* The agent loop (python/ethos_aegis/harness/orchestrator.py, with its    *)
(* guardrails, verifier and tool registry), run again and again under one  *)
(* session_id over one CheckpointStore.                                    *)
(*                                                                         *)
(* run is a generator: its consumer may drop it at any yield, and any call *)
(* to the model, a tool or the file system may raise or be the last thing  *)
(* the process does.  All of these lose the state in memory and are Crash. *)
(***************************************************************************)
EXTENDS CheckpointStore, HarnessContext, OutputParser

CONSTANTS
  Readonly,             \* the tools whose schema says so
  MaxToolRetries        \* HarnessConfig.max_tool_retries

ASSUME HarnessAssumption == Readonly \subseteq Tool /\ MaxToolRetries \in Nat

(* What the immune core makes of a text; "error" is adjudicate raising. *)
Depth == {"cleared", "error", "GRAVE", "CONDEMNED"}

(* GuardrailVerdict.tripwire and .passed: an error passes. *)
Tripwire(depth) == depth = "CONDEMNED"
Passed(depth) == depth \in {"cleared", "error"}

VARIABLES
  pc,         \* where the loop stands; "idle" between runs
  state,      \* HarnessState of the run
  pending,    \* calls of the batch that have no result yet, with their attempts
  results,    \* results of the batch, in the order they arrived
  runs,
  recent,     \* history: the checkpoint completed last
  finished    \* history: the sessions whose end is in a completed checkpoint

vars == <<disk, progress, pc, state, pending, results, runs, recent, finished>>

history == <<recent, finished>>

----------------------------------------------------------------------------
Init ==
  /\ disk = [n \in Step |-> Absent]
  /\ progress = FALSE
  /\ pc = "idle"
  /\ state = Absent
  /\ pending = << >>
  /\ results = << >>
  /\ runs = 0
  /\ recent = Absent
  /\ finished = {}

(* The generator ends without another save. *)
Abandon ==
  /\ pc' = "idle" /\ state' = Absent /\ pending' = << >> /\ results' = << >>
  /\ UNCHANGED <<disk, progress, runs, recent, finished>>

(* write_progress, between runs. *)
WriteProgress ==
  /\ pc = "idle" /\ ~progress
  /\ progress' = TRUE
  /\ UNCHANGED <<disk, pc, state, pending, results, runs, history>>

Fresh == [session |-> runs + 1, turns |-> 0, messages |-> << >>, reason |-> "none"]

(* The state a run begins with. *)
Loaded == IF Latest = Absent THEN Fresh ELSE IF Terminated(Latest) THEN Fresh ELSE Latest

(* A resumption that keeps the counters and forgets the conversation, and  *)
(* one that keeps the conversation and counts its turns anew.              *)
MutantStartForgets(depth) ==
  /\ pc = "idle" /\ runs < MaxRuns /\ Loadable /\ ~Tripwire(depth)
  /\ state' = [Loaded EXCEPT !.messages = <<"goal">>]
  /\ pc' = "turn"
  /\ runs' = runs + 1
  /\ UNCHANGED <<disk, progress, pending, results, history>>
MutantStartRecounts(depth) ==
  /\ pc = "idle" /\ runs < MaxRuns /\ Loadable /\ ~Tripwire(depth)
  /\ state' = [Loaded EXCEPT !.messages = @ \o <<"goal">>, !.turns = 0]
  /\ pc' = "turn"
  /\ runs' = runs + 1
  /\ UNCHANGED <<disk, progress, pending, results, history>>

(* run, up to the loop: resume or begin, pass the input guardrail, and put *)
(* the goal (once more) at the end of the conversation.                    *)
Start(depth) ==
  /\ pc = "idle" /\ runs < MaxRuns /\ Loadable /\ ~Tripwire(depth)
  /\ state' = [Loaded EXCEPT !.messages = @ \o <<"goal">>]
  /\ pc' = "turn"
  /\ runs' = runs + 1
  /\ UNCHANGED <<disk, progress, pending, results, history>>

(* The latest file cannot be loaded, or the goal trips the guardrail. *)
StartFails(depth) ==
  /\ pc = "idle" /\ runs < MaxRuns
  /\ ~Loadable \/ Tripwire(depth)
  /\ runs' = runs + 1
  /\ UNCHANGED <<disk, progress, pc, state, pending, results, history>>

(* A turn begins: the limits are tested, then the prompt is paid for. *)
BeginTurn ==
  /\ pc = "turn"
  /\ \/ /\ state.turns + 1 > MaxTurns
        /\ state' = [state EXCEPT !.turns = @ + 1, !.reason = "max_turns"]
        /\ pc' = "open"
     \/ /\ state.turns + 1 <= MaxTurns
        /\ state' = [state EXCEPT !.turns = @ + 1, !.reason = "token_budget"]
        /\ pc' = "open"
     \/ /\ state.turns + 1 <= MaxTurns
        /\ state' = [state EXCEPT !.turns = @ + 1]
        /\ pc' = "model"
  /\ UNCHANGED <<disk, progress, pending, results, runs, history>>

(* A retry that hands its turn back. *)
MutantRetryTransientFree ==
  /\ pc = "model"
  /\ pc' = "turn"
  /\ state' = [state EXCEPT !.turns = @ - 1]
  /\ UNCHANGED <<disk, progress, pending, results, runs, history>>

(* The model call fails, transiently: the next turn tries again. *)
RetryTransient ==
  /\ pc = "model"
  /\ pc' = "turn"
  /\ UNCHANGED <<disk, progress, state, pending, results, runs, history>>

(* Or otherwise; or the answer, or a tool call, trips the guardrail: run   *)
(* returns, and the reason it sets is not saved.                           *)
Halt == pc = "model" /\ Abandon

(* The model hands over to a sub-agent, which nothing starts. *)
Handoff(r) ==
  /\ pc = "model" /\ Parse(r).handoff
  /\ state' = [state EXCEPT !.reason = "final_answer"]
  /\ pc' = "open"
  /\ UNCHANGED <<disk, progress, pending, results, runs, history>>

(* The model answers, and the guardrail lets it. *)
Answers(r, depth) == pc = "model" /\ Parse(r).final /\ ~Tripwire(depth)

(* The answer passes the verifiers: it goes to the consumer, then is saved.*)
Answer(r, depth, verdicts) ==
  /\ Answers(r, depth) /\ Verified(verdicts)
  /\ state' = [state EXCEPT !.messages = @ \o <<"assistant">>, !.reason = "final_answer"]
  /\ pc' = "open"
  /\ UNCHANGED <<disk, progress, pending, results, runs, history>>

(* The answer does not: the model is asked to correct it. *)
Correct(r, depth, verdicts) ==
  /\ Answers(r, depth) /\ ~Verified(verdicts)
  /\ state' = [state EXCEPT !.messages = @ \o <<"assistant", "correction">>]
  /\ pc' = "turn"
  /\ UNCHANGED <<disk, progress, pending, results, runs, history>>

(* The model calls tools; a call judged GRAVE is dropped. *)
CallTools(r, depths) ==
  LET batch == Parse(r).calls
      kept == SelectSeq([i \in 1 .. Len(batch) |-> i], LAMBDA i : Passed(depths[i]))
  IN  /\ pc = "model" /\ ~Parse(r).handoff /\ ~Parse(r).final
      /\ \A i \in 1 .. Len(batch) : ~Tripwire(depths[i])
      /\ pending' = [k \in 1 .. Len(kept) |-> [tool |-> batch[kept[k]], attempts |-> 0]]
      /\ pc' = "tools"
      /\ UNCHANGED <<disk, progress, state, results, runs, history>>

(* execute_batch: read-only calls side by side, then the others in order.  *)
MayRun(i) ==
  \/ pending[i].tool \in Readonly
  \/ i = 1 /\ \A j \in 1 .. Len(pending) : pending[j].tool \notin Readonly

Return(i) ==
  /\ results' = Append(results, "tool")
  /\ pending' = RemoveAt(pending, i)

(* _execute_one, one attempt of it.  The call has its result when it works,*)
(* when it fails once too often, or when a high-risk call is not approved; *)
(* else it is tried again.                                                 *)
Attempt(i) ==
  /\ pc = "tools" /\ MayRun(i)
  /\ \/ Return(i)
     \/ /\ pending[i].attempts < MaxToolRetries
        /\ pending' = [pending EXCEPT ![i].attempts = @ + 1]
        /\ UNCHANGED results
  /\ UNCHANGED <<disk, progress, pc, state, runs, history>>

(* The results become messages. *)
Package ==
  /\ pc = "tools" /\ pending = << >>
  /\ state' = [state EXCEPT !.messages = @ \o <<"assistant">> \o results]
  /\ results' = << >>
  /\ pc' = "open"
  /\ UNCHANGED <<disk, progress, pending, runs, history>>

(* CheckpointStore.save, as the file system sees it. *)
OpenCheckpoint ==
  /\ pc = "open"
  /\ Truncate(state.turns)
  /\ pc' = "write"
  /\ UNCHANGED <<progress, state, pending, results, runs, history>>

WriteCheckpoint ==
  /\ pc = "write"
  /\ Write(state.turns, state)
  /\ recent' = state
  /\ IF Terminated(state)
     THEN /\ pc' = "idle" /\ state' = Absent /\ finished' = finished \cup {state.session}
     ELSE /\ pc' = "turn"
          /\ UNCHANGED <<state, finished>>
  /\ UNCHANGED <<progress, pending, results, runs>>

Crash == pc # "idle" /\ Abandon

Loop ==
  \/ BeginTurn \/ RetryTransient \/ Halt
  \/ \E r \in Response :
       \/ Handoff(r)
       \/ \E depth \in Depth : \E verdicts \in Verdicts :
            Answer(r, depth, verdicts) \/ Correct(r, depth, verdicts)
       \/ \E depths \in [1 .. Len(Parse(r).calls) -> Depth] : CallTools(r, depths)
  \/ \E i \in 1 .. Len(pending) : Attempt(i)
  \/ Package \/ OpenCheckpoint \/ WriteCheckpoint

Next ==
  \/ Loop \/ Crash \/ WriteProgress
  \/ \E depth \in Depth : Start(depth) \/ StartFails(depth)

Spec == Init /\ [][Next]_vars

(* The consumer of the generator asks for the next event, the model and    *)
(* the tools return or raise.                                              *)
FairSpec == Spec /\ WF_vars(Loop)

----------------------------------------------------------------------------
(* Properties. *)

Readable(n) == disk[n] \notin {Absent, Torn}

(* Resuming neither forks nor forgets: every checkpoint of the session in  *)
(* progress, written before whatever crashes, holds a beginning of the     *)
(* conversation in memory and no more turns than it.                       *)
HistoryDurable ==
  state # Absent =>
    \A n \in Step :
      Readable(n) => (disk[n].session = state.session =>
        disk[n].turns <= state.turns /\ IsPrefix(disk[n].messages, state.messages))

(* A session whose end reached the disk is never run again, although its   *)
(* unfinished checkpoints stay there and later sessions overwrite some.    *)
FinishedStaysFinished == state # Absent => state.session \notin finished

(* load_latest misses the checkpoint written last only when an older,      *)
(* finished session of the same session_id got to a higher turn.           *)
LostOnlyToShadow ==
  Loadable /\ recent # Absent =>
    Latest = recent \/ (Terminated(Latest) /\ Latest.session < recent.session)

(* Every run ends, whatever the model answers and however often it fails.  *)
RunEnds == pc # "idle" ~> pc = "idle"

(* The results in a conversation that no earlier prompt held. *)
Unseen(messages) ==
  {i \in 1 .. Len(messages) :
     messages[i] = "tool" /\ \A j \in i .. Len(messages) : messages[j] # "assistant"}

(* Whatever the length of the conversation, a resumption in its middle and *)
(* the budget: the model is shown the goal the session began with, the     *)
(* message it is to reply to, and in full every tool result it has not     *)
(* seen in an earlier prompt.  Only a batch of more results than Recent    *)
(* can be masked before the model has read it.                             *)
PromptShowsWork ==
  pc = "model" =>
    LET n == Len(state.messages)
        unseen == Unseen(state.messages)
    IN  Cardinality(unseen) <= Recent =>
          \A over \in BOOLEAN : \A keyword \in SUBSET (1 .. n) :
            unseen \cup {1, n} \subseteq Shown(state.messages, over, keyword)
=============================================================================
